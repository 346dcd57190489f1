----------------------- MODULE ProductLogUploadProofs -----------------------
(***************************************************************************)
(* Proofs about ProductLogUpload for any files, sizes and number of        *)
(* handler threads.  What the files hold is said of an upload whose tree   *)
(* no failed removal has torn.                                             *)
(***************************************************************************)
EXTENDS ProductLogUpload, TLAPS

\* A thread holds a lock exactly while it is in that lock's critical section.
LocksHeld ==
    \A r \in Requests :
        /\ req[r].pc = "writing" <=> uploadLock = r
        /\ req[r].pc \in {"cancelling", "start", "starting"} <=> managerLock = r

\* A thread with a chunk to write has a file of the upload.
ChunkInv ==
    \A r \in Requests :
        /\ req[r].pc \in {"chunk", "writing"} => req[r].file \in Files
        /\ req[r].pc = "chunk" => req[r].sent = 0

\* What write_chunk checked stays true while it writes.
WriterInv ==
    \A r \in Requests : req[r].pc = "writing" =>
        /\ req[r].file \in present
        /\ req[r].offset = offsets[req[r].file]
        /\ req[r].offset + req[r].length <= Size[req[r].file]
        /\ req[r].sent <= req[r].length
        /\ ~finished

\* The bytes on disk that write_chunk has not acknowledged yet.
InFlight(f) ==
    IF uploadLock \in Requests /\ req[uploadLock].file = f THEN req[uploadLock].sent ELSE 0

\* No removal has touched the upload's tree.
Intact == listed /\ ~torn

DiskInv ==
    Intact => \A f \in Files :
        InOrder(data[f]) /\ Len(data[f]) = offsets[f] + InFlight(f)

FlagInv ==
    /\ ~listed \/ torn => finished
    /\ finished /\ Intact => Complete /\ present = Files
    /\ claimed => finished /\ listed
    /\ uses = IF claimed THEN 1 ELSE 0

StartInv ==
    \A r \in Requests :
        /\ req[r].pc \in {"start", "starting"} => listed
        /\ req[r].pc = "starting" => finished /\ ~claimed

IInv == TypeOK /\ LocksHeld /\ ChunkInv /\ WriterInv /\ DiskInv /\ FlagInv /\ StartInv

-----------------------------------------------------------------------------
(* The invariant is inductive *)

LEMMA InitInv == Init => IInv
<1> SUFFICES ASSUME Init PROVE IInv
  OBVIOUS
<1> USE UploadAssumption DEF Init, Plain
<1>1. TypeOK
  <2>1. <<>> \in Seq(Nat)
    OBVIOUS
  <2>2. data \in [Files -> Seq(Nat)]
    BY <2>1
  <2>3. Plain("idle") \in Request
    BY DEF Request, Steps
  <2>4. req \in [Requests -> Request]
    BY <2>3
  <2>5. QED
    BY <2>2, <2>4 DEF TypeOK
<1>2. LocksHeld
  BY DEF LocksHeld
<1>3. DiskInv
  <2>1. \A f \in Files : data[f] = <<>> /\ offsets[f] = 0 /\ InFlight(f) = 0
    BY DEF InFlight
  <2>2. \A f \in Files : Len(data[f]) = 0
    BY <2>1
  <2>3. \A f \in Files : InOrder(data[f])
    BY <2>2 DEF InOrder
  <2>4. ASSUME NEW f \in Files PROVE Len(data[f]) = offsets[f] + InFlight(f)
    BY ONLY <2>1, <2>2
  <2>5. QED
    BY ONLY <2>3, <2>4 DEF DiskInv
<1>4. ChunkInv /\ WriterInv /\ FlagInv /\ StartInv
  BY DEF ChunkInv, WriterInv, FlagInv, StartInv
<1>5. QED
  BY <1>1, <1>2, <1>3, <1>4 DEF IInv

\* A step of one thread that leaves the upload's object and its directory
\* alone only has to respect the locks.
LEMMA QuietStep ==
    ASSUME IInv, NEW r \in Requests, NEW q \in Request,
           req' = [req EXCEPT ![r] = q],
           UNCHANGED <<uploadVars, diskVars, uses, uploadLock>>,
           req[r].pc # "writing", q.pc # "writing",
           q.pc = "chunk" => q.file \in Files /\ q.sent = 0,
           q.pc \in {"start", "starting"} => listed,
           q.pc = "starting" => finished /\ ~claimed,
           \/ /\ req[r].pc \notin {"cancelling", "start", "starting"}
              /\ q.pc \notin {"cancelling", "start", "starting"}
              /\ UNCHANGED managerLock
           \/ /\ req[r].pc \in {"cancelling", "start", "starting"}
              /\ q.pc \notin {"cancelling", "start", "starting"}
              /\ managerLock' = NoRequest
           \/ /\ managerLock = NoRequest \/ managerLock = r
              /\ q.pc \in {"cancelling", "start", "starting"}
              /\ managerLock' = r
    PROVE  IInv'
<1> USE UploadAssumption DEF IInv
<1> DEFINE Critical == {"cancelling", "start", "starting"}
<1>1. req'[r] = q /\ \A x \in Requests \ {r} : req'[x] = req[x]
  BY DEF TypeOK
<1>2. TypeOK'
  BY DEF TypeOK, uploadVars, diskVars
<1>3. LocksHeld'
  BY <1>1 DEF LocksHeld
<1>4. ChunkInv' /\ WriterInv'
  BY <1>1 DEF ChunkInv, WriterInv, uploadVars, diskVars
<1>5. DiskInv'
  <2>1. \A f \in Files : InFlight(f)' = InFlight(f)
    BY <1>1 DEF InFlight, LocksHeld
  <2>2. QED
    BY <2>1 DEF DiskInv, Intact, InOrder, uploadVars, diskVars
<1>6. FlagInv'
  BY DEF FlagInv, Intact, Complete, uploadVars, diskVars
<1>7. StartInv'
  BY <1>1 DEF StartInv, uploadVars
<1>8. QED
  BY <1>2, <1>3, <1>4, <1>5, <1>6, <1>7

\* The thread that writes a chunk is the only one, and its file is declared.
LEMMA WriterFacts ==
    ASSUME IInv, NEW r \in Requests, req[r].pc = "writing"
    PROVE  /\ uploadLock = r /\ managerLock # r
           /\ Intact /\ ~finished /\ ~claimed /\ req[r].file \in Files
           /\ req[r] \in Request
           /\ \A x \in Requests : req[x].pc = "writing" => x = r
           /\ \A x \in Requests : req[x].pc # "starting"
           /\ req[r].offset = offsets[req[r].file]
           /\ req[r].offset + req[r].length <= Size[req[r].file]
           /\ req[r].sent <= req[r].length
           /\ InOrder(data[req[r].file])
           /\ Len(data[req[r].file]) = req[r].offset + req[r].sent
<1> USE DEF IInv
<1>1. uploadLock = r /\ \A x \in Requests : req[x].pc = "writing" => x = r
  BY DEF LocksHeld
<1>2. managerLock # r
  BY DEF LocksHeld
<1>3. /\ ~finished /\ req[r].file \in Files
      /\ req[r].offset = offsets[req[r].file]
      /\ req[r].offset + req[r].length <= Size[req[r].file]
      /\ req[r].sent <= req[r].length
  BY DEF WriterInv, ChunkInv
<1>4. Intact /\ ~claimed /\ \A x \in Requests : req[x].pc # "starting"
  BY <1>3 DEF Intact, FlagInv, StartInv
<1>5. req[r] \in Request
  BY DEF TypeOK
<1>6. InFlight(req[r].file) = req[r].sent
  BY <1>1 DEF InFlight
<1>7. InOrder(data[req[r].file]) /\ Len(data[req[r].file]) = req[r].offset + req[r].sent
  BY <1>3, <1>4, <1>6 DEF DiskInv
<1>8. QED
  BY <1>1, <1>2, <1>3, <1>4, <1>5, <1>7

LEMMA AcceptChunkStep ==
    ASSUME IInv, NEW r \in Requests, AcceptChunk(r)
    PROVE  IInv'
<1> USE UploadAssumption DEF IInv, AcceptChunk, ChunkAllowed, uploadVars
<1>1. /\ req'[r].pc = "writing" /\ req'[r].file = req[r].file
      /\ req'[r].offset = req[r].offset /\ req'[r].length = req[r].length
      /\ req'[r].sent = 0
      /\ \A x \in Requests \ {r} : req'[x] = req[x]
  BY DEF TypeOK, Request, ChunkInv
<1>2. req[r].file \in Files /\ req[r] \in Request
  BY DEF ChunkInv, TypeOK
<1>3. TypeOK'
  BY <1>2 DEF TypeOK, Request, Steps
<1>4. LocksHeld'
  BY <1>1 DEF LocksHeld, TypeOK
<1>5. ChunkInv' /\ WriterInv' /\ StartInv'
  <2>1. \A x \in Requests : x # r => req[x].pc # "writing"
    BY DEF LocksHeld
  <2>2. 0 <= req[r].length
    BY <1>2 DEF Request
  <2>3. QED
    BY <1>1, <1>2, <2>1, <2>2 DEF ChunkInv, WriterInv, StartInv
<1>6. DiskInv'
  <2>1. \A f \in Files : InFlight(f) = 0
    BY DEF InFlight
  <2>2. \A f \in Files : InFlight(f)' = 0
    BY <1>1 DEF InFlight
  <2>3. QED
    BY <2>1, <2>2 DEF DiskInv, Intact, InOrder
<1>7. FlagInv'
  BY DEF FlagInv, Intact, Complete
<1>8. QED
  BY <1>3, <1>4, <1>5, <1>6, <1>7

LEMMA WriteByteStep ==
    ASSUME IInv, NEW r \in Requests, WriteByte(r)
    PROVE  IInv'
<1> USE UploadAssumption DEF WriteByte, uploadVars, lockVars
<1>0. req[r].pc = "writing"
  OBVIOUS
<1>g. PICK g \in Files : g = req[r].file
  BY <1>0, WriterFacts
<1>1. /\ uploadLock = r /\ Intact /\ ~finished /\ ~claimed /\ g \in Files
      /\ req[r] \in Request
      /\ \A x \in Requests : req[x].pc = "writing" => x = r
      /\ InOrder(data[g])
      /\ Len(data[g]) = req[r].offset + req[r].sent
  BY <1>0, <1>g, WriterFacts
<1>2. /\ req'[r].pc = "writing" /\ req'[r].file = g
      /\ req'[r].offset = req[r].offset /\ req'[r].length = req[r].length
      /\ req'[r].sent = req[r].sent + 1
      /\ \A x \in Requests \ {r} : req'[x] = req[x]
  BY <1>g DEF IInv, TypeOK, Request
<1>3. /\ data'[g] = Append(data[g], Len(data[g]) + 1)
      /\ \A f \in Files : f # g => data'[f] = data[f]
      /\ data[g] \in Seq(Nat)
      /\ data' = [data EXCEPT ![g] = Append(data[g], Len(data[g]) + 1)]
  BY <1>1, <1>g DEF IInv, TypeOK
<1>4. TypeOK'
  <2>1. Append(data[g], Len(data[g]) + 1) \in Seq(Nat)
    BY <1>3
  <2>2. data' \in [Files -> Seq(Nat)]
    BY <2>1, <1>3 DEF IInv, TypeOK
  <2>3. [req[r] EXCEPT !.sent = req[r].sent + 1] \in Request
    <3>1. req[r].sent + 1 \in Nat
      BY <1>1 DEF Request
    <3>2. QED
      BY <1>1, <3>1 DEF Request
  <2>4. req' \in [Requests -> Request]
    BY <2>3 DEF IInv, TypeOK
  <2>5. QED
    BY <2>2, <2>4 DEF IInv, TypeOK
<1>5. LocksHeld' /\ ChunkInv' /\ StartInv'
  BY <1>0, <1>2 DEF IInv, LocksHeld, ChunkInv, StartInv
<1>6. WriterInv'
  BY <1>0, <1>g, <1>1, <1>2 DEF IInv, WriterInv, Request
<1>7. DiskInv'
  <2>1. Len(data'[g]) = Len(data[g]) + 1 /\ InOrder(data'[g])
    BY <1>1, <1>3 DEF InOrder
  <2>2. InFlight(g)' = InFlight(g) + 1
    BY <1>1, <1>2 DEF InFlight, Request
  <2>3. \A f \in Files : f # g => InFlight(f)' = InFlight(f)
    BY <1>1, <1>2 DEF InFlight
  <2>4. \A f \in Files : f # g => InOrder(data'[f]) /\ Len(data'[f]) = offsets[f] + InFlight(f)'
    BY <1>1, <1>3, <2>3 DEF IInv, DiskInv
  <2>5. InOrder(data'[g]) /\ Len(data'[g]) = offsets[g] + InFlight(g)'
    <3>1. Len(data[g]) = offsets[g] + InFlight(g)
      BY <1>1 DEF IInv, DiskInv
    <3>2. offsets[g] \in Nat /\ InFlight(g) \in Nat
      BY <1>1 DEF InFlight, IInv, TypeOK, Request
    <3>3. QED
      BY ONLY <2>1, <2>2, <3>1, <3>2
  <2>6. QED
    BY <2>4, <2>5 DEF DiskInv, InOrder
<1>8. FlagInv'
  BY DEF IInv, FlagInv, Intact, Complete
<1>9. QED
  BY <1>4, <1>5, <1>6, <1>7, <1>8 DEF IInv

LEMMA EndOfChunk ==
    ASSUME IInv, NEW r \in Requests, BreakChunk(r) \/ CommitChunk(r)
    PROVE  IInv'
<1> USE UploadAssumption
<1>0. req[r].pc = "writing"
  BY DEF BreakChunk, CommitChunk
<1>g. PICK g \in Files : g = req[r].file
  BY <1>0, WriterFacts
<1>1. /\ uploadLock = r /\ Intact /\ ~finished /\ ~claimed /\ g \in Files
      /\ req[r] \in Request
      /\ \A x \in Requests : req[x].pc = "writing" => x = r
      /\ req[r].offset = offsets[g]
      /\ InOrder(data[g])
      /\ Len(data[g]) = req[r].offset + req[r].sent
  BY <1>0, <1>g, WriterFacts
<1>2. /\ req'[r] = Plain("idle")
      /\ \A x \in Requests \ {r} : req'[x] = req[x]
      /\ uploadLock' = NoRequest
      /\ UNCHANGED <<finished, claimed, listed, managerLock, present, torn, uses>>
  BY DEF BreakChunk, CommitChunk, Goto, IInv, TypeOK, uploadVars, diskVars
<1>3. LocksHeld' /\ ChunkInv' /\ StartInv' /\ WriterInv'
  BY <1>0, <1>1, <1>2 DEF IInv, LocksHeld, ChunkInv, StartInv, WriterInv, Plain
<1>4. data[g] \in Seq(Nat) /\ offsets[g] \in Nat /\ req[r].sent \in Nat /\ req[r].length \in Nat
  BY <1>1 DEF IInv, TypeOK, Request
<1>5. /\ data'[g] \in Seq(Nat) /\ offsets'[g] \in Nat
      /\ InOrder(data'[g]) /\ Len(data'[g]) = offsets'[g]
      /\ data' = [data EXCEPT ![g] = data'[g]]
      /\ offsets' = [offsets EXCEPT ![g] = offsets'[g]]
  <2>1. CASE BreakChunk(r)
    <3>1. data'[g] = SubSeq(data[g], 1, offsets[g]) /\ offsets' = offsets
      BY <1>1, <1>g, <2>1 DEF BreakChunk, uploadVars, IInv, TypeOK
    <3>2. offsets[g] <= Len(data[g])
      BY <1>1, <1>4
    <3>3. SubSeq(data[g], 1, offsets[g]) \in Seq(Nat) /\ Len(SubSeq(data[g], 1, offsets[g])) = offsets[g]
      BY <1>4, <3>2
    <3>4. \A i \in 1..offsets[g] : SubSeq(data[g], 1, offsets[g])[i] = data[g][i]
      BY <1>4, <3>2
    <3>5. InOrder(SubSeq(data[g], 1, offsets[g]))
      BY <1>1, <1>4, <3>2, <3>3, <3>4 DEF InOrder
    <3>6. data' = [data EXCEPT ![g] = SubSeq(data[g], 1, offsets[g])]
      BY <1>1, <1>g, <2>1 DEF BreakChunk
    <3>7. QED
      BY <1>1, <1>4, <3>1, <3>3, <3>5, <3>6 DEF IInv, TypeOK
  <2>2. CASE CommitChunk(r)
    <3>1. data' = data /\ offsets' = [offsets EXCEPT ![g] = offsets[g] + req[r].length]
      BY <1>g, <2>2 DEF CommitChunk, diskVars
    <3>2. req[r].sent = req[r].length
      BY <2>2 DEF CommitChunk
    <3>3. offsets'[g] = offsets[g] + req[r].length
      BY <3>1 DEF IInv, TypeOK
    <3>4. data = [data EXCEPT ![g] = data[g]]
      BY DEF IInv, TypeOK
    <3>5. QED
      <4>1. offsets'[g] \in Nat /\ Len(data[g]) = offsets'[g]
        BY ONLY <1>1, <1>4, <3>2, <3>3
      <4>2. QED
        BY <1>1, <1>4, <3>1, <3>3, <3>4, <4>1
  <2>3. QED
    BY <2>1, <2>2
<1>6. TypeOK'
  <2>1. data' \in [Files -> Seq(Nat)] /\ offsets' \in [Files -> Nat]
    BY <1>5 DEF IInv, TypeOK
  <2>2. Plain("idle") \in Request
    BY DEF Plain, Request, Steps
  <2>3. req' \in [Requests -> Request]
    BY <2>2 DEF BreakChunk, CommitChunk, Goto, IInv, TypeOK
  <2>4. QED
    BY <1>2, <2>1, <2>3 DEF IInv, TypeOK
<1>7. DiskInv'
  <2>1. \A f \in Files : InFlight(f)' = 0
    BY <1>2 DEF InFlight
  <2>2. \A f \in Files : f # g => InFlight(f) = 0
    BY <1>1, <1>g DEF InFlight
  <2>3. \A f \in Files : f # g => InOrder(data[f]) /\ Len(data[f]) = offsets[f]
    BY <1>1, <2>2 DEF IInv, DiskInv, TypeOK
  <2>4. \A f \in Files : f # g => data'[f] = data[f] /\ offsets'[f] = offsets[f]
    BY <1>5 DEF IInv, TypeOK
  <2>5. \A f \in Files : InOrder(data'[f]) /\ Len(data'[f]) = offsets'[f]
    BY <1>5, <2>3, <2>4
  <2>6. \A f \in Files : offsets'[f] \in Nat
    BY <1>6 DEF TypeOK
  <2>7. QED
    BY <2>1, <2>5, <2>6 DEF DiskInv, InOrder
<1>8. FlagInv'
  BY <1>1, <1>2 DEF IInv, FlagInv, Intact
<1>9. QED
  BY <1>3, <1>6, <1>7, <1>8 DEF IInv

LEMMA AcceptFinishStep ==
    ASSUME IInv, NEW r \in Requests, AcceptFinish(r)
    PROVE  IInv'
<1> USE UploadAssumption DEF IInv, AcceptFinish, Goto, lockVars
<1>1. /\ req'[r] = Plain("storage")
      /\ \A x \in Requests \ {r} : req'[x] = req[x]
  BY DEF TypeOK
<1>2. Plain("storage") \in Request
  BY DEF Plain, Request, Steps
<1>3. TypeOK'
  BY <1>2 DEF TypeOK
<1>4. \A x \in Requests : req'[x].pc # "writing"
  BY <1>1 DEF LocksHeld, Plain
<1>5. LocksHeld' /\ ChunkInv' /\ WriterInv' /\ StartInv'
  BY <1>1, <1>4 DEF LocksHeld, ChunkInv, WriterInv, StartInv, Plain
<1>6. DiskInv'
  <2>1. \A f \in Files : InFlight(f) = 0 /\ InFlight(f)' = 0
    BY DEF InFlight
  <2>2. Intact' => Intact
    BY DEF Intact
  <2>3. QED
    BY <2>1, <2>2 DEF DiskInv, InOrder
<1>7. FlagInv'
  BY DEF FlagInv, Intact, Complete
<1>8. QED
  BY <1>3, <1>5, <1>6, <1>7

\* A cancellation, completed or not, is the only step that touches a
\* finished upload's directory.
LEMMA CancelStep ==
    ASSUME IInv, NEW r \in Requests, CancelUpload(r) \/ CancelFails(r)
    PROVE  IInv'
<1> USE UploadAssumption DEF IInv
<1>1. /\ req' = [req EXCEPT ![r] = Plain("idle")]
      /\ req[r].pc = "cancelling" /\ uploadLock = NoRequest
      /\ ~claimed /\ finished' = TRUE /\ managerLock' = NoRequest
      /\ UNCHANGED <<offsets, claimed, uploadLock, uses>>
      /\ ~Intact' /\ ~claimed'
      /\ listed' \in BOOLEAN /\ torn' \in BOOLEAN
  <2>1. CASE CancelUpload(r)
    BY <2>1 DEF CancelUpload, Goto, TypeOK, Intact
  <2>2. CASE CancelFails(r)
    BY <2>2 DEF CancelFails, Goto, TypeOK, Intact
  <2>3. QED
    BY <2>1, <2>2
<1>2. /\ req'[r] = Plain("idle")
      /\ \A x \in Requests \ {r} : req'[x] = req[x]
  BY <1>1 DEF TypeOK
<1>3. TypeOK'
  <2>1. Plain("idle") \in Request
    BY DEF Plain, Request, Steps
  <2>2. req' \in [Requests -> Request]
    BY <1>1, <2>1 DEF TypeOK
  <2>3. <<>> \in Seq(Nat)
    OBVIOUS
  <2>4. present' \subseteq Files /\ data' \in [Files -> Seq(Nat)]
    <3>1. CASE CancelUpload(r)
      BY <2>3, <3>1 DEF CancelUpload
    <3>2. CASE CancelFails(r)
      BY <2>3, <3>2 DEF CancelFails, TypeOK
    <3>3. QED
      BY <3>1, <3>2
  <2>5. QED
    BY <1>1, <2>2, <2>4 DEF TypeOK
<1>4. LocksHeld'
  BY <1>1, <1>2 DEF LocksHeld, Plain
<1>5. \A x \in Requests : req[x].pc \notin {"writing", "start", "starting"}
  BY <1>1 DEF LocksHeld
<1>6. ChunkInv' /\ WriterInv' /\ StartInv'
  BY <1>2, <1>5 DEF ChunkInv, WriterInv, StartInv, Plain
<1>7. DiskInv' /\ FlagInv'
  BY <1>1 DEF DiskInv, FlagInv, Intact
<1>8. QED
  BY <1>3, <1>4, <1>6, <1>7

\* The claim happens under the manager's lock alone; what start checked still
\* holds because only start claims.
LEMMA StartClaimsStep ==
    ASSUME IInv, NEW r \in Requests, StartClaims(r)
    PROVE  IInv'
<1> USE UploadAssumption DEF IInv, StartClaims, Goto, diskVars
<1>1. /\ req'[r] = Plain("idle")
      /\ \A x \in Requests \ {r} : req'[x] = req[x]
  BY DEF TypeOK
<1>2. finished /\ listed /\ ~claimed
  BY DEF StartInv
<1>3. \A x \in Requests \ {r} : req[x].pc \notin {"cancelling", "start", "starting"}
  BY DEF LocksHeld
<1>4. TypeOK'
  <2>1. Plain("idle") \in Request
    BY DEF Plain, Request, Steps
  <2>2. QED
    BY <2>1 DEF TypeOK
<1>5. LocksHeld'
  BY <1>1 DEF LocksHeld, Plain
<1>6. ChunkInv' /\ WriterInv' /\ StartInv'
  BY <1>1, <1>3 DEF ChunkInv, WriterInv, StartInv, Plain
<1>7. DiskInv'
  <2>1. \A f \in Files : InFlight(f)' = InFlight(f)
    BY <1>1 DEF InFlight, LocksHeld
  <2>2. QED
    BY <2>1 DEF DiskInv, Intact, InOrder
<1>8. FlagInv'
  BY <1>2 DEF FlagInv, Intact, Complete
<1>9. QED
  BY <1>4, <1>5, <1>6, <1>7, <1>8

LEMMA ArriveStep ==
    ASSUME IInv, NEW r \in Requests, Arrive(r)
    PROVE  IInv'
<1> USE UploadAssumption DEF Goto, Plain, lockVars
<1>1. \A step \in Steps : Plain(step) \in Request
  BY DEF Request
<1>2. CASE \E f \in Files : \E o \in 0..Size[f], n \in 0..MaxChunk : ArriveChunk(r, f, o, n)
  <2>1. PICK f \in Files : \E o \in 0..Size[f], n \in 0..MaxChunk : ArriveChunk(r, f, o, n)
    BY <1>2
  <2>2. PICK o \in 0..Size[f], n \in 0..MaxChunk : ArriveChunk(r, f, o, n)
    BY <2>1
  <2> DEFINE q == [pc |-> "chunk", file |-> f, offset |-> o, length |-> n, sent |-> 0]
  <2>3. q \in Request
    BY DEF Request, Steps
  <2>4. req' = [req EXCEPT ![r] = q] /\ UNCHANGED <<uploadVars, lockVars, diskVars, uses>>
        /\ req[r].pc = "idle"
    BY <2>2 DEF ArriveChunk
  <2>5. q.pc = "chunk" /\ q.file \in Files /\ q.sent = 0
    OBVIOUS
  <2> HIDE DEF q
  <2>6. QED
    BY <2>3, <2>4, <2>5, QuietStep
<1>3. CASE ArriveFinish(r)
  BY <1>1, <1>3, QuietStep DEF ArriveFinish, Steps
<1>4. CASE ArriveCancel(r)
  BY <1>1, <1>4, QuietStep DEF ArriveCancel, Steps
<1>5. CASE ArriveStart(r)
  BY <1>1, <1>5, QuietStep DEF ArriveStart, Steps
<1>6. QED
  BY <1>2, <1>3, <1>4, <1>5 DEF Arrive

LEMMA HandleStep ==
    ASSUME IInv, NEW r \in Requests, Handle(r)
    PROVE  IInv'
<1> USE UploadAssumption DEF Goto, Plain, lockVars
<1>1. \A step \in Steps : Plain(step) \in Request
  BY DEF Request
<1>2. CASE RejectChunk(r)
  BY <1>1, <1>2, QuietStep DEF RejectChunk, Steps
<1>3. CASE RejectFinish(r)
  BY <1>1, <1>3, QuietStep DEF RejectFinish, Steps
<1>4. CASE FinishStorage(r)
  BY <1>1, <1>4, QuietStep DEF FinishStorage, Steps
<1>5. CASE CancelTakesManager(r)
  BY <1>1, <1>5, QuietStep DEF CancelTakesManager, Steps
<1>6. CASE RejectCancel(r)
  BY <1>1, <1>6, QuietStep DEF RejectCancel, Steps
<1>7. CASE StartChecks(r)
  <2>1. managerLock = r /\ listed
    BY <1>7 DEF StartChecks, IInv, LocksHeld, StartInv
  <2>2. QED
    BY <1>1, <1>7, <2>1, QuietStep DEF StartChecks, Steps
<1>8. CASE StartRefuses(r)
  BY <1>1, <1>8, QuietStep DEF StartRefuses, Steps
<1>9. CASE StartRaises(r)
  BY <1>1, <1>9, QuietStep DEF StartRaises, Steps
<1>10. QED
  BY <1>2, <1>3, <1>4, <1>5, <1>6, <1>7, <1>8, <1>9,
     AcceptChunkStep, EndOfChunk, AcceptFinishStep, CancelStep, StartClaimsStep DEF Handle

LEMMA StepInv == IInv /\ [Next]_vars => IInv'
<1> SUFFICES ASSUME IInv, [Next]_vars PROVE IInv'
  OBVIOUS
<1>1. CASE UNCHANGED vars
  BY <1>1 DEF vars, uploadVars, lockVars, diskVars, IInv, TypeOK, LocksHeld, ChunkInv, WriterInv,
     DiskInv, FlagInv, StartInv, InFlight, Intact, InOrder, Complete
<1>2. ASSUME NEW r \in Requests, Stream(r) PROVE IInv'
  BY <1>2, WriteByteStep, EndOfChunk DEF Stream
<1>3. QED
  BY <1>1, <1>2, ArriveStep, HandleStep DEF Next

-----------------------------------------------------------------------------
(* Theorems *)

\* The inductive invariant holds in every reachable state.
THEOREM Invariance == Spec => []IInv
BY InitInv, StepInv, PTL DEF Spec

\* Every variable keeps its type; the cut of a broken chunk (BreakChunk) is
\* the step that needs the whole invariant: it never cuts past the end.
THEOREM TypeCorrect == Spec => []TypeOK
<1>1. IInv => TypeOK
  BY DEF IInv
<1>2. QED
  BY <1>1, Invariance, PTL

\* However start, finish and cancel are interleaved, an upload is used once
\* and is registered while a task has it, even when removals fail.
THEOREM SingleUse == Spec => []UsedOnce
<1>1. IInv => UsedOnce
  BY DEF IInv, TypeOK, FlagInv, UsedOnce
<1>2. QED
  BY <1>1, Invariance, PTL

\* Unless a removal has failed, the bytes write_chunk has acknowledged are the
\* file's first bytes, in order, whatever requests are repeated or overlap.
THEOREM ChunksInOrder == Spec => []AcceptedBytesInOrder
<1>1. IInv => AcceptedBytesInOrder
  <2> SUFFICES ASSUME IInv, listed, ~torn, NEW f \in Files
               PROVE  /\ InOrder(data[f])
                      /\ Writers(f) = {} => Len(data[f]) = offsets[f]
                      /\ \A r \in Writers(f) : Len(data[f]) = offsets[f] + req[r].sent
    BY DEF AcceptedBytesInOrder
  <2>1. InOrder(data[f]) /\ Len(data[f]) = offsets[f] + InFlight(f)
    BY DEF IInv, DiskInv, Intact
  <2>2. offsets[f] \in Nat
    BY DEF IInv, TypeOK
  <2>3. Writers(f) = {} => InFlight(f) = 0
    BY DEF InFlight, Writers, IInv, LocksHeld
  <2>4. \A r \in Writers(f) : InFlight(f) = req[r].sent
    BY DEF InFlight, Writers, IInv, LocksHeld
  <2>5. Writers(f) = {} => Len(data[f]) = offsets[f]
    BY ONLY <2>1, <2>2, <2>3
  <2>6. QED
    BY ONLY <2>1, <2>4, <2>5
<1>2. QED
  BY <1>1, Invariance, PTL

\* Unless a removal has failed before, a task that was given the upload finds every
\* declared file complete, at the start and for as long as it has it.
THEOREM CompleteWhenUsed == Spec => []UsedUploadComplete
<1>1. IInv => UsedUploadComplete
  <2> SUFFICES ASSUME IInv, claimed, ~torn
               PROVE  present = Files /\ \A f \in Files : Len(data[f]) = Size[f] /\ InOrder(data[f])
    BY DEF UsedUploadComplete
  <2>1. finished /\ Intact /\ present = Files /\ \A f \in Files : offsets[f] = Size[f]
    BY DEF IInv, FlagInv, Intact, Complete
  <2>2. \A f \in Files : InFlight(f) = 0
    BY <2>1 DEF InFlight, IInv, LocksHeld, WriterInv
  <2>3. \A f \in Files : InOrder(data[f]) /\ Len(data[f]) = offsets[f] + InFlight(f)
    BY <2>1 DEF IInv, DiskInv
  <2>4. \A f \in Files : Size[f] \in Nat
    BY UploadAssumption
  <2>5. ASSUME NEW f \in Files PROVE Len(data[f]) = Size[f] /\ InOrder(data[f])
    <3>1. Len(data[f]) = offsets[f] + 0 /\ offsets[f] = Size[f]
      BY ONLY <2>1, <2>2, <2>3
    <3>2. QED
      BY ONLY <2>3, <2>4, <3>1
  <2>6. QED
    BY <2>1, <2>5
<1>2. QED
  BY <1>1, Invariance, PTL

\* Unless a removal has failed, nothing but a cancellation changes the files of a
\* finished upload: a chunk that arrives late writes nothing.
THEOREM FrozenOnceFinished == Spec => FinishedFilesFrozen
<1> DEFINE Same == UNCHANGED data /\ (finished => UNCHANGED present)
           Frozen == finished' /\ listed' /\ ~torn' => Same
<1>1. IInv /\ [Next]_vars => [Frozen]_vars
  <2> SUFFICES ASSUME IInv, Next, finished', listed', ~torn' PROVE Same
    BY DEF vars
  <2>1. finished => \A r \in Requests : req[r].pc # "writing"
    BY DEF IInv, WriterInv
  <2>2. ASSUME NEW r \in Requests, Arrive(r) PROVE Same
    BY <2>2 DEF Arrive, ArriveChunk, ArriveFinish, ArriveCancel, ArriveStart, diskVars
  <2>3. ASSUME NEW r \in Requests, Stream(r) PROVE Same
    BY <2>1, <2>3 DEF Stream, WriteByte, BreakChunk, uploadVars
  <2>4. ASSUME NEW r \in Requests, Handle(r) PROVE Same
    <3>1. CASE AcceptFinish(r)
      <4>1. listed
        BY <3>1 DEF AcceptFinish
      <4>2. finished => present = Files
        BY <3>1, <4>1 DEF AcceptFinish, IInv, FlagInv, Intact
      <4>3. QED
        BY <3>1, <4>2 DEF AcceptFinish
    <3>2. ~CancelUpload(r) /\ ~CancelFails(r)
      BY DEF CancelUpload, CancelFails
    <3>3. CASE AcceptChunk(r)
      BY <3>3 DEF AcceptChunk, ChunkAllowed, uploadVars
    <3>4. QED
      BY <2>4, <3>1, <3>2, <3>3 DEF Handle, RejectChunk, CommitChunk, RejectFinish,
         FinishStorage, CancelTakesManager, RejectCancel, StartChecks, StartRefuses, StartClaims,
         StartRaises, diskVars
  <2>5. QED
    BY <2>2, <2>3, <2>4 DEF Next
<1>2. QED
  BY <1>1, Invariance, PTL DEF Spec, FinishedFilesFrozen

\* The locks, threads and files implement the contract: every step is a step
\* of UploadContract or changes nothing there.
THEOREM Refinement == Spec => ImplementsContract
<1> USE DEF Contract!contractVars
<1>1. Init => Contract!ContractInit
  BY DEF Init, Contract!ContractInit, Phase
<1>2. IInv /\ [Next]_vars => [Contract!ContractNext]_Contract!contractVars
  <2> DEFINE Stutter == UNCHANGED <<offsets, finished, claimed, listed, torn>>
  <2> SUFFICES ASSUME IInv, [Next]_vars, ~Stutter
               PROVE  Contract!ContractNext \/ UNCHANGED <<offsets, Phase>>
    BY DEF Phase
  <2>1. PICK r \in Requests : Arrive(r) \/ Handle(r) \/ Stream(r)
    BY DEF Next, vars, uploadVars, diskVars
  <2>2. CASE CommitChunk(r)
    <3>1. req[r].pc = "writing"
      BY <2>2 DEF CommitChunk
    <3>2. PICK f \in Files : f = req[r].file
      BY <3>1, WriterFacts
    <3>3. /\ ~finished /\ ~claimed /\ listed /\ ~torn /\ req[r] \in Request
          /\ req[r].offset = offsets[f]
          /\ req[r].offset + req[r].length <= Size[f]
      BY <3>1, <3>2, WriterFacts DEF Intact, IInv, FlagInv
    <3>4. /\ offsets' = [offsets EXCEPT ![f] = offsets[f] + req[r].length]
          /\ UNCHANGED <<finished, claimed, listed, torn>>
      BY <2>2, <3>2 DEF CommitChunk, diskVars
    <3>5. offsets[f] \in Nat /\ req[r].length \in Nat /\ Size[f] \in Nat
      BY <3>3, UploadAssumption DEF IInv, TypeOK, Request
    <3>6. CASE req[r].length = 0
      BY <3>4, <3>5, <3>6 DEF IInv, TypeOK, Phase
    <3>7. CASE req[r].length # 0
      <4>1. offsets[f] + req[r].length \in (offsets[f] + 1)..Size[f]
        BY <3>3, <3>5, <3>7
      <4>2. Phase = "receiving" /\ Phase' = "receiving"
        BY <3>3, <3>4 DEF Phase
      <4>3. QED
        BY <3>4, <4>1, <4>2 DEF Contract!ContractNext, Contract!Receive
    <3>8. QED
      BY <3>6, <3>7
  <2>3. CASE AcceptFinish(r)
    <3>1. ~claimed /\ Complete /\ finished' /\ UNCHANGED <<offsets, claimed, listed, torn>>
      BY <2>3 DEF AcceptFinish
    <3>2. listed /\ ~torn /\ ~finished
      BY <3>1 DEF IInv, TypeOK, FlagInv
    <3>3. QED
      BY <3>1, <3>2 DEF Phase, Complete, Contract!ContractNext, Contract!Accept, Contract!Complete
  <2>4. CASE CancelUpload(r)
    <3>1. ~claimed /\ ~listed' /\ UNCHANGED <<offsets, claimed>>
      BY <2>4 DEF CancelUpload
    <3>2. QED
      BY <3>1 DEF Phase, Contract!ContractNext, Contract!Drop
  <2>5. CASE CancelFails(r)
    <3>1. ~claimed /\ torn' /\ UNCHANGED <<offsets, claimed>>
      BY <2>5 DEF CancelFails
    <3>2. Phase' = "dropped" /\ (Phase = "dropped" \/ Phase \in {"receiving", "accepted"})
      BY <3>1 DEF Phase
    <3>3. QED
      BY <3>1, <3>2 DEF Contract!ContractNext, Contract!Drop
  <2>6. CASE StartClaims(r)
    <3>1. finished /\ listed /\ ~claimed /\ claimed' /\ UNCHANGED <<offsets, listed, torn>>
      BY <2>6 DEF StartClaims, IInv, StartInv, diskVars
    <3>2. ~torn => Complete
      BY <3>1 DEF IInv, FlagInv, Intact
    <3>3. QED
      BY <3>1, <3>2 DEF Phase, Complete, Contract!ContractNext, Contract!Use, Contract!Complete
  <2>7. ~Arrive(r)
    BY DEF Arrive, ArriveChunk, ArriveFinish, ArriveCancel, ArriveStart, uploadVars, diskVars
  <2>8. ~Stream(r)
    BY DEF Stream, WriteByte, BreakChunk, uploadVars
  <2>9. QED
    BY <2>1, <2>2, <2>3, <2>4, <2>5, <2>6, <2>7, <2>8 DEF Handle, AcceptChunk, RejectChunk, RejectFinish,
       FinishStorage, CancelTakesManager, RejectCancel, StartChecks, StartRefuses,
       StartRaises, uploadVars, diskVars
<1>3. QED
  BY <1>1, <1>2, Invariance, PTL DEF Spec, ImplementsContract, Contract!ContractSpec
=============================================================================
