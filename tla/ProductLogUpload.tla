-------------------------- MODULE ProductLogUpload --------------------------
(***************************************************************************)
(* One browser upload of the product-log page: class Upload and the upload *)
(* operations of TaskManager in product_log/web.py.  Every HTTP request is *)
(* a thread of its own; the threads meet at two locks, the manager's and   *)
(* the upload's, and a request keeps the Upload object it looked up even   *)
(* when the manager has forgotten it meanwhile.                            *)
(*                                                                         *)
(* A byte of a file is its position, so a file on disk is right exactly    *)
(* when its i-th byte is i.                                                *)
(***************************************************************************)
EXTENDS Naturals, Sequences

CONSTANTS
    Files,               \* the declared files
    NoFile,              \* the file of a thread without a chunk
    Size,                \* [Files -> Nat], declared sizes
    MaxChunk,            \* MAX_CHUNK_BYTES
    Requests,            \* handler threads
    NoRequest            \* nobody: a free lock

ASSUME UploadAssumption ==
    /\ Size \in [Files -> Nat]
    /\ MaxChunk \in Nat
    /\ NoFile \notin Files
    /\ NoRequest \notin Requests

VARIABLES
    offsets,      \* Upload.offsets: bytes accepted per file
    finished,     \* Upload.finished
    claimed,      \* Upload.claimed
    listed,       \* is the upload still in TaskManager.uploads?
    managerLock,  \* holder of TaskManager.lock
    uploadLock,   \* holder of Upload.lock
    present,      \* the files that exist under the upload's directory
    data,         \* their bytes
    torn,         \* has a removal of the directory failed half-way?
    req,          \* what each handler thread is doing
    uses          \* how many tasks were started with this upload

lockVars == <<managerLock, uploadLock>>
uploadVars == <<offsets, finished, claimed, listed>>
diskVars == <<present, data, torn>>
vars == <<uploadVars, lockVars, diskVars, req, uses>>

Steps == {"idle", "chunk", "writing", "finish", "storage",
          "cancel", "cancelling", "start", "starting"}

\* A chunk request carries its file, offset and length.
Request == [pc : Steps, file : Files \cup {NoFile},
            offset : Nat, length : Nat, sent : Nat]

Plain(step) == [pc |-> step, file |-> NoFile, offset |-> 0, length |-> 0, sent |-> 0]

TypeOK ==
    /\ offsets \in [Files -> Nat]
    /\ finished \in BOOLEAN
    /\ claimed \in BOOLEAN
    /\ listed \in BOOLEAN
    /\ managerLock \in Requests \cup {NoRequest}
    /\ uploadLock \in Requests \cup {NoRequest}
    /\ present \subseteq Files
    /\ data \in [Files -> Seq(Nat)]
    /\ torn \in BOOLEAN
    /\ req \in [Requests -> Request]
    /\ uses \in Nat

\* The upload as create_upload leaves it.
Init ==
    /\ offsets = [f \in Files |-> 0]
    /\ finished = FALSE
    /\ claimed = FALSE
    /\ listed = TRUE
    /\ managerLock = NoRequest
    /\ uploadLock = NoRequest
    /\ present = {}
    /\ data = [f \in Files |-> <<>>]
    /\ torn = FALSE
    /\ req = [r \in Requests |-> Plain("idle")]
    /\ uses = 0

Goto(r, step) == req' = [req EXCEPT ![r] = Plain(step)]

\* Mutant: any file that is there counts for all of them.
CompleteAny == \E f \in Files : offsets[f] = Size[f]

Complete == \A f \in Files : offsets[f] = Size[f]

-----------------------------------------------------------------------------
(* write_chunk *)

\* A chunk arrives and finds the upload.  A page may repeat, reorder or run
\* chunks in parallel, so its offset is anything up to the file's size.
ArriveChunk(r, f, o, n) ==
    /\ req[r].pc = "idle"
    /\ managerLock = NoRequest
    /\ listed
    /\ req' = [req EXCEPT ![r] = [pc |-> "chunk", file |-> f, offset |-> o,
                                  length |-> n, sent |-> 0]]
    /\ UNCHANGED <<uploadVars, lockVars, diskVars, uses>>

\* Mutant: a chunk is taken wherever it starts.
ChunkAnywhere(f, o, n) == ~finished /\ ~claimed /\ o + n <= Size[f]

\* The checks write_chunk makes once it holds the upload's lock.
ChunkAllowed(f, o, n) ==
    /\ ~finished /\ ~claimed
    /\ o = offsets[f]
    /\ o + n <= Size[f]

AcceptChunk(r) ==
    /\ req[r].pc = "chunk"
    /\ uploadLock = NoRequest
    /\ ChunkAllowed(req[r].file, req[r].offset, req[r].length)
    /\ uploadLock' = r
    /\ present' = present \cup {req[r].file}
    /\ req' = [req EXCEPT ![r].pc = "writing"]
    /\ UNCHANGED <<uploadVars, managerLock, data, torn, uses>>

RejectChunk(r) ==
    /\ req[r].pc = "chunk"
    /\ uploadLock = NoRequest
    /\ ~ChunkAllowed(req[r].file, req[r].offset, req[r].length)
    /\ Goto(r, "idle")
    /\ UNCHANGED <<uploadVars, lockVars, diskVars, uses>>

\* The next byte of the body arrives and is appended to the file.
WriteByte(r) ==
    /\ req[r].pc = "writing"
    /\ req[r].sent < req[r].length
    /\ data' = [data EXCEPT ![req[r].file] =
                   Append(@, req[r].offset + req[r].sent + 1)]
    /\ req' = [req EXCEPT ![r].sent = @ + 1]
    /\ UNCHANGED <<uploadVars, lockVars, present, torn, uses>>

\* Mutant: the error path forgets the upload's lock.
BreakChunkLocked(r) ==
    /\ req[r].pc = "writing"
    /\ req[r].sent < req[r].length
    /\ data' = [data EXCEPT ![req[r].file] = SubSeq(@, 1, req[r].offset)]
    /\ Goto(r, "idle")
    /\ UNCHANGED <<uploadVars, lockVars, present, torn, uses>>

\* The body ends early or the disk refuses: cut the file back and report.
BreakChunk(r) ==
    /\ req[r].pc = "writing"
    /\ req[r].sent < req[r].length
    /\ data' = [data EXCEPT ![req[r].file] = SubSeq(@, 1, req[r].offset)]
    /\ uploadLock' = NoRequest
    /\ Goto(r, "idle")
    /\ UNCHANGED <<uploadVars, managerLock, present, torn, uses>>

CommitChunk(r) ==
    /\ req[r].pc = "writing"
    /\ req[r].sent = req[r].length
    /\ offsets' = [offsets EXCEPT ![req[r].file] = @ + req[r].length]
    /\ uploadLock' = NoRequest
    /\ Goto(r, "idle")
    /\ UNCHANGED <<finished, claimed, listed, managerLock, diskVars, uses>>

-----------------------------------------------------------------------------
(* finish_upload *)

ArriveFinish(r) ==
    /\ req[r].pc = "idle"
    /\ managerLock = NoRequest
    /\ listed
    /\ Goto(r, "finish")
    /\ UNCHANGED <<uploadVars, lockVars, diskVars, uses>>

\* Mutant: every file is created anew, not only the missing ones.
AcceptFinishAnew(r) ==
    /\ req[r].pc = "finish"
    /\ uploadLock = NoRequest
    /\ ~claimed /\ Complete
    /\ present' = Files
    /\ data' = [f \in Files |-> <<>>]
    /\ finished' = TRUE
    /\ Goto(r, "storage")
    /\ UNCHANGED <<offsets, claimed, listed, lockVars, torn, uses>>

\* Missing files are created empty, with their directories, before the
\* upload counts as finished.
AcceptFinish(r) ==
    /\ req[r].pc = "finish"
    /\ uploadLock = NoRequest
    /\ ~claimed /\ Complete
    /\ present' = Files
    /\ finished' = TRUE
    /\ Goto(r, "storage")
    /\ UNCHANGED <<offsets, claimed, listed, lockVars, data, torn, uses>>

RejectFinish(r) ==
    /\ req[r].pc = "finish"
    /\ uploadLock = NoRequest
    /\ claimed \/ ~Complete
    /\ Goto(r, "idle")
    /\ UNCHANGED <<uploadVars, lockVars, diskVars, uses>>

\* finish_upload checks the storage, under the manager's lock, before it
\* answers.  An unclaimed upload is protected there.
FinishStorage(r) ==
    /\ req[r].pc = "storage"
    /\ managerLock = NoRequest
    /\ Goto(r, "idle")
    /\ UNCHANGED <<uploadVars, lockVars, diskVars, uses>>

-----------------------------------------------------------------------------
(* cancel_upload *)

ArriveCancel(r) ==
    /\ req[r].pc = "idle"
    /\ managerLock = NoRequest
    /\ listed
    /\ Goto(r, "cancel")
    /\ UNCHANGED <<uploadVars, lockVars, diskVars, uses>>

CancelTakesManager(r) ==
    /\ req[r].pc = "cancel"
    /\ managerLock = NoRequest
    /\ managerLock' = r
    /\ Goto(r, "cancelling")
    /\ UNCHANGED <<uploadVars, uploadLock, diskVars, uses>>

RejectCancel(r) ==
    /\ req[r].pc = "cancelling"
    /\ uploadLock = NoRequest
    /\ claimed
    /\ managerLock' = NoRequest
    /\ Goto(r, "idle")
    /\ UNCHANGED <<uploadVars, uploadLock, diskVars, uses>>

CancelUpload(r) ==
    /\ req[r].pc = "cancelling"
    /\ uploadLock = NoRequest
    /\ ~claimed
    /\ finished' = TRUE
    /\ present' = {}
    /\ data' = [f \in Files |-> <<>>]
    /\ listed' = FALSE
    /\ managerLock' = NoRequest
    /\ Goto(r, "idle")
    /\ UNCHANGED <<offsets, claimed, uploadLock, torn, uses>>

\* remove_managed_tree raises after deleting any part of the tree; the
\* upload stays registered, with finished already set.
CancelFails(r) ==
    /\ req[r].pc = "cancelling"
    /\ uploadLock = NoRequest
    /\ ~claimed
    /\ finished' = TRUE
    /\ \E lost \in SUBSET present :
          /\ present' = present \ lost
          /\ data' = [f \in Files |-> IF f \in lost THEN <<>> ELSE data[f]]
    /\ torn' = TRUE
    /\ managerLock' = NoRequest
    /\ Goto(r, "idle")
    /\ UNCHANGED <<offsets, claimed, listed, uploadLock, uses>>

-----------------------------------------------------------------------------
(* start, with this upload as the input *)

ArriveStart(r) ==
    /\ req[r].pc = "idle"
    /\ managerLock = NoRequest
    /\ listed
    /\ managerLock' = r
    /\ Goto(r, "start")
    /\ UNCHANGED <<uploadVars, uploadLock, diskVars, uses>>

\* Mutant: an upload that is not finished is good enough.
StartChecksClaimed(r) ==
    /\ req[r].pc = "start"
    /\ uploadLock = NoRequest
    /\ ~claimed
    /\ Goto(r, "starting")
    /\ UNCHANGED <<uploadVars, lockVars, diskVars, uses>>

\* The check holds both locks; the upload's is released right after it.
StartChecks(r) ==
    /\ req[r].pc = "start"
    /\ uploadLock = NoRequest
    /\ finished /\ ~claimed
    /\ Goto(r, "starting")
    /\ UNCHANGED <<uploadVars, lockVars, diskVars, uses>>

StartRefuses(r) ==
    /\ req[r].pc = "start"
    /\ uploadLock = NoRequest
    /\ ~finished \/ claimed
    /\ managerLock' = NoRequest
    /\ Goto(r, "idle")
    /\ UNCHANGED <<uploadVars, uploadLock, diskVars, uses>>

\* The batch is registered and the upload claimed, without the upload's lock.
StartClaims(r) ==
    /\ req[r].pc = "starting"
    /\ claimed' = TRUE
    /\ uses' = uses + 1
    /\ managerLock' = NoRequest
    /\ Goto(r, "idle")
    /\ UNCHANGED <<offsets, finished, listed, uploadLock, diskVars>>

\* Bad rules, or a batch directory that cannot be made.
StartRaises(r) ==
    /\ req[r].pc = "starting"
    /\ managerLock' = NoRequest
    /\ Goto(r, "idle")
    /\ UNCHANGED <<uploadVars, uploadLock, diskVars, uses>>

-----------------------------------------------------------------------------

\* What the page sends.
Arrive(r) ==
    \/ \E f \in Files : \E o \in 0..Size[f], n \in 0..MaxChunk : ArriveChunk(r, f, o, n)
    \/ ArriveFinish(r)
    \/ ArriveCancel(r)
    \/ ArriveStart(r)

\* What a handler thread does once it has a request.
Handle(r) ==
    \/ AcceptChunk(r) \/ RejectChunk(r)
    \/ CommitChunk(r)
    \/ AcceptFinish(r) \/ RejectFinish(r) \/ FinishStorage(r)
    \/ CancelTakesManager(r) \/ RejectCancel(r) \/ CancelUpload(r) \/ CancelFails(r)
    \/ StartChecks(r) \/ StartRefuses(r) \/ StartClaims(r) \/ StartRaises(r)

\* The client's side of a chunk: its bytes come, or the body ends.  No timeout
\* bounds the wait for either.
Stream(r) == WriteByte(r) \/ BreakChunk(r)

Next == \E r \in Requests : Arrive(r) \/ Handle(r) \/ Stream(r)

Spec == Init /\ [][Next]_vars

\* A thread that can run runs; a lock that is free again and again is had.
\* Nothing is assumed of a client in the middle of its body.
Fairness == \A r \in Requests : SF_vars(Handle(r))

FairSpec == Spec /\ Fairness

-----------------------------------------------------------------------------
(* Properties *)

\* The thread writing into f, if there is one, has added this much.
Writers(f) == {r \in Requests : req[r].pc = "writing" /\ req[r].file = f}

InOrder(s) == \A i \in 1..Len(s) : s[i] = i

\* Whatever chunks are repeated, reordered, sent twice at once or broken off,
\* a file on disk holds the client's bytes in order, and exactly as many as
\* write_chunk has acknowledged plus those of the chunk being written.
AcceptedBytesInOrder ==
    listed /\ ~torn => \A f \in Files :
        /\ InOrder(data[f])
        /\ Writers(f) = {} => Len(data[f]) = offsets[f]
        /\ \A r \in Writers(f) : Len(data[f]) = offsets[f] + req[r].sent

\* A task starts from an upload only with every declared file there in full.
UsedUploadComplete ==
    claimed /\ ~torn =>
        /\ present = Files
        /\ \A f \in Files : Len(data[f]) = Size[f] /\ InOrder(data[f])

\* No interleaving of starts, finishes and cancels uses an upload twice, or
\* forgets one that a task reads.
UsedOnce ==
    /\ uses <= 1
    /\ claimed => listed

\* finish_upload leaves the bytes it found, and after it a late chunk or a
\* second finish leaves the files alone; only a cancellation takes them away.
FinishedFilesFrozen ==
    [][finished' /\ listed' /\ ~torn' => UNCHANGED data /\ (finished => UNCHANGED present)]_vars

\* A thread in the upload's lock that has yet to be sent bytes of its body.
AwaitsBody(r) == req[r].pc = "writing" /\ req[r].sent < req[r].length

\* A client that stalls for ever in the middle of its body is all that can keep a
\* request waiting for ever: the two locks do not, whatever their order, and
\* neither does a request that was refused, failed or broken off half-way.  The
\* threads are alike, so it is said of one of them.
RequestsAnswered ==
    LET r == CHOOSE q \in Requests : TRUE
    IN  (\A q \in Requests : []<>~AwaitsBody(q)) => []<>(req[r].pc = "idle")

\* The protocol seen from outside; a cancellation that failed half-way is one.
Phase == IF torn \/ ~listed THEN "dropped"
         ELSE IF claimed THEN "used"
         ELSE IF finished THEN "accepted"
         ELSE "receiving"

Contract == INSTANCE UploadContract WITH got <- offsets, phase <- Phase

ImplementsContract == Contract!ContractSpec
=============================================================================
