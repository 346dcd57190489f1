--------------------------- MODULE LogCollectionProofs ---------------------------
(***************************************************************************)
(* Proofs about ScpBatch and about LogCollection, which runs such batches,  *)
(* for any number of sources, files, workers and rules: the promises of a   *)
(* batch, what a query reads, what an accepted archive holds, and what a     *)
(* ready collection is made of.  And about LogRules and LogReading, for      *)
(* files of any length and any query: what the matching rules make of a      *)
(* file, and what a reader is shown of its rows.                            *)
(***************************************************************************)
EXTENDS LogCollection, LogReading, FiniteSetTheorems, WellFoundedInduction, TLAPS

-----------------------------------------------------------------------------
(* Numbers *)

\* Any set of numbers has a least one.
LEMMA LeastNumber ==
    ASSUME NEW S \in SUBSET Nat, S # {}
    PROVE  \E x \in S : \A y \in S : x <= y
<1> DEFINE R == {p \in Nat \X Nat : p[1] < p[2]}
<1>1. IsWellFoundedOn(R, Nat)
  BY NatLessThanWellFounded DEF OpToRel
<1>2. \E x \in S : \A y \in S : <<y, x>> \notin R
  <2> HIDE DEF R
  <2> QED BY <1>1, WFMin
<1>3. \A x, y \in S : <<y, x>> \notin R => x <= y
  OBVIOUS
<1> HIDE DEF R
<1> QED BY <1>2, <1>3

\* A property of 0 that n hands on to n + 1 has every number.
LEMMA EveryNumber ==
    ASSUME NEW P, 0 \in P, \A n \in Nat : n \in P => n + 1 \in P
    PROVE  \A n \in Nat : n \in P
<1> DEFINE S == {n \in Nat : n \notin P}
<1>1. SUFFICES ASSUME S # {} PROVE FALSE
  OBVIOUS
<1>2. PICK n \in S : \A k \in S : n <= k
  BY <1>1, LeastNumber
<1>3. n \in Nat /\ n # 0 /\ n \notin P
  BY <1>2
<1>4. n - 1 \in Nat /\ ~(n <= n - 1) /\ (n - 1) + 1 = n
  BY <1>3
<1>5. n - 1 \in P
  BY <1>2, <1>4
<1> QED BY <1>3, <1>4, <1>5

\* The least and the greatest of a set, if one knows them.
LEMMA MinIs ==
    ASSUME NEW S \in SUBSET Nat, NEW x \in S, \A y \in S : x <= y
    PROVE  Min(S) = x
<1>1. Min(S) \in S /\ \A y \in S : Min(S) <= y
  BY DEF Min
<1>2. Min(S) <= x /\ x <= Min(S) /\ x \in Nat /\ Min(S) \in Nat
  BY <1>1
<1> QED BY <1>2

LEMMA MaxIs ==
    ASSUME NEW S \in SUBSET Nat, NEW x \in S, \A y \in S : y <= x
    PROVE  Max(S) = x
<1>1. Max(S) \in S /\ \A y \in S : y <= Max(S)
  BY DEF Max
<1>2. Max(S) <= x /\ x <= Max(S) /\ x \in Nat /\ Max(S) \in Nat
  BY <1>1
<1> QED BY <1>2

-----------------------------------------------------------------------------
(* One batch *)

\* The files that have been counted, and those that may have been.
PassedStates == {"telling", "done", "failing", "failed"}
Passed == {i \in Files : transfer[i] \in PassedStates}
Broken == \E i \in Files : transfer[i] \in {"failing", "failed"}

\* What a file's state says of the disk and of the lock.
TransferInv ==
    \A i \in Files :
        /\ transfer[i] # "none" => i <= total
        /\ phase = "running" /\ i <= total => transfer[i] # "none"
        /\ phase # "running" => transfer[i] \in {"none", "done", "failed"}
        /\ transfer[i] = "telling" <=> lock = i

\* No file's name is that of its own part, nor that of two files' parts.
NameInv ==
    \A i \in Files :
        /\ partName[i] # i
        /\ \A j \in Files : partName[i] = partName[j] /\ i # j => partName[i] = NoFile

\* The files that may be under their own names.
Placing == {"placed", "stamped", "telling", "done"}
Placed == {i \in Files : \/ transfer[i] \in Placing
                         \/ LogMayFail /\ transfer[i] \in {"failing", "failed"}}

\* What is under a name has been placed there or is what a file was received as,
\* and a piece is removed yet.
DiskInv ==
    \A s \in Spots :
        /\ disk[s] = Piece => \E k \in Files : Pending(k) = s /\ transfer[k] = "failing"
        /\ disk[s] # Nothing =>
              s \in Placed \/ \E k \in Files : Pending(k) = s /\ transfer[k] \in {"got", "failing"}

\* Nobody but its own worker touches a file that stands apart.
ApartInv ==
    phase \in {"running", "success"} =>
        \A i \in Apart : /\ transfer[i] = "got" => disk[Pending(i)] = i
                         /\ transfer[i] \in Placing => disk[i] = i

\* What the outcome says of all of them.
OutcomeInv ==
    /\ phase \in {"running", "success"} => total > 0
    /\ phase = "success" => \A i \in Matched : transfer[i] = "done"
    /\ phase = "failure" => Present \subseteq Failed

\* The lines told so far, the one of the lock's holder excepted.
ToldInv ==
    /\ \A i, j \in 1..Len(told) : i < j => told[i] < told[j]
    /\ \A i \in 1..Len(told) : told[i] <= counted /\ (lock # NoFile => told[i] < counted)
    /\ counted <= Cardinality(Passed)
    /\ total > 0 /\ ~Broken =>
          /\ counted = Cardinality(Passed)
          /\ Len(told) = IF lock = NoFile THEN counted + 1 ELSE counted
          /\ \A i \in 1..Len(told) : told[i] = i - 1

BatchInv ==
    BatchTypeOK /\ TransferInv /\ NameInv /\ DiskInv /\ ApartInv /\ OutcomeInv /\ ToldInv

-----------------------------------------------------------------------------
(* Counting *)

LEMMA FilesFinite ==
    /\ MaxFiles \in Nat \ {0}
    /\ \A S \in SUBSET Files : IsFiniteSet(S) /\ Cardinality(S) \in Nat
    /\ \A S, T \in SUBSET Files : S \subseteq T => Cardinality(S) <= Cardinality(T)
    /\ \A S \in SUBSET Files : \A i \in Files \ S : Cardinality(S \cup {i}) = Cardinality(S) + 1
<1>1. MaxFiles \in Nat \ {0}
  BY BatchAssumption
<1>2. IsFiniteSet(Files)
  BY <1>1, FS_Interval DEF Files
<1>3. ASSUME NEW S \in SUBSET Files PROVE IsFiniteSet(S) /\ Cardinality(S) \in Nat
  BY <1>2, FS_Subset, FS_CardinalityType
<1>4. ASSUME NEW S \in SUBSET Files, NEW T \in SUBSET Files, S \subseteq T
      PROVE  Cardinality(S) <= Cardinality(T)
  BY <1>3, <1>4, FS_Subset
<1>5. ASSUME NEW S \in SUBSET Files, NEW i \in Files \ S
      PROVE  Cardinality(S \cup {i}) = Cardinality(S) + 1
  BY <1>3, FS_AddElement
<1> QED BY <1>1, <1>3, <1>4, <1>5

LEMMA MatchedCardinality ==
    ASSUME BatchTypeOK
    PROVE  Matched \subseteq Files /\ Cardinality(Matched) = total /\ total \in Nat
<1>1. total \in Nat /\ Matched \subseteq Files
  BY FilesFinite DEF BatchTypeOK, Matched, Files
<1>2. CASE total > 0
  BY <1>1, <1>2, FS_Interval DEF Matched
<1>3. CASE total = 0
  BY <1>1, <1>3, FS_Interval DEF Matched
<1> QED BY <1>1, <1>2, <1>3

\* No more is counted than there are files.
LEMMA CountedWithinTotal ==
    ASSUME BatchInv
    PROVE  counted <= total /\ counted \in Nat /\ total \in Nat
<1>1. Passed \subseteq Matched
  BY DEF BatchInv, BatchTypeOK, TransferInv, Passed, PassedStates, Matched, Files
<1>2. Cardinality(Passed) <= Cardinality(Matched) /\ Cardinality(Passed) \in Nat
  BY <1>1, FilesFinite, MatchedCardinality DEF BatchInv
<1> QED BY <1>2, MatchedCardinality DEF BatchInv, BatchTypeOK, ToldInv

-----------------------------------------------------------------------------
(* The steps *)

\* The names: a file is received elsewhere than under its own name, and two files
\* in two places.
LEMMA PendingFacts ==
    ASSUME BatchTypeOK, NameInv
    PROVE  /\ Files \subseteq Spots
           /\ \A i \in Files : Pending(i) \in Spots /\ Pending(i) # i /\ i # Piece /\ i # Nothing
           /\ \A i, j \in Files : i # j => Pending(i) # Pending(j)
           /\ \A i \in Apart : /\ i \in Matched /\ i \in Files /\ Pending(i) \notin Files
                              /\ \A j \in Matched : Pending(j) # i
           /\ \A i \in Files : i \in Contents /\ Piece \in Contents /\ Nothing \in Contents
<1>1. MaxFiles \in Nat \ {0} /\ Matched \subseteq Files
  BY FilesFinite, MatchedCardinality
<1>2. \A i \in Files : i \in Nat /\ i > 0 /\ i <= MaxFiles
  BY <1>1 DEF Files
<1>3. Files \subseteq Spots /\ \A i \in Files : MaxFiles + i \in Spots /\ MaxFiles + i \notin Files
  BY <1>1, <1>2 DEF Spots, Files
<1>4. \A i \in Files : i # Piece /\ i # Nothing /\ i \in Contents /\ Piece \in Contents /\ Nothing \in Contents
  BY <1>1, <1>2 DEF Piece, Nothing, Contents
<1>5. \A i, j \in Files : i # j => MaxFiles + i # MaxFiles + j
  BY <1>1, <1>2
<1>6. \A i \in Files : Pending(i) \in Spots /\ Pending(i) # i
  BY <1>1, <1>3 DEF Pending, NameInv
<1>7. ASSUME NEW i \in Files, NEW j \in Files, i # j PROVE Pending(i) # Pending(j)
  <2>1. NoFile \notin Matched
    BY <1>1, <1>2 DEF NoFile
  <2> QED BY <1>1, <1>3, <1>5, <1>7, <2>1 DEF Pending, NameInv
<1>8. ASSUME NEW i \in Apart
      PROVE  i \in Matched /\ i \in Files /\ Pending(i) \notin Files /\ \A j \in Matched : Pending(j) # i
  BY <1>1, <1>3 DEF Apart, Pending
<1> QED BY <1>3, <1>4, <1>6, <1>7, <1>8

LEMMA NamingFacts ==
    \A naming \in Namings \cup {NoNames} :
        /\ naming \in [Files -> Files \cup {NoFile}]
        /\ \A i \in Files :
              /\ naming[i] # i
              /\ \A j \in Files : naming[i] = naming[j] /\ i # j => naming[i] = NoFile
<1>1. \A i \in Files : NoNames[i] = NoFile /\ i # NoFile
  BY FilesFinite DEF NoNames, NoFile, Files
<1> QED BY <1>1, BatchAssumption DEF NoNames

LEMMA EmptyFacts ==
    /\ EmptyDirectory \in [Spots -> Contents] /\ \A s \in Spots : EmptyDirectory[s] = Nothing
    /\ Nothing # Piece /\ Files \subseteq Spots
    /\ NoFile \notin Files /\ 0 \in 0..MaxFiles
<1>1. MaxFiles \in Nat \ {0}
  BY FilesFinite
<1>2. Nothing \in Contents /\ Nothing # Piece /\ Files \subseteq Spots
  BY <1>1 DEF Nothing, Contents, Piece, Files, Spots
<1> QED BY <1>1, <1>2 DEF EmptyDirectory, NoFile, Files

\* A call begins, or is forgotten: nothing is in hand.
LEMMA EmptyInv ==
    ASSUME phase \in {"idle", "raised"}, total = 0, transfer = [i \in Files |-> "none"],
           partName = NoNames, disk = EmptyDirectory, counted = 0, told = <<>>, lock = NoFile
    PROVE  BatchInv
<1>1. Passed = {}
  BY DEF Passed, PassedStates
<1>2. Cardinality(Passed) = 0
  BY <1>1, FS_EmptySet
<1>3. BatchTypeOK /\ NameInv
  BY EmptyFacts, NamingFacts DEF BatchTypeOK, Over, NameInv
<1>4. DiskInv /\ ApartInv
  BY EmptyFacts DEF DiskInv, ApartInv
<1>5. TransferInv
  BY EmptyFacts DEF TransferInv
<1>6. OutcomeInv /\ ToldInv
  BY <1>2 DEF OutcomeInv, ToldInv
<1> QED BY <1>3, <1>4, <1>5, <1>6 DEF BatchInv

LEMMA ForgottenInv ==
    ASSUME phase' \in {"idle", "raised"}, total' = 0, transfer' = [i \in Files |-> "none"],
           partName' = NoNames, disk' = EmptyDirectory, counted' = 0, told' = <<>>, lock' = NoFile
    PROVE  BatchInv'
<1>1. Passed' = {}
  BY DEF Passed, PassedStates
<1>2. Cardinality(Passed') = 0
  BY <1>1, FS_EmptySet
<1>3. BatchTypeOK' /\ NameInv'
  BY EmptyFacts, NamingFacts DEF BatchTypeOK, Over, NameInv
<1>4. DiskInv' /\ ApartInv'
  BY EmptyFacts DEF DiskInv, ApartInv
<1>5. TransferInv'
  BY EmptyFacts DEF TransferInv
<1>6. OutcomeInv' /\ ToldInv'
  BY <1>2 DEF OutcomeInv, ToldInv
<1> QED BY <1>3, <1>4, <1>5, <1>6 DEF BatchInv

\* What one file's step does to the number of those past counting.
LEMMA AdvancePassed ==
    ASSUME BatchTypeOK, NEW i \in Files, NEW from, NEW to, Advance(i, from, to),
           from \in PassedStates => to \in PassedStates
    PROVE  /\ from \in PassedStates \/ to \notin PassedStates => Cardinality(Passed') = Cardinality(Passed)
           /\ from \notin PassedStates /\ to \in PassedStates =>
                 Cardinality(Passed') = Cardinality(Passed) + 1
           /\ Cardinality(Passed) \in Nat
<1>0. Passed \subseteq Files /\ (Passed = Passed)
  BY DEF Passed
<1>1. CASE from \in PassedStates \/ to \notin PassedStates
  <2>1. Passed' = Passed
    BY <1>1 DEF Passed, Advance, BatchTypeOK
  <2> QED BY <1>0, <1>1, <2>1, FilesFinite
<1>2. CASE from \notin PassedStates /\ to \in PassedStates
  <2>1. Passed' = Passed \cup {i} /\ i \notin Passed
    BY <1>2 DEF Passed, Advance, BatchTypeOK
  <2> QED BY <1>0, <1>2, <2>1, FilesFinite
<1> QED BY <1>1, <1>2

\* Type correctness of a worker's step.
LEMMA WorkType ==
    ASSUME BatchTypeOK, NameInv, NEW i \in Files, Work(i)
    PROVE  BatchTypeOK'
<1> USE DEF BatchTypeOK, InHand, Over, Advance
<1>0. Nothing \in Contents /\ Piece \in Contents /\ i \in Contents /\ i \in Spots
  BY PendingFacts
<1>1. CASE Begin(i)
  BY <1>0, <1>1 DEF Begin, Removed
<1>2. CASE Get(i)
  BY <1>0, <1>2 DEF Get
<1>3. CASE Place(i)
  <2>1. disk[Pending(i)] \in Contents
    BY PendingFacts
  <2>2. disk' \in [Spots -> Contents]
    BY <1>0, <1>3, <2>1 DEF Place
  <2> QED BY <1>3, <2>2 DEF Place
<1>4. CASE Stamp(i)
  BY <1>4 DEF Stamp
<1>5. CASE Count(i)
  BY <1>5 DEF Count
<1>6. CASE Tell(i)
  <2>1. told' \in Seq(Nat)
    <3>1. Append(told, counted) \in Seq(Nat)
      OBVIOUS
    <3> QED BY <1>6, <3>1, Zenon DEF Tell
  <2>2. transfer' \in [Files -> {"none", "queued", "done", "failed"} \cup InHand]
    BY <1>6 DEF Tell
  <2>3. disk' \in [Spots -> Contents]
    BY <1>0, <1>6 DEF Tell, Removed
  <2> QED BY <1>6, <2>1, <2>2, <2>3 DEF Tell
<1>7. CASE Fail(i)
  BY <1>0, <1>7 DEF Fail, Removed
<1> QED BY <1>1, <1>2, <1>3, <1>4, <1>5, <1>6, <1>7 DEF Work

LEMMA WorkTransfer ==
    ASSUME BatchTypeOK, TransferInv, NEW i \in Files, Work(i)
    PROVE  TransferInv'
<1> USE DEF BatchTypeOK, TransferInv, InHand, Over, Advance, Files, NoFile
<1>1. CASE Begin(i)
  BY <1>1 DEF Begin
<1>2. CASE Get(i)
  BY <1>2 DEF Get
<1>3. CASE Place(i)
  BY <1>3 DEF Place
<1>4. CASE Stamp(i)
  BY <1>4 DEF Stamp
<1>5. CASE Count(i)
  BY <1>5 DEF Count
<1>6. CASE Tell(i)
  <2>1. /\ phase = "running" /\ phase' = phase /\ total' = total
        /\ lock' = NoFile /\ transfer[i] = "telling"
        /\ \/ transfer' = [transfer EXCEPT ![i] = "done"]
           \/ LogMayFail /\ transfer' = [transfer EXCEPT ![i] = "failing"]
    BY <1>6 DEF Tell
  <2>2. \A j \in Files : j # i => transfer'[j] = transfer[j] /\ lock # j
    BY <2>1
  <2>3. CASE transfer' = [transfer EXCEPT ![i] = "done"]
    BY <2>1, <2>2, <2>3
  <2>4. CASE LogMayFail /\ transfer' = [transfer EXCEPT ![i] = "failing"]
    BY <2>1, <2>2, <2>4
  <2> QED BY <2>1, <2>3, <2>4
<1>7. CASE Fail(i)
  BY <1>7 DEF Fail
<1> QED BY <1>1, <1>2, <1>3, <1>4, <1>5, <1>6, <1>7 DEF Work

\* What one file's step to a state may do to the disk.
DiskMoves(i, to) ==
    /\ \A s \in Spots \ {i, Pending(i)} : disk'[s] = disk[s]
    /\ \/ disk'[Pending(i)] = Nothing
       \/ to = "failing"
       \/ to = "got" /\ disk'[Pending(i)] = i
       \/ disk'[Pending(i)] = disk[Pending(i)] /\ transfer[i] \notin {"got", "failing"}
    /\ \/ disk'[i] = disk[i] /\ (i \in Placed => i \in Placed' \/ disk[i] = Nothing)
       \/ disk'[i] = disk[Pending(i)] /\ transfer[i] = "got" /\ to = "placed"
    /\ to = "got" => \/ disk'[Pending(i)] = i
                     \/ disk[Pending(i)] # Nothing /\ transfer[i] = "getting"
    /\ to \in Placing => \/ disk'[i] = disk[i] /\ transfer[i] \in Placing
                         \/ disk'[i] = disk[Pending(i)] /\ transfer[i] = "got"

LEMMA DiskStep ==
    ASSUME BatchInv, NEW i \in Files, NEW to, transfer[i] # "none", phase = "running",
           transfer' = [transfer EXCEPT ![i] = to], UNCHANGED <<phase, total, partName>>,
           DiskMoves(i, to)
    PROVE  NameInv' /\ DiskInv' /\ ApartInv'
<1> DEFINE p == Pending(i)
<1>1. /\ transfer'[i] = to /\ \A j \in Files : j # i => transfer'[j] = transfer[j]
      /\ \A j : Pending(j)' = Pending(j)
      /\ Matched' = Matched /\ Apart' = Apart
  BY DEF BatchInv, BatchTypeOK, Pending, Matched, Apart
<1>2. /\ p \in Spots /\ p # i /\ i \in Spots /\ i # Piece /\ i # Nothing
      /\ \A j \in Files : j # i => Pending(j) # p
      /\ \A j \in Apart : /\ j \in Matched /\ j \in Files /\ Pending(j) \notin Files /\ Pending(j) \in Spots
                         /\ \A k \in Matched : Pending(k) # j
      /\ Files \subseteq Spots
  BY PendingFacts DEF BatchInv
<1>3. i \in Matched
  BY DEF BatchInv, BatchTypeOK, TransferInv, Matched, Files
<1>4. NameInv'
  BY DEF BatchInv, NameInv
<1>5. \A j \in Files : j # i => (j \in Placed' <=> j \in Placed)
  BY <1>1 DEF Placed
<1>6. disk[p] = Piece => transfer[i] = "failing"
  BY <1>2 DEF BatchInv, DiskInv
<1>7. disk[p] # Nothing /\ transfer[i] \notin {"got", "failing"} => p \in Placed
  BY <1>2 DEF BatchInv, DiskInv
<1> HIDE DEF p
<1>8. ASSUME NEW s \in Spots
      PROVE  /\ disk'[s] = Piece => \E k \in Files : Pending(k) = s /\ transfer'[k] = "failing"
             /\ disk'[s] # Nothing =>
                   s \in Placed' \/ \E k \in Files : Pending(k) = s /\ transfer'[k] \in {"got", "failing"}
  <2>1. CASE s = p
    <3>1. CASE disk'[p] = Nothing
      <4>1. Nothing # Piece
        BY EmptyFacts
      <4> QED BY <2>1, <3>1, <4>1
    <3>2. CASE to = "failing"
      BY <1>1, <2>1, <3>2 DEF p
    <3>3. CASE to = "got" /\ disk'[p] = i
      BY <1>1, <1>2, <2>1, <3>3 DEF p
    <3>4. CASE disk'[p] = disk[p] /\ transfer[i] \notin {"got", "failing"}
      <4>1. disk[p] # Piece
        BY <1>6, <3>4
      <4>2. disk[p] # Nothing => p \in Placed /\ p \in Placed'
        BY <1>2, <1>5, <1>7, <3>4 DEF Placed
      <4> QED BY <2>1, <3>4, <4>1, <4>2
    <3> QED BY <3>1, <3>2, <3>3, <3>4 DEF DiskMoves, p
  <2>2. CASE s = i
    <3>0. \A k \in Files : Pending(k) = i => k # i
      BY <1>2 DEF p
    <3>1. CASE disk'[i] = disk[i] /\ (i \in Placed => i \in Placed' \/ disk[i] = Nothing)
      BY <1>1, <1>2, <2>2, <3>0, <3>1 DEF BatchInv, DiskInv
    <3>2. CASE disk'[i] = disk[p] /\ transfer[i] = "got" /\ to = "placed"
      <4>1. disk[p] # Piece
        BY <1>6, <3>2
      <4>2. i \in Placed'
        <5>1. transfer'[i] = "placed"
          BY <1>1, <3>2
        <5>2. (transfer[i] \in Placing)'
          BY <5>1 DEF Placing
        <5> QED BY <5>2, Zenon DEF Placed
      <4> QED BY <2>2, <3>2, <4>1, <4>2
    <3> QED BY <3>1, <3>2 DEF DiskMoves, p
  <2>3. CASE s # p /\ s # i
    <3>1. disk'[s] = disk[s]
      BY <2>3 DEF DiskMoves, p
    <3>2. \A k \in Files : Pending(k) = s => transfer'[k] = transfer[k]
      BY <1>1, <2>3 DEF p
    <3>3. s \in Placed => s \in Placed'
      BY <1>5, <2>3 DEF Placed
    <3>4. DiskInv
      BY DEF BatchInv
    <3> QED BY <3>1, <3>2, <3>3, <3>4 DEF DiskInv
  <2> QED BY <2>1, <2>2, <2>3
<1>9. DiskInv'
  <2>1. Placed' = Placed' /\ \A k \in Files : Pending(k)' = Pending(k)
    BY <1>1
  <2> QED BY <1>8, <2>1 DEF DiskInv
<1>10. ASSUME NEW j \in Apart
       PROVE  /\ transfer'[j] = "got" => disk'[Pending(j)] = j
              /\ transfer'[j] \in Placing => disk'[j] = j
  <2>0. /\ transfer[j] = "got" => disk[Pending(j)] = j
        /\ transfer[j] \in Placing => disk[j] = j
    BY DEF BatchInv, ApartInv
  <2>1. CASE j # i
    <3>1. Pending(j) \notin {i, p} /\ j \notin {i, p}
      BY <1>2, <1>3, <2>1 DEF p
    <3>2. disk'[Pending(j)] = disk[Pending(j)] /\ disk'[j] = disk[j]
      BY <1>2, <3>1 DEF DiskMoves, p
    <3> QED BY <1>1, <1>2, <2>0, <2>1, <3>2
  <2>2. CASE j = i
    <3>1. to = "got" => disk'[p] = i
      <4>1. disk[p] # Nothing /\ transfer[i] = "getting" => p \in Files
        BY <1>7 DEF Placed
      <4> QED BY <1>2, <2>2, <4>1 DEF DiskMoves, p
    <3>2. to \in Placing => disk'[i] = i
      BY <2>0, <2>2 DEF DiskMoves
    <3> QED BY <1>1, <2>2, <3>1, <3>2 DEF p
  <2> QED BY <2>1, <2>2
<1>11. ApartInv'
  BY <1>1, <1>10 DEF ApartInv
<1> QED BY <1>4, <1>9, <1>11

LEMMA WorkDisk ==
    ASSUME BatchInv, NEW i \in Files, Work(i)
    PROVE  NameInv' /\ DiskInv' /\ ApartInv'
<1>1. /\ Pending(i) \in Spots /\ Pending(i) # i /\ i \in Spots
      /\ transfer \in [Files -> {"none", "queued", "done", "failed"} \cup InHand]
      /\ disk \in [Spots -> Contents]
  BY PendingFacts DEF BatchInv, BatchTypeOK
<1> DEFINE Steps(to) == /\ phase = "running" /\ transfer' = [transfer EXCEPT ![i] = to]
                        /\ UNCHANGED <<phase, total, partName>>
<1>2. ASSUME NEW to, Steps(to) PROVE transfer'[i] = to
  BY <1>1, <1>2
<1>4. CASE Begin(i)
  <2>1. PICK to \in {"getting", "failed"} : Steps(to) /\ transfer[i] = "queued"
    BY <1>4 DEF Begin, Advance
  <2>2. disk' = [disk EXCEPT ![Pending(i)] = Nothing]
    BY <1>4 DEF Begin, Removed
  <2>3. i \notin Placed
    BY <2>1 DEF Placed, Placing
  <2>4. DiskMoves(i, to)
    BY <1>1, <2>1, <2>2, <2>3 DEF DiskMoves, Placing
  <2> QED BY <2>1, <2>4, DiskStep
<1>5. CASE Get(i)
  <2>1. PICK to \in {"got", "failing"} : Steps(to) /\ transfer[i] = "getting"
    BY <1>5 DEF Get, Advance
  <2>2. i \notin Placed /\ (to = "got" <=> transfer'[i] = "got")
    BY <1>2, <2>1 DEF Placed, Placing
  <2>3. \/ disk' = [disk EXCEPT ![Pending(i)] = i]
        \/ disk' = disk /\ (to = "got" => disk[Pending(i)] # Nothing)
        \/ disk' = [disk EXCEPT ![Pending(i)] = Piece] /\ to = "failing"
    BY <1>1, <1>5, <2>1, <2>2 DEF Get, Advance
  <2>4. DiskMoves(i, to)
    BY <1>1, <2>1, <2>2, <2>3 DEF DiskMoves, Placing
  <2> QED BY <2>1, <2>4, DiskStep
<1>6. CASE Place(i)
  <2>1. CASE Advance(i, "got", "failing") /\ UNCHANGED disk
    <3>1. Steps("failing") /\ transfer[i] = "got" /\ i \notin Placed
      BY <1>6, <2>1 DEF Place, Advance, Placed, Placing
    <3>2. DiskMoves(i, "failing")
      BY <2>1, <3>1 DEF DiskMoves, Placing
    <3> QED BY <3>1, <3>2, DiskStep
  <2>2. CASE /\ Advance(i, "got", "placed")
             /\ disk' = [disk EXCEPT ![i] = disk[Pending(i)], ![Pending(i)] = Nothing]
    <3>1. Steps("placed") /\ transfer[i] = "got"
      BY <1>6, <2>2 DEF Place, Advance
    <3>2. DiskMoves(i, "placed")
      BY <1>1, <2>2, <3>1 DEF DiskMoves, Placing
    <3> QED BY <3>1, <3>2, DiskStep
  <2> QED BY <1>6, <2>1, <2>2 DEF Place
<1>7. CASE Stamp(i)
  <2>1. /\ transfer[i] = "placed" /\ disk' = disk
        /\ Steps("stamped") \/ Steps("failing")
    <3>1. /\ disk' = disk /\ UNCHANGED <<phase, total, partName>>
          /\ Advance(i, "placed", "stamped") \/ Advance(i, "placed", "failing")
      BY <1>7, Zenon DEF Stamp
    <3> QED BY <3>1 DEF Advance
  <2>2. CASE Steps("stamped")
    <3>1. DiskMoves(i, "stamped")
      BY <1>2, <2>1, <2>2 DEF DiskMoves, Placing, Placed
    <3> QED BY <2>1, <2>2, <3>1, DiskStep
  <2>3. CASE Steps("failing")
    <3>1. transfer'[i] = "failing"
      BY <1>2, <2>3
    <3>2. LogMayFail \/ disk[i] = Nothing
      <4>1. CASE Advance(i, "placed", "stamped")
        BY <1>1, <3>1, <4>1 DEF Advance
      <4> QED BY <1>7, <4>1, Zenon DEF Stamp
    <3>3. LogMayFail => i \in Placed'
      BY <3>1, Zenon DEF Placed
    <3>4. i \in Placed' \/ disk[i] = Nothing
      BY <3>2, <3>3, Zenon
    <3>5. DiskMoves(i, "failing")
      BY <1>1, <2>1, <3>4 DEF DiskMoves, Placing
    <3> QED BY <2>1, <2>3, <3>5, DiskStep
  <2> QED BY <2>1, <2>2, <2>3
<1>8. CASE Count(i)
  <2>1. transfer[i] = "stamped" /\ disk' = disk /\ Steps("telling")
    BY <1>8 DEF Count, Advance
  <2>2. DiskMoves(i, "telling")
    BY <1>2, <2>1 DEF DiskMoves, Placing, Placed
  <2> QED BY <2>1, <2>2, DiskStep
<1>9. CASE Tell(i)
  <2>1. CASE Advance(i, "telling", "done") /\ Removed(i)
    <3>1. transfer[i] = "telling" /\ Steps("done") /\ disk' = [disk EXCEPT ![Pending(i)] = Nothing]
      BY <1>9, <2>1 DEF Tell, Advance, Removed
    <3>2. DiskMoves(i, "done")
      BY <1>1, <1>2, <3>1 DEF DiskMoves, Placing, Placed
    <3> QED BY <3>1, <3>2, DiskStep
  <2>2. CASE LogMayFail /\ Advance(i, "telling", "failing") /\ UNCHANGED disk
    <3>1. transfer[i] = "telling" /\ Steps("failing")
      BY <1>9, <2>2 DEF Tell, Advance
    <3>2. DiskMoves(i, "failing")
      BY <1>2, <2>2, <3>1 DEF DiskMoves, Placing, Placed
    <3> QED BY <3>1, <3>2, DiskStep
  <2> QED BY <1>9, <2>1, <2>2 DEF Tell
<1>10. CASE Fail(i)
  <2>1. transfer[i] = "failing" /\ Steps("failed") /\ disk' = [disk EXCEPT ![Pending(i)] = Nothing]
    BY <1>10 DEF Fail, Advance, Removed
  <2>2. DiskMoves(i, "failed")
    BY <1>1, <1>2, <2>1 DEF DiskMoves, Placing, Placed
  <2> QED BY <2>1, <2>2, DiskStep
<1> QED BY <1>4, <1>5, <1>6, <1>7, <1>8, <1>9, <1>10 DEF Work

\* A step that neither counts nor tells leaves the lines as they are.
LEMMA QuietTold ==
    ASSUME BatchTypeOK, ToldInv, NEW i \in Files, NEW from, NEW to, Advance(i, from, to),
           from \in PassedStates => from = "failing" /\ to = "failed",
           to \in PassedStates => to \in {"failing", "failed"},
           UNCHANGED <<counted, told, total, lock>>
    PROVE  ToldInv'
<1>1. Broken => Broken'
  BY DEF Broken, Advance, BatchTypeOK, PassedStates
<1>2. to \in PassedStates => Broken'
  BY DEF Broken, Advance, BatchTypeOK
<1>3. /\ Cardinality(Passed) \in Nat /\ Cardinality(Passed') \in Nat
      /\ Cardinality(Passed) <= Cardinality(Passed')
      /\ to \notin PassedStates => Cardinality(Passed') = Cardinality(Passed)
  <2>1. from \in PassedStates => to \in PassedStates
    BY DEF PassedStates
  <2> QED BY <2>1, AdvancePassed
<1> QED BY <1>1, <1>2, <1>3 DEF ToldInv, BatchTypeOK

LEMMA CountTold ==
    ASSUME BatchInv, NEW i \in Files, Count(i)
    PROVE  ToldInv'
<1>1. /\ Advance(i, "stamped", "telling") /\ counted' = counted + 1 /\ lock = NoFile /\ lock' = i
      /\ told' = told /\ total' = total /\ i # NoFile
  BY DEF Count, Files, NoFile
<1>2. /\ Cardinality(Passed') = Cardinality(Passed) + 1 /\ Cardinality(Passed) \in Nat
  BY <1>1, AdvancePassed DEF BatchInv, PassedStates
<1>3. Broken' <=> Broken
  BY <1>1 DEF Broken, Advance, BatchInv, BatchTypeOK
<1> QED BY <1>1, <1>2, <1>3 DEF BatchInv, ToldInv, BatchTypeOK

LEMMA TellTold ==
    ASSUME BatchInv, NEW i \in Files, Tell(i)
    PROVE  ToldInv'
<1>1. /\ lock' = NoFile /\ counted' = counted /\ total' = total
      /\ \/ Advance(i, "telling", "done") /\ told' = Append(told, counted)
         \/ Advance(i, "telling", "failing") /\ told' = told
  BY DEF Tell
<1>2. lock = i /\ i # NoFile
  BY <1>1 DEF Advance, BatchInv, TransferInv, Files, NoFile
<1>3. Cardinality(Passed') = Cardinality(Passed) /\ Cardinality(Passed) \in Nat
  BY <1>1, AdvancePassed DEF BatchInv, PassedStates
<1>4. told \in Seq(Nat) /\ counted \in Nat
  BY DEF BatchInv, BatchTypeOK
<1>5. CASE Advance(i, "telling", "done") /\ told' = Append(told, counted)
  <2>1. Broken' <=> Broken
    BY <1>5 DEF Broken, Advance, BatchInv, BatchTypeOK
  <2>2. /\ Len(told') = Len(told) + 1 /\ Len(told) \in Nat
        /\ told'[Len(told) + 1] = counted
        /\ \A k \in 1..Len(told) : told'[k] = told[k] /\ told[k] < counted /\ told[k] \in Nat
    BY <1>2, <1>4, <1>5 DEF BatchInv, ToldInv
  <2>3. \A k, l \in 1..Len(told') : k < l => told'[k] < told'[l]
    BY <2>2 DEF BatchInv, ToldInv
  <2>4. \A k \in 1..Len(told') : told'[k] <= counted
    BY <1>4, <2>2
  <2>5. total > 0 /\ ~Broken => \A k \in 1..Len(told') : told'[k] = k - 1
    BY <1>2, <2>2 DEF BatchInv, ToldInv
  <2> QED BY <1>1, <1>2, <1>3, <2>1, <2>2, <2>3, <2>4, <2>5 DEF BatchInv, ToldInv
<1>6. CASE Advance(i, "telling", "failing") /\ told' = told
  <2>1. Broken'
    BY <1>6 DEF Broken, Advance, BatchInv, BatchTypeOK
  <2> QED BY <1>1, <1>3, <1>4, <1>6, <2>1 DEF BatchInv, ToldInv
<1> QED BY <1>1, <1>5, <1>6

LEMMA WorkInv ==
    ASSUME BatchInv, NEW i \in Files, Work(i)
    PROVE  BatchInv'
<1>1. BatchTypeOK' /\ TransferInv' /\ NameInv' /\ DiskInv' /\ ApartInv'
  BY WorkType, WorkTransfer, WorkDisk DEF BatchInv
<1>2. OutcomeInv'
  <2>1. phase = "running" /\ phase' = phase /\ total' = total
    BY DEF Work, Begin, Get, Place, Stamp, Count, Tell, Fail, Advance
  <2> QED BY <2>1 DEF OutcomeInv, BatchInv
<1>3. ToldInv'
  <2> USE DEF BatchInv, PassedStates
  <2>1. CASE Begin(i)
    BY <2>1, QuietTold DEF Begin
  <2>2. CASE Get(i)
    BY <2>2, QuietTold DEF Get
  <2>3. CASE Place(i)
    BY <2>3, QuietTold DEF Place
  <2>4. CASE Stamp(i)
    BY <2>4, QuietTold DEF Stamp
  <2>5. CASE Fail(i)
    BY <2>5, QuietTold DEF Fail
  <2> QED BY <2>1, <2>2, <2>3, <2>4, <2>5, CountTold, TellTold DEF Work
<1> QED BY <1>1, <1>2, <1>3 DEF BatchInv

LEMMA CollectInv ==
    ASSUME BatchInv, Collect
    PROVE  BatchInv'
<1>1. /\ phase = "running" /\ phase' \in Over
      /\ UNCHANGED <<total, transfer, partName, counted, told, lock>>
      /\ disk' = IF Failed = {} THEN disk
                 ELSE [s \in Spots |-> IF s \in Completed THEN Nothing ELSE disk[s]]
  BY DEF Collect, Over
<1>2. /\ phase' = "success" => Failed = {}
      /\ phase' = "failure" => Failed # {}
      /\ \A i \in Matched : transfer[i] \in {"done", "failed"}
  BY DEF Collect, Completed, Failed
<1>3. \A i \in Files \ Matched : transfer[i] = "none"
  BY DEF BatchInv, TransferInv, BatchTypeOK, Matched, Files
<1>4. BatchTypeOK'
  <2>1. disk' \in [Spots -> Contents]
    BY <1>1, PendingFacts, FilesFinite DEF BatchInv, BatchTypeOK, Nothing, Contents, Piece
  <2> QED BY <1>1, <2>1 DEF BatchInv, BatchTypeOK, Over
<1>5. TransferInv'
  BY <1>1, <1>2, <1>3 DEF BatchInv, TransferInv, Over
<1>6. OutcomeInv'
  <2>1. total > 0 /\ Matched' = Matched /\ Failed' = Failed
    BY <1>1 DEF BatchInv, OutcomeInv, Matched, Failed
  <2>2. CASE phase' = "success"
    BY <1>1, <1>2, <2>1, <2>2 DEF OutcomeInv, Failed
  <2>3. CASE phase' = "failure"
    <3>1. ASSUME NEW s \in Present' PROVE s \in Failed
      <4>1. s \in Files /\ s \in Spots /\ disk'[s] # Nothing
        BY PendingFacts DEF Present, BatchInv
      <4>2. s \notin Completed /\ disk[s] # Nothing
        BY <1>1, <1>2, <2>3, <4>1
      <4>3. \A k \in Files : transfer[k] \notin {"got", "failing"}
        BY <1>2, <1>3
      <4>4. s \in Placed
        BY <4>1, <4>2, <4>3 DEF BatchInv, DiskInv
      <4>5. transfer[s] # "none"
        BY <4>4 DEF Placed, Placing
      <4> QED BY <1>2, <1>3, <4>1, <4>2, <4>5 DEF Completed, Failed
    <3> QED BY <2>1, <2>3, <3>1 DEF OutcomeInv
  <2>4. CASE phase' = "raised"
    BY <2>4 DEF OutcomeInv
  <2> QED BY <1>1, <2>2, <2>3, <2>4 DEF Over
<1>7. ToldInv'
  <2>1. Broken' = Broken /\ Passed' = Passed
    BY <1>1 DEF Broken, Passed
  <2> QED BY <1>1, <2>1 DEF BatchInv, ToldInv
<1>8. NameInv' /\ DiskInv'
  <2>1. NameInv' /\ Placed' = Placed /\ \A k : Pending(k)' = Pending(k)
    BY <1>1 DEF BatchInv, NameInv, Placed, Pending, Matched
  <2>2. \A s \in Spots : disk'[s] # Nothing => disk'[s] = disk[s]
    BY <1>1
  <2>3. Piece # Nothing
    BY FilesFinite DEF Piece, Nothing
  <2> QED BY <1>1, <2>1, <2>2, <2>3 DEF BatchInv, DiskInv
<1>9. ApartInv'
  <2>1. ASSUME phase' = "success" PROVE disk' = disk
    BY <1>1, <1>2, <2>1
  <2>2. Apart' = Apart /\ \A k : Pending(k)' = Pending(k)
    BY <1>1 DEF Apart, Matched, Pending
  <2> QED BY <1>1, <2>1, <2>2 DEF BatchInv, ApartInv, Over
<1> QED BY <1>4, <1>5, <1>6, <1>7, <1>8, <1>9 DEF BatchInv

LEMMA StartInv ==
    ASSUME NEW n \in 0..MaxFiles, StartBatch(n)
    PROVE  BatchInv'
<1>1. /\ phase' \in {"failure", "running"} /\ (phase' = "running" => n > 0) /\ total' = n
      /\ partName' \in Namings /\ disk' = EmptyDirectory /\ counted' = 0 /\ lock' = NoFile
      /\ told' = IF n = 0 THEN <<>> ELSE <<0>>
      /\ transfer' = [i \in Files |-> IF i <= n THEN "queued" ELSE "none"]
      /\ phase' = "failure" => n = 0
  BY DEF StartBatch
<1>2. Passed' = {} /\ Cardinality(Passed') = 0
  <2>1. Passed' = {}
    BY <1>1 DEF Passed, PassedStates
  <2> QED BY <2>1, FS_EmptySet
<1>3. BatchTypeOK' /\ NameInv'
  <2>1. told' \in Seq(Nat)
    BY <1>1
  <2> QED BY <1>1, <2>1, EmptyFacts, NamingFacts DEF BatchTypeOK, Over, NameInv
<1>4. TransferInv'
  BY <1>1, FilesFinite DEF TransferInv, Files, NoFile
<1>5. OutcomeInv'
  BY <1>1, EmptyFacts DEF OutcomeInv, Present
<1>6. ToldInv'
  BY <1>1, <1>2 DEF ToldInv
<1>7. DiskInv'
  BY <1>1, EmptyFacts DEF DiskInv
<1>8. ApartInv'
  <2>1. \A i \in Apart' : transfer'[i] \in {"queued", "none"}
    <3>1. Apart' \subseteq Files
      BY <1>1, FilesFinite DEF Apart, Matched, Files
    <3> QED BY <1>1, <3>1
  <2> QED BY <2>1 DEF ApartInv, Placing
<1> QED BY <1>3, <1>4, <1>5, <1>6, <1>7, <1>8 DEF BatchInv

-----------------------------------------------------------------------------
(* What every caller may rely on *)

LEMMA BatchPromises ==
    ASSUME BatchInv
    PROVE  ProgressInOrder /\ PlacedWhenOver
<1>1. counted <= total /\ counted \in Nat /\ total \in Nat /\ told \in Seq(Nat)
  BY CountedWithinTotal DEF BatchInv, BatchTypeOK
<1>2. \A i \in 1..(Len(told) - 1) : told[i] < told[i + 1]
  BY <1>1 DEF BatchInv, ToldInv
<1>3. \A i \in 1..Len(told) : told[i] <= total
  BY <1>1 DEF BatchInv, ToldInv
<1>4. ASSUME phase = "success" PROVE told = [i \in 1..(total + 1) |-> i - 1]
  <2>1. \A i \in Files : transfer[i] \in {"none", "done"}
    BY <1>4 DEF BatchInv, TransferInv, OutcomeInv, BatchTypeOK, Matched, Files
  <2>2. ~Broken /\ lock = NoFile
    BY <2>1 DEF Broken, BatchInv, BatchTypeOK, TransferInv
  <2>3. Passed = Matched
    BY <1>4, <2>1, MatchedCardinality
       DEF Passed, PassedStates, BatchInv, TransferInv, OutcomeInv, Matched, Files
  <2>4. Len(told) = total + 1 /\ \A i \in 1..Len(told) : told[i] = i - 1
    BY <1>4, <2>2, <2>3, MatchedCardinality DEF BatchInv, ToldInv, OutcomeInv
  <2> QED BY <1>1, <2>4
<1>5. ProgressInOrder
  BY <1>2, <1>3, <1>4 DEF ProgressInOrder
<1>6. PlacedWhenOver
  <2> SUFFICES ASSUME phase \in Over PROVE PlacedWhenOver
    BY DEF PlacedWhenOver
  <2>1. \A i \in Files : transfer[i] \in {"none", "done", "failed"}
    BY DEF BatchInv, TransferInv, Over
  <2>2. \A s \in Spots : disk[s] # Nothing => s \in Placed /\ disk[s] # Piece
    BY <2>1 DEF BatchInv, DiskInv
  <2>3. Placed \subseteq Files
    BY DEF Placed
  <2>4. ASSUME phase = "success", NEW i \in Apart PROVE disk[i] = i
    BY <2>4, PendingFacts DEF BatchInv, OutcomeInv, ApartInv, Placing
  <2>5. phase = "failure" => Present \subseteq Failed
    BY DEF BatchInv, OutcomeInv
  <2>6. ASSUME phase = "failure", ~LogMayFail PROVE Present = {}
    <3>1. \A i \in Present : i \in Placed /\ i \in Failed
      BY <2>2, <2>5, <2>6, EmptyFacts DEF Present
    <3> QED BY <2>6, <3>1 DEF Placed, Placing, Failed
  <2> QED BY <2>2, <2>3, <2>4, <2>5, <2>6 DEF PlacedWhenOver
<1> QED BY <1>5, <1>6

LEMMA BatchInitInv ==
    ASSUME BatchInit
    PROVE  BatchInv
<1> QED BY EmptyInv DEF BatchInit

LEMMA BatchNextInv ==
    ASSUME BatchInv, [BatchNext]_batchVars
    PROVE  BatchInv'
<1>1. ASSUME NEW n \in 0..MaxFiles, StartBatch(n) PROVE BatchInv'
  BY <1>1, StartInv
<1>2. CASE StartRaises
  BY <1>2, ForgottenInv DEF StartRaises
<1>3. ASSUME NEW i \in Files, Work(i) PROVE BatchInv'
  BY <1>3, WorkInv
<1>4. CASE Collect
  BY <1>4, CollectInv
<1>5. CASE UNCHANGED batchVars
  BY <1>5 DEF batchVars, BatchInv, BatchTypeOK, TransferInv, NameInv, DiskInv, ApartInv, OutcomeInv,
              ToldInv, Matched, Failed, Broken, Passed, Placed, Pending, Apart, Present
<1> QED BY <1>1, <1>2, <1>3, <1>4, <1>5 DEF BatchNext, BatchStep

\* A batch called again and again counts its files in order and ends with no
\* partial file and with each whole in its place that is not received under the
\* name of another, or with none but those whose transfer failed after the rename.
THEOREM BatchTheorem == BatchSpec => [](ProgressInOrder /\ PlacedWhenOver)
BY BatchInitInv, BatchNextInv, BatchPromises, PTL DEF BatchSpec

-----------------------------------------------------------------------------
(* The collection *)

AllOk == \A s \in DOMAIN results : results[s].ok

\* How far the download is, and that only a complete one is expanded.
FetchInv ==
    /\ pc = "download" => Len(results) < declared /\ AllOk /\ expanded = {} /\ ~failed
    /\ results = <<>> => expanded = {}
    /\ AllOk => \A s \in DOMAIN results : results[s].files # {}
    /\ AllOk /\ results # <<>> /\ pc \notin {"download", "ended"} => Len(results) = declared
    /\ expanded # {} => pc # "download" /\ AllOk /\ Len(results) = declared

\* What the index holds when the manifest, or a query, relies on it.
PublishInv ==
    /\ group # {} \/ records # {} => expanded # {}
    /\ failed => manifest # "ready" /\ pc \notin {"index", "publish"}
    /\ announced > 0 => records # {}
    /\ pc = "publish" => finalized /\ index = records
    /\ manifest = "ready" => finalized /\ announced = Cardinality(index)
    /\ manifest = "ready" \/ query # "idle" => pc \notin {"index", "publish"}
    /\ query # "idle" => finalized /\ wanted = Cardinality(index)
    /\ query = "read" => rows = wanted

CollectionInv == TypeOK /\ BatchInv /\ FetchInv /\ PublishInv

\* A collection that has not failed is expanded in full, if it is expanded.
WholeInv == ~failed /\ expanded # {} => expanded = Downloaded

-----------------------------------------------------------------------------
(* Counting and constants *)

LEMMA RecordsFinite ==
    \A R \in SUBSET Records : Cardinality(R) \in Nat /\ (Cardinality(R) > 0 => R # {})
<1>1. MaxSources \in Nat \ {0} /\ MaxRules \in Nat
  BY CollectionAssumption
<1>2. IsFiniteSet(Sources) /\ IsFiniteSet(Files) /\ IsFiniteSet(1..MaxRules)
  BY <1>1, FilesFinite, FS_Interval DEF Sources
<1>3. IsFiniteSet(Items)
  BY <1>2, FS_Product DEF Items
<1>4. IsFiniteSet(Records)
  BY <1>2, <1>3, FS_Product DEF Records
<1> QED BY <1>4, FS_Subset, FS_CardinalityType, FS_EmptySet

\* Outside the download the batch stays as it is.
LEMMA BatchPart ==
    ASSUME CollectionInv, [Next]_vars
    PROVE  BatchInv'
<1>1. ASSUME UNCHANGED batchVars PROVE BatchInv'
  BY <1>1, BatchNextInv DEF CollectionInv
<1>2. ASSUME BatchNext PROVE BatchInv'
  BY <1>2, BatchNextInv DEF CollectionInv
<1>3. CASE StartSource \/ Transfers
  BY <1>2, <1>3 DEF StartSource, Transfers, BatchNext
<1>4. CASE SourceFetched \/ SourceFails \/ SourceRaises \/ ScriptEnds
  BY <1>4, ForgottenInv DEF SourceFetched, SourceFails, SourceRaises, ScriptEnds, BatchForgotten
<1>5. CASE (\E n \in Sources : Download(n)) \/ ExtractAll \/ ExtractFails \/ Group \/ Match
  BY <1>1, <1>5 DEF Download, ExtractAll, ExtractFails, Group, Match
<1>6. CASE Finalize \/ FinalizeRefused \/ WriteIndex \/ WriteManifest \/ FinalizeFails
  BY <1>1, <1>6 DEF Finalize, FinalizeRefused, WriteIndex, WriteManifest, FinalizeFails
<1>7. CASE CheckManifest \/ ReadIndex \/ QueryDone \/ UNCHANGED vars
  BY <1>1, <1>7 DEF CheckManifest, ReadIndex, QueryDone, vars
<1> QED BY <1>3, <1>4, <1>5, <1>6, <1>7 DEF Next

\* The source being fetched, and the files a complete batch leaves of it.
LEMMA SourceFacts ==
    ASSUME CollectionInv, BatchOver
    PROVE  /\ Source \in Sources /\ Fetched \subseteq Items /\ Completed \subseteq Files
           /\ Len(results) < declared /\ expanded = {} /\ group = {} /\ records = {}
           /\ phase = "success" => Completed # {}
           /\ AllOk /\ ~failed
<1>1. /\ Len(results) < declared /\ declared \in 0..MaxSources /\ MaxSources \in Nat
      /\ results \in Seq([ok : BOOLEAN, files : SUBSET Files])
  BY CollectionAssumption DEF CollectionInv, FetchInv, TypeOK, BatchOver
<1>2. Source \in Sources
  BY <1>1 DEF Source, Sources
<1>3. Present \subseteq Files /\ Completed \subseteq Files
  BY MatchedCardinality DEF Present, Completed, CollectionInv, TypeOK
<1>4. phase = "success" => 1 \in Completed
  BY DEF CollectionInv, BatchInv, BatchTypeOK, OutcomeInv, Matched, Completed
<1> QED BY <1>1, <1>2, <1>3, <1>4
        DEF CollectionInv, FetchInv, PublishInv, BatchOver, Fetched, Items

LEMMA TypePart ==
    ASSUME CollectionInv, [Next]_vars
    PROVE  TypeOK'
<1>0. BatchTypeOK'
  BY BatchPart DEF BatchInv
<1>1. ASSUME NEW n \in Sources, Download(n) PROVE TypeOK'
  BY <1>0, <1>1, CollectionAssumption
     DEF Download, CollectionInv, TypeOK, Sources, fileVars, ruleVars, queryVars
<1>2. CASE StartSource \/ Transfers
  BY <1>0, <1>2
     DEF StartSource, Transfers, CollectionInv, TypeOK, stateVars, fileVars, ruleVars, queryVars
<1>3. CASE SourceFetched
  <2>1. [ok |-> TRUE, files |-> Completed] \in [ok : BOOLEAN, files : SUBSET Files]
    BY <1>3, SourceFacts DEF SourceFetched
  <2>2. results' \in Seq([ok : BOOLEAN, files : SUBSET Files])
    <3>1. results \in Seq([ok : BOOLEAN, files : SUBSET Files])
      BY DEF CollectionInv, TypeOK
    <3>2. results' = Append(results, [ok |-> TRUE, files |-> Completed])
      BY <1>3 DEF SourceFetched
    <3> QED BY <2>1, <3>1, <3>2
  <2> QED BY <1>0, <1>3, <2>2, SourceFacts
          DEF SourceFetched, CollectionInv, TypeOK, ruleVars, queryVars
<1>4. CASE SourceFails
  <2>2. results' \in Seq([ok : BOOLEAN, files : SUBSET Files])
    <3>1. results \in Seq([ok : BOOLEAN, files : SUBSET Files])
      BY DEF CollectionInv, TypeOK
    <3>2. results' = Append(results, [ok |-> FALSE, files |-> {}])
      BY <1>4 DEF SourceFails
    <3> QED BY <3>1, <3>2
  <2> QED BY <1>0, <1>4, <2>2, SourceFacts
          DEF SourceFails, ClearedRaw, CollectionInv, TypeOK, ruleVars, queryVars
<1>5. CASE SourceRaises
  BY <1>0, <1>5, SourceFacts
     DEF SourceRaises, CollectionInv, TypeOK, stateVars, ruleVars, queryVars
<1>6. CASE ExtractAll
  <2>1. expanded' \subseteq raw /\ group = {}
    BY <1>6 DEF ExtractAll, CollectionInv, TypeOK
  <2> QED BY <1>0, <1>6, <2>1 DEF ExtractAll, CollectionInv, TypeOK, ruleVars, queryVars
<1>7. CASE ExtractFails
  <2>1. expanded' \subseteq raw /\ group \subseteq expanded'
    BY <1>7 DEF ExtractFails, CollectionInv, TypeOK
  <2> QED BY <1>0, <1>7, <2>1 DEF ExtractFails, FailsHere, CollectionInv, TypeOK, ruleVars, queryVars
<1>8. CASE Group
  <2>1. group' \subseteq expanded
    BY <1>8 DEF Group, CollectionInv, TypeOK
  <2>2. UNCHANGED <<declared, many, results, extracted, finalized, raw, expanded, index, announced,
                    rules, records, queryVars>>
        /\ pc' \in {pc, "ended"} /\ failed' \in {failed, TRUE} /\ manifest' \in {manifest, "failed"}
    BY <1>8 DEF Group, FailsHere
  <2> QED BY <1>0, <2>1, <2>2 DEF CollectionInv, TypeOK, queryVars
<1>9. CASE Match
  <2>1. records' \subseteq Records /\ rules' \in 0..MaxRules
    <3>1. rules + 1 \in 1..MaxRules /\ group \subseteq Items
      BY <1>9, CollectionAssumption DEF Match, CollectionInv, TypeOK
    <3>2. \A G \in SUBSET group : G \X {rules + 1} \subseteq Records
      BY <3>1 DEF Records
    <3>3. \E G \in SUBSET group : records' = records \cup (G \X {rules + 1})
      BY <1>9 DEF Match
    <3> QED BY <1>9, <3>1, <3>2, <3>3, CollectionAssumption DEF Match, CollectionInv, TypeOK
  <2>2. UNCHANGED <<pc, declared, many, results, extracted, finalized, raw, expanded, index,
                    announced, group, queryVars>>
        /\ failed' \in {failed, TRUE} /\ manifest' \in {manifest, "failed"}
    BY <1>9 DEF Match, FailsHere
  <2> QED BY <1>0, <2>1, <2>2 DEF CollectionInv, TypeOK, queryVars
<1>10. CASE Finalize \/ FinalizeRefused \/ FinalizeFails
  BY <1>0, <1>10
     DEF Finalize, FinalizeRefused, FinalizeFails, FailsHere, CollectionInv, TypeOK,
         stateVars, ruleVars, queryVars
<1>11. CASE WriteIndex \/ WriteManifest
  <2>1. Cardinality(records) \in Nat
    BY RecordsFinite DEF CollectionInv, TypeOK
  <2> QED BY <1>0, <1>11, <2>1
          DEF WriteIndex, WriteManifest, CollectionInv, TypeOK, stateVars, ruleVars, queryVars
<1>12. CASE ScriptEnds
  BY <1>0, <1>12 DEF ScriptEnds, CollectionInv, TypeOK, stateVars, fileVars, ruleVars, queryVars
<1>13. CASE CheckManifest \/ ReadIndex \/ QueryDone
  <2>1. Cardinality(index) \in Nat
    BY RecordsFinite DEF CollectionInv, TypeOK
  <2> QED BY <1>0, <1>13, <2>1
          DEF CheckManifest, ReadIndex, QueryDone, CollectionInv, TypeOK, stateVars, fileVars, ruleVars
<1>14. CASE UNCHANGED vars
  BY <1>0, <1>14 DEF vars, CollectionInv, TypeOK, stateVars, fileVars, ruleVars, queryVars
<1> QED BY <1>1, <1>2, <1>3, <1>4, <1>5, <1>6, <1>7, <1>8, <1>9, <1>10, <1>11, <1>12, <1>13, <1>14
        DEF Next

\* A source more: what the earlier ones brought stays.
LEMMA AppendFacts ==
    ASSUME CollectionInv, BatchOver, NEW r \in [ok : BOOLEAN, files : SUBSET Files],
           results' = Append(results, r)
    PROVE  /\ DOMAIN results' = DOMAIN results \cup {Source} /\ Source \notin DOMAIN results
           /\ Len(results') = Source /\ Source \in Nat /\ results' # <<>>
           /\ results'[Source] = r /\ \A s \in DOMAIN results : results'[s] = results[s]
           /\ AllOk' <=> r.ok
           /\ Downloaded' = Downloaded \cup ({Source} \X r.files)
<1>1. results \in Seq([ok : BOOLEAN, files : SUBSET Files])
  BY DEF CollectionInv, TypeOK
<1>2. /\ DOMAIN results' = DOMAIN results \cup {Source} /\ Source \notin DOMAIN results
      /\ Len(results') = Source /\ Source \in Nat /\ results' # <<>>
      /\ results'[Source] = r /\ \A s \in DOMAIN results : results'[s] = results[s]
  BY <1>1 DEF Source
<1>3. AllOk' <=> r.ok
  BY <1>2, SourceFacts DEF AllOk
<1>4. Downloaded' = Downloaded \cup ({Source} \X r.files)
  <2>1. ASSUME NEW item \in Items
        PROVE  item \in Downloaded' <=> item \in Downloaded \cup ({Source} \X r.files)
    <3>1. item = <<item[1], item[2]>>
      BY DEF Items
    <3>2. item \in {Source} \X r.files <=> item[1] = Source /\ item[2] \in r.files
      BY <3>1
    <3>3. item \in Downloaded <=> item[1] \in DOMAIN results /\ item[2] \in results[item[1]].files
      BY DEF Downloaded
    <3>4. item \in Downloaded' <=> item[1] \in DOMAIN results' /\ item[2] \in results'[item[1]].files
      BY DEF Downloaded
    <3>5. CASE item[1] = Source
      BY <1>2, <3>2, <3>3, <3>4, <3>5
    <3>6. CASE item[1] # Source
      BY <1>2, <3>2, <3>3, <3>4, <3>6
    <3> QED BY <3>5, <3>6
  <2>2. Downloaded \subseteq Items /\ Downloaded' \subseteq Items
    BY DEF Downloaded
  <2>3. {Source} \X r.files \subseteq Items
    BY SourceFacts DEF Items
  <2> QED BY <2>1, <2>2, <2>3
<1> QED BY <1>2, <1>3, <1>4

LEMMA FetchPart ==
    ASSUME CollectionInv, [Next]_vars
    PROVE  FetchInv'
<1> USE DEF CollectionInv
<1>1. ASSUME NEW n \in Sources, Download(n) PROVE FetchInv'
  <2>1. /\ pc' = "download" /\ declared' = n /\ results' = <<>> /\ results = <<>>
        /\ expanded' = expanded /\ raw' = raw /\ failed' = failed /\ ~failed
    BY <1>1 DEF Download, DownloadAllowed, fileVars
  <2>2. n > 0 /\ Len(results') = 0 /\ DOMAIN results' = {}
    BY <2>1, CollectionAssumption DEF Sources
  <2> QED BY <2>1, <2>2 DEF FetchInv, AllOk, Downloaded
<1>2. CASE StartSource \/ Transfers
  BY <1>2 DEF StartSource, Transfers, stateVars, fileVars, FetchInv, AllOk, Downloaded
<1>3. CASE SourceFetched
  <2>1. [ok |-> TRUE, files |-> Completed] \in [ok : BOOLEAN, files : SUBSET Files]
    BY <1>3, SourceFacts DEF SourceFetched
  <2>2. /\ BatchOver /\ phase = "success" /\ results' = Append(results, [ok |-> TRUE, files |-> Completed])
        /\ raw' = raw \cup Fetched /\ declared' = declared /\ expanded' = expanded /\ failed' = failed
        /\ pc' = IF Source = declared THEN "call" ELSE "download"
    BY <1>3 DEF SourceFetched
  <2>3. /\ DOMAIN results' = DOMAIN results \cup {Source}
        /\ Len(results') = Source /\ Source \in Nat /\ results' # <<>>
        /\ results'[Source].files = Completed /\ \A s \in DOMAIN results : results'[s] = results[s]
        /\ AllOk' /\ Downloaded' = Downloaded \cup ({Source} \X Completed)
    <3> DEFINE r == [ok |-> TRUE, files |-> Completed]
    <3>1. r.ok = TRUE /\ r.files = Completed
      OBVIOUS
    <3>2. r \in [ok : BOOLEAN, files : SUBSET Files] /\ results' = Append(results, r)
      BY <2>1, <2>2
    <3> HIDE DEF r
    <3> QED BY <2>2, <3>1, <3>2, AppendFacts
  <2>4. Len(results) \in Nat /\ declared \in Nat /\ Source <= declared
    BY <2>2, SourceFacts DEF Source, TypeOK
  <2> QED BY <2>2, <2>3, <2>4, SourceFacts DEF FetchInv, Fetched
<1>4. CASE SourceFails
  <2>1. /\ BatchOver /\ results' = Append(results, [ok |-> FALSE, files |-> {}])
        /\ expanded' = expanded /\ pc' = "call"
    BY <1>4 DEF SourceFails
  <2>2. ~AllOk' /\ results' # <<>>
    <3> DEFINE r == [ok |-> FALSE, files |-> {}]
    <3>1. r.ok = FALSE /\ r \in [ok : BOOLEAN, files : SUBSET Files] /\ results' = Append(results, r)
      BY <2>1
    <3> HIDE DEF r
    <3> QED BY <2>1, <3>1, AppendFacts
  <2> QED BY <2>1, <2>2, SourceFacts DEF FetchInv
<1>5. CASE SourceRaises
  BY <1>5, SourceFacts DEF SourceRaises, stateVars, FetchInv, AllOk, Downloaded
<1>6. CASE ExtractAll \/ ExtractFails
  <2>1. /\ UNCHANGED <<pc, declared, results, raw>> /\ pc = "call"
        /\ expanded' = expanded \/ Succeeded
    BY <1>6 DEF ExtractAll, ExtractFails
  <2> QED BY <2>1 DEF FetchInv, AllOk, Downloaded, Succeeded
<1>7. CASE Group \/ Match \/ ScriptEnds
  <2>1. UNCHANGED <<declared, results, raw, expanded>> /\ pc' \in {pc, "ended"}
        /\ (pc = "download" => pc' = "ended")
    BY <1>7 DEF Group, Match, ScriptEnds, stateVars, fileVars
  <2> QED BY <2>1 DEF FetchInv, AllOk, Downloaded
<1>8. CASE Finalize \/ FinalizeRefused \/ WriteIndex \/ WriteManifest \/ FinalizeFails
  <2>1. /\ UNCHANGED <<declared, results, raw, expanded>>
        /\ pc \notin {"download", "ended"} /\ pc' \notin {"download", "ended"}
    BY <1>8 DEF Finalize, FinalizeRefused, WriteIndex, WriteManifest, FinalizeFails, stateVars
  <2> QED BY <2>1 DEF FetchInv, AllOk, Downloaded
<1>9. CASE CheckManifest \/ ReadIndex \/ QueryDone \/ UNCHANGED vars
  BY <1>9 DEF CheckManifest, ReadIndex, QueryDone, vars, stateVars, fileVars, FetchInv, AllOk, Downloaded
<1> QED BY <1>1, <1>2, <1>3, <1>4, <1>5, <1>6, <1>7, <1>8, <1>9 DEF Next

LEMMA PublishPart ==
    ASSUME CollectionInv, [Next]_vars
    PROVE  PublishInv'
<1> USE DEF CollectionInv, PublishInv
<1>1. ASSUME NEW n \in Sources, Download(n) PROVE PublishInv'
  BY <1>1 DEF Download, DownloadAllowed, fileVars, ruleVars, queryVars
<1>2. CASE StartSource \/ Transfers
  BY <1>2 DEF StartSource, Transfers, stateVars, fileVars, ruleVars, queryVars
<1>3. CASE SourceFetched
  BY <1>3 DEF SourceFetched, BatchOver, ruleVars, queryVars
<1>4. CASE SourceFails
  BY <1>4 DEF SourceFails, BatchOver, ruleVars, queryVars
<1>5. CASE SourceRaises
  BY <1>5 DEF SourceRaises, stateVars, ruleVars, queryVars
<1>6. CASE ExtractAll
  BY <1>6 DEF ExtractAll, ruleVars, queryVars
<1>7. CASE ExtractFails
  BY <1>7 DEF ExtractFails, FailsHere, ruleVars, queryVars
<1>8. CASE Group
  <2>1. group' # {} => expanded # {}
    BY <1>8 DEF Group
  <2> QED BY <1>8, <2>1 DEF Group, FailsHere, queryVars
<1>9. CASE Match
  <2>1. /\ pc = "call" /\ group # {}
        /\ UNCHANGED <<pc, finalized, expanded, index, announced, group, queryVars>>
        /\ \/ failed' = failed /\ manifest' = manifest
           \/ failed' = TRUE /\ manifest' = "failed"
    <3>1. pc = "call" /\ group # {}
          /\ UNCHANGED <<pc, finalized, expanded, index, announced, group, queryVars>>
      BY <1>9 DEF Match
    <3>2. UNCHANGED <<failed, manifest>> \/ FailsHere
      BY <1>9, Zenon DEF Match
    <3> QED BY <3>1, <3>2 DEF FailsHere
  <2>2. records \subseteq records'
    <3>1. \E G \in SUBSET group : records' = records \cup (G \X {rules + 1})
      BY <1>9 DEF Match
    <3> QED BY <3>1
  <2> QED BY <2>1, <2>2 DEF queryVars
<1>10. CASE Finalize
  BY <1>10 DEF Finalize, FinalizeAllowed, stateVars, ruleVars, queryVars
<1>11. CASE FinalizeRefused
  BY <1>11 DEF FinalizeRefused, FailsHere, ruleVars, queryVars
<1>12. CASE WriteIndex
  BY <1>12 DEF WriteIndex, ruleVars, queryVars
<1>13. CASE WriteManifest
  <2>1. Cardinality(records) > 0 => records # {}
    BY RecordsFinite DEF TypeOK
  <2> QED BY <1>13, <2>1 DEF WriteManifest, stateVars, ruleVars, queryVars
<1>14. CASE FinalizeFails
  BY <1>14 DEF FinalizeFails, FailsHere, ruleVars, queryVars
<1>15. CASE ScriptEnds
  BY <1>15 DEF ScriptEnds, stateVars, fileVars, ruleVars, queryVars
<1>16. CASE CheckManifest \/ ReadIndex \/ QueryDone
  BY <1>16 DEF CheckManifest, ReadIndex, QueryDone, stateVars, fileVars, ruleVars
<1>17. CASE UNCHANGED vars
  BY <1>17 DEF vars, stateVars, fileVars, ruleVars, queryVars
<1> QED BY <1>1, <1>2, <1>3, <1>4, <1>5, <1>6, <1>7, <1>8, <1>9, <1>10, <1>11, <1>12, <1>13,
           <1>14, <1>15, <1>16, <1>17 DEF Next

LEMMA CollectionInvStep ==
    ASSUME CollectionInv, [Next]_vars
    PROVE  CollectionInv'
BY BatchPart, TypePart, FetchPart, PublishPart DEF CollectionInv

LEMMA CollectionInitInv ==
    ASSUME Init
    PROVE  CollectionInv
<1>1. BatchInv
  BY BatchInitInv DEF Init
<1>2. TypeOK
  <2>1. results \in Seq([ok : BOOLEAN, files : SUBSET Files])
    BY DEF Init
  <2>2. declared \in 0..MaxSources /\ rules \in 0..MaxRules /\ announced \in Nat /\ wanted \in Nat
        /\ rows \in Nat
    BY CollectionAssumption DEF Init
  <2>3. /\ raw \subseteq Items /\ expanded \subseteq raw /\ group \subseteq expanded
        /\ records \subseteq Records /\ index \subseteq Records
        /\ many \in BOOLEAN /\ failed \in BOOLEAN /\ extracted \in BOOLEAN /\ finalized \in BOOLEAN
    BY DEF Init
  <2>4. pc \in {"call", "download", "index", "publish", "ended"}
        /\ manifest \in {"building", "failed", "ready"} /\ query \in {"idle", "checked", "read"}
    BY DEF Init
  <2> QED BY <1>1, <2>1, <2>2, <2>3, <2>4 DEF TypeOK, BatchInv
<1>3. FetchInv /\ PublishInv
  BY DEF Init, FetchInv, PublishInv, AllOk, Downloaded
<1> QED BY <1>1, <1>2, <1>3 DEF CollectionInv

\* The invariant the theorems rest on.
THEOREM CollectionKeepsInv == Spec => []CollectionInv
BY CollectionInitInv, CollectionInvStep, PTL DEF Spec

-----------------------------------------------------------------------------
(* Theorems *)

\* However the parallel transfers of a batch interleave and fail, its progress
\* lines count up one by one and a batch that is over has its files in place,
\* for any number of files and workers.
THEOREM TransfersTheorem == Spec => []TransfersInOrder
<1>1. CollectionInv => TransfersInOrder
  BY BatchPromises DEF CollectionInv, TransfersInOrder
<1> QED BY <1>1, CollectionKeepsInv, PTL

\* A query of the server reads as many records as the manifest it has checked
\* announced, whatever the script does meanwhile.
THEOREM QueriesTheorem == Spec => []QueriesAreWhole
<1>1. CollectionInv => QueriesAreWhole
  BY DEF CollectionInv, PublishInv, QueriesAreWhole
<1> QED BY <1>1, CollectionKeepsInv, PTL

-----------------------------------------------------------------------------
(* The archives that the extraction accepts *)

\* What FoldLeft computes on its way, for every set of the first n members.
IsChecked(a, n, f) ==
    f = [s \in SUBSET (1..n) |->
            IF s = {} THEN [seen |-> Archive!Nothing, verdict |-> "taken"]
            ELSE Archive!LogAdd(f[s \ {Max(s)}], a[Max(s)])]

LEMMA CheckedExists ==
    ASSUME NEW a, NEW n \in Nat
    PROVE  \E f : IsChecked(a, n, f)
<1> DEFINE P == {k \in Nat : \E f : IsChecked(a, k, f)}
           start == [seen |-> Archive!Nothing, verdict |-> "taken"]
           next(f, s) == IF s = {} THEN start ELSE Archive!LogAdd(f[s \ {Max(s)}], a[Max(s)])
<1>1. 0 \in P
  <2> DEFINE f == [s \in SUBSET (1..0) |-> start]
  <2>1. \A s \in SUBSET (1..0) : s = {}
    OBVIOUS
  <2>2. f = [s \in SUBSET (1..0) |-> next(f, s)]
    BY <2>1
  <2> HIDE DEF f
  <2> QED BY <2>2 DEF IsChecked
<1>2. ASSUME NEW k \in Nat, k \in P PROVE k + 1 \in P
  <2>1. PICK f : IsChecked(a, k, f)
    BY <1>2
  <2> DEFINE g == [s \in SUBSET (1..k + 1) |->
                      IF k + 1 \in s THEN Archive!LogAdd(f[s \ {k + 1}], a[k + 1]) ELSE f[s]]
  <2>2. \A s \in SUBSET (1..k) : g[s] = f[s] /\ s \in SUBSET (1..k + 1) /\ k + 1 \notin s
    <3> TAKE s \in SUBSET (1..k)
    <3>1. s \in SUBSET (1..k + 1) /\ k + 1 \notin s
      OBVIOUS
    <3> QED BY <3>1
  <2>3. \A s \in SUBSET (1..k) : f[s] = next(f, s)
    BY <2>1 DEF IsChecked
  <2>4. \A s \in SUBSET (1..k + 1) : k + 1 \notin s => s \in SUBSET (1..k)
    OBVIOUS
  <2>5. \A s \in SUBSET (1..k + 1) : s \ {k + 1} \in SUBSET (1..k)
    OBVIOUS
  <2>6. ASSUME NEW s \in SUBSET (1..k + 1), k + 1 \in s PROVE g[s] = next(g, s)
    <3>1. Max(s) = k + 1
      <4>1. s \in SUBSET Nat /\ \A y \in s : y <= k + 1
        OBVIOUS
      <4> QED BY <2>6, <4>1, MaxIs
    <3>2. g[s] = Archive!LogAdd(f[s \ {k + 1}], a[k + 1])
      BY <2>6
    <3>3. g[s \ {k + 1}] = f[s \ {k + 1}]
      BY <2>2, <2>5
    <3> HIDE DEF g
    <3> QED BY <2>6, <3>1, <3>2, <3>3
  <2>7. ASSUME NEW s \in SUBSET (1..k + 1), k + 1 \notin s PROVE g[s] = next(g, s)
    <3>1. s \in SUBSET (1..k) /\ s \ {Max(s)} \in SUBSET (1..k)
      BY <2>4, <2>7
    <3>2. g[s] = f[s] /\ g[s \ {Max(s)}] = f[s \ {Max(s)}]
      BY <2>2, <3>1
    <3> HIDE DEF g
    <3> QED BY <2>3, <3>1, <3>2
  <2>8. g = [s \in SUBSET (1..k + 1) |-> next(g, s)]
    <3>1. \A s \in SUBSET (1..k + 1) : g[s] = next(g, s)
      BY <2>6, <2>7
    <3>2. DOMAIN g = SUBSET (1..k + 1) /\ g = [s \in DOMAIN g |-> g[s]]
      OBVIOUS
    <3> HIDE DEF g, next
    <3> QED BY <3>1, <3>2
  <2> HIDE DEF g
  <2>9. IsChecked(a, k + 1, g)
    BY <2>8 DEF IsChecked
  <2>10. k + 1 \in Nat
    OBVIOUS
  <2> QED BY <2>9, <2>10
<1> HIDE DEF P
<1>3. n \in P
  BY <1>1, <1>2, EveryNumber
<1> QED BY <1>3 DEF P

\* The first members, checked one after the other.
CheckedTo(a, k) == (CHOOSE f : IsChecked(a, Len(a), f))[1..k]

LEMMA CheckedSteps ==
    ASSUME NEW T, NEW a \in Seq(T)
    PROVE  /\ Archive!LogAccepts(a) <=> CheckedTo(a, Len(a)).verdict # Archive!Refused
           /\ CheckedTo(a, 0) = [seen |-> Archive!Nothing, verdict |-> "taken"]
           /\ \A k \in 0..Len(a) - 1 : CheckedTo(a, k + 1) = Archive!LogAdd(CheckedTo(a, k), a[k + 1])
<1> DEFINE n == Len(a)
           f == CHOOSE f : IsChecked(a, n, f)
<1>1. n \in Nat /\ DOMAIN a = 1..n
  OBVIOUS
<1>2. Archive!LogAccepts(a) <=> f[1..n].verdict # Archive!Refused
  <2>1. Archive!LogAccepts(a) <=>
          (CHOOSE h : h = [s \in SUBSET DOMAIN a |->
               IF s = {} THEN [seen |-> Archive!Nothing, verdict |-> "taken"]
               ELSE Archive!LogAdd(h[s \ {Max(s)}], a[Max(s)])])[DOMAIN a].verdict # Archive!Refused
    BY DEF Archive!LogAccepts, Archive!FoldLeft, Archive!MapThenFoldSet, Archive!Max, Max
  <2> HIDE DEF n
  <2> QED BY <1>1, <2>1 DEF IsChecked
<1>3. IsChecked(a, n, f)
  <2>1. PICK h : IsChecked(a, n, h)
    BY <1>1, CheckedExists
  <2> QED BY <2>1
<1> HIDE DEF f, n
<1>4. \A s \in SUBSET (1..n) :
        f[s] = IF s = {} THEN [seen |-> Archive!Nothing, verdict |-> "taken"]
               ELSE Archive!LogAdd(f[s \ {Max(s)}], a[Max(s)])
  BY <1>3 DEF IsChecked
<1>5. f[1..0] = [seen |-> Archive!Nothing, verdict |-> "taken"]
  <2>1. 1..0 = {} /\ 1..0 \in SUBSET (1..n)
    OBVIOUS
  <2> QED BY <1>4, <2>1
<1>6. ASSUME NEW k \in 0..n - 1 PROVE f[1..k + 1] = Archive!LogAdd(f[1..k], a[k + 1])
  <2>1. 1..k + 1 \in SUBSET (1..n) /\ k + 1 \in 1..k + 1
    BY <1>1
  <2>2. (1..k + 1) \ {k + 1} = 1..k
    OBVIOUS
  <2>3. 1..k + 1 \in SUBSET Nat /\ \A y \in 1..k + 1 : y <= k + 1
    OBVIOUS
  <2>4. Max(1..k + 1) = k + 1
    BY <2>1, <2>3, MaxIs
  <2> QED BY <1>4, <2>1, <2>2, <2>4
<1>7. \A k : CheckedTo(a, k) = f[1..k]
  BY DEF CheckedTo, f, n
<1> QED BY <1>2, <1>5, <1>6, <1>7 DEF n

\* What the check has noted of the first k members, as long as it refuses none.
LogMember(T) == [path : Seq(T), directory : BOOLEAN, size : Nat]

NotedFits(a, k, state) ==
    /\ state = [seen |-> state.seen, verdict |-> state.verdict]
    /\ state.verdict # Archive!Refused =>
         /\ DOMAIN state.seen = {a[i].path : i \in 1..k}
         /\ \A i \in 1..k : state.seen[a[i].path] = a[i].directory
         /\ \A i, j \in 1..k : /\ a[i].path = a[j].path => i = j
                               /\ Archive!Within(a[i].path, a[j].path) => a[j].directory

LEMMA NotWithinItself == ASSUME NEW T, NEW p \in Seq(T) PROVE ~Archive!Within(p, p)
<1> SUFFICES ASSUME NEW n \in 1..Len(p) - 1 PROVE SubSeq(p, 1, n) # p
  BY DEF Archive!Within, Archive!Parents
<1>1. n \in Nat /\ Len(p) \in Nat /\ n <= Len(p) /\ n # Len(p)
  OBVIOUS
<1>2. Len(SubSeq(p, 1, n)) = n
  BY <1>1
<1> QED BY <1>1, <1>2

LEMMA LogAddFits ==
    ASSUME NEW T, NEW a \in Seq(LogMember(T)), NEW k \in 0..Len(a) - 1, NEW state, NotedFits(a, k, state)
    PROVE  NotedFits(a, k + 1, Archive!LogAdd(state, a[k + 1]))
<1> DEFINE m == a[k + 1]
           new == Archive!LogAdd(state, m)
           seen == state.seen
           noted == Archive!Noted(seen, m)
<1>1. /\ k + 1 \in 1..Len(a) /\ m.path \in Seq(T) /\ m.directory \in BOOLEAN
      /\ \A i \in 1..k + 1 : i \in 1..k \/ i = k + 1
      /\ \A i \in 1..k : i \in 1..k + 1 /\ i # k + 1
  <2>1. k + 1 \in 1..Len(a)
    OBVIOUS
  <2>2. m \in LogMember(T)
    BY <2>1
  <2> QED BY <2>1, <2>2 DEF LogMember
<1>2. state = [seen |-> seen, verdict |-> state.verdict]
  BY DEF NotedFits
<1> DEFINE refused == m.path \in DOMAIN seen \/ Archive!ParentFileCollision(seen, m)
<1>3. new = IF refused THEN [seen |-> seen, verdict |-> Archive!Refused]
            ELSE [seen |-> noted, verdict |-> state.verdict]
  <2>1. new = IF refused THEN [state EXCEPT !.verdict = Archive!Refused]
              ELSE [state EXCEPT !.seen = noted]
    BY DEF Archive!LogAdd
  <2> HIDE DEF new, refused, noted, seen
  <2> QED BY <1>2, <2>1
<1>4. CASE refused \/ state.verdict = Archive!Refused
  <2>1. new = [seen |-> new.seen, verdict |-> new.verdict] /\ new.verdict = Archive!Refused
    <3> HIDE DEF new, refused, noted, seen
    <3> QED BY <1>3, <1>4
  <2> HIDE DEF new
  <2>2. NotedFits(a, k + 1, new)
    BY <2>1 DEF NotedFits
  <2> QED BY <2>2 DEF new
<1>5. CASE ~refused /\ state.verdict # Archive!Refused
  <2>1. new = [seen |-> new.seen, verdict |-> new.verdict] /\ new.seen = noted
    <3> HIDE DEF new, refused, noted, seen
    <3> QED BY <1>3, <1>5
  <2>2. /\ DOMAIN seen = {a[i].path : i \in 1..k}
        /\ \A i \in 1..k : seen[a[i].path] = a[i].directory
        /\ \A i, j \in 1..k : /\ a[i].path = a[j].path => i = j
                              /\ Archive!Within(a[i].path, a[j].path) => a[j].directory
    BY <1>5 DEF NotedFits
  <2>3. \A i \in 1..k : a[i].path \in DOMAIN seen /\ a[i].path # m.path
    BY <1>5, <2>2
  <2>4. DOMAIN noted = DOMAIN seen \cup {m.path} /\ noted[m.path] = m.directory
        /\ \A p \in DOMAIN seen : p # m.path => noted[p] = seen[p]
    BY DEF Archive!Noted
  <2>5. DOMAIN noted = {a[i].path : i \in 1..k + 1}
    <3> HIDE DEF seen, noted
    <3> QED BY <1>1, <2>2, <2>4
  <2>6. \A i \in 1..k + 1 : noted[a[i].path] = a[i].directory
    <3> HIDE DEF seen, noted
    <3> QED BY <1>1, <2>2, <2>3, <2>4
  <2>7. \A i, j \in 1..k + 1 : a[i].path = a[j].path => i = j
    BY <1>1, <2>2, <2>3
  <2>8. ASSUME NEW i \in 1..k + 1, NEW j \in 1..k + 1, Archive!Within(a[i].path, a[j].path)
        PROVE  a[j].directory
    <3>1. CASE i \in 1..k /\ j \in 1..k
      BY <2>2, <2>8, <3>1
    <3>2. CASE i \in 1..k /\ j = k + 1
      BY <1>5, <2>3, <2>8, <3>2 DEF Archive!ParentFileCollision
    <3>3. CASE i = k + 1 /\ j \in 1..k
      BY <1>5, <2>2, <2>3, <2>8, <3>3 DEF Archive!ParentFileCollision
    <3>4. CASE i = k + 1 /\ j = k + 1
      BY <1>1, <2>8, <3>4, NotWithinItself
    <3> QED BY <1>1, <3>1, <3>2, <3>3, <3>4
  <2> HIDE DEF noted, new, refused
  <2>9. NotedFits(a, k + 1, new)
    BY <2>1, <2>5, <2>6, <2>7, <2>8 DEF NotedFits
  <2> QED BY <2>9 DEF new
<1> QED BY <1>4, <1>5

\* Of any number of members with any paths, an archive that the check of _extract_tar
\* accepts has no two members in one place and none in a file.
THEOREM AcceptedIsUnambiguous ==
    ASSUME NEW T, NEW a \in Seq(LogMember(T)), Archive!LogAccepts(a)
    PROVE  Archive!Unambiguous(a)
<1> DEFINE P == {k \in Nat : k \in 0..Len(a) => NotedFits(a, k, CheckedTo(a, k))}
<1>1. 0 \in P
  <2>1. CheckedTo(a, 0) = [seen |-> Archive!Nothing, verdict |-> "taken"]
    BY CheckedSteps
  <2>2. DOMAIN Archive!Nothing = {} /\ 1..0 = {}
    BY DEF Archive!Nothing
  <2> QED BY <2>1, <2>2 DEF NotedFits
<1>2. ASSUME NEW k \in Nat, k \in P PROVE k + 1 \in P
  <2>1. SUFFICES ASSUME k + 1 \in 0..Len(a) PROVE NotedFits(a, k + 1, CheckedTo(a, k + 1))
    OBVIOUS
  <2>2. k \in 0..Len(a) - 1 /\ k \in 0..Len(a)
    BY <2>1
  <2>3. NotedFits(a, k, CheckedTo(a, k))
    BY <1>2, <2>2
  <2>4. CheckedTo(a, k + 1) = Archive!LogAdd(CheckedTo(a, k), a[k + 1])
    BY <2>2, CheckedSteps
  <2> QED BY <2>2, <2>3, <2>4, LogAddFits
<1>3. NotedFits(a, Len(a), CheckedTo(a, Len(a)))
  <2>1. \A k \in Nat : k \in P
    <3> HIDE DEF P
    <3> QED BY <1>1, <1>2, EveryNumber
  <2>2. Len(a) \in 0..Len(a) /\ Len(a) \in Nat
    OBVIOUS
  <2> QED BY <2>1, <2>2
<1>4. CheckedTo(a, Len(a)).verdict # Archive!Refused /\ DOMAIN a = 1..Len(a)
  BY CheckedSteps
<1> QED BY <1>3, <1>4 DEF NotedFits, Archive!Unambiguous

\* What an accepted archive holds is written in full.
LEMMA AcceptedAreWholeHolds == Archive!AcceptedAreWhole \subseteq {TRUE}
<1> SUFFICES ASSUME NEW a \in Archive!LogArchives, Archive!LogAccepts(a)
             PROVE  Archive!Unambiguous(a) = TRUE
  BY DEF Archive!AcceptedAreWhole
<1>1. PICK n \in 0..3 : a \in [1..n -> Archive!MemberChoices]
  BY DEF Archive!LogArchives
<1> DEFINE T == {"a", "A", "b"}
<1>2. \A m \in Archive!MemberChoices : m \in LogMember(T)
  <2>1. ASSUME NEW x \in T PROVE <<x>> \in Seq(T)
    OBVIOUS
  <2>2. ASSUME NEW x \in T, NEW y \in T PROVE <<x, y>> \in Seq(T)
    OBVIOUS
  <2>3. \A p \in Archive!Paths : p \in Seq(T)
    BY <2>1, <2>2 DEF Archive!Paths
  <2> QED BY <2>3 DEF Archive!MemberChoices, LogMember
<1> HIDE DEF T
<1>3. a \in [1..n -> LogMember(T)]
  BY <1>1, <1>2
<1>4. a \in Seq(LogMember(T))
  BY <1>3
<1>5. Archive!Unambiguous(a)
  BY <1>4, AcceptedIsUnambiguous
<1> QED BY <1>5 DEF Archive!Unambiguous

\* Extraction copies all that was downloaded, or fails the collection.
LEMMA WholeStep ==
    ASSUME CollectionInv, WholeInv, [Next]_vars
    PROVE  WholeInv'
<1> USE DEF WholeInv
<1>1. CASE ExtractAll
  BY <1>1, AcceptedAreWholeHolds DEF ExtractAll, Downloaded
<1>2. CASE ExtractFails \/ SourceFails \/ FinalizeRefused \/ FinalizeFails
  BY <1>2 DEF ExtractFails, SourceFails, FinalizeRefused, FinalizeFails, FailsHere
<1>3. CASE SourceFetched
  BY <1>3, SourceFacts DEF SourceFetched
<1>4. CASE Group \/ Match
  <2>1. UNCHANGED <<results, expanded>> /\ (failed' = failed \/ failed')
    BY <1>4 DEF Group, Match, FailsHere
  <2> QED BY <2>1 DEF Downloaded
<1>5. CASE (\E n \in Sources : Download(n)) \/ StartSource \/ Transfers \/ SourceRaises \/ ScriptEnds
  BY <1>5 DEF Download, StartSource, Transfers, SourceRaises, ScriptEnds, stateVars, fileVars, Downloaded
<1>6. CASE Finalize \/ WriteIndex \/ WriteManifest
  BY <1>6 DEF Finalize, WriteIndex, WriteManifest, stateVars, Downloaded
<1>7. CASE CheckManifest \/ ReadIndex \/ QueryDone \/ UNCHANGED vars
  BY <1>7 DEF CheckManifest, ReadIndex, QueryDone, vars, stateVars, fileVars, Downloaded
<1> QED BY <1>1, <1>2, <1>3, <1>4, <1>5, <1>6, <1>7 DEF Next

\* The records a ready collection offers come from a complete download, expanded
\* in full, for any number of sources and rules and any order of the script's calls.
THEOREM ReadyTheorem == Spec => []ReadyIsWhole
<1>1. Init => WholeInv
  BY DEF Init, WholeInv
<1>2. CollectionInv /\ WholeInv /\ [Next]_vars => WholeInv'
  BY WholeStep
<1>3. CollectionInv /\ WholeInv => ReadyIsWhole
  BY DEF CollectionInv, FetchInv, PublishInv, WholeInv, AllOk, ReadyIsWhole
<1> QED BY <1>1, <1>2, <1>3, CollectionKeepsInv, PTL DEF Spec

-----------------------------------------------------------------------------
(* Readings: rows in order, and answers one after the other *)

\* A set of numbers that has a bound has a greatest one.
LEMMA GreatestNumber ==
    ASSUME NEW S \in SUBSET Nat, S # {}, NEW m \in Nat, \A x \in S : x <= m
    PROVE  \E x \in S : \A y \in S : y <= x
<1> DEFINE T == {k \in Nat : \A x \in S : x <= k}
<1>1. PICK k \in T : \A j \in T : k <= j
  <2>1. m \in T
    OBVIOUS
  <2> QED BY <2>1, LeastNumber
<1>2. k \in S
  <2>1. SUFFICES ASSUME k \notin S PROVE FALSE
    OBVIOUS
  <2>2. ASSUME NEW x \in S PROVE x <= k - 1
    <3>1. x \in Nat /\ x <= k /\ x # k /\ k \in Nat
      BY <2>1
    <3> QED BY <3>1
  <2>3. k \in Nat /\ k - 1 \in Nat
    <3>1. PICK x \in S : TRUE
      OBVIOUS
    <3>2. x \in Nat /\ x <= k - 1 /\ k \in Nat
      BY <2>2, <3>1
    <3> QED BY <3>2
  <2>4. k - 1 \in T
    BY <2>2, <2>3
  <2> QED BY <1>1, <2>3, <2>4
<1> QED BY <1>1, <1>2

\* The number of rows before a row of S tells its place.
LEMMA Places ==
    ASSUME NEW S \in SUBSET Nat, IsFiniteSet(S)
    PROVE  LET before(x) == Cardinality({y \in S : y < x})
           IN  /\ Cardinality(S) \in Nat
               /\ \A x \in S : before(x) \in 0..Cardinality(S) - 1
               /\ \A x, y \in S : x < y => before(x) < before(y)
               /\ \A k \in 1..Cardinality(S) : \E x \in S : before(x) = k - 1
<1> DEFINE below(x) == {y \in S : y < x}
           n == Cardinality(S)
           f == [x \in S |-> Cardinality(below(x))]
<1>1. n \in Nat
  BY FS_CardinalityType
<1>2. ASSUME NEW x \in S
      PROVE IsFiniteSet(below(x)) /\ Cardinality(below(x)) \in Nat /\ Cardinality(below(x)) < n
  <2>1. below(x) \in SUBSET S /\ x \notin below(x)
    OBVIOUS
  <2>2. /\ IsFiniteSet(below(x)) /\ Cardinality(below(x)) <= n
        /\ n = Cardinality(below(x)) => S = below(x)
    BY <2>1, FS_Subset
  <2>3. Cardinality(below(x)) \in Nat
    BY <2>2, FS_CardinalityType
  <2> HIDE DEF below, n
  <2> QED BY <1>1, <2>1, <2>2, <2>3
<1>3. ASSUME NEW x \in S, NEW y \in S, x < y PROVE Cardinality(below(x)) < Cardinality(below(y))
  <2>1. below(x) \in SUBSET below(y) /\ x \notin below(x) /\ x \in below(y)
    <3>1. x \in Nat /\ y \in Nat /\ ~(x < x)
      OBVIOUS
    <3>2. \A z \in S : z < x => z < y
      <4> TAKE z \in S
      <4>1. z \in Nat
        OBVIOUS
      <4> QED BY <1>3, <3>1, <4>1
    <3> QED BY <1>3, <3>1, <3>2
  <2>2. /\ Cardinality(below(x)) <= Cardinality(below(y))
        /\ Cardinality(below(y)) = Cardinality(below(x)) => below(y) = below(x)
    BY <1>2, <2>1, FS_Subset
  <2>3. Cardinality(below(x)) \in Nat /\ Cardinality(below(y)) \in Nat
    BY <1>2
  <2> HIDE DEF below
  <2> QED BY <2>1, <2>2, <2>3
<1>4. \A x \in S : Cardinality(below(x)) \in 0..n - 1
  <2> TAKE x \in S
  <2>1. Cardinality(below(x)) \in Nat /\ Cardinality(below(x)) < n
    BY <1>2
  <2> HIDE DEF below, n
  <2> QED BY <1>1, <2>1
<1> HIDE DEF below, n
<1>5. f \in [S -> 0..n - 1] /\ \A x \in S : f[x] = Cardinality(below(x))
  BY <1>4
<1>6. \A x, y \in S : f[x] = f[y] => x = y
  <2> SUFFICES ASSUME NEW x \in S, NEW y \in S, f[x] = f[y] PROVE x = y
    OBVIOUS
  <2>1. Cardinality(below(x)) \in Int /\ Cardinality(below(x)) = Cardinality(below(y))
    <3> HIDE DEF f
    <3> QED BY <1>1, <1>4, <1>5
  <2>2. ~(x < y)
    BY <1>3, <2>1
  <2>3. ~(y < x)
    BY <1>3, <2>1
  <2>4. x \in Nat /\ y \in Nat
    OBVIOUS
  <2> QED BY <2>2, <2>3, <2>4
<1> HIDE DEF f
<1>7. f \in Injection(S, 0..n - 1)
  BY <1>5, <1>6 DEF Injection, IsInjective
<1>8. IsFiniteSet(0..n - 1) /\ Cardinality(0..n - 1) = n
  <2>1. 0 \in Int /\ n - 1 \in Int
    BY <1>1
  <2>2. IsFiniteSet(0..n - 1) /\ Cardinality(0..n - 1) = IF 0 > n - 1 THEN 0 ELSE n - 1 - 0 + 1
    BY <2>1, FS_Interval
  <2> QED BY <1>1, <2>2
<1>9. f \in Surjection(S, 0..n - 1)
  BY <1>7, <1>8, FS_Injection DEF n
<1>10. \A k \in 1..n : \E x \in S : Cardinality(below(x)) = k - 1
  <2> TAKE k \in 1..n
  <2>1. k - 1 \in 0..n - 1
    BY <1>1
  <2>2. PICK x \in S : f[x] = k - 1
    BY <1>9, <2>1 DEF Surjection
  <2> QED BY <1>5, <2>2
<1> QED BY <1>1, <1>3, <1>4, <1>10 DEF below, n

\* ORDER BY lists every row of a set once, in ascending order.
LEMMA InSequenceFacts ==
    ASSUME NEW S \in SUBSET Nat, IsFiniteSet(S)
    PROVE  LET s == InSequence(S)
           IN  /\ s \in Seq(S) /\ s \in Seq(Nat) /\ Len(s) = Cardinality(S) /\ Len(s) \in Nat
               /\ DOMAIN s = 1..Len(s)
               /\ \A i, j \in DOMAIN s : i < j => s[i] < s[j]
               /\ \A x \in S : \E i \in DOMAIN s : s[i] = x
<1> DEFINE before(x) == Cardinality({y \in S : y < x})
           n == Cardinality(S)
           s == InSequence(S)
<1>1. /\ n \in Nat
      /\ \A x \in S : before(x) \in 0..n - 1
      /\ \A x, y \in S : x < y => before(x) < before(y)
      /\ \A k \in 1..n : \E x \in S : before(x) = k - 1
  BY Places
<1>2. s = [k \in 1..n |-> CHOOSE r \in S : before(r) = k - 1]
  BY DEF InSequence
<1> HIDE DEF before, n
<1>3. \A k \in 1..n : s[k] \in S /\ before(s[k]) = k - 1
  <2> TAKE k \in 1..n
  <2>1. s[k] = CHOOSE r \in S : before(r) = k - 1
    BY <1>2
  <2> QED BY <1>1, <2>1
<1>4. s \in [1..n -> S]
  BY <1>2, <1>3
<1> HIDE DEF s
<1>5. s \in Seq(S) /\ s \in Seq(Nat) /\ Len(s) = n /\ DOMAIN s = 1..n
  <2>1. s \in [1..n -> Nat]
    BY <1>4
  <2> QED BY <1>1, <1>4, <2>1
<1>6. \A i, j \in 1..n : i < j => s[i] < s[j]
  <2> SUFFICES ASSUME NEW i \in 1..n, NEW j \in 1..n, i < j PROVE s[i] < s[j]
    OBVIOUS
  <2>1. s[i] \in S /\ s[j] \in S /\ before(s[i]) = i - 1 /\ before(s[j]) = j - 1
    BY <1>3
  <2>2. s[i] # s[j]
    BY <1>1, <2>1
  <2>3. ~(s[j] < s[i])
    <3>1. SUFFICES ASSUME s[j] < s[i] PROVE FALSE
      OBVIOUS
    <3>2. before(s[j]) < before(s[i])
      BY <1>1, <2>1, <3>1
    <3>3. i \in Int /\ j \in Int
      BY <1>1
    <3> QED BY <2>1, <3>2, <3>3
  <2>4. s[i] \in Nat /\ s[j] \in Nat
    BY <2>1
  <2> QED BY <2>2, <2>3, <2>4
<1>7. \A x \in S : \E i \in 1..n : s[i] = x
  <2> TAKE x \in S
  <2> DEFINE i == before(x) + 1
  <2>1. before(x) \in 0..n - 1
    BY <1>1
  <2>2. i \in 1..n /\ i - 1 = before(x)
    BY <1>1, <2>1
  <2> HIDE DEF i
  <2>3. s[i] \in S /\ before(s[i]) = before(x)
    BY <1>3, <2>2
  <2>4. before(x) \in Int /\ ~(before(x) < before(x))
    BY <1>1, <2>1
  <2>5. ~(s[i] < x) /\ ~(x < s[i])
    BY <1>1, <2>3, <2>4
  <2>6. s[i] \in Nat /\ x \in Nat
    BY <2>3
  <2>7. s[i] = x
    BY <2>5, <2>6
  <2> QED BY <2>2, <2>7
<1> QED BY <1>1, <1>5, <1>6, <1>7 DEF s, n

\* What FlattenSeq computes on its way: the first i sequences, one after the other.
IsFlat(ss, m, f) == f = [i \in 1..m |-> IF i = 1 THEN ss[i] ELSE f[i - 1] \o ss[i]]

LEMMA FlatExists ==
    ASSUME NEW ss, NEW m \in Nat
    PROVE  \E f : IsFlat(ss, m, f)
<1> DEFINE P == {k \in Nat : \E f : IsFlat(ss, k, f)}
<1>1. 0 \in P
  <2>1. IsFlat(ss, 0, [i \in {} |-> 0])
    <3>1. 1..0 = {}
      OBVIOUS
    <3> QED BY <3>1 DEF IsFlat
  <2> QED BY <2>1
<1>2. ASSUME NEW k \in Nat, k \in P PROVE k + 1 \in P
  <2>1. PICK f : IsFlat(ss, k, f)
    BY <1>2
  <2> DEFINE g == [i \in 1..k + 1 |-> IF i = 1 THEN ss[i] ELSE f[i - 1] \o ss[i]]
  <2>2. \A i \in 1..k : g[i] = f[i]
    <3> TAKE i \in 1..k
    <3>1. i \in 1..k + 1
      OBVIOUS
    <3>2. f[i] = IF i = 1 THEN ss[i] ELSE f[i - 1] \o ss[i]
      BY <2>1 DEF IsFlat
    <3> QED BY <3>1, <3>2
  <2>3. \A i \in 1..k + 1 : f[i - 1] \o ss[i] = g[i - 1] \o ss[i] \/ i = 1
    <3> TAKE i \in 1..k + 1
    <3>1. i # 1 => i - 1 \in 1..k
      OBVIOUS
    <3> QED BY <2>2, <3>1
  <2>4. g = [i \in 1..k + 1 |-> IF i = 1 THEN ss[i] ELSE g[i - 1] \o ss[i]]
    BY <2>3
  <2>5. IsFlat(ss, k + 1, g)
    BY <2>4 DEF IsFlat
  <2>6. k + 1 \in Nat
    OBVIOUS
  <2> QED BY <2>5, <2>6
<1> HIDE DEF P
<1>3. m \in P
  BY <1>1, <1>2, EveryNumber
<1> QED BY <1>3 DEF P

LEMMA FlatChosen ==
    ASSUME NEW ss, NEW m \in Nat
    PROVE  IsFlat(ss, m, CHOOSE f : IsFlat(ss, m, f))
<1>1. PICK f : IsFlat(ss, m, f)
  BY FlatExists
<1> QED BY <1>1

\* Longer runs of sequences begin alike.
LEMMA FlatUnique ==
    ASSUME NEW T, NEW ss \in Seq(Seq(T)), NEW tt \in Seq(Seq(T)), NEW m \in Nat, NEW n \in Nat,
           m <= n, m <= Len(ss), \A i \in 1..m : tt[i] = ss[i],
           NEW f, NEW g, IsFlat(ss, m, f), IsFlat(tt, n, g)
    PROVE  \A i \in 1..m : f[i] = g[i] /\ f[i] \in Seq(T)
<1> DEFINE P == {k \in Nat : k \in 1..m => f[k] = g[k] /\ f[k] \in Seq(T)}
<1>1. 0 \in P
  OBVIOUS
<1>2. ASSUME NEW k \in Nat, k \in P PROVE k + 1 \in P
  <2>1. SUFFICES ASSUME k + 1 \in 1..m PROVE f[k + 1] = g[k + 1] /\ f[k + 1] \in Seq(T)
    OBVIOUS
  <2>2. k + 1 \in 1..n /\ (k + 1) - 1 = k /\ (k # 0 => k \in 1..m) /\ 1 \in 1..m
        /\ k + 1 \in 1..Len(ss)
    BY <2>1
  <2>3. /\ f[k + 1] = IF k + 1 = 1 THEN ss[k + 1] ELSE f[k] \o ss[k + 1]
        /\ g[k + 1] = IF k + 1 = 1 THEN tt[k + 1] ELSE g[k] \o tt[k + 1]
    BY <2>1, <2>2 DEF IsFlat
  <2>4. ss[k + 1] \in Seq(T) /\ tt[k + 1] = ss[k + 1]
    BY <2>1, <2>2
  <2>5. k # 0 => f[k] = g[k] /\ f[k] \in Seq(T)
    BY <1>2, <2>2
  <2>6. CASE k = 0
    BY <2>3, <2>4, <2>6
  <2>7. CASE k # 0
    <3>1. k + 1 # 1
      BY <2>7
    <3>2. f[k + 1] = f[k] \o ss[k + 1] /\ g[k + 1] = g[k] \o tt[k + 1]
      BY <2>3, <3>1
    <3>3. f[k] \o ss[k + 1] \in Seq(T)
      BY <2>4, <2>5, <2>7
    <3>4. g[k] = f[k] /\ tt[k + 1] = ss[k + 1]
      BY <2>4, <2>5, <2>7
    <3>5. g[k + 1] = f[k] \o ss[k + 1]
      BY <3>2, <3>4
    <3> QED BY <3>2, <3>3, <3>5
  <2> QED BY <2>6, <2>7
<1> HIDE DEF P
<1>3. \A k \in Nat : k \in P
  BY <1>1, <1>2, EveryNumber
<1>4. \A i \in 1..m : i \in Nat
  OBVIOUS
<1> QED BY <1>3, <1>4 DEF P

\* One more answer is put at the end of what has been shown.
LEMMA FlattenAppend ==
    ASSUME NEW T, NEW ss \in Seq(Seq(T)), NEW t \in Seq(T)
    PROVE  /\ FlattenSeq(ss) \in Seq(T)
           /\ FlattenSeq(Append(ss, t)) = FlattenSeq(ss) \o t
<1> DEFINE n == Len(ss)
           tt == Append(ss, t)
           flat(s, m) == CHOOSE f : IsFlat(s, m, f)
<1>1. /\ n \in Nat /\ tt \in Seq(Seq(T)) /\ Len(tt) = n + 1 /\ tt[n + 1] = t
      /\ \A i \in 1..n : tt[i] = ss[i]
  OBVIOUS
<1>2. IsFlat(ss, n, flat(ss, n)) /\ IsFlat(tt, n + 1, flat(tt, n + 1))
  BY <1>1, FlatChosen
<1>3. FlattenSeq(ss) = IF n = 0 THEN ss ELSE flat(ss, n)[n]
  BY DEF FlattenSeq, IsFlat
<1>4. FlattenSeq(tt) = IF n + 1 = 0 THEN tt ELSE flat(tt, n + 1)[n + 1]
  <2>1. FlattenSeq(tt) = IF Len(tt) = 0 THEN tt ELSE flat(tt, Len(tt))[Len(tt)]
    <3> HIDE DEF tt
    <3> QED BY DEF FlattenSeq, IsFlat
  <2> HIDE DEF tt, flat
  <2> QED BY <1>1, <2>1
<1> HIDE DEF n, tt, flat
<1>5. \A i \in 1..n : flat(ss, n)[i] = flat(tt, n + 1)[i] /\ flat(ss, n)[i] \in Seq(T)
  <2>1. n + 1 \in Nat /\ n <= n + 1 /\ n <= Len(ss)
    BY <1>1 DEF n
  <2> QED BY <1>1, <1>2, <2>1, FlatUnique
<1>6. flat(tt, n + 1)[n + 1] = IF n + 1 = 1 THEN tt[n + 1] ELSE flat(tt, n + 1)[n] \o tt[n + 1]
  <2>1. n + 1 \in 1..n + 1 /\ (n + 1) - 1 = n
    BY <1>1
  <2> QED BY <1>2, <2>1 DEF IsFlat
<1>7. CASE n = 0
  <2>1. ss = <<>>
    BY <1>7 DEF n
  <2>2. FlattenSeq(tt) = t /\ FlattenSeq(ss) = <<>>
    BY <1>1, <1>3, <1>4, <1>6, <1>7, <2>1
  <2> QED BY <2>2 DEF tt
<1>8. CASE n # 0
  <2>1. n \in 1..n /\ n + 1 # 1 /\ n + 1 # 0
    BY <1>1, <1>8
  <2>2. FlattenSeq(ss) \in Seq(T) /\ FlattenSeq(ss) = flat(tt, n + 1)[n]
    BY <1>3, <1>5, <1>8, <2>1
  <2>3. FlattenSeq(tt) = flat(tt, n + 1)[n] \o t
    BY <1>1, <1>4, <1>6, <2>1
  <2> QED BY <2>2, <2>3 DEF tt
<1> QED BY <1>7, <1>8

-----------------------------------------------------------------------------
\* What a window and a page are.
LEMMA ConcatFacts ==
    ASSUME NEW T, NEW u \in Seq(T), NEW v \in Seq(T)
    PROVE  /\ u \o v \in Seq(T) /\ Len(u \o v) = Len(u) + Len(v)
           /\ \A i \in 1..Len(u) + Len(v) :
                (u \o v)[i] = IF i <= Len(u) THEN u[i] ELSE v[i - Len(u)]
  OBVIOUS

LEMMA SubSeqJoins ==
    ASSUME NEW T, NEW s \in Seq(T), NEW a \in Nat, NEW b \in Nat, a <= b, b <= Len(s)
    PROVE  SubSeq(s, 1, a) \o SubSeq(s, a + 1, b) = SubSeq(s, 1, b)
<1> DEFINE u == SubSeq(s, 1, a)
           v == SubSeq(s, a + 1, b)
           w == SubSeq(s, 1, b)
<1>1. Len(s) \in Nat /\ \A i \in 1..Len(s) : s[i] \in T
  OBVIOUS
<1>2. u \in Seq(T) /\ Len(u) = a /\ \A i \in 1..a : u[i] = s[i]
  BY <1>1
<1>3. v \in Seq(T) /\ Len(v) = b - a /\ \A i \in 1..b - a : v[i] = s[a + i]
  BY <1>1
<1>4. w \in Seq(T) /\ Len(w) = b /\ \A i \in 1..b : w[i] = s[i]
  BY <1>1
<1> HIDE DEF u, v, w
<1> DEFINE z == u \o v
<1>5. z \in Seq(T) /\ Len(z) = b
  <2>1. z \in Seq(T) /\ Len(z) = Len(u) + Len(v)
    BY <1>2, <1>3, ConcatFacts
  <2> HIDE DEF z
  <2> QED BY <1>2, <1>3, <2>1
<1>6. \A i \in 1..b : z[i] = IF i <= a THEN u[i] ELSE v[i - a]
  BY <1>2, <1>3, ConcatFacts
<1>7. \A i \in 1..b : z[i] = w[i]
  <2> TAKE i \in 1..b
  <2>1. CASE i <= a
    <3>1. i \in 1..a
      BY <2>1
    <3> QED BY <1>2, <1>4, <1>6, <2>1, <3>1
  <2>2. CASE ~(i <= a)
    <3>1. i - a \in 1..b - a /\ a + (i - a) = i
      BY <2>2
    <3> QED BY <1>3, <1>4, <1>6, <2>2, <3>1
  <2> QED BY <2>1, <2>2
<1> HIDE DEF z
<1>8. z = w
  BY <1>4, <1>5, <1>7
<1> QED BY <1>8 DEF z, u, v, w

LEMMA ContextFacts ==
    ASSUME NEW S \in SUBSET Nat, NEW n \in Nat, NEW c \in Nat
    PROVE  /\ Context(S, n, c) \in SUBSET Nat /\ IsFiniteSet(Context(S, n, c))
           /\ \A r : r \in Context(S, n, c) <=> r \in 1..n /\ \E h \in S : r - h \in -c..c
<1>1. Context(S, n, c) \in SUBSET (1..n)
  BY DEF Context
<1>2. IsFiniteSet(1..n)
  BY FS_Interval
<1>3. ASSUME NEW r \in 1..n, NEW h \in S
      PROVE (h <= r + c /\ r <= h + c) <=> r - h \in -c..c
  <2>1. h \in Nat
    OBVIOUS
  <2> QED BY <2>1
<1>4. \A r : r \in Context(S, n, c) <=> r \in 1..n /\ \E h \in S : r - h \in -c..c
  BY <1>3 DEF Context
<1> QED BY <1>1, <1>2, <1>4, FS_Subset

SliceEnd(s, a, limit) == IF a + limit < Len(s) THEN a + limit ELSE Len(s)

LEMMA SliceFacts ==
    ASSUME NEW T, NEW s \in Seq(T), NEW a \in Nat, NEW limit \in Nat, a <= Len(s)
    PROVE  /\ SliceEnd(s, a, limit) \in Nat /\ a <= SliceEnd(s, a, limit)
           /\ SliceEnd(s, a, limit) <= Len(s)
           /\ Slice(s, a, limit) = SubSeq(s, a + 1, SliceEnd(s, a, limit))
           /\ Slice(s, a, limit) \in Seq(T)
           /\ \A k \in a + 1..SliceEnd(s, a, limit) : s[k] \in ToSet(Slice(s, a, limit))
           /\ \A x \in ToSet(Slice(s, a, limit)) : \E k \in a + 1..SliceEnd(s, a, limit) : s[k] = x
<1> DEFINE b == SliceEnd(s, a, limit)
           v == Slice(s, a, limit)
<1>1. Len(s) \in Nat /\ b \in Nat /\ a <= b /\ b <= Len(s)
  BY DEF SliceEnd
<1>2. v = SubSeq(s, a + 1, b)
  BY DEF Slice, SliceEnd
<1> HIDE DEF b, v
<1>3. \A i \in 1..Len(s) : s[i] \in T
  OBVIOUS
<1>4. v \in Seq(T) /\ DOMAIN v = 1..b - a /\ \A i \in 1..b - a : v[i] = s[a + i]
  BY <1>1, <1>2, <1>3
<1>5. \A k \in a + 1..b : s[k] \in ToSet(v)
  <2> TAKE k \in a + 1..b
  <2>1. k - a \in 1..b - a /\ a + (k - a) = k
    BY <1>1
  <2> QED BY <1>4, <2>1 DEF ToSet
<1>6. \A x \in ToSet(v) : \E k \in a + 1..b : s[k] = x
  <2> TAKE x \in ToSet(v)
  <2>1. PICK i \in 1..b - a : v[i] = x
    BY <1>4 DEF ToSet
  <2>2. a + i \in a + 1..b
    BY <1>1
  <2> QED BY <1>4, <2>1, <2>2
<1> QED BY <1>1, <1>2, <1>4, <1>5, <1>6 DEF b, v

\* A page has the hits of its slice with their context, in order.
LEMMA PageFacts ==
    ASSUME NEW n \in Nat, NEW H \in SUBSET (1..n), NEW c \in Nat, NEW limit \in Nat \ {0},
           NEW a \in Nat, a <= Cardinality(H), IsFiniteSet(H)
    PROVE  LET page == InSequence(Context(ToSet(Slice(InSequence(H), a, limit)), n, c))
               h == InSequence(H)
           IN  /\ page \in Seq(Nat)
               /\ \A i \in 1..Len(page) - 1 : page[i] < page[i + 1]
               /\ a < Cardinality(H) => H \cap ToSet(page) # {}
               /\ \A k \in 1..Cardinality(H) : a < k /\ k <= a + limit =>
                    \A r \in 1..n : r - h[k] \in -c..c => r \in ToSet(page)
<1> DEFINE h == InSequence(H)
           part1 == ToSet(Slice(h, a, limit))
           page == InSequence(Context(part1, n, c))
           b == SliceEnd(h, a, limit)
<1>1. H \in SUBSET Nat
  OBVIOUS
<1>2. h \in Seq(H) /\ Len(h) = Cardinality(H) /\ Len(h) \in Nat /\ \A k \in 1..Len(h) : h[k] \in H
  <2>1. h \in Seq(H) /\ Len(h) = Cardinality(H) /\ Len(h) \in Nat
    BY <1>1, InSequenceFacts
  <2> HIDE DEF h
  <2> QED BY <2>1
<1> HIDE DEF h
<1>3. /\ \A k \in a + 1..b : h[k] \in part1
      /\ \A x \in part1 : \E k \in a + 1..b : h[k] = x
  <2>1. limit \in Nat /\ a <= Len(h) /\ h \in Seq(H)
    BY <1>2
  <2>2. \A k \in a + 1..SliceEnd(h, a, limit) : h[k] \in ToSet(Slice(h, a, limit))
    BY <2>1, SliceFacts
  <2>3. \A x \in ToSet(Slice(h, a, limit)) : \E k \in a + 1..SliceEnd(h, a, limit) : h[k] = x
    BY <2>1, SliceFacts
  <2> QED BY <2>2, <2>3
<1>4. b \in Nat /\ a <= b /\ b <= Len(h) /\ limit \in Nat
  BY <1>2 DEF SliceEnd
<1>5. part1 \in SUBSET H
  <2>1. \A k \in a + 1..b : k \in 1..Len(h)
    BY <1>2, <1>4
  <2> HIDE DEF part1, b
  <2> QED BY <1>2, <1>3, <2>1
<1>6. \A k \in 1..Len(h) : a < k /\ k <= a + limit => h[k] \in part1
  <2> TAKE k \in 1..Len(h)
  <2> HAVE a < k /\ k <= a + limit
  <2>1. k \in a + 1..b
    BY <1>2 DEF SliceEnd
  <2> HIDE DEF part1, b
  <2> QED BY <1>3, <2>1
<1> HIDE DEF part1, b
<1>7. /\ Context(part1, n, c) \in SUBSET Nat /\ IsFiniteSet(Context(part1, n, c))
      /\ \A r : r \in Context(part1, n, c) <=> r \in 1..n /\ \E x \in part1 : r - x \in -c..c
  <2>1. part1 \in SUBSET Nat
    BY <1>1, <1>5
  <2> QED BY <2>1, ContextFacts
<1>8. /\ page \in Seq(Nat) /\ DOMAIN page = 1..Len(page) /\ Len(page) \in Nat
      /\ \A i, j \in DOMAIN page : i < j => page[i] < page[j]
      /\ \A x \in Context(part1, n, c) : \E i \in DOMAIN page : page[i] = x
  BY <1>7, InSequenceFacts
<1> HIDE DEF page
<1>9. \A i \in 1..Len(page) - 1 : page[i] < page[i + 1]
  <2> TAKE i \in 1..Len(page) - 1
  <2>1. i \in 1..Len(page) /\ i + 1 \in 1..Len(page) /\ i < i + 1
    BY <1>8
  <2> QED BY <1>8, <2>1
<1>10. \A x \in Context(part1, n, c) : x \in ToSet(page)
  BY <1>8 DEF ToSet
<1>11. a < Cardinality(H) => H \cap ToSet(page) # {}
  <2> HAVE a < Cardinality(H)
  <2>1. a + 1 \in 1..Len(h) /\ a < a + 1 /\ a + 1 <= a + limit
    BY <1>2, <1>4
  <2>2. h[a + 1] \in part1 /\ h[a + 1] \in H
    BY <1>2, <1>6, <2>1
  <2>3. h[a + 1] \in 1..n /\ h[a + 1] - h[a + 1] \in -c..c
    <3>1. h[a + 1] \in 1..n
      BY <2>2
    <3>2. \A x \in 1..n : x - x \in -c..c
      OBVIOUS
    <3> QED BY <3>1, <3>2
  <2>4. h[a + 1] \in ToSet(page)
    BY <1>7, <1>10, <2>2, <2>3
  <2> QED BY <2>2, <2>4
<1>12. \A k \in 1..Cardinality(H) : a < k /\ k <= a + limit =>
          \A r \in 1..n : r - h[k] \in -c..c => r \in ToSet(page)
  <2> TAKE k \in 1..Cardinality(H)
  <2> HAVE a < k /\ k <= a + limit
  <2> TAKE r \in 1..n
  <2> HAVE r - h[k] \in -c..c
  <2>1. h[k] \in part1
    BY <1>2, <1>6
  <2> QED BY <1>7, <1>10, <2>1
<1> QED BY <1>8, <1>9, <1>11, <1>12 DEF page, part1, h

-----------------------------------------------------------------------------
(* Rules: lists of records in the order of their lines *)

RuleRecord == [line : Nat, time : Int, incomplete : BOOLEAN]

\* Strictly ascending from each line to any later one.
LEMMA AscendingAll ==
    ASSUME NEW out \in Seq(RuleRecord), Ascending(out)
    PROVE  \A i, j \in DOMAIN out : i < j => out[i].line < out[j].line
<1> DEFINE P == {d \in Nat : \A i \in 1..Len(out) : i + 1 + d <= Len(out)
                                => out[i].line < out[i + 1 + d].line}
<1>1. Len(out) \in Nat /\ DOMAIN out = 1..Len(out)
  OBVIOUS
<1>2. \A i \in 1..Len(out) : out[i].line \in Nat
  <2> TAKE i \in 1..Len(out)
  <2>1. out[i] \in RuleRecord
    OBVIOUS
  <2> QED BY <2>1 DEF RuleRecord
<1>3. 0 \in P
  <2>1. ASSUME NEW i \in 1..Len(out), i + 1 + 0 <= Len(out) PROVE out[i].line < out[i + 1 + 0].line
    <3>1. i \in 1..Len(out) - 1 /\ i + 1 + 0 = i + 1
      BY <1>1, <2>1
    <3> QED BY <3>1 DEF Ascending
  <2> QED BY <2>1
<1>4. ASSUME NEW d \in Nat, d \in P PROVE d + 1 \in P
  <2>1. ASSUME NEW i \in 1..Len(out), i + 1 + (d + 1) <= Len(out)
        PROVE out[i].line < out[i + 1 + (d + 1)].line
    <3> DEFINE j == i + 1 + d
    <3>1. j \in 1..Len(out) - 1 /\ i + 1 + (d + 1) = j + 1 /\ j \in 1..Len(out) /\ j + 1 \in 1..Len(out)
      BY <1>1, <2>1
    <3>2. out[i].line < out[j].line
      BY <1>4, <3>1
    <3> HIDE DEF j
    <3>3. out[j].line < out[j + 1].line
      BY <3>1 DEF Ascending
    <3>4. out[i].line \in Nat /\ out[j].line \in Nat /\ out[j + 1].line \in Nat
      BY <1>2, <3>1
    <3> QED BY <3>1, <3>2, <3>3, <3>4
  <2> QED BY <2>1
<1> HIDE DEF P
<1>5. \A d \in Nat : d \in P
  BY <1>3, <1>4, EveryNumber
<1> SUFFICES ASSUME NEW i \in 1..Len(out), NEW j \in 1..Len(out), i < j
             PROVE out[i].line < out[j].line
  BY <1>1
<1>6. j - i - 1 \in Nat /\ i + 1 + (j - i - 1) = j /\ j <= Len(out)
  BY <1>1
<1>7. j - i - 1 \in P
  BY <1>5, <1>6
<1> QED BY <1>6, <1>7 DEF P

\* Lists that follow each other.
LEMMA GivesConcat ==
    ASSUME NEW u \in Seq(RuleRecord), NEW v \in Seq(RuleRecord), NEW S, NEW R,
           Gives(u, S), Gives(v, R), \A x \in S : \A y \in R : x.line < y.line
    PROVE  u \o v \in Seq(RuleRecord) /\ Gives(u \o v, S \cup R)
<1> DEFINE w == u \o v
<1>1. /\ w \in Seq(RuleRecord) /\ Len(w) = Len(u) + Len(v)
      /\ \A i \in 1..Len(u) + Len(v) : w[i] = IF i <= Len(u) THEN u[i] ELSE v[i - Len(u)]
  BY ConcatFacts
<1>2. /\ Len(u) \in Nat /\ Len(v) \in Nat /\ DOMAIN u = 1..Len(u) /\ DOMAIN v = 1..Len(v)
      /\ DOMAIN w = 1..Len(u) + Len(v)
  <2>1. Len(w) = Len(u) + Len(v) /\ DOMAIN w = 1..Len(w)
    <3> HIDE DEF w
    <3> QED BY <1>1
  <2> HIDE DEF w
  <2> QED BY <2>1
<1> HIDE DEF w
<1>3. \A i \in 1..Len(u) : i \in DOMAIN w /\ w[i] = u[i]
  BY <1>1, <1>2
<1>4. \A i \in 1..Len(v) : Len(u) + i \in DOMAIN w /\ w[Len(u) + i] = v[i]
  <2> TAKE i \in 1..Len(v)
  <2>1. Len(u) + i \in 1..Len(u) + Len(v) /\ ~(Len(u) + i <= Len(u)) /\ (Len(u) + i) - Len(u) = i
    BY <1>2
  <2> QED BY <1>1, <1>2, <2>1
<1>5. \A i \in DOMAIN w : i \in 1..Len(u) \/ \E k \in 1..Len(v) : i = Len(u) + k
  <2> TAKE i \in DOMAIN w
  <2>1. i \in 1..Len(u) \/ (i - Len(u) \in 1..Len(v) /\ i = Len(u) + (i - Len(u)))
    BY <1>2
  <2> QED BY <2>1
<1>6. ToSet(u) = S /\ ToSet(v) = R /\ Ascending(u) /\ Ascending(v)
  BY DEF Gives
<1>7. ToSet(w) = S \cup R
  <2>1. \A x \in ToSet(w) : x \in S \cup R
    <3> TAKE x \in ToSet(w)
    <3>1. PICK i \in DOMAIN w : w[i] = x
      BY DEF ToSet
    <3> QED BY <1>2, <1>3, <1>4, <1>5, <1>6, <3>1 DEF ToSet
  <2>2. \A x \in S : x \in ToSet(w)
    <3> TAKE x \in S
    <3>1. PICK i \in DOMAIN u : u[i] = x
      BY <1>6 DEF ToSet
    <3> QED BY <1>2, <1>3, <3>1 DEF ToSet
  <2>3. \A x \in R : x \in ToSet(w)
    <3> TAKE x \in R
    <3>1. PICK i \in DOMAIN v : v[i] = x
      BY <1>6 DEF ToSet
    <3> QED BY <1>2, <1>4, <3>1 DEF ToSet
  <2> QED BY <2>1, <2>2, <2>3
<1>8. Ascending(w)
  <2> SUFFICES ASSUME NEW i \in 1..Len(w) - 1 PROVE w[i].line < w[i + 1].line
    BY DEF Ascending
  <2>1. CASE i + 1 <= Len(u)
    <3>1. i \in 1..Len(u) - 1 /\ i \in 1..Len(u) /\ i + 1 \in 1..Len(u)
      BY <1>2, <2>1
    <3>2. u[i].line < u[i + 1].line
      BY <1>6, <3>1 DEF Ascending
    <3> QED BY <1>3, <3>1, <3>2
  <2>2. CASE i = Len(u)
    <3>1. i \in 1..Len(u) /\ 1 \in 1..Len(v) /\ i + 1 = Len(u) + 1
      BY <1>1, <1>2, <2>2
    <3>2. w[i] = u[i] /\ w[i + 1] = v[1]
      BY <1>3, <1>4, <3>1
    <3>3. u[i] \in S /\ v[1] \in R
      BY <1>2, <1>6, <3>1 DEF ToSet
    <3> QED BY <3>2, <3>3
  <2>3. CASE i > Len(u)
    <3> DEFINE k == i - Len(u)
    <3>1. /\ k \in 1..Len(v) - 1 /\ k \in 1..Len(v) /\ k + 1 \in 1..Len(v)
          /\ i = Len(u) + k /\ i + 1 = Len(u) + (k + 1)
      BY <1>1, <1>2, <2>3
    <3> HIDE DEF k
    <3>2. v[k].line < v[k + 1].line
      BY <1>6, <3>1 DEF Ascending
    <3>3. w[i] = v[k] /\ w[i + 1] = v[k + 1]
      BY <1>4, <3>1
    <3> QED BY <3>2, <3>3
  <2>4. i + 1 <= Len(u) \/ i = Len(u) \/ i > Len(u)
    <3>1. Len(w) \in Nat
      BY <1>1, <1>2
    <3>2. i \in Nat
      BY <3>1
    <3>3. \A a, b \in Nat : a + 1 <= b \/ a = b \/ a > b
      OBVIOUS
    <3> HIDE DEF w
    <3>4. Len(u) \in Nat
      BY <1>2
    <3> QED BY <3>2, <3>3, <3>4
  <2> QED BY <2>1, <2>2, <2>3, <2>4
<1> QED BY <1>1, <1>7, <1>8 DEF Gives, w

LEMMA GivesAppend ==
    ASSUME NEW out \in Seq(RuleRecord), NEW S, NEW r \in RuleRecord, Gives(out, S),
           \A x \in S : x.line < r.line
    PROVE  Append(out, r) \in Seq(RuleRecord) /\ Gives(Append(out, r), S \cup {r})
<1> DEFINE one == <<r>>
<1>1. Append(out, r) = out \o one /\ one \in Seq(RuleRecord)
  OBVIOUS
<1>2. Len(one) = 1 /\ one[1] = r /\ DOMAIN one = {1}
  OBVIOUS
<1> HIDE DEF one
<1>3. ToSet(one) = {r} /\ Ascending(one)
  <2>1. ToSet(one) = {r}
    BY <1>2 DEF ToSet
  <2>2. Ascending(one)
    BY <1>2 DEF Ascending
  <2> QED BY <2>1, <2>2
<1>4. Gives(one, {r})
  BY <1>3 DEF Gives
<1>5. \A x \in S : \A y \in {r} : x.line < y.line
  OBVIOUS
<1> QED BY <1>1, <1>4, <1>5, GivesConcat

Increasing(s) == \A i, j \in DOMAIN s : i < j => s[i] < s[j]

\* The lines of a block that are shown.
LEMMA ShowsFacts ==
    ASSUME NEW numbers \in Seq(Nat), Increasing(numbers)
    PROVE  /\ Shows(numbers) \in Seq(Nat) /\ Increasing(Shows(numbers))
           /\ \A i : i \in ToSet(Shows(numbers)) <=> i \in ToSet(numbers) /\ lines[i].mark # "hidden"
<1> DEFINE K == {k \in DOMAIN numbers : lines[numbers[k]].mark # "hidden"}
           shown == InSequence(K)
           s == [k \in DOMAIN shown |-> numbers[shown[k]]]
<1>1. Len(numbers) \in Nat /\ DOMAIN numbers = 1..Len(numbers) /\ \A k \in DOMAIN numbers : numbers[k] \in Nat
  OBVIOUS
<1>2. K \in SUBSET Nat /\ IsFiniteSet(K) /\ K \in SUBSET DOMAIN numbers
  <2>1. K \in SUBSET (1..Len(numbers)) /\ IsFiniteSet(1..Len(numbers))
    BY <1>1, FS_Interval
  <2>2. IsFiniteSet(K)
    BY <2>1, FS_Subset
  <2> HIDE DEF K
  <2> QED BY <1>1, <2>1, <2>2
<1>3. /\ shown \in Seq(K) /\ DOMAIN shown = 1..Len(shown) /\ Len(shown) \in Nat
      /\ \A i, j \in DOMAIN shown : i < j => shown[i] < shown[j]
      /\ \A x \in K : \E i \in DOMAIN shown : shown[i] = x
  <2> HIDE DEF K
  <2> QED BY <1>2, InSequenceFacts
<1>4. Shows(numbers) = s
  BY DEF Shows
<1>5. \A x : x \in K <=> x \in DOMAIN numbers /\ lines[numbers[x]].mark # "hidden"
  OBVIOUS
<1> HIDE DEF K, shown
<1>6. \A k \in DOMAIN shown : shown[k] \in K /\ shown[k] \in DOMAIN numbers
  <2> TAKE k \in DOMAIN shown
  <2>1. shown[k] \in K
    BY <1>3
  <2> QED BY <1>2, <2>1
<1>7. /\ DOMAIN s = 1..Len(shown)
      /\ \A k \in 1..Len(shown) : s[k] = numbers[shown[k]] /\ s[k] \in Nat
  BY <1>1, <1>3, <1>6
<1>8. s \in Seq(Nat)
  <2>1. s \in [1..Len(shown) -> Nat]
    <3>1. \A k \in DOMAIN shown : numbers[shown[k]] \in Nat
      BY <1>1, <1>6
    <3>2. s \in [DOMAIN shown -> Nat]
      BY <3>1
    <3>3. DOMAIN shown = 1..Len(shown)
      BY <1>3
    <3> HIDE DEF s
    <3> QED BY <3>2, <3>3
  <2>2. Len(shown) \in Nat
    BY <1>3
  <2>3. \A n \in Nat : \A f \in [1..n -> Nat] : f \in Seq(Nat)
    OBVIOUS
  <2> HIDE DEF s
  <2> QED BY <2>1, <2>2, <2>3
<1> HIDE DEF s
<1>9. Increasing(s)
  <2> SUFFICES ASSUME NEW i \in 1..Len(shown), NEW j \in 1..Len(shown), i < j PROVE s[i] < s[j]
    BY <1>7 DEF Increasing
  <2>1. shown[i] < shown[j] /\ shown[i] \in DOMAIN numbers /\ shown[j] \in DOMAIN numbers
    BY <1>3, <1>6
  <2>2. numbers[shown[i]] < numbers[shown[j]]
    BY <2>1 DEF Increasing
  <2> QED BY <1>7, <2>2
<1>10. ASSUME NEW i PROVE i \in ToSet(s) <=> i \in ToSet(numbers) /\ lines[i].mark # "hidden"
  <2>1. ASSUME i \in ToSet(s) PROVE i \in ToSet(numbers) /\ lines[i].mark # "hidden"
    <3>1. PICK k \in DOMAIN s : s[k] = i
      BY <2>1 DEF ToSet
    <3>2. i = numbers[shown[k]] /\ shown[k] \in K
      BY <1>3, <1>6, <1>7, <3>1
    <3>3. shown[k] \in DOMAIN numbers /\ lines[numbers[shown[k]]].mark # "hidden"
      BY <1>5, <3>2
    <3> QED BY <3>2, <3>3 DEF ToSet
  <2>2. ASSUME i \in ToSet(numbers), lines[i].mark # "hidden" PROVE i \in ToSet(s)
    <3>1. PICK x \in DOMAIN numbers : numbers[x] = i
      BY <2>2 DEF ToSet
    <3>2. x \in K
      BY <1>5, <2>2, <3>1
    <3>3. PICK k \in DOMAIN shown : shown[k] = x
      BY <1>3, <3>2
    <3>4. k \in DOMAIN s /\ s[k] = i
      BY <1>3, <1>7, <3>1, <3>3
    <3> QED BY <3>4 DEF ToSet
  <2> QED BY <2>1, <2>2
<1> QED BY <1>4, <1>8, <1>9, <1>10

\* The records of such lines.
RecordsOf(s, times, inc) == [k \in DOMAIN s |-> Rec(s[k], times[k], inc)]

LEMMA RecordList ==
    ASSUME NEW s \in Seq(Nat), Increasing(s), NEW times, \A k \in DOMAIN s : times[k] \in Int,
           NEW inc \in BOOLEAN
    PROVE  /\ RecordsOf(s, times, inc) \in Seq(RuleRecord) /\ Ascending(RecordsOf(s, times, inc))
           /\ \A k \in DOMAIN s : Rec(s[k], times[k], inc) \in ToSet(RecordsOf(s, times, inc))
           /\ \A r \in ToSet(RecordsOf(s, times, inc)) :
                \E k \in DOMAIN s : r = Rec(s[k], times[k], inc)
<1> DEFINE out == [k \in DOMAIN s |-> Rec(s[k], times[k], inc)]
<1>1. Len(s) \in Nat /\ DOMAIN s = 1..Len(s) /\ \A k \in DOMAIN s : s[k] \in Nat
  OBVIOUS
<1>2. \A k \in DOMAIN s : Rec(s[k], times[k], inc) \in RuleRecord
  BY <1>1 DEF Rec, RuleRecord
<1>3. out \in [1..Len(s) -> RuleRecord] /\ \A k \in 1..Len(s) : out[k] = Rec(s[k], times[k], inc)
  BY <1>1, <1>2
<1> HIDE DEF out
<1>4. out \in Seq(RuleRecord) /\ Len(out) = Len(s) /\ DOMAIN out = 1..Len(s)
  BY <1>1, <1>3
<1>5. Ascending(out)
  <2> SUFFICES ASSUME NEW i \in 1..Len(out) - 1 PROVE out[i].line < out[i + 1].line
    BY DEF Ascending
  <2>1. i \in 1..Len(s) /\ i + 1 \in 1..Len(s) /\ i < i + 1
    BY <1>1, <1>4
  <2>2. s[i] < s[i + 1]
    BY <1>1, <2>1 DEF Increasing
  <2>3. out[i].line = s[i] /\ out[i + 1].line = s[i + 1]
    BY <1>3, <2>1 DEF Rec
  <2> QED BY <2>2, <2>3
<1>6. \A r : r \in ToSet(out) <=> \E k \in DOMAIN s : r = Rec(s[k], times[k], inc)
  BY <1>1, <1>3, <1>4 DEF ToSet
<1> QED BY <1>4, <1>5, <1>6 DEF out, RecordsOf

LEMMA Increases ==
    ASSUME NEW n \in Nat, NEW s \in Seq(1..n), Increasing(s)
    PROVE  /\ Append(s, n + 1) \in Seq(1..n + 1) /\ Increasing(Append(s, n + 1))
           /\ s \in Seq(1..n + 1) /\ s \in Seq(Nat)
           /\ \A i : i \in ToSet(Append(s, n + 1)) <=> i \in ToSet(s) \/ i = n + 1
<1> DEFINE t == Append(s, n + 1)
<1>1. Len(s) \in Nat /\ DOMAIN s = 1..Len(s) /\ \A k \in DOMAIN s : s[k] \in 1..n
  OBVIOUS
<1>2. \A k \in DOMAIN s : s[k] \in 1..n + 1 /\ s[k] \in Nat /\ s[k] < n + 1
  BY <1>1
<1>3. s \in Seq(1..n + 1) /\ s \in Seq(Nat)
  BY <1>1, <1>2
<1>4. /\ t \in Seq(1..n + 1) /\ DOMAIN t = 1..Len(s) + 1 /\ t[Len(s) + 1] = n + 1
      /\ \A k \in 1..Len(s) : t[k] = s[k]
  BY <1>3
<1> HIDE DEF t
<1>5. Increasing(t)
  <2> SUFFICES ASSUME NEW i \in 1..Len(s) + 1, NEW j \in 1..Len(s) + 1, i < j PROVE t[i] < t[j]
    BY <1>4 DEF Increasing
  <2>1. i \in 1..Len(s)
    BY <1>1
  <2>2. CASE j = Len(s) + 1
    BY <1>1, <1>2, <1>4, <2>1, <2>2
  <2>3. CASE j # Len(s) + 1
    <3>1. j \in 1..Len(s)
      BY <1>1, <2>3
    <3>2. s[i] < s[j]
      BY <1>1, <2>1, <3>1 DEF Increasing
    <3> QED BY <1>4, <2>1, <3>1, <3>2
  <2> QED BY <2>2, <2>3
<1>6. \A i : i \in ToSet(t) <=> i \in ToSet(s) \/ i = n + 1
  <2>1. \A k \in DOMAIN t : k \in DOMAIN s \/ k = Len(s) + 1
    BY <1>1, <1>4
  <2>2. Len(s) + 1 \in DOMAIN t /\ \A k \in DOMAIN s : k \in DOMAIN t
    BY <1>1, <1>4
  <2> QED BY <1>1, <1>4, <2>1, <2>2 DEF ToSet
<1> QED BY <1>3, <1>4, <1>5, <1>6 DEF t

-----------------------------------------------------------------------------
(* Rules: the time of a line, as a relation to the lines up to it *)

ValidAt(L, i, v) ==
    /\ v \in 0..i /\ (v # 0 => L[v].stamp = "valid")
    /\ \A j \in v + 1..i : L[j].stamp # "valid"

TimeAt(L, i, t) == IF L[i].stamp = "none" THEN ValidAt(L, i, t) ELSE t = ParsedStamp(L[i], i)

LEMMA AppendLine ==
    ASSUME NEW L \in Seq(Line), NEW x \in Line
    PROVE  /\ Append(L, x) \in Seq(Line) /\ Len(Append(L, x)) = Len(L) + 1 /\ Len(L) \in Nat
           /\ \A i \in 1..Len(L) : Append(L, x)[i] = L[i]
           /\ Append(L, x)[Len(L) + 1] = x
  OBVIOUS

\* What is known of a line's time does not change when more lines are read.
LEMMA TimesStay ==
    ASSUME NEW L \in Seq(Line), NEW x \in Line
    PROVE  /\ \A i \in 0..Len(L) : \A v : ValidAt(Append(L, x), i, v) <=> ValidAt(L, i, v)
           /\ \A i \in 1..Len(L) : \A t : TimeAt(Append(L, x), i, t) <=> TimeAt(L, i, t)
<1> DEFINE M == Append(L, x)
           n == Len(L)
<1>1. n \in Nat /\ \A i \in 1..n : M[i] = L[i]
  BY AppendLine
<1> HIDE DEF M, n
<1>2. \A i \in 0..n : \A v : ValidAt(M, i, v) <=> ValidAt(L, i, v)
  <2> TAKE i \in 0..n
  <2> TAKE v
  <2>1. ASSUME v \in 0..i
        PROVE  /\ v # 0 => v \in 1..n
               /\ \A j \in v + 1..i : j \in 1..n
    BY <1>1, <2>1
  <2> QED BY <1>1, <2>1 DEF ValidAt
<1>3. \A i \in 1..n : \A t : TimeAt(M, i, t) <=> TimeAt(L, i, t)
  <2> TAKE i \in 1..n
  <2>1. i \in 0..n /\ M[i] = L[i]
    BY <1>1
  <2> QED BY <1>2, <2>1 DEF TimeAt
<1> QED BY <1>2, <1>3 DEF M, n

\* A line has one time.
LEMMA TimesUnique ==
    ASSUME NEW L, NEW i \in Nat
    PROVE  /\ \A v, w : ValidAt(L, i, v) /\ ValidAt(L, i, w) => v = w
           /\ \A v, w : TimeAt(L, i, v) /\ TimeAt(L, i, w) => v = w
<1>1. ASSUME NEW v, NEW w, ValidAt(L, i, v), ValidAt(L, i, w) PROVE v = w
  <2>1. v \in 0..i /\ w \in 0..i
    BY <1>1 DEF ValidAt
  <2>2. ~(v < w)
    <3>1. v < w => w \in v + 1..i /\ w # 0
      BY <2>1
    <3> QED BY <1>1, <3>1 DEF ValidAt
  <2>3. ~(w < v)
    <3>1. w < v => v \in w + 1..i /\ v # 0
      BY <2>1
    <3> QED BY <1>1, <3>1 DEF ValidAt
  <2> QED BY <2>1, <2>2, <2>3
<1> QED BY <1>1 DEF TimeAt

LEMMA TimesAreInts ==
    ASSUME NEW L \in Seq(Line), NEW i \in 1..Len(L), NEW t, TimeAt(L, i, t)
    PROVE  t \in Int
<1>1. L[i] \in Line /\ i \in Nat
  OBVIOUS
<1>2. L[i].stamp \in {"none", "valid", "invalid"}
  BY <1>1 DEF Line
<1>3. CASE L[i].stamp = "none"
  <2>1. t \in 0..i
    BY <1>3 DEF TimeAt, ValidAt
  <2> QED BY <1>1, <2>1
<1>4. CASE L[i].stamp = "valid"
  BY <1>1, <1>4 DEF TimeAt, ParsedStamp
<1>5. CASE L[i].stamp = "invalid"
  BY <1>1, <1>5 DEF TimeAt, ParsedStamp, Invalid
<1> QED BY <1>2, <1>3, <1>4, <1>5

\* The time a line is given when it is read.
LEMMA TimeOfNew ==
    ASSUME NEW L \in Seq(Line), NEW x \in Line, lines = L, ValidAt(L, Len(L), previous)
    PROVE  /\ TimeAt(Append(L, x), Len(L) + 1, LineStamp(x, Len(L) + 1))
           /\ ValidAt(Append(L, x), Len(L) + 1, NextPrevious(x, Len(L) + 1))
           /\ LineStamp(x, Len(L) + 1) \in Int /\ NextPrevious(x, Len(L) + 1) \in Nat
           /\ x.stamp = "none" => LineStamp(x, Len(L) + 1) = previous
           /\ x.stamp # "none" => LineStamp(x, Len(L) + 1) = ParsedStamp(x, Len(L) + 1)
<1> DEFINE M == Append(L, x)
           n == Len(L)
<1>1. /\ n \in Nat /\ M \in Seq(Line) /\ Len(M) = n + 1 /\ M[n + 1] = x
      /\ \A i \in 1..n : M[i] = L[i]
  BY AppendLine
<1> HIDE DEF M, n
<1>2. ValidAt(M, n, previous)
  <2>1. n \in 0..Len(L) /\ n = Len(L)
    BY <1>1 DEF n
  <2> QED BY <2>1, TimesStay DEF M
<1>3. previous \in 0..n
  BY <1>2 DEF ValidAt
<1>4. ValidAt(M, n + 1, NextPrevious(x, n + 1))
  <2>1. CASE x.stamp = "valid"
    <3>1. \A j \in (n + 1) + 1..n + 1 : FALSE
      BY <1>1
    <3>2. n + 1 \in 0..n + 1
      BY <1>1
    <3> QED BY <1>1, <2>1, <3>1, <3>2 DEF ValidAt, NextPrevious
  <2>2. CASE x.stamp # "valid"
    <3>1. previous \in 0..n + 1 /\ \A j \in previous + 1..n + 1 : j \in previous + 1..n \/ j = n + 1
      BY <1>1, <1>3
    <3>2. \A j \in previous + 1..n + 1 : M[j].stamp # "valid"
      BY <1>1, <1>2, <2>2, <3>1 DEF ValidAt
    <3>3. previous # 0 => M[previous].stamp = "valid"
      BY <1>2 DEF ValidAt
    <3> QED BY <2>2, <3>1, <3>2, <3>3 DEF ValidAt, NextPrevious
  <2> QED BY <2>1, <2>2
<1>5. TimeAt(M, n + 1, LineStamp(x, n + 1))
  <2>1. CASE x.stamp = "none"
    <3>1. LineStamp(x, n + 1) = NextPrevious(x, n + 1)
      BY <2>1 DEF LineStamp, NextPrevious
    <3> QED BY <1>1, <1>4, <2>1, <3>1 DEF TimeAt
  <2>2. CASE x.stamp # "none"
    BY <1>1, <2>2 DEF TimeAt, LineStamp
  <2> QED BY <2>1, <2>2
<1>6. LineStamp(x, n + 1) \in Int
  <2>1. n + 1 \in 1..Len(M)
    BY <1>1
  <2> QED BY <1>1, <1>5, <2>1, TimesAreInts
<1>7. NextPrevious(x, n + 1) \in Nat
  BY <1>1, <1>3 DEF NextPrevious
<1> QED BY <1>4, <1>5, <1>6, <1>7 DEF M, n, LineStamp

\* The model's own words for it.
LEMMA ValidUpToIs ==
    ASSUME lines \in Seq(Line), NEW i \in 0..Len(lines)
    PROVE  ValidAt(lines, i, ValidUpTo(i))
<1> DEFINE S == {j \in 1..i : lines[j].stamp = "valid"}
<1>1. i \in Nat /\ S \in SUBSET Nat /\ S \in SUBSET (1..i) /\ \A x \in S : x <= i
  OBVIOUS
<1>2. ValidUpTo(i) = IF S = {} THEN 0 ELSE Max(S)
  BY DEF ValidUpTo, LastOf
<1>3. \A j \in 1..i : lines[j].stamp = "valid" <=> j \in S
  OBVIOUS
<1> HIDE DEF S
<1>4. CASE S = {}
  <2>1. \A j \in 0 + 1..i : lines[j].stamp # "valid"
    BY <1>3, <1>4
  <2>2. 0 \in 0..i
    BY <1>1
  <2> QED BY <1>2, <1>4, <2>1, <2>2 DEF ValidAt
<1>5. CASE S # {}
  <2>1. PICK v \in S : \A y \in S : y <= v
    BY <1>1, <1>5, GreatestNumber
  <2>2. Max(S) = v
    BY <1>1, <2>1, MaxIs
  <2>3. v \in 1..i /\ v \in 0..i /\ v # 0 /\ lines[v].stamp = "valid"
    BY <1>1, <1>3, <2>1
  <2>4. \A j \in v + 1..i : j \in 1..i /\ ~(j <= v)
    BY <2>3
  <2>5. \A j \in v + 1..i : lines[j].stamp # "valid"
    BY <1>3, <2>1, <2>4
  <2> QED BY <1>2, <1>5, <2>2, <2>3, <2>5 DEF ValidAt
<1> QED BY <1>4, <1>5

LEMMA TimeOfIs ==
    ASSUME lines \in Seq(Line), NEW i \in 1..Len(lines)
    PROVE  /\ TimeAt(lines, i, TimeOf(i)) /\ TimeOf(i) \in Int
           /\ \A t : TimeAt(lines, i, t) => t = TimeOf(i)
           /\ i \in Stamped <=> lines[i].stamp # "none"
<1>1. i \in 0..Len(lines) /\ i \in All /\ i \in Nat
  BY DEF All
<1>2. i \in Stamped <=> lines[i].stamp # "none"
  BY <1>1 DEF Stamped
<1>3. TimeAt(lines, i, TimeOf(i))
  <2>1. ValidAt(lines, i, ValidUpTo(i))
    BY <1>1, ValidUpToIs
  <2> QED BY <1>2, <2>1 DEF TimeAt, TimeOf
<1> QED BY <1>1, <1>2, <1>3, TimesUnique, TimesAreInts

-----------------------------------------------------------------------------
(* match_line_block *)

\* s is the start marker of the block that line i is in.
StartOf(L, i, s) ==
    /\ s \in 1..i /\ L[s].mark = "begin" /\ \A j \in s + 1..i : L[j].stamp = "none"
    /\ \A b \in 1..s - 1 : L[b].mark = "begin" => \E j \in b + 1..s : L[j].stamp # "none"

LineRows(L) ==
    {r \in RuleRecord : /\ r.line \in 1..Len(L) /\ ~r.incomplete
                        /\ \E s \in 1..r.line : StartOf(L, r.line, s) /\ TimeAt(L, s, r.time)}

LineInv(L, blk) ==
    /\ blk \in [active : BOOLEAN, anchor : Int, out : Seq(RuleRecord)]
    /\ Gives(blk.out, LineRows(L))
    /\ blk.active => \E s \in 1..Len(L) : StartOf(L, Len(L), s) /\ TimeAt(L, s, blk.anchor)
    /\ ~blk.active => \A s \in 1..Len(L) : ~StartOf(L, Len(L), s)

\* A marker with no timestamp behind it is in a block, maybe of an earlier marker.
LEMMA StartExists ==
    ASSUME NEW L, NEW i \in Nat, NEW b \in 1..i, L[b].mark = "begin",
           \A j \in b + 1..i : L[j].stamp = "none"
    PROVE  \E s \in 1..b : StartOf(L, i, s)
<1> DEFINE S == {s \in 1..i : L[s].mark = "begin" /\ \A j \in s + 1..i : L[j].stamp = "none"}
<1>1. b \in S /\ S \in SUBSET Nat
  OBVIOUS
<1>2. PICK s \in S : \A y \in S : s <= y
  BY <1>1, LeastNumber
<1>3. s \in 1..i /\ L[s].mark = "begin" /\ \A j \in s + 1..i : L[j].stamp = "none"
  BY <1>2
<1>4. s \in 1..b
  BY <1>1, <1>2, <1>3
<1>5. ASSUME NEW c \in 1..s - 1, L[c].mark = "begin" PROVE \E j \in c + 1..s : L[j].stamp # "none"
  <2>1. c \in 1..i /\ ~(s <= c)
    BY <1>3
  <2>2. c \notin S
    BY <1>2, <2>1
  <2>3. PICK j \in c + 1..i : L[j].stamp # "none"
    BY <1>5, <2>1, <2>2
  <2>4. j \notin s + 1..i
    BY <1>3, <2>3
  <2>5. j \in c + 1..s
    BY <1>3, <2>1, <2>4
  <2> QED BY <2>3, <2>5
<1> QED BY <1>3, <1>4, <1>5 DEF StartOf

LEMMA StartUnique ==
    ASSUME NEW L, NEW i \in Nat, NEW s, NEW r, StartOf(L, i, s), StartOf(L, i, r)
    PROVE  s = r
<1>1. s \in 1..i /\ r \in 1..i
  BY DEF StartOf
<1>2. ~(s < r)
  <2>1. SUFFICES ASSUME s < r PROVE FALSE
    OBVIOUS
  <2>2. s \in 1..r - 1
    BY <1>1, <2>1
  <2>3. PICK j \in s + 1..r : L[j].stamp # "none"
    BY <2>2 DEF StartOf
  <2>4. j \in s + 1..i
    BY <1>1
  <2> QED BY <2>3, <2>4 DEF StartOf
<1>3. ~(r < s)
  <2>1. SUFFICES ASSUME r < s PROVE FALSE
    OBVIOUS
  <2>2. r \in 1..s - 1
    BY <1>1, <2>1
  <2>3. PICK j \in r + 1..s : L[j].stamp # "none"
    BY <2>2 DEF StartOf
  <2>4. j \in r + 1..i
    BY <1>1
  <2> QED BY <2>3, <2>4 DEF StartOf
<1> QED BY <1>1, <1>2, <1>3

\* What one more line does to the starts.
LEMMA StartsStay ==
    ASSUME NEW L \in Seq(Line), NEW x \in Line
    PROVE  /\ \A i \in 1..Len(L) : \A s : StartOf(Append(L, x), i, s) <=> StartOf(L, i, s)
           /\ x.stamp = "none" =>
                \A s \in 1..Len(L) : StartOf(Append(L, x), Len(L) + 1, s) <=> StartOf(L, Len(L), s)
           /\ x.stamp # "none" => \A s \in 1..Len(L) : ~StartOf(Append(L, x), Len(L) + 1, s)
           /\ StartOf(Append(L, x), Len(L) + 1, Len(L) + 1) <=>
                /\ x.mark = "begin"
                /\ x.stamp = "none" => \A s \in 1..Len(L) : ~StartOf(L, Len(L), s)
<1> DEFINE M == Append(L, x)
           n == Len(L)
<1>1. n \in Nat /\ M[n + 1] = x /\ \A i \in 1..n : M[i] = L[i]
  BY AppendLine
<1> HIDE DEF M, n
<1>2. ASSUME NEW i \in 1..n, NEW s PROVE StartOf(M, i, s) <=> StartOf(L, i, s)
  <2>1. CASE s \in 1..i
    <3>1. /\ s \in 1..n /\ (\A j \in s + 1..i : j \in 1..n)
          /\ (\A b \in 1..s - 1 : b \in 1..n /\ \A j \in b + 1..s : j \in 1..n)
      BY <1>1, <2>1
    <3> QED BY <1>1, <2>1, <3>1 DEF StartOf
  <2>2. CASE s \notin 1..i
    BY <2>2 DEF StartOf
  <2> QED BY <2>1, <2>2
<1>3. ASSUME NEW s \in 1..n PROVE StartOf(M, n + 1, s) <=> x.stamp = "none" /\ StartOf(L, n, s)
  <2>1. /\ s \in 1..n + 1 /\ n \in 1..n
        /\ (\A j \in s + 1..n + 1 : j \in s + 1..n \/ j = n + 1)
        /\ n + 1 \in s + 1..n + 1 /\ \A j \in s + 1..n : j \in s + 1..n + 1
    BY <1>1
  <2>2. (\A j \in s + 1..n + 1 : M[j].stamp = "none")
          <=> x.stamp = "none" /\ \A j \in s + 1..n : M[j].stamp = "none"
    BY <1>1, <2>1
  <2>3. StartOf(M, n + 1, s) <=> x.stamp = "none" /\ StartOf(M, n, s)
    BY <2>1, <2>2 DEF StartOf
  <2> QED BY <1>2, <2>1, <2>3
<1>4. ASSUME StartOf(M, n + 1, n + 1), x.stamp = "none", NEW s \in 1..n PROVE ~StartOf(L, n, s)
  <2>1. SUFFICES ASSUME StartOf(L, n, s) PROVE FALSE
    OBVIOUS
  <2>2. StartOf(M, n + 1, s)
    BY <1>3, <1>4, <2>1
  <2>3. n + 1 \in Nat /\ s # n + 1
    BY <1>1
  <2> QED BY <1>4, <2>2, <2>3, StartUnique
<1>5. StartOf(M, n + 1, n + 1) => x.mark = "begin"
  BY <1>1 DEF StartOf
<1>6. ASSUME x.mark = "begin", x.stamp = "none" => \A s \in 1..n : ~StartOf(L, n, s)
      PROVE  StartOf(M, n + 1, n + 1)
  <2>1. n + 1 \in 1..n + 1 /\ n + 1 - 1 = n /\ \A j \in (n + 1) + 1..n + 1 : FALSE
    BY <1>1
  <2>2. ASSUME NEW b \in 1..n, M[b].mark = "begin" PROVE \E j \in b + 1..n + 1 : M[j].stamp # "none"
    <3>1. CASE x.stamp # "none"
      <4>1. n + 1 \in b + 1..n + 1
        BY <1>1
      <4> QED BY <1>1, <3>1, <4>1
    <3>2. CASE x.stamp = "none"
      <4>1. SUFFICES ASSUME \A j \in b + 1..n + 1 : M[j].stamp = "none" PROVE FALSE
        OBVIOUS
      <4>2. \A j \in b + 1..n : L[j].stamp = "none"
        <5>1. \A j \in b + 1..n : j \in b + 1..n + 1 /\ j \in 1..n
          BY <1>1
        <5> QED BY <1>1, <4>1, <5>1
      <4>3. L[b].mark = "begin"
        BY <1>1, <2>2
      <4>4. PICK s \in 1..b : StartOf(L, n, s)
        BY <1>1, <4>2, <4>3, StartExists
      <4>5. s \in 1..n
        BY <1>1
      <4> QED BY <1>6, <3>2, <4>4, <4>5
    <3> QED BY <3>1, <3>2
  <2> QED BY <1>1, <1>6, <2>1, <2>2 DEF StartOf
<1> QED BY <1>2, <1>3, <1>4, <1>5, <1>6 DEF M, n

\* The rows of the file so far, and those of its last line.
LEMMA LineRowsGrow ==
    ASSUME NEW L \in Seq(Line), NEW x \in Line
    PROVE  LineRows(Append(L, x)) = LineRows(L) \cup
             {r \in RuleRecord : /\ r.line = Len(L) + 1 /\ ~r.incomplete
                                 /\ \E s \in 1..Len(L) + 1 : /\ StartOf(Append(L, x), Len(L) + 1, s)
                                                             /\ TimeAt(Append(L, x), s, r.time)}
<1> DEFINE M == Append(L, x)
           n == Len(L)
           New == {r \in RuleRecord : /\ r.line = n + 1 /\ ~r.incomplete
                                      /\ \E s \in 1..n + 1 : StartOf(M, n + 1, s) /\ TimeAt(M, s, r.time)}
<1>1. n \in Nat /\ Len(M) = n + 1
  BY AppendLine
<1>2. /\ \A i \in 1..n : \A s : StartOf(M, i, s) <=> StartOf(L, i, s)
      /\ \A i \in 1..n : \A t : TimeAt(M, i, t) <=> TimeAt(L, i, t)
  BY StartsStay, TimesStay
<1> HIDE DEF M, n
<1>3. ASSUME NEW r \in RuleRecord PROVE r \in LineRows(M) <=> r \in LineRows(L) \/ r \in New
  <2>1. CASE r.line \in 1..n
    <3>1. r.line # n + 1 /\ r.line \in 1..n + 1 /\ \A s \in 1..r.line : s \in 1..n
      BY <1>1, <2>1
    <3> QED BY <1>1, <1>2, <2>1, <3>1 DEF LineRows, n
  <2>2. CASE r.line = n + 1
    <3>1. r.line \notin 1..n /\ r.line \in 1..n + 1
      BY <1>1, <2>2
    <3> QED BY <1>1, <2>2, <3>1 DEF LineRows, n
  <2>3. CASE r.line \notin 1..n + 1
    <3>1. r.line \notin 1..n /\ r.line # n + 1
      BY <1>1, <2>3
    <3> QED BY <1>1, <2>3, <3>1 DEF LineRows, n
  <2>4. r.line \in 1..n + 1 => r.line \in 1..n \/ r.line = n + 1
    BY <1>1
  <2> QED BY <2>1, <2>2, <2>3, <2>4
<1>4. LineRows(M) \subseteq RuleRecord /\ LineRows(L) \subseteq RuleRecord /\ New \subseteq RuleRecord
  BY DEF LineRows
<1> HIDE DEF New
<1>5. LineRows(M) = LineRows(L) \cup New
  BY <1>3, <1>4
<1> QED BY <1>5 DEF New, M, n

LEMMA LineInvStep ==
    ASSUME NEW L \in Seq(Line), NEW x \in Line, lines = L, ValidAt(L, Len(L), previous),
           LineInv(L, block)
    PROVE  LineInv(Append(L, x), LineBlock(x, Len(L) + 1))
<1> DEFINE M == Append(L, x)
           n == Len(L)
           New == {r \in RuleRecord : /\ r.line = n + 1 /\ ~r.incomplete
                                      /\ \E s \in 1..n + 1 : StartOf(M, n + 1, s) /\ TimeAt(M, s, r.time)}
           b == LineBlock(x, n + 1)
           stamp == LineStamp(x, n + 1)
<1>1. n \in Nat /\ Len(M) = n + 1 /\ M \in Seq(Line)
  BY AppendLine
<1>2. LineRows(M) = LineRows(L) \cup New
  BY LineRowsGrow
<1>3. TimeAt(M, n + 1, stamp) /\ stamp \in Int
  BY TimeOfNew
<1>4. /\ x.stamp = "none" => \A s \in 1..n : StartOf(M, n + 1, s) <=> StartOf(L, n, s)
      /\ x.stamp # "none" => \A s \in 1..n : ~StartOf(M, n + 1, s)
      /\ StartOf(M, n + 1, n + 1) <=> x.mark = "begin" /\ (x.stamp = "none" => \A s \in 1..n : ~StartOf(L, n, s))
  BY StartsStay
<1>5. \A i \in 1..n : \A t : TimeAt(M, i, t) <=> TimeAt(L, i, t)
  BY TimesStay
<1>6. /\ block.active \in BOOLEAN /\ block.anchor \in Int /\ block.out \in Seq(RuleRecord)
      /\ block \in [active : BOOLEAN, anchor : Int, out : Seq(RuleRecord)]
      /\ Gives(block.out, LineRows(L))
      /\ block.active => \E s \in 1..n : StartOf(L, n, s) /\ TimeAt(L, s, block.anchor)
      /\ ~block.active => \A s \in 1..n : ~StartOf(L, n, s)
  BY DEF LineInv
<1>7. \A r \in LineRows(L) : r.line \in Nat /\ r.line < n + 1
  BY <1>1 DEF LineRows, RuleRecord, n
<1> HIDE DEF M, n, b, stamp
\* A row of the new line has the time of the start of its block.
<1>8. ASSUME NEW s \in 1..n + 1, StartOf(M, n + 1, s), NEW t \in Int, TimeAt(M, s, t)
      PROVE  New = {Rec(n + 1, t, FALSE)}
  <2>1. Rec(n + 1, t, FALSE) \in RuleRecord
    BY <1>1 DEF Rec, RuleRecord
  <2>2. Rec(n + 1, t, FALSE).line = n + 1 /\ Rec(n + 1, t, FALSE).time = t /\ ~Rec(n + 1, t, FALSE).incomplete
    BY DEF Rec
  <2>3. Rec(n + 1, t, FALSE) \in New
    BY <1>8, <2>1, <2>2
  <2>4. ASSUME NEW r \in New PROVE r = Rec(n + 1, t, FALSE)
    <3>1. PICK q \in 1..n + 1 : StartOf(M, n + 1, q) /\ TimeAt(M, q, r.time)
      OBVIOUS
    <3>2. q = s
      BY <1>1, <1>8, <3>1, StartUnique
    <3>3. r.time = t
      <4>1. s \in Nat /\ TimeAt(M, s, r.time)
        BY <1>1, <3>1, <3>2
      <4> QED BY <1>8, <4>1, TimesUnique
    <3>4. r \in RuleRecord /\ r.line = n + 1 /\ r.incomplete = FALSE
      <4>1. r.incomplete \in BOOLEAN
        BY DEF RuleRecord
      <4> QED BY <4>1
    <3> QED BY <3>3, <3>4 DEF Rec, RuleRecord
  <2> HIDE DEF New
  <2> QED BY <2>3, <2>4
<1>9. ASSUME \A s \in 1..n + 1 : ~StartOf(M, n + 1, s) PROVE New = {}
  BY <1>9
<1>10. \A s \in 1..n + 1 : s \in 1..n \/ s = n + 1
  BY <1>1
<1> HIDE DEF New
<1>11. \A t \in Int : /\ Append(block.out, Rec(n + 1, t, FALSE)) \in Seq(RuleRecord)
                      /\ Gives(Append(block.out, Rec(n + 1, t, FALSE)), LineRows(L) \cup {Rec(n + 1, t, FALSE)})
  <2> TAKE t \in Int
  <2>1. Rec(n + 1, t, FALSE) \in RuleRecord /\ Rec(n + 1, t, FALSE).line = n + 1
    BY <1>1 DEF Rec, RuleRecord
  <2>2. \A r \in LineRows(L) : r.line < Rec(n + 1, t, FALSE).line
    BY <1>7, <2>1
  <2> QED BY <1>6, <2>1, <2>2, GivesAppend
<1>12. CASE block.active /\ x.stamp = "none"
  <2>1. PICK s \in 1..n : StartOf(L, n, s) /\ TimeAt(L, s, block.anchor)
    BY <1>6, <1>12
  <2>2. s \in 1..n + 1 /\ StartOf(M, n + 1, s) /\ TimeAt(M, s, block.anchor)
    BY <1>1, <1>4, <1>5, <1>12, <2>1
  <2>3. New = {Rec(n + 1, block.anchor, FALSE)}
    BY <1>6, <1>8, <2>2
  <2>4. b = [block EXCEPT !.out = Append(@, Rec(n + 1, block.anchor, FALSE))]
    BY <1>12 DEF LineBlock, b
  <2>5. b.active = block.active /\ b.anchor = block.anchor /\ b.out = Append(block.out, Rec(n + 1, block.anchor, FALSE))
    BY <1>6, <2>4
  <2>6. b \in [active : BOOLEAN, anchor : Int, out : Seq(RuleRecord)]
    BY <1>6, <1>11, <2>4
  <2>7. Gives(b.out, LineRows(M))
    BY <1>2, <1>6, <1>11, <2>3, <2>5
  <2>8. LineInv(M, b)
    BY <1>1, <1>12, <2>2, <2>5, <2>6, <2>7 DEF LineInv
  <2> QED BY <2>8 DEF M, b, n
<1>13. CASE ~(block.active /\ x.stamp = "none") /\ x.mark = "begin"
  <2>1. StartOf(M, n + 1, n + 1) /\ n + 1 \in 1..n + 1
    BY <1>1, <1>4, <1>6, <1>13
  <2>2. New = {Rec(n + 1, stamp, FALSE)}
    BY <1>3, <1>8, <2>1
  <2>3. b = [active |-> TRUE, anchor |-> stamp, out |-> Append(block.out, Rec(n + 1, stamp, FALSE))]
    BY <1>13 DEF LineBlock, b, stamp
  <2>4. b \in [active : BOOLEAN, anchor : Int, out : Seq(RuleRecord)]
    BY <1>3, <1>11, <2>3
  <2>5. b.active /\ b.anchor = stamp /\ b.out = Append(block.out, Rec(n + 1, stamp, FALSE))
    BY <2>3
  <2>6. Gives(b.out, LineRows(M))
    BY <1>2, <1>3, <1>11, <2>2, <2>5
  <2>7. LineInv(M, b)
    BY <1>1, <1>3, <2>1, <2>4, <2>5, <2>6 DEF LineInv
  <2> QED BY <2>7 DEF M, b, n
<1>14. CASE ~(block.active /\ x.stamp = "none") /\ x.mark # "begin"
  <2>1. \A s \in 1..n + 1 : ~StartOf(M, n + 1, s)
    BY <1>4, <1>6, <1>10, <1>14
  <2>2. New = {}
    BY <1>9, <2>1
  <2>3. b = [block EXCEPT !.active = FALSE, !.anchor = NoTime]
    BY <1>14 DEF LineBlock, b
  <2>4. b.active = FALSE /\ b.out = block.out /\ b \in [active : BOOLEAN, anchor : Int, out : Seq(RuleRecord)]
    <3>1. b.active = FALSE /\ b.out = block.out
      BY <1>6, <2>3
    <3>2. b \in [active : BOOLEAN, anchor : Int, out : Seq(RuleRecord)]
      <4>1. block \in [active : BOOLEAN, anchor : Int, out : Seq(RuleRecord)] /\ NoTime \in Int
        BY <1>6 DEF NoTime
      <4> QED BY <2>3, <4>1
    <3> QED BY <3>1, <3>2
  <2>5. Gives(b.out, LineRows(M))
    BY <1>2, <1>6, <2>2, <2>4
  <2>6. LineInv(M, b)
    BY <1>1, <2>1, <2>4, <2>5 DEF LineInv
  <2> QED BY <2>6 DEF M, b, n
<1> QED BY <1>12, <1>13, <1>14

\* What the invariant says at the end, in the words of the property.
LEMMA LineInvGives ==
    ASSUME lines \in Seq(Line), LineInv(lines, block)
    PROVE  LineBlocksFromStart
<1> DEFINE Since(i) == LastOf(Stamped \cap (1..i))
           Starts(i) == {s \in Marked("begin") : Since(i) <= s /\ s <= i}
           n == Len(lines)
           Row(i) == Rec(i, TimeOf(Min(Starts(i))), FALSE)
<1>1. n \in Nat /\ All = 1..n
  BY DEF All
<1>2. ASSUME NEW i \in 1..n
      PROVE  /\ Since(i) \in 0..i /\ (Since(i) # 0 => lines[Since(i)].stamp # "none")
             /\ \A j \in Since(i) + 1..i : lines[j].stamp = "none"
  <2> DEFINE S == Stamped \cap (1..i)
  <2>1. S \in SUBSET Nat /\ S \in SUBSET (1..i) /\ \A x \in S : x <= i
    OBVIOUS
  <2>2. \A j \in 1..i : j \in S <=> lines[j].stamp # "none"
    BY <1>1 DEF Stamped
  <2>3. Since(i) = IF S = {} THEN 0 ELSE Max(S)
    BY DEF LastOf
  <2> HIDE DEF S, Since
  <2>4. CASE S = {}
    <3>1. \A j \in 0 + 1..i : lines[j].stamp = "none"
      BY <2>2, <2>4
    <3> QED BY <1>1, <2>3, <2>4, <3>1
  <2>5. CASE S # {}
    <3>1. PICK v \in S : \A y \in S : y <= v
      <4>1. i \in Nat
        BY <1>1
      <4> QED BY <2>1, <2>5, <4>1, GreatestNumber
    <3>2. Since(i) = v
      BY <2>1, <2>3, <2>5, <3>1, MaxIs
    <3>3. v \in 1..i /\ v \in 0..i /\ lines[v].stamp # "none"
      BY <2>1, <2>2, <3>1
    <3>4. \A j \in v + 1..i : j \in 1..i /\ ~(j <= v)
      BY <3>3
    <3>5. \A j \in v + 1..i : lines[j].stamp = "none"
      BY <2>2, <3>1, <3>4
    <3> QED BY <3>2, <3>3, <3>5
  <2> QED BY <2>4, <2>5
<1> HIDE DEF Since
<1>3. ASSUME NEW i \in 1..n, NEW s
      PROVE  s \in Starts(i) <=> s \in 1..i /\ lines[s].mark = "begin" /\ \A j \in s + 1..i : lines[j].stamp = "none"
  <2>1. s \in Starts(i) <=> s \in 1..n /\ lines[s].mark = "begin" /\ Since(i) <= s /\ s <= i
    BY <1>1 DEF Marked
  <2>2. Since(i) \in 0..i
    BY <1>2
  <2>3. ASSUME s \in 1..i PROVE Since(i) <= s <=> \A j \in s + 1..i : lines[j].stamp = "none"
    <3>1. ASSUME Since(i) <= s PROVE \A j \in s + 1..i : lines[j].stamp = "none"
      <4>1. \A j \in s + 1..i : j \in Since(i) + 1..i
        BY <2>2, <2>3, <3>1
      <4> QED BY <1>2, <4>1
    <3>2. ASSUME ~(Since(i) <= s) PROVE ~\A j \in s + 1..i : lines[j].stamp = "none"
      <4>1. Since(i) \in s + 1..i /\ Since(i) # 0
        BY <2>2, <2>3, <3>2
      <4> QED BY <1>2, <4>1
    <3> QED BY <3>1, <3>2
  <2>4. s \in 1..i <=> s \in 1..n /\ s <= i
    BY <1>1
  <2> QED BY <2>1, <2>3, <2>4
<1> HIDE DEF Starts
<1>4. ASSUME NEW i \in 1..n, NEW s, StartOf(lines, i, s)
      PROVE  s \in Starts(i) /\ Min(Starts(i)) = s
  <2>1. s \in Starts(i)
    BY <1>3, <1>4 DEF StartOf
  <2>2. ASSUME NEW y \in Starts(i) PROVE s <= y
    <3>1. y \in 1..i /\ s \in 1..i
      BY <1>3, <2>1
    <3>2. SUFFICES ASSUME y < s PROVE FALSE
      BY <3>1
    <3>3. y \in 1..s - 1 /\ lines[y].mark = "begin"
      BY <1>3, <3>1, <3>2
    <3>4. PICK j \in y + 1..s : lines[j].stamp # "none"
      BY <1>4, <3>3 DEF StartOf
    <3>5. j \in y + 1..i
      BY <3>1
    <3> QED BY <1>3, <3>4, <3>5
  <2>3. Starts(i) \in SUBSET Nat
    <3>1. \A y \in Starts(i) : y \in 1..i
      BY <1>3
    <3> QED BY <3>1
  <2> QED BY <2>1, <2>2, <2>3, MinIs
<1>5. ASSUME NEW i \in 1..n, Starts(i) # {} PROVE \E s \in 1..i : StartOf(lines, i, s)
  <2>1. PICK c \in Starts(i) : TRUE
    BY <1>5
  <2>2. c \in 1..i /\ lines[c].mark = "begin" /\ (\A j \in c + 1..i : lines[j].stamp = "none") /\ i \in Nat
    BY <1>3, <2>1
  <2>3. PICK s \in 1..c : StartOf(lines, i, s)
    BY <2>2, StartExists
  <2> QED BY <2>3 DEF StartOf
<1>6. LineRows(lines) = {Row(i) : i \in {j \in All : Starts(j) # {}}}
  <2>1. ASSUME NEW r \in LineRows(lines) PROVE \E i \in 1..n : Starts(i) # {} /\ r = Row(i)
    <3> DEFINE i == r.line
    <3>1. r \in RuleRecord /\ i \in 1..n /\ ~r.incomplete
      BY DEF LineRows
    <3>2. PICK s \in 1..i : StartOf(lines, i, s) /\ TimeAt(lines, s, r.time)
      BY DEF LineRows
    <3>3. Min(Starts(i)) = s /\ s \in Starts(i) /\ s \in 1..n
      BY <1>4, <3>1, <3>2
    <3>4. r.time = TimeOf(s)
      BY <3>2, <3>3, TimeOfIs
    <3>5. r = Rec(r.line, r.time, FALSE)
      BY <3>1 DEF Rec, RuleRecord
    <3>6. r = Row(i)
      BY <3>3, <3>4, <3>5
    <3> QED BY <3>1, <3>3, <3>6
  <2>2. ASSUME NEW i \in 1..n, Starts(i) # {} PROVE Row(i) \in LineRows(lines)
    <3>1. PICK s \in 1..i : StartOf(lines, i, s)
      BY <1>5, <2>2
    <3>2. Min(Starts(i)) = s /\ s \in 1..n
      BY <1>4, <3>1
    <3>3. TimeAt(lines, s, TimeOf(s)) /\ TimeOf(s) \in Int
      BY <3>2, TimeOfIs
    <3>4. Row(i) = Rec(i, TimeOf(s), FALSE)
      BY <3>2
    <3>5. /\ Row(i) \in RuleRecord /\ Row(i).line = i /\ Row(i).time = TimeOf(s) /\ Row(i).incomplete = FALSE
      BY <3>3, <3>4 DEF Rec, RuleRecord
    <3> HIDE DEF Row
    <3> QED BY <3>1, <3>3, <3>5 DEF LineRows
  <2> HIDE DEF Row
  <2> QED BY <1>1, <2>1, <2>2
<1>7. Gives(block.out, LineRows(lines))
  BY DEF LineInv
<1> QED BY <1>6, <1>7 DEF LineBlocksFromStart, Starts, Since

-----------------------------------------------------------------------------
(* The strict mode *)

StampsInv(L, times) ==
    /\ times \in Seq(Int) /\ Len(times) = Len(L)
    /\ \A i \in 1..Len(L) : TimeAt(L, i, times[i])

\* The records of the lines of N that are not hidden, each with its own time.
TimedRows(L, N) ==
    {r \in RuleRecord : /\ r.line \in N /\ L[r.line].mark # "hidden" /\ ~r.incomplete
                        /\ TimeAt(L, r.line, r.time)}

LEMMA RetainedFacts ==
    ASSUME NEW L \in Seq(Line), lines = L, StampsInv(L, stamps),
           NEW numbers \in Seq(1..Len(L)), Increasing(numbers)
    PROVE  Retained(numbers) \in Seq(RuleRecord) /\ Gives(Retained(numbers), TimedRows(L, ToSet(numbers)))
<1> DEFINE s == Shows(numbers)
           times == [k \in DOMAIN s |-> stamps[s[k]]]
           out == RecordsOf(s, times, FALSE)
<1>1. numbers \in Seq(Nat) /\ \A i \in ToSet(numbers) : i \in 1..Len(L)
  BY DEF ToSet
<1>2. /\ s \in Seq(Nat) /\ Increasing(s)
      /\ \A i : i \in ToSet(s) <=> i \in ToSet(numbers) /\ L[i].mark # "hidden"
  BY <1>1, ShowsFacts
<1>3. Retained(numbers) = out
  BY DEF Retained, RecordsOf
<1> HIDE DEF s
<1>4. \A i \in 1..Len(L) : stamps[i] \in Int /\ TimeAt(L, i, stamps[i])
  BY DEF StampsInv
<1>5. \A k \in DOMAIN s : s[k] \in ToSet(s) /\ s[k] \in 1..Len(L) /\ times[k] = stamps[s[k]]
  <2> TAKE k \in DOMAIN s
  <2>1. s[k] \in ToSet(s)
    BY DEF ToSet
  <2> QED BY <1>1, <1>2, <2>1
<1> HIDE DEF times
<1>6. \A k \in DOMAIN s : times[k] \in Int
  BY <1>4, <1>5
<1>7. /\ out \in Seq(RuleRecord) /\ Ascending(out)
      /\ \A r : r \in ToSet(out) <=> \E k \in DOMAIN s : r = Rec(s[k], times[k], FALSE)
  <2>1. s \in Seq(Nat) /\ Increasing(s) /\ FALSE \in BOOLEAN
    BY <1>2
  <2>2. out \in Seq(RuleRecord)
    BY <1>6, <2>1, RecordList
  <2>3. Ascending(out)
    BY <1>6, <2>1, RecordList
  <2>4. \A k \in DOMAIN s : Rec(s[k], times[k], FALSE) \in ToSet(out)
    BY <1>6, <2>1, RecordList
  <2>5. \A r \in ToSet(out) : \E k \in DOMAIN s : r = Rec(s[k], times[k], FALSE)
    BY DEF RecordsOf, ToSet
  <2> QED BY <2>2, <2>3, <2>4, <2>5
<1> HIDE DEF out
<1>8. ASSUME NEW r \in ToSet(out) PROVE r \in TimedRows(L, ToSet(numbers))
  <2>1. PICK k \in DOMAIN s : r = Rec(s[k], times[k], FALSE)
    BY <1>7
  <2>2. /\ r.line = s[k] /\ r.time = stamps[s[k]] /\ r.incomplete = FALSE
        /\ s[k] \in 1..Len(L) /\ s[k] \in ToSet(numbers) /\ L[s[k]].mark # "hidden"
    BY <1>2, <1>5, <2>1 DEF Rec
  <2>3. r \in RuleRecord
    BY <1>4, <1>5, <2>1 DEF Rec, RuleRecord
  <2> QED BY <1>4, <2>2, <2>3 DEF TimedRows
<1>9. ASSUME NEW r \in TimedRows(L, ToSet(numbers)) PROVE r \in ToSet(out)
  <2>1. /\ r \in RuleRecord /\ r.line \in ToSet(numbers) /\ L[r.line].mark # "hidden"
        /\ ~r.incomplete /\ TimeAt(L, r.line, r.time)
    BY DEF TimedRows
  <2>2. PICK k \in DOMAIN s : s[k] = r.line
    BY <1>2, <2>1 DEF ToSet
  <2>3. r.line \in 1..Len(L) /\ r.line \in Nat /\ TimeAt(L, r.line, stamps[r.line])
    BY <1>1, <1>4, <2>1
  <2>4. r.time = times[k]
    BY <1>5, <2>1, <2>2, <2>3, TimesUnique
  <2>5. r = Rec(s[k], times[k], FALSE)
    BY <2>1, <2>2, <2>4 DEF Rec, RuleRecord
  <2> QED BY <1>7, <2>5
<1>10. ToSet(out) = TimedRows(L, ToSet(numbers))
  BY <1>8, <1>9
<1> QED BY <1>3, <1>7, <1>10 DEF Gives

IsBound(L, i) == L[i].mark \in {"begin", "end"}

Unbound(L, i, j) == \A k \in i..j : ~IsBound(L, k)

\* The last boundary before line i is a begin.
AfterBegin(L, i) == \E b \in 1..i - 1 : L[b].mark = "begin" /\ Unbound(L, b + 1, i - 1)

\* The first boundary of the file comes after line i and is an end.
BeforeEnd(L, i) ==
    /\ Unbound(L, 1, i - 1)
    /\ \E e \in i + 1..Len(L) : L[e].mark = "end" /\ Unbound(L, i + 1, e - 1)

StrictRows(L) ==
    {r \in RuleRecord : /\ r.line \in 1..Len(L) /\ L[r.line].mark = "text" /\ ~r.incomplete
                        /\ TimeAt(L, r.line, r.time)
                        /\ AfterBegin(L, r.line) \/ BeforeEnd(L, r.line)}

HeadRows(L) == IF Unbound(L, 1, Len(L)) THEN TimedRows(L, 1..Len(L)) ELSE {}

StrictInv(L, s) ==
    /\ s \in [mode : {"head", "active", "outside"}, head : Seq(1..Len(L)), out : Seq(RuleRecord)]
    /\ Gives(s.out, StrictRows(L)) /\ Increasing(s.head)
    /\ s.mode = "head" => /\ Unbound(L, 1, Len(L))
                          /\ \A i : i \in ToSet(s.head) <=> i \in 1..Len(L)
    /\ s.mode # "head" =>
         /\ s.head = <<>>
         /\ \E b \in 1..Len(L) : /\ L[b].mark = (IF s.mode = "active" THEN "begin" ELSE "end")
                                 /\ Unbound(L, b + 1, Len(L))

LEMMA BoundsStay ==
    ASSUME NEW L \in Seq(Line), NEW x \in Line
    PROVE  /\ \A i \in Nat : \A j \in 0..Len(L) : i > 0 => (Unbound(Append(L, x), i, j) <=> Unbound(L, i, j))
           /\ \A i \in 1..Len(L) + 1 : AfterBegin(Append(L, x), i) <=>
                \E b \in 1..i - 1 : L[b].mark = "begin" /\ Unbound(L, b + 1, i - 1)
           /\ \A i \in 1..Len(L) : BeforeEnd(Append(L, x), i) <=>
                BeforeEnd(L, i) \/ (x.mark = "end" /\ Unbound(L, 1, i - 1) /\ Unbound(L, i + 1, Len(L)))
           /\ ~BeforeEnd(Append(L, x), Len(L) + 1)
<1> DEFINE M == Append(L, x)
           n == Len(L)
<1>1. n \in Nat /\ Len(M) = n + 1 /\ M[n + 1] = x /\ \A i \in 1..n : M[i] = L[i]
  BY AppendLine
<1> HIDE DEF M, n
<1>2. ASSUME NEW i \in Nat, NEW j \in 0..n, i > 0 PROVE Unbound(M, i, j) <=> Unbound(L, i, j)
  <2>1. \A k \in i..j : k \in 1..n
    BY <1>1, <1>2
  <2> QED BY <1>1, <2>1 DEF Unbound, IsBound
<1>3. ASSUME NEW i \in 1..n + 1
      PROVE AfterBegin(M, i) <=> \E b \in 1..i - 1 : L[b].mark = "begin" /\ Unbound(L, b + 1, i - 1)
  <2>1. \A b \in 1..i - 1 : b \in 1..n /\ b + 1 \in Nat /\ b + 1 > 0 /\ i - 1 \in 0..n
    BY <1>1
  <2>2. \A b \in 1..i - 1 : M[b] = L[b] /\ (Unbound(M, b + 1, i - 1) <=> Unbound(L, b + 1, i - 1))
    BY <1>1, <1>2, <2>1
  <2> QED BY <2>2 DEF AfterBegin
<1>4. ASSUME NEW i \in 1..n
      PROVE BeforeEnd(M, i) <=> BeforeEnd(L, i) \/ (x.mark = "end" /\ Unbound(L, 1, i - 1) /\ Unbound(L, i + 1, n))
  <2>1. /\ i - 1 \in 0..n /\ 1 \in Nat /\ 1 > 0 /\ i + 1 \in Nat /\ i + 1 > 0
        /\ \A e \in i + 1..n + 1 : e - 1 \in 0..n
    BY <1>1
  <2>2. /\ Unbound(M, 1, i - 1) <=> Unbound(L, 1, i - 1)
        /\ \A e \in i + 1..n + 1 : Unbound(M, i + 1, e - 1) <=> Unbound(L, i + 1, e - 1)
    BY <1>2, <2>1
  <2>3. /\ \A e : e \in i + 1..n + 1 <=> e \in i + 1..n \/ e = n + 1
        /\ \A e \in i + 1..n : e \in 1..n /\ n + 1 - 1 = n
    BY <1>1
  <2>4. n + 1 - 1 = n
    BY <1>1
  <2> QED BY <1>1, <2>2, <2>3, <2>4 DEF BeforeEnd, n
<1>5. ~BeforeEnd(M, n + 1)
  <2>1. \A e \in (n + 1) + 1..n + 1 : FALSE
    BY <1>1
  <2> QED BY <1>1, <2>1 DEF BeforeEnd
<1> QED BY <1>2, <1>3, <1>4, <1>5 DEF M, n

\* One more line, in the terms of the rows it settles.
LEMMA StrictRowsGrow ==
    ASSUME NEW L \in Seq(Line), NEW x \in Line, NEW r \in RuleRecord
    PROVE  r \in StrictRows(Append(L, x)) <=>
             \/ r \in StrictRows(L)
             \/ /\ r.line = Len(L) + 1 /\ x.mark = "text" /\ ~r.incomplete
                /\ TimeAt(Append(L, x), Len(L) + 1, r.time) /\ AfterBegin(Append(L, x), Len(L) + 1)
             \/ /\ x.mark = "end" /\ Unbound(L, 1, Len(L))
                /\ r.line \in 1..Len(L) /\ L[r.line].mark = "text" /\ ~r.incomplete
                /\ TimeAt(L, r.line, r.time)
<1> DEFINE M == Append(L, x)
           n == Len(L)
<1>1. n \in Nat /\ Len(M) = n + 1 /\ M[n + 1] = x /\ \A i \in 1..n : M[i] = L[i]
  BY AppendLine
<1>2. /\ \A i \in 1..n : \A t : TimeAt(M, i, t) <=> TimeAt(L, i, t)
      /\ \A i \in 1..n : BeforeEnd(M, i) <=>
           BeforeEnd(L, i) \/ (x.mark = "end" /\ Unbound(L, 1, i - 1) /\ Unbound(L, i + 1, n))
      /\ ~BeforeEnd(M, n + 1)
  BY BoundsStay, TimesStay
<1>3. \A i \in 1..n : AfterBegin(M, i) <=> AfterBegin(L, i)
  <2> TAKE i \in 1..n
  <2>1. i \in 1..n + 1
    BY <1>1
  <2>2. AfterBegin(M, i) <=> \E b \in 1..i - 1 : L[b].mark = "begin" /\ Unbound(L, b + 1, i - 1)
    BY <2>1, BoundsStay
  <2> QED BY <2>2 DEF AfterBegin
<1> HIDE DEF M, n
<1>4. CASE r.line \in 1..n
  <2>1. r.line \in 1..n + 1 /\ r.line # n + 1
    BY <1>1, <1>4
  <2>2. ASSUME L[r.line].mark = "text"
        PROVE  Unbound(L, 1, r.line - 1) /\ Unbound(L, r.line + 1, n) <=> Unbound(L, 1, n)
    <3>1. \A k \in 1..n : k \in 1..r.line - 1 \/ k \in r.line + 1..n \/ k = r.line
      BY <1>1, <1>4
    <3>2. (\A k \in 1..r.line - 1 : k \in 1..n) /\ \A k \in r.line + 1..n : k \in 1..n
      BY <1>1, <1>4
    <3>3. ~IsBound(L, r.line)
      BY <2>2 DEF IsBound
    <3> QED BY <3>1, <3>2, <3>3 DEF Unbound
  <2> QED BY <1>1, <1>2, <1>3, <1>4, <2>1, <2>2 DEF StrictRows, n, M
<1>5. CASE r.line = n + 1
  <2>1. r.line \in 1..n + 1 /\ r.line \notin 1..n
    BY <1>1, <1>5
  <2> QED BY <1>1, <1>2, <1>5, <2>1 DEF StrictRows, n, M
<1>6. CASE r.line \notin 1..n /\ r.line # n + 1
  <2>1. r.line \notin 1..n + 1
    BY <1>1, <1>6
  <2> QED BY <1>1, <1>6, <2>1 DEF StrictRows, n, M
<1> QED BY <1>4, <1>5, <1>6

\* Where the last boundary is a begin, or not.
LEMMA AfterBeginOfNew ==
    ASSUME NEW L \in Seq(Line), NEW x \in Line, NEW s, StrictInv(L, s)
    PROVE  AfterBegin(Append(L, x), Len(L) + 1) <=> s.mode = "active"
<1> DEFINE n == Len(L)
<1>1. n \in Nat /\ n + 1 - 1 = n /\ n + 1 \in 1..n + 1
  BY AppendLine
<1>2. AfterBegin(Append(L, x), n + 1) <=> \E b \in 1..n : L[b].mark = "begin" /\ Unbound(L, b + 1, n)
  <2>1. AfterBegin(Append(L, x), n + 1) <=> \E b \in 1..n + 1 - 1 : L[b].mark = "begin" /\ Unbound(L, b + 1, n + 1 - 1)
    BY <1>1, BoundsStay
  <2> HIDE DEF n
  <2> QED BY <1>1, <2>1
<1> HIDE DEF n
<1>3. s.mode \in {"head", "active", "outside"}
  BY DEF StrictInv
<1>4. CASE s.mode = "head"
  <2>1. Unbound(L, 1, n)
    BY <1>4 DEF StrictInv, n
  <2>2. \A b \in 1..n : L[b].mark # "begin"
    BY <2>1 DEF Unbound, IsBound
  <2> QED BY <1>2, <1>4, <2>2 DEF n
<1>5. CASE s.mode # "head"
  <2>1. PICK b \in 1..n : L[b].mark = (IF s.mode = "active" THEN "begin" ELSE "end") /\ Unbound(L, b + 1, n)
    BY <1>5 DEF StrictInv, n
  <2>2. ASSUME NEW c \in 1..n, L[c].mark = "begin", Unbound(L, c + 1, n) PROVE c = b
    <3>1. IsBound(L, b) /\ IsBound(L, c)
      BY <2>1, <2>2 DEF IsBound
    <3>2. b \notin c + 1..n /\ c \notin b + 1..n
      BY <2>1, <2>2, <3>1 DEF Unbound
    <3> QED BY <1>1, <3>2
  <2>3. s.mode = "active" => AfterBegin(Append(L, x), n + 1)
    BY <1>2, <2>1
  <2>4. AfterBegin(Append(L, x), n + 1) => L[b].mark = "begin"
    BY <1>2, <2>2
  <2>5. AfterBegin(Append(L, x), n + 1) => s.mode = "active"
    BY <2>1, <2>4
  <2> QED BY <2>3, <2>5 DEF n
<1> QED BY <1>4, <1>5

\* What waits at the head of the file.
LEMMA HeadFacts ==
    ASSUME NEW L \in Seq(Line), NEW s, StrictInv(L, s)
    PROVE  /\ s.mode = "head" <=> Unbound(L, 1, Len(L))
           /\ TimedRows(L, ToSet(s.head)) = HeadRows(L)
           /\ \A r \in StrictRows(L) : \A q \in HeadRows(L) : r.line < q.line
           /\ \A r \in RuleRecord : r \in HeadRows(L) <=>
                /\ Unbound(L, 1, Len(L)) /\ r.line \in 1..Len(L) /\ L[r.line].mark = "text"
                /\ ~r.incomplete /\ TimeAt(L, r.line, r.time)
<1> DEFINE n == Len(L)
<1>1. n \in Nat /\ \A i \in 1..n : L[i].mark \in {"text", "hidden", "begin", "end"}
  <2>1. \A i \in 1..n : L[i] \in Line
    OBVIOUS
  <2> QED BY <2>1 DEF Line
<1> HIDE DEF n
<1>2. s.mode = "head" => Unbound(L, 1, n) /\ \A i : i \in ToSet(s.head) <=> i \in 1..n
  BY DEF StrictInv, n
<1>3. s.mode # "head" => s.head = <<>> /\ ~Unbound(L, 1, n)
  <2> HAVE s.mode # "head"
  <2>1. s.head = <<>> /\ \E b \in 1..n : L[b].mark = (IF s.mode = "active" THEN "begin" ELSE "end")
    BY DEF StrictInv, n
  <2>2. PICK b \in 1..n : L[b].mark \in {"begin", "end"}
    BY <2>1
  <2> QED BY <2>1, <2>2 DEF Unbound, IsBound
<1>4. TimedRows(L, ToSet(s.head)) = HeadRows(L)
  <2>1. CASE s.mode = "head"
    <3>1. ToSet(s.head) = 1..n
      BY <1>2, <2>1
    <3> QED BY <1>2, <2>1, <3>1 DEF HeadRows, n
  <2>2. CASE s.mode # "head"
    <3>1. ToSet(s.head) = {}
      BY <1>3, <2>2 DEF ToSet
    <3>2. TimedRows(L, {}) = {}
      BY DEF TimedRows
    <3> QED BY <1>3, <2>2, <3>1, <3>2 DEF HeadRows, n
  <2> QED BY <2>1, <2>2
<1>5. ASSUME NEW r \in RuleRecord
      PROVE r \in HeadRows(L) <=>
                /\ Unbound(L, 1, n) /\ r.line \in 1..n /\ L[r.line].mark = "text"
                /\ ~r.incomplete /\ TimeAt(L, r.line, r.time)
  <2>1. CASE Unbound(L, 1, n)
    <3>1. r.line \in 1..n => (L[r.line].mark # "hidden" <=> L[r.line].mark = "text")
      BY <1>1, <2>1 DEF Unbound, IsBound
    <3> QED BY <2>1, <3>1 DEF HeadRows, TimedRows, n
  <2>2. CASE ~Unbound(L, 1, n)
    BY <2>2 DEF HeadRows, n
  <2> QED BY <2>1, <2>2
<1>6. ASSUME NEW r \in StrictRows(L), Unbound(L, 1, n) PROVE FALSE
  <2>1. r.line \in 1..n /\ (AfterBegin(L, r.line) \/ BeforeEnd(L, r.line))
    BY DEF StrictRows, n
  <2>2. ~AfterBegin(L, r.line)
    <3>1. \A b \in 1..r.line - 1 : b \in 1..n
      BY <1>1, <2>1
    <3> QED BY <1>6, <3>1 DEF AfterBegin, Unbound, IsBound
  <2>3. ~BeforeEnd(L, r.line)
    <3>1. \A e \in r.line + 1..n : e \in 1..n
      BY <1>1, <2>1
    <3> QED BY <1>6, <3>1 DEF BeforeEnd, Unbound, IsBound, n
  <2> QED BY <2>1, <2>2, <2>3
<1>7. \A r \in StrictRows(L) : \A q \in HeadRows(L) : r.line < q.line
  BY <1>6 DEF HeadRows, n
<1> QED BY <1>2, <1>3, <1>4, <1>5, <1>7 DEF n

LEMMA StrictInvStep ==
    ASSUME NEW L \in Seq(Line), NEW x \in Line, lines = L, ValidAt(L, Len(L), previous),
           StampsInv(L, stamps), StrictInv(L, strict)
    PROVE  StrictInv(Append(L, x), StrictBlock(x, Len(L) + 1))
<1> DEFINE M == Append(L, x)
           n == Len(L)
           s == StrictBlock(x, n + 1)
           stamp == LineStamp(x, n + 1)
           Types(m) == [mode : {"head", "active", "outside"}, head : Seq(1..m), out : Seq(RuleRecord)]
<1>1. n \in Nat /\ Len(M) = n + 1 /\ M[n + 1] = x /\ M \in Seq(Line) /\ \A i \in 1..n : M[i] = L[i]
  BY AppendLine
<1>2. TimeAt(M, n + 1, stamp) /\ stamp \in Int
  BY TimeOfNew
<1>3. \A i \in Nat : \A j \in 0..n : i > 0 => (Unbound(M, i, j) <=> Unbound(L, i, j))
  BY BoundsStay
<1>4. AfterBegin(M, n + 1) <=> strict.mode = "active"
  BY AfterBeginOfNew
<1>5. \A r \in RuleRecord : r \in StrictRows(M) <=>
             \/ r \in StrictRows(L)
             \/ /\ r.line = n + 1 /\ x.mark = "text" /\ ~r.incomplete
                /\ TimeAt(M, n + 1, r.time) /\ AfterBegin(M, n + 1)
             \/ /\ x.mark = "end" /\ Unbound(L, 1, n)
                /\ r.line \in 1..n /\ L[r.line].mark = "text" /\ ~r.incomplete
                /\ TimeAt(L, r.line, r.time)
  BY StrictRowsGrow
<1>6. /\ strict \in Types(n) /\ Gives(strict.out, StrictRows(L)) /\ Increasing(strict.head)
      /\ strict.mode = "head" => Unbound(L, 1, n) /\ \A i : i \in ToSet(strict.head) <=> i \in 1..n
      /\ strict.mode # "head" =>
           /\ strict.head = <<>>
           /\ \E b \in 1..n : /\ L[b].mark = (IF strict.mode = "active" THEN "begin" ELSE "end")
                              /\ Unbound(L, b + 1, n)
  BY DEF StrictInv
<1>7. /\ strict.mode = "head" <=> Unbound(L, 1, n)
      /\ TimedRows(L, ToSet(strict.head)) = HeadRows(L)
      /\ \A r \in StrictRows(L) : \A q \in HeadRows(L) : r.line < q.line
      /\ \A r \in RuleRecord : r \in HeadRows(L) <=>
                /\ Unbound(L, 1, n) /\ r.line \in 1..n /\ L[r.line].mark = "text"
                /\ ~r.incomplete /\ TimeAt(L, r.line, r.time)
  BY HeadFacts
<1>8. StrictRows(L) \subseteq RuleRecord /\ StrictRows(M) \subseteq RuleRecord /\ HeadRows(L) \subseteq RuleRecord
  BY DEF StrictRows, HeadRows, TimedRows
<1>9. \A r \in StrictRows(L) : r.line < n + 1
  <2>1. \A r \in StrictRows(L) : r.line \in 1..n
    BY DEF StrictRows
  <2> QED BY <1>1, <2>1
<1>10. x.mark \in {"text", "hidden", "begin", "end"}
  BY DEF Line
<1>11. /\ Retained(strict.head) \in Seq(RuleRecord)
       /\ Gives(Retained(strict.head), HeadRows(L))
  <2>1. strict.head \in Seq(1..Len(L)) /\ Increasing(strict.head)
    BY <1>6
  <2> QED BY <1>7, <2>1, RetainedFacts
<1> HIDE DEF M, n, s, stamp
<1>12. /\ strict.mode \in {"head", "active", "outside"} /\ strict.head \in Seq(1..n)
       /\ strict.out \in Seq(RuleRecord)
  BY <1>6
<1>13. /\ Append(strict.head, n + 1) \in Seq(1..n + 1) /\ Increasing(Append(strict.head, n + 1))
       /\ strict.head \in Seq(1..n + 1)
       /\ \A i : i \in ToSet(Append(strict.head, n + 1)) <=> i \in ToSet(strict.head) \/ i = n + 1
  BY <1>1, <1>6, <1>12, Increases
<1>14. <<>> \in Seq(1..n + 1) /\ Increasing(<<>>)
  BY DEF Increasing
<1>15. CASE x.mark = "begin"
  <2>1. s = [strict EXCEPT !.mode = "active", !.head = <<>>]
    BY <1>15 DEF StrictBlock, s
  <2>2. s.mode = "active" /\ s.head = <<>> /\ s.out = strict.out
    BY <1>6, <2>1
  <2>3. s \in Types(n + 1)
    BY <1>6, <1>14, <2>1
  <2>4. StrictRows(M) = StrictRows(L)
    BY <1>5, <1>8, <1>15
  <2>5. M[n + 1].mark = "begin" /\ n + 1 \in 1..n + 1 /\ Unbound(M, (n + 1) + 1, n + 1)
    <3>1. \A k \in (n + 1) + 1..n + 1 : FALSE
      BY <1>1
    <3> QED BY <1>1, <1>15, <3>1 DEF Unbound
  <2>6. StrictInv(M, s)
    BY <1>1, <1>6, <1>14, <2>2, <2>3, <2>4, <2>5 DEF StrictInv
  <2> QED BY <2>6 DEF M, n, s
<1>16. CASE x.mark = "end"
  <2>1. s = [mode |-> "outside", head |-> <<>>, out |-> strict.out \o Retained(strict.head)]
    BY <1>16 DEF StrictBlock, s
  <2>2. s.mode = "outside" /\ s.head = <<>> /\ s.out = strict.out \o Retained(strict.head)
    BY <2>1
  <2>3. s.out \in Seq(RuleRecord) /\ Gives(s.out, StrictRows(L) \cup HeadRows(L))
    <3> DEFINE u == strict.out
               v == Retained(strict.head)
    <3>1. u \in Seq(RuleRecord) /\ v \in Seq(RuleRecord) /\ Gives(u, StrictRows(L)) /\ Gives(v, HeadRows(L))
      BY <1>6, <1>11, <1>12
    <3>2. \A p \in StrictRows(L) : \A q \in HeadRows(L) : p.line < q.line
      BY <1>7
    <3>3. s.out = u \o v
      BY <2>2
    <3> HIDE DEF u, v
    <3> QED BY <3>1, <3>2, <3>3, GivesConcat
  <2>4. s \in Types(n + 1)
    BY <1>14, <2>1, <2>2, <2>3
  <2>5. StrictRows(M) = StrictRows(L) \cup HeadRows(L)
    BY <1>5, <1>7, <1>8, <1>16
  <2>6. M[n + 1].mark = "end" /\ n + 1 \in 1..n + 1 /\ Unbound(M, (n + 1) + 1, n + 1)
    <3>1. \A k \in (n + 1) + 1..n + 1 : FALSE
      BY <1>1
    <3> QED BY <1>1, <1>16, <3>1 DEF Unbound
  <2>7. StrictInv(M, s)
    BY <1>1, <1>14, <2>2, <2>3, <2>4, <2>5, <2>6 DEF StrictInv
  <2> QED BY <2>7 DEF M, n, s
<1>17. CASE x.mark \notin {"begin", "end"}
  <2>1. ~IsBound(M, n + 1)
    BY <1>1, <1>17 DEF IsBound
  <2>2. ASSUME NEW i \in Nat, i > 0, Unbound(L, i, n) PROVE Unbound(M, i, n + 1)
    <3>1. n \in 0..n /\ \A k \in i..n + 1 : k \in i..n \/ k = n + 1
      BY <1>1
    <3>2. Unbound(M, i, n)
      BY <1>3, <2>2, <3>1
    <3> QED BY <2>1, <3>1, <3>2 DEF Unbound
  <2>3. CASE strict.mode = "head"
    <3>1. s = [strict EXCEPT !.head = Append(@, n + 1)]
      BY <1>10, <1>17, <2>3 DEF StrictBlock, s
    <3>2. s.mode = "head" /\ s.head = Append(strict.head, n + 1) /\ s.out = strict.out
      BY <1>6, <2>3, <3>1
    <3>3. s \in Types(n + 1)
      BY <1>6, <1>13, <3>1
    <3>4. StrictRows(M) = StrictRows(L)
      BY <1>4, <1>5, <1>8, <1>17, <2>3
    <3>5. Unbound(M, 1, n + 1)
      BY <1>6, <2>2, <2>3
    <3>6. \A i : i \in ToSet(s.head) <=> i \in 1..n + 1
      <4>1. \A i : i \in 1..n + 1 <=> i \in 1..n \/ i = n + 1
        BY <1>1
      <4> QED BY <1>6, <1>13, <2>3, <3>2, <4>1
    <3>7. StrictInv(M, s)
      BY <1>1, <1>6, <1>13, <3>2, <3>3, <3>4, <3>5, <3>6 DEF StrictInv
    <3> QED BY <3>7 DEF M, n, s
  <2>4. CASE strict.mode # "head"
    <3>1. PICK b \in 1..n : L[b].mark = (IF strict.mode = "active" THEN "begin" ELSE "end") /\ Unbound(L, b + 1, n)
      BY <1>6, <2>4
    <3>2. /\ b \in 1..n + 1 /\ M[b].mark = (IF strict.mode = "active" THEN "begin" ELSE "end")
          /\ Unbound(M, b + 1, n + 1)
      <4>1. b \in 1..n + 1 /\ b + 1 \in Nat /\ b + 1 > 0 /\ M[b] = L[b]
        BY <1>1
      <4> QED BY <2>2, <3>1, <4>1
    <3>3. strict.head = <<>>
      BY <1>6, <2>4
    <3>4. CASE strict.mode = "active" /\ x.mark = "text"
      <4> DEFINE r == Rec(n + 1, stamp, FALSE)
      <4>1. s = [strict EXCEPT !.out = Append(@, r)]
        BY <3>4 DEF StrictBlock, s, stamp
      <4>2. r \in RuleRecord /\ r.line = n + 1 /\ r.time = stamp /\ r.incomplete = FALSE
        BY <1>1, <1>2 DEF Rec, RuleRecord
      <4>3. \A q \in RuleRecord : q.line = n + 1 /\ ~q.incomplete /\ TimeAt(M, n + 1, q.time) => q = r
        <5> TAKE q \in RuleRecord
        <5> HAVE q.line = n + 1 /\ ~q.incomplete /\ TimeAt(M, n + 1, q.time)
        <5>1. q.time = stamp
          <6>1. n + 1 \in Nat
            BY <1>1
          <6> QED BY <1>2, <6>1, TimesUnique
        <5> QED BY <5>1 DEF Rec, RuleRecord
      <4> HIDE DEF r
      <4>4. StrictRows(M) = StrictRows(L) \cup {r}
        <5>1. \A q \in RuleRecord : q \in StrictRows(M) <=> q \in StrictRows(L) \/ q = r
          BY <1>2, <1>4, <1>5, <3>4, <4>2, <4>3
        <5> QED BY <1>8, <4>2, <5>1
      <4>5. Append(strict.out, r) \in Seq(RuleRecord) /\ Gives(Append(strict.out, r), StrictRows(M))
        BY <1>6, <1>9, <1>12, <4>2, <4>4, GivesAppend
      <4>6. s.mode = strict.mode /\ s.head = <<>> /\ s.out = Append(strict.out, r)
        BY <1>6, <3>3, <4>1
      <4>7. s \in Types(n + 1)
        BY <1>6, <1>13, <4>1, <4>5
      <4>8. StrictInv(M, s)
        BY <1>1, <1>14, <2>4, <3>2, <4>5, <4>6, <4>7 DEF StrictInv
      <4> QED BY <4>8 DEF M, n, s
    <3>5. CASE ~(strict.mode = "active" /\ x.mark = "text")
      <4>1. s = strict
        BY <1>17, <2>4, <3>5 DEF StrictBlock, s
      <4>2. StrictRows(M) = StrictRows(L)
        BY <1>4, <1>5, <1>8, <1>17, <3>5
      <4>3. s \in Types(n + 1)
        BY <1>6, <1>13, <4>1
      <4>4. StrictInv(M, s)
        BY <1>1, <1>6, <2>4, <3>2, <4>1, <4>2, <4>3 DEF StrictInv
      <4> QED BY <4>4 DEF M, n, s
    <3> QED BY <3>4, <3>5
  <2> QED BY <2>3, <2>4
<1> QED BY <1>10, <1>15, <1>16, <1>17

\* Which lines of a block there are at the end, in the words of the property.
LEMMA StrictInBlock ==
    ASSUME lines \in Seq(Line), NEW i \in 1..Len(lines), lines[i].mark = "text"
    PROVE  LET Bounds == Marked("begin") \cup Marked("end")
               Earlier == {b \in Bounds : b < i}
           IN  (IF Earlier # {} THEN Max(Earlier) \in Marked("begin")
                ELSE Bounds = {} \/ Min(Bounds) \in Marked("end"))
               <=> AfterBegin(lines, i) \/ BeforeEnd(lines, i) \/ Unbound(lines, 1, Len(lines))
<1> DEFINE n == Len(lines)
           Bounds == Marked("begin") \cup Marked("end")
           Earlier == {b \in Bounds : b < i}
<1>1. n \in Nat /\ i \in Nat /\ i <= n /\ i \in 1..n
  OBVIOUS
<1>2. /\ \A b : b \in Bounds <=> b \in 1..n /\ IsBound(lines, b)
      /\ \A b \in 1..n : b \in Marked("begin") <=> lines[b].mark = "begin"
      /\ \A b \in 1..n : b \in Marked("end") <=> lines[b].mark = "end"
  BY DEF Marked, All, IsBound
<1> HIDE DEF Bounds
<1>3. \A b : b \in Earlier <=> b \in 1..i - 1 /\ IsBound(lines, b)
  <2>1. \A b : b \in 1..i - 1 <=> b \in 1..n /\ b < i
    BY <1>1
  <2> QED BY <1>2, <2>1
<1>4. Bounds \in SUBSET Nat /\ Earlier \in SUBSET Nat
  <2>1. Bounds \in SUBSET Nat
    BY <1>2
  <2>2. Earlier \in SUBSET Bounds
    OBVIOUS
  <2> HIDE DEF Earlier
  <2> QED BY <2>1, <2>2
<1> HIDE DEF Earlier, n
<1>5. CASE Earlier # {}
  <2>1. \A b \in Earlier : b <= i
    BY <1>1, <1>3
  <2>2. PICK b \in Earlier : \A y \in Earlier : y <= b
    BY <1>1, <1>4, <1>5, <2>1, GreatestNumber
  <2>3. Max(Earlier) = b /\ b \in 1..i - 1 /\ IsBound(lines, b) /\ b \in 1..n
    <3>1. Max(Earlier) = b
      BY <1>4, <2>2, MaxIs
    <3>2. b \in 1..i - 1 /\ IsBound(lines, b)
      BY <1>3, <2>2
    <3> QED BY <1>1, <3>1, <3>2
  <2>4. Unbound(lines, b + 1, i - 1)
    <3>1. \A k \in b + 1..i - 1 : k \in 1..i - 1 /\ ~(k <= b)
      BY <1>1, <2>3
    <3> QED BY <1>3, <2>2, <3>1 DEF Unbound
  <2>5. AfterBegin(lines, i) <=> lines[b].mark = "begin"
    <3>1. ASSUME NEW c \in 1..i - 1, lines[c].mark = "begin", Unbound(lines, c + 1, i - 1) PROVE c = b
      <4>1. IsBound(lines, c)
        BY <3>1 DEF IsBound
      <4>2. b \notin c + 1..i - 1 /\ c \notin b + 1..i - 1
        BY <2>3, <2>4, <3>1, <4>1 DEF Unbound
      <4> QED BY <1>1, <2>3, <4>2
    <3> QED BY <2>3, <2>4, <3>1 DEF AfterBegin
  <2>6. ~BeforeEnd(lines, i)
    BY <2>3 DEF BeforeEnd, Unbound
  <2>7. ~Unbound(lines, 1, n)
    BY <2>3 DEF Unbound
  <2> QED BY <1>2, <1>5, <2>3, <2>5, <2>6, <2>7 DEF Earlier, Bounds, n
<1>6. CASE Earlier = {}
  <2>1. Unbound(lines, 1, i - 1)
    BY <1>3, <1>6 DEF Unbound
  <2>2. ~AfterBegin(lines, i)
    BY <2>1 DEF AfterBegin, Unbound, IsBound
  <2>3. Unbound(lines, 1, n) <=> Bounds = {}
    BY <1>2 DEF Unbound
  <2>4. ASSUME Bounds # {} PROVE BeforeEnd(lines, i) <=> Min(Bounds) \in Marked("end")
    <3>1. PICK b \in Bounds : \A y \in Bounds : b <= y
      BY <1>4, <2>4, LeastNumber
    <3>2. Min(Bounds) = b /\ b \in 1..n /\ IsBound(lines, b)
      <4>1. Min(Bounds) = b
        BY <1>4, <3>1, MinIs
      <4> QED BY <1>2, <3>1, <4>1
    <3>3. b \in i + 1..n
      <4>1. ~IsBound(lines, i)
        BY DEF IsBound
      <4>2. b \notin 1..i - 1 /\ b # i
        BY <2>1, <3>2, <4>1 DEF Unbound
      <4> QED BY <1>1, <3>2, <4>2
    <3>4. Unbound(lines, i + 1, b - 1)
      <4>1. \A k \in i + 1..b - 1 : k \in 1..n /\ ~(b <= k)
        BY <1>1, <3>2
      <4> QED BY <1>2, <3>1, <4>1 DEF Unbound
    <3>5. ASSUME NEW e \in i + 1..n, lines[e].mark = "end", Unbound(lines, i + 1, e - 1) PROVE e = b
      <4>1. IsBound(lines, e)
        BY <3>5 DEF IsBound
      <4>2. e \notin i + 1..b - 1 /\ b \notin i + 1..e - 1
        BY <3>2, <3>4, <3>5, <4>1 DEF Unbound
      <4> QED BY <1>1, <3>3, <4>2
    <3>6. BeforeEnd(lines, i) <=> lines[b].mark = "end"
      BY <2>1, <3>3, <3>4, <3>5 DEF BeforeEnd, n
    <3> QED BY <1>2, <3>2, <3>6
  <2>5. BeforeEnd(lines, i) => Bounds # {}
    <3>1. \A e \in i + 1..n : e \in 1..n
      BY <1>1
    <3>2. BeforeEnd(lines, i) => \E e \in 1..n : IsBound(lines, e)
      BY <3>1 DEF BeforeEnd, IsBound, n
    <3> QED BY <1>2, <3>2
  <2> QED BY <1>6, <2>2, <2>3, <2>4, <2>5 DEF Earlier, Bounds, n
<1> QED BY <1>5, <1>6

LEMMA StrictGives ==
    ASSUME lines \in Seq(Line), Gives(strict.out, StrictRows(lines) \cup HeadRows(lines))
    PROVE  StrictBlocksAreConfirmed
<1> DEFINE n == Len(lines)
           Bounds == Marked("begin") \cup Marked("end")
           Earlier(i) == {b \in Bounds : b < i}
           InBlock(i) == IF Earlier(i) # {} THEN Max(Earlier(i)) \in Marked("begin")
                         ELSE Bounds = {} \/ Min(Bounds) \in Marked("end")
           Row(i) == Rec(i, TimeOf(i), FALSE)
           Whole == {Row(i) : i \in {j \in Marked("text") : InBlock(j)}}
<1>1. n \in Nat /\ \A i : i \in Marked("text") <=> i \in 1..n /\ lines[i].mark = "text"
  BY DEF Marked, All
<1>2. \A i \in Marked("text") : InBlock(i) <=>
         AfterBegin(lines, i) \/ BeforeEnd(lines, i) \/ Unbound(lines, 1, n)
  BY <1>1, StrictInBlock
<1> HIDE DEF InBlock, n
<1>3. \A i \in Marked("text") : lines[i].mark # "hidden" /\ i \in 1..n /\ i \in 1..Len(lines)
  BY <1>1 DEF n
<1>4. ASSUME NEW i \in Marked("text")
      PROVE  /\ Row(i) \in RuleRecord /\ Row(i).line = i /\ ~Row(i).incomplete
             /\ Row(i).time = TimeOf(i) /\ TimeAt(lines, i, Row(i).time)
  <2>1. TimeOf(i) \in Int /\ TimeAt(lines, i, TimeOf(i)) /\ i \in Nat
    BY <1>3, TimeOfIs
  <2> QED BY <2>1 DEF Rec, RuleRecord
<1>5. ASSUME NEW r \in RuleRecord, r.line \in Marked("text"), ~r.incomplete, TimeAt(lines, r.line, r.time)
      PROVE  r = Row(r.line)
  <2>1. r.time = TimeOf(r.line)
    BY <1>3, <1>5, TimeOfIs
  <2> QED BY <1>5, <2>1 DEF Rec, RuleRecord
<1>6. \A r \in RuleRecord : r \in StrictRows(lines) \cup HeadRows(lines) <=>
         /\ r.line \in Marked("text") /\ ~r.incomplete /\ TimeAt(lines, r.line, r.time)
         /\ InBlock(r.line)
  <2> TAKE r \in RuleRecord
  <2>1. r \in StrictRows(lines) <=>
          /\ r.line \in Marked("text") /\ ~r.incomplete /\ TimeAt(lines, r.line, r.time)
          /\ AfterBegin(lines, r.line) \/ BeforeEnd(lines, r.line)
    BY <1>1 DEF StrictRows, n
  <2>2. r \in HeadRows(lines) <=>
          /\ r.line \in Marked("text") /\ ~r.incomplete /\ TimeAt(lines, r.line, r.time)
          /\ Unbound(lines, 1, n)
    <3>1. ASSUME Unbound(lines, 1, n), r.line \in 1..n
          PROVE  lines[r.line].mark # "hidden" <=> lines[r.line].mark = "text"
      <4>1. lines[r.line] \in Line
        BY <3>1 DEF n
      <4>2. ~IsBound(lines, r.line)
        BY <3>1 DEF Unbound
      <4> QED BY <4>1, <4>2 DEF Line, IsBound
    <3> QED BY <1>1, <3>1 DEF HeadRows, TimedRows, n
  <2> QED BY <1>2, <2>1, <2>2
<1> HIDE DEF Row
<1>7. StrictRows(lines) \cup HeadRows(lines) = Whole
  <2>1. StrictRows(lines) \cup HeadRows(lines) \subseteq RuleRecord
    BY DEF StrictRows, HeadRows, TimedRows
  <2>2. ASSUME NEW r \in StrictRows(lines) \cup HeadRows(lines) PROVE r \in Whole
    <3>1. r.line \in Marked("text") /\ InBlock(r.line) /\ r = Row(r.line)
      BY <1>5, <1>6, <2>1
    <3> QED BY <3>1
  <2>3. ASSUME NEW i \in Marked("text"), InBlock(i) PROVE Row(i) \in StrictRows(lines) \cup HeadRows(lines)
    BY <1>4, <1>6, <2>3
  <2> QED BY <2>2, <2>3
<1>8. Gives(strict.out, Whole)
  BY <1>7
<1> QED BY <1>8 DEF StrictBlocksAreConfirmed, InBlock, Row

\* The head of a file without any boundary is kept at its end.
LEMMA StrictEnds ==
    ASSUME NEW L \in Seq(Line), lines = L, StampsInv(L, stamps), StrictInv(L, strict)
    PROVE  /\ strict.out \o Retained(strict.head) \in Seq(RuleRecord)
           /\ Gives(strict.out \o Retained(strict.head), StrictRows(L) \cup HeadRows(L))
<1> DEFINE u == strict.out
           v == Retained(strict.head)
<1>1. u \in Seq(RuleRecord) /\ strict.head \in Seq(1..Len(L)) /\ Increasing(strict.head)
  BY DEF StrictInv
<1>2. Gives(u, StrictRows(L))
  BY DEF StrictInv
<1>3. v \in Seq(RuleRecord) /\ Gives(v, TimedRows(L, ToSet(strict.head)))
  BY <1>1, RetainedFacts
<1>4. /\ TimedRows(L, ToSet(strict.head)) = HeadRows(L)
      /\ \A r \in StrictRows(L) : \A q \in HeadRows(L) : r.line < q.line
  BY HeadFacts
<1> HIDE DEF u, v
<1>5. u \o v \in Seq(RuleRecord) /\ Gives(u \o v, StrictRows(L) \cup HeadRows(L))
  BY <1>1, <1>2, <1>3, <1>4, GivesConcat
<1> QED BY <1>5 DEF u, v

-----------------------------------------------------------------------------
(* match_block: segments between two ends *)

\* The last end up to line i, 0 when there is none.
LastEnd(L, i, E) ==
    /\ E \in 0..i /\ (E # 0 => L[E].mark = "end")
    /\ \A j \in E + 1..i : L[j].mark # "end"

HasBegin(L, E, m) == \E b \in E + 1..m : L[b].mark = "begin"

FirstBegin(L, E, m, b) ==
    b \in E + 1..m /\ L[b].mark = "begin" /\ \A j \in E + 1..b - 1 : L[j].mark # "begin"

FirstStamp(L, E, m, j) ==
    j \in E + 1..m /\ L[j].stamp # "none" /\ \A k \in E + 1..j - 1 : L[k].stamp = "none"

\* The one time of the segment E + 1..m.
BlockTimeAt(L, E, m, t) ==
    IF HasBegin(L, E, m) THEN \E b \in E + 1..m : FirstBegin(L, E, m, b) /\ TimeAt(L, b, t)
    ELSE \/ \E j \in E + 1..m : FirstStamp(L, E, m, j) /\ TimeAt(L, j, t)
         \/ (\A j \in E + 1..m : L[j].stamp = "none") /\ ValidAt(L, E, t)

InSegment(L, E, m, i) ==
    i \in E + 1..m /\ L[i].mark = "text" /\ (HasBegin(L, E, m) => HasBegin(L, E, i - 1))

SegmentRows(L, E, m, inc) ==
    {r \in RuleRecord : /\ InSegment(L, E, m, r.line) /\ r.incomplete = inc
                        /\ BlockTimeAt(L, E, m, r.time)}

ClosedRows(L) ==
    {r \in RuleRecord : \E T \in 1..Len(L) : L[T].mark = "end" /\ \E E \in 0..T - 1 :
                            LastEnd(L, T - 1, E) /\ r \in SegmentRows(L, E, T - 1, FALSE)}

OpenRows(L) ==
    {r \in RuleRecord : \E E \in 0..Len(L) : /\ LastEnd(L, Len(L), E) /\ HasBegin(L, E, Len(L))
                                             /\ r \in SegmentRows(L, E, Len(L), TRUE)}

IsBody(L, i) == L[i].mark \in {"text", "hidden"}

LegacyInv(L, s) ==
    /\ s \in [explicit : BOOLEAN, anchor : Int, segment : Int,
              buffer : Seq(1..Len(L)), out : Seq(RuleRecord)]
    /\ Gives(s.out, ClosedRows(L)) /\ Increasing(s.buffer)
    /\ \E E \in 0..Len(L) :
         /\ LastEnd(L, Len(L), E) /\ ValidAt(L, E, s.segment)
         /\ s.explicit => \E b \in E + 1..Len(L) :
                            /\ FirstBegin(L, E, Len(L), b) /\ TimeAt(L, b, s.anchor)
                            /\ \A i : i \in ToSet(s.buffer) <=> i \in b + 1..Len(L) /\ IsBody(L, i)
         /\ ~s.explicit => /\ ~HasBegin(L, E, Len(L))
                           /\ \A i : i \in ToSet(s.buffer) <=> i \in E + 1..Len(L)

LEMMA LastEndUnique ==
    ASSUME NEW L, NEW i \in Nat, NEW E, NEW F, LastEnd(L, i, E), LastEnd(L, i, F)
    PROVE  E = F
<1>1. E \in 0..i /\ F \in 0..i
  BY DEF LastEnd
<1>2. ~(E < F)
  <2>1. E < F => F \in E + 1..i /\ F # 0
    BY <1>1
  <2> QED BY <2>1 DEF LastEnd
<1>3. ~(F < E)
  <2>1. F < E => E \in F + 1..i /\ E # 0
    BY <1>1
  <2> QED BY <2>1 DEF LastEnd
<1> QED BY <1>1, <1>2, <1>3

\* A segment has one time, and it is one.
LEMMA BlockTimeUnique ==
    ASSUME NEW L \in Seq(Line), NEW m \in 0..Len(L), NEW E \in 0..m, NEW t, NEW u,
           BlockTimeAt(L, E, m, t), BlockTimeAt(L, E, m, u)
    PROVE  t = u /\ t \in Int
<1>1. /\ Len(L) \in Nat /\ E \in Nat /\ m \in Nat
      /\ \A j \in E + 1..m : j \in Nat /\ j \in 1..Len(L)
  OBVIOUS
<1>2. CASE HasBegin(L, E, m)
  <2>1. PICK b \in E + 1..m : FirstBegin(L, E, m, b) /\ TimeAt(L, b, t)
    BY <1>2 DEF BlockTimeAt
  <2>2. PICK c \in E + 1..m : FirstBegin(L, E, m, c) /\ TimeAt(L, c, u)
    BY <1>2 DEF BlockTimeAt
  <2>3. b = c
    <3>1. b < c => b \in E + 1..c - 1
      BY <1>1
    <3>2. c < b => c \in E + 1..b - 1
      BY <1>1
    <3>3. ~(b < c) /\ ~(c < b)
      BY <2>1, <2>2, <3>1, <3>2 DEF FirstBegin
    <3> QED BY <1>1, <3>3
  <2> QED BY <1>1, <2>1, <2>2, <2>3, TimesUnique, TimesAreInts
<1>3. CASE ~HasBegin(L, E, m)
  <2>1. CASE \A j \in E + 1..m : L[j].stamp = "none"
    <3>1. ValidAt(L, E, t) /\ ValidAt(L, E, u)
      BY <1>3, <2>1 DEF BlockTimeAt, FirstStamp
    <3>2. t = u
      BY <1>1, <3>1, TimesUnique
    <3>3. t \in Int
      BY <1>1, <3>1 DEF ValidAt
    <3> QED BY <3>2, <3>3
  <2>2. CASE ~\A j \in E + 1..m : L[j].stamp = "none"
    <3>1. PICK b \in E + 1..m : FirstStamp(L, E, m, b) /\ TimeAt(L, b, t)
      BY <1>3, <2>2 DEF BlockTimeAt
    <3>2. PICK c \in E + 1..m : FirstStamp(L, E, m, c) /\ TimeAt(L, c, u)
      BY <1>3, <2>2 DEF BlockTimeAt
    <3>3. b = c
      <4>1. b < c => b \in E + 1..c - 1
        BY <1>1
      <4>2. c < b => c \in E + 1..b - 1
        BY <1>1
      <4>3. ~(b < c) /\ ~(c < b)
        BY <3>1, <3>2, <4>1, <4>2 DEF FirstStamp
      <4> QED BY <1>1, <4>3
    <3> QED BY <1>1, <3>1, <3>2, <3>3, TimesUnique, TimesAreInts
  <2> QED BY <2>1, <2>2
<1> QED BY <1>2, <1>3

\* What is known of a segment does not change when more lines are read.
LEMMA SegmentsStay ==
    ASSUME NEW L \in Seq(Line), NEW x \in Line, NEW m \in 0..Len(L), NEW E \in 0..m
    PROVE  /\ LastEnd(Append(L, x), m, E) <=> LastEnd(L, m, E)
           /\ HasBegin(Append(L, x), E, m) <=> HasBegin(L, E, m)
           /\ \A b \in E + 1..m : FirstBegin(Append(L, x), E, m, b) <=> FirstBegin(L, E, m, b)
           /\ \A inc : SegmentRows(Append(L, x), E, m, inc) = SegmentRows(L, E, m, inc)
<1> DEFINE M == Append(L, x)
           n == Len(L)
<1>1. n \in Nat /\ m \in Nat /\ E \in Nat /\ m <= n /\ E <= m /\ \A i \in 1..n : M[i] = L[i]
  BY AppendLine
<1>2. /\ \A i \in 0..n : \A v : ValidAt(M, i, v) <=> ValidAt(L, i, v)
      /\ \A i \in 1..n : \A t : TimeAt(M, i, t) <=> TimeAt(L, i, t)
  BY TimesStay
<1> HIDE DEF M, n
<1>3. (\A j \in E + 1..m : j \in 1..n) /\ (E # 0 => E \in 1..n) /\ E \in 0..n
  BY <1>1
<1>4. \A j \in E + 1..m : M[j] = L[j] /\ \A t : TimeAt(M, j, t) <=> TimeAt(L, j, t)
  BY <1>1, <1>2, <1>3
<1>5. LastEnd(M, m, E) <=> LastEnd(L, m, E)
  BY <1>1, <1>3, <1>4 DEF LastEnd
<1>6. \A k \in 0..m : HasBegin(M, E, k) <=> HasBegin(L, E, k)
  <2> TAKE k \in 0..m
  <2>1. \A j \in E + 1..k : j \in E + 1..m
    BY <1>1
  <2> QED BY <1>4, <2>1 DEF HasBegin
<1>7. \A b \in E + 1..m : \A j \in E + 1..b - 1 : j \in E + 1..m
  BY <1>1
<1>8. \A b \in E + 1..m : FirstBegin(M, E, m, b) <=> FirstBegin(L, E, m, b)
  BY <1>4, <1>7 DEF FirstBegin
<1>9. \A b \in E + 1..m : FirstStamp(M, E, m, b) <=> FirstStamp(L, E, m, b)
  BY <1>4, <1>7 DEF FirstStamp
<1>10. m \in 0..m /\ \A i \in E + 1..m : i - 1 \in 0..m
  BY <1>1
<1>11. \A t : BlockTimeAt(M, E, m, t) <=> BlockTimeAt(L, E, m, t)
  <2> TAKE t
  <2>1. HasBegin(M, E, m) <=> HasBegin(L, E, m)
    BY <1>6, <1>10
  <2>2. ValidAt(M, E, t) <=> ValidAt(L, E, t)
    BY <1>2, <1>3
  <2> QED BY <1>4, <1>8, <1>9, <2>1, <2>2 DEF BlockTimeAt
<1>12. \A i : InSegment(M, E, m, i) <=> InSegment(L, E, m, i)
  <2> TAKE i
  <2>1. i \in E + 1..m => /\ HasBegin(M, E, m) <=> HasBegin(L, E, m)
                          /\ HasBegin(M, E, i - 1) <=> HasBegin(L, E, i - 1)
    BY <1>6, <1>10
  <2> QED BY <1>4, <2>1 DEF InSegment
<1>13. \A inc : SegmentRows(M, E, m, inc) = SegmentRows(L, E, m, inc)
  BY <1>11, <1>12 DEF SegmentRows
<1> QED BY <1>5, <1>6, <1>8, <1>10, <1>13 DEF M

\* Only an end closes a segment.
LEMMA ClosedRowsGrow ==
    ASSUME NEW L \in Seq(Line), NEW x \in Line, NEW E \in 0..Len(L), LastEnd(L, Len(L), E)
    PROVE  ClosedRows(Append(L, x)) =
             ClosedRows(L) \cup (IF x.mark = "end" THEN SegmentRows(L, E, Len(L), FALSE) ELSE {})
<1> DEFINE M == Append(L, x)
           n == Len(L)
           New == IF x.mark = "end" THEN SegmentRows(L, E, n, FALSE) ELSE {}
<1>1. n \in Nat /\ Len(M) = n + 1 /\ M[n + 1] = x /\ \A i \in 1..n : M[i] = L[i]
  BY AppendLine
<1>2. \A m \in 0..n : \A F \in 0..m :
         /\ LastEnd(M, m, F) <=> LastEnd(L, m, F)
         /\ SegmentRows(M, F, m, FALSE) = SegmentRows(L, F, m, FALSE)
  BY SegmentsStay
<1>3. LastEnd(L, n, E) /\ E \in 0..n
  OBVIOUS
<1> HIDE DEF M, n
<1>4. \A r : r \in ClosedRows(M) <=> r \in RuleRecord /\ \E T \in 1..n + 1 : M[T].mark = "end"
               /\ \E F \in 0..T - 1 : LastEnd(M, T - 1, F) /\ r \in SegmentRows(M, F, T - 1, FALSE)
  BY <1>1 DEF ClosedRows
<1>5. \A r : r \in ClosedRows(L) <=> r \in RuleRecord /\ \E T \in 1..n : L[T].mark = "end"
               /\ \E F \in 0..T - 1 : LastEnd(L, T - 1, F) /\ r \in SegmentRows(L, F, T - 1, FALSE)
  BY DEF ClosedRows, n
<1>6. /\ \A T \in 1..n : T \in 1..n + 1 /\ T - 1 \in 0..n
      /\ \A T \in 1..n + 1 : T \in 1..n \/ T = n + 1
      /\ n + 1 \in 1..n + 1 /\ n + 1 - 1 = n /\ n \in 0..n
  BY <1>1
<1>7. ASSUME NEW r, r \in ClosedRows(M) PROVE r \in ClosedRows(L) \/ r \in New
  <2>1. PICK T \in 1..n + 1 : M[T].mark = "end"
               /\ \E F \in 0..T - 1 : LastEnd(M, T - 1, F) /\ r \in SegmentRows(M, F, T - 1, FALSE)
    BY <1>4, <1>7
  <2>2. PICK F \in 0..T - 1 : LastEnd(M, T - 1, F) /\ r \in SegmentRows(M, F, T - 1, FALSE)
    BY <2>1
  <2>3. CASE T \in 1..n
    <3>1. LastEnd(L, T - 1, F) /\ r \in SegmentRows(L, F, T - 1, FALSE) /\ L[T].mark = "end"
      BY <1>1, <1>2, <1>6, <2>1, <2>2, <2>3
    <3> QED BY <1>4, <1>5, <1>7, <2>3, <3>1
  <2>4. CASE T = n + 1
    <3>1. T - 1 = n /\ F \in 0..n
      BY <1>6, <2>4
    <3>2. LastEnd(L, n, F) /\ r \in SegmentRows(L, F, n, FALSE)
      BY <1>2, <1>6, <2>2, <3>1
    <3>3. F = E
      BY <1>1, <1>3, <3>2, LastEndUnique
    <3> QED BY <1>1, <2>1, <2>4, <3>2, <3>3
  <2> QED BY <1>6, <2>3, <2>4
<1>8. ASSUME NEW r \in ClosedRows(L) PROVE r \in ClosedRows(M)
  <2>1. PICK T \in 1..n : L[T].mark = "end"
               /\ \E F \in 0..T - 1 : LastEnd(L, T - 1, F) /\ r \in SegmentRows(L, F, T - 1, FALSE)
    BY <1>5
  <2>2. PICK F \in 0..T - 1 : LastEnd(L, T - 1, F) /\ r \in SegmentRows(L, F, T - 1, FALSE)
    BY <2>1
  <2>3. LastEnd(M, T - 1, F) /\ r \in SegmentRows(M, F, T - 1, FALSE) /\ M[T].mark = "end" /\ T \in 1..n + 1
    BY <1>1, <1>2, <1>6, <2>1, <2>2
  <2> QED BY <1>4, <1>5, <2>3
<1>9. ASSUME NEW r \in New PROVE r \in ClosedRows(M)
  <2>1. x.mark = "end" /\ r \in SegmentRows(L, E, n, FALSE)
    BY <1>9
  <2>2. r \in RuleRecord
    BY <2>1 DEF SegmentRows
  <2>3. LastEnd(M, n, E) /\ r \in SegmentRows(M, E, n, FALSE) /\ M[n + 1].mark = "end"
    BY <1>1, <1>2, <1>3, <1>6, <2>1
  <2>4. /\ E \in 0..(n + 1) - 1 /\ LastEnd(M, (n + 1) - 1, E)
        /\ r \in SegmentRows(M, E, (n + 1) - 1, FALSE)
    <3>1. (n + 1) - 1 = n
      BY <1>1
    <3> QED BY <1>3, <2>3, <3>1, Zenon
  <2> QED BY <1>4, <1>6, <2>2, <2>3, <2>4
<1> HIDE DEF New
<1>10. ClosedRows(M) = ClosedRows(L) \cup New
  BY <1>7, <1>8, <1>9
<1> QED BY <1>10 DEF M, n, New

\* The rows of a closed segment come before the last end.
LEMMA ClosedBefore ==
    ASSUME NEW L \in Seq(Line), NEW E \in 0..Len(L), LastEnd(L, Len(L), E)
    PROVE  /\ ClosedRows(L) \subseteq RuleRecord
           /\ \A r \in ClosedRows(L) : r.line < E
           /\ \A inc : \A r \in SegmentRows(L, E, Len(L), inc) : r \in RuleRecord /\ E < r.line
<1>1. Len(L) \in Nat /\ E \in Nat
  OBVIOUS
<1>2. ASSUME NEW r \in ClosedRows(L) PROVE r.line < E
  <2>1. PICK T \in 1..Len(L) : L[T].mark = "end" /\ \E F \in 0..T - 1 :
                            LastEnd(L, T - 1, F) /\ r \in SegmentRows(L, F, T - 1, FALSE)
    BY DEF ClosedRows
  <2>2. PICK F \in 0..T - 1 : r \in SegmentRows(L, F, T - 1, FALSE)
    BY <2>1
  <2>3. r.line \in F + 1..T - 1
    BY <2>2 DEF SegmentRows, InSegment
  <2>4. T <= E
    <3>1. T \notin E + 1..Len(L)
      BY <2>1 DEF LastEnd
    <3> QED BY <1>1, <3>1
  <2> QED BY <1>1, <2>3, <2>4
<1>3. ASSUME NEW inc, NEW r \in SegmentRows(L, E, Len(L), inc) PROVE r \in RuleRecord /\ E < r.line
  <2>1. r \in RuleRecord /\ r.line \in E + 1..Len(L)
    BY DEF SegmentRows, InSegment
  <2> QED BY <1>1, <2>1
<1> QED BY <1>2, <1>3 DEF ClosedRows

\* flush finds the one time of the segment.
LEMMA BlockTimeIs ==
    ASSUME NEW L \in Seq(Line), lines = L, LegacyInv(L, legacy),
           NEW E \in 0..Len(L), LastEnd(L, Len(L), E)
    PROVE  BlockTimeAt(L, E, Len(L), BlockTime) /\ BlockTime \in Int
<1> DEFINE n == Len(L)
           stamped == {k \in DOMAIN legacy.buffer : L[legacy.buffer[k]].stamp # "none"}
<1>1. n \in Nat /\ n \in 0..n /\ E \in Nat /\ E \in 0..n
  OBVIOUS
<1> HIDE DEF n
<1>2. /\ ValidAt(L, E, legacy.segment)
      /\ legacy.explicit => \E b \in E + 1..n : FirstBegin(L, E, n, b) /\ TimeAt(L, b, legacy.anchor)
      /\ ~legacy.explicit => /\ ~HasBegin(L, E, n)
                             /\ \A i : i \in ToSet(legacy.buffer) <=> i \in E + 1..n
  <2>1. PICK F \in 0..n :
         /\ LastEnd(L, n, F) /\ ValidAt(L, F, legacy.segment)
         /\ legacy.explicit => \E b \in F + 1..n : FirstBegin(L, F, n, b) /\ TimeAt(L, b, legacy.anchor)
         /\ ~legacy.explicit => /\ ~HasBegin(L, F, n)
                                /\ \A i : i \in ToSet(legacy.buffer) <=> i \in F + 1..n
    BY DEF LegacyInv, n
  <2>2. F = E
    <3>1. LastEnd(L, n, E)
      BY DEF n
    <3> QED BY <1>1, <2>1, <3>1, LastEndUnique
  <2> QED BY <2>1, <2>2
<1>3. legacy.buffer \in Seq(1..n) /\ Increasing(legacy.buffer)
  BY DEF LegacyInv, n
<1>4. BlockTime = IF legacy.explicit THEN legacy.anchor
                  ELSE IF stamped = {} THEN legacy.segment
                  ELSE ParsedStamp(L[legacy.buffer[Min(stamped)]], legacy.buffer[Min(stamped)])
  BY DEF BlockTime
<1>5. BlockTimeAt(L, E, n, BlockTime)
  <2>1. CASE legacy.explicit
    <3>1. PICK b \in E + 1..n : FirstBegin(L, E, n, b) /\ TimeAt(L, b, legacy.anchor)
      BY <1>2, <2>1
    <3>2. HasBegin(L, E, n)
      BY <3>1 DEF HasBegin, FirstBegin
    <3> QED BY <1>4, <2>1, <3>1, <3>2 DEF BlockTimeAt
  <2>2. CASE ~legacy.explicit
    <3>1. /\ Len(legacy.buffer) \in Nat /\ DOMAIN legacy.buffer = 1..Len(legacy.buffer)
          /\ \A k \in DOMAIN legacy.buffer : legacy.buffer[k] \in E + 1..n
          /\ \A j \in E + 1..n : \E k \in DOMAIN legacy.buffer : legacy.buffer[k] = j
      <4>1. Len(legacy.buffer) \in Nat /\ DOMAIN legacy.buffer = 1..Len(legacy.buffer)
        BY <1>3
      <4>2. \A k \in DOMAIN legacy.buffer : legacy.buffer[k] \in E + 1..n
        BY <1>2, <2>2 DEF ToSet
      <4>3. \A j \in E + 1..n : \E k \in DOMAIN legacy.buffer : legacy.buffer[k] = j
        BY <1>2, <2>2 DEF ToSet
      <4> QED BY <4>1, <4>2, <4>3
    <3>2. stamped \in SUBSET Nat
      BY <3>1
    <3>3. CASE stamped = {}
      <4>1. ASSUME NEW j \in E + 1..n PROVE L[j].stamp = "none"
        <5>1. PICK k \in DOMAIN legacy.buffer : legacy.buffer[k] = j
          BY <3>1
        <5>2. k \notin stamped
          BY <3>3
        <5> QED BY <5>1, <5>2
      <4>2. BlockTime = legacy.segment
        BY <1>4, <2>2, <3>3
      <4> QED BY <1>2, <2>2, <4>1, <4>2 DEF BlockTimeAt
    <3>4. CASE stamped # {}
      <4>1. PICK k \in stamped : \A y \in stamped : k <= y
        <5> HIDE DEF stamped
        <5> QED BY <3>2, <3>4, LeastNumber
      <4>2. Min(stamped) = k
        <5> HIDE DEF stamped
        <5> QED BY <3>2, <4>1, MinIs
      <4> DEFINE j == legacy.buffer[k]
      <4>3. j \in E + 1..n /\ L[j].stamp # "none"
        BY <3>1
      <4>4. ASSUME NEW i \in E + 1..j - 1 PROVE L[i].stamp = "none"
        <5>1. i \in E + 1..n /\ i < j
          BY <1>1, <4>3
        <5>2. PICK q \in DOMAIN legacy.buffer : legacy.buffer[q] = i
          BY <3>1, <5>1
        <5>3. SUFFICES ASSUME L[i].stamp # "none" PROVE FALSE
          OBVIOUS
        <5>4. q \in stamped
          BY <5>2, <5>3
        <5>5. k <= q /\ k \in Nat /\ q \in Nat /\ k \in DOMAIN legacy.buffer
          BY <3>2, <4>1, <5>4
        <5>6. k # q /\ k < q
          BY <5>1, <5>2, <5>5
        <5>7. j < i
          BY <1>3, <5>2, <5>5, <5>6 DEF Increasing
        <5> QED BY <1>1, <4>3, <5>1, <5>7
      <4>5. BlockTime = ParsedStamp(L[j], j)
        BY <1>4, <2>2, <3>4, <4>2
      <4> HIDE DEF j, stamped
      <4>6. FirstStamp(L, E, n, j) /\ TimeAt(L, j, BlockTime)
        BY <4>3, <4>4, <4>5 DEF FirstStamp, TimeAt
      <4> QED BY <1>2, <2>2, <4>3, <4>6 DEF BlockTimeAt
    <3> HIDE DEF stamped
    <3> QED BY <3>3, <3>4
  <2> QED BY <2>1, <2>2
<1>6. BlockTime \in Int
  BY <1>1, <1>5, BlockTimeUnique DEF n
<1> QED BY <1>5, <1>6 DEF n

\* flush gives the rows of the segment that is read.
LEMMA FlushedGives ==
    ASSUME NEW L \in Seq(Line), lines = L, LegacyInv(L, legacy),
           NEW E \in 0..Len(L), LastEnd(L, Len(L), E), NEW inc \in BOOLEAN
    PROVE  /\ Flushed(inc) \in Seq(RuleRecord)
           /\ Gives(Flushed(inc), ClosedRows(L) \cup SegmentRows(L, E, Len(L), inc))
<1> DEFINE n == Len(L)
           s == Shows(legacy.buffer)
           time == BlockTime
           times == [k \in DOMAIN s |-> time]
           cut == RecordsOf(s, times, inc)
           out == legacy.out
<1>1. n \in Nat /\ E \in Nat /\ n \in 0..n /\ E \in 0..n
  OBVIOUS
<1>2. BlockTimeAt(L, E, n, time) /\ time \in Int
  BY BlockTimeIs
<1>3. out \in Seq(RuleRecord) /\ Gives(out, ClosedRows(L)) /\ legacy.buffer \in Seq(1..n) /\ Increasing(legacy.buffer)
  BY DEF LegacyInv
<1>4. legacy.buffer \in Seq(Nat)
  <2>1. legacy.buffer \in Seq(1..n)
    BY <1>3
  <2> QED BY <2>1
<1>5. Flushed(inc) = out \o cut
  BY DEF Flushed, RecordsOf
<1>6. /\ s \in Seq(Nat) /\ Increasing(s)
      /\ \A i : i \in ToSet(s) <=> i \in ToSet(legacy.buffer) /\ L[i].mark # "hidden"
  BY <1>3, <1>4, ShowsFacts
<1> HIDE DEF s, time, n
\* The lines that are shown are those of the segment.
<1>7. \A i : i \in ToSet(s) <=> InSegment(L, E, n, i)
  <2> TAKE i
  <2>1. \A j \in E + 1..n : L[j].mark \in {"text", "hidden", "begin"}
    <3> TAKE j \in E + 1..n
    <3>1. L[j] \in Line /\ L[j].mark # "end"
      <4>1. j \in 1..Len(L)
        BY <1>1 DEF n
      <4>2. L[j].mark # "end"
        BY DEF LastEnd, n
      <4> QED BY <4>1, <4>2
    <3> QED BY <3>1 DEF Line
  <2>2. PICK F \in 0..n :
         /\ LastEnd(L, n, F)
         /\ legacy.explicit => \E b \in F + 1..n :
               FirstBegin(L, F, n, b) /\ \A j : j \in ToSet(legacy.buffer) <=> j \in b + 1..n /\ IsBody(L, j)
         /\ ~legacy.explicit => /\ ~HasBegin(L, F, n)
                                /\ \A j : j \in ToSet(legacy.buffer) <=> j \in F + 1..n
    BY DEF LegacyInv, n
  <2>3. F = E
    <3>1. LastEnd(L, n, E)
      BY DEF n
    <3> QED BY <1>1, <2>2, <3>1, LastEndUnique
  <2>4. CASE legacy.explicit
    <3>1. PICK b \in E + 1..n :
            FirstBegin(L, E, n, b) /\ \A j : j \in ToSet(legacy.buffer) <=> j \in b + 1..n /\ IsBody(L, j)
      BY <2>2, <2>3, <2>4
    <3>2. L[b].mark = "begin" /\ \A j \in E + 1..b - 1 : L[j].mark # "begin"
      BY <3>1 DEF FirstBegin
    <3>3. HasBegin(L, E, n)
      BY <3>2 DEF HasBegin
    <3>4. ASSUME i \in E + 1..n PROVE HasBegin(L, E, i - 1) <=> i \in b + 1..n
      <4>1. ASSUME i \in b + 1..n PROVE HasBegin(L, E, i - 1)
        <5>1. b \in E + 1..i - 1
          BY <1>1, <4>1
        <5> QED BY <3>2, <5>1 DEF HasBegin
      <4>2. ASSUME i \notin b + 1..n PROVE ~HasBegin(L, E, i - 1)
        <5>1. \A j \in E + 1..i - 1 : j \in E + 1..b - 1
          BY <1>1, <3>4, <4>2
        <5> QED BY <3>2, <5>1 DEF HasBegin
      <4> QED BY <4>1, <4>2
    <3>5. i \in b + 1..n => i \in E + 1..n
      BY <1>1
    <3>6. i \in E + 1..n => (IsBody(L, i) /\ L[i].mark # "hidden" <=> L[i].mark = "text")
      BY <2>1 DEF IsBody
    <3> QED BY <1>6, <3>1, <3>3, <3>4, <3>5, <3>6 DEF InSegment
  <2>5. CASE ~legacy.explicit
    <3>1. ~HasBegin(L, E, n) /\ \A j : j \in ToSet(legacy.buffer) <=> j \in E + 1..n
      BY <2>2, <2>3, <2>5
    <3>2. i \in E + 1..n => (L[i].mark # "hidden" <=> L[i].mark = "text")
      BY <2>1, <3>1 DEF HasBegin
    <3> QED BY <1>6, <3>1, <3>2 DEF InSegment
  <2> QED BY <2>4, <2>5
<1>8. \A k \in DOMAIN s : times[k] = time
  OBVIOUS
<1> HIDE DEF times
<1>9. /\ cut \in Seq(RuleRecord) /\ Ascending(cut)
      /\ \A k \in DOMAIN s : Rec(s[k], time, inc) \in ToSet(cut)
      /\ \A r \in ToSet(cut) : \E k \in DOMAIN s : r = Rec(s[k], time, inc)
  <2>1. \A k \in DOMAIN s : times[k] \in Int
    BY <1>2, <1>8
  <2>2. cut \in Seq(RuleRecord) /\ Ascending(cut)
    BY <1>6, <2>1, RecordList
  <2>3. \A k \in DOMAIN s : Rec(s[k], times[k], inc) \in ToSet(cut)
    BY <1>6, <2>1, RecordList
  <2>4. \A r \in ToSet(cut) : \E k \in DOMAIN s : r = Rec(s[k], times[k], inc)
    BY DEF RecordsOf, ToSet
  <2> QED BY <1>8, <2>2, <2>3, <2>4
<1> HIDE DEF cut
<1>10. ASSUME NEW r \in ToSet(cut) PROVE r \in SegmentRows(L, E, n, inc)
  <2>1. PICK k \in DOMAIN s : r = Rec(s[k], time, inc)
    BY <1>9
  <2>2. s[k] \in ToSet(s) /\ s[k] \in Nat
    BY <1>6 DEF ToSet
  <2>3. r.line = s[k] /\ r.time = time /\ r.incomplete = inc /\ r \in RuleRecord
    BY <1>2, <2>1, <2>2 DEF Rec, RuleRecord
  <2> QED BY <1>2, <1>7, <2>2, <2>3 DEF SegmentRows
<1>11. ASSUME NEW r \in SegmentRows(L, E, n, inc) PROVE r \in ToSet(cut)
  <2>1. r \in RuleRecord /\ r.line \in ToSet(s) /\ r.incomplete = inc /\ BlockTimeAt(L, E, n, r.time)
    BY <1>7 DEF SegmentRows
  <2>2. r.time = time
    BY <1>1, <1>2, <2>1, BlockTimeUnique DEF n
  <2>3. PICK k \in DOMAIN s : s[k] = r.line
    BY <2>1 DEF ToSet
  <2>4. r = Rec(s[k], time, inc)
    BY <2>1, <2>2, <2>3 DEF Rec, RuleRecord
  <2> QED BY <1>9, <2>4
<1>12. Gives(cut, SegmentRows(L, E, n, inc))
  <2>1. ToSet(cut) = SegmentRows(L, E, n, inc)
    BY <1>10, <1>11
  <2> QED BY <1>9, <2>1 DEF Gives
<1>13. \A p \in ClosedRows(L) : \A q \in SegmentRows(L, E, n, inc) : p.line < q.line
  <2>1. \A r \in ClosedRows(L) : r.line < E /\ r.line \in Nat
    BY ClosedBefore DEF RuleRecord
  <2>2. \A r \in SegmentRows(L, E, n, inc) : E < r.line /\ r.line \in Nat
    BY ClosedBefore DEF RuleRecord, n
  <2> QED BY <1>1, <2>1, <2>2
<1> HIDE DEF out
<1>14. out \o cut \in Seq(RuleRecord) /\ Gives(out \o cut, ClosedRows(L) \cup SegmentRows(L, E, n, inc))
  BY <1>3, <1>9, <1>12, <1>13, GivesConcat
<1> QED BY <1>5, <1>14 DEF n

\* A line leaves the block as the rules want it.
LEMMA LegacyInvStep ==
    ASSUME NEW L \in Seq(Line), NEW x \in Line, lines = L, ValidAt(L, Len(L), previous),
           LegacyInv(L, legacy)
    PROVE  LegacyInv(Append(L, x), LegacyBlock(x, Len(L) + 1))
<1> DEFINE M == Append(L, x)
           n == Len(L)
           s == LegacyBlock(x, n + 1)
           stamp == LineStamp(x, n + 1)
           Types(m) == [explicit : BOOLEAN, anchor : Int, segment : Int,
                        buffer : Seq(1..m), out : Seq(RuleRecord)]
<1>1. n \in Nat /\ Len(M) = n + 1 /\ M[n + 1] = x /\ M \in Seq(Line) /\ \A i \in 1..n : M[i] = L[i]
  BY AppendLine
<1>2. /\ TimeAt(M, n + 1, stamp) /\ stamp \in Int
      /\ ValidAt(M, n + 1, NextPrevious(x, n + 1)) /\ NextPrevious(x, n + 1) \in Int
  <2>1. TimeAt(M, n + 1, stamp) /\ stamp \in Int
    BY TimeOfNew
  <2>2. ValidAt(M, n + 1, NextPrevious(x, n + 1)) /\ NextPrevious(x, n + 1) \in Nat
    BY TimeOfNew
  <2> QED BY <2>1, <2>2
<1>3. /\ \A i \in 0..n : \A v : ValidAt(M, i, v) <=> ValidAt(L, i, v)
      /\ \A i \in 1..n : \A t : TimeAt(M, i, t) <=> TimeAt(L, i, t)
  BY TimesStay
<1>4. /\ legacy \in Types(n) /\ legacy.buffer \in Seq(1..n) /\ legacy.out \in Seq(RuleRecord)
      /\ legacy.segment \in Int /\ legacy.anchor \in Int /\ legacy.explicit \in BOOLEAN
      /\ Gives(legacy.out, ClosedRows(L)) /\ Increasing(legacy.buffer)
  BY DEF LegacyInv
<1>5. PICK E \in 0..n :
         /\ LastEnd(L, n, E) /\ ValidAt(L, E, legacy.segment)
         /\ legacy.explicit => \E b \in E + 1..n :
                            /\ FirstBegin(L, E, n, b) /\ TimeAt(L, b, legacy.anchor)
                            /\ \A i : i \in ToSet(legacy.buffer) <=> i \in b + 1..n /\ IsBody(L, i)
         /\ ~legacy.explicit => /\ ~HasBegin(L, E, n)
                                /\ \A i : i \in ToSet(legacy.buffer) <=> i \in E + 1..n
  BY DEF LegacyInv
<1>6. ClosedRows(M) = ClosedRows(L) \cup (IF x.mark = "end" THEN SegmentRows(L, E, n, FALSE) ELSE {})
  BY <1>5, ClosedRowsGrow
<1>7. /\ Flushed(FALSE) \in Seq(RuleRecord)
      /\ Gives(Flushed(FALSE), ClosedRows(L) \cup SegmentRows(L, E, n, FALSE))
  BY <1>5, FlushedGives
<1>8. x.mark \in {"text", "hidden", "begin", "end"}
  BY DEF Line
<1> HIDE DEF M, n, s, stamp
<1>9. /\ E \in Nat /\ E \in 0..n + 1 /\ E # n + 1 /\ n + 1 \in E + 1..n + 1 /\ n + 1 \in 0..n + 1
      /\ \A i \in E + 1..n : i \in E + 1..n + 1 /\ i \in 1..n
      /\ \A i \in E + 1..n + 1 : i \in E + 1..n \/ i = n + 1
      /\ E # 0 => E \in 1..n
  BY <1>1
<1>10. ValidAt(M, E, legacy.segment)
  BY <1>3, <1>5
<1>11. /\ Append(legacy.buffer, n + 1) \in Seq(1..n + 1) /\ Increasing(Append(legacy.buffer, n + 1))
       /\ legacy.buffer \in Seq(1..n + 1)
       /\ \A i : i \in ToSet(Append(legacy.buffer, n + 1)) <=> i \in ToSet(legacy.buffer) \/ i = n + 1
  BY <1>1, <1>4, Increases
<1>12. <<>> \in Seq(1..n + 1) /\ Increasing(<<>>) /\ ToSet(<<>>) = {}
  BY DEF Increasing, ToSet
<1>13. ASSUME x.mark # "end" PROVE LastEnd(M, n + 1, E) /\ ClosedRows(M) = ClosedRows(L)
  <2>1. ClosedRows(M) = ClosedRows(L)
    BY <1>6, <1>13
  <2>2. E # 0 => M[E].mark = "end"
    BY <1>1, <1>5, <1>9 DEF LastEnd
  <2>3. \A j \in E + 1..n + 1 : M[j].mark # "end"
    BY <1>1, <1>5, <1>9, <1>13 DEF LastEnd
  <2> QED BY <1>9, <2>1, <2>2, <2>3 DEF LastEnd
<1>14. ASSUME legacy.explicit, x.mark # "end"
       PROVE  \E b \in E + 1..n + 1 :
                /\ FirstBegin(M, E, n + 1, b) /\ TimeAt(M, b, legacy.anchor) /\ b \in 1..n
                /\ \A i : i \in ToSet(legacy.buffer) <=> i \in b + 1..n /\ IsBody(M, i)
  <2>1. PICK b \in E + 1..n :
                            /\ FirstBegin(L, E, n, b) /\ TimeAt(L, b, legacy.anchor)
                            /\ \A i : i \in ToSet(legacy.buffer) <=> i \in b + 1..n /\ IsBody(L, i)
    BY <1>5, <1>14
  <2>2. b \in 1..n /\ b \in E + 1..n + 1 /\ M[b] = L[b]
    BY <1>1, <1>9
  <2>3. \A j \in E + 1..b - 1 : M[j] = L[j]
    <3>1. \A j \in E + 1..b - 1 : j \in 1..n
      BY <1>1, <1>9, <2>2
    <3> QED BY <1>1, <3>1
  <2>4. FirstBegin(M, E, n + 1, b)
    BY <2>1, <2>2, <2>3 DEF FirstBegin
  <2>5. \A i \in b + 1..n : M[i] = L[i]
    <3>1. \A i \in b + 1..n : i \in 1..n
      BY <1>1, <2>2
    <3> QED BY <1>1, <3>1
  <2>6. \A i : i \in ToSet(legacy.buffer) <=> i \in b + 1..n /\ IsBody(M, i)
    BY <2>1, <2>5 DEF IsBody
  <2>7. TimeAt(M, b, legacy.anchor)
    BY <1>3, <2>1, <2>2
  <2> QED BY <2>2, <2>4, <2>6, <2>7
<1>15. ASSUME ~legacy.explicit, x.mark # "begin" PROVE ~HasBegin(M, E, n + 1)
  <2>1. \A j \in E + 1..n : L[j].mark # "begin"
    BY <1>5, <1>15 DEF HasBegin
  <2>2. \A j \in E + 1..n + 1 : M[j].mark # "begin"
    BY <1>1, <1>9, <1>15, <2>1
  <2> QED BY <2>2 DEF HasBegin
<1>16. CASE x.mark = "begin" /\ legacy.explicit
  <2>1. s = legacy
    BY <1>16 DEF LegacyBlock, s
  <2>2. legacy \in Types(n + 1)
    BY <1>4, <1>11
  <2>3. PICK b \in E + 1..n + 1 :
                /\ FirstBegin(M, E, n + 1, b) /\ TimeAt(M, b, legacy.anchor) /\ b \in 1..n
                /\ \A i : i \in ToSet(legacy.buffer) <=> i \in b + 1..n /\ IsBody(M, i)
    BY <1>14, <1>16
  <2>4. ~IsBody(M, n + 1)
    BY <1>1, <1>16 DEF IsBody
  <2>5. \A i : i \in ToSet(legacy.buffer) <=> i \in b + 1..n + 1 /\ IsBody(M, i)
    <3>1. \A i : i \in b + 1..n + 1 <=> i \in b + 1..n \/ i = n + 1
      BY <1>1, <2>3
    <3> QED BY <2>3, <2>4, <3>1
  <2>6. LegacyInv(M, s)
    BY <1>1, <1>4, <1>9, <1>10, <1>13, <1>16, <2>1, <2>2, <2>3, <2>5 DEF LegacyInv
  <2> QED BY <2>6 DEF M, n, s
<1>17. CASE x.mark = "begin" /\ ~legacy.explicit
  <2>1. s = [legacy EXCEPT !.explicit = TRUE, !.buffer = <<>>, !.anchor = stamp]
    <3>1. stamp = IF x.stamp = "none" THEN previous ELSE ParsedStamp(x, n + 1)
      BY DEF LineStamp, stamp
    <3> QED BY <1>17, <3>1 DEF LegacyBlock, s
  <2>2. /\ s.explicit = TRUE /\ s.buffer = <<>> /\ s.anchor = stamp /\ s.out = legacy.out
        /\ s.segment = legacy.segment
    BY <1>4, <2>1
  <2>3. s \in Types(n + 1)
    BY <1>2, <1>4, <1>12, <2>1
  <2>4. FirstBegin(M, E, n + 1, n + 1)
    <3>1. \A j \in E + 1..(n + 1) - 1 : j \in E + 1..n
      BY <1>1
    <3>2. \A j \in E + 1..(n + 1) - 1 : M[j].mark # "begin"
      BY <1>1, <1>5, <1>9, <1>17, <3>1 DEF HasBegin
    <3> QED BY <1>1, <1>9, <1>17, <3>2 DEF FirstBegin
  <2>5. \A i : i \in ToSet(s.buffer) <=> i \in (n + 1) + 1..n + 1 /\ IsBody(M, i)
    <3>1. \A i : i \notin (n + 1) + 1..n + 1
      BY <1>1
    <3> QED BY <1>12, <2>2, <3>1
  <2>6. LegacyInv(M, s)
    BY <1>1, <1>2, <1>4, <1>9, <1>10, <1>12, <1>13, <1>17, <2>2, <2>3, <2>4, <2>5 DEF LegacyInv
  <2> QED BY <2>6 DEF M, n, s
<1>18. CASE x.mark = "end"
  <2>1. s = [explicit |-> FALSE, anchor |-> NoTime, segment |-> NextPrevious(x, n + 1),
             buffer |-> <<>>, out |-> Flushed(FALSE)]
    BY <1>18 DEF LegacyBlock, s
  <2>2. /\ s.explicit = FALSE /\ s.buffer = <<>> /\ s.out = Flushed(FALSE)
        /\ s.segment = NextPrevious(x, n + 1)
    BY <2>1
  <2>3. s \in Types(n + 1)
    <3>1. NoTime \in Int
      BY DEF NoTime
    <3> QED BY <1>2, <1>7, <1>12, <2>1, <3>1
  <2>4. Gives(s.out, ClosedRows(M))
    BY <1>6, <1>7, <1>18, <2>2
  <2>5. \A i : i \notin (n + 1) + 1..n + 1
    BY <1>1
  <2>6. LastEnd(M, n + 1, n + 1) /\ ~HasBegin(M, n + 1, n + 1)
    BY <1>1, <1>9, <1>18, <2>5 DEF LastEnd, HasBegin
  <2>7. \A i : i \in ToSet(s.buffer) <=> i \in (n + 1) + 1..n + 1
    BY <1>12, <2>2, <2>5
  <2>8. LegacyInv(M, s)
    BY <1>1, <1>2, <1>9, <1>12, <2>2, <2>3, <2>4, <2>6, <2>7 DEF LegacyInv
  <2> QED BY <2>8 DEF M, n, s
<1>19. CASE x.mark \in {"text", "hidden"}
  <2>1. s = [legacy EXCEPT !.buffer = Append(@, n + 1)]
    BY <1>19 DEF LegacyBlock, s
  <2>2. /\ s.explicit = legacy.explicit /\ s.buffer = Append(legacy.buffer, n + 1)
        /\ s.anchor = legacy.anchor /\ s.out = legacy.out /\ s.segment = legacy.segment
    BY <1>4, <2>1
  <2>3. s \in Types(n + 1)
    BY <1>4, <1>11, <2>1
  <2>4. x.mark # "end" /\ x.mark # "begin" /\ IsBody(M, n + 1)
    BY <1>1, <1>19 DEF IsBody
  <2>5. s.explicit => \E b \in E + 1..n + 1 :
                /\ FirstBegin(M, E, n + 1, b) /\ TimeAt(M, b, s.anchor)
                /\ \A i : i \in ToSet(s.buffer) <=> i \in b + 1..n + 1 /\ IsBody(M, i)
    <3> HAVE s.explicit
    <3>1. PICK b \in E + 1..n + 1 :
                /\ FirstBegin(M, E, n + 1, b) /\ TimeAt(M, b, legacy.anchor) /\ b \in 1..n
                /\ \A i : i \in ToSet(legacy.buffer) <=> i \in b + 1..n /\ IsBody(M, i)
      BY <1>14, <2>2, <2>4
    <3>2. \A i : i \in b + 1..n + 1 <=> i \in b + 1..n \/ i = n + 1
      BY <1>1, <3>1
    <3>3. \A i : i \in ToSet(s.buffer) <=> i \in b + 1..n + 1 /\ IsBody(M, i)
      BY <1>11, <2>2, <2>4, <3>1, <3>2
    <3> QED BY <2>2, <3>1, <3>3
  <2>6. ~s.explicit => /\ ~HasBegin(M, E, n + 1)
                       /\ \A i : i \in ToSet(s.buffer) <=> i \in E + 1..n + 1
    <3> HAVE ~s.explicit
    <3>1. ~HasBegin(M, E, n + 1) /\ \A i : i \in ToSet(legacy.buffer) <=> i \in E + 1..n
      BY <1>5, <1>15, <2>2, <2>4
    <3>2. \A i : i \in E + 1..n + 1 <=> i \in E + 1..n \/ i = n + 1
      BY <1>9
    <3>3. \A i : i \in ToSet(s.buffer) <=> i \in E + 1..n + 1
      BY <1>11, <2>2, <3>1, <3>2
    <3> QED BY <3>1, <3>3
  <2>7. LegacyInv(M, s)
    BY <1>1, <1>4, <1>9, <1>10, <1>11, <1>13, <2>2, <2>3, <2>4, <2>5, <2>6 DEF LegacyInv
  <2> QED BY <2>7 DEF M, n, s
<1> QED BY <1>8, <1>16, <1>17, <1>18, <1>19

\* At the end of the file only a block that is begun is given.
LEMMA LegacyEnds ==
    ASSUME NEW L \in Seq(Line), lines = L, LegacyInv(L, legacy)
    PROVE  LET out == IF legacy.explicit THEN Flushed(TRUE) ELSE legacy.out
           IN  out \in Seq(RuleRecord) /\ Gives(out, ClosedRows(L) \cup OpenRows(L))
<1> DEFINE n == Len(L)
<1>1. n \in Nat /\ n \in 0..n /\ legacy.explicit \in BOOLEAN
  BY DEF LegacyInv
<1>2. PICK E \in 0..n :
         /\ LastEnd(L, n, E)
         /\ legacy.explicit => \E b \in E + 1..n : FirstBegin(L, E, n, b)
         /\ ~legacy.explicit => ~HasBegin(L, E, n)
  BY DEF LegacyInv
<1>3. /\ Flushed(TRUE) \in Seq(RuleRecord)
      /\ Gives(Flushed(TRUE), ClosedRows(L) \cup SegmentRows(L, E, n, TRUE))
  <2>1. TRUE \in BOOLEAN
    OBVIOUS
  <2> QED BY <1>2, <2>1, FlushedGives
<1>4. legacy.out \in Seq(RuleRecord) /\ Gives(legacy.out, ClosedRows(L))
  BY DEF LegacyInv
<1>5. \A F \in 0..n : LastEnd(L, n, F) => F = E
  BY <1>1, <1>2, LastEndUnique
<1>6. CASE legacy.explicit
  <2>1. HasBegin(L, E, n)
    BY <1>2, <1>6 DEF HasBegin, FirstBegin
  <2>2. \A r : r \in SegmentRows(L, E, n, TRUE) => r \in RuleRecord
    BY DEF SegmentRows
  <2>3. OpenRows(L) = SegmentRows(L, E, n, TRUE)
    <3>1. ASSUME NEW r \in OpenRows(L) PROVE r \in SegmentRows(L, E, n, TRUE)
      <4>1. PICK F \in 0..n : LastEnd(L, n, F) /\ r \in SegmentRows(L, F, n, TRUE)
        BY DEF OpenRows
      <4> QED BY <1>5, <4>1
    <3>2. ASSUME NEW r \in SegmentRows(L, E, n, TRUE) PROVE r \in OpenRows(L)
      BY <1>2, <2>1, <2>2 DEF OpenRows
    <3> QED BY <3>1, <3>2
  <2> QED BY <1>3, <1>6, <2>3
<1>7. CASE ~legacy.explicit
  <2>1. OpenRows(L) = {}
    <3>1. ASSUME NEW r \in OpenRows(L) PROVE FALSE
      <4>1. PICK F \in 0..n : LastEnd(L, n, F) /\ HasBegin(L, F, n)
        BY DEF OpenRows
      <4> QED BY <1>2, <1>5, <1>7, <4>1
    <3> QED BY <3>1
  <2>2. ClosedRows(L) \cup OpenRows(L) = ClosedRows(L)
    BY <2>1
  <2> QED BY <1>4, <1>7, <2>2
<1> QED BY <1>6, <1>7

\* The words of LegacyBlocksAreSegments.
Before(i) == LastOf({e \in Marked("end") : e < i})
After(i) == {e \in Marked("end") : e > i}
Begins(i) == {b \in Marked("begin") : Before(i) < b /\ \A e \in After(i) : b < e}
InBlock(i) == IF Begins(i) = {} THEN After(i) # {} ELSE i > Min(Begins(i))
Body(i) == {j \in Marked("text") \cup Marked("hidden") : Before(j) = Before(i) /\ InBlock(j)}
BeginTime(b) == IF b \in Stamped THEN TimeOf(b) ELSE ValidUpTo(b)
SegmentTime(i) ==
    IF Begins(i) # {} THEN BeginTime(Min(Begins(i)))
    ELSE IF Body(i) \cap Stamped # {} THEN TimeOf(Min(Body(i) \cap Stamped))
    ELSE ValidUpTo(Before(i))

LEMMA MarkedIs ==
    ASSUME lines \in Seq(Line)
    PROVE  /\ Len(lines) \in Nat
           /\ \A mark, i : i \in Marked(mark) <=> i \in 1..Len(lines) /\ lines[i].mark = mark
           /\ \A i : i \in Stamped <=> i \in 1..Len(lines) /\ lines[i].stamp # "none"
BY DEF Marked, Stamped, All

\* The segment that a line is in: after the end before it, up to the end behind it.
LEMMA SegmentOf ==
    ASSUME lines \in Seq(Line), NEW i \in 1..Len(lines), IsBody(lines, i)
    PROVE  /\ Before(i) \in 0..i - 1 /\ LastEnd(lines, i - 1, Before(i))
           /\ After(i) = {} => LastEnd(lines, Len(lines), Before(i))
           /\ After(i) # {} => \E T \in i + 1..Len(lines) :
                /\ T \in After(i) /\ lines[T].mark = "end" /\ LastEnd(lines, T - 1, Before(i))
                /\ \A e \in After(i) : T <= e
<1> DEFINE n == Len(lines)
           S == {e \in Marked("end") : e < i}
           B == Before(i)
<1>1. n \in Nat /\ i \in Nat /\ i \in 1..n /\ \A e : e \in Marked("end") <=> e \in 1..n /\ lines[e].mark = "end"
  BY MarkedIs
<1>2. \A e : e \in S <=> e \in 1..i - 1 /\ lines[e].mark = "end"
  <2>1. \A e : e \in 1..i - 1 <=> e \in 1..n /\ e < i
    BY <1>1
  <2> QED BY <1>1, <2>1
<1>3. B = IF S = {} THEN 0 ELSE Max(S)
  BY DEF Before, LastOf
<1> HIDE DEF S, B, n
<1>4. LastEnd(lines, i - 1, B)
  <2>1. CASE S = {}
    <3>1. \A j \in 0 + 1..i - 1 : lines[j].mark # "end"
      BY <1>2, <2>1
    <3>2. 0 \in 0..i - 1
      BY <1>1
    <3> QED BY <1>3, <2>1, <3>1, <3>2 DEF LastEnd
  <2>2. CASE S # {}
    <3>1. S \in SUBSET Nat /\ \A e \in S : e <= i
      BY <1>1, <1>2
    <3>2. PICK e \in S : \A y \in S : y <= e
      BY <1>1, <2>2, <3>1, GreatestNumber
    <3>3. B = e
      BY <1>3, <2>2, <3>1, <3>2, MaxIs
    <3>4. e \in 1..i - 1 /\ e \in 0..i - 1 /\ lines[e].mark = "end"
      BY <1>2, <3>2
    <3>5. \A j \in e + 1..i - 1 : j \in 1..i - 1 /\ ~(j <= e)
      BY <1>1, <3>4
    <3>6. \A j \in e + 1..i - 1 : lines[j].mark # "end"
      BY <1>2, <3>2, <3>5
    <3> QED BY <3>3, <3>4, <3>6 DEF LastEnd
  <2> QED BY <2>1, <2>2
<1>5. B \in 0..i - 1
  BY <1>4 DEF LastEnd
<1>6. \A e : e \in After(i) <=> e \in i + 1..n /\ lines[e].mark = "end"
  <2>1. \A e : e \in i + 1..n <=> e \in 1..n /\ e > i
    BY <1>1
  <2> QED BY <1>1, <2>1 DEF After
<1>7. lines[i].mark # "end"
  BY DEF IsBody
\* No end in between.
<1>8. ASSUME NEW m \in i..n, \A j \in i + 1..m : lines[j].mark # "end" PROVE LastEnd(lines, m, B)
  <2>1. B \in 0..m
    BY <1>1, <1>5
  <2>2. \A j \in B + 1..m : j \in B + 1..i - 1 \/ j = i \/ j \in i + 1..m
    BY <1>1, <1>5
  <2>3. \A j \in B + 1..m : lines[j].mark # "end"
    BY <1>4, <1>7, <1>8, <2>2 DEF LastEnd
  <2> QED BY <1>4, <2>1, <2>3 DEF LastEnd
<1>9. After(i) = {} => LastEnd(lines, n, B)
  <2> HAVE After(i) = {}
  <2>1. n \in i..n /\ \A j \in i + 1..n : lines[j].mark # "end"
    BY <1>1, <1>6
  <2> QED BY <1>8, <2>1
<1>10. After(i) # {} => \E T \in i + 1..n :
                /\ T \in After(i) /\ lines[T].mark = "end" /\ LastEnd(lines, T - 1, B)
                /\ \A e \in After(i) : T <= e
  <2> HAVE After(i) # {}
  <2>1. After(i) \in SUBSET Nat
    BY <1>1, <1>6
  <2>2. PICK T \in After(i) : \A e \in After(i) : T <= e
    BY <2>1, LeastNumber
  <2>3. T \in i + 1..n /\ lines[T].mark = "end"
    BY <1>6, <2>2
  <2>4. T - 1 \in i..n /\ \A j \in i + 1..T - 1 : j \in i + 1..n /\ ~(T <= j)
    BY <1>1, <2>3
  <2>5. LastEnd(lines, T - 1, B)
    BY <1>6, <1>8, <2>2, <2>4
  <2> QED BY <2>2, <2>3, <2>5
<1> QED BY <1>4, <1>5, <1>9, <1>10 DEF B, n

\* A line of a file in the words of the property and in those of the segments.
LEMMA LegacyRowOf ==
    ASSUME lines \in Seq(Line), NEW i \in 1..Len(lines), lines[i].mark = "text"
    PROVE  \E m \in i..Len(lines) :
             /\ Before(i) \in 0..i - 1 /\ LastEnd(lines, m, Before(i))
             /\ After(i) = {} => m = Len(lines)
             /\ After(i) # {} => m + 1 \in 1..Len(lines) /\ lines[m + 1].mark = "end"
             /\ InBlock(i) <=> /\ InSegment(lines, Before(i), m, i)
                               /\ After(i) # {} \/ HasBegin(lines, Before(i), m)
             /\ InBlock(i) => BlockTimeAt(lines, Before(i), m, SegmentTime(i))
<1> DEFINE n == Len(lines)
           B == Before(i)
<1>1. /\ n \in Nat /\ i \in Nat /\ i \in 1..n
      /\ \A mark, j : j \in Marked(mark) <=> j \in 1..n /\ lines[j].mark = mark
      /\ \A j : j \in Stamped <=> j \in 1..n /\ lines[j].stamp # "none"
  BY MarkedIs
<1>2. IsBody(lines, i)
  BY DEF IsBody
<1>3. /\ B \in 0..i - 1 /\ LastEnd(lines, i - 1, B)
      /\ After(i) = {} => LastEnd(lines, n, B)
      /\ After(i) # {} => \E T \in i + 1..n :
                /\ T \in After(i) /\ lines[T].mark = "end" /\ LastEnd(lines, T - 1, B)
                /\ \A e \in After(i) : T <= e
  BY <1>2, SegmentOf
<1> HIDE DEF n, B
<1>4. PICK m \in i..n :
        /\ LastEnd(lines, m, B)
        /\ After(i) = {} => m = n
        /\ After(i) # {} => /\ m + 1 \in 1..n /\ lines[m + 1].mark = "end" /\ m + 1 \in After(i)
                            /\ \A e \in After(i) : m + 1 <= e
  <2>1. CASE After(i) = {}
    <3>1. n \in i..n
      BY <1>1
    <3> QED BY <1>3, <2>1, <3>1
  <2>2. CASE After(i) # {}
    <3>1. PICK T \in i + 1..n :
                /\ T \in After(i) /\ lines[T].mark = "end" /\ LastEnd(lines, T - 1, B)
                /\ \A e \in After(i) : T <= e
      BY <1>3, <2>2
    <3>2. T - 1 \in i..n /\ (T - 1) + 1 = T /\ T \in 1..n
      BY <1>1
    <3> QED BY <2>2, <3>1, <3>2
  <2> QED BY <2>1, <2>2
<1>5. B \in Nat /\ m \in Nat /\ m <= n /\ i \in B + 1..m /\ \A j \in B + 1..m : j \in 1..n
  BY <1>1, <1>3
\* The begins of the segment.
<1>6. \A b : b \in Begins(i) <=> b \in B + 1..m /\ lines[b].mark = "begin"
  <2> TAKE b
  <2>1. b \in Begins(i) <=> b \in 1..n /\ lines[b].mark = "begin" /\ B < b /\ \A e \in After(i) : b < e
    BY <1>1 DEF Begins, B
  <2>2. ASSUME b \in 1..n PROVE (\A e \in After(i) : b < e) <=> b <= m
    <3>1. CASE After(i) = {}
      BY <1>1, <1>4, <2>2, <3>1
    <3>2. CASE After(i) # {}
      <4>1. \A e \in After(i) : e \in Nat
        BY <1>1 DEF After
      <4>2. (\A e \in After(i) : b < e) <=> b < m + 1
        BY <1>1, <1>4, <1>5, <2>2, <3>2, <4>1
      <4> QED BY <1>1, <1>5, <2>2, <4>2
    <3> QED BY <3>1, <3>2
  <2>3. b \in B + 1..m <=> b \in 1..n /\ B < b /\ b <= m
    BY <1>1, <1>5
  <2> QED BY <2>1, <2>2, <2>3
<1>7. HasBegin(lines, B, m) <=> Begins(i) # {}
  BY <1>6 DEF HasBegin
<1>8. CASE Begins(i) # {}
  <2>1. Begins(i) \in SUBSET Nat
    BY <1>5, <1>6
  <2>2. PICK b \in Begins(i) : \A y \in Begins(i) : b <= y
    BY <1>8, <2>1, LeastNumber
  <2>3. Min(Begins(i)) = b /\ b \in B + 1..m /\ lines[b].mark = "begin" /\ b \in 1..n
    <3>1. Min(Begins(i)) = b
      BY <2>1, <2>2, MinIs
    <3> QED BY <1>5, <1>6, <2>2, <3>1
  <2>4. FirstBegin(lines, B, m, b)
    <3>1. \A j \in B + 1..b - 1 : j \in B + 1..m /\ ~(b <= j)
      BY <1>5, <2>3
    <3> QED BY <1>6, <2>2, <2>3, <3>1 DEF FirstBegin
  <2>5. InBlock(i) <=> i > b
    BY <1>8, <2>3 DEF InBlock
  <2>6. HasBegin(lines, B, i - 1) <=> i > b
    <3>1. ASSUME i > b PROVE HasBegin(lines, B, i - 1)
      <4>1. b \in B + 1..i - 1
        BY <1>5, <2>3, <3>1
      <4> QED BY <2>3, <4>1 DEF HasBegin
    <3>2. ASSUME ~(i > b) PROVE ~HasBegin(lines, B, i - 1)
      <4>1. \A j \in B + 1..i - 1 : j \in B + 1..b - 1
        BY <1>5, <2>3, <3>2
      <4> QED BY <2>4, <4>1 DEF HasBegin, FirstBegin
    <3> QED BY <3>1, <3>2
  <2>7. InBlock(i) <=> InSegment(lines, B, m, i) /\ (After(i) # {} \/ HasBegin(lines, B, m))
    BY <1>5, <1>7, <1>8, <2>5, <2>6 DEF InSegment
  <2>8. BlockTimeAt(lines, B, m, SegmentTime(i))
    <3>1. SegmentTime(i) = TimeOf(b)
      <4>1. BeginTime(b) = TimeOf(b)
        BY DEF BeginTime, TimeOf
      <4> QED BY <1>8, <2>3, <4>1 DEF SegmentTime
    <3>2. TimeAt(lines, b, TimeOf(b))
      <4>1. b \in 1..Len(lines)
        BY <2>3 DEF n
      <4> QED BY <4>1, TimeOfIs
    <3> QED BY <1>7, <1>8, <2>3, <2>4, <3>1, <3>2 DEF BlockTimeAt
  <2> QED BY <1>3, <1>4, <2>7, <2>8 DEF n, B
<1>9. CASE Begins(i) = {}
  <2>1. InBlock(i) <=> After(i) # {}
    BY <1>9 DEF InBlock
  <2>2. ~HasBegin(lines, B, m) /\ InSegment(lines, B, m, i)
    BY <1>5, <1>7, <1>9 DEF InSegment
  <2>3. InBlock(i) <=> InSegment(lines, B, m, i) /\ (After(i) # {} \/ HasBegin(lines, B, m))
    BY <2>1, <2>2
  <2>4. ASSUME After(i) # {} PROVE BlockTimeAt(lines, B, m, SegmentTime(i))
    <3>1. m + 1 \in 1..n /\ lines[m + 1].mark = "end"
      BY <1>4, <2>4
    \* All lines of the segment are its body.
    <3>2. ASSUME NEW j \in B + 1..m PROVE j \in Body(i)
      <4>1. j \in 1..n /\ lines[j].mark \notin {"begin", "end"} /\ lines[j] \in Line
        <5>1. j \in 1..n
          BY <1>5
        <5>2. lines[j].mark # "begin"
          BY <1>6, <1>9
        <5>3. lines[j].mark # "end"
          BY <1>4 DEF LastEnd
        <5> QED BY <5>1, <5>2, <5>3 DEF n
      <4>2. IsBody(lines, j)
        BY <4>1 DEF IsBody, Line
      <4>3. Before(j) \in 0..j - 1 /\ LastEnd(lines, j - 1, Before(j))
        BY <4>1, <4>2, SegmentOf DEF n
      <4>4. LastEnd(lines, j - 1, B)
        <5>1. B \in 0..j - 1 /\ \A k \in B + 1..j - 1 : k \in B + 1..m
          BY <1>5
        <5> QED BY <1>4, <5>1 DEF LastEnd
      <4>5. Before(j) = B
        <5>1. j - 1 \in Nat
          BY <1>1, <4>1
        <5> QED BY <4>3, <4>4, <5>1, LastEndUnique
      <4>6. m + 1 \in After(j)
        <5>1. m + 1 > j
          BY <1>5
        <5> QED BY <1>1, <3>1, <5>1 DEF After
      <4>7. Begins(j) = {}
        <5>1. ASSUME NEW b \in Begins(j) PROVE FALSE
          <6>1. b \in 1..n /\ lines[b].mark = "begin" /\ B < b /\ b < m + 1
            BY <1>1, <4>5, <4>6 DEF Begins
          <6>2. b \in B + 1..m
            BY <1>5, <6>1
          <6> QED BY <1>6, <1>9, <6>1, <6>2
        <5> QED BY <5>1
      <4>8. InBlock(j)
        BY <4>6, <4>7 DEF InBlock
      <4>9. j \in Marked("text") \cup Marked("hidden")
        BY <1>1, <4>1, <4>2 DEF IsBody
      <4> QED BY <4>5, <4>8, <4>9 DEF Body, B
    <3>3. ASSUME NEW j \in Body(i) PROVE j \in B + 1..m
      <4>1. j \in 1..n /\ IsBody(lines, j) /\ Before(j) = B
        BY <1>1 DEF Body, IsBody, B
      <4>2. Before(j) \in 0..j - 1 /\ LastEnd(lines, j - 1, Before(j))
        BY <4>1, SegmentOf DEF n
      <4>3. j # m + 1
        BY <3>1, <4>1 DEF IsBody
      <4>4. ~(j > m + 1)
        <5>1. SUFFICES ASSUME j > m + 1 PROVE FALSE
          OBVIOUS
        <5>2. m + 1 \in B + 1..j - 1
          BY <1>1, <1>5, <4>1, <5>1
        <5> QED BY <3>1, <4>1, <4>2, <5>2 DEF LastEnd
      <4>5. B < j
        BY <1>1, <1>5, <4>1, <4>2
      <4> QED BY <1>1, <1>5, <4>1, <4>3, <4>4, <4>5
    <3> DEFINE S == Body(i) \cap Stamped
    <3>4. \A j : j \in S <=> j \in B + 1..m /\ lines[j].stamp # "none"
      BY <1>1, <1>5, <3>2, <3>3
    <3>5. SegmentTime(i) = IF S # {} THEN TimeOf(Min(S)) ELSE ValidUpTo(B)
      BY <1>9 DEF SegmentTime, B
    <3> HIDE DEF S
    <3>6. CASE S # {}
      <4>1. S \in SUBSET Nat
        BY <1>5, <3>4
      <4>2. PICK j \in S : \A y \in S : j <= y
        BY <3>6, <4>1, LeastNumber
      <4>3. Min(S) = j
        BY <4>1, <4>2, MinIs
      <4>4. j \in B + 1..m /\ lines[j].stamp # "none" /\ j \in 1..n
        BY <1>5, <3>4, <4>2
      <4>5. FirstStamp(lines, B, m, j)
        <5>1. \A k \in B + 1..j - 1 : k \in B + 1..m /\ ~(j <= k)
          BY <1>5, <4>4
        <5> QED BY <3>4, <4>2, <4>4, <5>1 DEF FirstStamp
      <4>6. TimeAt(lines, j, TimeOf(j))
        <5>1. j \in 1..Len(lines)
          BY <4>4 DEF n
        <5> QED BY <5>1, TimeOfIs
      <4> QED BY <2>2, <3>5, <3>6, <4>3, <4>4, <4>5, <4>6 DEF BlockTimeAt
    <3>7. CASE S = {}
      <4>1. \A j \in B + 1..m : lines[j].stamp = "none"
        BY <3>4, <3>7
      <4>2. ValidAt(lines, B, ValidUpTo(B))
        <5>1. B \in 0..Len(lines)
          BY <1>1, <1>3 DEF n
        <5> QED BY <5>1, ValidUpToIs
      <4> QED BY <2>2, <3>5, <3>7, <4>1, <4>2 DEF BlockTimeAt
    <3> QED BY <3>6, <3>7
  <2>5. InBlock(i) => BlockTimeAt(lines, B, m, SegmentTime(i))
    BY <2>1, <2>4
  <2> QED BY <1>3, <1>4, <2>3, <2>5 DEF n, B
<1> QED BY <1>8, <1>9

LEMMA LegacyGives ==
    ASSUME lines \in Seq(Line), Gives(legacy.out, ClosedRows(lines) \cup OpenRows(lines))
    PROVE  LegacyBlocksAreSegments
<1> DEFINE n == Len(lines)
           Row(i) == Rec(i, SegmentTime(i), After(i) = {})
           Whole == {Row(i) : i \in {j \in Marked("text") : InBlock(j)}}
           Rows == ClosedRows(lines) \cup OpenRows(lines)
<1>1. /\ n \in Nat
      /\ \A i : i \in Marked("text") <=> i \in 1..n /\ lines[i].mark = "text"
      /\ \A i : i \in Marked("end") <=> i \in 1..n /\ lines[i].mark = "end"
  BY MarkedIs
<1>2. ASSUME NEW i \in Marked("text")
      PROVE  \E m \in i..n :
             /\ Before(i) \in 0..i - 1 /\ LastEnd(lines, m, Before(i))
             /\ After(i) = {} => m = n
             /\ After(i) # {} => m + 1 \in 1..n /\ lines[m + 1].mark = "end"
             /\ InBlock(i) <=> /\ InSegment(lines, Before(i), m, i)
                               /\ After(i) # {} \/ HasBegin(lines, Before(i), m)
             /\ InBlock(i) => BlockTimeAt(lines, Before(i), m, SegmentTime(i))
  BY <1>1, LegacyRowOf
<1>3. \A i \in Marked("text") : i \in 1..n /\ i \in Nat /\ lines[i].mark = "text"
  BY <1>1
<1>4. \A i \in Marked("text") : Row(i) = Rec(i, SegmentTime(i), IF After(i) = {} THEN TRUE ELSE FALSE)
  OBVIOUS
<1> HIDE DEF n, Row
\* A segment around a line is the one that the property speaks of.
<1>5. ASSUME NEW i \in Marked("text"), NEW k \in 0..n, NEW E \in 0..k, i \in E + 1..k, LastEnd(lines, k, E),
             NEW m \in i..n, Before(i) \in 0..i - 1, LastEnd(lines, m, Before(i))
      PROVE  E = Before(i)
  <2>1. LastEnd(lines, i - 1, E)
    <3>1. E \in 0..i - 1 /\ \A j \in E + 1..i - 1 : j \in E + 1..k
      BY <1>1, <1>3, <1>5
    <3> QED BY <1>5, <3>1 DEF LastEnd
  <2>2. LastEnd(lines, i - 1, Before(i))
    <3>1. \A j \in Before(i) + 1..i - 1 : j \in Before(i) + 1..m
      BY <1>1, <1>3, <1>5
    <3> QED BY <1>5, <3>1 DEF LastEnd
  <2>3. i - 1 \in Nat
    BY <1>3, <1>1
  <2> QED BY <2>1, <2>2, <2>3, LastEndUnique
<1>6. ASSUME NEW r \in ClosedRows(lines) PROVE r \in Whole
  <2>1. PICK T \in 1..n : lines[T].mark = "end" /\ \E E \in 0..T - 1 :
                            LastEnd(lines, T - 1, E) /\ r \in SegmentRows(lines, E, T - 1, FALSE)
    BY DEF ClosedRows, n
  <2>2. PICK E \in 0..T - 1 : LastEnd(lines, T - 1, E) /\ r \in SegmentRows(lines, E, T - 1, FALSE)
    BY <2>1
  <2> DEFINE i == r.line
  <2>3. /\ r \in RuleRecord /\ InSegment(lines, E, T - 1, i) /\ ~r.incomplete
        /\ BlockTimeAt(lines, E, T - 1, r.time)
    BY <2>2 DEF SegmentRows
  <2> HIDE DEF i
  <2>4. i \in E + 1..T - 1 /\ lines[i].mark = "text"
    BY <2>3 DEF InSegment
  <2>5. i \in Marked("text") /\ T - 1 \in 0..n
    BY <1>1, <2>4
  <2>6. T \in After(i)
    BY <1>1, <2>1, <2>4 DEF After
  <2>7. PICK m \in i..n :
             /\ Before(i) \in 0..i - 1 /\ LastEnd(lines, m, Before(i))
             /\ m + 1 \in 1..n /\ lines[m + 1].mark = "end"
             /\ InBlock(i) <=> InSegment(lines, Before(i), m, i)
             /\ InBlock(i) => BlockTimeAt(lines, Before(i), m, SegmentTime(i))
    BY <1>2, <2>5, <2>6
  <2>8. E = Before(i)
    BY <1>5, <2>2, <2>4, <2>5, <2>7
  <2>9. m = T - 1
    <3>1. T \notin E + 1..m
      BY <2>1, <2>7, <2>8 DEF LastEnd
    <3>2. m + 1 \notin E + 1..T - 1
      BY <2>2, <2>7 DEF LastEnd
    <3> QED BY <1>1, <1>3, <2>4, <2>5, <2>7, <3>1, <3>2
  <2>10. InBlock(i) /\ BlockTimeAt(lines, E, m, SegmentTime(i))
    BY <2>3, <2>7, <2>8, <2>9
  <2>11. r.time = SegmentTime(i)
    <3>1. m \in 0..Len(lines) /\ E \in 0..m
      BY <1>1, <2>2, <2>5, <2>9 DEF n
    <3>2. BlockTimeAt(lines, E, m, r.time)
      BY <2>3, <2>9
    <3> QED BY <2>10, <3>1, <3>2, BlockTimeUnique
  <2>12. r = Rec(i, SegmentTime(i), FALSE)
    <3>1. r.incomplete = FALSE
      BY <2>3 DEF RuleRecord
    <3> QED BY <2>3, <2>11, <3>1 DEF Rec, RuleRecord, i
  <2>13. Row(i) = Rec(i, SegmentTime(i), FALSE)
    BY <1>4, <2>5, <2>6
  <2> QED BY <2>5, <2>10, <2>12, <2>13
<1>7. ASSUME NEW r \in OpenRows(lines) PROVE r \in Whole
  <2>1. PICK E \in 0..n : /\ LastEnd(lines, n, E) /\ HasBegin(lines, E, n)
                          /\ r \in SegmentRows(lines, E, n, TRUE)
    BY DEF OpenRows, n
  <2> DEFINE i == r.line
  <2>2. /\ r \in RuleRecord /\ InSegment(lines, E, n, i) /\ r.incomplete
        /\ BlockTimeAt(lines, E, n, r.time)
    BY <2>1 DEF SegmentRows
  <2> HIDE DEF i
  <2>3. i \in E + 1..n /\ lines[i].mark = "text"
    BY <2>2 DEF InSegment
  <2>4. i \in Marked("text") /\ n \in 0..n
    BY <1>1, <2>3
  <2>5. After(i) = {}
    <3>1. ASSUME NEW e \in After(i) PROVE FALSE
      <4>1. e \in 1..n /\ lines[e].mark = "end" /\ e > i
        BY <1>1 DEF After
      <4>2. e \in E + 1..n
        BY <1>1, <2>3, <4>1
      <4> QED BY <2>1, <4>1, <4>2 DEF LastEnd
    <3> QED BY <3>1
  <2>6. /\ Before(i) \in 0..i - 1 /\ LastEnd(lines, n, Before(i)) /\ n \in i..n
        /\ InBlock(i) <=> /\ InSegment(lines, Before(i), n, i)
                          /\ HasBegin(lines, Before(i), n)
        /\ InBlock(i) => BlockTimeAt(lines, Before(i), n, SegmentTime(i))
    BY <1>2, <2>4, <2>5
  <2>7. E = Before(i)
    BY <1>5, <2>1, <2>3, <2>4, <2>6
  <2>8. InBlock(i) /\ BlockTimeAt(lines, E, n, SegmentTime(i))
    BY <2>1, <2>2, <2>6, <2>7
  <2>9. r.time = SegmentTime(i)
    <3>1. n \in 0..Len(lines) /\ E \in 0..n
      BY <2>1, <2>4 DEF n
    <3> QED BY <2>2, <2>8, <3>1, BlockTimeUnique
  <2>10. r = Rec(i, SegmentTime(i), TRUE)
    <3>1. r.incomplete = TRUE
      BY <2>2 DEF RuleRecord
    <3> QED BY <2>2, <2>9, <3>1 DEF Rec, RuleRecord, i
  <2>11. Row(i) = Rec(i, SegmentTime(i), TRUE)
    BY <1>4, <2>4, <2>5
  <2> QED BY <2>4, <2>8, <2>10, <2>11
<1>8. ASSUME NEW i \in Marked("text"), InBlock(i) PROVE Row(i) \in Rows
  <2>1. PICK m \in i..n :
             /\ Before(i) \in 0..i - 1 /\ LastEnd(lines, m, Before(i))
             /\ After(i) = {} => m = n
             /\ After(i) # {} => m + 1 \in 1..n /\ lines[m + 1].mark = "end"
             /\ InSegment(lines, Before(i), m, i)
             /\ After(i) # {} \/ HasBegin(lines, Before(i), m)
             /\ BlockTimeAt(lines, Before(i), m, SegmentTime(i))
    BY <1>2, <1>8
  <2> DEFINE E == Before(i)
             t == SegmentTime(i)
  <2>2. /\ E \in 0..m /\ m \in 0..Len(lines) /\ LastEnd(lines, m, E) /\ InSegment(lines, E, m, i)
        /\ BlockTimeAt(lines, E, m, t)
    BY <1>1, <1>3, <2>1 DEF n
  <2>3. After(i) = {} => m = n /\ HasBegin(lines, E, m)
    BY <2>1
  <2>4. After(i) # {} => m + 1 \in 1..n /\ lines[m + 1].mark = "end"
    BY <2>1
  <2>5. Row(i) = Rec(i, t, IF After(i) = {} THEN TRUE ELSE FALSE)
    BY <1>4
  <2> HIDE DEF E, t
  <2>6. t \in Int
    BY <2>2, BlockTimeUnique
  <2>7. CASE After(i) = {}
    <3>1. Row(i) = Rec(i, t, TRUE)
      BY <2>5, <2>7
    <3>2. /\ Row(i) \in RuleRecord /\ Row(i).line = i /\ Row(i).time = t /\ Row(i).incomplete = TRUE
      BY <1>3, <2>6, <3>1 DEF Rec, RuleRecord
    <3>3. Row(i) \in SegmentRows(lines, E, n, TRUE)
      BY <2>2, <2>3, <2>7, <3>2 DEF SegmentRows
    <3>4. E \in 0..n /\ LastEnd(lines, n, E) /\ HasBegin(lines, E, n)
      BY <2>2, <2>3, <2>7
    <3> QED BY <3>2, <3>3, <3>4 DEF OpenRows, n
  <2>8. CASE After(i) # {}
    <3>1. Row(i) = Rec(i, t, FALSE)
      BY <2>5, <2>8
    <3>2. /\ Row(i) \in RuleRecord /\ Row(i).line = i /\ Row(i).time = t /\ Row(i).incomplete = FALSE
      BY <1>3, <2>6, <3>1 DEF Rec, RuleRecord
    <3>3. Row(i) \in SegmentRows(lines, E, m, FALSE)
      BY <2>2, <3>2 DEF SegmentRows
    <3> DEFINE T == m + 1
    <3>4. T \in 1..n /\ lines[T].mark = "end" /\ T - 1 = m
      BY <1>1, <2>2, <2>4, <2>8
    <3> HIDE DEF T
    <3>5. E \in 0..T - 1 /\ LastEnd(lines, T - 1, E) /\ Row(i) \in SegmentRows(lines, E, T - 1, FALSE)
      BY <2>2, <3>3, <3>4, Zenon
    <3> QED BY <3>2, <3>4, <3>5 DEF ClosedRows, n
  <2> QED BY <2>7, <2>8
<1>9. Rows = Whole
  BY <1>6, <1>7, <1>8
<1>10. Gives(legacy.out, Whole)
  BY <1>9
<1> QED BY <1>10 DEF LegacyBlocksAreSegments, Row, SegmentTime, BeginTime, Body, InBlock, Begins, After, Before

-----------------------------------------------------------------------------
(* A file, from its first line to its end *)

MatchingInv ==
    /\ ValidAt(lines, Len(lines), previous) /\ StampsInv(lines, stamps)
    /\ LegacyInv(lines, legacy) /\ StrictInv(lines, strict)

MatchedInv ==
    /\ strict.out \in Seq(RuleRecord)
    /\ Gives(strict.out, StrictRows(lines) \cup HeadRows(lines))
    /\ Gives(legacy.out, ClosedRows(lines) \cup OpenRows(lines))

RulesInv ==
    /\ lines \in Seq(Line) /\ eof \in BOOLEAN
    /\ LineInv(lines, block)
    /\ ~eof => mode = "match" /\ MatchingInv
    /\ eof => MatchedInv

LEMMA NoRows ==
    /\ LineRows(<<>>) = {} /\ ClosedRows(<<>>) = {} /\ OpenRows(<<>>) = {}
    /\ StrictRows(<<>>) = {} /\ HeadRows(<<>>) = {} /\ Gives(<<>>, {})
    /\ <<>> \in Seq(RuleRecord) /\ <<>> \in Seq(Line) /\ Len(<<>>) = 0
<1> DEFINE none == <<>>
<1>1. /\ none \in Seq(RuleRecord) /\ none \in Seq(Line) /\ none \in Seq(Nat) /\ Len(none) = 0
      /\ DOMAIN none = {} /\ 1..0 = {}
  OBVIOUS
<1> HIDE DEF none
<1>2. LineRows(none) = {} /\ ClosedRows(none) = {} /\ StrictRows(none) = {}
  BY <1>1 DEF LineRows, ClosedRows, StrictRows
<1>3. OpenRows(none) = {}
  <2>1. \A E \in 0..0 : ~HasBegin(none, E, 0)
    BY DEF HasBegin
  <2> QED BY <1>1, <2>1 DEF OpenRows
<1>4. HeadRows(none) = {}
  BY <1>1 DEF HeadRows, TimedRows
<1>5. Gives(none, {})
  <2>1. ToSet(none) = {}
    BY <1>1 DEF ToSet
  <2>2. Ascending(none)
    BY <1>1 DEF Ascending
  <2> QED BY <2>1, <2>2 DEF Gives
<1> QED BY <1>1, <1>2, <1>3, <1>4, <1>5 DEF none

\* The state of a new file, of the three ways and of no line at all.
LEMMA RulesInvStarts ==
    /\ LineInv(<<>>, [active |-> FALSE, anchor |-> NoTime, out |-> <<>>])
    /\ LegacyInv(<<>>, [explicit |-> FALSE, anchor |-> NoTime, segment |-> NoTime,
                        buffer |-> <<>>, out |-> <<>>])
    /\ StrictInv(<<>>, [mode |-> "head", head |-> <<>>, out |-> <<>>])
    /\ StampsInv(<<>>, <<>>) /\ ValidAt(<<>>, 0, NoTime)
<1> DEFINE none == <<>>
           blk == [active |-> FALSE, anchor |-> NoTime, out |-> none]
           leg == [explicit |-> FALSE, anchor |-> NoTime, segment |-> NoTime, buffer |-> none, out |-> none]
           str == [mode |-> "head", head |-> none, out |-> none]
<1>1. /\ none \in Seq(RuleRecord) /\ none \in Seq(1..0) /\ none \in Seq(Int) /\ Len(none) = 0
      /\ DOMAIN none = {} /\ NoTime \in Int
  BY DEF NoTime
<1>2. /\ Gives(none, LineRows(none)) /\ Gives(none, ClosedRows(none)) /\ Gives(none, StrictRows(none))
  BY NoRows
<1> HIDE DEF none
<1>3. ToSet(none) = {} /\ Increasing(none)
  BY <1>1 DEF ToSet, Increasing
<1>4. ValidAt(none, 0, NoTime)
  <2>1. \A j \in 0 + 1..0 : FALSE
    OBVIOUS
  <2> QED BY <2>1 DEF ValidAt, NoTime
<1>5. LineInv(none, blk)
  <2>1. blk.active = FALSE /\ blk.out = none
    OBVIOUS
  <2>2. blk \in [active : BOOLEAN, anchor : Int, out : Seq(RuleRecord)]
    BY <1>1
  <2>3. \A s \in 1..0 : FALSE
    OBVIOUS
  <2> HIDE DEF blk
  <2> QED BY <1>1, <1>2, <2>1, <2>2, <2>3 DEF LineInv
<1>6. LegacyInv(none, leg)
  <2>1. leg.explicit = FALSE /\ leg.out = none /\ leg.buffer = none /\ leg.segment = NoTime
    OBVIOUS
  <2>2. leg \in [explicit : BOOLEAN, anchor : Int, segment : Int,
                 buffer : Seq(1..0), out : Seq(RuleRecord)]
    BY <1>1
  <2>3. LastEnd(none, 0, 0) /\ ~HasBegin(none, 0, 0)
    BY DEF LastEnd, HasBegin
  <2>4. \A i : i \in ToSet(none) <=> i \in 0 + 1..0
    BY <1>3
  <2>5. 0 \in 0..0 /\ ValidAt(none, 0, leg.segment)
    BY <1>4, <2>1
  <2> HIDE DEF leg
  <2> QED BY <1>1, <1>2, <1>3, <2>1, <2>2, <2>3, <2>4, <2>5 DEF LegacyInv
<1>7. StrictInv(none, str)
  <2>1. str.mode = "head" /\ str.out = none /\ str.head = none
    OBVIOUS
  <2>2. str \in [mode : {"head", "active", "outside"}, head : Seq(1..0), out : Seq(RuleRecord)]
    BY <1>1
  <2>3. Unbound(none, 1, 0) /\ \A i : i \in ToSet(none) <=> i \in 1..0
    BY <1>3 DEF Unbound
  <2> HIDE DEF str
  <2> QED BY <1>1, <1>2, <1>3, <2>1, <2>2, <2>3 DEF StrictInv
<1>8. StampsInv(none, none)
  BY <1>1 DEF StampsInv
<1> QED BY <1>4, <1>5, <1>6, <1>7, <1>8 DEF none, blk, leg, str

\* The times of the lines are kept up.
LEMMA StampsStep ==
    ASSUME NEW L \in Seq(Line), NEW x \in Line, lines = L, ValidAt(L, Len(L), previous),
           StampsInv(L, stamps)
    PROVE  StampsInv(Append(L, x), Append(stamps, LineStamp(x, Len(L) + 1)))
<1> DEFINE M == Append(L, x)
           n == Len(L)
           t == LineStamp(x, n + 1)
           w == Append(stamps, t)
<1>1. n \in Nat /\ Len(M) = n + 1
  BY AppendLine
<1>2. TimeAt(M, n + 1, t) /\ t \in Int
  BY TimeOfNew
<1>3. \A i \in 1..n : \A u : TimeAt(M, i, u) <=> TimeAt(L, i, u)
  BY TimesStay
<1>4. stamps \in Seq(Int) /\ Len(stamps) = n /\ \A i \in 1..n : TimeAt(L, i, stamps[i])
  BY DEF StampsInv
<1> HIDE DEF M, n, t
<1>5. w \in Seq(Int) /\ Len(w) = n + 1 /\ w[n + 1] = t /\ \A i \in 1..n : w[i] = stamps[i]
  BY <1>2, <1>4
<1> HIDE DEF w
<1>6. \A i \in 1..n + 1 : TimeAt(M, i, w[i])
  <2> TAKE i \in 1..n + 1
  <2>1. CASE i = n + 1
    BY <1>2, <1>5, <2>1
  <2>2. CASE i # n + 1
    <3>1. i \in 1..n
      BY <1>1, <2>2
    <3> QED BY <1>3, <1>4, <1>5, <3>1
  <2> QED BY <2>1, <2>2
<1>7. StampsInv(M, w)
  BY <1>1, <1>5, <1>6 DEF StampsInv
<1> QED BY <1>7 DEF M, n, t, w

LEMMA RulesInvInit == ReadingInit => RulesInv
<1> SUFFICES ASSUME ReadingInit PROVE RulesInv
  OBVIOUS
<1>1. /\ lines = <<>> /\ eof = FALSE /\ previous = NoTime /\ stamps = <<>> /\ mode = "match"
      /\ block = [active |-> FALSE, anchor |-> NoTime, out |-> <<>>]
      /\ legacy = [explicit |-> FALSE, anchor |-> NoTime, segment |-> NoTime,
                   buffer |-> <<>>, out |-> <<>>]
      /\ strict = [mode |-> "head", head |-> <<>>, out |-> <<>>]
  BY DEF ReadingInit, RulesInit
<1>2. LineInv(lines, block) /\ LegacyInv(lines, legacy) /\ StrictInv(lines, strict) /\ StampsInv(lines, stamps)
  BY <1>1, RulesInvStarts
<1>3. ValidAt(lines, Len(lines), previous) /\ lines \in Seq(Line)
  BY <1>1, RulesInvStarts, NoRows
<1> QED BY <1>1, <1>2, <1>3 DEF RulesInv, MatchingInv

LEMMA RulesInvStep == RulesInv /\ [ReadingNext]_readingVars => RulesInv'
<1> SUFFICES ASSUME RulesInv, [ReadingNext]_readingVars PROVE RulesInv'
  OBVIOUS
<1>1. lines \in Seq(Line) /\ eof \in BOOLEAN /\ LineInv(lines, block)
  BY DEF RulesInv
<1>2. /\ ~eof => /\ mode = "match" /\ ValidAt(lines, Len(lines), previous) /\ StampsInv(lines, stamps)
                 /\ LegacyInv(lines, legacy) /\ StrictInv(lines, strict)
      /\ eof => /\ strict.out \in Seq(RuleRecord)
                /\ Gives(strict.out, StrictRows(lines) \cup HeadRows(lines))
                /\ Gives(legacy.out, ClosedRows(lines) \cup OpenRows(lines))
  BY DEF RulesInv, MatchingInv, MatchedInv
<1>3. ASSUME NEW x \in Line, ReadLine(x), mode' = mode PROVE RulesInv'
  <2> DEFINE i == Len(lines) + 1
  <2>1. /\ ~eof /\ eof' = eof /\ lines' = Append(lines, x)
        /\ stamps' = Append(stamps, LineStamp(x, i)) /\ previous' = NextPrevious(x, i)
        /\ block' = LineBlock(x, i) /\ legacy' = LegacyBlock(x, i) /\ strict' = StrictBlock(x, i)
    BY <1>3 DEF ReadLine
  <2>2. lines' \in Seq(Line) /\ Len(lines') = i
    BY <1>1, <2>1
  <2>3. LineInv(lines', block')
    BY <1>1, <1>2, <2>1, LineInvStep
  <2>4. LegacyInv(lines', legacy')
    BY <1>1, <1>2, <2>1, LegacyInvStep
  <2>5. StrictInv(lines', strict')
    BY <1>1, <1>2, <2>1, StrictInvStep
  <2>6. StampsInv(lines', stamps')
    BY <1>1, <1>2, <2>1, StampsStep
  <2>7. ValidAt(lines', Len(lines'), previous')
    BY <1>1, <1>2, <2>1, <2>2, TimeOfNew
  <2>8. MatchingInv'
    BY <2>4, <2>5, <2>6, <2>7 DEF MatchingInv
  <2>9. eof' = FALSE /\ mode' = "match"
    BY <1>1, <1>2, <1>3, <2>1
  <2> QED BY <2>2, <2>3, <2>8, <2>9 DEF RulesInv
<1>4. ASSUME EndOfFile PROVE RulesInv'
  <2>1. /\ ~eof /\ eof' = TRUE /\ lines' = lines /\ block' = block
        /\ legacy' = IF legacy.explicit THEN [legacy EXCEPT !.out = Flushed(TRUE)] ELSE legacy
        /\ strict' = [strict EXCEPT !.out = @ \o Retained(strict.head)]
    BY <1>4 DEF EndOfFile
  <2>2. LegacyInv(lines, legacy) /\ StrictInv(lines, strict) /\ StampsInv(lines, stamps)
    BY <1>2, <2>1
  <2>3. strict'.out = strict.out \o Retained(strict.head)
    <3>1. strict \in [mode : {"head", "active", "outside"}, head : Seq(1..Len(lines)), out : Seq(RuleRecord)]
      BY <2>2 DEF StrictInv
    <3> QED BY <2>1, <3>1
  <2>4. legacy'.out = IF legacy.explicit THEN Flushed(TRUE) ELSE legacy.out
    <3>1. legacy \in [explicit : BOOLEAN, anchor : Int, segment : Int,
                      buffer : Seq(1..Len(lines)), out : Seq(RuleRecord)]
      BY <2>2 DEF LegacyInv
    <3> QED BY <2>1, <3>1
  <2>5. /\ strict'.out \in Seq(RuleRecord)
        /\ Gives(strict'.out, StrictRows(lines) \cup HeadRows(lines))
    BY <1>1, <2>2, <2>3, StrictEnds
  <2>6. Gives(legacy'.out, ClosedRows(lines) \cup OpenRows(lines))
    BY <1>1, <2>2, <2>4, LegacyEnds
  <2>7. MatchedInv'
    BY <2>1, <2>5, <2>6 DEF MatchedInv
  <2>8. LineInv(lines', block')
    BY <1>1, <2>1
  <2> QED BY <1>1, <2>1, <2>7, <2>8 DEF RulesInv
<1>5. ASSUME NEW hits, NEW context, NEW limit, NEW paged, Ask(hits, context, limit, paged) PROVE RulesInv'
  <2>1. /\ eof /\ eof' = eof /\ lines' = <<>>
        /\ block' = [active |-> FALSE, anchor |-> NoTime, out |-> <<>>]
        /\ legacy' = [explicit |-> FALSE, anchor |-> NoTime, segment |-> NoTime,
                      buffer |-> <<>>, out |-> <<>>]
        /\ strict' = [mode |-> "head", head |-> <<>>, out |-> <<>>]
    BY <1>5 DEF Ask
  <2>2. strict'.out = <<>> /\ legacy'.out = <<>>
    BY <2>1
  <2>3. MatchedInv'
    BY <2>1, <2>2, NoRows DEF MatchedInv
  <2>4. lines' \in Seq(Line) /\ LineInv(lines', block')
    BY <2>1, NoRows, RulesInvStarts
  <2> QED BY <2>1, <2>3, <2>4 DEF RulesInv
<1>6. ASSUME UNCHANGED matchVars, mode' = mode \/ eof PROVE RulesInv'
  <2>1. /\ lines' = lines /\ eof' = eof /\ previous' = previous /\ stamps' = stamps
        /\ block' = block /\ legacy' = legacy /\ strict' = strict
    BY <1>6 DEF matchVars
  <2>2. MatchingInv => MatchingInv'
    BY <2>1 DEF MatchingInv
  <2>3. MatchedInv => MatchedInv'
    BY <2>1 DEF MatchedInv
  <2> QED BY <1>6, <2>1, <2>2, <2>3 DEF RulesInv
<1>7. CASE Matching
  BY <1>3, <1>4, <1>7 DEF Matching, RulesNext
<1>8. CASE FetchWindow \/ FetchPage
  <2>1. UNCHANGED matchVars /\ mode = "ask"
    BY <1>8 DEF FetchWindow, FetchPage
  <2>2. eof
    BY <1>2, <2>1
  <2> QED BY <1>6, <2>1, <2>2
<1>9. CASE UNCHANGED readingVars
  BY <1>6, <1>9 DEF readingVars, matchVars
<1>10. CASE \E hits \in SUBSET (1..MaxLines), context \in 0..MaxContext,
              limit \in 1..MaxLimit, paged \in BOOLEAN : Ask(hits, context, limit, paged)
  BY <1>5, <1>10
<1> QED BY <1>7, <1>8, <1>9, <1>10 DEF ReadingNext

LEMMA RulesInvHolds == ReadingSpec => []RulesInv
BY RulesInvInit, RulesInvStep, PTL DEF ReadingSpec

\* BlocksFollowRules for files of any length, whatever their lines: each of the
\* three ways LogGroup cuts a file into blocks gives the lines its rule promises,
\* each once and in the order of the file, with the time of its rule.
THEOREM BlocksTheorem == ReadingSpec => []BlocksFollowRules
<1>1. RulesInv => BlocksFollowRules
  <2> SUFFICES ASSUME RulesInv PROVE BlocksFollowRules
    OBVIOUS
  <2>1. lines \in Seq(Line) /\ LineInv(lines, block) /\ eof \in BOOLEAN
    BY DEF RulesInv
  <2>2. LineBlocksFromStart
    BY <2>1, LineInvGives
  <2>3. eof => /\ Gives(strict.out, StrictRows(lines) \cup HeadRows(lines))
               /\ Gives(legacy.out, ClosedRows(lines) \cup OpenRows(lines))
    BY DEF RulesInv, MatchedInv
  <2>4. StrictBlocksAreConfirmed
    <3>1. CASE eof
      BY <2>1, <2>3, <3>1, StrictGives
    <3>2. CASE ~eof
      BY <3>2 DEF StrictBlocksAreConfirmed
    <3> QED BY <3>1, <3>2
  <2>5. LegacyBlocksAreSegments
    <3>1. CASE eof
      BY <2>1, <2>3, <3>1, LegacyGives
    <3>2. CASE ~eof
      BY <3>2 DEF LegacyBlocksAreSegments
    <3> QED BY <3>1, <3>2
  <2> QED BY <2>2, <2>4, <2>5 DEF BlocksFollowRules
<1> QED BY <1>1, RulesInvHolds, PTL

-----------------------------------------------------------------------------
(* A reader of the rows *)

Hits == InSequence(asked.hits)
HitRows == InSequence(Context(asked.hits, target, asked.context))

\* What a reader has seen so far of all that the filter selects.
ScrollInv ==
    /\ Len(Shown) <= Len(HitRows) /\ Shown = SubSeq(HitRows, 1, Len(Shown))
    /\ mode = "done" => Len(Shown) = Len(HitRows)

\* The pages so far, and whether there are more.
PagesInv ==
    /\ \A p \in 1..Len(answers) :
         /\ answers[p] = Page(asked.hits, target, asked.context, p, asked.limit)
         /\ p > 1 => (p - 1) * asked.limit < Cardinality(asked.hits)
    /\ mode = "ask" => Len(answers) = 0 \/ Len(answers) * asked.limit < Cardinality(asked.hits)
    /\ mode = "done" => Len(answers) > 0 /\ Cardinality(asked.hits) <= Len(answers) * asked.limit

ReadingInv ==
    /\ mode \in {"match", "ask", "done"} /\ target \in Nat /\ answers \in Seq(Seq(Nat))
    /\ asked \in [hits : SUBSET (1..target), context : Nat, limit : Nat \ {0}, paged : BOOLEAN]
    /\ mode = "match" => answers = <<>>
    /\ mode # "match" /\ ~asked.paged => ScrollInv
    /\ mode # "match" /\ asked.paged => PagesInv

LEMMA ReadingFacts ==
    ASSUME ReadingInv
    PROVE  /\ asked.hits \in SUBSET (1..target) /\ asked.hits \in SUBSET Nat /\ IsFiniteSet(asked.hits)
           /\ Cardinality(asked.hits) \in Nat /\ target \in Nat
           /\ asked.context \in Nat /\ asked.limit \in Nat \ {0} /\ asked.paged \in BOOLEAN
           /\ answers \in Seq(Seq(Nat)) /\ Shown \in Seq(Nat) /\ Len(Shown) \in Nat /\ Len(answers) \in Nat
           /\ HitRows \in Seq(Nat) /\ Len(HitRows) \in Nat
           /\ Len(HitRows) = Cardinality(Context(asked.hits, target, asked.context))
<1>1. /\ asked.hits \in SUBSET (1..target) /\ target \in Nat /\ asked.context \in Nat
      /\ asked.limit \in Nat \ {0} /\ asked.paged \in BOOLEAN /\ answers \in Seq(Seq(Nat))
  BY DEF ReadingInv
<1>2. IsFiniteSet(1..target) /\ asked.hits \in SUBSET Nat
  <2>1. 1 \in Int /\ target \in Int /\ 1..target \subseteq Nat
    BY <1>1
  <2>2. IsFiniteSet(1..target)
    BY <2>1, FS_Interval
  <2> QED BY <1>1, <2>1, <2>2
<1>3. IsFiniteSet(asked.hits) /\ Cardinality(asked.hits) \in Nat
  <2>1. IsFiniteSet(asked.hits)
    BY <1>1, <1>2, FS_Subset
  <2> QED BY <2>1, FS_CardinalityType
<1>4. Shown \in Seq(Nat)
  <2>1. <<>> \in Seq(Nat)
    OBVIOUS
  <2> QED BY <1>1, <2>1, FlattenAppend DEF Shown
<1>5. Len(Shown) \in Nat /\ Len(answers) \in Nat
  <2>1. Len(answers) \in Nat
    BY <1>1
  <2> QED BY <1>4, <2>1
<1> DEFINE C == Context(asked.hits, target, asked.context)
<1>6. C \in SUBSET Nat /\ IsFiniteSet(C)
  BY <1>1, <1>2, ContextFacts
<1> HIDE DEF C
<1>7. InSequence(C) \in Seq(Nat) /\ Len(InSequence(C)) = Cardinality(C) /\ Len(InSequence(C)) \in Nat
  BY <1>6, InSequenceFacts
<1> QED BY <1>1, <1>2, <1>3, <1>4, <1>5, <1>7 DEF HitRows, C

LEMMA ReadingInvInit == ReadingInit => ReadingInv
<1> SUFFICES ASSUME ReadingInit PROVE ReadingInv
  OBVIOUS
<1>1. mode = "match" /\ target = 0 /\ asked = NoQuery /\ answers = <<>>
  BY DEF ReadingInit
<1>2. asked \in [hits : SUBSET (1..target), context : Nat, limit : Nat \ {0}, paged : BOOLEAN]
  BY <1>1 DEF NoQuery
<1>3. answers \in Seq(Seq(Nat))
  BY <1>1
<1> QED BY <1>1, <1>2, <1>3 DEF ReadingInv

\* The next window continues what is shown.
LEMMA WindowStep ==
    ASSUME ReadingInv, FetchWindow PROVE ReadingInv'
<1> DEFINE full == HitRows
           a == Len(Shown)
           b == SliceEnd(full, a, asked.limit)
           w == Slice(full, a, asked.limit)
<1>1. /\ mode = "ask" /\ ~asked.paged /\ target' = target /\ asked' = asked
      /\ answers' = Append(answers, w)
      /\ mode' = IF a + asked.limit < Len(full) THEN "ask" ELSE "done"
  BY ReadingFacts DEF FetchWindow, Window, WindowHasMore, HitRows
<1>2. /\ full \in Seq(Nat) /\ a \in Nat /\ Shown \in Seq(Nat) /\ Len(full) \in Nat
      /\ asked.limit \in Nat /\ answers \in Seq(Seq(Nat))
  BY ReadingFacts
<1>3. a <= Len(full) /\ Shown = SubSeq(full, 1, a)
  BY <1>1 DEF ReadingInv, ScrollInv
<1>4. Shown' = Shown \o w /\ w \in Seq(Nat) /\ full' = full
  <2>1. w \in Seq(Nat)
    <3> HIDE DEF full, a
    <3> QED BY <1>2, <1>3, SliceFacts
  <2>2. Shown' = FlattenSeq(Append(answers, w))
    BY <1>1 DEF Shown
  <2>3. FlattenSeq(Append(answers, w)) = FlattenSeq(answers) \o w
    <3> HIDE DEF w
    <3> QED BY <1>2, <2>1, FlattenAppend
  <2>4. full' = full
    BY <1>1 DEF HitRows
  <2>5. FlattenSeq(answers) = Shown
    BY DEF Shown
  <2> HIDE DEF w, full
  <2> QED BY <2>1, <2>2, <2>3, <2>4, <2>5
<1> HIDE DEF a, w, full
<1>5. b \in Nat /\ a <= b /\ b <= Len(full) /\ w = SubSeq(full, a + 1, b)
  <2> DEFINE limit == asked.limit
  <2>1. full \in Seq(Nat) /\ a \in Nat /\ limit \in Nat /\ a <= Len(full)
    BY <1>2, <1>3
  <2>2. b = SliceEnd(full, a, limit) /\ w = Slice(full, a, limit)
    BY DEF w
  <2> HIDE DEF limit, b
  <2>3. /\ SliceEnd(full, a, limit) \in Nat /\ a <= SliceEnd(full, a, limit)
        /\ SliceEnd(full, a, limit) <= Len(full)
        /\ Slice(full, a, limit) = SubSeq(full, a + 1, SliceEnd(full, a, limit))
    BY <2>1, SliceFacts
  <2> QED BY <2>2, <2>3
<1>6. b = IF a + asked.limit < Len(full) THEN a + asked.limit ELSE Len(full)
  BY DEF SliceEnd
<1> HIDE DEF b
<1>7. Shown' = SubSeq(full, 1, b)
  <2>1. SubSeq(full, 1, a) \o SubSeq(full, a + 1, b) = SubSeq(full, 1, b)
    BY <1>2, <1>5, SubSeqJoins
  <2> QED BY <1>3, <1>4, <1>5, <2>1
<1>8. Len(Shown') = b
  <2>1. Len(SubSeq(full, 1, b)) = b
    BY <1>2, <1>5
  <2> QED BY <1>7, <2>1
<1>9. answers' \in Seq(Seq(Nat))
  BY <1>1, <1>2, <1>4
<1>10. mode' = "done" => b = Len(full)
  BY <1>1, <1>6
<1>11. ScrollInv'
  BY <1>4, <1>5, <1>7, <1>8, <1>10 DEF ScrollInv, full
<1>12. mode' \in {"ask", "done"}
  BY <1>1
<1>13. asked' \in [hits : SUBSET (1..target'), context : Nat, limit : Nat \ {0}, paged : BOOLEAN] /\ target' \in Nat
  BY <1>1 DEF ReadingInv
<1> QED BY <1>1, <1>9, <1>11, <1>12, <1>13 DEF ReadingInv

LEMMA PageStep ==
    ASSUME ReadingInv, FetchPage PROVE ReadingInv'
<1> DEFINE n == Len(answers)
           limit == asked.limit
           hits == Cardinality(asked.hits)
           page == Page(asked.hits, target, asked.context, n + 1, limit)
<1>1. /\ mode = "ask" /\ asked.paged /\ target' = target /\ asked' = asked
      /\ answers' = Append(answers, page)
      /\ mode' = IF (n + 1 - 1) * limit + limit < hits THEN "ask" ELSE "done"
  BY DEF FetchPage, PageHasMore
<1>2. /\ n \in Nat /\ limit \in Nat \ {0} /\ hits \in Nat /\ answers \in Seq(Seq(Nat))
      /\ asked.hits \in SUBSET (1..target) /\ IsFiniteSet(asked.hits) /\ target \in Nat /\ asked.context \in Nat
  BY ReadingFacts
<1>3. /\ \A p \in 1..n : /\ answers[p] = Page(asked.hits, target, asked.context, p, limit)
                         /\ p > 1 => (p - 1) * limit < hits
      /\ n = 0 \/ n * limit < hits
  BY <1>1 DEF ReadingInv, PagesInv
<1>4. n * limit \in Nat /\ n * limit <= hits
  <2>1. n * limit \in Nat
    <3> HIDE DEF n, limit, hits
    <3> QED BY <1>2
  <2>2. n = 0 => n * limit = 0
    <3> HIDE DEF n, limit, hits
    <3> QED BY <1>2
  <2> HIDE DEF n, limit, hits
  <2> QED BY <1>2, <1>3, <2>1, <2>2
<1>5. page \in Seq(Nat)
  <2>1. n + 1 - 1 = n
    <3> HIDE DEF n
    <3> QED BY <1>2
  <2>2. page = InSequence(Context(ToSet(Slice(InSequence(asked.hits), n * limit, limit)), target, asked.context))
    BY <2>1 DEF Page
  <2> DEFINE a == n * limit
  <2>3. a \in Nat /\ a <= Cardinality(asked.hits)
    BY <1>4
  <2> HIDE DEF a
  <2>4. InSequence(Context(ToSet(Slice(InSequence(asked.hits), a, limit)), target, asked.context)) \in Seq(Nat)
    BY <1>2, <2>3, PageFacts
  <2> QED BY <2>2, <2>4 DEF a
<1> HIDE DEF page
<1>6. /\ answers' \in Seq(Seq(Nat)) /\ Len(answers') = n + 1 /\ answers'[n + 1] = page
      /\ \A p \in 1..n : answers'[p] = answers[p]
  BY <1>1, <1>2, <1>5
<1> HIDE DEF n
<1>7. \A p \in 1..n + 1 : /\ answers'[p] = Page(asked.hits, target, asked.context, p, limit)
                          /\ p > 1 => (p - 1) * limit < hits
  <2> TAKE p \in 1..n + 1
  <2>1. CASE p = n + 1
    <3>1. answers'[p] = Page(asked.hits, target, asked.context, p, limit)
      BY <1>6, <2>1 DEF page
    <3>2. p - 1 = n /\ (p > 1 => n # 0)
      BY <1>2, <2>1
    <3>3. p > 1 => (p - 1) * limit < hits
      <4> HIDE DEF limit, hits
      <4> QED BY <1>3, <3>2
    <3> QED BY <3>1, <3>3
  <2>2. CASE p # n + 1
    <3>1. p \in 1..n
      BY <1>2, <2>2
    <3> QED BY <1>3, <1>6, <3>1
  <2> QED BY <2>1, <2>2
<1>8. (n + 1) * limit = (n + 1 - 1) * limit + limit /\ n + 1 > 0
  <2>1. n + 1 - 1 = n /\ n + 1 > 0
    BY <1>2
  <2>2. (n + 1) * limit = n * limit + limit
    <3> HIDE DEF limit
    <3> QED BY <1>2
  <2> QED BY <2>1, <2>2
<1>9. (n + 1) * limit \in Nat
  <2> HIDE DEF limit
  <2> QED BY <1>2
<1> HIDE DEF limit, hits
<1>10. /\ mode' = "ask" => (n + 1) * limit < hits
       /\ mode' = "done" => hits <= (n + 1) * limit
       /\ mode' \in {"ask", "done"}
  BY <1>1, <1>2, <1>8, <1>9
<1>11. PagesInv'
  BY <1>1, <1>6, <1>7, <1>8, <1>10 DEF PagesInv, limit, hits
<1>12. asked' \in [hits : SUBSET (1..target'), context : Nat, limit : Nat \ {0}, paged : BOOLEAN] /\ target' \in Nat
  BY <1>1 DEF ReadingInv
<1> QED BY <1>1, <1>6, <1>10, <1>11, <1>12 DEF ReadingInv

LEMMA ReadingInvStep ==
    ASSUME RulesInv, ReadingInv, [ReadingNext]_readingVars PROVE ReadingInv'
<1>1. mode \in {"match", "ask", "done"} /\ target \in Nat /\ answers \in Seq(Seq(Nat))
  BY DEF ReadingInv
<1>2. ASSUME UNCHANGED <<mode, target, asked, answers>> PROVE ReadingInv'
  <2>1. mode' = mode /\ target' = target /\ asked' = asked /\ answers' = answers
    BY <1>2
  <2>2. Shown' = Shown /\ HitRows' = HitRows
    BY <2>1 DEF Shown, HitRows
  <2>3. ScrollInv => ScrollInv'
    BY <2>1, <2>2 DEF ScrollInv
  <2>4. PagesInv => PagesInv'
    BY <2>1 DEF PagesInv
  <2> QED BY <2>1, <2>3, <2>4 DEF ReadingInv
<1>3. CASE \E hits \in SUBSET (1..MaxLines), context \in 0..MaxContext,
              limit \in 1..MaxLimit, paged \in BOOLEAN : Ask(hits, context, limit, paged)
  <2>1. PICK hits \in SUBSET (1..MaxLines), context \in 0..MaxContext,
              limit \in 1..MaxLimit, paged \in BOOLEAN : Ask(hits, context, limit, paged)
    BY <1>3
  <2>2. /\ mode = "match" /\ eof /\ mode' = "ask" /\ target' = Len(strict.out)
        /\ hits \in SUBSET (1..Len(strict.out)) /\ answers' = answers
        /\ asked' = [hits |-> hits, context |-> context, limit |-> limit, paged |-> paged]
    BY <2>1 DEF Ask
  <2>3. strict.out \in Seq(RuleRecord)
    BY <2>2 DEF RulesInv, MatchedInv
  <2>4. target' \in Nat
    BY <2>2, <2>3
  <2>5. context \in Nat /\ limit \in Nat \ {0} /\ paged \in BOOLEAN
    BY ReadingAssumption
  <2>6. asked' \in [hits : SUBSET (1..target'), context : Nat, limit : Nat \ {0}, paged : BOOLEAN]
    BY <2>2, <2>5
  <2>7. answers' = <<>>
    BY <2>2 DEF ReadingInv
  <2>8. Shown' = <<>>
    <3>1. Shown' = FlattenSeq(<<>>)
      BY <2>7 DEF Shown
    <3>2. FlattenSeq(<<>>) = <<>>
      <4> DEFINE none == <<>>
      <4>1. Len(none) = 0
        OBVIOUS
      <4> HIDE DEF none
      <4>2. FlattenSeq(none) = none
        BY <4>1 DEF FlattenSeq
      <4> QED BY <4>2 DEF none
    <3> QED BY <3>1, <3>2
  <2> DEFINE full == InSequence(Context(asked'.hits, target', asked'.context))
  <2>9. HitRows' = full
    BY DEF HitRows
  <2>10. full \in Seq(Nat) /\ Len(full) \in Nat
    <3> DEFINE C == Context(asked'.hits, target', asked'.context)
    <3>1. asked'.hits \in SUBSET Nat /\ asked'.context \in Nat
      BY <2>4, <2>6
    <3>2. C \in SUBSET Nat /\ IsFiniteSet(C)
      BY <2>4, <3>1, ContextFacts
    <3> HIDE DEF C
    <3>3. InSequence(C) \in Seq(Nat) /\ Len(InSequence(C)) \in Nat
      BY <3>2, InSequenceFacts
    <3> QED BY <3>3 DEF C
  <2> HIDE DEF full
  <2>11. Len(Shown') = 0 /\ Shown' = SubSeq(full, 1, 0)
    <3>1. SubSeq(full, 1, 0) = <<>>
      BY <2>10
    <3> QED BY <2>8, <3>1
  <2>12. ScrollInv'
    BY <2>2, <2>9, <2>10, <2>11 DEF ScrollInv
  <2>13. PagesInv'
    <3>1. Len(answers') = 0
      BY <2>7
    <3> QED BY <2>2, <3>1 DEF PagesInv
  <2>14. answers' \in Seq(Seq(Nat))
    BY <2>7
  <2> QED BY <2>2, <2>4, <2>6, <2>12, <2>13, <2>14 DEF ReadingInv
<1>4. CASE Matching
  BY <1>2, <1>4 DEF Matching
<1>5. CASE UNCHANGED readingVars
  BY <1>2, <1>5 DEF readingVars
<1> QED BY <1>3, <1>4, <1>5, WindowStep, PageStep DEF ReadingNext

\* When the reader has seen it all, nothing is missing.
LEMMA ScrollIsWhole == ASSUME ReadingInv PROVE ScrollShowsAll
<1> SUFFICES ASSUME mode = "done", ~asked.paged
             PROVE Shown = InSequence({r \in 1..target : \E h \in asked.hits :
                                            r - h \in -asked.context..asked.context})
  BY DEF ScrollShowsAll
<1> DEFINE R == {r \in 1..target : \E h \in asked.hits : r - h \in -asked.context..asked.context}
           C == Context(asked.hits, target, asked.context)
<1>1. Shown = SubSeq(HitRows, 1, Len(Shown)) /\ Len(Shown) = Len(HitRows) /\ HitRows \in Seq(Nat)
  BY ReadingFacts DEF ReadingInv, ScrollInv
<1>2. Shown = HitRows
  <2> DEFINE s == HitRows
  <2>1. s \in Seq(Nat) /\ Shown = SubSeq(s, 1, Len(s))
    BY <1>1
  <2> HIDE DEF s
  <2>2. SubSeq(s, 1, Len(s)) = s
    BY <2>1
  <2> QED BY <2>1, <2>2 DEF s
<1>3. C = R
  <2>1. asked.hits \in SUBSET Nat /\ target \in Nat /\ asked.context \in Nat
    BY ReadingFacts
  <2>2. \A r : r \in C <=> r \in 1..target /\ \E h \in asked.hits : r - h \in -asked.context..asked.context
    BY <2>1, ContextFacts
  <2> HIDE DEF C
  <2> QED BY <2>2
<1> HIDE DEF C, R
<1>4. HitRows = InSequence(C)
  BY DEF HitRows, C
<1>5. Shown = InSequence(R)
  BY <1>2, <1>3, <1>4
<1> QED BY <1>5 DEF R

LEMMA PagesAreWhole == ASSUME ReadingInv PROVE PagesKeepContext
<1> SUFFICES ASSUME mode = "done", asked.paged
             PROVE /\ \A h \in asked.hits : \E p \in DOMAIN answers :
                        \A r \in 1..target : r - h \in -asked.context..asked.context => r \in ToSet(answers[p])
                   /\ \A p \in DOMAIN answers : p > 1 => asked.hits \cap ToSet(answers[p]) # {}
                   /\ \A p \in DOMAIN answers : \A k \in 1..(Len(answers[p]) - 1) :
                        answers[p][k] < answers[p][k + 1]
  BY DEF PagesKeepContext
<1> DEFINE H == asked.hits
           n == target
           c == asked.context
           limit == asked.limit
           h == InSequence(H)
           N == Cardinality(H)
           m == Len(answers)
<1>1. /\ H \in SUBSET (1..n) /\ H \in SUBSET Nat /\ IsFiniteSet(H) /\ N \in Nat /\ n \in Nat /\ c \in Nat
      /\ limit \in Nat \ {0} /\ m \in Nat /\ DOMAIN answers = 1..m
  BY ReadingFacts
<1>2. /\ \A p \in 1..m : answers[p] = Page(H, n, c, p, limit) /\ (p > 1 => (p - 1) * limit < N)
      /\ m > 0 /\ N <= m * limit
  BY DEF ReadingInv, PagesInv
<1>3. DOMAIN h = 1..N /\ \A x \in H : \E i \in DOMAIN h : h[i] = x
  <2>1. Len(h) = N /\ DOMAIN h = 1..Len(h)
    <3> HIDE DEF H
    <3> QED BY <1>1, InSequenceFacts
  <2>2. \A x \in H : \E i \in DOMAIN h : h[i] = x
    <3> HIDE DEF H
    <3> QED BY <1>1, InSequenceFacts
  <2> HIDE DEF h, H, N
  <2> QED BY <2>1, <2>2
<1> HIDE DEF H, n, c, limit, N, m
\* What a page before the last hit shows.
<1>4. ASSUME NEW p \in 1..m, (p - 1) * limit <= N
      PROVE  /\ \A i \in 1..Len(answers[p]) - 1 : answers[p][i] < answers[p][i + 1]
             /\ (p - 1) * limit < N => H \cap ToSet(answers[p]) # {}
             /\ \A k \in 1..N : (p - 1) * limit < k /\ k <= (p - 1) * limit + limit =>
                  \A r \in 1..n : r - h[k] \in -c..c => r \in ToSet(answers[p])
  <2> DEFINE a == (p - 1) * limit
  <2>1. a \in Nat /\ a <= N
    <3>1. p - 1 \in Nat
      BY <1>1
    <3>2. a \in Nat
      BY <1>1, <3>1
    <3> QED BY <1>4, <3>2
  <2>2. answers[p] = InSequence(Context(ToSet(Slice(InSequence(H), a, limit)), n, c))
    BY <1>2 DEF Page
  <2> HIDE DEF a
  <2> DEFINE page == InSequence(Context(ToSet(Slice(InSequence(H), a, limit)), n, c))
  <2>3. \A i \in 1..Len(page) - 1 : page[i] < page[i + 1]
    BY <1>1, <2>1, PageFacts DEF N
  <2>4. a < N => H \cap ToSet(page) # {}
    BY <1>1, <2>1, PageFacts DEF N
  <2>5. \A k \in 1..N : a < k /\ k <= a + limit => \A r \in 1..n : r - h[k] \in -c..c => r \in ToSet(page)
    BY <1>1, <2>1, PageFacts DEF N
  <2> HIDE DEF page, h
  <2>6. answers[p] = page
    BY <2>2 DEF page
  <2> QED BY <2>3, <2>4, <2>5, <2>6 DEF a
<1>5. ASSUME NEW p \in 1..m PROVE (p - 1) * limit <= N /\ (p > 1 => (p - 1) * limit < N)
  <2>1. CASE p > 1
    <3>1. (p - 1) * limit \in Nat
      <4>1. p - 1 \in Nat
        BY <1>1
      <4> QED BY <1>1, <4>1
    <3> QED BY <1>1, <1>2, <2>1, <3>1
  <2>2. CASE ~(p > 1)
    <3>1. p - 1 = 0
      BY <1>1, <2>2
    <3>2. (p - 1) * limit = 0
      BY <1>1, <3>1
    <3> QED BY <1>1, <2>2, <3>2
  <2> QED BY <2>1, <2>2
<1>6. ASSUME NEW x \in H
      PROVE \E p \in 1..m : \A r \in 1..n : r - x \in -c..c => r \in ToSet(answers[p])
  <2>1. PICK k \in 1..N : h[k] = x
    BY <1>3
  <2> DEFINE S == {q \in Nat : k <= q * limit}
  <2>2. m \in S
    <3>1. m * limit \in Nat
      BY <1>1
    <3> QED BY <1>1, <1>2, <3>1
  <2>3. PICK p \in S : \A q \in S : p <= q
    BY <2>2, LeastNumber
  <2>4. p # 0
    <3>1. 0 * limit = 0
      BY <1>1
    <3> QED BY <1>1, <2>3, <3>1
  <2>5. p \in 1..m /\ p - 1 \in Nat
    BY <1>1, <2>2, <2>3, <2>4
  <2>6. ~(k <= (p - 1) * limit)
    <3>1. p - 1 \notin S
      <4>1. ~(p <= p - 1)
        BY <2>5
      <4> QED BY <2>3, <4>1
    <3> QED BY <2>5, <3>1
  <2>7. k <= p * limit
    BY <2>3
  <2> HIDE DEF S
  <2>8. (p - 1) * limit < k /\ k <= (p - 1) * limit + limit
    <3> DEFINE a == (p - 1) * limit
    <3>1. p * limit = a + limit /\ a \in Nat
      BY <1>1, <2>5
    <3> HIDE DEF a
    <3>2. ~(k <= a) /\ k <= a + limit
      <4>1. ~(k <= a)
        BY <2>6 DEF a
      <4> QED BY <2>7, <3>1, <4>1
    <3>3. a < k
      BY <1>1, <3>1, <3>2
    <3> QED BY <3>2, <3>3 DEF a
  <2>9. (p - 1) * limit <= N
    BY <1>5, <2>5
  <2>10. \A r \in 1..n : r - h[k] \in -c..c => r \in ToSet(answers[p])
    BY <1>4, <2>5, <2>8, <2>9
  <2> QED BY <2>1, <2>5, <2>10
<1>7. \A p \in 1..m : p > 1 => H \cap ToSet(answers[p]) # {}
  BY <1>4, <1>5
<1>8. \A p \in 1..m : \A k \in 1..(Len(answers[p]) - 1) : answers[p][k] < answers[p][k + 1]
  BY <1>4, <1>5
<1> QED BY <1>1, <1>6, <1>7, <1>8 DEF H, n, c

\* ReadingsAreWhole for files of any length and queries with any context and
\* limit: whoever scrolls sees every row around a hit once and in order, and
\* whoever pages finds each hit with all its context on one page.
THEOREM ReadingsTheorem == ReadingSpec => []ReadingsAreWhole
<1>1. ReadingInit => RulesInv /\ ReadingInv
  BY RulesInvInit, ReadingInvInit
<1>2. RulesInv /\ ReadingInv /\ [ReadingNext]_readingVars => (RulesInv /\ ReadingInv)'
  BY RulesInvStep, ReadingInvStep
<1>3. RulesInv /\ ReadingInv => ReadingsAreWhole
  BY ScrollIsWhole, PagesAreWhole DEF ReadingsAreWhole
<1> QED BY <1>1, <1>2, <1>3, PTL DEF ReadingSpec
=============================================================================
