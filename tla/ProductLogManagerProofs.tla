--------------------------- MODULE ProductLogManagerProofs ---------------------------
(***************************************************************************)
(* Proofs about ProductLogManager for any number of batches and uploads,   *)
(* any sizes and limit, and any number of restarts: the task list, what a  *)
(* retention pass may remove while the worker goes on, what survives a     *)
(* restart, and that a pass leaves nothing it could still remove.          *)
(***************************************************************************)
EXTENDS ProductLogManager, FiniteSetTheorems, TLAPS

Sweeping == phase \in {"sweep", "follow"}

\* What the holder of the lock relies on at each step of its operation.
HolderInv ==
    /\ phase = "idle" <=> op \in {"free", "mkdir", "register"}
    /\ op = "create" => item \in Uploads
    /\ op \in {"start", "mkdir", "register"} => active = NoTree /\ guard \in Trees \cup {External}
    /\ op = "start" => started < MaxBatches
    /\ op \in {"mkdir", "register"} =>
          item \in 1..started /\ batchDir[item] # "none" /\ reported[item] = "none"
    /\ ~up => op = "free" /\ active = NoTree

\* The worker belongs to the active task, the only one that is not over.
WorkerInv ==
    /\ worker = "none" <=> active = NoTree
    /\ active # NoTree =>
          active \in 1..started /\ batchDir[active] # "none" /\ reported[active] = "none"
    /\ \A b \in Batches : status[b] = "preparing" => b = active
    /\ worker \in {"begin", "analyse", "announce"} => status[active] = "preparing"
    /\ worker = "return" => status[active] \in {"preparing", outcome}
    /\ worker \in {"persist", "writing", "complete"} => status[active] \in Terminals
    /\ \A b \in Batches : reported[b] # "none" => b <= started

\* A success, in memory or on disk, is one that was published.
PublishedInv ==
    /\ Ready \subseteq published
    /\ \A b \in Batches : batchDir[b] = "ready" => b \in published
    /\ outcome = "ready" => active \in published

\* What a pass may still remove is there, and nobody who stays reads it.
QueueInv ==
    Sweeping =>
        /\ queue \cap Batches \subseteq BatchDirs
        /\ active \notin queue \cup gone /\ viewed \notin queue
        /\ \A b \in Listed : input[b] \notin queue \cap Batches
        /\ \A u \in queue \cap Uploads : u \in uploadDirs /\ Bound(u) \cap BatchDirs = {}
        /\ \A b \in gone \cap Batches : batchDir[b] = "none"
        /\ gone \cap uploadDirs = {}
        /\ phase = "follow" =>
              /\ orphan \in uploadDirs \ queue
              /\ Bound(orphan) \cap BatchDirs = {}
              /\ gone \cap Batches # {}

IInv == TypeOK /\ HolderInv /\ WorkerInv /\ PublishedInv /\ QueueInv

\* The newest results are not among them either, if no write of a manifest fails.
NewestInv == Sweeping => queue \cap (Newest(Terminal) \cup Newest(Ready)) = {}

\* An outcome once told is in the list and on disk, if both are there.
ToldInv ==
    /\ \A b \in Batches : reported[b] # "none" =>
          batchDir[b] \in {"none", reported[b]} /\ status[b] \in {"unlisted", reported[b]}
    /\ worker = "complete" => batchDir[active] = status[active]

\* Without a worker a pass knows the bytes in use and everything removable.
SettleInv ==
    worker = "none" =>
        /\ Sweeping => current = Usage
        /\ phase = "sweep" /\ gone \cap Batches = {} => Candidates \subseteq queue
        /\ phase = "settled" /\ Usage >= Limit => Candidates = {}
USE DEF diskVars, taskVars, workerVars, passVars, lockVars, history, vars, Enter, PassOver, Leave

-----------------------------------------------------------------------------
(* Trees and bytes *)

\* Batches, uploads and the two values that are neither.
LEMMA TreeFacts ==
    /\ MaxBatches \in Nat
    /\ Batches \cap Uploads = {}
    /\ NoTree \notin Trees /\ External \notin Trees /\ External # NoTree
BY ManagerAssumption DEF Trees, Batches

\* Bytes are a number, however many trees there are.
LEMMA UsageInt ==
    \A S \in SUBSET Batches, T \in SUBSET Uploads :
        BatchSize * Cardinality(S) + UploadSize * Cardinality(T) \in Int
<1>1. IsFiniteSet(Batches) /\ IsFiniteSet(Uploads)
  BY ManagerAssumption, FS_Interval DEF Batches
<1> QED BY <1>1, FS_Subset, FS_CardinalityType, ManagerAssumption

LEMMA SizeInt == UploadSize \in Int /\ \A t \in Trees : SizeOf(t) \in Int
BY ManagerAssumption DEF SizeOf

\* A pass looks at trees only.
LEMMA CandidateTrees ==
    ASSUME TypeOK
    PROVE  Candidates \subseteq Trees /\ ProtectedBatches \subseteq Batches /\ ProtectedUploads \subseteq Uploads
BY DEF TypeOK, Candidates, ProtectedBatches, ProtectedUploads, BatchDirs, Listed, Terminal,
         Ready, Newest, Trees

LEMMA LoadedType == \A state \in DirStates : Loaded(state) \in {"unlisted"} \cup Terminals
BY DEF Loaded, DirStates, Terminals

\* Each operation keeps the types.
LEMMA TypeStep ==
    ASSUME IInv, [Next]_vars
    PROVE  TypeOK'
<1> USE DEF IInv, TypeOK, Terminals, DirStates, Trees, Batches
<1>1. CASE Scan
  <2>1. Usage \in Int
    BY UsageInt DEF Usage
  <2>2. shield' \subseteq Trees /\ queue' \subseteq Trees
    BY <1>1, CandidateTrees DEF Scan
  <2> QED BY <1>1, <2>1, <2>2 DEF Scan
<1>2. ASSUME NEW t \in Trees, RemoveTree(t) PROVE TypeOK'
  <2>1. SizeOf(t) \in Int /\ Orphaned(t) \subseteq Uploads
    BY SizeInt DEF Orphaned
  <2>2. /\ batchDir' \in [Batches -> DirStates] /\ uploadDirs' \subseteq Uploads
        /\ queue' \subseteq Trees /\ gone' \subseteq Trees /\ current' \in Int
        /\ phase' \in {"idle", "scan", "sweep", "follow", "settled"} /\ orphan' \in Uploads \cup {NoTree}
    BY <1>2, <2>1 DEF RemoveTree
  <2> QED BY <1>2, <2>2 DEF RemoveTree
<1>3. CASE RemoveOrphan
  <2>1. orphan \in Trees /\ orphan \in Uploads
    BY <1>3 DEF RemoveOrphan, QueueInv, Sweeping
  <2>2. gone' \subseteq Trees /\ current' \in Int /\ uploadDirs' \subseteq Uploads
    BY <1>3, <2>1, SizeInt DEF RemoveOrphan
  <2> HIDE DEF Trees, Batches
  <2> QED BY <1>3, <2>2 DEF RemoveOrphan
<1>4. CASE RemovalFails
  <2>1. Usage' \in Int
    BY <1>4, UsageInt DEF RemovalFails, Usage
  <2>2. batchDir' \in [Batches -> DirStates]
    BY <1>4 DEF RemovalFails
  <2>3. queue' \subseteq Trees /\ current' \in Int
    BY <1>4, <2>1 DEF RemovalFails
  <2>4. phase' \in {"idle", "scan", "sweep", "follow", "settled"} /\ orphan' \in Uploads \cup {NoTree}
    BY <1>4 DEF RemovalFails
  <2> QED BY <1>4, <2>2, <2>3, <2>4 DEF RemovalFails
<1>5. CASE EndSweep
  BY <1>5, TreeFacts DEF EndSweep
<1>6. CASE UploadCreated
  BY <1>6, TreeFacts DEF UploadCreated, HolderInv
<1>7. CASE StartMakesDir
  BY <1>7, TreeFacts DEF StartMakesDir, HolderInv
<1>8. CASE StartWritesTask
  BY <1>8, TreeFacts DEF StartWritesTask, HolderInv
<1>9. CASE StartFails
  BY <1>9, TreeFacts DEF StartFails
<1>10. ASSUME NEW byId \in BOOLEAN, StartRegisters(byId) PROVE TypeOK'
  BY <1>10, TreeFacts DEF StartRegisters, HolderInv
<1>11. CASE EndList
  BY <1>11, TreeFacts DEF EndList
<1>12. CASE EndBoot
  BY <1>12, TreeFacts DEF EndBoot
<1>13. CASE WorkerBegins
  BY <1>13, TreeFacts DEF WorkerBegins, WorkerInv
<1>14. CASE Publish
  BY <1>14, TreeFacts DEF Publish, WorkerInv
<1>15. CASE Abort
  BY <1>15, TreeFacts DEF Abort, WorkerInv
<1>16. CASE Announce
  BY <1>16, TreeFacts DEF Announce, WorkerInv
<1>17. CASE Return
  BY <1>17, TreeFacts DEF Return, WorkerInv
<1>18. CASE PersistBegins
  BY <1>18, TreeFacts DEF PersistBegins, WorkerInv
<1>19. CASE PersistEnds
  BY <1>19, TreeFacts DEF PersistEnds, WorkerInv
<1>20. CASE PersistFails
  BY <1>20, TreeFacts DEF PersistFails, WorkerInv
<1>21. CASE EnterComplete
  BY <1>21, TreeFacts DEF EnterComplete, WorkerInv
<1>22. ASSUME NEW u \in Uploads, CreateUpload(u) PROVE TypeOK'
  BY <1>22, TreeFacts DEF CreateUpload
<1>23. ASSUME NEW u \in Uploads, CancelUpload(u) PROVE TypeOK'
  BY <1>23, TreeFacts DEF CancelUpload
<1>24. ASSUME NEW i \in Trees \cup {External}, EnterStart(i) PROVE TypeOK'
  BY <1>24, TreeFacts DEF EnterStart
<1>25. ASSUME NEW b \in Batches, Stop(b) PROVE TypeOK'
  BY <1>25, TreeFacts DEF Stop
<1>26. ASSUME NEW b \in Batches, PinBatch(b) PROVE TypeOK'
  BY <1>26, TreeFacts DEF PinBatch
<1>27. ASSUME NEW pin \in Batches \cup {NoTree}, EnterList(pin) PROVE TypeOK'
  BY <1>27, TreeFacts DEF EnterList
<1>28. CASE Crash
  <2>1. crashes' \in Nat
    BY <1>28 DEF Crash
  <2>2. /\ status' \in [Batches -> {"unlisted", "preparing"} \cup Terminals]
        /\ open' \in [Uploads -> {"absent", "free", "claimed"}]
        /\ cancel' = {} /\ active' = NoTree /\ viewed' = NoTree
    BY <1>28 DEF Crash
  <2>3. worker' = "none" /\ outcome' \in Terminals /\ op' = "free" /\ phase' = "idle"
    BY <1>28 DEF Crash
  <2>4. /\ item' = NoTree /\ guard' = NoTree /\ orphan' = NoTree
        /\ shield' = {} /\ queue' = {} /\ gone' = {} /\ current' \in Int
    BY <1>28 DEF Crash
  <2> HIDE DEF Trees, Batches, Terminals, DirStates
  <2> QED BY <1>28, <2>1, <2>2, <2>3, <2>4 DEF Crash
<1>29. CASE Boot
  BY <1>29, TreeFacts, LoadedType DEF Boot
<1>30. CASE UNCHANGED vars
  BY <1>30, TreeFacts
<1> QED BY <1>1, <1>2, <1>3, <1>4, <1>5, <1>6, <1>7, <1>8, <1>9, <1>10, <1>11, <1>12,
           <1>13, <1>14, <1>15, <1>16, <1>17, <1>18, <1>19, <1>20, <1>21, <1>22, <1>23,
           <1>24, <1>25, <1>26, <1>27, <1>28, <1>29, <1>30
        DEF Next, Holder, Pass, Worker, Requests

\* Each operation leaves the lock as the next step of its holder expects it.
LEMMA HolderStep ==
    ASSUME IInv, [Next]_vars
    PROVE  HolderInv'
<1> USE DEF IInv, HolderInv
<1>1. CASE WorkerBegins \/ Publish \/ Abort \/ Announce \/ Return \/ PersistBegins \/ PersistEnds
           \/ PersistFails
  BY <1>1, TreeFacts
       DEF WorkerBegins, Publish, Abort, Announce, Return, PersistBegins, PersistEnds,
           PersistFails, WorkerInv
<1>2. CASE (\E t \in Trees : RemoveTree(t)) \/ RemoveOrphan \/ RemovalFails \/ EndSweep \/ Scan
  BY <1>2, TreeFacts DEF RemoveTree, RemoveOrphan, RemovalFails, EndSweep, Scan
<1>3. CASE EndList \/ EndBoot \/ StartFails \/ UploadCreated
  BY <1>3, TreeFacts DEF EndList, EndBoot, StartFails, UploadCreated
<1>4. CASE (\E u \in Uploads : CancelUpload(u)) \/ (\E b \in Batches : Stop(b))
           \/ (\E b \in Batches : PinBatch(b))
           \/ (\E pin \in Batches \cup {NoTree} : EnterList(pin))
  BY <1>4, TreeFacts DEF CancelUpload, Stop, PinBatch, EnterList
<1>5. CASE StartMakesDir
  BY <1>5, TreeFacts DEF StartMakesDir, WorkerInv, TypeOK, Trees, Batches
<1>6. CASE StartWritesTask
  BY <1>6, TreeFacts DEF StartWritesTask, WorkerInv, TypeOK, Trees, Batches
<1>7. ASSUME NEW byId \in BOOLEAN, StartRegisters(byId) PROVE HolderInv'
  BY <1>7, TreeFacts DEF StartRegisters, WorkerInv, TypeOK, Trees, Batches
<1>8. CASE EnterComplete
  BY <1>8, TreeFacts DEF EnterComplete, WorkerInv, TypeOK, Trees, Batches
<1>9. ASSUME NEW u \in Uploads, CreateUpload(u) PROVE HolderInv'
  BY <1>9, TreeFacts DEF CreateUpload, WorkerInv, TypeOK, Trees, Batches
<1>10. ASSUME NEW i \in Trees \cup {External}, EnterStart(i) PROVE HolderInv'
  BY <1>10, TreeFacts DEF EnterStart, WorkerInv, TypeOK, Trees, Batches
<1>11. CASE Crash
  BY <1>11, TreeFacts DEF Crash
<1>12. CASE Boot
  BY <1>12, TreeFacts DEF Boot, WorkerInv, TypeOK, Trees, Batches
<1>13. CASE UNCHANGED vars
  BY <1>13, TreeFacts
<1> QED BY <1>1, <1>2, <1>3, <1>4, <1>5, <1>6, <1>7, <1>8, <1>9, <1>10, <1>11, <1>12,
           <1>13
        DEF Next, Holder, Pass, Worker, Requests

\* The worker's task stays listed, unfinished and on disk until it completes.
LEMMA WorkerStep ==
    ASSUME IInv, [Next]_vars
    PROVE  WorkerInv'
<1> USE DEF IInv, WorkerInv
<1>1. CASE (\E u \in Uploads : CancelUpload(u)) \/ (\E b \in Batches : Stop(b))
           \/ (\E b \in Batches : PinBatch(b))
           \/ (\E pin \in Batches \cup {NoTree} : EnterList(pin)) \/ EndList \/ EndBoot
           \/ StartFails \/ UploadCreated \/ (\E u \in Uploads : CreateUpload(u))
           \/ (\E i \in Trees \cup {External} : EnterStart(i)) \/ Scan \/ RemoveOrphan
  BY <1>1, TreeFacts
       DEF CancelUpload, Stop, PinBatch, EnterList, EndList, EndBoot, StartFails, UploadCreated,
           CreateUpload, EnterStart, Scan, RemoveOrphan
<1>2. ASSUME NEW t \in Trees, RemoveTree(t) PROVE WorkerInv'
  BY <1>2, TreeFacts
       DEF RemoveTree, QueueInv, Sweeping, NextCandidates, Oldest, TypeOK, Terminals, DirStates,
           Trees, Batches
<1>3. CASE RemovalFails
  <2>1. \A b \in Batches : batchDir[b] # "none" => batchDir'[b] # "none"
    BY <1>3 DEF RemovalFails, TypeOK
  <2>2. UNCHANGED <<started, reported, status, active, workerVars>>
    BY <1>3 DEF RemovalFails
  <2> QED BY <2>1, <2>2, TreeFacts DEF TypeOK, Batches
<1>4. CASE EndSweep
  BY <1>4, TreeFacts
       DEF EndSweep, QueueInv, Sweeping, NextCandidates, Oldest, TypeOK, Terminals, DirStates,
           Trees, Batches
<1>5. CASE StartMakesDir
  BY <1>5, TreeFacts DEF StartMakesDir, HolderInv, TypeOK, Terminals, DirStates, Trees, Batches
<1>6. CASE StartWritesTask
  BY <1>6, TreeFacts DEF StartWritesTask, HolderInv, TypeOK, Terminals, DirStates, Trees, Batches
<1>7. ASSUME NEW byId \in BOOLEAN, StartRegisters(byId) PROVE WorkerInv'
  BY <1>7, TreeFacts DEF StartRegisters, HolderInv, TypeOK, Terminals, DirStates, Trees, Batches
<1>8. CASE WorkerBegins
  BY <1>8, TreeFacts DEF WorkerBegins, TypeOK, Terminals, DirStates, Trees, Batches
<1>9. CASE Publish
  BY <1>9, TreeFacts DEF Publish, TypeOK, Terminals, DirStates, Trees, Batches
<1>10. CASE Abort
  BY <1>10, TreeFacts DEF Abort, TypeOK, Terminals, DirStates, Trees, Batches
<1>11. CASE Announce
  BY <1>11, TreeFacts DEF Announce, TypeOK, Terminals, DirStates, Trees, Batches
<1>12. CASE Return
  BY <1>12, TreeFacts DEF Return, TypeOK, Terminals, DirStates, Trees, Batches
<1>13. CASE PersistBegins
  BY <1>13, TreeFacts DEF PersistBegins, TypeOK, Terminals, DirStates, Trees, Batches
<1>14. CASE PersistEnds
  BY <1>14, TreeFacts DEF PersistEnds, TypeOK, Terminals, DirStates, Trees, Batches
<1>15. CASE PersistFails
  BY <1>15, TreeFacts DEF PersistFails, TypeOK, Terminals, DirStates, Trees, Batches
<1>16. CASE EnterComplete
  BY <1>16, TreeFacts DEF EnterComplete, TypeOK, Terminals, DirStates, Trees, Batches
<1>17. CASE Crash
  BY <1>17, TreeFacts DEF Crash
<1>18. CASE Boot
  BY <1>18, TreeFacts, LoadedType DEF Boot, HolderInv, TypeOK, Terminals
<1>19. CASE UNCHANGED vars
  BY <1>19, TreeFacts
<1> QED BY <1>1, <1>2, <1>3, <1>4, <1>5, <1>6, <1>7, <1>8, <1>9, <1>10, <1>11, <1>12,
           <1>13, <1>14, <1>15, <1>16, <1>17, <1>18, <1>19
        DEF Next, Holder, Pass, Worker, Requests

\* Nothing becomes ready but by Publish, on disk or in the list.
LEMMA PublishedStep ==
    ASSUME IInv, [Next]_vars
    PROVE  PublishedInv'
<1> USE DEF IInv, PublishedInv, Ready
<1>1. CASE (\E u \in Uploads : CancelUpload(u)) \/ (\E b \in Batches : Stop(b))
           \/ (\E b \in Batches : PinBatch(b))
           \/ (\E pin \in Batches \cup {NoTree} : EnterList(pin)) \/ EndList \/ EndBoot
           \/ StartFails \/ UploadCreated \/ (\E u \in Uploads : CreateUpload(u))
           \/ (\E i \in Trees \cup {External} : EnterStart(i)) \/ Scan \/ RemoveOrphan
  BY <1>1, TreeFacts
       DEF CancelUpload, Stop, PinBatch, EnterList, EndList, EndBoot, StartFails, UploadCreated,
           CreateUpload, EnterStart, Scan, RemoveOrphan
<1>2. ASSUME NEW t \in Trees, RemoveTree(t) PROVE PublishedInv'
  BY <1>2, TreeFacts
       DEF RemoveTree, QueueInv, Sweeping, NextCandidates, Oldest, TypeOK, Terminals, DirStates,
           Trees, Batches
<1>3. CASE RemovalFails
  <2>1. \A b \in Batches : batchDir'[b] = "ready" => batchDir[b] = "ready"
    BY <1>3 DEF RemovalFails, TypeOK
  <2> QED BY <1>3, <2>1, TreeFacts DEF RemovalFails
<1>4. CASE EndSweep
  BY <1>4, TreeFacts
       DEF EndSweep, QueueInv, Sweeping, NextCandidates, Oldest, TypeOK, Terminals, DirStates,
           Trees, Batches
<1>5. CASE StartMakesDir
  BY <1>5, TreeFacts DEF StartMakesDir, HolderInv, TypeOK, Terminals, DirStates, Trees, Batches
<1>6. CASE StartWritesTask
  BY <1>6, TreeFacts DEF StartWritesTask, HolderInv, TypeOK, Terminals, DirStates, Trees, Batches
<1>7. ASSUME NEW byId \in BOOLEAN, StartRegisters(byId) PROVE PublishedInv'
  BY <1>7, TreeFacts DEF StartRegisters, HolderInv, TypeOK, Terminals, DirStates, Trees, Batches
<1>8. CASE WorkerBegins
  BY <1>8, TreeFacts DEF WorkerBegins, WorkerInv, TypeOK, Terminals, DirStates, Trees, Batches
<1>9. CASE Publish
  BY <1>9, TreeFacts DEF Publish, WorkerInv, TypeOK, Terminals, DirStates, Trees, Batches
<1>10. CASE Abort
  BY <1>10, TreeFacts DEF Abort, WorkerInv, TypeOK, Terminals, DirStates, Trees, Batches
<1>11. CASE Announce
  BY <1>11, TreeFacts DEF Announce, WorkerInv, TypeOK, Terminals, DirStates, Trees, Batches
<1>12. CASE Return
  BY <1>12, TreeFacts DEF Return, WorkerInv, TypeOK, Terminals, DirStates, Trees, Batches
<1>13. CASE PersistBegins
  BY <1>13, TreeFacts DEF PersistBegins, WorkerInv, TypeOK, Terminals, DirStates, Trees, Batches
<1>14. CASE PersistEnds
  BY <1>14, TreeFacts DEF PersistEnds, WorkerInv, TypeOK, Terminals, DirStates, Trees, Batches
<1>15. CASE PersistFails
  BY <1>15, TreeFacts DEF PersistFails, WorkerInv, TypeOK, Terminals, DirStates, Trees, Batches
<1>16. CASE EnterComplete
  BY <1>16, TreeFacts DEF EnterComplete, WorkerInv, TypeOK, Terminals, DirStates, Trees, Batches
<1>17. CASE Crash
  BY <1>17, TreeFacts DEF Crash
<1>18. CASE Boot
  BY <1>18, TreeFacts DEF Boot, Loaded, HolderInv, TypeOK, Terminals
<1>19. CASE UNCHANGED vars
  BY <1>19, TreeFacts
<1> QED BY <1>1, <1>2, <1>3, <1>4, <1>5, <1>6, <1>7, <1>8, <1>9, <1>10, <1>11, <1>12,
           <1>13, <1>14, <1>15, <1>16, <1>17, <1>18, <1>19
        DEF Next, Holder, Pass, Worker, Requests

\* The worker, until it completes.
WorkerGoesOn ==
    WorkerBegins \/ Publish \/ Abort \/ Announce \/ Return \/ PersistBegins \/ PersistEnds \/ PersistFails

\* It takes no directory and no task away.
LEMMA WorkerKeeps ==
    ASSUME IInv, WorkerGoesOn
    PROVE  /\ active \in Listed /\ active \in Batches /\ worker' # "none"
           /\ BatchDirs' = BatchDirs /\ Listed' = Listed
           /\ \A b \in Batches \ {active} : batchDir'[b] = batchDir[b] /\ status'[b] = status[b]
           /\ UNCHANGED <<uploadDirs, input, cancel, active, open, viewed, passVars, lockVars, started, up, reported>>
<1>1. active \in Batches /\ active \in Listed /\ batchDir[active] # "none"
  BY TreeFacts
     DEF WorkerGoesOn, IInv, WorkerInv, TypeOK, Listed, Terminals,
         WorkerBegins, Publish, Abort, Announce, Return, PersistBegins, PersistEnds, PersistFails
<1>2. /\ UNCHANGED <<uploadDirs, input, cancel, active, open, viewed, passVars, lockVars, started, up, reported>>
      /\ worker' # "none"
  BY DEF WorkerGoesOn, WorkerBegins, Publish, Abort, Announce, Return, PersistBegins,
           PersistEnds, PersistFails
<1>3. \A b \in Batches \ {active} : batchDir'[b] = batchDir[b] /\ status'[b] = status[b]
  BY DEF WorkerGoesOn, IInv, TypeOK,
         WorkerBegins, Publish, Abort, Announce, Return, PersistBegins, PersistEnds, PersistFails
<1>4. batchDir'[active] # "none"
  BY <1>1
     DEF WorkerGoesOn, IInv, WorkerInv, TypeOK, Terminals,
         WorkerBegins, Publish, Abort, Announce, Return, PersistBegins, PersistEnds, PersistFails
<1>5. status'[active] # "unlisted"
  BY <1>1
     DEF WorkerGoesOn, IInv, WorkerInv, TypeOK, Terminals, Listed,
         WorkerBegins, Publish, Abort, Announce, Return, PersistBegins, PersistEnds, PersistFails
<1> QED BY <1>1, <1>2, <1>3, <1>4, <1>5 DEF BatchDirs, Listed

\* What neither the pass nor the worker does.
Elsewhere ==
    UploadCreated \/ StartMakesDir \/ StartWritesTask \/ StartFails
    \/ (\E byId \in BOOLEAN : StartRegisters(byId)) \/ EndList \/ EndBoot
    \/ EnterComplete \/ Requests \/ Crash \/ Boot

\* It happens outside a sweep.
LEMMA NotSweeping ==
    ASSUME IInv, Elsewhere
    PROVE  phase' \in {"idle", "scan"} /\ ~Sweeping'
<1>1. phase' \in {"idle", "scan"}
  BY DEF Elsewhere, Requests, IInv, HolderInv,
         UploadCreated, StartMakesDir, StartWritesTask, StartFails, StartRegisters, EndList, EndBoot,
         EnterComplete, CreateUpload, CancelUpload, EnterStart, Stop, PinBatch, EnterList, Crash, Boot
<1> QED BY <1>1 DEF Sweeping

\* A pass removes nothing that anybody who stays reads, though the worker goes on.
LEMMA QueueStep ==
    ASSUME IInv, [Next]_vars
    PROVE  QueueInv'
<1>1. CASE WorkerGoesOn
  <2>1. \A u : Bound(u)' = Bound(u)
    BY <1>1, WorkerKeeps DEF Bound
  <2>2. Sweeping => \A b \in gone \cap Batches : batchDir'[b] = "none"
    BY <1>1, WorkerKeeps DEF IInv, QueueInv
  <2>3. /\ BatchDirs' = BatchDirs /\ Listed' = Listed
        /\ UNCHANGED <<uploadDirs, input, active, viewed, passVars>>
    BY <1>1, WorkerKeeps
  <2> QED BY <2>1, <2>2, <2>3 DEF IInv, QueueInv, Sweeping
<1>2. CASE Elsewhere
  BY <1>2, NotSweeping DEF QueueInv
<1>3. CASE Scan
  <2>1. queue' = Candidates /\ gone' = {} /\ phase' = "sweep"
        /\ UNCHANGED <<batchDir, uploadDirs, input, status, active, viewed>>
    BY <1>3 DEF Scan
  <2>2. /\ Candidates \cap Batches = BatchDirs \ ProtectedBatches
        /\ \A u \in Candidates \cap Uploads : u \in uploadDirs /\ Bound(u) \cap BatchDirs = {}
        /\ Candidates \subseteq Trees
    BY TreeFacts, CandidateTrees DEF Candidates, BatchDirs, IInv, TypeOK
  <2>3. active \notin Candidates /\ viewed \notin Candidates
    BY <2>2, TreeFacts DEF ProtectedBatches, IInv, TypeOK, Trees
  <2>4. \A b \in Listed : input[b] \notin Candidates \cap Batches
    BY <2>2 DEF ProtectedBatches, Listed
  <2> QED BY <2>1, <2>2, <2>3, <2>4 DEF QueueInv, Sweeping, BatchDirs, Listed, Bound
<1>4. ASSUME NEW t \in Trees, RemoveTree(t) PROVE QueueInv'
  <2>1. t \in queue /\ phase = "sweep" /\ Sweeping /\ queue' = queue \ {t} /\ gone' = gone \cup {t}
    BY <1>4 DEF RemoveTree, NextCandidates, Oldest, Sweeping
  <2>2. CASE t \in Uploads
    <3>1. uploadDirs' = uploadDirs \ {t} /\ UNCHANGED <<batchDir, phase, orphan, status, input, active, viewed>>
      BY <1>4, <2>2, TreeFacts DEF RemoveTree
    <3> QED BY <2>1, <2>2, <3>1, TreeFacts DEF IInv, TypeOK, QueueInv, Sweeping, BatchDirs, Listed, Bound
  <2>3. CASE t \in Batches
    <3>1. /\ batchDir' = [batchDir EXCEPT ![t] = "none"]
          /\ UNCHANGED <<uploadDirs, status, input, active, viewed>>
          /\ \/ t \in Listed /\ orphan' \in Orphaned(t) /\ phase' = "follow"
             \/ UNCHANGED <<phase, orphan>>
      BY <1>4, <2>3, TreeFacts DEF RemoveTree
    <3>2. BatchDirs' = BatchDirs \ {t} /\ Listed' = Listed /\ t \in BatchDirs
      BY <2>1, <2>3, <3>1 DEF BatchDirs, Listed, IInv, TypeOK, QueueInv
    <3>3. \A u : Bound(u)' = Bound(u)
      BY <3>1, <3>2 DEF Bound
    <3>4. phase' = "follow" =>
              /\ orphan' \in uploadDirs \ queue
              /\ Bound(orphan') \cap BatchDirs \subseteq {t}
              /\ t \in Bound(orphan')
      BY <2>1, <2>3, <3>1, TreeFacts DEF Orphaned, Bound, IInv, TypeOK, QueueInv
    <3> QED BY <2>1, <2>3, <3>1, <3>2, <3>3, <3>4, TreeFacts DEF IInv, TypeOK, QueueInv, Sweeping
  <2> QED BY <2>2, <2>3 DEF Trees
<1>5. CASE RemoveOrphan
  <2>1. /\ phase = "follow" /\ phase' = "sweep" /\ Sweeping
        /\ uploadDirs' = uploadDirs \ {orphan} /\ gone' = gone \cup {orphan}
        /\ UNCHANGED <<batchDir, input, status, active, viewed, queue>>
    BY <1>5 DEF RemoveOrphan, Sweeping
  <2>2. orphan \in Uploads \ queue /\ orphan # active /\ orphan \notin Batches
    BY <2>1, TreeFacts DEF IInv, TypeOK, QueueInv, Trees
  <2>3. BatchDirs' = BatchDirs /\ Listed' = Listed /\ \A u : Bound(u)' = Bound(u)
    BY <2>1 DEF BatchDirs, Listed, Bound
  <2> QED BY <2>1, <2>2, <2>3 DEF IInv, QueueInv, Sweeping
<1>6. CASE RemovalFails
  <2>1. /\ Sweeping /\ phase' = "sweep" /\ queue' \subseteq queue
        /\ UNCHANGED <<uploadDirs, input, status, active, viewed, gone>>
    BY <1>6 DEF RemovalFails, Sweeping
  <2>2. BatchDirs' = BatchDirs
    BY <1>6 DEF RemovalFails, BatchDirs, NextCandidates, Oldest, IInv, TypeOK, QueueInv, Sweeping
  <2> QED BY <2>1, <2>2 DEF IInv, QueueInv, Sweeping, Listed, Bound, BatchDirs
<1>7. CASE EndSweep
  BY <1>7 DEF EndSweep, QueueInv, Sweeping
<1>8. CASE UNCHANGED vars
  BY <1>8 DEF IInv, QueueInv, Sweeping, BatchDirs, Listed, Bound
<1> QED BY <1>1, <1>2, <1>3, <1>4, <1>5, <1>6, <1>7, <1>8
        DEF Next, Holder, Pass, Worker, WorkerGoesOn, Elsewhere

\* The manager starts with nothing.
LEMMA InitInv ==
    ASSUME Init
    PROVE  IInv
<1>1. TypeOK
  BY TreeFacts DEF Init, TypeOK, DirStates, Terminals, Trees, Batches
<1>2. HolderInv /\ WorkerInv /\ QueueInv
  BY DEF Init, HolderInv, WorkerInv, QueueInv, Sweeping
<1>3. PublishedInv
  BY DEF Init, PublishedInv, Ready
<1> QED BY <1>1, <1>2, <1>3 DEF IInv

\* The invariant is inductive.
LEMMA StepInv ==
    ASSUME IInv, [Next]_vars
    PROVE  IInv'
BY TypeStep, HolderStep, WorkerStep, PublishedStep, QueueStep DEF IInv

\* The invariant holds throughout.
LEMMA Invariance == Spec => []IInv
BY InitInv, StepInv, PTL DEF Spec

-----------------------------------------------------------------------------
(* The newest results *)

\* One more result makes nothing else the newest.
LEMMA NewestOfMore ==
    ASSUME NEW S, NEW T, NEW a, T = S \/ T = S \cup {a}
    PROVE  Newest(T) \subseteq Newest(S) \cup {a}
BY DEF Newest

\* A worker's new status makes no queued batch the newest.
LEMMA NewestStep ==
    ASSUME ~PersistMayFail, IInv, NewestInv, [Next]_vars
    PROVE  NewestInv'
<1>1. CASE WorkerGoesOn
  <2>1. /\ UNCHANGED <<queue, phase, active>> /\ active \in Batches
        /\ \A b \in Batches \ {active} : status'[b] = status[b]
    BY <1>1, WorkerKeeps
  <2>2. status'[active] \in Terminals \/ status'[active] = status[active]
    BY <1>1, <2>1
       DEF WorkerGoesOn, IInv, WorkerInv, TypeOK, Terminals,
           WorkerBegins, Publish, Abort, Announce, Return, PersistBegins, PersistEnds, PersistFails
  <2>3. status[active] = "ready" => status'[active] = "ready"
    BY <1>1, <2>1
       DEF WorkerGoesOn, IInv, WorkerInv, TypeOK,
           WorkerBegins, Publish, Abort, Announce, Return, PersistBegins, PersistEnds, PersistFails
  <2>4. Terminal' = Terminal \/ Terminal' = Terminal \cup {active}
    BY <2>1, <2>2 DEF Terminal
  <2>5. Ready' = Ready \/ Ready' = Ready \cup {active}
    BY <2>1, <2>3 DEF Ready
  <2>6. Newest(Terminal)' \subseteq Newest(Terminal) \cup {active} /\ Newest(Ready)' \subseteq Newest(Ready) \cup {active}
    <3>1. Newest(Terminal') \subseteq Newest(Terminal) \cup {active}
      BY <2>4, NewestOfMore
    <3>2. Newest(Ready') \subseteq Newest(Ready) \cup {active}
      BY <2>5, NewestOfMore
    <3> QED BY <3>1, <3>2 DEF Newest
  <2> QED BY <2>1, <2>6 DEF NewestInv, IInv, QueueInv, Sweeping
<1>2. CASE Elsewhere
  BY <1>2, NotSweeping DEF NewestInv
<1>3. CASE Scan
  <2>1. Candidates \cap (Newest(Terminal) \cup Newest(Ready)) = {}
    BY TreeFacts DEF Candidates, ProtectedBatches, Newest, Terminal, Ready, IInv, TypeOK
  <2> QED BY <1>3, <2>1 DEF Scan, NewestInv, Newest, Terminal, Ready
<1>4. CASE (\E t \in Trees : RemoveTree(t)) \/ RemoveOrphan \/ RemovalFails
  <2>1. Sweeping /\ queue' \subseteq queue /\ status' = status
    BY <1>4 DEF RemoveTree, RemoveOrphan, RemovalFails, Sweeping
  <2> QED BY <2>1 DEF NewestInv, Newest, Terminal, Ready
<1>5. CASE EndSweep
  BY <1>5 DEF EndSweep, NewestInv, Sweeping
<1>6. CASE UNCHANGED vars
  BY <1>6 DEF NewestInv, Sweeping, Newest, Terminal, Ready
<1> QED BY <1>1, <1>2, <1>3, <1>4, <1>5, <1>6
        DEF Next, Holder, Pass, Worker, WorkerGoesOn, Elsewhere

-----------------------------------------------------------------------------
(* What a client was told *)

\* Nobody changes what has been told.
LEMMA ToldStep ==
    ASSUME ~PersistMayFail, ~RemovalMayFail, IInv, ToldInv, [Next]_vars
    PROVE  ToldInv'
<1> USE DEF ToldInv, IInv
<1>1. CASE WorkerGoesOn
  <2>1. /\ UNCHANGED <<active, reported>> /\ active \in Batches
        /\ \A b \in Batches \ {active} : batchDir'[b] = batchDir[b] /\ status'[b] = status[b]
    BY <1>1, WorkerKeeps
  <2>2. reported[active] = "none"
    BY <2>1, TreeFacts DEF WorkerInv, Trees
  <2>3. worker' = "complete" => batchDir'[active] = status'[active]
    BY <1>1, <2>1
       DEF WorkerGoesOn, TypeOK,
           WorkerBegins, Publish, Abort, Announce, Return, PersistBegins, PersistEnds, PersistFails
  <2> QED BY <2>1, <2>2, <2>3
<1>2. CASE StartMakesDir \/ StartWritesTask
  BY <1>2, TreeFacts DEF StartMakesDir, StartWritesTask, HolderInv, WorkerInv, TypeOK, Batches
<1>3. ASSUME NEW byId \in BOOLEAN, StartRegisters(byId) PROVE ToldInv'
  BY <1>3, TreeFacts DEF StartRegisters, HolderInv, WorkerInv, TypeOK, Batches
<1>4. CASE EnterComplete
  BY <1>4, TreeFacts DEF EnterComplete, WorkerInv, TypeOK, Batches
<1>5. CASE Crash
  BY <1>5 DEF Crash
<1>6. CASE Boot
  BY <1>6 DEF Boot, Loaded, HolderInv, WorkerInv, TypeOK, Terminals
<1>7. ASSUME NEW t \in Trees, RemoveTree(t) PROVE ToldInv'
  <2>1. t \in queue /\ UNCHANGED <<status, worker, active, reported>>
    BY <1>7 DEF RemoveTree, NextCandidates, Oldest
  <2>2. \A b \in Batches : batchDir'[b] = batchDir[b] \/ (b = t /\ batchDir'[b] = "none")
    BY <1>7 DEF RemoveTree, TypeOK
  <2>3. worker = "complete" => active \in Batches /\ active # t
    BY <1>7, <2>1, TreeFacts DEF RemoveTree, WorkerInv, TypeOK, QueueInv, Sweeping
  <2> QED BY <2>1, <2>2, <2>3
<1>8. CASE EndSweep
  <2>1. worker = "complete" => active \in Batches /\ active \notin gone
    BY <1>8, TreeFacts DEF EndSweep, WorkerInv, TypeOK, QueueInv, Sweeping
  <2> QED BY <1>8, <2>1 DEF EndSweep, TypeOK
<1>9. CASE Scan \/ RemoveOrphan \/ RemovalFails \/ UploadCreated \/ StartFails \/ EndList \/ EndBoot
  BY <1>9 DEF Scan, RemoveOrphan, RemovalFails, UploadCreated, StartFails, EndList, EndBoot
<1>10. CASE Requests
  BY <1>10 DEF Requests, CreateUpload, CancelUpload, EnterStart, Stop, PinBatch, EnterList
<1>11. CASE UNCHANGED vars
  BY <1>11
<1> QED BY <1>1, <1>2, <1>3, <1>4, <1>5, <1>6, <1>7, <1>8, <1>9, <1>10, <1>11
        DEF Next, Holder, Pass, Worker, WorkerGoesOn

-----------------------------------------------------------------------------
(* A settled pass *)

\* One tree less is one less in number.
LEMMA Counting ==
    \A S \in (SUBSET Batches) \cup (SUBSET Uploads) :
        /\ Cardinality(S) \in Nat
        /\ \A t \in S : Cardinality(S \ {t}) = Cardinality(S) - 1
<1>1. IsFiniteSet(Batches) /\ IsFiniteSet(Uploads)
  BY ManagerAssumption, FS_Interval DEF Batches
<1>2. \A S \in (SUBSET Batches) \cup (SUBSET Uploads) : IsFiniteSet(S)
  BY <1>1, FS_Subset
<1> QED BY <1>2, FS_CardinalityType, FS_RemoveElement

\* The batches that hold more than their task file.
Full == {b \in Batches : batchDir[b] \notin {"none", "bare", "task"}}

\* A removed upload frees its bytes.
LEMMA UploadGone ==
    ASSUME TypeOK, NEW u \in uploadDirs, uploadDirs' = uploadDirs \ {u}, batchDir' = batchDir
    PROVE  Usage' = Usage - UploadSize
<1>1. /\ Cardinality(uploadDirs) \in Nat /\ Cardinality(Full) \in Nat
      /\ Cardinality(uploadDirs \ {u}) = Cardinality(uploadDirs) - 1
  BY Counting DEF TypeOK, Full
<1>2. UploadSize * (Cardinality(uploadDirs) - 1) = UploadSize * Cardinality(uploadDirs) - UploadSize
  BY <1>1, ManagerAssumption
<1>3. Usage = BatchSize * Cardinality(Full) + UploadSize * Cardinality(uploadDirs)
  BY DEF Usage, Full
<1>4. Usage' = BatchSize * Cardinality(Full) + UploadSize * Cardinality(uploadDirs \ {u})
  BY DEF Usage, Full
<1>5. BatchSize * Cardinality(Full) \in Int /\ UploadSize * Cardinality(uploadDirs) \in Int
  BY <1>1, ManagerAssumption
<1> QED BY <1>1, <1>2, <1>3, <1>4, <1>5, ManagerAssumption

\* A removed batch frees its bytes, if its analysis had begun.
LEMMA BatchGone ==
    ASSUME TypeOK, NEW b \in BatchDirs, uploadDirs' = uploadDirs,
           batchDir' = [batchDir EXCEPT ![b] = "none"]
    PROVE  Usage' = Usage - SizeOf(b)
<1>1. b \in Batches /\ b \notin Uploads
  BY TreeFacts DEF BatchDirs
<1>2. /\ Cardinality(uploadDirs) \in Nat /\ Cardinality(Full) \in Nat
      /\ b \in Full => Cardinality(Full \ {b}) = Cardinality(Full) - 1
  BY Counting DEF TypeOK, Full
<1>3. Usage = BatchSize * Cardinality(Full) + UploadSize * Cardinality(uploadDirs)
  BY DEF Usage, Full
<1>4. Usage' = BatchSize * Cardinality(Full \ {b}) + UploadSize * Cardinality(uploadDirs)
  <2>1. {c \in Batches : batchDir'[c] \notin {"none", "bare", "task"}} = Full \ {b}
    BY <1>1 DEF Full, TypeOK
  <2> QED BY <2>1 DEF Usage
<1>5. BatchSize * Cardinality(Full) \in Int /\ UploadSize * Cardinality(uploadDirs) \in Int
  BY <1>2, ManagerAssumption
<1>6. CASE b \in Full
  <2>1. SizeOf(b) = BatchSize
    BY <1>1, <1>6 DEF SizeOf, Full
  <2>2. BatchSize * (Cardinality(Full) - 1) = BatchSize * Cardinality(Full) - BatchSize
    BY <1>2, ManagerAssumption
  <2> QED BY <1>2, <1>3, <1>4, <1>5, <1>6, <2>1, <2>2, ManagerAssumption
<1>7. CASE b \notin Full
  <2>1. SizeOf(b) = 0
    BY <1>1, <1>7 DEF SizeOf, Full
  <2>2. Full \ {b} = Full
    BY <1>7
  <2>3. Usage' = Usage
    BY <1>3, <1>4, <2>2
  <2>4. Usage \in Int
    BY <1>3, <1>5
  <2> QED BY <2>1, <2>3, <2>4
<1> QED BY <1>6, <1>7

\* A pass that nobody disturbs counts right and forgets no candidate.
LEMMA SettleStep ==
    ASSUME ~RemovalMayFail, IInv, SettleInv, [Next]_vars
    PROVE  SettleInv'
<1> SUFFICES ASSUME worker' = "none"
             PROVE  /\ Sweeping' => current' = Usage'
                    /\ phase' = "sweep" /\ gone' \cap Batches = {} => Candidates' \subseteq queue'
                    /\ phase' = "settled" /\ Usage' >= Limit => Candidates' = {}
  BY DEF SettleInv
<1> USE DEF IInv
<1>1. CASE WorkerGoesOn
  BY <1>1, WorkerKeeps
<1>2. CASE Elsewhere
  BY <1>2, NotSweeping DEF Sweeping
<1>3. CASE Scan
  <2>1. /\ current' = Usage /\ queue' = Candidates /\ phase' = "sweep"
        /\ UNCHANGED <<batchDir, uploadDirs, input, status, active, open, viewed, guard>>
    BY <1>3 DEF Scan
  <2>2. Usage' = Usage
    BY <2>1 DEF Usage
  <2>3. Candidates' = Candidates
    BY <2>1
         DEF Candidates, ProtectedBatches, ProtectedUploads, BatchDirs, Bound, Listed, Terminal,
             Ready, Newest
  <2> QED BY <2>1, <2>2, <2>3
<1>4. ASSUME NEW t \in Trees, RemoveTree(t)
      PROVE  phase' \in {"sweep", "follow"} /\ current' = Usage'
             /\ (gone' \cap Batches = {} => Candidates' \subseteq queue')
  <2>1. /\ t \in queue /\ phase = "sweep" /\ Sweeping /\ worker = "none" /\ phase' \in {"sweep", "follow"}
        /\ queue' = queue \ {t} /\ gone' = gone \cup {t} /\ current' = current - SizeOf(t)
    BY <1>4 DEF RemoveTree, NextCandidates, Oldest, Sweeping
  <2>2. CASE t \in Uploads
    <3>1. /\ uploadDirs' = uploadDirs \ {t}
          /\ UNCHANGED <<batchDir, input, status, active, open, viewed, guard>>
      BY <1>4, <2>2, TreeFacts DEF RemoveTree
    <3>2. t \in uploadDirs /\ SizeOf(t) = UploadSize
      BY <2>1, <2>2 DEF QueueInv, SizeOf
    <3>3. Usage' = Usage - UploadSize
      BY <3>1, <3>2, UploadGone
    <3>4. Candidates' \subseteq Candidates \ {t}
      BY <2>2, <3>1, TreeFacts
         DEF Candidates, ProtectedBatches, ProtectedUploads, BatchDirs, Bound, Listed, Terminal, Ready, Newest
    <3> QED BY <2>1, <3>2, <3>3, <3>4 DEF SettleInv
  <2>3. CASE t \in Batches
    <3>1. uploadDirs' = uploadDirs /\ batchDir' = [batchDir EXCEPT ![t] = "none"] /\ t \in BatchDirs
      BY <1>4, <2>1, <2>3, TreeFacts DEF RemoveTree, QueueInv
    <3>2. Usage' = Usage - SizeOf(t)
      BY <3>1, BatchGone
    <3> QED BY <2>1, <2>3, <3>2 DEF SettleInv
  <2> QED BY <2>2, <2>3 DEF Trees
<1>5. CASE RemoveOrphan
  <2>1. /\ phase = "follow" /\ phase' = "sweep" /\ Sweeping /\ worker = "none"
        /\ uploadDirs' = uploadDirs \ {orphan} /\ gone' = gone \cup {orphan}
        /\ current' = current - UploadSize /\ UNCHANGED batchDir
    BY <1>5 DEF RemoveOrphan, Sweeping
  <2>2. orphan \in uploadDirs /\ gone \cap Batches # {}
    BY <2>1 DEF QueueInv
  <2>3. Usage' = Usage - UploadSize
    BY <2>1, <2>2, UploadGone
  <2> QED BY <2>1, <2>2, <2>3 DEF SettleInv
<1>6. CASE EndSweep
  <2>1. /\ phase = "sweep" /\ Sweeping /\ worker = "none" /\ (current < Limit \/ queue = {})
        /\ phase' = IF Again THEN "scan" ELSE "settled"
        /\ UNCHANGED <<batchDir, uploadDirs, active, viewed, guard>>
    BY <1>6 DEF EndSweep, Sweeping
  <2>2. Usage' = Usage /\ current = Usage /\ Usage \in Int
    BY <2>1, UsageInt DEF Usage, SettleInv, TypeOK
  <2>3. SUFFICES ASSUME phase' = "settled", Usage' >= Limit
                 PROVE  Candidates' = {}
    BY <2>1 DEF Sweeping
  <2>4. gone \cap Batches = {} /\ queue = {}
    BY <2>1, <2>2, <2>3, ManagerAssumption DEF Again
  <2>5. Candidates = {}
    BY <2>1, <2>4 DEF SettleInv
  <2>6. status' = status /\ input' = input
    BY <1>6, <2>4 DEF EndSweep, TypeOK
  <2>7. \A u \in uploadDirs : open'[u] = open[u]
    BY <1>6, <2>1 DEF EndSweep, TypeOK, QueueInv
  <2> QED BY <2>1, <2>5, <2>6, <2>7
          DEF Candidates, ProtectedBatches, ProtectedUploads, BatchDirs, Bound, Listed, Terminal, Ready, Newest, TypeOK
<1>7. CASE UNCHANGED vars
  <2>1. Usage' = Usage /\ Candidates' = Candidates
    BY <1>7
         DEF Usage, Candidates, ProtectedBatches, ProtectedUploads, BatchDirs, Bound, Listed,
             Terminal, Ready, Newest
  <2> QED BY <1>7, <2>1 DEF SettleInv, Sweeping
<1> QED BY <1>1, <1>2, <1>3, <1>4, <1>5, <1>6, <1>7
        DEF Next, Holder, Pass, Worker, WorkerGoesOn, Elsewhere, RemovalFails, Sweeping

-----------------------------------------------------------------------------
(* Theorems *)

\* The page's list of runs is true (GET batches, product_log/web.py): what is
\* not over is the running task, and a run is offered to queries only if it
\* was published, whatever fails and however often the server restarts.
THEOREM ListTheorem == Spec => []TaskListIsTrue
<1>1. IInv => TaskListIsTrue
  BY DEF IInv, WorkerInv, PublishedInv, TaskListIsTrue, TypeOK, Listed, Terminal, Terminals
<1> QED BY <1>1, Invariance, PTL

\* What a step keeps of inputs.
Kept ==
    \A b \in Listed \cap BatchDirs :
        status'[b] # "unlisted" /\ batchDir'[b] # "none" =>
            /\ input[b] \in BatchDirs => batchDir'[input[b]] # "none"
            /\ input[b] \in uploadDirs => input[b] \in uploadDirs' \/ Withdrawn(input[b])

\* Each step keeps the inputs.
LEMMA KeptStep ==
    ASSUME IInv, [Next]_vars
    PROVE  Kept
<1> USE DEF IInv, Kept
<1>1. CASE WorkerGoesOn
  BY <1>1, WorkerKeeps DEF BatchDirs
<1>2. ASSUME NEW t \in Trees, RemoveTree(t) PROVE Kept
  <2>1. t \in queue /\ Sweeping
    BY <1>2 DEF RemoveTree, NextCandidates, Oldest, Sweeping
  <2>2. CASE t \in Uploads
    <3>1. uploadDirs' = uploadDirs \ {t} /\ batchDir' = batchDir
      BY <1>2, <2>2, TreeFacts DEF RemoveTree
    <3> QED BY <2>1, <2>2, <3>1 DEF QueueInv, Bound, BatchDirs
  <2>3. CASE t \in Batches
    <3>1. uploadDirs' = uploadDirs /\ batchDir' = [batchDir EXCEPT ![t] = "none"]
      BY <1>2, <2>3, TreeFacts DEF RemoveTree
    <3> QED BY <2>1, <2>3, <3>1 DEF QueueInv, BatchDirs, TypeOK
  <2> QED BY <2>2, <2>3 DEF Trees
<1>3. CASE RemoveOrphan
  BY <1>3 DEF RemoveOrphan, QueueInv, Sweeping, Bound, BatchDirs
<1>4. CASE RemovalFails
  BY <1>4 DEF RemovalFails, BatchDirs, TypeOK
<1>5. ASSUME NEW u \in Uploads, CancelUpload(u) PROVE Kept
  BY <1>5 DEF CancelUpload, Withdrawn, BatchDirs, TypeOK
<1>6. CASE StartMakesDir \/ StartWritesTask
  BY <1>6, TreeFacts DEF StartMakesDir, StartWritesTask, HolderInv, BatchDirs, TypeOK, Batches
<1>7. CASE UploadCreated
  BY <1>7 DEF UploadCreated, BatchDirs
<1>8. CASE UNCHANGED <<batchDir, uploadDirs>>
  BY <1>8 DEF BatchDirs
<1> QED BY <1>1, <1>2, <1>3, <1>4, <1>5, <1>6, <1>7, <1>8
        DEF Next, Holder, Pass, Worker, WorkerGoesOn, Requests, Scan, EndSweep, StartFails, StartRegisters,
            EndList, EndBoot, EnterComplete, CreateUpload, EnterStart, Stop, PinBatch, EnterList, Crash, Boot

\* A task's input stays as long as the task, whatever a pass of
\* enforce_retention removes, unless the client cancels its upload.
THEOREM InputsTheorem == Spec => KeptInputs
<1>1. IInv /\ [Next]_vars => Kept
  BY KeptStep
<1> QED BY <1>1, Invariance, PTL DEF Spec, KeptInputs, Kept

\* What a step keeps of batches.
Spared ==
    \A b \in Batches : batchDir[b] # "none" /\ batchDir'[b] = "none" =>
        /\ b # active /\ b # viewed
        /\ b \notin Newest(Terminal) \cup Newest(Ready)
        /\ \A c \in Listed : input[c] # b

\* Each step spares what it must.
LEMMA SparedStep ==
    ASSUME IInv, NewestInv, [Next]_vars
    PROVE  Spared
<1> USE DEF IInv, Spared
<1>1. CASE WorkerGoesOn
  BY <1>1, WorkerKeeps DEF BatchDirs
<1>2. ASSUME NEW t \in Trees, RemoveTree(t) PROVE Spared
  <2>1. t \in queue /\ Sweeping /\ \A b \in Batches \ {t} : batchDir'[b] = batchDir[b]
    BY <1>2 DEF RemoveTree, NextCandidates, Oldest, Sweeping, TypeOK
  <2> QED BY <2>1 DEF QueueInv, NewestInv
<1>3. CASE RemovalFails \/ StartMakesDir \/ StartWritesTask
  BY <1>3, TreeFacts DEF RemovalFails, StartMakesDir, StartWritesTask, HolderInv, TypeOK, Batches
<1>4. CASE UNCHANGED batchDir
  BY <1>4
<1> QED BY <1>1, <1>2, <1>3, <1>4
        DEF Next, Holder, Pass, Worker, WorkerGoesOn, Requests, Scan, RemoveOrphan, EndSweep, UploadCreated,
            StartFails, StartRegisters, EndList, EndBoot, EnterComplete, CreateUpload, CancelUpload, EnterStart,
            Stop, PinBatch, EnterList, Crash, Boot

\* Retention spares what runs, what is viewed, what is read and the newest
\* results, though the worker changes statuses while a pass goes on; only a
\* manifest that cannot be written may take the newest result away from it.
THEOREM SparesTheorem ==
    ASSUME ~PersistMayFail
    PROVE  Spec => RetentionSpares
<1>1. Init => NewestInv
  BY DEF Init, NewestInv, Sweeping
<1>2. IInv /\ NewestInv /\ [Next]_vars => Spared
  BY SparedStep
<1>3. IInv /\ NewestInv /\ [Next]_vars => NewestInv'
  BY NewestStep
<1> QED BY <1>1, <1>2, <1>3, Invariance, PTL DEF Spec, RetentionSpares, Spared

\* The outcome that a complete event told is the one that the list and every
\* restart (_load_history) show, if the manifest could be written and no tree
\* is half removed.
THEOREM DurableTheorem ==
    ASSUME ~PersistMayFail, ~RemovalMayFail
    PROVE  Spec => []DurableOutcome
<1>1. Init => ToldInv
  BY DEF Init, ToldInv
<1>2. IInv /\ ToldInv /\ [Next]_vars => ToldInv'
  BY ToldStep
<1>3. ToldInv => DurableOutcome
  BY DEF ToldInv, DurableOutcome, Listed
<1> QED BY <1>1, <1>2, <1>3, Invariance, PTL DEF Spec

\* When a pass has settled without a worker, either the bytes are under the
\* limit or nothing that may be removed is left, if removals do not fail.
THEOREM SettlesTheorem ==
    ASSUME ~RemovalMayFail
    PROVE  Spec => []StorageSettles
<1>1. Init => SettleInv
  BY DEF Init, SettleInv, Sweeping
<1>2. IInv /\ SettleInv /\ [Next]_vars => SettleInv'
  BY SettleStep
<1>3. SettleInv => StorageSettles
  BY DEF SettleInv, StorageSettles
<1> QED BY <1>1, <1>2, <1>3, Invariance, PTL DEF Spec
=============================================================================
