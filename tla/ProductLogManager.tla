-------------------------- MODULE ProductLogManager --------------------------
(***************************************************************************)
(* TaskManager of product_log/web.py with the retention of                 *)
(* product_log/retention.py: one parsing task at a time, batches and       *)
(* uploads kept under a size limit, a worker thread that publishes its     *)
(* batch, and restarts that rebuild the task list from what is on disk.    *)
(*                                                                         *)
(* A batch is numbered in the order of its created_at_ns.  The manager's   *)
(* lock is held by one operation at a time; an operation that calls        *)
(* storage() runs the retention pass, one removal per step, before it goes *)
(* on.  How an upload's bytes arrive is ProductLogUpload's subject: here   *)
(* an upload that nobody claimed may be finished or not.                   *)
(***************************************************************************)
EXTENDS Integers, FiniteSets

CONSTANTS
    MaxBatches,       \* batches ever started
    Uploads,          \* upload identifiers
    External,         \* an input outside the managed storage
    NoTree,           \* no batch and no upload
    BatchSize,        \* bytes of a batch once its analysis has begun
    UploadSize,       \* bytes of an upload
    Limit,            \* storage_limit_bytes
    MaxCrashes,       \* restarts considered
    RemovalMayFail,   \* can rmtree of a managed tree raise?
    PersistMayFail    \* can the last write of manifest.json raise?

Batches == 1..MaxBatches
Trees == Batches \cup Uploads

ASSUME ManagerAssumption ==
    /\ MaxBatches \in Nat /\ MaxCrashes \in Nat
    /\ Uploads \cap Int = {} /\ IsFiniteSet(Uploads)
    /\ {External, NoTree} \cap (Int \cup Uploads) = {}
    /\ External # NoTree
    /\ BatchSize \in Nat /\ UploadSize \in Nat
    /\ Limit \in Nat \ {0}
    /\ RemovalMayFail \in BOOLEAN /\ PersistMayFail \in BOOLEAN

VARIABLES
    \* on disk
    batchDir,    \* what a batch's directory holds, see DirStates
    uploadDirs,  \* uploads whose directory exists
    input,       \* input_path of a batch: a tree or External (web-task.json)
    \* in memory
    status,      \* status of a listed task, or "unlisted"
    cancel,      \* tasks with their cancel event set
    open,        \* registered uploads: "absent", "free" or "claimed"
    active,      \* TaskManager.active
    viewed,      \* TaskManager.viewed_batch_id
    \* the worker thread of the active task
    worker,      \* where it is
    outcome,     \* what run_analysis returned or raised
    \* the holder of TaskManager.lock
    op,          \* its operation, "free" when nobody holds it
    item,        \* the batch or upload it is about to create
    guard,       \* protected_input
    \* the retention pass it runs
    phase,       \* "idle", "scan", "sweep", "follow" or "settled"
    shield,      \* protected batches and uploads
    queue,       \* candidates not looked at yet
    current,     \* bytes in use, as the pass counts them
    gone,        \* trees this pass has removed
    orphan,      \* upload whose last batch was just removed
    \* history
    started,     \* batch directories made so far: an identifier is never reused
    up,          \* is the server running?
    crashes,     \* restarts so far
    reported,    \* outcome told by the complete event of each batch
    published    \* batches run_analysis has committed as ready

diskVars == <<batchDir, uploadDirs, input>>
taskVars == <<status, cancel, active>>
workerVars == <<worker, outcome>>
passVars == <<phase, shield, queue, current, gone, orphan>>
lockVars == <<op, item, guard>>
history == <<started, up, crashes, reported, published>>
vars == <<diskVars, taskVars, open, viewed, workerVars, passVars, lockVars, history>>

Terminals == {"ready", "failed", "cancelled"}

\* "bare": no readable web-task.json; "task": only web-task.json; "running": a
\* manifest.json of an unfinished analysis; "torn": an unreadable manifest.json.
DirStates == {"none", "bare", "task", "running", "torn"} \cup Terminals

TypeOK ==
    /\ batchDir \in [Batches -> DirStates]
    /\ uploadDirs \subseteq Uploads
    /\ input \in [Batches -> Trees \cup {External}]
    /\ status \in [Batches -> {"unlisted", "preparing"} \cup Terminals]
    /\ cancel \subseteq Batches
    /\ open \in [Uploads -> {"absent", "free", "claimed"}]
    /\ active \in Batches \cup {NoTree}
    /\ viewed \in Batches \cup {NoTree}
    /\ worker \in {"none", "begin", "analyse", "announce", "return", "persist", "writing", "complete"}
    /\ outcome \in Terminals
    /\ op \in {"free", "create", "start", "mkdir", "register", "list", "complete", "boot"}
    /\ item \in Trees \cup {NoTree}
    /\ guard \in Trees \cup {External, NoTree}
    /\ phase \in {"idle", "scan", "sweep", "follow", "settled"}
    /\ shield \subseteq Trees
    /\ queue \subseteq Trees
    /\ current \in Int
    /\ gone \subseteq Trees
    /\ orphan \in Uploads \cup {NoTree}
    /\ started \in 0..MaxBatches
    /\ up \in BOOLEAN
    /\ crashes \in Nat
    /\ reported \in [Batches -> {"none"} \cup Terminals]
    /\ published \subseteq Batches

Init ==
    /\ batchDir = [b \in Batches |-> "none"]
    /\ uploadDirs = {}
    /\ input = [b \in Batches |-> External]
    /\ status = [b \in Batches |-> "unlisted"]
    /\ cancel = {}
    /\ open = [u \in Uploads |-> "absent"]
    /\ active = NoTree /\ viewed = NoTree
    /\ worker = "none" /\ outcome = "failed"
    /\ op = "free" /\ item = NoTree /\ guard = NoTree
    /\ phase = "idle" /\ shield = {} /\ queue = {} /\ current = 0 /\ gone = {} /\ orphan = NoTree
    /\ started = 0 /\ up = TRUE /\ crashes = 0
    /\ reported = [b \in Batches |-> "none"] /\ published = {}

-----------------------------------------------------------------------------
(* What storage() protects and what enforce_retention may remove *)

Listed == {b \in Batches : status[b] # "unlisted"}
Terminal == {b \in Batches : status[b] \in Terminals}
Ready == {b \in Batches : status[b] = "ready"}

Newest(S) == {b \in S : \A c \in S : c <= b}
Oldest(S) == {b \in S : \A c \in S : b <= c}

BatchDirs == {b \in Batches : batchDir[b] # "none"}

\* Bytes under batches/ and uploads/; a directory is empty until its analysis
\* has begun.
Usage ==
    BatchSize * Cardinality({b \in Batches : batchDir[b] \notin {"none", "bare", "task"}})
    + UploadSize * Cardinality(uploadDirs)

\* Mutant: the batch on view is not protected.
SparesNoViewed ==
    (Listed \ Terminal) \cup Newest(Terminal) \cup Newest(Ready)
    \cup (({active, guard} \cup {input[b] : b \in Listed}) \cap Batches)

ProtectedBatches ==
    (Listed \ Terminal) \cup Newest(Terminal) \cup Newest(Ready)
    \cup (({active, viewed, guard} \cup {input[b] : b \in Listed}) \cap Batches)

\* batch_uploads: the upload a listed task was started with, if any.
Bound(u) == {b \in Listed : input[b] = u}

ProtectedUploads ==
    {u \in Uploads : open[u] = "free"}
    \cup ({guard} \cap Uploads)
    \cup {u \in Uploads : Bound(u) \cap ProtectedBatches # {}}

Candidates ==
    (BatchDirs \ ProtectedBatches)
    \cup {u \in uploadDirs \ ProtectedUploads : Bound(u) \cap BatchDirs = {}}

-----------------------------------------------------------------------------
(* The manager's lock and the retention pass *)

\* An operation takes the lock and begins a pass.
Enter(what, about, input_) ==
    /\ op = "free"
    /\ op' = what /\ item' = about /\ guard' = input_
    /\ phase' = "scan"
    /\ UNCHANGED <<shield, queue, current, gone, orphan>>

\* storage() has returned.
PassOver ==
    phase' = "idle" /\ shield' = {} /\ queue' = {} /\ current' = 0 /\ gone' = {} /\ orphan' = NoTree

Leave == op' = "free" /\ item' = NoTree /\ guard' = NoTree /\ PassOver

Scan ==
    /\ phase = "scan"
    /\ phase' = "sweep"
    /\ shield' = ProtectedBatches \cup ProtectedUploads
    /\ queue' = Candidates
    /\ current' = Usage
    /\ gone' = {} /\ orphan' = NoTree
    /\ UNCHANGED <<diskVars, taskVars, open, viewed, workerVars, lockVars, history>>

\* Batches go oldest first; an upload's time, that of its directory, may lie
\* anywhere between them.
NextCandidates == (queue \cap Uploads) \cup Oldest(queue \cap Batches)

SizeOf(t) ==
    IF t \in Uploads THEN UploadSize
    ELSE IF batchDir[t] \in {"none", "bare", "task"} THEN 0 ELSE BatchSize

\* Mutant: the other tasks that read the upload are forgotten.
OrphanedAnyway(b) == {u \in uploadDirs \ shield : input[b] = u}

\* Nobody else needs the upload of b, so it goes with its last batch.
Orphaned(b) ==
    {u \in uploadDirs \ shield : input[b] = u /\ Bound(u) \cap BatchDirs \subseteq {b}}

RemoveTree(t) ==
    /\ phase = "sweep" /\ current >= Limit
    /\ t \in NextCandidates
    /\ queue' = queue \ {t}
    /\ gone' = gone \cup {t}
    /\ current' = current - SizeOf(t)
    /\ \/ /\ t \in Uploads
          /\ uploadDirs' = uploadDirs \ {t}
          /\ UNCHANGED <<batchDir, phase, orphan>>
       \/ /\ t \in Batches
          /\ batchDir' = [batchDir EXCEPT ![t] = "none"]
          /\ \/ /\ t \in Listed /\ Orphaned(t) # {}
                /\ orphan' \in Orphaned(t)
                /\ phase' = "follow"
             \/ /\ t \notin Listed \/ Orphaned(t) = {}
                /\ UNCHANGED <<phase, orphan>>
          /\ UNCHANGED uploadDirs
    /\ UNCHANGED <<input, taskVars, open, viewed, workerVars, shield, lockVars, history>>

RemoveOrphan ==
    /\ phase = "follow"
    /\ uploadDirs' = uploadDirs \ {orphan}
    /\ gone' = gone \cup {orphan}
    /\ current' = current - UploadSize
    /\ orphan' = NoTree
    /\ phase' = "sweep"
    /\ UNCHANGED <<batchDir, input, taskVars, open, viewed, workerVars,
                   shield, queue, lockVars, history>>

\* rmtree raises part-way: the manifest of a batch may be gone already.  The
\* pass counts the bytes again and goes on with the next candidate.
RemovalFails ==
    /\ RemovalMayFail
    /\ \/ /\ phase = "sweep" /\ current >= Limit
          /\ \E t \in NextCandidates :
                /\ queue' = queue \ {t}
                /\ \/ UNCHANGED batchDir
                   \/ /\ t \in Batches
                      /\ \E left \in {"task", "bare"} :
                            /\ batchDir[t] # "bare"
                            /\ batchDir' = [batchDir EXCEPT ![t] = left]
          /\ UNCHANGED <<phase, orphan>>
       \/ /\ phase = "follow"
          /\ phase' = "sweep" /\ orphan' = NoTree
          /\ UNCHANGED <<queue, batchDir>>
    /\ UNCHANGED <<uploadDirs, input, taskVars, open, viewed, workerVars,
                   shield, gone, lockVars, history>>
    /\ current' = Usage'

\* Mutants: one sweep has to do, or it takes as many as it takes.
NeverAgain == FALSE
AgainWhileOver == Usage >= Limit

\* Batches went but not enough: what they read is looked at again.
Again == Usage >= Limit /\ gone \cap Batches # {}

\* Under the limit or out of candidates.  What was removed is forgotten.
EndSweep ==
    /\ phase = "sweep"
    /\ current < Limit \/ queue = {}
    /\ status' = [b \in Batches |-> IF b \in gone THEN "unlisted" ELSE status[b]]
    /\ cancel' = cancel \ gone
    /\ open' = [u \in Uploads |-> IF u \in gone THEN "absent" ELSE open[u]]
    /\ input' = [b \in Batches |-> IF b \in gone THEN External ELSE input[b]]
    /\ reported' = [b \in Batches |-> IF b \in gone THEN "none" ELSE reported[b]]
    /\ phase' = IF Again THEN "scan" ELSE "settled"
    /\ shield' = {} /\ queue' = {} /\ current' = 0 /\ gone' = {} /\ orphan' = NoTree
    /\ UNCHANGED <<batchDir, uploadDirs, active, viewed, workerVars, lockVars,
                   started, up, crashes, published>>

Pass == Scan \/ (\E t \in Trees : RemoveTree(t)) \/ RemoveOrphan \/ RemovalFails \/ EndSweep

-----------------------------------------------------------------------------
(* Uploads *)

\* An identifier is used once.
CreateUpload(u) ==
    /\ up
    /\ u \notin uploadDirs /\ open[u] = "absent" /\ \A b \in Batches : input[b] # u
    /\ Enter("create", u, NoTree)
    /\ UNCHANGED <<diskVars, taskVars, open, viewed, workerVars, history>>

UploadCreated ==
    /\ op = "create" /\ phase = "settled"
    /\ uploadDirs' = uploadDirs \cup {item}
    /\ open' = [open EXCEPT ![item] = "free"]
    /\ Leave
    /\ UNCHANGED <<batchDir, input, taskVars, viewed, workerVars, history>>

CancelUpload(u) ==
    /\ up /\ op = "free"
    /\ open[u] = "free"
    /\ uploadDirs' = uploadDirs \ {u}
    /\ open' = [open EXCEPT ![u] = "absent"]
    /\ UNCHANGED <<batchDir, input, taskVars, viewed, workerVars, passVars, lockVars, history>>

-----------------------------------------------------------------------------
(* start *)

\* A path start accepts exists; it may lie in the managed storage, in an
\* upload as well.
PathInputs == {External} \cup BatchDirs \cup uploadDirs

EnterStart(i) ==
    /\ up
    /\ active = NoTree
    /\ started < MaxBatches
    /\ i \in PathInputs
    /\ Enter("start", NoTree, i)
    /\ UNCHANGED <<diskVars, taskVars, open, viewed, workerVars, history>>

StartMakesDir ==
    /\ op = "start" /\ phase = "settled"
    /\ started' = started + 1
    /\ item' = started + 1
    /\ batchDir' = [batchDir EXCEPT ![started + 1] = "bare"]
    /\ op' = "mkdir"
    /\ PassOver
    /\ UNCHANGED <<uploadDirs, input, taskVars, open, viewed, workerVars,
                   guard, up, crashes, reported, published>>

StartWritesTask ==
    /\ op = "mkdir"
    /\ batchDir' = [batchDir EXCEPT ![item] = "task"]
    /\ input' = [input EXCEPT ![item] = guard]
    /\ op' = "register"
    /\ UNCHANGED <<uploadDirs, taskVars, open, viewed, workerVars, passVars,
                   item, guard, history>>

\* web-task.json cannot be written: the directory stays, unreadable.
StartFails ==
    /\ PersistMayFail
    /\ op = "mkdir"
    /\ Leave
    /\ UNCHANGED <<diskVars, taskVars, open, viewed, workerVars, history>>

\* An upload named by its identifier is claimed; one named by its path is not.
StartRegisters(byId) ==
    /\ op = "register"
    /\ byId => guard \in Uploads /\ open[guard] = "free"
    /\ status' = [status EXCEPT ![item] = "preparing"]
    /\ active' = item
    /\ open' = IF byId THEN [open EXCEPT ![guard] = "claimed"] ELSE open
    /\ worker' = "begin"
    /\ Leave
    /\ UNCHANGED <<diskVars, cancel, viewed, outcome, history>>

-----------------------------------------------------------------------------
(* The worker thread: run_analysis and the rest of _run *)

\* The input is opened: refused before a manifest exists, or first progress.
WorkerBegins ==
    /\ worker = "begin"
    /\ \/ /\ worker' = "return" /\ outcome' = "failed"
          /\ UNCHANGED batchDir
       \/ /\ worker' = "analyse" /\ UNCHANGED outcome
          /\ batchDir' = [batchDir EXCEPT ![active] = "running"]
    /\ UNCHANGED <<uploadDirs, input, taskVars, open, viewed, passVars, lockVars, history>>

\* The index is built, the last cancellation check passed, and the manifest
\* published with one rename.
Publish ==
    /\ worker = "analyse"
    /\ active \notin cancel
    /\ batchDir' = [batchDir EXCEPT ![active] = "ready"]
    /\ outcome' = "ready"
    /\ published' = published \cup {active}
    /\ worker' = "announce"
    /\ UNCHANGED <<uploadDirs, input, taskVars, open, viewed, passVars, lockVars,
                   started, up, crashes, reported>>

\* An error, or a cancellation seen at a check; its manifest is written too
\* unless the disk refuses.
Abort ==
    /\ worker = "analyse"
    /\ outcome' \in {"failed"} \cup (IF active \in cancel THEN {"cancelled"} ELSE {})
    /\ \/ /\ batchDir' = [batchDir EXCEPT ![active] = outcome']
          /\ worker' = "announce"
       \/ /\ PersistMayFail
          /\ outcome' = "failed" /\ worker' = "return"
          /\ UNCHANGED batchDir
    /\ UNCHANGED <<uploadDirs, input, taskVars, open, viewed, passVars, lockVars, history>>

\* The last progress call of run_analysis sets the status under the lock.
Announce ==
    /\ worker = "announce" /\ op = "free"
    /\ status' = [status EXCEPT ![active] = outcome]
    /\ worker' = "return"
    /\ UNCHANGED <<diskVars, cancel, active, open, viewed, outcome,
                   passVars, lockVars, history>>

\* Back in _run, without the lock.
Return ==
    /\ worker = "return"
    /\ status' = [status EXCEPT ![active] =
                     IF outcome # "ready" /\ active \in cancel THEN "cancelled" ELSE outcome]
    /\ worker' = "persist"
    /\ UNCHANGED <<diskVars, cancel, active, open, viewed, outcome,
                   passVars, lockVars, history>>

\* manifest.json is rewritten in place: truncated first, whole afterwards.
PersistBegins ==
    /\ worker = "persist"
    /\ batchDir' = [batchDir EXCEPT ![active] = "torn"]
    /\ worker' = "writing"
    /\ UNCHANGED <<uploadDirs, input, taskVars, open, viewed, outcome,
                   passVars, lockVars, history>>

\* Mutant: the manifest keeps what the analysis said, not what became of it.
PersistOutcome ==
    /\ worker = "writing"
    /\ batchDir' = [batchDir EXCEPT ![active] = outcome]
    /\ worker' = "complete"
    /\ UNCHANGED <<uploadDirs, input, taskVars, open, viewed, outcome,
                   passVars, lockVars, history>>

PersistEnds ==
    /\ worker = "writing"
    /\ batchDir' = [batchDir EXCEPT ![active] = status[active]]
    /\ worker' = "complete"
    /\ UNCHANGED <<uploadDirs, input, taskVars, open, viewed, outcome,
                   passVars, lockVars, history>>

\* The file cannot be opened, or not be written to its end.
PersistFails ==
    /\ PersistMayFail
    /\ worker \in {"persist", "writing"}
    /\ status' = [status EXCEPT ![active] = "failed"]
    /\ worker' = "complete"
    /\ UNCHANGED <<diskVars, cancel, active, open, viewed, outcome,
                   passVars, lockVars, history>>

\* Mutant: only a success gives the manager back.
CompleteSuccess ==
    /\ worker = "complete"
    /\ Enter("complete", NoTree, NoTree)
    /\ reported' = [reported EXCEPT ![active] = status[active]]
    /\ active' = IF status[active] = "ready" THEN NoTree ELSE active
    /\ cancel' = cancel \ {active}
    /\ worker' = "none" /\ outcome' = "failed"
    /\ UNCHANGED <<diskVars, status, open, viewed, started, up, crashes, published>>

\* The complete event, the end of the active task, and a pass, all in one
\* critical section.  Nobody reads the task's cancel event any more.
EnterComplete ==
    /\ worker = "complete"
    /\ Enter("complete", NoTree, NoTree)
    /\ reported' = [reported EXCEPT ![active] = status[active]]
    /\ active' = NoTree
    /\ cancel' = cancel \ {active}
    /\ worker' = "none" /\ outcome' = "failed"
    /\ UNCHANGED <<diskVars, status, open, viewed, started, up, crashes, published>>

Worker ==
    WorkerBegins \/ Publish \/ Abort \/ Announce \/ Return
    \/ PersistBegins \/ PersistEnds \/ PersistFails \/ EnterComplete

\* stop: only the active task can be cancelled.
Stop(b) ==
    /\ up /\ op = "free"
    /\ active = b /\ b \notin cancel
    /\ cancel' = cancel \cup {b}
    /\ UNCHANGED <<diskVars, status, active, open, viewed, workerVars,
                   passVars, lockVars, history>>

-----------------------------------------------------------------------------
(* Lists and queries *)

\* GET batches or storage, with a batch to pin or none, or to unpin; also the
\* pass at the end of finish_upload.
EnterList(pin) ==
    /\ up
    /\ Enter("list", NoTree, NoTree)
    /\ \/ UNCHANGED viewed
       \/ pin \in Listed \cup {NoTree} /\ viewed' = pin
    /\ UNCHANGED <<diskVars, taskVars, open, workerVars, history>>

EndList ==
    /\ op \in {"list", "complete"} /\ phase = "settled"
    /\ Leave
    /\ UNCHANGED <<diskVars, taskVars, open, viewed, workerVars, history>>

\* A query for records pins the batch it found ready; it reads the batch's
\* files afterwards without any lock.
PinBatch(b) ==
    /\ up /\ op = "free"
    /\ b \in Terminal /\ b # viewed
    /\ viewed' = b
    /\ UNCHANGED <<diskVars, taskVars, open, workerVars, passVars, lockVars, history>>

-----------------------------------------------------------------------------
(* Restart *)

\* The process dies; only the disk is left.
Crash ==
    /\ up /\ crashes < MaxCrashes
    /\ up' = FALSE
    /\ crashes' = crashes + 1
    /\ status' = [b \in Batches |-> "unlisted"]
    /\ cancel' = {} /\ active' = NoTree
    /\ open' = [u \in Uploads |-> "absent"]
    /\ viewed' = NoTree
    /\ worker' = "none" /\ outcome' = "failed"
    /\ Leave
    /\ UNCHANGED <<diskVars, started, reported, published>>

\* Mutant: a batch whose analysis was interrupted counts as done.
LoadedReady(state) ==
    IF state \in {"none", "bare", "torn"} THEN "unlisted"
    ELSE IF state \in Terminals THEN state ELSE "ready"

\* _load_history: what the directory of a batch says about it.
Loaded(state) ==
    IF state \in {"none", "bare", "torn"} THEN "unlisted"
    ELSE IF state \in Terminals THEN state
    ELSE "failed"

Boot ==
    /\ ~up
    /\ up' = TRUE
    /\ status' = [b \in Batches |-> Loaded(batchDir[b])]
    /\ Enter("boot", NoTree, NoTree)
    /\ UNCHANGED <<diskVars, cancel, active, open, viewed, workerVars,
                   started, crashes, reported, published>>

EndBoot ==
    /\ op = "boot" /\ phase = "settled"
    /\ Leave
    /\ UNCHANGED <<diskVars, taskVars, open, viewed, workerVars, history>>

-----------------------------------------------------------------------------

\* What the thread that holds the lock does next.
Holder ==
    Pass \/ UploadCreated \/ StartMakesDir \/ StartWritesTask \/ StartFails
    \/ (\E byId \in BOOLEAN : StartRegisters(byId)) \/ EndList \/ EndBoot

Requests ==
    \/ \E u \in Uploads : CreateUpload(u) \/ CancelUpload(u)
    \/ \E i \in Trees \cup {External} : EnterStart(i)
    \/ \E b \in Batches : Stop(b) \/ PinBatch(b)
    \/ \E pin \in Batches \cup {NoTree} : EnterList(pin)

Next == Holder \/ Worker \/ Requests \/ Crash \/ Boot

Spec == Init /\ [][Next]_vars

\* A thread that holds the lock goes on, the worker ends its analysis, and a
\* lock that is free again and again is had.
Fairness == WF_vars(Holder) /\ SF_vars(Worker)

FairSpec == Spec /\ Fairness

-----------------------------------------------------------------------------
(* Properties *)

\* The client itself withdraws an upload that no task has claimed.
Withdrawn(u) == op = "free" /\ open[u] = "free" /\ open'[u] = "absent"

\* A batch never outlives what it reads: whatever retention removes, in
\* whatever order and after whatever restart, the input of a listed task goes
\* no earlier than the task's own directory, unless the client cancels an
\* upload that it started from by path.
KeptInputs ==
    [][\A b \in Listed \cap BatchDirs :
          status'[b] # "unlisted" /\ batchDir'[b] # "none" =>
              /\ input[b] \in BatchDirs => batchDir'[input[b]] # "none"
              /\ input[b] \in uploadDirs =>
                    input[b] \in uploadDirs' \/ Withdrawn(input[b])]_vars

\* Retention takes nothing that is running, being viewed, the newest result,
\* the newest success, or read by a task that stays.
RetentionSpares ==
    [][\A b \in Batches : batchDir[b] # "none" /\ batchDir'[b] = "none" =>
          /\ b # active /\ b # viewed
          /\ b \notin Newest(Terminal) \cup Newest(Ready)
          /\ \A c \in Listed : input[c] # b]_vars

\* When a pass has settled and no worker is about to add to it, storage over
\* the limit holds only what must stay: nothing removable is left, even what
\* became removable through the pass's own removals.
StorageSettles ==
    (phase = "settled" /\ worker = "none" /\ Usage >= Limit) => Candidates = {}

\* The outcome a complete event told stays the outcome of that batch for as
\* long as it is listed, across restarts.
DurableOutcome ==
    \A b \in Listed : reported[b] # "none" => status[b] = reported[b]

\* The list that the page shows tells the truth about every run: only the
\* running task is unfinished, so one that a restart interrupted is not left
\* waiting and neither is one that just completed, and no run that was
\* interrupted or failed is ever offered to queries.
TaskListIsTrue ==
    /\ TypeOK
    /\ \A b \in Listed \ Terminal : b = active
    /\ Ready \subseteq published

\* Nothing takes away the newest successful batch, not even a restart in the
\* middle of the worker's last writes.
NewestSuccessKept ==
    [][\A b \in Newest(published) : batchDir[b] # "none" => batchDir'[b] # "none"]_vars

\* Every task completes and gives the manager back, however its run ends.
TasksComplete == \A b \in Batches : (active = b) ~> (active # b)

\* The manager is never held for good.
LockReleased == (op # "free") ~> (op = "free")
=============================================================================
