------------------------------- MODULE ScpBatch -------------------------------
(***************************************************************************)
(* SSHHost.scp_download_many of autoenv/ssh_host.py: every remote file that *)
(* matches a glob is fetched into an empty local directory by a pool of     *)
(* worker threads, each over a channel of its own.  A file is the index the *)
(* sorted listing gives it.  It is received in the directory's file of its  *)
(* name with .part added, which can be the name of another remote file.     *)
(***************************************************************************)
EXTENDS Naturals, Sequences, FiniteSets

CONSTANTS
    MaxFiles,     \* files a glob can match
    Workers,      \* _SCP_BATCH_WORKERS
    Namings,      \* for each file, which file's name is its own with .part added
    LogMayFail    \* can the run log or os.utime raise?

Files == 1..MaxFiles
NoFile == 0

ASSUME BatchAssumption ==
    /\ MaxFiles \in Nat \ {0}
    /\ Workers \in Nat \ {0}
    /\ \A naming \in Namings :
          /\ naming \in [Files -> Files \cup {NoFile}]
          /\ \A i \in Files : naming[i] # i
          /\ \A i, j \in Files : naming[i] = naming[j] /\ i # j => naming[i] = NoFile
    /\ LogMayFail \in BOOLEAN

\* The names in the local directory: the files' own, and a .part of each.
Spots == 1..(2 * MaxFiles)

\* What is under a name: nothing, the whole of a file, or a piece of one.
Nothing == 0
Piece == MaxFiles + 1
Contents == 0..Piece

VARIABLES
    phase,      \* of the call: "idle", "running", "success", "failure" or "raised"
    total,      \* matched_count
    transfer,   \* where the worker is with each file
    partName,   \* the naming of the files listed
    disk,       \* what is under each name
    counted,    \* completed_count
    told,       \* the numbers of the progress lines, in the order of the log
    lock        \* holder of completion_lock

batchVars == <<phase, total, transfer, partName, disk, counted, told, lock>>

InHand == {"getting", "got", "placed", "stamped", "telling", "failing"}
Over == {"success", "failure", "raised"}

BatchTypeOK ==
    /\ phase \in {"idle", "running"} \cup Over
    /\ total \in 0..MaxFiles
    /\ transfer \in [Files -> {"none", "queued", "done", "failed"} \cup InHand]
    /\ partName \in [Files -> Files \cup {NoFile}]
    /\ disk \in [Spots -> Contents]
    /\ counted \in Nat
    /\ told \in Seq(Nat)
    /\ lock \in Files \cup {NoFile}

NoNames == [i \in Files |-> NoFile]
EmptyDirectory == [s \in Spots |-> Nothing]

BatchInit ==
    /\ phase = "idle" /\ total = 0
    /\ transfer = [i \in Files |-> "none"]
    /\ partName = NoNames /\ disk = EmptyDirectory
    /\ counted = 0 /\ told = <<>> /\ lock = NoFile

Matched == 1..total

\* Where a file is received.
Pending(i) == IF partName[i] \in Matched THEN partName[i] ELSE MaxFiles + i

Present == {i \in Files : disk[i] # Nothing}

\* The directory is made and the remote one listed: nothing to fetch is a
\* failure, like a connection that does not answer.
StartBatch(n) ==
    /\ phase \notin {"running"}
    /\ phase' = IF n = 0 THEN "failure" ELSE "running"
    /\ total' = n
    /\ transfer' = [i \in Files |-> IF i <= n THEN "queued" ELSE "none"]
    /\ partName' \in Namings /\ disk' = EmptyDirectory
    /\ counted' = 0 /\ told' = IF n = 0 THEN <<>> ELSE <<0>>
    /\ lock' = NoFile

\* The call raises before it has fetched anything.
StartRaises ==
    /\ LogMayFail
    /\ phase \notin {"running"}
    /\ phase' = "raised"
    /\ total' = 0
    /\ transfer' = [i \in Files |-> "none"]
    /\ partName' = NoNames /\ disk' = EmptyDirectory
    /\ counted' = 0 /\ told' = <<>> /\ lock' = NoFile

Advance(i, from, to) ==
    /\ phase = "running"
    /\ transfer[i] = from
    /\ transfer' = [transfer EXCEPT ![i] = to]

InWork == {i \in Files : transfer[i] \in InHand}

Removed(i) == disk' = [disk EXCEPT ![Pending(i)] = Nothing]

\* The executor hands the files out in order.
Begin(i) ==
    /\ \A j \in 1..(i - 1) : transfer[j] # "queued"
    /\ Cardinality(InWork) < Workers
    /\ Removed(i)
    /\ \/ Advance(i, "queued", "getting")
       \/ LogMayFail /\ Advance(i, "queued", "failed")
    /\ UNCHANGED <<phase, total, partName, counted, told, lock>>

\* The channel delivers the file, or breaks with some of it written.  A file of
\* that name that is put there meanwhile takes the place of what is delivered.
Get(i) ==
    /\ \/ /\ Advance(i, "getting", "got")
          /\ \/ disk' = [disk EXCEPT ![Pending(i)] = i]
             \/ disk[Pending(i)] # Nothing /\ UNCHANGED disk
       \/ /\ Advance(i, "getting", "failing")
          /\ disk' \in {disk, [disk EXCEPT ![Pending(i)] = Piece]}
    /\ UNCHANGED <<phase, total, partName, counted, told, lock>>

\* os.replace, of whatever is there by now.
Place(i) ==
    /\ \/ /\ Advance(i, "got", "placed") /\ disk[Pending(i)] # Nothing
          /\ disk' = [disk EXCEPT ![i] = disk[Pending(i)], ![Pending(i)] = Nothing]
       \/ Advance(i, "got", "failing") /\ UNCHANGED disk
    /\ UNCHANGED <<phase, total, partName, counted, told, lock>>

\* os.utime and the record of the completed file.
Stamp(i) ==
    /\ \/ disk[i] # Nothing /\ Advance(i, "placed", "stamped")
       \/ (LogMayFail \/ disk[i] = Nothing) /\ Advance(i, "placed", "failing")
    /\ UNCHANGED <<phase, total, partName, disk, counted, told, lock>>

\* Mutant: the count and its line are two critical sections.
CountUnlocked(i) ==
    /\ Advance(i, "stamped", "telling")
    /\ counted' = counted + 1
    /\ UNCHANGED <<phase, total, partName, disk, told, lock>>

Count(i) ==
    /\ lock = NoFile
    /\ Advance(i, "stamped", "telling")
    /\ counted' = counted + 1
    /\ lock' = i
    /\ UNCHANGED <<phase, total, partName, disk, told>>

\* Mutant: a progress line that cannot be written keeps the lock.
TellLocked(i) ==
    /\ \/ Advance(i, "telling", "done") /\ told' = Append(told, counted) /\ lock' = NoFile
       \/ LogMayFail /\ Advance(i, "telling", "failing") /\ UNCHANGED <<told, lock>>
    /\ UNCHANGED <<phase, total, partName, disk, counted>>

\* The line that ends with the finally clause, or fails and leads to it.
Tell(i) ==
    /\ \/ Advance(i, "telling", "done") /\ told' = Append(told, counted) /\ Removed(i)
       \/ LogMayFail /\ Advance(i, "telling", "failing") /\ UNCHANGED <<told, disk>>
    /\ lock' = NoFile
    /\ UNCHANGED <<phase, total, partName, counted>>

\* The failed event, and the finally clause.
Fail(i) ==
    /\ Advance(i, "failing", "failed")
    /\ Removed(i)
    /\ UNCHANGED <<phase, total, partName, counted, told, lock>>

Work(i) ==
    Begin(i) \/ Get(i) \/ Place(i) \/ Stamp(i) \/ Count(i) \/ Tell(i) \/ Fail(i)

Completed == {i \in Matched : transfer[i] = "done"}
Failed == {i \in Matched : transfer[i] = "failed"}

\* Every future is awaited, failed or not; one failure fails the batch, and
\* the files of the futures that returned are removed again.
Collect ==
    /\ phase = "running"
    /\ Completed \cup Failed = Matched
    /\ phase' \in {IF Failed = {} THEN "success" ELSE "failure"}
                  \cup (IF LogMayFail THEN {"raised"} ELSE {})
    /\ disk' = IF Failed = {} THEN disk
               ELSE [s \in Spots |-> IF s \in Completed THEN Nothing ELSE disk[s]]
    /\ UNCHANGED <<total, transfer, partName, counted, told, lock>>

BatchStep == (\E i \in Files : Work(i)) \/ Collect

BatchNext == (\E n \in 0..MaxFiles : StartBatch(n)) \/ StartRaises \/ BatchStep

BatchSpec == BatchInit /\ [][BatchNext]_batchVars

BatchFairness == WF_batchVars(Collect) /\ \A i \in Files : WF_batchVars(Work(i))

-----------------------------------------------------------------------------
(* Properties *)

\* However the workers finish, the progress lines go up one file at a time
\* and never past the total; a successful batch has told every number.
ProgressInOrder ==
    /\ \A i \in 1..(Len(told) - 1) : told[i] < told[i + 1]
    /\ \A i \in 1..Len(told) : told[i] <= total
    /\ phase = "success" => told = [i \in 1..(total + 1) |-> i - 1]

\* Files of which neither is received under the name of another that is fetched.
Apart == {i \in Matched : /\ partName[i] \notin Matched
                         /\ \A j \in Matched : partName[j] # i}

\* A batch that is over has left no partial file.  A successful one has every
\* file it matched whole under its name, but for those of which one has the name
\* that the other is received under; of a failed one nothing stays but a file
\* whose own transfer failed after the rename, which the clean-up overlooks.
PlacedWhenOver ==
    phase \in Over =>
        /\ \A s \in Spots : disk[s] # Nothing => s \in Files /\ disk[s] # Piece
        /\ phase = "success" => \A i \in Apart : disk[i] = i
        /\ phase = "failure" => Present \subseteq Failed
        /\ phase = "failure" /\ ~LogMayFail => Present = {}

\* No failure of one transfer keeps the batch from ending.
BatchEnds == phase = "running" ~> phase # "running"
=============================================================================
