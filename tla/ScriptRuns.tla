----------------------------- MODULE ScriptRuns -----------------------------
(***************************************************************************)
(* Registered scripts: run_script in autoenv/registry.py makes a RunContext   *)
(* (autoenv/runtime.py) for each run, a script may call another one as a      *)
(* child run, the parameters of the last run are kept for a rerun, and the    *)
(* packages of old runs are removed when a new one starts.  Each run has at   *)
(* most one host and one package.                                           *)
(***************************************************************************)
EXTENDS Integers, Sequences, SequencesExt

CONSTANTS
    Scripts,      \* registered scripts
    Hosts,        \* what a host can be configured with
    Packages,     \* what a package's path can be: the size of what is there
    MaxRuns,      \* bounds the runs
    CacheLimit    \* package_cache_limit

ASSUME RunsAssumption ==
    /\ Hosts \subseteq Nat \ {0} /\ Packages \subseteq Nat \ {0}
    /\ MaxRuns \in Nat /\ CacheLimit \in Nat

VARIABLES
    stack,    \* the runs under way, each the child of the one below
    last,     \* state/last_runs/<script>.json
    size,     \* of the package directory of each run
    touched,  \* when its run directory was last changed
    ended     \* the runs that are over

runsVars == <<stack, last, size, touched, ended>>

Ids == 1..MaxRuns

Fields == {"host", "package"}
Unset == [f \in Fields |-> 0]
NoLast == [f \in Fields |-> -1]
Modes == {"run", "rerun"}

RunsInit ==
    /\ stack = <<>> /\ ended = <<>>
    /\ size = [id \in Ids |-> 0] /\ touched = [id \in Ids |-> 0]
    /\ last = [s \in Scripts |-> NoLast]

Top == stack[Len(stack)]
Changes(frame) == stack' = [stack EXCEPT ![Len(stack)] = frame]
InBody == stack # <<>> /\ Top.pc \in {"body", "menu"}
Started == Len(ended) + Len(stack)

\* A file of the run is put into its directory, which is now the newest.
Touches(id) ==
    touched' = [touched EXCEPT ![id] = 1 + Max({touched[other] : other \in Ids})]

-----------------------------------------------------------------------------
(* A run starts.                                                            *)
Total(sizes) == MapThenSumSet(LAMBDA id : sizes[id], Ids)

\* Mutant: the runs in the order they were made.
InOrderOfStart == SetToSortSeq({id \in Ids : size[id] > 0}, <)

\* The candidates of _cleanup_historical_packages, by the time of their run
\* directories.
OldestFirst ==
    SetToSortSeq({id \in Ids : size[id] > 0}, LAMBDA one, other : touched[one] < touched[other])

\* _cleanup_historical_packages empties one directory after the other, until
\* what is left is within the limit.  That an emptied directory is made anew,
\* and its run's is the newest, is of no matter: a package that is put into it
\* makes it the newest again.
CleanedUp(candidates) ==
    FoldLeft(LAMBDA left, id : IF Total(left) <= CacheLimit THEN left ELSE [left EXCEPT ![id] = 0],
             size, candidates)

\* RunContext.__init__: what was kept of the last run is read once.
NewContext(script, mode) ==
    [id |-> Started + 1, script |-> script, mode |-> mode, pc |-> "body",
     old |-> last[script], params |-> Unset, operated |-> FALSE, returned |-> "none"]

\* From outside, or by the body or a function of the run under way.
MayStart(script) ==
    /\ Started < MaxRuns
    /\ stack # <<>> => InBody /\ \A i \in 1..Len(stack) : stack[i].script # script

\* run_script, as a child in the mode of its parent.
StartRun(script) ==
    /\ MayStart(script)
    /\ \E mode \in IF stack = <<>> THEN Modes ELSE {Top.mode} :
          /\ mode = "rerun" => last[script] # NoLast
          /\ stack' = Append(stack, NewContext(script, mode))
    /\ size' = CleanedUp(OldestFirst) /\ Touches(Started + 1)
    /\ UNCHANGED <<last, ended>>

\* A rerun without a last run, and a directory or file of the run that cannot be
\* made or removed: there is no context, and the caller has a failed result.
\* Some directories may have been emptied.
StartFails(script) ==
    /\ MayStart(script)
    /\ \E n \in 0..Len(OldestFirst) : size' = CleanedUp(SubSeq(OldestFirst, 1, n))
    /\ IF stack = <<>> THEN stack' = stack ELSE Changes([Top EXCEPT !.returned = "failed"])
    /\ UNCHANGED <<last, touched, ended>>

Offered(field) == IF field = "host" THEN Hosts ELSE Packages

\* Mutant: a value that the last run lacks is asked for as in a first run.
ValuesOrDefault(field) ==
    IF Top.mode = "rerun" /\ Top.old[field] > 0 THEN {Top.old[field]} ELSE Offered(field)

\* What _collect_values and download_package take: a rerun takes what the last
\* run had, and fails when that had nothing.
ValuesFor(field) ==
    IF Top.mode = "rerun" THEN {Top.old[field]} \cap Offered(field) ELSE Offered(field)

\* register_ssh_host, register_telnet or register_ftp_host; params.json is saved
\* at once.
RegisterHost ==
    /\ InBody /\ Top.params["host"] = 0
    /\ \E v \in ValuesFor("host") : Changes([Top EXCEPT !.params["host"] = v])
    /\ Touches(Top.id)
    /\ UNCHANGED <<last, size, ended>>

\* download_package saves params.json first; the download is an operation, which
\* may fail.
DownloadPackage ==
    /\ InBody /\ Top.params["package"] = 0
    /\ \E v \in ValuesFor("package"), ok \in BOOLEAN :
          /\ Changes([Top EXCEPT !.params["package"] = v, !.operated = TRUE,
                                 !.returned = IF ok THEN "success" ELSE "failed"])
          /\ size' = IF ok THEN [size EXCEPT ![Top.id] = v] ELSE size
    /\ Touches(Top.id)
    /\ UNCHANGED <<last, ended>>

\* A command or transfer of the host.
HostOperates ==
    /\ InBody /\ Top.params["host"] # 0
    /\ \E ok \in BOOLEAN :
          Changes([Top EXCEPT !.operated = TRUE,
                              !.returned = IF ok THEN "success" ELSE "failed"])
    /\ UNCHANGED <<last, size, touched, ended>>

-----------------------------------------------------------------------------
(* A run ends.                                                              *)
\* Mutant: what a run had collected is always kept.
CommitsAlways(status) == TRUE

\* After an exception the parameters are kept if there was an operation.
Commits(status) == status # "program_error" \/ Top.operated

\* commit_last_run.
Ending(status) ==
    /\ last' = IF Commits(status) THEN [last EXCEPT ![Top.script] = Top.params] ELSE last
    /\ Changes([Top EXCEPT !.pc = "closed", !.returned = status])
    /\ UNCHANGED <<size, touched, ended>>

\* The body returns nothing, or the result of an operation or of a child.  When
\* it succeeded and has registered functions, a menu offers them.
Return ==
    /\ InBody /\ Top.pc = "body"
    /\ \E status \in {"success", Top.returned} \ {"none"} :
          \/ Ending(status)
          \/ /\ status = "success" /\ Changes([Top EXCEPT !.pc = "menu"])
             /\ UNCHANGED <<last, size, touched, ended>>

\* The exception of a function does not leave the menu.
LeaveMenu == InBody /\ Top.pc = "menu" /\ Ending("success")

Raise == InBody /\ Top.pc = "body" /\ Ending("program_error")

\* result.json; the parent has the result of its child.
WriteRunResult ==
    /\ stack # <<>> /\ Top.pc = "closed"
    /\ ended' = Append(ended, [script |-> Top.script,
                               kept |-> IF Top.returned # "program_error" \/ Top.operated
                                        THEN Top.params ELSE NoLast])
    /\ Touches(Top.id)
    /\ stack' = IF Len(stack) = 1 THEN <<>>
                ELSE [Front(stack) EXCEPT ![Len(stack) - 1].returned =
                          IF Top.returned = "success" THEN "success" ELSE "failed"]
    /\ UNCHANGED <<last, size>>

RunsNext ==
    \/ \E s \in Scripts : StartRun(s) \/ StartFails(s)
    \/ RegisterHost \/ DownloadPackage \/ HostOperates
    \/ Return \/ LeaveMenu \/ Raise \/ WriteRunResult

RunsSpec == RunsInit /\ [][RunsNext]_runsVars

-----------------------------------------------------------------------------
\* The runs of a script that came to their end or had begun an operation.
KeptRuns(s) == {i \in 1..Len(ended) : ended[i].script = s /\ ended[i].kept # NoLast}

\* What a rerun connects to and installs is what the last run of its script did,
\* in its child runs too, whatever that last run had collected before it ended;
\* and what is kept for a script is from its latest run that came to its end or
\* had begun an operation when it failed: a run that fails before it has done
\* anything leaves what can be rerun as it was (run_script, _load_last_params,
\* _collect_values, download_package).
RerunRepeats ==
    /\ \A i \in 1..Len(stack), f \in Fields :
          stack[i].mode = "rerun" /\ stack[i].params[f] # 0 =>
              stack[i].params[f] = last[stack[i].script][f]
    /\ \A s \in Scripts :
          (\A i \in 1..Len(stack) : ~(stack[i].script = s /\ stack[i].pc = "closed")) =>
              IF KeptRuns(s) = {} THEN last[s] = NoLast
              ELSE \E i \in KeptRuns(s) : last[s] = ended[i].kept /\ \A j \in KeptRuns(s) : j <= i

\* The room taken by what a run has, and by what was put there since.
RoomSince(id) ==
    MapThenSumSet(LAMBDA other : size[other], {other \in Ids : touched[other] >= touched[id]})

\* The packages of a run are removed only when they do not fit into the limit
\* with those of the runs that were changed after it, also when these had been
\* started earlier, as the parent of a child run is; and those that a new run
\* finds fit into the limit (_cleanup_historical_packages, and the writes to the
\* run directories that it goes by).
LeastIsRemoved ==
    [][/\ \A id \in Ids : size[id] > 0 /\ size'[id] = 0 => RoomSince(id) > CacheLimit
       /\ Len(stack') > Len(stack) =>
             \A id \in Ids : size'[id] > 0 => RoomSince(id) <= CacheLimit]_runsVars
=============================================================================
