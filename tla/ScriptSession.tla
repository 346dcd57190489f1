--------------------------- MODULE ScriptSession ---------------------------
(***************************************************************************)
(* The runs of one script: autoenv/cli.py prepares it, runs its body and      *)
(* writes its outcome through the ExecutionSession of autoenv/script_session, *)
(* which binds the role the script declares to a connection of                *)
(* autoenv/remote_catalog.py, remembers it for the next run, and checks it    *)
(* with the remote objects of autoenv/remote_environment.py.  Revisions stand *)
(* for the configurations they are the digests of; 0 is a connection that is  *)
(* disabled.                                                                *)
(***************************************************************************)
EXTENDS Integers, Sequences

CONSTANTS
    Consoles,      \* each runs the script again and again
    Names,         \* connections of the catalogue
    Layouts,       \* what the script's successive texts declare: for each, the
                   \* connections its role may use
    MaxRevision,   \* bounds the edits of one connection
    MaxOps         \* bounds the operations one run records

ASSUME SessionAssumption ==
    /\ Layouts \in Seq(SUBSET Names) /\ Layouts # <<>>
    /\ MaxRevision \in Nat /\ MaxOps \in Nat

VARIABLES
    catalog,   \* the revision of each connection now
    layout,    \* the text of the script now
    history,   \* state/script_runs/<script>.json
    partial,   \* its .tmp, which all the runs of the script share
    run        \* the last run of each console

vars == <<catalog, layout, history, partial, run>>

Revisions == 1..MaxRevision
NoBinding == [name |-> "none", revision |-> 0]
NoHistory == [layout |-> 0, name |-> "none", revision |-> 0]
Unreadable == [layout |-> 0, name |-> "unreadable", revision |-> 0]   \* cut short, or mixed
NoResult == [success |-> FALSE, status |-> "none", final |-> 0]
NoRemote == [made |-> FALSE, used |-> 0, available |-> FALSE, check |-> 0,
             retrying |-> FALSE, connected |-> FALSE, closed |-> FALSE]
NewRun == [pc |-> "new", hosted |-> TRUE, layout |-> 0,
           catalog |-> [n \in Names |-> 0], past |-> NoHistory,
           bound |-> NoBinding, inherited |-> FALSE, initialized |-> FALSE,
           remote |-> NoRemote, ops |-> <<>>, final |-> 0, end |-> "none",
           outcome |-> NoResult, result |-> NoResult, exit |-> -1]

Init ==
    /\ catalog \in [Names -> {0, 1}] /\ layout = 1
    /\ history = NoHistory /\ partial = NoHistory
    /\ run = [r \in Consoles |-> NewRun]

At(r, pc) == run[r].pc = pc
Becomes(r, value) == run' = [run EXCEPT ![r] = value]
Goes(r, pc) == Becomes(r, [run[r] EXCEPT !.pc = pc])
OnlyRuns == UNCHANGED <<catalog, layout, history, partial>>
Allowed(r) == Layouts[run[r].layout]

-----------------------------------------------------------------------------
(* What happens around the runs.                                            *)
\* save_connection replaces the file of the connection's topology.
SaveConnection(n) ==
    /\ \E v \in {0} \cup Revisions : catalog[n] # v /\ catalog' = [catalog EXCEPT ![n] = v]
    /\ UNCHANGED <<layout, history, partial, run>>

\* The author edits the script.
EditScript ==
    /\ layout < Len(Layouts) /\ layout' = layout + 1
    /\ UNCHANGED <<catalog, history, partial, run>>

-----------------------------------------------------------------------------
(* Preparation.                                                             *)
\* A run of the command line, or of the script by itself, whose init_script
\* makes the session; the script is inspected.
Start(r) ==
    /\ At(r, "new") \/ At(r, "over")
    /\ \E hosted \in BOOLEAN :
          Becomes(r, [NewRun EXCEPT !.pc = "catalog", !.layout = layout, !.hosted = hosted])
    /\ OnlyRuns

\* finish is given the outcome, which is written at the next step.  A session
\* of its own that was never initialized is closed without one.
Finishing(value, success, status, exit) ==
    [value EXCEPT !.pc = "result", !.exit = exit,
                  !.outcome = [success |-> success, status |-> status, final |-> value.final]]

PreparationFails(r) ==
    Becomes(r, IF run[r].hosted THEN Finishing(run[r], FALSE, "preparation_failed", 2)
               ELSE [run[r] EXCEPT !.pc = "close", !.exit = 1])

\* compatible_topologies: a script that no connection suits is not run.
Compatible(r) == \E n \in Allowed(r) : catalog[n] # 0

\* The session keeps the catalogue it read.
ReadCatalog(r) ==
    /\ At(r, "catalog")
    /\ IF Compatible(r)
       THEN Becomes(r, [run[r] EXCEPT !.pc = "history", !.catalog = catalog])
       ELSE PreparationFails(r)
    /\ OnlyRuns

\* The history is ignored, used or required; that of a script that declared
\* something else does not count, and one that cannot be parsed is an error.
ReadHistory(r) ==
    /\ At(r, "history")
    /\ \E policy \in IF run[r].hosted THEN {"ignore", "use", "require"} ELSE {"use"} :
          LET past == IF policy = "ignore" \/ history.layout # run[r].layout
                      THEN NoHistory ELSE history
          IN  IF \/ policy = "require" /\ past = NoHistory
                 \/ policy # "ignore" /\ history = Unreadable
              THEN PreparationFails(r)
              ELSE Becomes(r, [run[r] EXCEPT !.pc = "bind", !.past = past])
    /\ OnlyRuns

Candidates(r) == {n \in Allowed(r) : run[r].catalog[n] # 0}

\* Mutant: a connection keeps its name when it is edited.
RememberedByName(r) ==
    LET old == run[r].past IN {n \in Candidates(r) : old.name = n}

\* What the history offers: the connection it names, unless it was changed.
Remembered(r) ==
    LET old == run[r].past
    IN  {n \in Candidates(r) : old.name = n /\ old.revision = run[r].catalog[n]}

\* A binding is supplied with the request, chosen, or taken from the history;
\* params.json names it with its revision.
Bind(r) ==
    /\ At(r, "bind")
    /\ \/ \E n \in Candidates(r), inherited \in BOOLEAN :
             /\ inherited => n \in Remembered(r)
             /\ Becomes(r, [run[r] EXCEPT
                    !.pc = "body", !.inherited = inherited,
                    !.bound = [name |-> n, revision |-> run[r].catalog[n]],
                    !.initialized = ~run[r].hosted])
       \/ PreparationFails(r)
    /\ OnlyRuns

-----------------------------------------------------------------------------
(* The script's body.                                                       *)
InitScript(r) ==
    /\ At(r, "body") /\ ~run[r].initialized
    /\ Becomes(r, [run[r] EXCEPT !.initialized = TRUE])
    /\ OnlyRuns

\* Mutant: the catalogue is read again for the connection.
ConfigNow(r) == catalog[run[r].bound.name]

\* The configuration a remote object is made with.
Config(r) == run[r].catalog[run[r].bound.name]

\* get_remote_info and create_remote: the session has the object before it is
\* checked.
GetRemote(r) ==
    /\ At(r, "body") /\ run[r].initialized /\ ~run[r].remote.made
    /\ Becomes(r, [run[r] EXCEPT !.pc = "check", !.remote.made = TRUE, !.remote.used = Config(r)])
    /\ OnlyRuns

\* Raised AutoEnvOperationError of the operation with this number.
Raises(value, op) == [value EXCEPT !.pc = "raised", !.final = op]
Recorded(value, ok) == [value EXCEPT !.ops = Append(@, ok)]

\* _self_check: the connection is opened, and may be open although the check
\* failed.
Checked(value, available, connected) ==
    [Recorded(value, available) EXCEPT
        !.remote.available = available, !.remote.check = Len(value.ops) + 1,
        !.remote.connected = connected]

\* retry goes on until it has tried often enough.
SelfCheck(r) ==
    /\ At(r, "check") /\ Len(run[r].ops) < MaxOps
    /\ \E available, connected, again \in BOOLEAN :
          LET checked == Checked(run[r], available, connected)
              stopped == [checked EXCEPT !.remote.retrying = FALSE]
          IN  /\ available => connected
              /\ again => run[r].remote.retrying /\ ~available
              /\ Becomes(r, IF again THEN [checked EXCEPT !.pc = "retry"]
                            ELSE IF available \/ ~run[r].remote.retrying
                            THEN [stopped EXCEPT !.pc = "body"]
                            ELSE Raises(stopped, checked.remote.check))
    /\ OnlyRuns

\* Mutant: an object that was closed can be tried again.
TriesAgain(r) ==
    [run[r] EXCEPT !.pc = "check", !.remote.retrying = TRUE, !.remote.connected = FALSE]

\* The client is closed and replaced before the check; an object that was closed
\* raises.
Retried(r) ==
    IF run[r].remote.closed THEN [run[r] EXCEPT !.pc = "failed"]
    ELSE [run[r] EXCEPT !.pc = "check", !.remote.retrying = TRUE, !.remote.connected = FALSE]

Retry(r) ==
    /\ At(r, "body") \/ At(r, "retry")
    /\ run[r].remote.made
    /\ Becomes(r, Retried(r))
    /\ OnlyRuns

\* execute, upload and download of a remote object that failed its check raise
\* the check; the passive operations of a console only need the object to be
\* open, connect it, and raise when they fail.  A failure may lose the
\* connection.
Operate(r) ==
    /\ At(r, "body") /\ run[r].remote.made /\ Len(run[r].ops) < MaxOps
    /\ IF run[r].remote.closed THEN Goes(r, "failed")
       ELSE \/ /\ ~run[r].remote.available
               /\ Becomes(r, Raises(run[r], run[r].remote.check))
            \/ \E ok, connected, raised \in BOOLEAN :
                  LET done == [Recorded(run[r], ok) EXCEPT !.remote.connected = connected]
                  IN  /\ ok => ~raised
                      /\ ~run[r].remote.available => (ok \/ raised) /\ (ok => connected)
                      /\ Becomes(r, IF raised THEN Raises(done, Len(done.ops)) ELSE done)
    /\ OnlyRuns

\* close of a remote object; closed once, it does nothing any more.
Closed(remote) ==
    IF remote.closed THEN remote ELSE [remote EXCEPT !.closed = TRUE, !.connected = FALSE]

\* The script closes the object, or leaves the block of its init_script: the
\* session of a hosted script goes on without its connections.
CloseRemote(r) ==
    /\ At(r, "body") /\ run[r].remote.made
    /\ Becomes(r, [run[r] EXCEPT !.remote = Closed(run[r].remote)])
    /\ OnlyRuns

\* An exception of the script is caught.
Catch(r) ==
    /\ At(r, "raised") \/ At(r, "failed")
    /\ Becomes(r, [run[r] EXCEPT !.pc = "body", !.final = 0])
    /\ OnlyRuns

-----------------------------------------------------------------------------
(* The end.                                                                 *)
Unavailable(r) == run[r].remote.made /\ ~run[r].remote.available

\* Mutant: a script that exits by itself has succeeded.
SucceedsAlways(r) == Finishing(run[r], TRUE, "success", 0)

\* None, text or SystemExit(0): success, unless a remote object failed its
\* last check.  The exit status of a script without the command line is its own.
Succeeds(r) ==
    IF Unavailable(r)
    THEN Finishing([run[r] EXCEPT !.final = run[r].remote.check], FALSE, "self_check_failed",
                   IF run[r].hosted THEN 1 ELSE 0)
    ELSE Finishing(run[r], TRUE, "success", 0)

Fails(value, status) == Finishing(value, FALSE, status, 1)

Returns(r) ==
    /\ At(r, "body")
    /\ Becomes(r, [IF run[r].initialized THEN Succeeds(r) ELSE Fails(run[r], "program_error")
                   EXCEPT !.end = "returned"])
    /\ OnlyRuns

\* main returns the result of an operation.
ReturnsResult(r) ==
    /\ At(r, "body") /\ run[r].hosted /\ run[r].initialized
    /\ \E op \in DOMAIN run[r].ops :
          LET ending == [run[r] EXCEPT !.final = op, !.end = "result"]
          IN  Becomes(r, IF ~run[r].ops[op] THEN Fails(ending, "operation_failed")
                         ELSE IF Unavailable(r)
                         THEN Fails([ending EXCEPT !.final = run[r].remote.check], "self_check_failed")
                         ELSE Finishing(ending, TRUE, "success", 0))
    /\ OnlyRuns

\* An exception leaves the script; that of an operation is final with the
\* command line, and a session of its own only sees that there was one.
RaisesOut(r) ==
    /\ run[r].pc \in {"body", "raised", "failed"}
    /\ LET status == IF At(r, "raised") /\ run[r].hosted THEN "operation_failed" ELSE "program_error"
           final == IF status = "operation_failed" THEN run[r].final ELSE 0
       IN  Becomes(r, [Fails([run[r] EXCEPT !.final = final], status) EXCEPT !.end = run[r].pc])
    /\ OnlyRuns

\* Mutant: no operation is final when none was chosen.
FinalChosen(r) == run[r].outcome

\* final_operation, or the last operation there was.
FinalOperation(r) ==
    [run[r].outcome EXCEPT !.final = IF @ # 0 THEN @ ELSE Len(run[r].ops)]

\* Mutant: the history is written whatever came of the preparation.
HistoryAnyway(r) == "history.tmp"

\* What finish does after result.json.
AfterResult(r) == IF run[r].initialized THEN "history.tmp" ELSE "close"

\* finish: result.json, then the history of the next run.
WriteResult(r) ==
    /\ At(r, "result")
    /\ Becomes(r, [run[r] EXCEPT !.result = FinalOperation(r), !.pc = AfterResult(r)])
    /\ OnlyRuns

\* write_json opens the .tmp, which cuts off what another run has written there.
OpenPartial(r) ==
    /\ At(r, "history.tmp") /\ Goes(r, "history.write")
    /\ partial' = Unreadable
    /\ UNCHANGED <<catalog, layout, history>>

Binding(r) ==
    [layout |-> run[r].layout, name |-> run[r].bound.name, revision |-> run[r].bound.revision]

\* It writes to the file it has opened, which another run may have opened as well,
\* or may have moved in the meantime and then replaced.
WritePartial(r) ==
    /\ Becomes(r, [run[r] EXCEPT !.pc = "history.json"])
    /\ \/ /\ At(r, "history.write")
          /\ partial' \in {Binding(r), Unreadable} /\ UNCHANGED history
       \/ /\ At(r, "history.moved")
          /\ history' \in {Binding(r), Unreadable, history} /\ UNCHANGED partial
    /\ UNCHANGED <<catalog, layout>>

\* os.replace moves the file, also when others are still writing to it.
MovesPartial(runs) ==
    /\ history' = partial /\ partial' = NoHistory
    /\ run' = [q \in Consoles |-> IF runs[q].pc = "history.write"
                                  THEN [runs[q] EXCEPT !.pc = "history.moved"] ELSE runs[q]]

\* It fails when another run has moved the file.  main then closes the session
\* and ends with 1; a script without the command line ends with 1 at once.
ReplaceHistory(r) ==
    /\ At(r, "history.json")
    /\ IF partial # NoHistory THEN MovesPartial([run EXCEPT ![r].pc = "close"])
       ELSE /\ Becomes(r, [run[r] EXCEPT !.exit = 1,
                                         !.pc = IF run[r].hosted THEN "close" ELSE "over"])
            /\ UNCHANGED <<history, partial>>
    /\ UNCHANGED <<catalog, layout>>

\* Another run of the script, bound alike, ends at the same moment and moves the
\* file that both have written.
AnotherRunEnds ==
    /\ partial # NoHistory /\ MovesPartial(run)
    /\ UNCHANGED <<catalog, layout>>

\* The session closes every remote object.
Close(r) ==
    /\ At(r, "close")
    /\ Becomes(r, [run[r] EXCEPT !.pc = "over", !.remote = Closed(run[r].remote)])
    /\ OnlyRuns

Next ==
    \/ \E n \in Names : SaveConnection(n)
    \/ EditScript \/ AnotherRunEnds
    \/ \E r \in Consoles :
          \/ Start(r) \/ ReadCatalog(r) \/ ReadHistory(r) \/ Bind(r)
          \/ InitScript(r) \/ GetRemote(r) \/ SelfCheck(r) \/ Retry(r) \/ Operate(r)
          \/ CloseRemote(r) \/ Catch(r)
          \/ Returns(r) \/ ReturnsResult(r) \/ RaisesOut(r)
          \/ WriteResult(r) \/ OpenPartial(r) \/ WritePartial(r) \/ ReplaceHistory(r) \/ Close(r)

Spec == Init /\ [][Next]_vars

-----------------------------------------------------------------------------
Over(r) == At(r, "over")

\* A script connects with the configuration its run was prepared with, which
\* the next run finds in the history, whatever is saved in the meantime; and a
\* connection taken from the history is the one the earlier run used, under the
\* same declarations (prepare and get_remote_info).
InheritedIsSame ==
    \A r \in Consoles :
        /\ run[r].remote.made => run[r].remote.used = run[r].bound.revision
        /\ run[r].inherited =>
              /\ run[r].past = [layout |-> run[r].layout, name |-> run[r].bound.name,
                                revision |-> run[r].bound.revision]
              /\ run[r].remote.made => run[r].remote.used = run[r].past.revision

\* The result file of a run says what happened: success leaves no remote object
\* that failed its last check, the operation it names as final is the one the
\* script returned or raised, the check that failed, or else the last one there
\* was.  The exit status of the command line agrees: it is 0 only with success,
\* and 2 exactly when the body of the script was never run; runs that write the
\* history at once may end with 1 after a success (main in cli.py, finish of
\* ExecutionSession).
ResultIsTrue ==
    \A r \in Consoles : Over(r) /\ run[r].result # NoResult =>
        LET result == run[r].result
        IN  /\ result.success => run[r].initialized /\ ~Unavailable(r)
            /\ result.status = "self_check_failed" =>
                  result.final = run[r].remote.check /\ ~run[r].ops[result.final]
            /\ result.status = "operation_failed" =>
                  result.final # 0 /\ ~run[r].ops[result.final]
            /\ run[r].ops # <<>> => result.final \in DOMAIN run[r].ops
            /\ run[r].end = "result" /\ result.success => run[r].ops[result.final]
            /\ run[r].hosted =>
                  /\ run[r].exit = 0 => result.success
                  /\ run[r].exit = 2 <=> run[r].bound = NoBinding

\* What the next run reads is the binding of a run that was initialized and whose
\* result.json is written, or cannot be read at all, however the runs that share
\* the .tmp get in each other's way (finish, and write_json of the recorder).
HistoryIsOfARun ==
    [][history' \notin {history, Unreadable} =>
          \E r \in Consoles :
              run[r].initialized /\ run[r].result # NoResult /\ history' = Binding(r)]_vars

\* A run that is over has left nothing connected: what was closed with the block of
\* init_script is not connected again by what a hosted script does afterwards, when
\* the session would not close it any more.  Only a script without the command line
\* that could not write its history leaves its connections to the end of its
\* process (release, retry, finish and close).
NothingLeftOpen ==
    \A r \in Consoles : Over(r) /\ run[r].remote.connected => ~run[r].hosted /\ run[r].exit = 1
=============================================================================
