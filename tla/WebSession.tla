----------------------------- MODULE WebSession -----------------------------
(***************************************************************************)
(* Running a script from the Web page: class ScriptProcessSession of       *)
(* webPage/server.py, the requests that reach it, and the page that polls  *)
(* it (webPage/app.js).  Request threads start and stop a child process;   *)
(* one monitor thread per run tails the child's output file into the list  *)
(* of events; each page reads the list from a cursor of its own.           *)
(*                                                                         *)
(* A run is named by the generation its start took.  The session's lock    *)
(* covers the reset of the list, each append and each read of it; the      *)
(* other attributes are assigned without it, so each assignment is a step. *)
(***************************************************************************)
EXTENDS Naturals, Sequences, FiniteSets, Functions

CONSTANTS
    Clients,     \* pages; a page has one start or stop request at a time; a
                 \* reloaded page is another
    Watchers,    \* the pages that stay open and poll; another is closed at once
    MaxRequests, \* requests under way at a time, of all the pages
    MaxRuns,     \* starts considered
    MaxLines     \* lines of output of all the runs

Runs == 1..MaxRuns
NoRun == 0

ASSUME SessionAssumption ==
    /\ IsFiniteSet(Clients) /\ Watchers \subseteq Clients
    /\ MaxRequests \in Nat /\ MaxRuns \in Nat /\ MaxLines \in Nat

VARIABLES
    generation,  \* ProcessSession.generation
    events,      \* ProcessSession.events
    process,     \* ProcessSession.process, as the run it belongs to
    lastLog,     \* last_log_path, as the run whose log it is
    client,      \* what each page's request thread is doing
    page,        \* state of app.js: generation, cursor, running, what it shows
    child,       \* the child process of each run and the files it writes
    monitor,     \* the monitor thread of each run
    crossed      \* history: the pages with a request that met another one, since a
                 \* time when none was under way

sessionVars == <<generation, events, process, lastLog>>
vars == <<sessionVars, client, page, child, monitor, crossed>>

Event == [run : Runs, kind : {"location", "output", "complete"}, value : Nat]

ClientSteps == {"idle", "take", "kill", "reset", "spawn", "register", "answer"}
MonitorSteps == {"none", "look", "announce", "publish", "flush",
                 "adopt", "conclude", "complete", "done"}

TypeOK ==
    /\ generation \in 0..MaxRuns
    /\ events \in Seq(Event)
    /\ process \in Runs \cup {NoRun}
    /\ lastLog \in Runs \cup {NoRun}
    /\ client \in [Clients -> [pc : ClientSteps, start : BOOLEAN,
                               taken : Runs \cup {NoRun}, run : Runs \cup {NoRun}]]
    /\ page \in [Clients -> [state : {"idle", "running", "silent"},
                             generation : Runs \cup {NoRun}, shown : Seq(Event)]]
    /\ child \in [Runs -> [state : {"none", "live", "dead"}, located : BOOLEAN,
                           lines : Nat, told : BOOLEAN]]
    /\ monitor \in [Runs -> [pc : MonitorSteps, located : BOOLEAN, seen : Nat,
                             upto : Nat, log : Runs \cup {NoRun}]]
    /\ crossed \subseteq Clients
    /\ \A g \in Runs : monitor[g].seen <= monitor[g].upto /\ monitor[g].upto <= child[g].lines

Idle == [pc |-> "idle", start |-> FALSE, taken |-> NoRun, run |-> NoRun]
FreshPage == [state |-> "idle", generation |-> NoRun, shown |-> <<>>]

Init ==
    /\ generation = 0 /\ events = <<>> /\ process = NoRun /\ lastLog = NoRun
    /\ client = [c \in Clients |-> Idle]
    /\ page = [c \in Clients |-> FreshPage]
    /\ child = [g \in Runs |-> [state |-> "none", located |-> FALSE, lines |-> 0, told |-> FALSE]]
    /\ monitor = [g \in Runs |-> [pc |-> "none", located |-> FALSE, seen |-> 0, upto |-> 0, log |-> NoRun]]
    /\ crossed = {}

-----------------------------------------------------------------------------
(* Requests *)

ClientAt(c, from, to) ==
    client[c].pc = from /\ client' = [client EXCEPT ![c].pc = to]

Underway == {c \in Clients : client[c].pc # "idle"}
Starting == {c \in Underway : client[c].start /\ client[c].run = NoRun}

\* The start button is disabled while the page's run goes on; stop never is
\* (whose stop it is makes no difference: let a page do it that stays open).
\* Both begin with stop, which reads the attribute without the lock...
Request(c, start) ==
    /\ client[c].pc = "idle"
    /\ Cardinality(Underway) < MaxRequests
    /\ IF start THEN generation + Cardinality(Starting) < MaxRuns /\ page[c].state = "idle"
                ELSE c \in Watchers
    /\ client' = [client EXCEPT ![c] =
                     [Idle EXCEPT !.pc = "take", !.start = start, !.taken = process]]
    /\ crossed' = IF Underway = {} THEN {} ELSE Underway \cup {c}
    /\ UNCHANGED <<sessionVars, page, child, monitor>>

AfterStop(c) == IF client[c].start THEN [Idle EXCEPT !.pc = "reset", !.start = TRUE] ELSE Idle

\* ... and then clears it.
TakeProcess(c) ==
    /\ client[c].pc = "take"
    /\ process' = NoRun
    /\ client' = [client EXCEPT ![c] = IF client[c].taken = NoRun THEN AfterStop(c)
                                       ELSE [client[c] EXCEPT !.pc = "kill"]]
    /\ UNCHANGED <<generation, events, lastLog, page, child, monitor>>

\* terminate, wait, kill: the child is gone in the end.
KillTaken(c) ==
    /\ client[c].pc = "kill"
    /\ child' = [g \in Runs |-> IF g = client[c].taken /\ child[g].state = "live"
                                THEN [child[g] EXCEPT !.state = "dead"] ELSE child[g]]
    /\ client' = [client EXCEPT ![c] = AfterStop(c)]
    /\ UNCHANGED <<sessionVars, page, monitor>>

\* start_script, under the lock.
ResetSession(c) ==
    /\ client[c].pc = "reset"
    /\ generation < MaxRuns
    /\ generation' = generation + 1
    /\ events' = <<>>
    /\ lastLog' = NoRun
    /\ client' = [client EXCEPT ![c].pc = "spawn", ![c].run = generation + 1]
    /\ UNCHANGED <<process, page, child, monitor>>

SpawnChild(c) ==
    /\ ClientAt(c, "spawn", "register")
    /\ child' = [child EXCEPT ![client[c].run].state = "live"]
    /\ UNCHANGED <<sessionVars, page, monitor>>

\* Popen raises: the request is answered with the error, the list stays empty.
SpawnFails(c) ==
    /\ client[c].pc = "spawn"
    /\ client' = [client EXCEPT ![c] = Idle]
    /\ UNCHANGED <<sessionVars, page, child, monitor>>

\* The thread of a request that no page waits for has nothing left to do.
Registered(c) == IF c \in Watchers THEN [client[c] EXCEPT !.pc = "answer"] ELSE Idle

\* Mutant: the session does not remember its child.
RegisterNothing(c) ==
    /\ client[c].pc = "register"
    /\ client' = [client EXCEPT ![c] = Registered(c)]
    /\ monitor' = [monitor EXCEPT ![client[c].run].pc = "look"]
    /\ UNCHANGED <<sessionVars, page, child>>

RegisterChild(c) ==
    /\ client[c].pc = "register"
    /\ process' = client[c].run
    /\ client' = [client EXCEPT ![c] = Registered(c)]
    /\ monitor' = [monitor EXCEPT ![client[c].run].pc = "look"]
    /\ UNCHANGED <<generation, events, lastLog, page, child>>

\* do_POST answers with the generation it finds now; the page polls for that.
Answer(c) ==
    /\ client[c].pc = "answer"
    /\ page' = [page EXCEPT ![c] = [state |-> "running", generation |-> generation,
                                    shown |-> <<>>]]
    /\ client' = [client EXCEPT ![c] = Idle]
    /\ UNCHANGED <<sessionVars, child, monitor>>

ClientStep(c) ==
    /\ \/ TakeProcess(c) \/ KillTaken(c) \/ ResetSession(c)
       \/ SpawnChild(c) \/ SpawnFails(c) \/ RegisterChild(c) \/ Answer(c)
    /\ crossed' = IF Underway' = {} THEN {} ELSE crossed

-----------------------------------------------------------------------------
(* The page *)

\* Mutant: polls start over.
NoCursor(c) == 0

\* pollEvents: the events after the cursor, read under the lock; nothing more
\* is asked for after the complete event.
Cursor(c) == Len(page[c].shown)

SameGeneration(c) == page[c].generation = generation

Poll(c) ==
    /\ page[c].state = "running"
    /\ SameGeneration(c)
    /\ Cursor(c) < Len(events)
    /\ LET fresh == SubSeq(events, Cursor(c) + 1, Len(events))
           ended == \E i \in DOMAIN fresh : fresh[i].kind = "complete"
       IN page' = [page EXCEPT ![c].shown = @ \o fresh,
                               ![c].state = IF ended THEN "idle" ELSE "running"]
    /\ UNCHANGED <<sessionVars, client, child, monitor>>

\* Another generation: pollEvents returns, and nothing calls it again.
PollSuperseded(c) ==
    /\ page[c].state = "running"
    /\ ~SameGeneration(c)
    /\ page' = [page EXCEPT ![c].state = "silent"]
    /\ UNCHANGED <<sessionVars, client, child, monitor>>

PageStep(c) == (Poll(c) \/ PollSuperseded(c)) /\ UNCHANGED crossed

-----------------------------------------------------------------------------
(* The child *)

\* The CLI writes the event file naming its logs, then lines of output.
WritesLocation(g) ==
    /\ child[g].state = "live" /\ ~child[g].located
    /\ child' = [child EXCEPT ![g].located = TRUE]
    /\ UNCHANGED <<sessionVars, client, page, monitor>>

WritesLine(g) ==
    /\ child[g].state = "live" /\ child[g].located
    /\ FoldFunction(LAMBDA h, n : h.lines + n, 0, child) < MaxLines
    /\ child' = [child EXCEPT ![g].lines = @ + 1]
    /\ UNCHANGED <<sessionVars, client, page, monitor>>

\* It exits by itself, having printed where its log is if it has one.
Exits(g) ==
    /\ child[g].state = "live"
    /\ child' = [child EXCEPT ![g].state = "dead", ![g].told = child[g].located]
    /\ UNCHANGED <<sessionVars, client, page, monitor>>

ChildStep(g) == (WritesLocation(g) \/ WritesLine(g) \/ Exits(g)) /\ UNCHANGED crossed

-----------------------------------------------------------------------------
(* The monitor *)

\* Mutant: append takes any run's event.
PublishAny(g, kind, value) ==
    events' = Append(events, [run |-> g, kind |-> kind, value |-> value])

\* append: an event of an older run is dropped.
Publish(g, kind, value) ==
    events' = IF g = generation
              THEN Append(events, [run |-> g, kind |-> kind, value |-> value]) ELSE events

MonitorAt(g, from, to) ==
    monitor[g].pc = from /\ monitor' = [monitor EXCEPT ![g].pc = to]

\* The event file appears: the session's log is this run's, if it is current.
LocatesLog(g) ==
    /\ monitor[g].pc = "look"
    /\ ~monitor[g].located /\ child[g].located
    /\ lastLog' = IF g = generation THEN g ELSE lastLog
    /\ monitor' = [monitor EXCEPT ![g].pc = "announce", ![g].located = TRUE]
    /\ UNCHANGED <<generation, events, process, client, page, child>>

Announces(g) ==
    /\ MonitorAt(g, "announce", "publish")
    /\ Publish(g, "location", g)
    /\ UNCHANGED <<generation, process, lastLog, client, page, child>>

\* No event file yet: nothing to read.
LooksOn(g) ==
    /\ MonitorAt(g, "look", "publish")
    /\ ~monitor[g].located /\ ~child[g].located
    /\ UNCHANGED <<sessionVars, client, page, child>>

AllPublished(g) == monitor[g].seen = monitor[g].upto

\* One read of the output file takes what is there now, from where the last
\* one ended.  (What is read of a child that is dead is the last read's.)
ReadsOutput(g) ==
    /\ monitor[g].pc = "publish" /\ monitor[g].located
    /\ AllPublished(g) /\ child[g].state = "live"
    /\ monitor' = [monitor EXCEPT ![g].upto = child[g].lines]
    /\ UNCHANGED <<sessionVars, client, page, child>>

\* Its lines are appended one by one.
PublishesLine(g) ==
    /\ monitor[g].pc \in {"publish", "flush"}
    /\ monitor[g].seen < monitor[g].upto
    /\ Publish(g, "output", monitor[g].seen + 1)
    /\ monitor' = [monitor EXCEPT ![g].seen = @ + 1]
    /\ UNCHANGED <<generation, process, lastLog, client, page, child>>

LooksAgain(g) ==
    /\ MonitorAt(g, "publish", "look")
    /\ ~monitor[g].located /\ child[g].state = "live"
    /\ UNCHANGED <<sessionVars, client, page, child>>

\* One more read: the child may have written between the read and the check.
ChildGone(g) ==
    /\ monitor[g].pc = "publish"
    /\ AllPublished(g) /\ child[g].state = "dead"
    /\ monitor' = [monitor EXCEPT
           ![g].upto = IF monitor[g].located THEN child[g].lines ELSE @, ![g].pc = "flush"]
    /\ UNCHANGED <<sessionVars, client, page, child>>

\* No log known for the current run, but the child's stdout names one: checked
\* and taken without the lock.
FallbackNeeded(g) == g = generation /\ lastLog = NoRun /\ child[g].told

FallsBack(g) ==
    /\ MonitorAt(g, "flush", "adopt")
    /\ AllPublished(g) /\ FallbackNeeded(g)
    /\ UNCHANGED <<sessionVars, client, page, child>>

NoFallback(g) ==
    /\ MonitorAt(g, "flush", "conclude")
    /\ AllPublished(g) /\ ~FallbackNeeded(g)
    /\ UNCHANGED <<sessionVars, client, page, child>>

AdoptsLog(g) ==
    /\ MonitorAt(g, "adopt", "conclude")
    /\ lastLog' = g
    /\ UNCHANGED <<generation, events, process, client, page, child>>

\* The complete event is built from the session's attributes, then appended.
Concludes(g) ==
    /\ monitor[g].pc = "conclude"
    /\ monitor' = [monitor EXCEPT ![g].pc = "complete", ![g].log = lastLog]
    /\ UNCHANGED <<sessionVars, client, page, child>>

\* Mutant: a run that never told its log gets no complete event.
CompletesLocated(g) ==
    /\ MonitorAt(g, "complete", "done")
    /\ IF monitor[g].located THEN Publish(g, "complete", monitor[g].log) ELSE UNCHANGED events
    /\ UNCHANGED <<generation, process, lastLog, client, page, child>>

Completes(g) ==
    /\ MonitorAt(g, "complete", "done")
    /\ Publish(g, "complete", monitor[g].log)
    /\ UNCHANGED <<generation, process, lastLog, client, page, child>>

Monitor(g) ==
    /\ \/ LocatesLog(g) \/ Announces(g) \/ LooksOn(g) \/ ReadsOutput(g)
       \/ PublishesLine(g) \/ LooksAgain(g) \/ ChildGone(g) \/ FallsBack(g)
       \/ NoFallback(g) \/ AdoptsLog(g) \/ Concludes(g) \/ Completes(g)
    /\ UNCHANGED crossed

-----------------------------------------------------------------------------

Next ==
    \/ \E c \in Clients : (\E start \in BOOLEAN : Request(c, start))
                           \/ ClientStep(c) \/ PageStep(c)
    \/ \E g \in Runs : ChildStep(g) \/ Monitor(g)

Spec == Init /\ [][Next]_vars

\* Threads run and an open page polls.  A child need not exit by itself.
Fairness ==
    /\ \A c \in Clients : WF_vars(ClientStep(c))
    /\ \A c \in Watchers : WF_vars(PageStep(c))
    /\ \A g \in Runs : WF_vars(Monitor(g))

FairSpec == Spec /\ Fairness

-----------------------------------------------------------------------------
(* Properties *)

\* The lines among the first n events.
Outputs(es, n) == Cardinality({i \in 1..n : es[i].kind = "output"})

Completed == \E i \in DOMAIN events : events[i].kind = "complete"

\* Events of an older run never show up in the list of a newer one, however
\* late its monitor is.
NoStaleEvents == \A i \in DOMAIN events : events[i].run = generation

\* What a page shows of its run is the run's first lines, each once and in
\* order, though the file was read in pieces while it was written and the list
\* in pieces while it grew, and nothing of another run.  The page stops polling
\* at the complete event, so that is the last of the list, and if the monitor
\* has found the output file every line came before it.
ShownInOrder ==
    /\ TypeOK
    /\ \A c \in Clients : \A i \in DOMAIN page[c].shown :
          /\ page[c].shown[i].kind = "output" => page[c].shown[i].value = Outputs(page[c].shown, i)
          /\ page[c].shown[i].run = page[c].generation
    /\ Completed =>
          /\ events[Len(events)].kind = "complete"
          /\ monitor[generation].located => Outputs(events, Len(events)) = child[generation].lines

Live == {g \in Runs : child[g].state = "live"}

\* The children within reach: the one the next stop takes, and those a request
\* has in hand.
Reached ==
    {process} \cup {client[c].taken : c \in {d \in Clients : client[d].pc \in {"take", "kill"}}}
              \cup {client[c].run : c \in {d \in Clients : client[d].pc = "register"}}

\* Starting and stopping, of whatever pages, lose no child: one that comes to
\* life is within reach, and stays there until it is dead.  Only a request that
\* met another one, of which either may undo the other's registration, can leave
\* a child alive that no stop will ever take; the requests after it lose no more.
NoChildLost ==
    [][\A g \in Live' : (g \in Live => g \in Reached) =>
           g \in Reached' \/ Underway \cap crossed # {}]_vars

\* A page that polls learns the end of the run it polls for, stopped or not, and
\* can start again, unless another page's start has taken the list over.
EndIsShown ==
    \A c \in Watchers :
        (page[c].state = "running" /\ child[page[c].generation].state = "dead")
            ~> (page[c].state # "running")
=============================================================================
