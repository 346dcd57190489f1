---------------------------- MODULE WebSessionProofs ----------------------------
(***************************************************************************)
(* Proofs about WebSession for any number of pages, overlapping requests,   *)
(* runs and lines: no child gets out of reach but by requests that met, the *)
(* server's list holds one run's events, and each page shows the first      *)
(* lines of its run, in order and each once.                                *)
(***************************************************************************)
EXTENDS WebSession, FiniteSetTheorems, SequenceTheorems, TLAPS

ChildRec == [state : {"none", "live", "dead"}, located : BOOLEAN, lines : Nat, told : BOOLEAN]

-----------------------------------------------------------------------------
(* What a page shows *)

ClientRec == [pc : ClientSteps, start : BOOLEAN, taken : Runs \cup {NoRun}, run : Runs \cup {NoRun}]
PageRec == [state : {"idle", "running", "silent"}, generation : Runs \cup {NoRun},
            shown : Seq(Event)]
MonitorRec == [pc : MonitorSteps, located : BOOLEAN, seen : Nat, upto : Nat, log : Runs \cup {NoRun}]

Concluding == {"adopt", "conclude", "complete", "done"}
Flushing == {"flush"} \cup Concluding

\* A monitor reads a child that is dead for the last time, and then has published
\* all of its lines.
MonitorFits(m, k) ==
    /\ m.pc = "none" => m.seen = 0
    /\ m.pc \in Flushing => k.state = "dead"
    /\ m.pc \in Flushing /\ m.located => m.upto = k.lines
    /\ m.pc \in Concluding => m.seen = m.upto
    /\ m.seen <= m.upto /\ m.upto <= k.lines

MonitorsFit ==
    \A g \in Runs : /\ MonitorFits(monitor[g], child[g])
                    /\ g > generation => monitor[g].pc = "none"

\* A run that is being started has no monitor yet.
StartsFit ==
    /\ \A c \in Clients : client[c].pc \in {"spawn", "register"} =>
          /\ client[c].run \in Runs /\ client[c].run <= generation
          /\ monitor[client[c].run].pc = "none"
    /\ \A c, d \in Clients :
          client[c].pc \in {"spawn", "register"} /\ client[d].pc \in {"spawn", "register"} /\ c # d =>
              client[c].run # client[d].run

\* Each line has its number.
Numbered(es) == \A i \in 1..Len(es) : es[i].kind = "output" => es[i].value = Outputs(es, i)

\* The list holds what the monitor of its run has published, up to the end.
ListFits(es, m) ==
    /\ es \in Seq(Event) /\ Numbered(es)
    /\ Outputs(es, Len(es)) = m.seen
    /\ \A i \in 1..Len(es) : es[i].kind = "complete" => i = Len(es) /\ m.pc = "done"

EventsFit ==
    /\ generation = 0 => events = <<>>
    /\ generation # 0 => ListFits(events, monitor[generation])
    /\ \A i \in 1..Len(events) : events[i].run = generation

\* A page that polls the list has shown how it begins.
PageFits(p, es, n) ==
    /\ p.generation <= n /\ Numbered(p.shown)
    /\ \A i \in 1..Len(p.shown) : p.shown[i].run = p.generation
    /\ p.state = "running" /\ p.generation = n =>
          /\ Len(p.shown) <= Len(es)
          /\ \A i \in 1..Len(p.shown) : p.shown[i] = es[i]

PagesFit == \A c \in Clients : PageFits(page[c], events, generation)

ShownTyped ==
    /\ generation \in 0..MaxRuns /\ events \in Seq(Event)
    /\ process \in Runs \cup {NoRun} /\ lastLog \in Runs \cup {NoRun}
    /\ client \in [Clients -> ClientRec] /\ page \in [Clients -> PageRec]
    /\ child \in [Runs -> ChildRec] /\ monitor \in [Runs -> MonitorRec]
    /\ crossed \subseteq Clients

ShownInv == ShownTyped /\ MonitorsFit /\ StartsFit /\ EventsFit /\ PagesFit

LEMMA RunsAre == MaxRuns \in Nat /\ NoRun \notin Runs /\ \A g \in Runs : g \in Nat /\ g \in 1..MaxRuns
BY SessionAssumption DEF Runs, NoRun

LEMMA OutputsAre ==
  ASSUME NEW es, NEW n \in Nat
  PROVE  /\ Outputs(es, 0) = 0 /\ Outputs(es, n) \in Nat
         /\ Outputs(es, n + 1) = IF es[n + 1].kind = "output" THEN Outputs(es, n) + 1 ELSE Outputs(es, n)
         /\ \A fs : (\A i \in 1..n : fs[i] = es[i]) => Outputs(fs, n) = Outputs(es, n)
<1> DEFINE O(m) == {i \in 1..m : es[i].kind = "output"}
<1>1. O(0) = {} /\ Cardinality({}) = 0
  BY FS_EmptySet
<1>2. IsFiniteSet(O(n)) /\ Cardinality(O(n)) \in Nat
  <2>1. IsFiniteSet(1..n)
    BY FS_Interval
  <2>2. O(n) \subseteq 1..n
    OBVIOUS
  <2> HIDE DEF O
  <2> QED  BY <2>1, <2>2, FS_Subset, FS_CardinalityType
<1> DEFINE c == Cardinality(O(n))
           d == Cardinality(O(n + 1))
<1>0. Outputs(es, n) = c /\ Outputs(es, n + 1) = d
  BY DEF Outputs
<1>3. ASSUME es[n + 1].kind = "output" PROVE Outputs(es, n + 1) = Outputs(es, n) + 1
  <2>1. O(n + 1) = O(n) \cup {n + 1} /\ n + 1 \notin O(n)
    BY <1>3
  <2>2. Cardinality(O(n) \cup {n + 1}) = Cardinality(O(n)) + 1
    <3> HIDE DEF O
    <3> QED  BY <1>2, <2>1, FS_AddElement
  <2>3. d = c + 1
    BY <2>1, <2>2
  <2> HIDE DEF c, d
  <2> QED  BY <1>0, <2>3
<1>4. ASSUME es[n + 1].kind # "output" PROVE Outputs(es, n + 1) = Outputs(es, n)
  <2>1. O(n + 1) = O(n)
    BY <1>4
  <2>2. d = c
    BY <2>1
  <2> HIDE DEF c, d
  <2> QED  BY <1>0, <2>2
<1>5. ASSUME NEW fs, \A i \in 1..n : fs[i] = es[i] PROVE Outputs(fs, n) = Outputs(es, n)
  <2>1. {i \in 1..n : fs[i].kind = "output"} = O(n)
    BY <1>5
  <2> QED  BY <2>1 DEF Outputs
<1>6. Outputs(es, 0) = 0 /\ Outputs(es, n) \in Nat
  BY <1>1, <1>2 DEF Outputs
<1> QED  BY <1>3, <1>4, <1>5, <1>6

LEMMA NumberedGrows ==
  ASSUME NEW es \in Seq(Event), NEW e \in Event, Numbered(es),
         e.kind = "output" => e.value = Outputs(es, Len(es)) + 1
  PROVE  /\ Append(es, e) \in Seq(Event) /\ Len(Append(es, e)) = Len(es) + 1 /\ Len(es) \in Nat
         /\ \A i \in 1..Len(es) : Append(es, e)[i] = es[i]
         /\ Append(es, e)[Len(es) + 1] = e
         /\ Numbered(Append(es, e))
         /\ Outputs(Append(es, e), Len(es) + 1) = IF e.kind = "output" THEN Outputs(es, Len(es)) + 1
                                                 ELSE Outputs(es, Len(es))
<1> DEFINE f == Append(es, e)
           n == Len(es)
<1>1. /\ f \in Seq(Event) /\ Len(f) = n + 1 /\ n \in Nat
      /\ (\A i \in 1..n : f[i] = es[i]) /\ f[n + 1] = e
  BY AppendProperties, LenProperties
<1> HIDE DEF f, n
<1>2. Outputs(f, n) = Outputs(es, n) /\ Outputs(es, n) \in Nat
  BY <1>1, OutputsAre
<1>3. Outputs(f, n + 1) = IF e.kind = "output" THEN Outputs(es, n) + 1 ELSE Outputs(es, n)
  BY <1>1, <1>2, OutputsAre
<1>4. ASSUME NEW i \in 1..(n + 1), f[i].kind = "output" PROVE f[i].value = Outputs(f, i)
  <2>1. CASE i \in 1..n
    <3>1. i \in Nat /\ \A j \in 1..i : f[j] = es[j]
      BY <1>1, <2>1
    <3>2. Outputs(f, i) = Outputs(es, i)
      BY <3>1, OutputsAre
    <3> QED  BY <1>1, <1>4, <2>1, <3>2 DEF Numbered, n
  <2>2. CASE i = n + 1
    BY <1>1, <1>3, <1>4, <2>2 DEF n
  <2> QED  BY <1>1, <2>1, <2>2
<1>5. Numbered(f)
  BY <1>1, <1>4 DEF Numbered
<1> QED  BY <1>1, <1>3, <1>5 DEF f, n

\* A page that has caught up shows the list.
LEMMA CaughtUp ==
  ASSUME NEW s \in Seq(Event), NEW es \in Seq(Event), Len(s) < Len(es),
         \A i \in 1..Len(s) : s[i] = es[i]
  PROVE  s \o SubSeq(es, Len(s) + 1, Len(es)) = es
<1> DEFINE k == Len(s)
           n == Len(es)
           t == SubSeq(es, k + 1, n)
           u == s \o t
<1>1. k \in Nat /\ n \in Nat /\ k + 1 \in Int /\ k + 1 <= n /\ n - (k + 1) + 1 = n - k
  BY LenProperties
<1>2. \A i \in (k + 1)..n : es[i] \in Event
  BY <1>1
<1> HIDE DEF k, n
<1>3. /\ t \in Seq(Event) /\ Len(t) = IF k + 1 <= n THEN n - (k + 1) + 1 ELSE 0
      /\ \A i \in 1..(n - (k + 1) + 1) : t[i] = es[k + 1 + i - 1]
  BY <1>1, <1>2, SubSeqProperties
<1> HIDE DEF t
<1>4. Len(t) = n - k /\ \A i \in 1..(n - k) : t[i] = es[k + i]
  <2>1. \A i \in 1..(n - k) : k + 1 + i - 1 = k + i
    BY <1>1
  <2> QED  BY <1>1, <1>3, <2>1
<1>5. /\ u \in Seq(Event) /\ Len(u) = k + Len(t)
      /\ \A i \in 1..(k + Len(t)) : u[i] = IF i <= k THEN s[i] ELSE t[i - k]
  BY <1>3, ConcatProperties DEF k
<1> HIDE DEF u
<1>6. Len(u) = n
  BY <1>1, <1>4, <1>5
<1>7. ASSUME NEW i \in 1..n PROVE u[i] = es[i]
  <2>1. CASE i <= k
    BY <1>1, <1>4, <1>5, <2>1 DEF k
  <2>2. CASE ~(i <= k)
    <3>1. i - k \in 1..(n - k) /\ k + (i - k) = i
      BY <1>1, <2>2
    <3>2. t[i - k] = es[i]
      BY <1>4, <3>1
    <3>3. i \in 1..(k + Len(t))
      BY <1>1, <1>4
    <3> QED  BY <1>5, <2>2, <3>2, <3>3
  <2> QED  BY <2>1, <2>2
<1>8. u = es
  BY <1>5, <1>6, <1>7, SeqEqual DEF n
<1> QED  BY <1>8 DEF u, t, k, n

LEMMA ShownInit == Init => ShownInv
<1> SUFFICES ASSUME Init PROVE ShownInv
  OBVIOUS
<1>1. /\ generation = 0 /\ events = <<>> /\ process = NoRun /\ lastLog = NoRun
      /\ client = [c \in Clients |-> Idle] /\ page = [c \in Clients |-> FreshPage]
      /\ child = [g \in Runs |-> [state |-> "none", located |-> FALSE, lines |-> 0, told |-> FALSE]]
      /\ monitor = [g \in Runs |-> [pc |-> "none", located |-> FALSE, seen |-> 0, upto |-> 0, log |-> NoRun]]
      /\ crossed = {}
  BY DEF Init
<1>2. Len(<<>>) = 0 /\ <<>> \in Seq(Event) /\ 1..0 = {}
  OBVIOUS
<1>3. /\ Idle \in ClientRec /\ Idle.pc = "idle"
      /\ FreshPage \in PageRec /\ FreshPage.shown = <<>> /\ FreshPage.generation = 0 /\ FreshPage.state = "idle"
  BY <1>2 DEF Idle, ClientRec, ClientSteps, FreshPage, PageRec, NoRun
<1>4. ShownTyped
  BY <1>1, <1>2, <1>3, RunsAre DEF ShownTyped, ChildRec, MonitorRec, MonitorSteps
<1>5. MonitorsFit
  BY <1>1 DEF MonitorsFit, MonitorFits, Flushing, Concluding
<1>6. StartsFit
  <2>1. \A c \in Clients : client[c].pc = "idle"
    BY <1>1, <1>3
  <2> QED  BY <2>1 DEF StartsFit
<1>7. EventsFit
  BY <1>1, <1>2 DEF EventsFit
<1>8. PagesFit
  BY <1>1, <1>2, <1>3 DEF PagesFit, PageFits, Numbered
<1> QED  BY <1>4, <1>5, <1>6, <1>7, <1>8 DEF ShownInv

\* What holds of the pages as long as the list only grows.
LEMMA PagesStay ==
  ASSUME ShownInv, page' = page, generation' = generation, events' \in Seq(Event),
         Len(events) <= Len(events'), \A i \in 1..Len(events) : events'[i] = events[i]
  PROVE  PagesFit'
<1> SUFFICES ASSUME NEW c \in Clients PROVE PageFits(page[c], events', generation)
  BY DEF PagesFit
<1>1. PageFits(page[c], events, generation) /\ page[c] \in PageRec
  BY DEF ShownInv, PagesFit, ShownTyped
<1>2. Len(page[c].shown) \in Nat /\ Len(events) \in Nat /\ Len(events') \in Nat
  BY <1>1, LenProperties DEF PageRec, ShownInv, ShownTyped
<1> DEFINE p == page[c]
<1> HIDE DEF p
<1>3. ASSUME p.state = "running", p.generation = generation, PageFits(p, events, generation),
             Len(p.shown) \in Nat
      PROVE  /\ Len(p.shown) <= Len(events')
             /\ \A i \in 1..Len(p.shown) : p.shown[i] = events'[i]
  <2>1. Len(p.shown) <= Len(events) /\ \A i \in 1..Len(p.shown) : p.shown[i] = events[i]
    BY <1>3 DEF PageFits
  <2>2. \A i \in 1..Len(p.shown) : i \in 1..Len(events)
    BY <1>2, <1>3, <2>1
  <2> QED  BY <1>2, <1>3, <2>1, <2>2
<1> QED  BY <1>1, <1>2, <1>3 DEF PageFits, p

\* A request moves on to where no run is being started.
LEMMA RequestMoves ==
  ASSUME ShownInv, NEW c \in Clients, NEW r \in ClientRec, client' = [client EXCEPT ![c] = r],
         r.pc \notin {"spawn", "register"}, UNCHANGED <<generation, monitor>>
  PROVE  client' \in [Clients -> ClientRec] /\ StartsFit'
<1>1. /\ client' \in [Clients -> ClientRec] /\ client'[c] = r
      /\ \A d \in Clients : d # c => client'[d] = client[d]
  BY DEF ShownInv, ShownTyped
<1>2. \A d \in Clients : client'[d].pc \in {"spawn", "register"} => client'[d] = client[d]
  BY <1>1
<1>3. StartsFit
  BY DEF ShownInv
<1>4. StartsFit'
  <2>1. ASSUME NEW d \in Clients, client'[d].pc \in {"spawn", "register"}
        PROVE  /\ client'[d].run \in Runs /\ client'[d].run <= generation
               /\ monitor[client'[d].run].pc = "none"
    BY <1>2, <1>3, <2>1 DEF StartsFit
  <2>2. ASSUME NEW d \in Clients, NEW e \in Clients, d # e,
               client'[d].pc \in {"spawn", "register"}, client'[e].pc \in {"spawn", "register"}
        PROVE  client'[d].run # client'[e].run
    BY <1>2, <1>3, <2>2 DEF StartsFit
  <2> QED  BY <2>1, <2>2 DEF StartsFit
<1> QED  BY <1>1, <1>4

\* The children change only as their monitors may see it.
LEMMA ChildrenMove ==
  ASSUME ShownInv, child' \in [Runs -> ChildRec], UNCHANGED <<generation, monitor>>,
         \A g \in Runs : /\ child[g].lines <= child'[g].lines
                         /\ child[g].state = "dead" /\ monitor[g].pc # "none" =>
                               child'[g].state = "dead" /\ child'[g].lines = child[g].lines
  PROVE  MonitorsFit'
<1> SUFFICES ASSUME NEW g \in Runs PROVE MonitorFits(monitor[g], child'[g])
  BY DEF MonitorsFit, ShownInv
<1>1. /\ MonitorFits(monitor[g], child[g]) /\ monitor[g] \in MonitorRec
      /\ child[g] \in ChildRec /\ child'[g] \in ChildRec
  BY DEF MonitorsFit, ShownInv, ShownTyped
<1>2. monitor[g].upto \in Nat /\ child[g].lines \in Nat /\ child'[g].lines \in Nat
  BY <1>1 DEF MonitorRec, ChildRec
<1>3. monitor[g].upto <= child'[g].lines
  BY <1>1, <1>2 DEF MonitorFits
<1> QED  BY <1>1, <1>3 DEF MonitorFits, Flushing, Concluding

LEMMA ChildLater ==
  ASSUME NEW r \in ChildRec
  PROVE  /\ \A s \in {"live", "dead"} :
               [r EXCEPT !.state = s] \in ChildRec /\ [r EXCEPT !.state = s].state = s
               /\ [r EXCEPT !.state = s].lines = r.lines
         /\ \A b \in BOOLEAN : LET q == [r EXCEPT !.state = "dead", !.told = b]
                               IN q \in ChildRec /\ q.state = "dead" /\ q.lines = r.lines
         /\ LET q == [r EXCEPT !.located = TRUE] IN q \in ChildRec /\ q.state = r.state /\ q.lines = r.lines
         /\ LET q == [r EXCEPT !.lines = r.lines + 1]
            IN q \in ChildRec /\ q.state = r.state /\ q.lines = r.lines + 1
<1>1. \A s \in {"live", "dead"} :
         [r EXCEPT !.state = s] \in ChildRec /\ [r EXCEPT !.state = s].state = s
         /\ [r EXCEPT !.state = s].lines = r.lines
  BY DEF ChildRec
<1>2. \A b \in BOOLEAN : LET q == [r EXCEPT !.state = "dead", !.told = b]
                         IN q \in ChildRec /\ q.state = "dead" /\ q.lines = r.lines
  BY DEF ChildRec
<1>3. LET q == [r EXCEPT !.located = TRUE] IN q \in ChildRec /\ q.state = r.state /\ q.lines = r.lines
  BY DEF ChildRec
<1>4. LET q == [r EXCEPT !.lines = r.lines + 1] IN q \in ChildRec /\ q.state = r.state /\ q.lines = r.lines + 1
  BY DEF ChildRec
<1> QED  BY <1>1, <1>2, <1>3, <1>4, Zenon
\* Nothing the list and the pages depend on has moved.
LEMMA ListStays ==
  ASSUME ShownInv, UNCHANGED <<generation, events, page, monitor>>
  PROVE  /\ EventsFit' /\ PagesFit'
         /\ generation' \in 0..MaxRuns /\ events' \in Seq(Event) /\ page' \in [Clients -> PageRec]
         /\ monitor' \in [Runs -> MonitorRec]
BY DEF ShownInv, ShownTyped, EventsFit, PagesFit

LEMMA ClientLater ==
  ASSUME NEW c, client[c] \in ClientRec
  PROVE  /\ Idle \in ClientRec /\ Idle.pc = "idle"
         /\ AfterStop(c) \in ClientRec /\ AfterStop(c).pc \in {"idle", "reset"}
         /\ Registered(c) \in ClientRec /\ Registered(c).pc \in {"idle", "answer"}
         /\ \A p \in ClientSteps : LET q == [client[c] EXCEPT !.pc = p]
                                   IN q \in ClientRec /\ q.pc = p /\ q.run = client[c].run
<1>1. Idle \in ClientRec /\ Idle.pc = "idle"
  BY DEF Idle, ClientRec, ClientSteps
<1>2. AfterStop(c) \in ClientRec /\ AfterStop(c).pc \in {"idle", "reset"}
  BY <1>1 DEF AfterStop, Idle, ClientRec, ClientSteps
<1>3. \A p \in ClientSteps : LET q == [client[c] EXCEPT !.pc = p]
                             IN q \in ClientRec /\ q.pc = p /\ q.run = client[c].run
  BY DEF ClientRec
<1>4. Registered(c) \in ClientRec /\ Registered(c).pc \in {"idle", "answer"}
  BY <1>1, <1>3 DEF Registered, ClientSteps
<1> QED  BY <1>1, <1>2, <1>3, <1>4, Zenon

LEMMA RequestShown ==
  ASSUME ShownInv, NEW c \in Clients, NEW start \in BOOLEAN, Request(c, start)
  PROVE  ShownInv'
<1> DEFINE r == [Idle EXCEPT !.pc = "take", !.start = start, !.taken = process]
<1>1. process \in Runs \cup {NoRun} /\ crossed' \subseteq Clients
  BY DEF ShownInv, ShownTyped, Request, Underway
<1>2. r \in ClientRec /\ r.pc = "take"
  BY <1>1 DEF Idle, ClientRec, ClientSteps
<1>3. client' = [client EXCEPT ![c] = r]
      /\ UNCHANGED <<generation, events, process, lastLog, page, child, monitor>>
  BY DEF Request, sessionVars
<1> HIDE DEF r
<1>4. client' \in [Clients -> ClientRec] /\ StartsFit'
  BY <1>2, <1>3, RequestMoves
<1>5. MonitorsFit'
  BY <1>3 DEF ShownInv, MonitorsFit
<1> QED  BY <1>1, <1>3, <1>4, <1>5, ListStays DEF ShownInv, ShownTyped

LEMMA TakeShown ==
  ASSUME ShownInv, NEW c \in Clients, TakeProcess(c), crossed' \subseteq Clients
  PROVE  ShownInv'
<1>1. client[c] \in ClientRec
  BY DEF ShownInv, ShownTyped
<1>2. PICK r \in ClientRec : client' = [client EXCEPT ![c] = r] /\ r.pc \notin {"spawn", "register"}
  <2>1. \/ client' = [client EXCEPT ![c] = AfterStop(c)]
        \/ client' = [client EXCEPT ![c] = [client[c] EXCEPT !.pc = "kill"]]
    BY DEF TakeProcess
  <2>2. CASE client' = [client EXCEPT ![c] = AfterStop(c)]
    BY <1>1, <2>2, ClientLater
  <2>3. CASE client' = [client EXCEPT ![c] = [client[c] EXCEPT !.pc = "kill"]]
    BY <1>1, <2>3, ClientLater DEF ClientSteps
  <2> QED  BY <2>1, <2>2, <2>3
<1>3. process' = NoRun /\ UNCHANGED <<generation, events, lastLog, page, child, monitor>>
  BY DEF TakeProcess
<1>4. client' \in [Clients -> ClientRec] /\ StartsFit'
  BY <1>2, <1>3, RequestMoves
<1>5. MonitorsFit'
  BY <1>3 DEF ShownInv, MonitorsFit
<1> QED  BY <1>3, <1>4, <1>5, ListStays DEF ShownInv, ShownTyped

LEMMA KillShown ==
  ASSUME ShownInv, NEW c \in Clients, KillTaken(c), crossed' \subseteq Clients
  PROVE  ShownInv'
<1>1. client[c] \in ClientRec
  BY DEF ShownInv, ShownTyped
<1>2. UNCHANGED <<generation, events, process, lastLog, page, monitor>>
  BY DEF KillTaken, sessionVars
<1>3. PICK r \in ClientRec : client' = [client EXCEPT ![c] = r] /\ r.pc \notin {"spawn", "register"}
  <2>1. client' = [client EXCEPT ![c] = AfterStop(c)]
    BY DEF KillTaken
  <2> QED  BY <1>1, <2>1, ClientLater
<1>4. client' \in [Clients -> ClientRec] /\ StartsFit'
  BY <1>2, <1>3, RequestMoves
<1>5. child' = [g \in Runs |-> IF g = client[c].taken /\ child[g].state = "live"
                               THEN [child[g] EXCEPT !.state = "dead"] ELSE child[g]]
  BY DEF KillTaken
<1>6. \A g \in Runs : /\ child'[g] \in ChildRec /\ child'[g].lines = child[g].lines
                      /\ child[g].lines \in Nat
                      /\ child[g].state = "dead" => child'[g].state = "dead"
  <2> TAKE g \in Runs
  <2>1. child[g] \in ChildRec
    BY DEF ShownInv, ShownTyped
  <2>2. child[g].lines \in Nat
    BY <2>1 DEF ChildRec
  <2>3. CASE g = client[c].taken /\ child[g].state = "live"
    <3>1. child'[g] = [child[g] EXCEPT !.state = "dead"]
      BY <1>5, <2>3
    <3> QED  BY <2>1, <2>2, <3>1 DEF ChildRec
  <2>4. CASE ~(g = client[c].taken /\ child[g].state = "live")
    <3>1. child'[g] = child[g]
      BY <1>5, <2>4
    <3> QED  BY <2>1, <2>2, <3>1
  <2> QED  BY <2>3, <2>4
<1>7. child' \in [Runs -> ChildRec]
  BY <1>5, <1>6
<1>8. MonitorsFit'
  BY <1>2, <1>6, <1>7, ChildrenMove
<1> QED  BY <1>2, <1>4, <1>7, <1>8, ListStays DEF ShownInv, ShownTyped

\* The new run begins with an empty list, and no page shows it yet.
LEMMA ResetShown ==
  ASSUME ShownInv, NEW c \in Clients, ResetSession(c), crossed' \subseteq Clients
  PROVE  ShownInv'
<1> DEFINE n == generation + 1
           r == [client[c] EXCEPT !.pc = "spawn", !.run = n]
<1>1. client[c] \in ClientRec /\ generation \in Nat /\ n \in Nat /\ n > generation
  BY DEF ShownInv, ShownTyped
<1>2. n \in Runs
  BY <1>1, RunsAre DEF ResetSession, Runs
<1>3. r \in ClientRec /\ r.pc = "spawn" /\ r.run = n
  <2> HIDE DEF n
  <2> QED  BY <1>1, <1>2 DEF ClientRec, ClientSteps
<1>4. /\ client' = [client EXCEPT ![c] = r] /\ generation' = n /\ events' = <<>> /\ lastLog' = NoRun
      /\ UNCHANGED <<process, page, child, monitor>>
  BY DEF ResetSession
<1> HIDE DEF r
<1>5. monitor[n].pc = "none" /\ monitor[n].seen = 0
  BY <1>1, <1>2 DEF ShownInv, MonitorsFit, MonitorFits
<1>6. n \in 0..MaxRuns
  BY <1>1, <1>2, RunsAre
<1> HIDE DEF n
<1>7. Len(<<>>) = 0 /\ <<>> \in Seq(Event) /\ 1..0 = {}
  OBVIOUS
<1>8. ShownTyped'
  BY <1>3, <1>4, <1>6, <1>7 DEF ShownInv, ShownTyped
<1>9. MonitorsFit'
  <2> SUFFICES ASSUME NEW g \in Runs
               PROVE  MonitorFits(monitor[g], child[g]) /\ (g > n => monitor[g].pc = "none")
    BY <1>4 DEF MonitorsFit
  <2>1. g \in Nat
    BY RunsAre
  <2>2. g > n => g > generation
    BY <1>1, <2>1
  <2> QED  BY <2>2 DEF ShownInv, MonitorsFit
<1>10. StartsFit'
  <2>0. /\ client'[c] = r /\ \A d \in Clients : d # c => client'[d] = client[d]
    BY <1>4 DEF ShownInv, ShownTyped
  <2>1. ASSUME NEW d \in Clients, d # c, client[d].pc \in {"spawn", "register"}
        PROVE  /\ client[d].run \in Runs /\ client[d].run <= n /\ monitor[client[d].run].pc = "none"
               /\ client[d].run # n
    <3>1. client[d].run \in Runs /\ client[d].run <= generation /\ monitor[client[d].run].pc = "none"
      BY <2>1 DEF ShownInv, StartsFit
    <3>2. client[d].run \in Nat
      BY <3>1, RunsAre
    <3> QED  BY <1>1, <3>1, <3>2
  <2>2. ASSUME NEW d \in Clients, client'[d].pc \in {"spawn", "register"}
        PROVE  /\ client'[d].run \in Runs /\ client'[d].run <= n
               /\ monitor[client'[d].run].pc = "none"
    <3>1. CASE d = c
      BY <1>1, <1>2, <1>3, <1>5, <2>0, <3>1
    <3>2. CASE d # c
      BY <2>0, <2>1, <2>2, <3>2
    <3> QED  BY <3>1, <3>2
  <2>3. ASSUME NEW d \in Clients, NEW e \in Clients, d # e,
               client'[d].pc \in {"spawn", "register"}, client'[e].pc \in {"spawn", "register"}
        PROVE  client'[d].run # client'[e].run
    <3>1. CASE d = c
      BY <1>3, <2>0, <2>1, <2>3, <3>1
    <3>2. CASE e = c
      BY <1>3, <2>0, <2>1, <2>3, <3>2
    <3>3. CASE d # c /\ e # c
      BY <2>0, <2>3, <3>3 DEF ShownInv, StartsFit
    <3> QED  BY <3>1, <3>2, <3>3
  <2> QED  BY <1>4, <2>2, <2>3 DEF StartsFit
<1>11. EventsFit'
  <2>1. ListFits(<<>>, monitor[n])
    BY <1>5, <1>7, OutputsAre DEF ListFits, Numbered
  <2>2. n # 0
    BY <1>1
  <2> QED  BY <1>4, <1>7, <2>1, <2>2 DEF EventsFit
<1>12. PagesFit'
  <2> SUFFICES ASSUME NEW d \in Clients PROVE PageFits(page[d], <<>>, n)
    BY <1>4 DEF PagesFit
  <2>1. page[d].generation \in Nat
    BY RunsAre DEF ShownInv, ShownTyped, PageRec, NoRun
  <2>2. PageFits(page[d], events, generation)
    BY DEF ShownInv, PagesFit
  <2>3. page[d].generation <= n /\ page[d].generation # n
    BY <1>1, <2>1, <2>2 DEF PageFits
  <2> QED  BY <2>2, <2>3 DEF PageFits
<1> QED  BY <1>8, <1>9, <1>10, <1>11, <1>12 DEF ShownInv

LEMMA SpawnShown ==
  ASSUME ShownInv, NEW c \in Clients, SpawnChild(c), crossed' \subseteq Clients
  PROVE  ShownInv'
<1> DEFINE r == [client[c] EXCEPT !.pc = "register"]
           g == client[c].run
           q == [child[g] EXCEPT !.state = "live"]
<1>1. client[c] \in ClientRec /\ client[c].pc = "spawn"
  BY DEF ShownInv, ShownTyped, SpawnChild, ClientAt
<1>2. g \in Runs /\ monitor[g].pc = "none"
  BY <1>1 DEF ShownInv, StartsFit
<1>3. r \in ClientRec /\ r.pc = "register" /\ r.run = g
  <2>1. "register" \in ClientSteps
    BY DEF ClientSteps
  <2> QED  BY <1>1, <2>1, ClientLater
<1>4. child[g] \in ChildRec /\ child[g].lines \in Nat
  BY <1>2 DEF ShownInv, ShownTyped, ChildRec
<1>5. q \in ChildRec /\ q.lines = child[g].lines
  BY <1>4, ChildLater
<1>6. /\ client' = [client EXCEPT ![c] = r] /\ child' = [child EXCEPT ![g] = q]
      /\ UNCHANGED <<generation, events, process, lastLog, page, monitor>>
  BY DEF SpawnChild, ClientAt, sessionVars
<1> HIDE DEF r, q
<1>7. /\ client' \in [Clients -> ClientRec] /\ client'[c] = r
      /\ \A d \in Clients : d # c => client'[d] = client[d]
  BY <1>3, <1>6 DEF ShownInv, ShownTyped
<1>8. /\ child' \in [Runs -> ChildRec] /\ child'[g] = q
      /\ \A h \in Runs : h # g => child'[h] = child[h] /\ child[h] \in ChildRec
  BY <1>2, <1>5, <1>6 DEF ShownInv, ShownTyped
<1> HIDE DEF g
<1>9. MonitorsFit'
  <2>1. \A h \in Runs : /\ child[h].lines <= child'[h].lines
                        /\ child[h].state = "dead" /\ monitor[h].pc # "none" =>
                              child'[h].state = "dead" /\ child'[h].lines = child[h].lines
    BY <1>2, <1>4, <1>5, <1>8 DEF ChildRec
  <2> QED  BY <1>6, <1>8, <2>1, ChildrenMove
<1>10. StartsFit'
  <2>1. \A d \in Clients : /\ client'[d].run = client[d].run
                           /\ client'[d].pc \in {"spawn", "register"} => client[d].pc \in {"spawn", "register"}
    BY <1>1, <1>3, <1>7 DEF g
  <2> QED  BY <1>6, <2>1 DEF ShownInv, StartsFit
<1> QED  BY <1>6, <1>7, <1>8, <1>9, <1>10, ListStays DEF ShownInv, ShownTyped

LEMMA SpawnFailsShown ==
  ASSUME ShownInv, NEW c \in Clients, SpawnFails(c), crossed' \subseteq Clients
  PROVE  ShownInv'
<1>1. client[c] \in ClientRec
  BY DEF ShownInv, ShownTyped
<1>2. Idle \in ClientRec /\ Idle.pc = "idle"
  BY <1>1, ClientLater
<1>3. client' = [client EXCEPT ![c] = Idle]
      /\ UNCHANGED <<generation, events, process, lastLog, page, child, monitor>>
  BY DEF SpawnFails, sessionVars
<1>4. client' \in [Clients -> ClientRec] /\ StartsFit'
  BY <1>2, <1>3, RequestMoves
<1>5. MonitorsFit'
  BY <1>3 DEF ShownInv, MonitorsFit
<1> QED  BY <1>3, <1>4, <1>5, ListStays DEF ShownInv, ShownTyped
\* A monitor at work moves on.
LEMMA MonitorMoves ==
  ASSUME ShownInv, NEW g \in Runs, NEW m \in MonitorRec, monitor' = [monitor EXCEPT ![g] = m],
         MonitorFits(m, child[g]), monitor[g].pc # "none",
         UNCHANGED <<generation, client, child>>
  PROVE  monitor' \in [Runs -> MonitorRec] /\ MonitorsFit' /\ StartsFit'
<1>1. /\ monitor' \in [Runs -> MonitorRec] /\ monitor'[g] = m
      /\ \A h \in Runs : h # g => monitor'[h] = monitor[h]
  BY DEF ShownInv, ShownTyped
<1>2. MonitorsFit'
  <2> SUFFICES ASSUME NEW h \in Runs
               PROVE  MonitorFits(monitor'[h], child[h]) /\ (h > generation => monitor'[h].pc = "none")
    BY DEF MonitorsFit
  <2>1. MonitorFits(monitor[h], child[h]) /\ (h > generation => monitor[h].pc = "none")
    BY DEF ShownInv, MonitorsFit
  <2>2. CASE h = g
    BY <1>1, <2>1, <2>2
  <2>3. CASE h # g
    BY <1>1, <2>1, <2>3
  <2> QED  BY <2>2, <2>3
<1>3. StartsFit'
  <2>1. \A c \in Clients : client[c].pc \in {"spawn", "register"} =>
           client[c].run \in Runs /\ monitor'[client[c].run] = monitor[client[c].run]
    BY <1>1 DEF ShownInv, StartsFit
  <2> QED  BY <2>1 DEF ShownInv, StartsFit
<1> QED  BY <1>1, <1>2, <1>3

\* A step of a monitor that appends nothing.
LEMMA MonitorQuiet ==
  ASSUME ShownInv, NEW g \in Runs, NEW m \in MonitorRec, monitor' = [monitor EXCEPT ![g] = m],
         MonitorFits(m, child[g]), monitor[g].pc \notin {"none", "done"}, m.seen = monitor[g].seen,
         UNCHANGED <<generation, events, process, client, page, child, crossed>>,
         lastLog' \in Runs \cup {NoRun}
  PROVE  ShownInv'
<1>1. monitor' \in [Runs -> MonitorRec] /\ MonitorsFit' /\ StartsFit'
  BY MonitorMoves
<1>2. /\ monitor'[g] = m /\ \A h \in Runs : h # g => monitor'[h] = monitor[h]
  BY DEF ShownInv, ShownTyped
<1>3. EventsFit'
  <2>1. ASSUME generation # 0 PROVE ListFits(events, monitor'[generation])
    <3>1. ListFits(events, monitor[generation]) /\ generation \in Runs
      BY <2>1 DEF ShownInv, ShownTyped, EventsFit, Runs
    <3>2. CASE generation = g
      BY <1>2, <3>1, <3>2 DEF ListFits
    <3>3. CASE generation # g
      BY <1>2, <3>1, <3>3
    <3> QED  BY <3>2, <3>3
  <2> QED  BY <2>1 DEF ShownInv, EventsFit
<1>4. PagesFit'
  BY DEF ShownInv, PagesFit
<1> QED  BY <1>1, <1>3, <1>4 DEF ShownInv, ShownTyped

\* A step of a monitor that appends an event of its run.
LEMMA MonitorPublishes ==
  ASSUME ShownInv, NEW g \in Runs, NEW m \in MonitorRec, monitor' = [monitor EXCEPT ![g] = m],
         MonitorFits(m, child[g]), monitor[g].pc \notin {"none", "done"},
         UNCHANGED <<generation, process, lastLog, client, page, child, crossed>>,
         NEW kind \in {"location", "output", "complete"}, NEW value \in Nat, Publish(g, kind, value),
         IF kind = "output" THEN value = monitor[g].seen + 1 /\ m.seen = value ELSE m.seen = monitor[g].seen,
         kind = "complete" => m.pc = "done"
  PROVE  ShownInv'
<1> DEFINE e == [run |-> g, kind |-> kind, value |-> value]
<1>1. monitor' \in [Runs -> MonitorRec] /\ MonitorsFit' /\ StartsFit'
  BY MonitorMoves
<1>2. /\ monitor'[g] = m /\ \A h \in Runs : h # g => monitor'[h] = monitor[h]
  BY DEF ShownInv, ShownTyped
<1>3. /\ e \in Event /\ e.run = g /\ e.kind = kind /\ e.value = value
      /\ events' = IF g = generation THEN Append(events, e) ELSE events
  BY DEF Event, Publish
<1> HIDE DEF e
<1>4. events \in Seq(Event) /\ generation \in 0..MaxRuns /\ EventsFit
  BY DEF ShownInv, ShownTyped
<1>5. CASE g # generation
  <2>1. events' = events
    BY <1>3, <1>5
  <2>2. EventsFit'
    <3>1. generation # 0 => monitor'[generation] = monitor[generation]
      BY <1>2, <1>4, <1>5 DEF Runs
    <3> QED  BY <1>4, <2>1, <3>1 DEF EventsFit
  <2>3. PagesFit'
    BY <2>1 DEF ShownInv, PagesFit
  <2> QED  BY <1>1, <2>1, <2>2, <2>3 DEF ShownInv, ShownTyped
<1>6. CASE g = generation
  <2> DEFINE n == Len(events)
  <2>0. g # 0 /\ n \in Nat
    BY <1>4, RunsAre, LenProperties DEF NoRun
  <2>1. ListFits(events, monitor[g])
    BY <1>4, <1>6, <2>0 DEF EventsFit
  <2>2. Numbered(events) /\ Outputs(events, n) = monitor[g].seen
        /\ \A i \in 1..n : events[i].kind # "complete"
    BY <2>1 DEF ListFits
  <2>3. /\ Append(events, e) \in Seq(Event) /\ Len(Append(events, e)) = n + 1
        /\ \A i \in 1..n : Append(events, e)[i] = events[i]
        /\ Append(events, e)[n + 1] = e
        /\ Numbered(Append(events, e))
        /\ Outputs(Append(events, e), n + 1) = IF kind = "output" THEN monitor[g].seen + 1
                                               ELSE monitor[g].seen
    <3>1. e.kind = "output" => e.value = Outputs(events, n) + 1
      BY <1>3, <2>2
    <3> QED  BY <1>3, <1>4, <2>2, <3>1, NumberedGrows
  <2> HIDE DEF n
  <2>4. /\ events' \in Seq(Event) /\ Len(events') = n + 1
        /\ \A i \in 1..n : events'[i] = events[i]
        /\ events'[n + 1] = e /\ Numbered(events') /\ Outputs(events', n + 1) = m.seen
    BY <1>3, <1>6, <2>3
  <2>5. \A i \in 1..(n + 1) : i \in 1..n \/ i = n + 1
    BY <2>0
  <2>6. ListFits(events', m)
    BY <1>3, <2>2, <2>4, <2>5 DEF ListFits
  <2>7. EventsFit'
    <3>1. \A i \in 1..n : events[i].run = generation
      BY <1>4 DEF EventsFit, n
    <3>2. \A i \in 1..(n + 1) : events'[i].run = generation
      BY <1>3, <1>6, <2>4, <2>5, <3>1
    <3> QED  BY <1>2, <1>6, <2>0, <2>4, <2>6, <3>2 DEF EventsFit
  <2>8. PagesFit'
    BY <2>0, <2>4, PagesStay DEF n
  <2> QED  BY <1>1, <2>4, <2>7, <2>8 DEF ShownInv, ShownTyped
<1> QED  BY <1>5, <1>6

LEMMA RegisterShown ==
  ASSUME ShownInv, NEW c \in Clients, RegisterChild(c), crossed' \subseteq Clients
  PROVE  ShownInv'
<1> DEFINE r == Registered(c)
           g == client[c].run
           m == [monitor[g] EXCEPT !.pc = "look"]
<1>1. client[c] \in ClientRec /\ client[c].pc = "register"
  BY DEF ShownInv, ShownTyped, RegisterChild
<1>2. g \in Runs /\ g <= generation /\ monitor[g].pc = "none"
  BY <1>1 DEF ShownInv, StartsFit
<1>3. r \in ClientRec /\ r.pc \in {"idle", "answer"}
  BY <1>1, ClientLater
<1>4. /\ client' = [client EXCEPT ![c] = r] /\ monitor' = [monitor EXCEPT ![g] = m] /\ process' = g
      /\ UNCHANGED <<generation, events, lastLog, page, child>>
  BY DEF RegisterChild
<1>5. monitor[g] \in MonitorRec /\ MonitorFits(monitor[g], child[g])
  BY <1>2 DEF ShownInv, ShownTyped, MonitorsFit
<1>6. /\ m \in MonitorRec /\ m.pc = "look" /\ m.seen = monitor[g].seen /\ m.upto = monitor[g].upto
      /\ MonitorFits(m, child[g])
  BY <1>5 DEF MonitorRec, MonitorSteps, MonitorFits, Flushing, Concluding
<1> HIDE DEF r, m
<1>7. /\ client' \in [Clients -> ClientRec] /\ client'[c] = r
      /\ \A d \in Clients : d # c => client'[d] = client[d]
  BY <1>3, <1>4 DEF ShownInv, ShownTyped
<1>8. /\ monitor' \in [Runs -> MonitorRec] /\ monitor'[g] = m
      /\ \A h \in Runs : h # g => monitor'[h] = monitor[h]
  BY <1>2, <1>4, <1>6 DEF ShownInv, ShownTyped
<1>9. MonitorsFit'
  <2> SUFFICES ASSUME NEW h \in Runs
               PROVE  MonitorFits(monitor'[h], child[h]) /\ (h > generation => monitor'[h].pc = "none")
    BY <1>4 DEF MonitorsFit
  <2>1. MonitorFits(monitor[h], child[h]) /\ (h > generation => monitor[h].pc = "none")
    BY DEF ShownInv, MonitorsFit
  <2>2. CASE h = g
    <3>1. ~(h > generation)
      BY <1>2, <2>2, RunsAre DEF ShownInv, ShownTyped
    <3> QED  BY <1>6, <1>8, <2>2, <3>1
  <2>3. CASE h # g
    BY <1>8, <2>1, <2>3
  <2> QED  BY <2>2, <2>3
<1>10. StartsFit'
  <2>1. \A d \in Clients : client'[d].pc \in {"spawn", "register"} => d # c /\ client'[d] = client[d]
    BY <1>3, <1>7
  <2>2. ASSUME NEW d \in Clients, d # c, client[d].pc \in {"spawn", "register"}
        PROVE  /\ client[d].run \in Runs /\ client[d].run <= generation
               /\ monitor'[client[d].run].pc = "none"
    <3>1. /\ client[d].run \in Runs /\ client[d].run <= generation
          /\ monitor[client[d].run].pc = "none" /\ client[d].run # g
      BY <1>1, <2>2 DEF ShownInv, StartsFit
    <3> QED  BY <1>8, <3>1
  <2>3. ASSUME NEW d \in Clients, NEW e \in Clients, d # e,
               client'[d].pc \in {"spawn", "register"}, client'[e].pc \in {"spawn", "register"}
        PROVE  client'[d].run # client'[e].run
    BY <2>1, <2>3 DEF ShownInv, StartsFit
  <2>4. ASSUME NEW d \in Clients, client'[d].pc \in {"spawn", "register"}
        PROVE  /\ client'[d].run \in Runs /\ client'[d].run <= generation'
               /\ monitor'[client'[d].run].pc = "none"
    BY <1>4, <2>1, <2>2, <2>4
  <2> QED  BY <2>3, <2>4 DEF StartsFit
<1>11. EventsFit'
  <2>1. ASSUME generation # 0 PROVE ListFits(events, monitor'[generation])
    <3>1. ListFits(events, monitor[generation]) /\ generation \in Runs
      BY <2>1 DEF ShownInv, ShownTyped, EventsFit, Runs
    <3>2. CASE generation = g
      BY <1>2, <1>6, <1>8, <3>1, <3>2 DEF ListFits
    <3>3. CASE generation # g
      BY <1>8, <3>1, <3>3
    <3> QED  BY <3>2, <3>3
  <2> QED  BY <1>4, <2>1 DEF ShownInv, EventsFit
<1>12. PagesFit'
  BY <1>4 DEF ShownInv, PagesFit
<1> QED  BY <1>2, <1>4, <1>7, <1>8, <1>9, <1>10, <1>11, <1>12 DEF ShownInv, ShownTyped

\* A page is given a record that fits the list.
LEMMA PageMoves ==
  ASSUME ShownInv, NEW c \in Clients, NEW p \in PageRec, page' = [page EXCEPT ![c] = p],
         PageFits(p, events, generation), UNCHANGED <<generation, events>>
  PROVE  page' \in [Clients -> PageRec] /\ PagesFit'
<1>1. /\ page' \in [Clients -> PageRec] /\ page'[c] = p
      /\ \A d \in Clients : d # c => page'[d] = page[d]
  BY DEF ShownInv, ShownTyped
<1> QED  BY <1>1 DEF ShownInv, PagesFit

LEMMA AnswerShown ==
  ASSUME ShownInv, NEW c \in Clients, Answer(c), crossed' \subseteq Clients
  PROVE  ShownInv'
<1>1. client[c] \in ClientRec /\ generation \in Nat
  BY DEF ShownInv, ShownTyped
<1>2. Idle \in ClientRec /\ Idle.pc = "idle"
  BY <1>1, ClientLater
<1>3. client' = [client EXCEPT ![c] = Idle]
      /\ UNCHANGED <<generation, events, process, lastLog, child, monitor>>
  BY DEF Answer, sessionVars
<1>4. client' \in [Clients -> ClientRec] /\ StartsFit'
  BY <1>2, <1>3, RequestMoves
<1>5. MonitorsFit' /\ EventsFit'
  BY <1>3 DEF ShownInv, MonitorsFit, EventsFit
<1>6. page' \in [Clients -> PageRec] /\ PagesFit'
  <2> DEFINE p == [state |-> "running", generation |-> generation, shown |-> <<>>]
  <2>1. page' = [page EXCEPT ![c] = p]
    BY DEF Answer
  <2>2. generation \in Runs \cup {NoRun}
    BY DEF ShownInv, ShownTyped, Runs, NoRun
  <2>3. <<>> \in Seq(Event) /\ Len(<<>>) = 0 /\ 1..0 = {} /\ Len(events) \in Nat
    BY LenProperties DEF ShownInv, ShownTyped
  <2>4. p \in PageRec
    BY <2>2, <2>3 DEF PageRec
  <2>5. /\ p.generation = generation /\ p.shown = <<>> /\ p.state = "running"
    OBVIOUS
  <2> HIDE DEF p
  <2>6. PageFits(p, events, generation)
    BY <1>1, <2>3, <2>5 DEF PageFits, Numbered
  <2> QED  BY <1>3, <2>1, <2>4, <2>6, PageMoves
<1> QED  BY <1>3, <1>4, <1>5, <1>6 DEF ShownInv, ShownTyped

\* A poll brings the page up to the list.
LEMMA PollShown ==
  ASSUME ShownInv, NEW c \in Clients, Poll(c), UNCHANGED crossed
  PROVE  ShownInv'
<1> DEFINE s == page[c].shown
<1>1. /\ page[c] \in PageRec /\ s \in Seq(Event) /\ events \in Seq(Event) /\ generation \in Nat
      /\ PageFits(page[c], events, generation) /\ EventsFit
  BY DEF ShownInv, ShownTyped, PageRec, PagesFit
<1>2. page[c].state = "running" /\ page[c].generation = generation /\ Len(s) < Len(events)
  BY DEF Poll, SameGeneration, Cursor
<1>3. \A i \in 1..Len(s) : s[i] = events[i]
  BY <1>1, <1>2 DEF PageFits
<1>4. s \o SubSeq(events, Len(s) + 1, Len(events)) = events
  <2> HIDE DEF s
  <2> QED  BY <1>1, <1>2, <1>3, CaughtUp
<1>5. PICK x \in {"idle", "running"} :
         page' = [page EXCEPT ![c].shown = @ \o SubSeq(events, Cursor(c) + 1, Len(events)), ![c].state = x]
  BY DEF Poll
<1> DEFINE p == [page[c] EXCEPT !.shown = events, !.state = x]
<1>6. page' = [page EXCEPT ![c] = p]
  BY <1>4, <1>5 DEF Cursor
<1>7. p \in PageRec /\ p.shown = events /\ p.generation = generation
  BY <1>1, <1>2 DEF PageRec
<1> HIDE DEF p, s
<1>8. generation # 0 /\ Numbered(events) /\ Len(events) \in Nat
  <2>1. events # <<>>
    BY <1>1, <1>2, LenProperties DEF s
  <2>2. generation # 0
    BY <1>1, <2>1 DEF EventsFit
  <2> QED  BY <1>1, <2>2, LenProperties DEF EventsFit, ListFits
<1>9. PageFits(p, events, generation)
  BY <1>1, <1>7, <1>8 DEF PageFits, EventsFit
<1>10. UNCHANGED <<generation, events, process, lastLog, client, child, monitor>>
  BY DEF Poll, sessionVars
<1>11. page' \in [Clients -> PageRec] /\ PagesFit'
  BY <1>6, <1>7, <1>9, <1>10, PageMoves
<1>12. MonitorsFit' /\ StartsFit' /\ EventsFit'
  BY <1>10 DEF ShownInv, MonitorsFit, StartsFit, EventsFit
<1> QED  BY <1>10, <1>11, <1>12 DEF ShownInv, ShownTyped

LEMMA SupersededShown ==
  ASSUME ShownInv, NEW c \in Clients, PollSuperseded(c), UNCHANGED crossed
  PROVE  ShownInv'
<1> DEFINE p == [page[c] EXCEPT !.state = "silent"]
<1>1. page[c] \in PageRec /\ PageFits(page[c], events, generation)
  BY DEF ShownInv, ShownTyped, PagesFit
<1>2. p \in PageRec /\ p.state = "silent" /\ p.shown = page[c].shown /\ p.generation = page[c].generation
  BY <1>1 DEF PageRec
<1>3. page' = [page EXCEPT ![c] = p]
      /\ UNCHANGED <<generation, events, process, lastLog, client, child, monitor>>
  BY DEF PollSuperseded, sessionVars
<1> HIDE DEF p
<1>4. PageFits(p, events, generation)
  BY <1>1, <1>2 DEF PageFits
<1>5. page' \in [Clients -> PageRec] /\ PagesFit'
  BY <1>2, <1>3, <1>4, PageMoves
<1>6. MonitorsFit' /\ StartsFit' /\ EventsFit'
  BY <1>3 DEF ShownInv, MonitorsFit, StartsFit, EventsFit
<1> QED  BY <1>3, <1>5, <1>6 DEF ShownInv, ShownTyped

LEMMA ChildShown ==
  ASSUME ShownInv, NEW g \in Runs, ChildStep(g)
  PROVE  ShownInv'
<1>1. child[g] \in ChildRec /\ child[g].lines \in Nat /\ child[g].located \in BOOLEAN
  BY DEF ShownInv, ShownTyped, ChildRec
<1>2. /\ child[g].state = "live"
      /\ UNCHANGED <<generation, events, process, lastLog, client, page, monitor, crossed>>
  BY DEF ChildStep, WritesLocation, WritesLine, Exits, sessionVars
<1>3. PICK q \in ChildRec : child' = [child EXCEPT ![g] = q] /\ child[g].lines <= q.lines
  <2>1. CASE WritesLocation(g)
    <3> DEFINE r == [child[g] EXCEPT !.located = TRUE]
    <3>1. r \in ChildRec /\ r.lines = child[g].lines
      BY <1>1 DEF ChildRec
    <3>2. child' = [child EXCEPT ![g] = r]
      BY <2>1 DEF WritesLocation
    <3> HIDE DEF r
    <3>3. child[g].lines <= r.lines
      BY <1>1, <3>1
    <3> QED  BY <3>1, <3>2, <3>3, Zenon
  <2>2. CASE WritesLine(g)
    <3> DEFINE r == [child[g] EXCEPT !.lines = child[g].lines + 1]
    <3>1. r \in ChildRec /\ r.lines = child[g].lines + 1
      BY <1>1 DEF ChildRec
    <3>2. child' = [child EXCEPT ![g] = r]
      BY <2>2 DEF WritesLine
    <3> HIDE DEF r
    <3>3. child[g].lines <= r.lines
      BY <1>1, <3>1
    <3> QED  BY <3>1, <3>2, <3>3, Zenon
  <2>3. CASE Exits(g)
    <3> DEFINE r == [child[g] EXCEPT !.state = "dead", !.told = child[g].located]
    <3>1. r \in ChildRec /\ r.lines = child[g].lines
      BY <1>1 DEF ChildRec
    <3>2. child' = [child EXCEPT ![g] = r]
      BY <2>3 DEF Exits
    <3> HIDE DEF r
    <3>3. child[g].lines <= r.lines
      BY <1>1, <3>1
    <3> QED  BY <3>1, <3>2, <3>3, Zenon
  <2> QED  BY <2>1, <2>2, <2>3 DEF ChildStep
<1>4. /\ child' \in [Runs -> ChildRec] /\ child'[g] = q
      /\ \A h \in Runs : h # g => child'[h] = child[h] /\ child[h] \in ChildRec
  BY <1>3 DEF ShownInv, ShownTyped
<1>5. \A h \in Runs : /\ child[h].lines <= child'[h].lines
                      /\ child[h].state = "dead" /\ monitor[h].pc # "none" =>
                            child'[h].state = "dead" /\ child'[h].lines = child[h].lines
  BY <1>2, <1>3, <1>4 DEF ChildRec
<1>6. MonitorsFit'
  BY <1>2, <1>4, <1>5, ChildrenMove
<1>7. StartsFit'
  BY <1>2 DEF ShownInv, StartsFit
<1> QED  BY <1>2, <1>4, <1>6, <1>7, ListStays DEF ShownInv, ShownTyped

\* A monitor that goes on, its other attributes being what they were.
LEMMA MonitorGoesOn ==
  ASSUME NEW m \in MonitorRec, NEW p \in MonitorSteps, NEW k \in ChildRec, MonitorFits(m, k),
         p # "none", p \in Flushing => k.state = "dead" /\ m.pc \in Flushing,
         p \in Concluding => m.seen = m.upto
  PROVE  LET n == [m EXCEPT !.pc = p]
         IN n \in MonitorRec /\ n.pc = p /\ n.seen = m.seen /\ n.located = m.located /\ MonitorFits(n, k)
<1> DEFINE n == [m EXCEPT !.pc = p]
<1>1. /\ n \in MonitorRec /\ n.pc = p /\ n.seen = m.seen /\ n.upto = m.upto /\ n.located = m.located
  BY DEF MonitorRec
<1> HIDE DEF n
<1>2. MonitorFits(n, k)
  BY <1>1 DEF MonitorFits
<1> QED  BY <1>1, <1>2 DEF n

LEMMA MonitorShown ==
  ASSUME ShownInv, NEW g \in Runs, Monitor(g)
  PROVE  ShownInv'
<1> DEFINE m == monitor[g]
           k == child[g]
           To(p) == [m EXCEPT !.pc = p]
<1>1. /\ m \in MonitorRec /\ k \in ChildRec /\ MonitorFits(m, k)
      /\ m.seen \in Nat /\ m.upto \in Nat /\ k.lines \in Nat /\ m.seen <= m.upto /\ m.upto <= k.lines
  BY DEF ShownInv, ShownTyped, MonitorsFit, MonitorFits, MonitorRec, ChildRec
<1>2. lastLog \in Runs \cup {NoRun} /\ g \in Nat /\ crossed' = crossed
  BY RunsAre DEF ShownInv, ShownTyped, Monitor
<1>3. ASSUME LocatesLog(g) PROVE ShownInv'
  <2> DEFINE n == [m EXCEPT !.pc = "announce", !.located = TRUE]
  <2>1. n \in MonitorRec /\ n.seen = m.seen /\ MonitorFits(n, k)
    BY <1>1 DEF MonitorRec, MonitorSteps, MonitorFits, Flushing, Concluding
  <2>2. /\ m.pc \notin {"none", "done"} /\ monitor' = [monitor EXCEPT ![g] = n]
        /\ UNCHANGED <<generation, events, process, client, page, child>>
    BY <1>3 DEF LocatesLog
  <2>3. lastLog' \in Runs \cup {NoRun}
    BY <1>2, <1>3 DEF LocatesLog
  <2> HIDE DEF n
  <2> QED  BY <1>2, <2>1, <2>2, <2>3, MonitorQuiet
<1>4. ASSUME Announces(g) PROVE ShownInv'
  <2>1. /\ m.pc = "announce" /\ monitor' = [monitor EXCEPT ![g] = To("publish")]
        /\ Publish(g, "location", g)
        /\ UNCHANGED <<generation, process, lastLog, client, page, child>>
    BY <1>4 DEF Announces, MonitorAt
  <2>2. To("publish") \in MonitorRec /\ To("publish").seen = m.seen /\ MonitorFits(To("publish"), k)
    BY <1>1, MonitorGoesOn DEF MonitorSteps, Flushing, Concluding
  <2> HIDE DEF To
  <2> QED  BY <1>2, <2>1, <2>2, MonitorPublishes
<1>5. ASSUME LooksOn(g) PROVE ShownInv'
  <2>1. /\ m.pc = "look" /\ monitor' = [monitor EXCEPT ![g] = To("publish")]
        /\ UNCHANGED <<generation, events, process, lastLog, client, page, child>>
    BY <1>5 DEF LooksOn, MonitorAt, sessionVars
  <2>2. To("publish") \in MonitorRec /\ To("publish").seen = m.seen /\ MonitorFits(To("publish"), k)
    BY <1>1, MonitorGoesOn DEF MonitorSteps, Flushing, Concluding
  <2> HIDE DEF To
  <2> QED  BY <1>2, <2>1, <2>2, MonitorQuiet
<1>6. ASSUME ReadsOutput(g) PROVE ShownInv'
  <2> DEFINE n == [m EXCEPT !.upto = k.lines]
  <2>1. /\ m.pc = "publish" /\ monitor' = [monitor EXCEPT ![g] = n]
        /\ UNCHANGED <<generation, events, process, lastLog, client, page, child>>
    BY <1>6 DEF ReadsOutput, sessionVars
  <2>2. n \in MonitorRec /\ n.pc = "publish" /\ n.seen = m.seen /\ n.upto = k.lines
    BY <1>1, <2>1 DEF MonitorRec
  <2>3. m.seen <= k.lines
    BY <1>1
  <2> HIDE DEF n
  <2>4. MonitorFits(n, k)
    BY <1>1, <2>2, <2>3 DEF MonitorFits, Flushing, Concluding
  <2> QED  BY <1>2, <2>1, <2>2, <2>4, MonitorQuiet
<1>7. ASSUME PublishesLine(g) PROVE ShownInv'
  <2> DEFINE n == [m EXCEPT !.seen = m.seen + 1]
  <2>1. /\ m.pc \in {"publish", "flush"} /\ m.seen < m.upto /\ monitor' = [monitor EXCEPT ![g] = n]
        /\ Publish(g, "output", m.seen + 1)
        /\ UNCHANGED <<generation, process, lastLog, client, page, child>>
    BY <1>7 DEF PublishesLine
  <2>2. /\ n \in MonitorRec /\ n.seen = m.seen + 1 /\ n.pc = m.pc /\ n.upto = m.upto /\ n.located = m.located
        /\ m.seen + 1 \in Nat /\ m.seen + 1 <= m.upto
    BY <1>1, <2>1 DEF MonitorRec
  <2> HIDE DEF n
  <2>3. MonitorFits(n, k)
    BY <1>1, <2>1, <2>2 DEF MonitorFits, Flushing, Concluding
  <2> QED  BY <1>2, <2>1, <2>2, <2>3, MonitorPublishes
<1>8. ASSUME LooksAgain(g) PROVE ShownInv'
  <2>1. /\ m.pc = "publish" /\ monitor' = [monitor EXCEPT ![g] = To("look")]
        /\ UNCHANGED <<generation, events, process, lastLog, client, page, child>>
    BY <1>8 DEF LooksAgain, MonitorAt, sessionVars
  <2>2. To("look") \in MonitorRec /\ To("look").seen = m.seen /\ MonitorFits(To("look"), k)
    BY <1>1, MonitorGoesOn DEF MonitorSteps, Flushing, Concluding
  <2> HIDE DEF To
  <2> QED  BY <1>2, <2>1, <2>2, MonitorQuiet
<1>9. ASSUME ChildGone(g) PROVE ShownInv'
  <2> DEFINE u == IF m.located THEN k.lines ELSE m.upto
             n == [m EXCEPT !.upto = u, !.pc = "flush"]
  <2>1. /\ m.pc = "publish" /\ monitor' = [monitor EXCEPT ![g] = n] /\ k.state = "dead"
        /\ UNCHANGED <<generation, events, process, lastLog, client, page, child>>
    BY <1>9 DEF ChildGone, sessionVars
  <2>2. u \in Nat /\ m.seen <= u /\ u <= k.lines /\ (m.located => u = k.lines)
    BY <1>1 DEF MonitorRec
  <2> HIDE DEF u
  <2>3. /\ n \in MonitorRec /\ n.pc = "flush" /\ n.seen = m.seen /\ n.upto = u /\ n.located = m.located
    BY <1>1, <2>2 DEF MonitorRec, MonitorSteps
  <2> HIDE DEF n
  <2>4. MonitorFits(n, k)
    BY <2>1, <2>2, <2>3 DEF MonitorFits, Flushing, Concluding
  <2> QED  BY <1>2, <2>1, <2>3, <2>4, MonitorQuiet
<1>10. ASSUME NEW p \in {"adopt", "conclude"}, m.pc = "flush", m.seen = m.upto
       PROVE  To(p) \in MonitorRec /\ To(p).seen = m.seen /\ MonitorFits(To(p), k)
  <2>1. k.state = "dead" /\ m.pc \in Flushing /\ p \in MonitorSteps /\ p # "none"
    BY <1>1, <1>10 DEF MonitorFits, Flushing, MonitorSteps
  <2> QED  BY <1>1, <1>10, <2>1, MonitorGoesOn
<1>11. ASSUME FallsBack(g) PROVE ShownInv'
  <2>1. /\ m.pc = "flush" /\ m.seen = m.upto /\ monitor' = [monitor EXCEPT ![g] = To("adopt")]
        /\ UNCHANGED <<generation, events, process, lastLog, client, page, child>>
    BY <1>11 DEF FallsBack, AllPublished, MonitorAt, sessionVars
  <2>2. To("adopt") \in MonitorRec /\ To("adopt").seen = m.seen /\ MonitorFits(To("adopt"), k)
    BY <1>10, <2>1
  <2> HIDE DEF To
  <2> QED  BY <1>2, <2>1, <2>2, MonitorQuiet
<1>12. ASSUME NoFallback(g) PROVE ShownInv'
  <2>1. /\ m.pc = "flush" /\ m.seen = m.upto /\ monitor' = [monitor EXCEPT ![g] = To("conclude")]
        /\ UNCHANGED <<generation, events, process, lastLog, client, page, child>>
    BY <1>12 DEF NoFallback, AllPublished, MonitorAt, sessionVars
  <2>2. To("conclude") \in MonitorRec /\ To("conclude").seen = m.seen /\ MonitorFits(To("conclude"), k)
    BY <1>10, <2>1
  <2> HIDE DEF To
  <2> QED  BY <1>2, <2>1, <2>2, MonitorQuiet
<1>13. ASSUME NEW p \in Concluding, m.pc \in Concluding
       PROVE  To(p) \in MonitorRec /\ To(p).pc = p /\ To(p).seen = m.seen /\ MonitorFits(To(p), k)
  <2>1. /\ k.state = "dead" /\ m.pc \in Flushing /\ m.seen = m.upto
        /\ p \in MonitorSteps /\ p # "none" /\ p \in Flushing
    BY <1>1, <1>13 DEF MonitorFits, Flushing, Concluding, MonitorSteps
  <2> QED  BY <1>1, <1>13, <2>1, MonitorGoesOn
<1>14. ASSUME AdoptsLog(g) PROVE ShownInv'
  <2>1. /\ m.pc = "adopt" /\ monitor' = [monitor EXCEPT ![g] = To("conclude")] /\ lastLog' = g
        /\ UNCHANGED <<generation, events, process, client, page, child>>
    BY <1>14 DEF AdoptsLog, MonitorAt
  <2>2. To("conclude") \in MonitorRec /\ To("conclude").seen = m.seen /\ MonitorFits(To("conclude"), k)
    BY <1>13, <2>1 DEF Concluding
  <2> HIDE DEF To
  <2> QED  BY <1>2, <2>1, <2>2, MonitorQuiet
<1>15. ASSUME Concludes(g) PROVE ShownInv'
  <2> DEFINE n == [m EXCEPT !.pc = "complete", !.log = lastLog]
  <2>1. /\ m.pc = "conclude" /\ monitor' = [monitor EXCEPT ![g] = n]
        /\ UNCHANGED <<generation, events, process, lastLog, client, page, child>>
    BY <1>15 DEF Concludes, sessionVars
  <2>2. /\ n \in MonitorRec /\ n.pc = "complete" /\ n.seen = m.seen /\ n.upto = m.upto
        /\ n.located = m.located
    BY <1>1, <1>2 DEF MonitorRec, MonitorSteps
  <2> HIDE DEF n
  <2>3. MonitorFits(n, k)
    BY <1>1, <2>1, <2>2 DEF MonitorFits, Flushing, Concluding
  <2> QED  BY <1>2, <2>1, <2>2, <2>3, MonitorQuiet
<1>16. ASSUME Completes(g) PROVE ShownInv'
  <2>1. /\ m.pc = "complete" /\ monitor' = [monitor EXCEPT ![g] = To("done")]
        /\ Publish(g, "complete", m.log)
        /\ UNCHANGED <<generation, process, lastLog, client, page, child>>
    BY <1>16 DEF Completes, MonitorAt
  <2>2. To("done") \in MonitorRec /\ To("done").pc = "done" /\ To("done").seen = m.seen
        /\ MonitorFits(To("done"), k)
    BY <1>13, <2>1 DEF Concluding
  <2>3. m.log \in Nat
    BY <1>1, RunsAre DEF MonitorRec, NoRun
  <2> HIDE DEF To
  <2> QED  BY <1>2, <2>1, <2>2, <2>3, MonitorPublishes
<1> QED
  BY <1>3, <1>4, <1>5, <1>6, <1>7, <1>8, <1>9, <1>11, <1>12, <1>14, <1>15, <1>16 DEF Monitor

LEMMA ShownStep == ShownInv /\ [Next]_vars => ShownInv'
<1> SUFFICES ASSUME ShownInv, [Next]_vars PROVE ShownInv'
  OBVIOUS
<1>1. ASSUME NEW c \in Clients, ClientStep(c) PROVE ShownInv'
  <2>1. crossed' \subseteq Clients
    BY <1>1 DEF ClientStep, ShownInv, ShownTyped
  <2> QED  BY <1>1, <2>1, TakeShown, KillShown, ResetShown, SpawnShown, SpawnFailsShown, RegisterShown, AnswerShown
           DEF ClientStep
<1>2. ASSUME NEW c \in Clients, PageStep(c) PROVE ShownInv'
  BY <1>2, PollShown, SupersededShown DEF PageStep
<1>3. CASE UNCHANGED vars
  <2>1. UNCHANGED <<generation, events, process, lastLog, client, page, child, monitor, crossed>>
    BY <1>3 DEF vars, sessionVars
  <2> QED  BY <2>1 DEF ShownInv, ShownTyped, MonitorsFit, StartsFit, EventsFit, PagesFit
<1> QED  BY <1>1, <1>2, <1>3, RequestShown, ChildShown, MonitorShown DEF Next

\* What a page shows of its run is that run's first lines, each once and in order,
\* whoever starts and stops runs meanwhile; nothing follows the complete event, and
\* if the monitor found the output, no line is missing before it.
THEOREM ShownInOrderTheorem == Spec => []ShownInOrder
<1>1. ShownInv => ShownInOrder
  <2> SUFFICES ASSUME ShownInv PROVE ShownInOrder
    OBVIOUS
  <2>1. TypeOK
    BY DEF ShownInv, ShownTyped, MonitorsFit, MonitorFits, TypeOK, ClientRec, PageRec, ChildRec, MonitorRec
  <2>2. ASSUME NEW c \in Clients, NEW i \in DOMAIN page[c].shown
        PROVE  /\ page[c].shown[i].kind = "output" => page[c].shown[i].value = Outputs(page[c].shown, i)
               /\ page[c].shown[i].run = page[c].generation
    <3>1. i \in 1..Len(page[c].shown)
      BY <2>2, LenProperties DEF ShownInv, ShownTyped, PageRec
    <3> QED  BY <3>1 DEF ShownInv, PagesFit, PageFits, Numbered
  <2>3. ASSUME Completed
        PROVE  /\ events[Len(events)].kind = "complete"
               /\ monitor[generation].located => Outputs(events, Len(events)) = child[generation].lines
    <3>1. PICK i \in 1..Len(events) : events[i].kind = "complete"
      BY <2>3, LenProperties DEF Completed, ShownInv, ShownTyped
    <3>2. generation # 0
      <4>1. Len(<<>>) = 0 /\ 1..0 = {}
        OBVIOUS
      <4> QED  BY <3>1, <4>1 DEF ShownInv, EventsFit
    <3>3. generation \in Runs
      BY <3>2 DEF ShownInv, ShownTyped, Runs
    <3>4. ListFits(events, monitor[generation]) /\ MonitorFits(monitor[generation], child[generation])
      BY <3>2, <3>3 DEF ShownInv, EventsFit, MonitorsFit
    <3>5. i = Len(events) /\ monitor[generation].pc = "done"
          /\ Outputs(events, Len(events)) = monitor[generation].seen
      BY <3>1, <3>4 DEF ListFits
    <3> QED  BY <3>1, <3>4, <3>5 DEF MonitorFits, Flushing, Concluding
  <2> QED  BY <2>1, <2>2, <2>3 DEF ShownInOrder
<1> QED  BY <1>1, ShownInit, ShownStep, PTL DEF Spec

\* The list the pages poll holds events of the current run only, however late
\* the monitor of an older run is, also with requests that overlap.
THEOREM NoStaleTheorem == Spec => []NoStaleEvents
<1>1. ShownInv => NoStaleEvents
  <2> SUFFICES ASSUME ShownInv PROVE NoStaleEvents
    OBVIOUS
  <2>1. DOMAIN events = 1..Len(events)
    BY LenProperties DEF ShownInv, ShownTyped
  <2> QED  BY <2>1 DEF ShownInv, EventsFit, NoStaleEvents
<1> QED  BY <1>1, ShownInit, ShownStep, PTL DEF Spec

-----------------------------------------------------------------------------
(* Requests that meet and requests that do not *)

\* A request that met no other one is alone, and knows what the session's
\* process is at each of its steps.
ReachInv ==
    /\ \A c, d \in Underway : c # d => c \in crossed /\ d \in crossed
    /\ \A c \in Underway \ crossed :
          /\ client[c].pc = "take" => client[c].taken = process
          /\ client[c].pc \in {"kill", "reset", "spawn", "register"} => process = NoRun

\* What one request's step does to the others.
LEMMA ClientSet ==
    ASSUME ShownInv, NEW c \in Clients, NEW r \in ClientRec, client' = [client EXCEPT ![c] = r]
    PROVE  /\ client' \in [Clients -> ClientRec]
           /\ client'[c] = r
           /\ \A d \in Clients : d # c => client'[d] = client[d]
           /\ r.pc # "idle" => Underway' = Underway \cup {c}
           /\ r.pc = "idle" => Underway' = Underway \ {c}
BY DEF ShownInv, ShownTyped, Underway

\* The record each step of a request leaves, and what it does to the process.
LEMMA ClientStepIs ==
    ASSUME ShownInv, NEW c \in Clients, ClientStep(c)
    PROVE  \E r \in ClientRec :
              /\ client[c].pc # "idle"
              /\ client' = [client EXCEPT ![c] = r]
              /\ r.pc # "take"
              /\ r.pc \in {"kill", "reset", "spawn", "register"} =>
                    \/ client[c].pc \in {"kill", "reset", "spawn"} /\ process' = process
                    \/ process' = NoRun
<1>0. client[c] \in ClientRec
  BY DEF ShownInv, ShownTyped
<1>1. CASE TakeProcess(c)
  <2>1. process' = NoRun /\ client[c].pc = "take"
    BY <1>1 DEF TakeProcess
  <2>2. CASE client' = [client EXCEPT ![c] = AfterStop(c)]
    BY <1>0, <2>1, <2>2, ClientLater
  <2>3. CASE client' = [client EXCEPT ![c] = [client[c] EXCEPT !.pc = "kill"]]
    BY <1>0, <2>1, <2>3, ClientLater DEF ClientSteps
  <2> QED BY <1>1, <2>2, <2>3 DEF TakeProcess
<1>2. CASE KillTaken(c)
  <2>1. client' = [client EXCEPT ![c] = AfterStop(c)] /\ process' = process /\ client[c].pc = "kill"
    BY <1>2 DEF KillTaken, sessionVars
  <2> QED BY <1>0, <2>1, ClientLater
<1>3. CASE ResetSession(c)
  <2> DEFINE n == generation + 1
             r == [client[c] EXCEPT !.pc = "spawn", !.run = n]
  <2>1. client' = [client EXCEPT ![c] = r] /\ process' = process /\ client[c].pc = "reset"
    BY <1>3 DEF ResetSession
  <2>2. n \in Runs
    BY <1>3, RunsAre DEF ResetSession, Runs, ShownInv, ShownTyped
  <2>3. r \in ClientRec /\ r.pc = "spawn"
    <3> HIDE DEF n
    <3> QED BY <1>0, <2>2 DEF ClientRec, ClientSteps
  <2> HIDE DEF r
  <2> QED BY <2>1, <2>3
<1>4. CASE SpawnChild(c)
  <2>1. /\ client' = [client EXCEPT ![c] = [client[c] EXCEPT !.pc = "register"]]
        /\ process' = process /\ client[c].pc = "spawn"
    BY <1>4 DEF SpawnChild, ClientAt, sessionVars
  <2> QED BY <1>0, <2>1, ClientLater DEF ClientSteps
<1>5. CASE SpawnFails(c)
  <2>1. client' = [client EXCEPT ![c] = Idle] /\ process' = process /\ client[c].pc = "spawn"
    BY <1>5 DEF SpawnFails, sessionVars
  <2> QED BY <1>0, <2>1, ClientLater
<1>6. CASE RegisterChild(c)
  <2>1. client' = [client EXCEPT ![c] = Registered(c)] /\ client[c].pc = "register"
    BY <1>6 DEF RegisterChild
  <2> QED BY <1>0, <2>1, ClientLater
<1>7. CASE Answer(c)
  <2>1. client' = [client EXCEPT ![c] = Idle] /\ client[c].pc = "answer"
    BY <1>7 DEF Answer
  <2> QED BY <1>0, <2>1, ClientLater
<1> QED BY <1>1, <1>2, <1>3, <1>4, <1>5, <1>6, <1>7 DEF ClientStep

LEMMA RequestReach ==
    ASSUME ShownInv, ReachInv, NEW c \in Clients, NEW start \in BOOLEAN, Request(c, start)
    PROVE  ReachInv'
<1> DEFINE r == [Idle EXCEPT !.pc = "take", !.start = start, !.taken = process]
<1>1. r \in ClientRec /\ r.pc = "take" /\ r.taken = process
  BY DEF ShownInv, ShownTyped, Idle, ClientRec, ClientSteps
<1>2. /\ client' = [client EXCEPT ![c] = r] /\ process' = process /\ client[c].pc = "idle"
      /\ crossed' = IF Underway = {} THEN {} ELSE Underway \cup {c}
  BY DEF Request, sessionVars
<1> HIDE DEF r
<1>3. client' \in [Clients -> ClientRec] /\ client'[c] = r /\ Underway' = Underway \cup {c}
  BY <1>1, <1>2, ClientSet
<1>4. ReachInv'
  BY <1>1, <1>2, <1>3 DEF ReachInv
<1> QED BY <1>4

LEMMA ClientReach ==
    ASSUME ShownInv, ReachInv, NEW c \in Clients, ClientStep(c)
    PROVE  ReachInv'
<1>1. PICK r \in ClientRec :
         /\ client[c].pc # "idle"
         /\ client' = [client EXCEPT ![c] = r]
         /\ r.pc # "take"
         /\ r.pc \in {"kill", "reset", "spawn", "register"} =>
               \/ client[c].pc \in {"kill", "reset", "spawn"} /\ process' = process
               \/ process' = NoRun
  BY ClientStepIs
<1>2. /\ client' \in [Clients -> ClientRec] /\ client'[c] = r /\ Underway' \subseteq Underway
      /\ \A d \in Clients : d # c => client'[d] = client[d]
      /\ c \in Underway /\ Underway \subseteq Clients
  BY <1>1, ClientSet DEF Underway
<1>3. crossed' = IF Underway' = {} THEN {} ELSE crossed
  BY DEF ClientStep
<1>4. ASSUME NEW a \in Underway', NEW d \in Underway', a # d PROVE a \in crossed' /\ d \in crossed'
  BY <1>2, <1>3, <1>4 DEF ReachInv
<1>5. ASSUME NEW d \in Underway' \ crossed'
      PROVE  /\ client'[d].pc = "take" => client'[d].taken = process'
             /\ client'[d].pc \in {"kill", "reset", "spawn", "register"} => process' = NoRun
  <2>1. d \in Underway \ crossed
    BY <1>2, <1>3, <1>5
  <2>2. d = c
    BY <1>2, <2>1 DEF ReachInv
  <2>3. client[c].pc \in {"kill", "reset", "spawn", "register"} => process = NoRun
    BY <2>1, <2>2 DEF ReachInv
  <2> QED BY <1>1, <1>2, <2>2, <2>3
<1>6. ReachInv'
  BY <1>4, <1>5 DEF ReachInv
<1> QED BY <1>6

\* The monitors, the pages and the children touch no request.
LEMMA OthersKeep ==
    ASSUME NEW g, NEW c, Monitor(g) \/ PageStep(c) \/ ChildStep(g)
    PROVE  UNCHANGED <<process, client, crossed>>
BY DEF Monitor, LocatesLog, Announces, LooksOn, ReadsOutput, PublishesLine, LooksAgain, ChildGone,
       FallsBack, NoFallback, AdoptsLog, Concludes, Completes, PageStep, Poll, PollSuperseded,
       ChildStep, WritesLocation, WritesLine, Exits, sessionVars

LEMMA OthersReach ==
    ASSUME ShownInv, ReachInv, UNCHANGED <<process, client, crossed>>
    PROVE  ReachInv' /\ Reached' = Reached
<1>1. Underway' = Underway
  BY DEF Underway
<1>2. ReachInv'
  BY <1>1 DEF ReachInv
<1> QED BY <1>2 DEF Reached

LEMMA ReachStep ==
    ASSUME ShownInv, ReachInv, [Next]_vars
    PROVE  ReachInv'
<1>1. CASE UNCHANGED vars
  BY <1>1, OthersReach DEF vars, sessionVars
<1> QED BY <1>1, RequestReach, ClientReach, OthersKeep, OthersReach DEF Next

-----------------------------------------------------------------------------
(* No child is lost *)

\* A child that comes to life, or was within reach and lives on, is within reach.
Kept == \A g \in Live' : (g \in Live => g \in Reached) => g \in Reached'

LEMMA ClientKeeps ==
    ASSUME ShownInv, ReachInv, NEW c \in Clients, ClientStep(c)
    PROVE  Kept \/ Underway \cap crossed # {}
<1>1. ASSUME c \in crossed PROVE Underway \cap crossed # {}
  BY <1>1, ClientStepIs DEF Underway
<1>2. ASSUME c \notin crossed PROVE Kept
  <2>0. client[c] \in ClientRec
    BY DEF ShownInv, ShownTyped
  <2>1. client[c].pc # "idle" /\ c \in Underway
    BY ClientStepIs DEF Underway
  <2>2. \A d \in Clients : d # c => client[d].pc = "idle"
    BY <1>2, <2>1 DEF ReachInv, Underway
  <2>3. /\ client[c].pc = "take" => client[c].taken = process
        /\ client[c].pc \in {"kill", "reset", "spawn", "register"} => process = NoRun
    BY <1>2, <2>1 DEF ReachInv
  <2>4. Reached = {process} \cup (IF client[c].pc \in {"take", "kill"} THEN {client[c].taken} ELSE {})
                            \cup (IF client[c].pc = "register" THEN {client[c].run} ELSE {})
    BY <2>2 DEF Reached
  <2>5. ASSUME NEW r, client' = [client EXCEPT ![c] = r]
        PROVE  /\ process' \in Reached'
               /\ r.pc \in {"take", "kill"} => r.taken \in Reached'
               /\ r.pc = "register" => r.run \in Reached'
    BY <2>5 DEF Reached, ShownInv, ShownTyped
  <2>6. NoRun \notin Runs /\ Live \subseteq Runs /\ Live' \subseteq Runs
    BY DEF NoRun, Runs, Live
  <2>7. CASE TakeProcess(c)
    <3> DEFINE r == IF client[c].taken = NoRun THEN AfterStop(c) ELSE [client[c] EXCEPT !.pc = "kill"]
    <3>1. /\ client' = [client EXCEPT ![c] = r] /\ child' = child /\ client[c].pc = "take"
      BY <2>7 DEF TakeProcess
    <3>2. client[c].taken # NoRun => r.pc = "kill" /\ r.taken = client[c].taken
      BY <2>0 DEF ClientRec
    <3> HIDE DEF r
    <3>3. Reached = {client[c].taken}
      BY <2>3, <2>4, <3>1
    <3>4. Live' = Live
      BY <3>1 DEF Live
    <3> QED BY <2>5, <2>6, <3>1, <3>2, <3>3, <3>4 DEF Kept
  <2>8. CASE KillTaken(c)
    <3>1. /\ client[c].pc = "kill"
          /\ child' = [g \in Runs |-> IF g = client[c].taken /\ child[g].state = "live"
                                      THEN [child[g] EXCEPT !.state = "dead"] ELSE child[g]]
      BY <2>8 DEF KillTaken
    <3>2. Reached = {NoRun, client[c].taken}
      BY <2>3, <2>4, <3>1
    <3>3. Live' \subseteq Live \ {client[c].taken}
      <4>1. ASSUME NEW g \in Live' PROVE g \in Live /\ g # client[c].taken
        <5>1. g \in Runs /\ child'[g].state = "live"
          BY DEF Live
        <5>2. [child[g] EXCEPT !.state = "dead"].state # "live"
          BY <5>1 DEF ShownInv, ShownTyped, ChildRec
        <5> QED BY <3>1, <5>1, <5>2 DEF Live
      <4> QED BY <4>1
    <3> QED BY <2>6, <3>2, <3>3 DEF Kept
  <2>9. CASE ResetSession(c) \/ SpawnFails(c)
    <3>1. client[c].pc \in {"reset", "spawn"} /\ child' = child
      BY <2>9 DEF ResetSession, SpawnFails
    <3>2. Reached = {NoRun} /\ Live' = Live
      BY <2>3, <2>4, <3>1 DEF Live
    <3> QED BY <2>6, <3>2 DEF Kept
  <2>10. CASE SpawnChild(c)
    <3> DEFINE r == [client[c] EXCEPT !.pc = "register"]
    <3>1. /\ client' = [client EXCEPT ![c] = r] /\ client[c].pc = "spawn"
          /\ child' = [child EXCEPT ![client[c].run].state = "live"]
      BY <2>10 DEF SpawnChild, ClientAt
    <3>2. r.pc = "register" /\ r.run = client[c].run
      BY <2>0 DEF ClientRec
    <3> HIDE DEF r
    <3>3. \A g \in Live' : g \in Live \/ g = client[c].run
      BY <3>1 DEF Live
    <3>4. Reached = {NoRun} /\ client[c].run \in Reached'
      BY <2>3, <2>4, <2>5, <3>1, <3>2
    <3> QED BY <2>6, <3>3, <3>4 DEF Kept
  <2>11. CASE RegisterChild(c)
    <3>1. /\ client' = [client EXCEPT ![c] = Registered(c)] /\ client[c].pc = "register"
          /\ process' = client[c].run /\ child' = child
      BY <2>11 DEF RegisterChild
    <3>2. Reached = {NoRun, client[c].run} /\ client[c].run \in Reached' /\ Live' = Live
      BY <2>3, <2>4, <2>5, <3>1 DEF Live
    <3> QED BY <2>6, <3>2 DEF Kept
  <2>12. CASE Answer(c)
    <3>1. /\ client' = [client EXCEPT ![c] = Idle] /\ client[c].pc = "answer"
          /\ process' = process /\ child' = child
      BY <2>12 DEF Answer, sessionVars
    <3>2. Reached = {process} /\ process \in Reached' /\ Live' = Live
      BY <2>4, <2>5, <3>1 DEF Live
    <3> QED BY <3>2 DEF Kept
  <2> QED BY <2>7, <2>8, <2>9, <2>10, <2>11, <2>12 DEF ClientStep
<1> QED BY <1>1, <1>2

\* The other steps bring no child to life and change no request.
LEMMA OthersLive ==
    ASSUME ShownInv, NEW g, NEW c, Monitor(g) \/ PageStep(c) \/ ChildStep(g)
    PROVE  Live' \subseteq Live
<1>1. CASE Monitor(g) \/ PageStep(c)
  <2>1. child' = child
    BY <1>1 DEF Monitor, LocatesLog, Announces, LooksOn, ReadsOutput, PublishesLine, LooksAgain, ChildGone,
       FallsBack, NoFallback, AdoptsLog, Concludes, Completes, PageStep, Poll, PollSuperseded, sessionVars
  <2> QED BY <2>1 DEF Live
<1>2. CASE ChildStep(g)
  <2>1. child[g].state = "live"
    BY <1>2 DEF ChildStep, WritesLocation, WritesLine, Exits
  <2>2. \A h \in Runs : h # g => child'[h] = child[h]
    BY <1>2 DEF ChildStep, WritesLocation, WritesLine, Exits, ShownInv, ShownTyped
  <2> QED BY <2>1, <2>2 DEF Live
<1> QED BY <1>1, <1>2

LEMMA KeptStep ==
    ASSUME ShownInv, ReachInv, [Next]_vars
    PROVE  [Kept \/ Underway \cap crossed # {}]_vars
<1>1. ASSUME Reached' = Reached, Live' \subseteq Live PROVE Kept
  BY <1>1 DEF Kept
<1>2. ASSUME NEW c \in Clients, NEW start \in BOOLEAN, Request(c, start) PROVE Kept
  <2>1. client[c].pc = "idle" /\ process' = process /\ child' = child
    BY <1>2 DEF Request, sessionVars
  <2>2. \A d \in Clients : d # c => client'[d] = client[d]
    BY <1>2 DEF Request, ShownInv, ShownTyped
  <2>3. Reached \subseteq Reached' /\ Live' = Live
    BY <2>1, <2>2 DEF Reached, Live
  <2> QED BY <2>3 DEF Kept
<1>3. ASSUME NEW g, NEW c, Monitor(g) \/ PageStep(c) \/ ChildStep(g) PROVE Kept
  BY <1>1, <1>3, OthersKeep, OthersReach, OthersLive
<1> QED BY <1>2, <1>3, ClientKeeps DEF Next

\* However many pages start and stop scripts, and however their requests overlap,
\* a live child leaves the reach of stop only by a request that met another one.
THEOREM NoChildLostTheorem == Spec => NoChildLost
<1>1. Init => ReachInv
  BY DEF Init, ReachInv, Underway, Idle
<1>2. ShownInv /\ ReachInv /\ [Next]_vars => ReachInv'
  BY ReachStep
<1>3. ShownInv /\ ReachInv /\ [Next]_vars => [Kept \/ Underway \cap crossed # {}]_vars
  BY KeptStep
<1>4. [Kept \/ Underway \cap crossed # {}]_vars =>
         [\A g \in Live' : (g \in Live => g \in Reached) =>
             g \in Reached' \/ Underway \cap crossed # {}]_vars
  BY DEF Kept
<1> QED BY <1>1, <1>2, <1>3, <1>4, ShownInit, ShownStep, PTL DEF Spec, NoChildLost
=============================================================================
