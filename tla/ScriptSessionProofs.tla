------------------------ MODULE ScriptSessionProofs ------------------------
(***************************************************************************)
(* Proofs about ScriptSession for any consoles, connections, texts of the   *)
(* script and numbers of revisions and operations: what a run inherits, what *)
(* its result file says, what the history of the next run is, and which      *)
(* connections are left open; and about ScriptRuns for any scripts, values    *)
(* and numbers of runs: what a rerun repeats.                               *)
(***************************************************************************)
EXTENDS ScriptSession, ScriptRuns, SequenceTheorems, TLAPS

Pcs == {"new", "catalog", "history", "bind", "body", "check", "retry", "raised", "failed",
        "result", "history.tmp", "history.write", "history.moved", "history.json", "close", "over"}
Histories == [layout : Nat, name : Names \cup {"none", "unreadable"}, revision : Nat]
Bindings == [name : Names \cup {"none"}, revision : Nat]
Statuses == {"none", "success", "preparation_failed", "self_check_failed", "operation_failed",
             "program_error"}
Ends == {"none", "returned", "result", "body", "raised", "failed"}
Exits == {-1, 0, 1, 2}
Results == [success : BOOLEAN, status : Statuses, final : Nat]
RemoteObjects == [made : BOOLEAN, used : Nat, available : BOOLEAN, check : Nat,
                  retrying : BOOLEAN, connected : BOOLEAN, closed : BOOLEAN]
Runs == [pc : Pcs, hosted : BOOLEAN, layout : Nat, catalog : [Names -> Nat], past : Histories,
         bound : Bindings, inherited : BOOLEAN, initialized : BOOLEAN, remote : RemoteObjects,
         ops : Seq(BOOLEAN), final : Nat, end : Ends, outcome : Results, result : Results,
         exit : Exits]

TypeInv ==
    /\ run \in [Consoles -> Runs] /\ catalog \in [Names -> Nat] /\ layout \in DOMAIN Layouts
    /\ history \in Histories /\ partial \in Histories

Prepares == {"new", "catalog", "history", "bind"}
BodyPcs == {"body", "check", "retry", "raised", "failed"}
Finishes == {"history.tmp", "history.write", "history.moved", "history.json"}
Written == Finishes \cup {"close", "over"}

\* The binding of a run is of the catalogue that it has read, and what it has
\* inherited is the past it has read.
BindingInv(v) ==
    /\ v.pc # "new" => v.layout \in DOMAIN Layouts
    /\ v.pc \in Prepares => v.bound = NoBinding /\ ~v.inherited /\ ~v.remote.made
    /\ v.pc = "bind" => v.past = NoHistory \/ v.past.layout = v.layout
    /\ v.pc \in BodyPcs \cup Finishes => v.bound # NoBinding
    /\ v.bound # NoBinding =>
          v.bound.name \in Names /\ v.bound.revision = v.catalog[v.bound.name]
    /\ v.remote.made => v.bound # NoBinding /\ v.remote.used = v.bound.revision
    /\ v.inherited =>
          v.past = [layout |-> v.layout, name |-> v.bound.name, revision |-> v.bound.revision]

\* The remote object is as its last check has left it; only an operation that
\* failed is raised.
CheckInv(v) ==
    /\ v.remote.check \in 0..Len(v.ops) /\ v.final \in 0..Len(v.ops)
    /\ v.remote.check # 0 => (v.ops[v.remote.check] <=> v.remote.available)
    /\ v.pc = "check" => v.remote.made
    /\ v.remote.made /\ v.pc # "check" => v.remote.check # 0
    /\ v.pc \in Prepares => v.remote.check = 0 /\ v.ops = <<>>
    /\ v.pc \in Prepares \cup {"body", "check", "retry", "failed"} => v.final = 0
    /\ v.pc = "raised" => v.final # 0 /\ ~v.ops[v.final]

Bad(v) == v.remote.made /\ ~v.remote.available

\* What finish is given, and what result.json says in the end.
TrueOf(v, told) ==
    /\ told.success => v.initialized /\ ~Bad(v)
    /\ told.status = "self_check_failed" =>
          told.final # 0 /\ told.final = v.remote.check /\ ~v.ops[told.final]
    /\ told.status = "operation_failed" => told.final # 0 /\ ~v.ops[told.final]
    /\ v.end = "result" /\ told.success => told.final # 0 /\ v.ops[told.final]
    /\ told.final \in 0..Len(v.ops)
    /\ v.hosted => /\ v.exit = 0 => told.success
                   /\ v.exit = 2 <=> v.bound = NoBinding

EndInv(v) ==
    /\ v.pc = "result" =>
          TrueOf(v, v.outcome) /\ (v.initialized => v.bound # NoBinding) /\ v.outcome.status # "none"
    /\ v.pc \in Finishes => v.initialized /\ v.result # NoResult
    /\ v.pc \in Written /\ v.result # NoResult =>
          TrueOf(v, v.result) /\ (v.ops # <<>> => v.result.final # 0)
    /\ v.pc \in Prepares => ~v.initialized /\ v.end = "none"
    /\ v.pc \in BodyPcs => v.end = "none"
    /\ v.pc \in Prepares \cup BodyPcs \cup {"result"} => v.result = NoResult

\* What was closed is not connected, nor about to be.
OpenInv(v) ==
    /\ v.remote.closed => ~v.remote.connected
    /\ v.pc \in {"check", "retry"} => ~v.remote.closed
    /\ v.pc \in Prepares \cup BodyPcs /\ v.remote.closed => v.remote.made
    /\ v.pc = "over" /\ v.remote.connected => ~v.hosted /\ v.exit = 1

RunInv(v) == BindingInv(v) /\ CheckInv(v) /\ EndInv(v) /\ OpenInv(v)

\* What is written to the .tmp is the binding of a run that is about to move it.
PartialInv ==
    \/ partial \in {NoHistory, Unreadable}
    \/ \E r \in Consoles : At(r, "history.json") /\ partial = Binding(r)

IInv == TypeInv /\ \A r \in Consoles : RunInv(run[r])

-----------------------------------------------------------------------------
(* Values *)

LEMMA LayoutTypes == DOMAIN Layouts \subseteq Nat /\ \A k \in DOMAIN Layouts : Layouts[k] \subseteq Names
BY SessionAssumption

LEMMA NothingTypes ==
    /\ NoHistory \in Histories /\ Unreadable \in Histories /\ NoBinding \in Bindings
    /\ NoResult \in Results /\ NoRemote \in RemoteObjects
BY DEF NoHistory, Unreadable, Histories, NoBinding, Bindings, NoResult, Results, Statuses, NoRemote, RemoteObjects

LEMMA HistoryIs ==
    \A h \in Histories : h = [layout |-> h.layout, name |-> h.name, revision |-> h.revision]
BY DEF Histories

\* One more operation.
LEMMA Longer ==
    ASSUME NEW s \in Seq(BOOLEAN), NEW b \in BOOLEAN
    PROVE  /\ Append(s, b) \in Seq(BOOLEAN) /\ Len(s) \in Nat
           /\ Len(Append(s, b)) = Len(s) + 1
           /\ \A k \in 1..Len(s) : Append(s, b)[k] = s[k]
           /\ Append(s, b)[Len(s) + 1] = b
OBVIOUS

\* A step of one console.
LEMMA OneRunWrites ==
    ASSUME IInv, NEW r \in Consoles, NEW w \in Runs, RunInv(w), Becomes(r, w),
           history' \in Histories, partial' \in Histories, UNCHANGED <<catalog, layout>>
    PROVE  IInv'
BY DEF IInv, TypeInv, Becomes

LEMMA OneRun ==
    ASSUME IInv, NEW r \in Consoles, NEW w \in Runs, RunInv(w), Becomes(r, w), OnlyRuns
    PROVE  IInv'
<1>1. history' \in Histories /\ partial' \in Histories /\ UNCHANGED <<catalog, layout>>
  BY DEF IInv, TypeInv, OnlyRuns
<1> QED BY <1>1, OneRunWrites

LEMMA RunOf ==
    ASSUME IInv, NEW r \in Consoles
    PROVE  run[r] \in Runs /\ RunInv(run[r])
BY DEF IInv, TypeInv

-----------------------------------------------------------------------------
(* Preparation *)

LEMMA StartStep ==
    ASSUME IInv, NEW r \in Consoles, Start(r)
    PROVE  IInv'
<1>1. PICK hosted \in BOOLEAN :
            Becomes(r, [NewRun EXCEPT !.pc = "catalog", !.layout = layout, !.hosted = hosted])
  BY DEF Start
<1> DEFINE w == [NewRun EXCEPT !.pc = "catalog", !.layout = layout, !.hosted = hosted]
<1>2. NewRun \in Runs
  BY NothingTypes DEF NewRun, Runs, Pcs, Ends, Exits
<1>3. w \in Runs
  BY <1>2, LayoutTypes DEF IInv, TypeInv, Runs, Pcs
<1>4. RunInv(w)
  <2>1. /\ w.pc = "catalog" /\ w.ops = <<>> /\ Len(w.ops) = 0 /\ w.final = 0 /\ w.remote = NoRemote
        /\ w.bound = NoBinding /\ w.result = NoResult /\ w.end = "none"
        /\ ~w.inherited /\ ~w.initialized /\ w.layout \in DOMAIN Layouts
    BY DEF NewRun, IInv, TypeInv
  <2> QED BY <2>1 DEF RunInv, BindingInv, CheckInv, EndInv, OpenInv, Prepares, BodyPcs, Finishes, Written, NoRemote
<1> QED BY <1>1, <1>3, <1>4, OneRun DEF Start

LEMMA PreparationFailsStep ==
    ASSUME IInv, NEW r \in Consoles, PreparationFails(r), OnlyRuns, run[r].pc \in Prepares \ {"new"}
    PROVE  IInv'
<1>1. PICK v \in Runs : v = run[r] /\ RunInv(v)
  BY RunOf
<1>0. v.ops = <<>> /\ Len(v.ops) = 0 /\ v.final = 0 /\ v.bound = NoBinding /\ ~v.initialized /\ ~v.remote.made
      /\ ~v.inherited /\ v.end = "none" /\ v.result = NoResult /\ v.remote.check = 0 /\ v.layout \in DOMAIN Layouts
  BY <1>1 DEF RunInv, BindingInv, CheckInv, EndInv, Prepares
<1>2. CASE v.hosted
  <2> DEFINE w == [v EXCEPT !.pc = "result", !.exit = 2,
                    !.outcome = [success |-> FALSE, status |-> "preparation_failed", final |-> v.final]]
  <2>1. Becomes(r, w)
    BY <1>1, <1>2 DEF PreparationFails, Finishing
  <2>2. w \in Runs
    BY <1>1 DEF Runs, Pcs, Results, Statuses, Exits
  <2>3. RunInv(w)
    <3>1. BindingInv(w)
      BY <1>0, <1>2 DEF RunInv, BindingInv, Prepares, BodyPcs, Finishes, Runs, RemoteObjects
    <3>2. CheckInv(w)
      BY <1>0, <1>2 DEF RunInv, CheckInv, Prepares, BodyPcs, Runs, RemoteObjects
    <3>3. EndInv(w) /\ OpenInv(w)
      BY <1>1, <1>0, <1>2 DEF RunInv, EndInv, OpenInv, TrueOf, Bad, Prepares, BodyPcs, Finishes, Written, Runs, RemoteObjects
    <3> QED BY <3>1, <3>2, <3>3 DEF RunInv
  <2> QED BY <2>1, <2>2, <2>3, OneRun
<1>3. CASE ~v.hosted
  <2> DEFINE w == [v EXCEPT !.pc = "close", !.exit = 1]
  <2>1. Becomes(r, w)
    BY <1>1, <1>3 DEF PreparationFails
  <2>2. w \in Runs
    BY <1>1 DEF Runs, Pcs, Exits
  <2>3. RunInv(w)
    <3>1. BindingInv(w)
      BY <1>0, <1>3 DEF RunInv, BindingInv, Prepares, BodyPcs, Finishes, Runs, RemoteObjects
    <3>2. CheckInv(w)
      BY <1>0, <1>3 DEF RunInv, CheckInv, Prepares, BodyPcs, Runs, RemoteObjects
    <3>3. EndInv(w) /\ OpenInv(w)
      BY <1>1, <1>0, <1>3 DEF RunInv, EndInv, OpenInv, TrueOf, Bad, Prepares, BodyPcs, Finishes, Written, Runs, RemoteObjects
    <3> QED BY <3>1, <3>2, <3>3 DEF RunInv
  <2> QED BY <2>1, <2>2, <2>3, OneRun
<1> QED BY <1>2, <1>3

LEMMA ReadCatalogStep ==
    ASSUME IInv, NEW r \in Consoles, ReadCatalog(r)
    PROVE  IInv'
<1>1. PICK v \in Runs : v = run[r] /\ RunInv(v)
  BY RunOf
<1>2. CASE Compatible(r)
  <2> DEFINE w == [v EXCEPT !.pc = "history", !.catalog = catalog]
  <2>1. v.pc = "catalog" /\ Becomes(r, w) /\ OnlyRuns
    BY <1>1, <1>2 DEF ReadCatalog, At
  <2>2. w \in Runs
    BY DEF IInv, TypeInv, Runs, Pcs
  <2>3. RunInv(w)
    <3>1. BindingInv(w)
      BY <1>1, <2>1 DEF RunInv, BindingInv, Prepares, BodyPcs, Finishes, Runs, RemoteObjects
    <3>2. CheckInv(w)
      BY <1>1, <2>1 DEF RunInv, CheckInv, Prepares, BodyPcs, Runs, RemoteObjects
    <3>3. EndInv(w) /\ OpenInv(w)
      BY <1>1, <2>1 DEF RunInv, EndInv, OpenInv, TrueOf, Bad, Prepares, BodyPcs, Finishes, Written, Runs, RemoteObjects
    <3> QED BY <3>1, <3>2, <3>3 DEF RunInv
  <2> QED BY <2>1, <2>2, <2>3, OneRun
<1>3. CASE ~Compatible(r)
  BY <1>3, PreparationFailsStep DEF ReadCatalog, At, Prepares
<1> QED BY <1>2, <1>3

LEMMA ReadHistoryStep ==
    ASSUME IInv, NEW r \in Consoles, ReadHistory(r)
    PROVE  IInv'
<1>1. PICK v \in Runs : v = run[r] /\ RunInv(v)
  BY RunOf
<1>2. v.pc = "history" /\ OnlyRuns
  BY <1>1 DEF ReadHistory, At
<1>3. CASE PreparationFails(r)
  BY <1>1, <1>2, <1>3, PreparationFailsStep DEF Prepares
<1>4. ASSUME NEW past, past = NoHistory \/ (past = history /\ past.layout = v.layout),
             Becomes(r, [v EXCEPT !.pc = "bind", !.past = past])
      PROVE  IInv'
  <2> DEFINE w == [v EXCEPT !.pc = "bind", !.past = past]
  <2>1. w \in Runs
    BY <1>4, NothingTypes DEF IInv, TypeInv, Runs, Pcs
  <2>2. RunInv(w)
    <3>1. BindingInv(w)
      BY <1>1, <1>2, <1>4 DEF RunInv, BindingInv, Prepares, BodyPcs, Finishes, Runs, RemoteObjects
    <3>2. CheckInv(w)
      BY <1>1, <1>2, <1>4 DEF RunInv, CheckInv, Prepares, BodyPcs, Runs, RemoteObjects
    <3>3. EndInv(w) /\ OpenInv(w)
      BY <1>1, <1>2, <1>4 DEF RunInv, EndInv, OpenInv, TrueOf, Bad, Prepares, BodyPcs, Finishes, Written, Runs, RemoteObjects
    <3> QED BY <3>1, <3>2, <3>3 DEF RunInv
  <2> QED BY <1>2, <1>4, <2>1, <2>2, OneRun
<1> QED BY <1>1, <1>3, <1>4 DEF ReadHistory

LEMMA BindStep ==
    ASSUME IInv, NEW r \in Consoles, Bind(r)
    PROVE  IInv'
<1>1. PICK v \in Runs : v = run[r] /\ RunInv(v)
  BY RunOf
<1>2. v.pc = "bind" /\ OnlyRuns
  BY <1>1 DEF Bind, At
<1>3. CASE PreparationFails(r)
  BY <1>1, <1>2, <1>3, PreparationFailsStep DEF Prepares
<1>4. ASSUME NEW n \in Candidates(r), NEW inherited \in BOOLEAN, inherited => n \in Remembered(r),
             Becomes(r, [run[r] EXCEPT !.pc = "body", !.inherited = inherited,
                             !.bound = [name |-> n, revision |-> run[r].catalog[n]],
                             !.initialized = ~run[r].hosted])
      PROVE  IInv'
  <2> DEFINE w == [v EXCEPT !.pc = "body", !.inherited = inherited,
                            !.bound = [name |-> n, revision |-> v.catalog[n]],
                            !.initialized = ~v.hosted]
  <2>1. n \in Names /\ v.catalog[n] # 0 /\ v.catalog[n] \in Nat
    BY <1>1, <1>2, <1>4, LayoutTypes DEF Candidates, Allowed, RunInv, BindingInv, Runs
  <2>2. inherited => v.past.name = n /\ v.past.revision = v.catalog[n]
    BY <1>1, <1>4 DEF Remembered
  <2>3. inherited => v.past = [layout |-> v.layout, name |-> n, revision |-> v.catalog[n]]
    <3>1. v.past \in Histories /\ (v.past = NoHistory \/ v.past.layout = v.layout)
      BY <1>1, <1>2 DEF RunInv, BindingInv, Runs
    <3> QED BY <2>1, <2>2, <3>1, HistoryIs DEF NoHistory
  <2>4. w \in Runs
    BY <2>1, <1>4 DEF Runs, Pcs, Bindings
  <2>5. w.bound # NoBinding
    BY <2>1 DEF NoBinding, Runs
  <2>6. BindingInv(w)
    BY <1>1, <1>2, <2>1, <2>3, <2>5 DEF RunInv, BindingInv, Prepares, BodyPcs, Finishes, Runs
  <2>7. CheckInv(w) /\ EndInv(w) /\ OpenInv(w)
    BY <1>1, <1>2 DEF RunInv, BindingInv, CheckInv, EndInv, OpenInv, Prepares, BodyPcs, Finishes, Written, Runs
  <2> QED BY <1>1, <1>2, <1>4, <2>4, <2>6, <2>7, OneRun DEF RunInv
<1> QED BY <1>3, <1>4 DEF Bind

-----------------------------------------------------------------------------
(* The body *)

LEMMA InitScriptStep ==
    ASSUME IInv, NEW r \in Consoles, InitScript(r)
    PROVE  IInv'
<1>1. PICK v \in Runs : v = run[r] /\ RunInv(v)
  BY RunOf
<1> DEFINE w == [v EXCEPT !.initialized = TRUE]
<1>2. v.pc = "body" /\ Becomes(r, w) /\ OnlyRuns
  BY <1>1 DEF InitScript, At
<1>3. w \in Runs
  BY <1>1, <1>2 DEF Runs, Pcs
<1>4. RunInv(w)
  <2>1. BindingInv(w)
    BY <1>1, <1>2 DEF RunInv, BindingInv, Prepares, BodyPcs, Finishes, Runs, RemoteObjects
  <2>2. CheckInv(w)
    BY <1>1, <1>2 DEF RunInv, CheckInv, Prepares, BodyPcs, Runs, RemoteObjects
  <2>3. EndInv(w) /\ OpenInv(w)
    BY <1>1, <1>2 DEF RunInv, EndInv, OpenInv, TrueOf, Bad, Prepares, BodyPcs, Finishes, Written, Runs, RemoteObjects
  <2> QED BY <2>1, <2>2, <2>3 DEF RunInv
<1> QED BY <1>2, <1>3, <1>4, OneRun

LEMMA GetRemoteStep ==
    ASSUME IInv, NEW r \in Consoles, GetRemote(r)
    PROVE  IInv'
<1>1. PICK v \in Runs : v = run[r] /\ RunInv(v)
  BY RunOf
<1> DEFINE w == [v EXCEPT !.pc = "check", !.remote.made = TRUE,
                                !.remote.used = v.catalog[v.bound.name]]
<1>2. v.pc = "body" /\ Becomes(r, w) /\ OnlyRuns /\ ~v.remote.made
  BY <1>1 DEF GetRemote, At, Config
<1>5. /\ v.bound # NoBinding /\ v.bound.name \in Names /\ v.bound.revision = v.catalog[v.bound.name]
      /\ v.bound.revision \in Nat
  BY <1>1, <1>2 DEF RunInv, BindingInv, BodyPcs, Finishes, Runs, Bindings
<1>3. w \in Runs
  <2>1. [v.remote EXCEPT !.made = TRUE, !.used = v.catalog[v.bound.name]] \in RemoteObjects
    BY <1>1, <1>2, <1>5 DEF Runs, RemoteObjects
  <2> QED BY <1>1, <1>2, <1>5, <2>1 DEF Runs, Pcs
<1>4. RunInv(w)
  <2>1. BindingInv(w)
    BY <1>1, <1>2, <1>5 DEF RunInv, BindingInv, Prepares, BodyPcs, Finishes, Runs, RemoteObjects
  <2>2. CheckInv(w)
    BY <1>1, <1>2, <1>5 DEF RunInv, CheckInv, Prepares, BodyPcs, Runs, RemoteObjects
  <2>3. EndInv(w) /\ OpenInv(w)
    BY <1>1, <1>2, <1>5 DEF RunInv, EndInv, OpenInv, TrueOf, Bad, Prepares, BodyPcs, Finishes, Written, Runs, RemoteObjects
  <2> QED BY <2>1, <2>2, <2>3 DEF RunInv
<1> QED BY <1>2, <1>3, <1>4, OneRun

LEMMA SelfCheckStep ==
    ASSUME IInv, NEW r \in Consoles, SelfCheck(r)
    PROVE  IInv'
<1>1. PICK v \in Runs : v = run[r] /\ RunInv(v)
  BY RunOf
<1>2. v.pc = "check" /\ OnlyRuns /\ v.remote.made /\ ~v.remote.closed
  BY <1>1 DEF SelfCheck, At, RunInv, CheckInv, OpenInv
<1> DEFINE number == Len(v.ops) + 1
<1>3. PICK a \in BOOLEAN, c \in BOOLEAN :
         \/ Becomes(r, [Checked(v, a, c) EXCEPT !.pc = "retry"])
         \/ Becomes(r, [[Checked(v, a, c) EXCEPT !.remote.retrying = FALSE] EXCEPT !.pc = "body"])
         \/ ~a /\ Becomes(r, Raises([Checked(v, a, c) EXCEPT !.remote.retrying = FALSE],
                                    Checked(v, a, c).remote.check))
  BY <1>1 DEF SelfCheck
<1>4. PICK s : s = Append(v.ops, a)
  OBVIOUS
<1>5. s \in Seq(BOOLEAN) /\ Len(s) = number /\ number \in Nat /\ number # 0 /\ (s[number] <=> a)
  BY <1>1, <1>4, Longer DEF Runs
<1>6. ASSUME NEW w \in Runs, w.ops = s, w.remote.check = number, w.remote.available = a, w.remote.made,
             w.remote.used = v.remote.used, w.bound = v.bound, w.catalog = v.catalog, w.past = v.past,
             w.layout = v.layout, w.inherited = v.inherited, w.end = v.end, w.result = v.result, ~w.remote.closed,
             \/ w.pc \in {"retry", "body"} /\ w.final = v.final
             \/ w.pc = "raised" /\ w.final = number /\ ~a
      PROVE  RunInv(w)
  <2>1. BindingInv(w)
    BY <1>1, <1>2, <1>6 DEF RunInv, BindingInv, BodyPcs, Finishes, Prepares
  <2>2. CheckInv(w)
    <3>1. w.final \in 0..Len(w.ops)
      BY <1>1, <1>2, <1>5, <1>6 DEF RunInv, CheckInv
    <3> QED BY <1>1, <1>2, <1>5, <1>6, <3>1 DEF RunInv, CheckInv, Prepares
  <2>3. EndInv(w) /\ OpenInv(w)
    BY <1>1, <1>2, <1>6 DEF RunInv, EndInv, OpenInv, Prepares, BodyPcs, Finishes, Written
  <2> QED BY <2>1, <2>2, <2>3 DEF RunInv
<1>7. CASE Becomes(r, [Checked(v, a, c) EXCEPT !.pc = "retry"])
  <2> DEFINE w == [v EXCEPT !.ops = s, !.remote.available = a, !.remote.check = number,
                            !.remote.connected = c, !.pc = "retry"]
  <2>1. w \in Runs
    <3>1. [v.remote EXCEPT !.available = a, !.check = number, !.connected = c] \in RemoteObjects
      BY <1>1, <1>5 DEF Runs, RemoteObjects
    <3> QED BY <1>1, <1>5, <3>1 DEF Runs, Pcs
  <2>2. RunInv(w)
    <3>1. /\ w.ops = s /\ w.remote.check = number /\ w.remote.available = a /\ w.remote.made = v.remote.made
          /\ w.remote.closed = v.remote.closed
          /\ w.remote.used = v.remote.used /\ w.bound = v.bound /\ w.catalog = v.catalog /\ w.past = v.past
          /\ w.layout = v.layout /\ w.inherited = v.inherited /\ w.end = v.end /\ w.result = v.result
          /\ w.pc = "retry" /\ w.final = v.final
      <4>1. w.remote = [v.remote EXCEPT !.available = a, !.check = number, !.connected = c]
        BY DEF Runs, RemoteObjects
      <4>2. /\ w.remote.check = number /\ w.remote.available = a
            /\ w.remote.made = v.remote.made /\ w.remote.used = v.remote.used
            /\ w.remote.closed = v.remote.closed
        BY <4>1 DEF Runs, RemoteObjects
      <4> QED BY <4>2 DEF Runs
    <3> HIDE DEF w
    <3> QED BY <1>2, <1>6, <2>1, <3>1
  <2>3. Becomes(r, w)
    BY <1>1, <1>4, <1>7 DEF Runs, RemoteObjects, Checked, Recorded, Raises
  <2> QED BY <1>2, <2>1, <2>2, <2>3, OneRun
<1>8. CASE Becomes(r, [[Checked(v, a, c) EXCEPT !.remote.retrying = FALSE] EXCEPT !.pc = "body"])
  <2> DEFINE w == [v EXCEPT !.ops = s, !.remote.available = a, !.remote.check = number,
                            !.remote.connected = c, !.pc = "body", !.remote.retrying = FALSE]
  <2>1. w \in Runs
    <3>1. [v.remote EXCEPT !.available = a, !.check = number, !.connected = c, !.retrying = FALSE]
             \in RemoteObjects
      BY <1>1, <1>5 DEF Runs, RemoteObjects
    <3> QED BY <1>1, <1>5, <3>1 DEF Runs, Pcs
  <2>2. RunInv(w)
    <3>1. /\ w.ops = s /\ w.remote.check = number /\ w.remote.available = a /\ w.remote.made = v.remote.made
          /\ w.remote.closed = v.remote.closed
          /\ w.remote.used = v.remote.used /\ w.bound = v.bound /\ w.catalog = v.catalog /\ w.past = v.past
          /\ w.layout = v.layout /\ w.inherited = v.inherited /\ w.end = v.end /\ w.result = v.result
          /\ w.pc = "body" /\ w.final = v.final
      <4>1. w.remote = [v.remote EXCEPT !.available = a, !.check = number, !.connected = c, !.retrying = FALSE]
        BY DEF Runs, RemoteObjects
      <4>2. /\ w.remote.check = number /\ w.remote.available = a
            /\ w.remote.made = v.remote.made /\ w.remote.used = v.remote.used
            /\ w.remote.closed = v.remote.closed
        BY <4>1 DEF Runs, RemoteObjects
      <4> QED BY <4>2 DEF Runs
    <3> HIDE DEF w
    <3> QED BY <1>2, <1>6, <2>1, <3>1
  <2>3. Becomes(r, w)
    <3>1. [[Checked(v, a, c) EXCEPT !.remote.retrying = FALSE] EXCEPT !.pc = "body"] = w
      <4>1. Checked(v, a, c) = [v EXCEPT !.ops = s, !.remote.available = a, !.remote.check = number,
                                         !.remote.connected = c]
        BY <1>1, <1>4 DEF Runs, RemoteObjects, Checked, Recorded
      <4> QED BY <1>1, <4>1 DEF Runs, RemoteObjects
    <3> QED BY <1>8, <3>1
  <2> QED BY <1>2, <2>1, <2>2, <2>3, OneRun
<1>9. CASE ~a /\ Becomes(r, Raises([Checked(v, a, c) EXCEPT !.remote.retrying = FALSE],
                                    Checked(v, a, c).remote.check))
  <2> DEFINE w == [v EXCEPT !.ops = s, !.remote.available = a, !.remote.check = number,
                            !.remote.connected = c, !.remote.retrying = FALSE, !.pc = "raised", !.final = number]
  <2>1. w \in Runs
    <3>1. [v.remote EXCEPT !.available = a, !.check = number, !.connected = c, !.retrying = FALSE]
             \in RemoteObjects
      BY <1>1, <1>5 DEF Runs, RemoteObjects
    <3> QED BY <1>1, <1>5, <3>1 DEF Runs, Pcs
  <2>2. RunInv(w)
    <3>1. /\ w.ops = s /\ w.remote.check = number /\ w.remote.available = a /\ w.remote.made = v.remote.made
          /\ w.remote.closed = v.remote.closed
          /\ w.remote.used = v.remote.used /\ w.bound = v.bound /\ w.catalog = v.catalog /\ w.past = v.past
          /\ w.layout = v.layout /\ w.inherited = v.inherited /\ w.end = v.end /\ w.result = v.result
          /\ w.pc = "raised" /\ w.final = number
      <4>1. w.remote = [v.remote EXCEPT !.available = a, !.check = number, !.connected = c, !.retrying = FALSE]
        BY DEF Runs, RemoteObjects
      <4>2. /\ w.remote.check = number /\ w.remote.available = a
            /\ w.remote.made = v.remote.made /\ w.remote.used = v.remote.used
            /\ w.remote.closed = v.remote.closed
        BY <4>1 DEF Runs, RemoteObjects
      <4> QED BY <4>2 DEF Runs
    <3> HIDE DEF w
    <3> QED BY <1>2, <1>6, <1>9, <2>1, <3>1
  <2>3. Becomes(r, w)
    BY <1>1, <1>4, <1>9 DEF Runs, RemoteObjects, Checked, Recorded, Raises
  <2> QED BY <1>2, <2>1, <2>2, <2>3, OneRun
<1> QED BY <1>3, <1>7, <1>8, <1>9

LEMMA RetryStep ==
    ASSUME IInv, NEW r \in Consoles, Retry(r)
    PROVE  IInv'
<1>1. PICK v \in Runs : v = run[r] /\ RunInv(v)
  BY RunOf
<1>2. v.pc \in {"body", "retry"} /\ v.remote.made /\ OnlyRuns
  BY <1>1 DEF Retry, At
<1>3. CASE v.remote.closed
  <2> DEFINE w == [v EXCEPT !.pc = "failed"]
  <2>1. w \in Runs /\ Becomes(r, w)
    BY <1>1, <1>3 DEF Retry, Retried, Runs, Pcs
  <2>2. RunInv(w)
    <3>1. BindingInv(w)
      BY <1>1, <1>2 DEF RunInv, BindingInv, Prepares, BodyPcs, Finishes, Runs, RemoteObjects
    <3>2. CheckInv(w)
      BY <1>1, <1>2 DEF RunInv, CheckInv, Prepares, BodyPcs, Runs, RemoteObjects
    <3>3. EndInv(w) /\ OpenInv(w)
      BY <1>1, <1>2 DEF RunInv, EndInv, OpenInv, TrueOf, Bad, Prepares, BodyPcs, Finishes, Written, Runs, RemoteObjects
    <3> QED BY <3>1, <3>2, <3>3 DEF RunInv
  <2> QED BY <1>2, <2>1, <2>2, OneRun
<1>4. CASE ~v.remote.closed
  <2> DEFINE w == [v EXCEPT !.pc = "check", !.remote.retrying = TRUE, !.remote.connected = FALSE]
  <2>1. w \in Runs /\ Becomes(r, w)
    <3>1. [v.remote EXCEPT !.retrying = TRUE, !.connected = FALSE] \in RemoteObjects
      BY DEF Runs, RemoteObjects
    <3>2. w \in Runs
      BY <3>1 DEF Runs, Pcs
    <3> QED BY <1>1, <1>4, <3>2 DEF Retry, Retried
  <2>2. RunInv(w)
    <3>1. BindingInv(w)
      BY <1>1, <1>2 DEF RunInv, BindingInv, Prepares, BodyPcs, Finishes, Runs, RemoteObjects
    <3>2. CheckInv(w)
      BY <1>1, <1>2 DEF RunInv, CheckInv, Prepares, BodyPcs, Runs, RemoteObjects
    <3>3. EndInv(w) /\ OpenInv(w)
      BY <1>1, <1>2, <1>4 DEF RunInv, EndInv, OpenInv, TrueOf, Bad, Prepares, BodyPcs, Finishes, Written, Runs, RemoteObjects
    <3> QED BY <3>1, <3>2, <3>3 DEF RunInv
  <2> QED BY <1>2, <2>1, <2>2, OneRun
<1> QED BY <1>3, <1>4

LEMMA OperateStep ==
    ASSUME IInv, NEW r \in Consoles, Operate(r)
    PROVE  IInv'
<1>1. PICK v \in Runs : v = run[r] /\ RunInv(v)
  BY RunOf
<1>2. v.pc = "body" /\ v.remote.made /\ OnlyRuns
  BY <1>1 DEF Operate, At
<1>3. CASE v.remote.closed
  <2> DEFINE w == [v EXCEPT !.pc = "failed"]
  <2>1. w \in Runs /\ Becomes(r, w)
    BY <1>1, <1>3 DEF Operate, Goes, Runs, Pcs
  <2>2. RunInv(w)
    <3>1. BindingInv(w)
      BY <1>1, <1>2 DEF RunInv, BindingInv, Prepares, BodyPcs, Finishes, Runs, RemoteObjects
    <3>2. CheckInv(w)
      BY <1>1, <1>2 DEF RunInv, CheckInv, Prepares, BodyPcs, Runs, RemoteObjects
    <3>3. EndInv(w) /\ OpenInv(w)
      BY <1>1, <1>2 DEF RunInv, EndInv, OpenInv, TrueOf, Bad, Prepares, BodyPcs, Finishes, Written, Runs, RemoteObjects
    <3> QED BY <3>1, <3>2, <3>3 DEF RunInv
  <2> QED BY <1>2, <2>1, <2>2, OneRun
<1>4. ASSUME ~v.remote.closed, ~v.remote.available, Becomes(r, Raises(v, v.remote.check))
      PROVE  IInv'
  <2> DEFINE w == [v EXCEPT !.pc = "raised", !.final = v.remote.check]
  <2>1. w \in Runs /\ Becomes(r, w)
    <3>1. v.remote.check \in Nat
      BY DEF Runs, RemoteObjects
    <3>2. w \in Runs
      BY <3>1 DEF Runs, Pcs
    <3> QED BY <1>4, <3>2 DEF Raises
  <2>2. RunInv(w)
    <3>1. BindingInv(w)
      BY <1>1, <1>2, <1>4 DEF RunInv, BindingInv, Prepares, BodyPcs, Finishes, Runs, RemoteObjects
    <3>2. CheckInv(w)
      BY <1>1, <1>2, <1>4 DEF RunInv, CheckInv, Prepares, BodyPcs, Runs, RemoteObjects
    <3>3. EndInv(w) /\ OpenInv(w)
      BY <1>1, <1>2, <1>4 DEF RunInv, EndInv, OpenInv, TrueOf, Bad, Prepares, BodyPcs, Finishes, Written, Runs, RemoteObjects
    <3> QED BY <3>1, <3>2, <3>3 DEF RunInv
  <2> QED BY <1>2, <2>1, <2>2, OneRun
<1>5. ASSUME ~v.remote.closed, NEW ok \in BOOLEAN, NEW connected \in BOOLEAN, NEW raised \in BOOLEAN, ok => ~raised,
             LET done == [Recorded(v, ok) EXCEPT !.remote.connected = connected]
             IN  Becomes(r, IF raised THEN Raises(done, Len(done.ops)) ELSE done)
      PROVE  IInv'
  <2>1. PICK s : s = Append(v.ops, ok)
    OBVIOUS
  <2>2. /\ s \in Seq(BOOLEAN) /\ v.ops \in Seq(BOOLEAN) /\ Len(v.ops) \in Nat /\ Len(s) = Len(v.ops) + 1
        /\ Len(s) \in Nat /\ s[Len(s)] = ok /\ \A k \in 1..Len(v.ops) : s[k] = v.ops[k]
    BY <2>1, Longer DEF Runs
  <2>3. ASSUME NEW w \in Runs, w.ops = s, w.remote.check = v.remote.check,
               w.remote.available = v.remote.available, w.remote.made,
               w.remote.used = v.remote.used, w.bound = v.bound, w.catalog = v.catalog,
               w.past = v.past, w.layout = v.layout, w.inherited = v.inherited, w.end = v.end,
               w.result = v.result, ~w.remote.closed,
               \/ w.pc = "body" /\ w.final = v.final
               \/ w.pc = "raised" /\ w.final = Len(s) /\ ~ok
        PROVE  RunInv(w)
    <3>1. BindingInv(w)
      BY <1>1, <1>2, <2>3 DEF RunInv, BindingInv, BodyPcs, Finishes, Prepares
    <3>2. CheckInv(w)
      <4>1. /\ v.remote.check \in 0..Len(v.ops) /\ v.remote.check # 0 /\ v.final = 0
            /\ v.ops[v.remote.check] <=> v.remote.available
        BY <1>1, <1>2 DEF RunInv, CheckInv
      <4>2. w.final \in 0..Len(s) /\ v.remote.check \in 1..Len(v.ops) /\ v.remote.check \in 0..Len(s)
        BY <2>2, <2>3, <4>1
      <4>3. s[v.remote.check] = v.ops[v.remote.check]
        BY <2>2, <4>2
      <4> QED BY <2>2, <2>3, <4>1, <4>2, <4>3 DEF CheckInv, Prepares
    <3>3. EndInv(w) /\ OpenInv(w)
      BY <1>1, <1>2, <2>3 DEF RunInv, EndInv, OpenInv, Prepares, BodyPcs, Finishes, Written
    <3> QED BY <3>1, <3>2, <3>3 DEF RunInv
  <2>4. CASE ~raised
    <3> DEFINE w == [v EXCEPT !.ops = s, !.remote.connected = connected]
    <3>1. w \in Runs
      <4>1. [v.remote EXCEPT !.connected = connected] \in RemoteObjects
        BY <2>2 DEF Runs, RemoteObjects
      <4> QED BY <2>2, <4>1 DEF Runs, Pcs
    <3>2. /\ w.ops = s /\ w.remote.check = v.remote.check /\ w.remote.available = v.remote.available
          /\ w.remote.made = v.remote.made /\ w.remote.used = v.remote.used /\ w.bound = v.bound
          /\ w.catalog = v.catalog /\ w.past = v.past /\ w.layout = v.layout
          /\ w.inherited = v.inherited /\ w.end = v.end /\ w.result = v.result
          /\ w.remote.closed = v.remote.closed /\ w.pc = v.pc /\ w.final = v.final
      BY DEF Runs, RemoteObjects
    <3>3. Becomes(r, w)
      BY <1>5, <2>1, <2>4 DEF Recorded, Runs, RemoteObjects
    <3> HIDE DEF w
    <3> QED BY <1>2, <1>5, <2>3, <3>1, <3>2, <3>3, OneRun
  <2>5. CASE raised
    <3> DEFINE w == [v EXCEPT !.ops = s, !.remote.connected = connected, !.pc = "raised", !.final = Len(s)]
    <3>1. w \in Runs
      <4>1. [v.remote EXCEPT !.connected = connected] \in RemoteObjects
        BY <2>2 DEF Runs, RemoteObjects
      <4> QED BY <2>2, <4>1 DEF Runs, Pcs
    <3>2. /\ w.ops = s /\ w.remote.check = v.remote.check /\ w.remote.available = v.remote.available
          /\ w.remote.made = v.remote.made /\ w.remote.used = v.remote.used /\ w.bound = v.bound
          /\ w.catalog = v.catalog /\ w.past = v.past /\ w.layout = v.layout
          /\ w.inherited = v.inherited /\ w.end = v.end /\ w.result = v.result
          /\ w.remote.closed = v.remote.closed /\ w.pc = "raised" /\ w.final = Len(s)
      BY DEF Runs, RemoteObjects
    <3>3. Becomes(r, w)
      BY <1>5, <2>1, <2>5 DEF Recorded, Raises, Runs, RemoteObjects
    <3> HIDE DEF w
    <3> QED BY <1>2, <1>5, <2>3, <2>5, <3>1, <3>2, <3>3, OneRun
  <2> QED BY <2>4, <2>5
<1>6. CASE ~v.remote.closed
  <2>1. \/ ~v.remote.available /\ Becomes(r, Raises(v, v.remote.check))
        \/ \E ok, connected, raised \in BOOLEAN :
              LET done == [Recorded(v, ok) EXCEPT !.remote.connected = connected]
              IN  /\ ok => ~raised
                  /\ Becomes(r, IF raised THEN Raises(done, Len(done.ops)) ELSE done)
    BY <1>1, <1>6, Zenon DEF Operate
  <2>2. CASE ~v.remote.available /\ Becomes(r, Raises(v, v.remote.check))
    BY <1>4, <1>6, <2>2
  <2>3. CASE \E ok, connected, raised \in BOOLEAN :
              LET done == [Recorded(v, ok) EXCEPT !.remote.connected = connected]
              IN  /\ ok => ~raised
                  /\ Becomes(r, IF raised THEN Raises(done, Len(done.ops)) ELSE done)
    BY <1>5, <1>6, <2>3, Zenon
  <2> QED BY <2>1, <2>2, <2>3
<1> QED BY <1>3, <1>6

\* What an object is after close.
LEMMA ClosedIs ==
    ASSUME NEW v \in Runs, OpenInv(v)
    PROVE  /\ Closed(v.remote) \in RemoteObjects
           /\ Closed(v.remote).closed /\ ~Closed(v.remote).connected
           /\ Closed(v.remote).made = v.remote.made /\ Closed(v.remote).used = v.remote.used
           /\ Closed(v.remote).available = v.remote.available /\ Closed(v.remote).check = v.remote.check
<1>1. v.remote \in RemoteObjects
  BY DEF Runs
<1> QED BY <1>1 DEF Closed, OpenInv, RemoteObjects

LEMMA CloseRemoteStep ==
    ASSUME IInv, NEW r \in Consoles, CloseRemote(r)
    PROVE  IInv'
<1>1. PICK v \in Runs : v = run[r] /\ RunInv(v)
  BY RunOf
<1> DEFINE w == [v EXCEPT !.remote = Closed(v.remote)]
<1>2. v.pc = "body" /\ v.remote.made /\ Becomes(r, w) /\ OnlyRuns
  BY <1>1 DEF CloseRemote, At
<1>3. w \in Runs
  BY <1>1, ClosedIs DEF Runs, RunInv
<1>4. RunInv(w)
  <2>1. /\ w.pc = v.pc /\ w.exit = v.exit /\ w.end = v.end /\ w.final = v.final /\ w.result = v.result
        /\ w.hosted = v.hosted /\ w.layout = v.layout /\ w.catalog = v.catalog /\ w.past = v.past
        /\ w.bound = v.bound /\ w.inherited = v.inherited /\ w.initialized = v.initialized
        /\ w.ops = v.ops /\ w.remote.made = v.remote.made /\ w.remote.used = v.remote.used
        /\ w.remote.available = v.remote.available /\ w.remote.check = v.remote.check
        /\ ~w.remote.connected
    BY <1>1, ClosedIs DEF Runs, RunInv
  <2> HIDE DEF w
  <2>2. BindingInv(w)
    BY <1>1, <1>2, <2>1 DEF RunInv, BindingInv, Prepares, BodyPcs, Finishes
  <2>3. CheckInv(w)
    BY <1>1, <1>2, <2>1 DEF RunInv, CheckInv, Prepares
  <2>4. EndInv(w) /\ OpenInv(w)
    BY <1>1, <1>2, <2>1 DEF RunInv, EndInv, OpenInv, TrueOf, Bad, Prepares, BodyPcs, Finishes, Written
  <2> QED BY <2>2, <2>3, <2>4 DEF RunInv
<1> QED BY <1>2, <1>3, <1>4, OneRun

LEMMA CatchStep ==
    ASSUME IInv, NEW r \in Consoles, Catch(r)
    PROVE  IInv'
<1>1. PICK v \in Runs : v = run[r] /\ RunInv(v)
  BY RunOf
<1> DEFINE w == [v EXCEPT !.pc = "body", !.final = 0]
<1>2. v.pc \in {"raised", "failed"} /\ Becomes(r, w) /\ OnlyRuns
  BY <1>1 DEF Catch, At
<1>3. w \in Runs
  BY <1>1, <1>2 DEF Runs, Pcs
<1>4. RunInv(w)
  <2>1. BindingInv(w)
    BY <1>1, <1>2 DEF RunInv, BindingInv, Prepares, BodyPcs, Finishes, Runs, RemoteObjects
  <2>2. CheckInv(w)
    BY <1>1, <1>2 DEF RunInv, CheckInv, Prepares, BodyPcs, Runs, RemoteObjects
  <2>3. EndInv(w) /\ OpenInv(w)
    BY <1>1, <1>2 DEF RunInv, EndInv, OpenInv, TrueOf, Bad, Prepares, BodyPcs, Finishes, Written, Runs, RemoteObjects
  <2> QED BY <2>1, <2>2, <2>3 DEF RunInv
<1> QED BY <1>2, <1>3, <1>4, OneRun

-----------------------------------------------------------------------------
(* The end *)

\* What finish is given.
Ended(v, exit, end, final, status) ==
    [v EXCEPT !.pc = "result", !.exit = exit, !.end = end, !.final = final,
              !.outcome = [success |-> status = "success", status |-> status, final |-> final]]

\* The step of a run to its end: what finish is given is true of the run.
LEMMA EndsTrue ==
    ASSUME NEW v \in Runs, RunInv(v), v.pc \in BodyPcs \ {"check"}, NEW final \in 0..Len(v.ops),
           NEW status \in Statuses \ {"none"}, NEW exit \in {0, 1}, NEW end \in Ends,
           status = "success" => v.initialized /\ ~Bad(v),
           status = "self_check_failed" => final # 0 /\ final = v.remote.check /\ ~v.ops[final],
           status = "operation_failed" => final # 0 /\ ~v.ops[final],
           end = "result" /\ status = "success" => final # 0 /\ v.ops[final],
           v.hosted /\ exit = 0 => status = "success"
    PROVE  /\ Ended(v, exit, end, final, status) \in Runs
           /\ RunInv(Ended(v, exit, end, final, status))
<1> DEFINE told == [success |-> status = "success", status |-> status, final |-> final]
           w == Ended(v, exit, end, final, status)
<1>1. final \in Nat
  <2>1. Len(v.ops) \in Nat
    BY DEF Runs
  <2> QED BY <2>1
<1>2. w \in Runs
  <2>1. told \in Results
    BY <1>1 DEF Results
  <2> QED BY <1>1, <2>1 DEF Ended, Runs, Pcs, Exits
<1>3. /\ w.pc = "result" /\ w.exit = exit /\ w.end = end /\ w.final = final /\ w.outcome = told
      /\ (told.success <=> status = "success") /\ told.status = status /\ told.final = final
      /\ w.hosted = v.hosted /\ w.layout = v.layout /\ w.catalog = v.catalog /\ w.past = v.past
      /\ w.bound = v.bound /\ w.inherited = v.inherited /\ w.initialized = v.initialized
      /\ w.remote = v.remote /\ w.ops = v.ops /\ w.result = v.result
  BY DEF Ended, Runs
<1>4. v.bound # NoBinding
  BY DEF RunInv, BindingInv, BodyPcs, Finishes
<1> HIDE DEF w, told
<1>5. BindingInv(w)
  BY <1>3, <1>4 DEF RunInv, BindingInv, Prepares, BodyPcs, Finishes
<1>6. CheckInv(w)
  BY <1>3 DEF RunInv, CheckInv, Prepares, BodyPcs
<1>7. TrueOf(w, told)
  BY <1>3, <1>4 DEF TrueOf, Bad
<1>8. EndInv(w) /\ OpenInv(w)
  BY <1>3, <1>4, <1>7 DEF RunInv, EndInv, OpenInv, Prepares, BodyPcs, Finishes, Written
<1> QED BY <1>2, <1>5, <1>6, <1>8 DEF RunInv, w, told

LEMMA ReturnsStep ==
    ASSUME IInv, NEW r \in Consoles, Returns(r)
    PROVE  IInv'
<1>1. PICK v \in Runs : v = run[r] /\ RunInv(v)
  BY RunOf
<1>2. v.pc = "body" /\ OnlyRuns
  BY <1>1 DEF Returns, At
<1>3. /\ v.final \in 0..Len(v.ops) /\ v.remote.check \in 0..Len(v.ops) /\ 0 \in 0..Len(v.ops)
      /\ v.remote.made => v.remote.check # 0 /\ (v.ops[v.remote.check] <=> v.remote.available)
      /\ v.pc # "raised" => v.final = 0
      /\ v.pc = "raised" => v.final # 0 /\ ~v.ops[v.final]
      /\ v.hosted \in BOOLEAN
  BY <1>1, <1>2 DEF RunInv, CheckInv, Runs
<1>4. CASE ~v.initialized
  <2> DEFINE w == Ended(v, 1, "returned", v.final, "program_error")
  <2>1. Becomes(r, w)
    BY <1>1, <1>2, <1>4 DEF Returns, Succeeds, Unavailable, Ended, Fails, Finishing, Runs, RemoteObjects
  <2>2. w \in Runs /\ RunInv(w)
    BY <1>1, <1>2, <1>3, <1>4, EndsTrue DEF BodyPcs, Statuses, Ends, Bad
  <2> QED BY <1>2, <2>1, <2>2, OneRun
<1>5. CASE v.initialized /\ Bad(v)
  <2> DEFINE w == Ended(v, IF v.hosted THEN 1 ELSE 0, "returned", v.remote.check, "self_check_failed")
  <2>1. Becomes(r, w)
    BY <1>1, <1>2, <1>5 DEF Returns, Succeeds, Unavailable, Ended, Fails, Finishing, Bad, Runs, RemoteObjects
  <2>2. w \in Runs /\ RunInv(w)
    BY <1>1, <1>2, <1>3, <1>5, EndsTrue DEF BodyPcs, Statuses, Ends, Bad
  <2> QED BY <1>2, <2>1, <2>2, OneRun
<1>6. CASE v.initialized /\ ~Bad(v)
  <2> DEFINE w == Ended(v, 0, "returned", v.final, "success")
  <2>1. Becomes(r, w)
    BY <1>1, <1>2, <1>6 DEF Returns, Succeeds, Unavailable, Ended, Fails, Finishing, Bad, Runs, RemoteObjects
  <2>2. w \in Runs /\ RunInv(w)
    BY <1>1, <1>2, <1>3, <1>6, EndsTrue DEF BodyPcs, Statuses, Ends, Bad
  <2> QED BY <1>2, <2>1, <2>2, OneRun
<1> QED BY <1>4, <1>5, <1>6

LEMMA ReturnsResultStep ==
    ASSUME IInv, NEW r \in Consoles, ReturnsResult(r)
    PROVE  IInv'
<1>1. PICK v \in Runs : v = run[r] /\ RunInv(v)
  BY RunOf
<1>2. v.pc = "body" /\ v.hosted /\ v.initialized /\ OnlyRuns
  BY <1>1 DEF ReturnsResult, At
<1>3. /\ v.final \in 0..Len(v.ops) /\ v.remote.check \in 0..Len(v.ops) /\ 0 \in 0..Len(v.ops)
      /\ v.remote.made => v.remote.check # 0 /\ (v.ops[v.remote.check] <=> v.remote.available)
      /\ v.pc # "raised" => v.final = 0
      /\ v.pc = "raised" => v.final # 0 /\ ~v.ops[v.final]
      /\ v.hosted \in BOOLEAN
  BY <1>1, <1>2 DEF RunInv, CheckInv, Runs
<1>0. PICK op \in DOMAIN v.ops :
          LET ending == [v EXCEPT !.final = op, !.end = "result"]
          IN  Becomes(r, IF ~v.ops[op] THEN Fails(ending, "operation_failed")
                         ELSE IF Unavailable(r)
                         THEN Fails([ending EXCEPT !.final = v.remote.check], "self_check_failed")
                         ELSE Finishing(ending, TRUE, "success", 0))
  BY <1>1 DEF ReturnsResult
<1>9. op \in 0..Len(v.ops) /\ op # 0
  BY <1>0 DEF Runs
<1>4. CASE ~v.ops[op]
  <2> DEFINE w == Ended(v, 1, "result", op, "operation_failed")
  <2>1. Becomes(r, w)
    BY <1>0, <1>1, <1>2, <1>4 DEF Unavailable, Ended, Fails, Finishing, Runs, RemoteObjects
  <2>2. w \in Runs /\ RunInv(w)
    BY <1>0, <1>1, <1>2, <1>3, <1>9, <1>4, EndsTrue DEF BodyPcs, Statuses, Ends, Bad
  <2> QED BY <1>2, <2>1, <2>2, OneRun
<1>5. CASE v.ops[op] /\ Bad(v)
  <2> DEFINE w == Ended(v, 1, "result", v.remote.check, "self_check_failed")
  <2>1. Becomes(r, w)
    BY <1>0, <1>1, <1>2, <1>5 DEF Unavailable, Ended, Fails, Finishing, Bad, Runs, RemoteObjects
  <2>2. w \in Runs /\ RunInv(w)
    BY <1>0, <1>1, <1>2, <1>3, <1>9, <1>5, EndsTrue DEF BodyPcs, Statuses, Ends, Bad
  <2> QED BY <1>2, <2>1, <2>2, OneRun
<1>6. CASE v.ops[op] /\ ~Bad(v)
  <2> DEFINE w == Ended(v, 0, "result", op, "success")
  <2>1. Becomes(r, w)
    BY <1>0, <1>1, <1>2, <1>6 DEF Unavailable, Ended, Fails, Finishing, Bad, Runs, RemoteObjects
  <2>2. w \in Runs /\ RunInv(w)
    BY <1>0, <1>1, <1>2, <1>3, <1>9, <1>6, EndsTrue DEF BodyPcs, Statuses, Ends, Bad
  <2> QED BY <1>2, <2>1, <2>2, OneRun
<1> QED BY <1>4, <1>5, <1>6

LEMMA RaisesOutStep ==
    ASSUME IInv, NEW r \in Consoles, RaisesOut(r)
    PROVE  IInv'
<1>1. PICK v \in Runs : v = run[r] /\ RunInv(v)
  BY RunOf
<1>2. v.pc \in {"body", "raised", "failed"} /\ OnlyRuns
  BY <1>1 DEF RaisesOut
<1>3. /\ v.final \in 0..Len(v.ops) /\ v.remote.check \in 0..Len(v.ops) /\ 0 \in 0..Len(v.ops)
      /\ v.remote.made => v.remote.check # 0 /\ (v.ops[v.remote.check] <=> v.remote.available)
      /\ v.pc # "raised" => v.final = 0
      /\ v.pc = "raised" => v.final # 0 /\ ~v.ops[v.final]
      /\ v.hosted \in BOOLEAN
  BY <1>1, <1>2 DEF RunInv, CheckInv, Runs
<1>4. CASE v.pc = "raised" /\ v.hosted
  <2> DEFINE w == Ended(v, 1, v.pc, v.final, "operation_failed")
  <2>1. Becomes(r, w)
    BY <1>1, <1>2, <1>4 DEF RaisesOut, At, Ended, Fails, Finishing, Runs, RemoteObjects
  <2>2. w \in Runs /\ RunInv(w)
    BY <1>1, <1>2, <1>3, <1>4, EndsTrue DEF BodyPcs, Statuses, Ends, Bad
  <2> QED BY <1>2, <2>1, <2>2, OneRun
<1>5. CASE ~(v.pc = "raised" /\ v.hosted)
  <2> DEFINE w == Ended(v, 1, v.pc, 0, "program_error")
  <2>1. Becomes(r, w)
    BY <1>1, <1>2, <1>5 DEF RaisesOut, At, Ended, Fails, Finishing, Runs, RemoteObjects
  <2>2. w \in Runs /\ RunInv(w)
    BY <1>1, <1>2, <1>3, <1>5, EndsTrue DEF BodyPcs, Statuses, Ends, Bad
  <2> QED BY <1>2, <2>1, <2>2, OneRun
<1> QED BY <1>4, <1>5

LEMMA WriteResultStep ==
    ASSUME IInv, NEW r \in Consoles, WriteResult(r)
    PROVE  IInv'
<1>1. PICK v \in Runs : v = run[r] /\ RunInv(v)
  BY RunOf
<1>2. v.pc = "result" /\ OnlyRuns
  BY <1>1 DEF WriteResult, At
<1>3. /\ TrueOf(v, v.outcome) /\ v.outcome \in Results /\ v.ops \in Seq(BOOLEAN) /\ Len(v.ops) \in Nat
      /\ v.ops # <<>> => Len(v.ops) # 0
      /\ v.initialized => v.bound # NoBinding
      /\ v.outcome.status # "none"
  BY <1>1, <1>2 DEF RunInv, EndInv, Runs
<1> DEFINE told == [v.outcome EXCEPT !.final = IF @ # 0 THEN @ ELSE Len(v.ops)]
           w == [v EXCEPT !.result = told, !.pc = IF v.initialized THEN "history.tmp" ELSE "close"]
<1>4. Becomes(r, w)
  BY <1>1 DEF WriteResult, FinalOperation, AfterResult
<1>5. told \in Results /\ w \in Runs
  BY <1>3 DEF Results, Runs, Pcs
<1>6. /\ told.success = v.outcome.success /\ told.status = v.outcome.status
      /\ v.outcome.final # 0 => told.final = v.outcome.final
      /\ told.final \in 0..Len(v.ops)
      /\ v.ops # <<>> => told.final # 0
      /\ told # NoResult
  BY <1>3 DEF Results, TrueOf, NoResult
<1>7. /\ w.pc = (IF v.initialized THEN "history.tmp" ELSE "close") /\ w.exit = v.exit /\ w.end = v.end
      /\ w.final = v.final /\ w.outcome = v.outcome /\ w.result = told
      /\ w.hosted = v.hosted /\ w.layout = v.layout /\ w.catalog = v.catalog /\ w.past = v.past
      /\ w.bound = v.bound /\ w.inherited = v.inherited /\ w.initialized = v.initialized
      /\ w.remote = v.remote /\ w.ops = v.ops
  BY DEF Runs
<1> HIDE DEF w, told
<1>8. BindingInv(w)
  BY <1>1, <1>2, <1>3, <1>7 DEF RunInv, BindingInv, Prepares, BodyPcs, Finishes
<1>9. CheckInv(w)
  BY <1>1, <1>2, <1>7 DEF RunInv, CheckInv, Prepares
<1>10. TrueOf(w, told)
  BY <1>3, <1>6, <1>7 DEF TrueOf, Bad
<1>11. EndInv(w) /\ OpenInv(w)
  BY <1>1, <1>2, <1>6, <1>7, <1>10 DEF RunInv, EndInv, OpenInv, Prepares, BodyPcs, Finishes, Written
<1> QED BY <1>2, <1>4, <1>5, <1>8, <1>9, <1>11, OneRun DEF RunInv

\* A run that goes on with the file of the history.
LEMMA FinishGoesOn ==
    ASSUME NEW v \in Runs, RunInv(v), v.pc \in Finishes, NEW pc \in Finishes
    PROVE  [v EXCEPT !.pc = pc] \in Runs /\ RunInv([v EXCEPT !.pc = pc])
<1> DEFINE w == [v EXCEPT !.pc = pc]
<1>1. w \in Runs
  BY DEF Runs, Pcs, Finishes
<1>2. BindingInv(w)
  BY DEF RunInv, BindingInv, Prepares, BodyPcs, Finishes, Runs, RemoteObjects
<1>3. CheckInv(w)
  BY DEF RunInv, CheckInv, Prepares, BodyPcs, Finishes, Runs, RemoteObjects
<1>4. EndInv(w) /\ OpenInv(w)
  BY DEF RunInv, EndInv, OpenInv, TrueOf, Bad, Prepares, BodyPcs, Finishes, Written, Runs, RemoteObjects
<1> QED BY <1>1, <1>2, <1>3, <1>4 DEF RunInv

LEMMA OpenPartialStep ==
    ASSUME IInv, NEW r \in Consoles, OpenPartial(r)
    PROVE  IInv'
<1>1. run[r] \in Runs /\ RunInv(run[r]) /\ run[r].pc \in Finishes
  BY RunOf DEF OpenPartial, At, Finishes
<1>2. Becomes(r, [run[r] EXCEPT !.pc = "history.write"]) /\ UNCHANGED <<catalog, layout>>
  BY DEF OpenPartial, Goes
<1>3. partial' \in Histories /\ history' \in Histories
  BY NothingTypes DEF OpenPartial, IInv, TypeInv
<1>4. "history.write" \in Finishes
  BY DEF Finishes
<1> QED BY <1>1, <1>2, <1>3, <1>4, FinishGoesOn, OneRunWrites

LEMMA BindingType ==
    ASSUME IInv, NEW r \in Consoles
    PROVE  Binding(r) \in Histories
BY RunOf DEF Binding, Histories, Runs, Bindings

LEMMA WritePartialStep ==
    ASSUME IInv, NEW r \in Consoles, WritePartial(r)
    PROVE  IInv'
<1>1. run[r] \in Runs /\ RunInv(run[r]) /\ run[r].pc \in Finishes
  BY RunOf DEF WritePartial, At, Finishes
<1>2. Becomes(r, [run[r] EXCEPT !.pc = "history.json"]) /\ UNCHANGED <<catalog, layout>>
  BY DEF WritePartial
<1>3. partial' \in Histories /\ history' \in Histories
  BY NothingTypes, BindingType DEF WritePartial, IInv, TypeInv
<1>4. "history.json" \in Finishes
  BY DEF Finishes
<1> QED BY <1>1, <1>2, <1>3, <1>4, FinishGoesOn, OneRunWrites

\* The file is moved under the runs that write to it.
LEMMA MovesStep ==
    ASSUME IInv, NEW runs \in [Consoles -> Runs], \A q \in Consoles : RunInv(runs[q]),
           MovesPartial(runs), UNCHANGED <<catalog, layout>>
    PROVE  IInv'
<1>1. history' \in Histories /\ partial' \in Histories
  BY NothingTypes DEF MovesPartial, IInv, TypeInv
<1>2. ASSUME NEW q \in Consoles
      PROVE  LET w == IF runs[q].pc = "history.write" THEN [runs[q] EXCEPT !.pc = "history.moved"] ELSE runs[q]
             IN  w \in Runs /\ RunInv(w)
  <2>1. CASE runs[q].pc = "history.write"
    <3>1. "history.write" \in Finishes /\ "history.moved" \in Finishes
      BY DEF Finishes
    <3> QED BY <2>1, <3>1, FinishGoesOn
  <2> QED BY <2>1
<1>3. run' \in [Consoles -> Runs] /\ \A q \in Consoles : RunInv(run'[q])
  BY <1>2 DEF MovesPartial
<1> QED BY <1>1, <1>3 DEF IInv, TypeInv

LEMMA ReplaceHistoryStep ==
    ASSUME IInv, NEW r \in Consoles, ReplaceHistory(r)
    PROVE  IInv'
<1>1. PICK v \in Runs : v = run[r] /\ RunInv(v)
  BY RunOf
<1>2. /\ v.pc = "history.json" /\ UNCHANGED <<catalog, layout>> /\ v.bound # NoBinding
  BY <1>1 DEF ReplaceHistory, At, RunInv, BindingInv, Finishes
<1>3. ASSUME NEW exit \in {1, v.exit}, NEW pc \in {"close", "over"}, pc = "over" => ~v.hosted /\ exit = 1
      PROVE  LET w == [v EXCEPT !.pc = pc, !.exit = exit] IN w \in Runs /\ RunInv(w)
  <2> DEFINE w == [v EXCEPT !.pc = pc, !.exit = exit]
  <2>1. w \in Runs
    BY DEF Runs, Pcs, Exits
  <2>2. /\ w.pc = pc /\ w.exit \in {1, v.exit} /\ w.end = v.end /\ w.result = v.result
        /\ w.hosted = v.hosted /\ w.bound = v.bound /\ w.initialized = v.initialized
        /\ w.remote = v.remote /\ w.ops = v.ops /\ w.exit = exit
        /\ w.layout = v.layout /\ w.catalog = v.catalog /\ w.past = v.past
        /\ w.inherited = v.inherited /\ w.final = v.final
    BY DEF Runs
  <2> HIDE DEF w
  <2>3. BindingInv(w)
    BY <1>1, <1>2, <2>2 DEF RunInv, BindingInv, Prepares, BodyPcs, Finishes
  <2>4. CheckInv(w)
    BY <1>1, <1>2, <2>2 DEF RunInv, CheckInv, Prepares
  <2>5. v.result # NoResult => TrueOf(w, v.result) /\ (v.ops # <<>> => v.result.final # 0)
    BY <1>1, <1>2, <2>2 DEF RunInv, EndInv, TrueOf, Bad, Written, Finishes
  <2>6. EndInv(w)
    BY <2>2, <2>5 DEF EndInv, Prepares, BodyPcs, Finishes, Written
  <2>7. OpenInv(w)
    BY <1>1, <1>2, <1>3, <2>2 DEF RunInv, OpenInv, Prepares, BodyPcs
  <2> QED BY <2>1, <2>3, <2>4, <2>6, <2>7 DEF RunInv, w
<1>4. CASE partial # NoHistory
  <2> DEFINE w == [v EXCEPT !.pc = "close"]
             runs == [run EXCEPT ![r].pc = "close"]
  <2>1. w = [v EXCEPT !.pc = "close", !.exit = v.exit]
    BY DEF Runs
  <2>2. w \in Runs /\ RunInv(w)
    BY <1>3, <2>1
  <2>3. runs = [run EXCEPT ![r] = w]
    BY <1>1
  <2> HIDE DEF w
  <2>4. runs \in [Consoles -> Runs] /\ \A q \in Consoles : RunInv(runs[q])
    BY <2>2, <2>3 DEF IInv, TypeInv
  <2>5. MovesPartial(runs)
    BY <1>4 DEF ReplaceHistory
  <2> HIDE DEF runs
  <2> QED BY <1>2, <2>4, <2>5, MovesStep
<1>5. CASE partial = NoHistory
  <2> DEFINE pc == IF v.hosted THEN "close" ELSE "over"
             w == [v EXCEPT !.pc = pc, !.exit = 1]
  <2>1. Becomes(r, w) /\ UNCHANGED <<history, partial>>
    <3>1. Becomes(r, [v EXCEPT !.exit = 1, !.pc = pc]) /\ UNCHANGED <<history, partial>>
      BY <1>1, <1>5 DEF ReplaceHistory
    <3>2. [v EXCEPT !.exit = 1, !.pc = pc] = w
      BY DEF Runs
    <3> QED BY <3>1, <3>2
  <2>2. w \in Runs /\ RunInv(w)
    BY <1>3
  <2> HIDE DEF w
  <2>3. history' \in Histories /\ partial' \in Histories
    BY <2>1 DEF IInv, TypeInv
  <2> QED BY <1>2, <2>1, <2>2, <2>3, OneRunWrites
<1> QED BY <1>4, <1>5

LEMMA CloseStep ==
    ASSUME IInv, NEW r \in Consoles, Close(r)
    PROVE  IInv'
<1>1. PICK v \in Runs : v = run[r] /\ RunInv(v)
  BY RunOf
<1> DEFINE w == [v EXCEPT !.pc = "over", !.remote = Closed(v.remote)]
<1>2. v.pc = "close" /\ Becomes(r, w) /\ OnlyRuns
  BY <1>1 DEF Close, At
<1>3. w \in Runs
  BY <1>1, ClosedIs DEF Runs, Pcs, RunInv
<1>4. RunInv(w)
  <2>1. /\ w.pc = "over" /\ w.exit = v.exit /\ w.end = v.end /\ w.final = v.final /\ w.result = v.result
        /\ w.hosted = v.hosted /\ w.layout = v.layout /\ w.catalog = v.catalog /\ w.past = v.past
        /\ w.bound = v.bound /\ w.inherited = v.inherited /\ w.initialized = v.initialized
        /\ w.ops = v.ops /\ w.remote.made = v.remote.made /\ w.remote.used = v.remote.used
        /\ w.remote.available = v.remote.available /\ w.remote.check = v.remote.check
        /\ ~w.remote.connected
    BY <1>1, ClosedIs DEF Runs, RunInv
  <2> HIDE DEF w
  <2>2. BindingInv(w)
    BY <1>1, <1>2, <2>1 DEF RunInv, BindingInv, Prepares, BodyPcs, Finishes
  <2>3. CheckInv(w)
    BY <1>1, <1>2, <2>1 DEF RunInv, CheckInv, Prepares
  <2>4. EndInv(w) /\ OpenInv(w)
    BY <1>1, <1>2, <2>1 DEF RunInv, EndInv, OpenInv, TrueOf, Bad, Prepares, BodyPcs, Finishes, Written
  <2> QED BY <2>2, <2>3, <2>4 DEF RunInv
<1> QED BY <1>2, <1>3, <1>4, OneRun

-----------------------------------------------------------------------------
(* The invariant *)

LEMMA AroundStep ==
    ASSUME IInv, (\E n \in Names : SaveConnection(n)) \/ EditScript \/ AnotherRunEnds
    PROVE  IInv'
<1>1. CASE \E n \in Names : SaveConnection(n)
  BY <1>1, SessionAssumption DEF SaveConnection, Revisions, IInv, TypeInv
<1>2. CASE EditScript
  BY <1>2, SessionAssumption DEF EditScript, IInv, TypeInv
<1>3. CASE AnotherRunEnds
  <2>1. run \in [Consoles -> Runs] /\ \A q \in Consoles : RunInv(run[q])
    BY DEF IInv, TypeInv
  <2> QED BY <1>3, <2>1, MovesStep DEF AnotherRunEnds
<1> QED BY <1>1, <1>2, <1>3

LEMMA InitInv == Init => IInv
<1> SUFFICES ASSUME Init PROVE IInv
  OBVIOUS
<1>1. NewRun \in Runs
  BY NothingTypes DEF NewRun, Runs, Pcs, Ends, Exits
<1>2. RunInv(NewRun)
  <2>1. /\ NewRun.pc = "new" /\ NewRun.ops = <<>> /\ Len(NewRun.ops) = 0 /\ NewRun.final = 0
        /\ NewRun.remote = NoRemote /\ NewRun.bound = NoBinding /\ NewRun.result = NoResult
        /\ NewRun.end = "none" /\ ~NewRun.inherited /\ ~NewRun.initialized
    BY DEF NewRun
  <2> QED BY <2>1 DEF RunInv, BindingInv, CheckInv, EndInv, OpenInv, Prepares, BodyPcs, Finishes, Written, NoRemote
<1>3. layout \in DOMAIN Layouts
  BY SessionAssumption DEF Init
<1> QED BY <1>1, <1>2, <1>3, NothingTypes DEF Init, IInv, TypeInv

LEMMA StepInv == IInv /\ [Next]_vars => IInv'
<1> SUFFICES ASSUME IInv, [Next]_vars PROVE IInv'
  OBVIOUS
<1>1. CASE UNCHANGED vars
  BY <1>1 DEF vars, IInv, TypeInv
<1>2. ASSUME NEW r \in Consoles,
             \/ Start(r) \/ ReadCatalog(r) \/ ReadHistory(r) \/ Bind(r)
             \/ InitScript(r) \/ GetRemote(r) \/ SelfCheck(r) \/ Retry(r) \/ Operate(r)
             \/ CloseRemote(r) \/ Catch(r)
             \/ Returns(r) \/ ReturnsResult(r) \/ RaisesOut(r)
             \/ WriteResult(r) \/ OpenPartial(r) \/ WritePartial(r) \/ ReplaceHistory(r) \/ Close(r)
      PROVE  IInv'
  BY <1>2, StartStep, ReadCatalogStep, ReadHistoryStep, BindStep, InitScriptStep, GetRemoteStep,
     SelfCheckStep, RetryStep, OperateStep, CloseRemoteStep, CatchStep, ReturnsStep,
     ReturnsResultStep, RaisesOutStep, WriteResultStep, OpenPartialStep, WritePartialStep,
     ReplaceHistoryStep, CloseStep
<1> QED BY <1>1, <1>2, AroundStep DEF Next

\* The runs keep to the invariant that the properties follow from.
THEOREM SessionInvariant == Spec => []IInv
BY InitInv, StepInv, PTL DEF Spec

\* A script connects with the configuration its run was prepared with, and a
\* connection taken from the history is the one an earlier run used under the
\* same declarations, whatever is saved and edited in the meantime.
THEOREM InheritedTheorem == Spec => []InheritedIsSame
<1>1. IInv => InheritedIsSame
  <2> SUFFICES ASSUME IInv, NEW r \in Consoles
               PROVE  /\ run[r].remote.made => run[r].remote.used = run[r].bound.revision
                      /\ run[r].inherited =>
                            /\ run[r].past = [layout |-> run[r].layout, name |-> run[r].bound.name,
                                              revision |-> run[r].bound.revision]
                            /\ run[r].remote.made => run[r].remote.used = run[r].past.revision
    BY DEF InheritedIsSame
  <2>1. PICK v \in Runs : v = run[r] /\ RunInv(v)
    BY RunOf
  <2> QED BY <2>1 DEF RunInv, BindingInv
<1> QED BY <1>1, SessionInvariant, PTL

\* The result file of a run says what happened, and the exit status of the
\* command line agrees with it.
THEOREM ResultTheorem == Spec => []ResultIsTrue
<1>1. IInv => ResultIsTrue
  <2> SUFFICES ASSUME IInv, NEW r \in Consoles, Over(r), run[r].result # NoResult
               PROVE  LET result == run[r].result
                      IN  /\ result.success => run[r].initialized /\ ~Unavailable(r)
                          /\ result.status = "self_check_failed" =>
                                result.final = run[r].remote.check /\ ~run[r].ops[result.final]
                          /\ result.status = "operation_failed" =>
                                result.final # 0 /\ ~run[r].ops[result.final]
                          /\ run[r].ops # <<>> => result.final \in DOMAIN run[r].ops
                          /\ run[r].end = "result" /\ result.success => run[r].ops[result.final]
                          /\ run[r].hosted =>
                                /\ run[r].exit = 0 => result.success
                                /\ run[r].exit = 2 <=> run[r].bound = NoBinding
    BY DEF ResultIsTrue
  <2>1. PICK v \in Runs : v = run[r] /\ RunInv(v)
    BY RunOf
  <2>2. v.pc = "over" /\ v.result # NoResult
    BY <2>1 DEF Over, At
  <2>3. TrueOf(v, v.result) /\ (v.ops # <<>> => v.result.final # 0)
    BY <2>1, <2>2 DEF RunInv, EndInv, Written
  <2>4. v.ops # <<>> => v.result.final \in DOMAIN v.ops
    <3>1. v.ops \in Seq(BOOLEAN) /\ v.result.final \in 0..Len(v.ops)
      BY <2>3 DEF Runs, TrueOf
    <3> QED BY <2>3, <3>1
  <2> QED BY <2>1, <2>3, <2>4 DEF TrueOf, Bad, Unavailable
<1> QED BY <1>1, SessionInvariant, PTL

\* What was closed with the block of init_script stays closed, and a run that is over
\* has left nothing connected, unless it is a script without the command line that
\* could not write its history.
THEOREM ClosedTheorem == Spec => []NothingLeftOpen
<1>1. IInv => NothingLeftOpen
  BY DEF IInv, RunInv, OpenInv, NothingLeftOpen, Over, At
<1> QED BY <1>1, SessionInvariant, PTL

-----------------------------------------------------------------------------
(* The history *)

\* A step of a run that is not about to move the .tmp, and leaves it alone.
Alone(r) == run[r].pc # "history.json" /\ OnlyRuns /\ \E w : Becomes(r, w)

LEMMA AloneSteps ==
    ASSUME NEW r \in Consoles,
           \/ Start(r) \/ ReadCatalog(r) \/ ReadHistory(r) \/ Bind(r)
           \/ InitScript(r) \/ GetRemote(r) \/ SelfCheck(r) \/ Retry(r) \/ Operate(r)
           \/ CloseRemote(r) \/ Catch(r)
           \/ Returns(r) \/ ReturnsResult(r) \/ RaisesOut(r) \/ WriteResult(r) \/ Close(r)
    PROVE  Alone(r)
<1>1. CASE Start(r)
  BY <1>1 DEF Start, At, Alone
<1>2. CASE ReadCatalog(r)
  BY <1>2 DEF ReadCatalog, PreparationFails, At, Alone
<1>3. CASE ReadHistory(r)
  BY <1>3 DEF ReadHistory, PreparationFails, At, Alone
<1>4. CASE Bind(r)
  BY <1>4 DEF Bind, PreparationFails, At, Alone
<1>5. CASE InitScript(r)
  BY <1>5 DEF InitScript, At, Alone
<1>6. CASE GetRemote(r)
  BY <1>6 DEF GetRemote, At, Alone
<1>7. CASE SelfCheck(r)
  BY <1>7 DEF SelfCheck, At, Alone
<1>8. CASE Retry(r)
  BY <1>8 DEF Retry, At, Alone
<1>9. CASE Operate(r)
  BY <1>9 DEF Operate, Goes, At, Alone
<1>10. CASE CloseRemote(r)
  BY <1>10 DEF CloseRemote, At, Alone
<1>11. CASE Catch(r)
  BY <1>11 DEF Catch, At, Alone
<1>12. CASE Returns(r)
  BY <1>12 DEF Returns, At, Alone
<1>13. CASE ReturnsResult(r)
  BY <1>13 DEF ReturnsResult, At, Alone
<1>14. CASE RaisesOut(r)
  BY <1>14 DEF RaisesOut, At, Alone
<1>15. CASE WriteResult(r)
  BY <1>15 DEF WriteResult, At, Alone
<1>16. CASE Close(r)
  BY <1>16 DEF Close, At, Alone
<1> QED BY <1>1, <1>2, <1>3, <1>4, <1>5, <1>6, <1>7, <1>8, <1>9, <1>10, <1>11, <1>12, <1>13, <1>14, <1>15, <1>16

LEMMA PartialStep == IInv /\ PartialInv /\ [Next]_vars => PartialInv'
<1> SUFFICES ASSUME IInv, PartialInv, [Next]_vars PROVE PartialInv'
  OBVIOUS
<1>0. run \in [Consoles -> Runs]
  BY DEF IInv, TypeInv
<1>1. CASE UNCHANGED run /\ UNCHANGED partial
  BY <1>1 DEF PartialInv, At, Binding
<1>2. ASSUME NEW r \in Consoles, Alone(r)
      PROVE  PartialInv'
  <2>1. PICK w : Becomes(r, w)
    BY <1>2 DEF Alone
  <2>2. \A q \in Consoles : q # r => run'[q] = run[q]
    BY <1>0, <2>1 DEF Becomes
  <2>3. UNCHANGED partial /\ run[r].pc # "history.json"
    BY <1>2 DEF Alone, OnlyRuns
  <2> QED BY <2>2, <2>3 DEF PartialInv, At, Binding
<1>3. ASSUME NEW runs, MovesPartial(runs)
      PROVE  PartialInv'
  BY <1>3 DEF MovesPartial, PartialInv
<1>4. ASSUME NEW r \in Consoles, OpenPartial(r)
      PROVE  PartialInv'
  BY <1>4 DEF OpenPartial, PartialInv
<1>5. ASSUME NEW r \in Consoles, WritePartial(r)
      PROVE  PartialInv'
  <2>1. /\ run[r].pc # "history.json" /\ run'[r] = [run[r] EXCEPT !.pc = "history.json"]
        /\ \A q \in Consoles : q # r => run'[q] = run[q]
    BY <1>0, <1>5 DEF WritePartial, Becomes, At
  <2>2. /\ run'[r].pc = "history.json" /\ run'[r].layout = run[r].layout /\ run'[r].bound = run[r].bound
    BY <1>0, <2>1 DEF Runs
  <2>3. CASE UNCHANGED partial
    BY <2>1, <2>3 DEF PartialInv, At, Binding
  <2>4. CASE partial' \in {Binding(r), Unreadable}
    BY <2>2, <2>4 DEF PartialInv, At, Binding
  <2> QED BY <1>5, <2>3, <2>4 DEF WritePartial
<1>6. ASSUME NEW r \in Consoles, ReplaceHistory(r)
      PROVE  PartialInv'
  <2>1. CASE partial # NoHistory
    BY <1>3, <1>6, <2>1 DEF ReplaceHistory
  <2>2. CASE partial = NoHistory
    BY <1>6, <2>2 DEF ReplaceHistory, PartialInv
  <2> QED BY <2>1, <2>2
<1>7. CASE (\E n \in Names : SaveConnection(n)) \/ EditScript
  BY <1>1, <1>7 DEF SaveConnection, EditScript
<1>8. CASE AnotherRunEnds
  BY <1>3, <1>8 DEF AnotherRunEnds
<1>9. CASE UNCHANGED vars
  BY <1>1, <1>9 DEF vars
<1> QED BY <1>2, <1>4, <1>5, <1>6, <1>7, <1>8, <1>9, AloneSteps DEF Next

\* A run at the file of the history was initialized and has written its result.
LEMMA FinishesIsOver ==
    ASSUME IInv, NEW r \in Consoles, run[r].pc \in Finishes
    PROVE  run[r].initialized /\ run[r].result # NoResult
BY RunOf DEF RunInv, EndInv

\* What the next run reads is the binding of a run that was initialized and whose
\* result.json is written, or cannot be read at all, however the runs that share
\* the .tmp get in each other's way.
THEOREM HistoryTheorem == Spec => HistoryIsOfARun
<1> DEFINE Told == history' \notin {history, Unreadable} =>
                      \E r \in Consoles :
                          run[r].initialized /\ run[r].result # NoResult /\ history' = Binding(r)
<1>1. Init => PartialInv
  BY DEF Init, PartialInv
<1>2. IInv /\ PartialInv /\ [Next]_vars => [Told]_vars
  <2> SUFFICES ASSUME IInv, PartialInv, [Next]_vars PROVE Told
    OBVIOUS
  <2>1. ASSUME NEW runs, MovesPartial(runs), partial # NoHistory
        PROVE  Told
    <3>1. history' = partial
      BY <2>1 DEF MovesPartial
    <3>2. CASE partial = Unreadable
      BY <3>1, <3>2
    <3>3. ASSUME NEW r \in Consoles, At(r, "history.json"), partial = Binding(r)
          PROVE  Told
      BY <3>1, <3>3, FinishesIsOver DEF At, Finishes
    <3> QED BY <2>1, <3>2, <3>3 DEF PartialInv
  <2>2. ASSUME NEW r \in Consoles, WritePartial(r)
        PROVE  Told
    <3>1. CASE UNCHANGED history
      BY <3>1
    <3>2. CASE At(r, "history.moved") /\ history' \in {Binding(r), Unreadable, history}
      BY <3>2, FinishesIsOver DEF At, Finishes
    <3> QED BY <2>2, <3>1, <3>2 DEF WritePartial
  <2>3. ASSUME NEW r \in Consoles, ReplaceHistory(r)
        PROVE  Told
    <3>1. CASE partial # NoHistory
      BY <2>1, <2>3, <3>1 DEF ReplaceHistory
    <3>2. CASE partial = NoHistory
      BY <2>3, <3>2 DEF ReplaceHistory
    <3> QED BY <3>1, <3>2
  <2>4. ASSUME NEW r \in Consoles, Alone(r) \/ OpenPartial(r)
        PROVE  Told
    BY <2>4 DEF Alone, OnlyRuns, OpenPartial
  <2>5. CASE (\E n \in Names : SaveConnection(n)) \/ EditScript \/ UNCHANGED vars
    BY <2>5 DEF SaveConnection, EditScript, vars
  <2>6. CASE AnotherRunEnds
    BY <2>1, <2>6 DEF AnotherRunEnds
  <2> QED BY <2>2, <2>3, <2>4, <2>5, <2>6, AloneSteps DEF Next
<1>3. Spec => [](IInv /\ PartialInv)
  BY <1>1, SessionInvariant, PartialStep, PTL DEF Spec
<1>4. Spec => [][Told]_vars
  BY <1>2, <1>3, PTL DEF Spec
<1> QED BY <1>4 DEF HistoryIsOfARun

-----------------------------------------------------------------------------
(* Registered scripts.                                                      *)

ParamSets == [Fields -> Nat]
Lasts == ParamSets \cup {NoLast}
Frames == [id : Nat, script : Scripts, mode : Modes, pc : {"body", "menu", "closed"},
           old : Lasts, params : ParamSets, operated : BOOLEAN,
           returned : {"none", "success", "failed", "program_error"}]
Outcomes == [script : Scripts, kept : Lasts]

RunsTyped ==
    /\ stack \in Seq(Frames) /\ last \in [Scripts -> Lasts] /\ ended \in Seq(Outcomes)

\* The parameters of a run that is over are the last run's, unless it failed
\* before it had done anything.
Committed(v) == v.pc = "closed" /\ (v.returned # "program_error" \/ v.operated)

\* Until then what it has read of the last run is what is kept of it.
FrameFits(v) ==
    /\ last[v.script] = IF Committed(v) THEN v.params ELSE v.old
    /\ v.mode = "rerun" => \A f \in Fields : v.params[f] # 0 => v.params[f] = v.old[f]

StackFits ==
    /\ \A i \in 1..Len(stack) : FrameFits(stack[i])
    /\ \A i, j \in 1..Len(stack) : i # j => stack[i].script # stack[j].script
    /\ \A i \in 1..Len(stack) : i < Len(stack) => stack[i].pc # "closed"

Latest(s) ==
    IF KeptRuns(s) = {} THEN last[s] = NoLast
    ELSE \E i \in KeptRuns(s) : last[s] = ended[i].kept /\ \A j \in KeptRuns(s) : j <= i

LastFits ==
    \A s \in Scripts : \/ Latest(s)
                       \/ \E i \in 1..Len(stack) : stack[i].script = s /\ Committed(stack[i])

RunsInv == RunsTyped /\ StackFits /\ LastFits

LEMMA NothingKept == NoLast \notin ParamSets /\ Unset \in ParamSets /\ NoLast \in Lasts
<1>1. "host" \in Fields
  BY DEF Fields
<1>2. NoLast["host"] = -1
  BY <1>1 DEF NoLast
<1>3. ASSUME NoLast \in ParamSets PROVE FALSE
  <2>1. NoLast["host"] \in Nat
    BY <1>1, <1>3 DEF ParamSets
  <2> QED  BY <1>2, <2>1
<1> QED  BY <1>3 DEF Unset, ParamSets, Lasts

LEMMA RunsInitInv == RunsInit => RunsInv
<1> SUFFICES ASSUME RunsInit PROVE RunsInv
  OBVIOUS
<1>1. stack = <<>> /\ ended = <<>> /\ last = [s \in Scripts |-> NoLast]
  BY DEF RunsInit
<1>2. Len(<<>>) = 0 /\ 1..0 = {}
  OBVIOUS
<1>3. RunsTyped
  BY <1>1, NothingKept DEF RunsTyped
<1>4. StackFits
  BY <1>1, <1>2 DEF StackFits
<1>5. ASSUME NEW s \in Scripts PROVE Latest(s)
  BY <1>1, <1>2 DEF Latest, KeptRuns
<1> QED  BY <1>3, <1>4, <1>5 DEF RunsInv, LastFits

\* The run on top, and what becomes of it.
LEMMA TopIs ==
  ASSUME RunsTyped, stack # <<>>
  PROVE  /\ Len(stack) \in Nat \ {0} /\ Len(stack) \in 1..Len(stack)
         /\ Top \in Frames /\ Top = stack[Len(stack)] /\ Len(ended) \in Nat /\ Started \in Nat
<1>1. Len(stack) \in Nat \ {0} /\ Len(ended) \in Nat
  BY LenProperties, EmptySeq DEF RunsTyped
<1> QED  BY <1>1 DEF RunsTyped, Top, Started

LEMMA TopChanges ==
  ASSUME RunsTyped, stack # <<>>, NEW v \in Frames, Changes(v)
  PROVE  /\ stack' \in Seq(Frames) /\ Len(stack') = Len(stack)
         /\ \A i \in 1..Len(stack) : stack'[i] = IF i = Len(stack) THEN v ELSE stack[i]
<1>1. stack' = [stack EXCEPT ![Len(stack)] = v] /\ Len(stack) \in 1..Len(stack) /\ stack \in Seq(Frames)
  BY TopIs DEF Changes, RunsTyped
<1> QED  BY <1>1, ExceptSeq

LEMMA BodyStep ==
  ASSUME RunsInv, InBody, NEW v \in Frames, Changes(v), UNCHANGED <<last, ended>>,
         v.script = Top.script, v.old = Top.old, v.mode = Top.mode, v.pc # "closed",
         v.mode = "rerun" => \A f \in Fields : v.params[f] # 0 => v.params[f] = v.old[f]
  PROVE  RunsInv'
<1>1. /\ Len(stack) \in Nat \ {0} /\ Len(stack) \in 1..Len(stack) /\ Top = stack[Len(stack)] /\ Top \in Frames
      /\ RunsTyped /\ stack # <<>> /\ Started \in Nat /\ Top.pc # "closed"
  BY TopIs DEF RunsInv, InBody
<1>2. /\ stack' \in Seq(Frames) /\ Len(stack') = Len(stack) /\ Started' = Started
      /\ \A i \in 1..Len(stack) : stack'[i] = IF i = Len(stack) THEN v ELSE stack[i]
  BY <1>1, TopChanges DEF Started
<1>3. RunsTyped'
  BY <1>1, <1>2 DEF RunsTyped
<1>4. FrameFits(Top)
  BY <1>1 DEF RunsInv, StackFits, FrameFits
<1>5. \A i \in 1..Len(stack) : /\ stack'[i].script = stack[i].script
                               /\ Committed(stack'[i]) <=> Committed(stack[i])
  BY <1>1, <1>2 DEF Committed
<1>6. ASSUME NEW i \in 1..Len(stack), NEW u, u = stack'[i] PROVE FrameFits(u)'
  <2>1. CASE i = Len(stack)
    <3>1. u = v /\ last' = last
      BY <1>2, <1>6, <2>1
    <3>2. last[v.script] = v.old
      BY <1>1, <1>4 DEF FrameFits, Committed
    <3> QED  BY <1>2, <1>4, <3>1, <3>2 DEF FrameFits, Committed
  <2>2. CASE i # Len(stack)
    <3>1. u = stack[i] /\ FrameFits(u)
      BY <1>1, <1>2, <1>6, <2>2 DEF RunsInv, StackFits
    <3> QED  BY <1>2, <3>1 DEF FrameFits, Committed
  <2> QED  BY <2>1, <2>2
<1>7. StackFits'
  <2>1. \A i, j \in 1..Len(stack) : i # j => stack'[i].script # stack'[j].script
    BY <1>5 DEF RunsInv, StackFits
  <2>2. \A i \in 1..Len(stack) : i < Len(stack) => stack'[i].pc # "closed"
    BY <1>1, <1>2 DEF RunsInv, StackFits
  <2>3. \A i \in 1..Len(stack) : FrameFits(stack[i])'
    BY <1>6
  <2> QED  BY <1>2, <2>1, <2>2, <2>3 DEF StackFits
<1>8. LastFits'
  <2>1. \A s : Latest(s)' <=> Latest(s)
    BY DEF Latest, KeptRuns
  <2> QED  BY <1>2, <1>5, <2>1 DEF RunsInv, LastFits
<1> QED  BY <1>3, <1>7, <1>8 DEF RunsInv

LEMMA ValuesFitting ==
  ASSUME RunsInv, InBody, NEW f \in Fields, NEW w \in ValuesFor(f)
  PROVE  w \in Nat \ {0} /\ (Top.mode = "rerun" => w = Top.old[f])
BY RunsAssumption DEF ValuesFor, Offered

LEMMA RegisterHostStep == ASSUME RunsInv, RegisterHost PROVE RunsInv'
<1>1. PICK w \in ValuesFor("host") : Changes([Top EXCEPT !.params["host"] = w])
  BY DEF RegisterHost
<1>2. Top \in Frames /\ InBody /\ RunsTyped /\ FrameFits(Top) /\ "host" \in Fields
  BY TopIs DEF RegisterHost, InBody, RunsInv, StackFits, Fields
<1>3. w \in Nat \ {0} /\ (Top.mode = "rerun" => w = Top.old["host"])
  BY <1>1, <1>2, ValuesFitting
<1> DEFINE v == [Top EXCEPT !.params["host"] = w]
<1>4. /\ v \in Frames /\ v.script = Top.script /\ v.old = Top.old
      /\ v.mode = Top.mode /\ v.pc = Top.pc
      /\ v.params["host"] = w /\ v.params["package"] = Top.params["package"]
  <2>1. [Top.params EXCEPT !["host"] = w] \in ParamSets
    BY <1>2, <1>3 DEF Frames, ParamSets
  <2>2. v = [Top EXCEPT !.params = [Top.params EXCEPT !["host"] = w]]
    BY <1>2 DEF Frames
  <2> QED  BY <1>2, <2>1, <2>2 DEF Frames, ParamSets, Fields
<1> HIDE DEF v
<1>5. v.mode = "rerun" => \A f \in Fields : v.params[f] # 0 => v.params[f] = v.old[f]
  BY <1>2, <1>3, <1>4 DEF FrameFits, Fields
<1>6. UNCHANGED <<last, ended>> /\ Top.pc # "closed"
  BY <1>2 DEF RegisterHost, InBody
<1>7. Changes(v)
  BY <1>1 DEF v
<1> QED  BY <1>2, <1>4, <1>5, <1>6, <1>7, BodyStep

LEMMA DownloadPackageStep == ASSUME RunsInv, DownloadPackage PROVE RunsInv'
<1>1. PICK w \in ValuesFor("package"), ok \in BOOLEAN :
        Changes([Top EXCEPT !.params["package"] = w, !.operated = TRUE,
                            !.returned = IF ok THEN "success" ELSE "failed"])
  BY DEF DownloadPackage
<1>2. /\ Top \in Frames /\ InBody /\ RunsTyped /\ FrameFits(Top) /\ "package" \in Fields
      /\ Top.params["package"] = 0
  BY TopIs DEF DownloadPackage, InBody, RunsInv, StackFits, Fields
<1>3. w \in Nat \ {0} /\ (Top.mode = "rerun" => w = Top.old["package"])
  BY <1>1, <1>2, ValuesFitting
<1> DEFINE v == [Top EXCEPT !.params["package"] = w, !.operated = TRUE,
                            !.returned = IF ok THEN "success" ELSE "failed"]
<1>4. /\ v \in Frames /\ v.script = Top.script /\ v.old = Top.old
      /\ v.mode = Top.mode /\ v.pc = Top.pc
      /\ v.params["package"] = w /\ v.params["host"] = Top.params["host"]
  <2>1. [Top.params EXCEPT !["package"] = w] \in ParamSets
    BY <1>2, <1>3 DEF Frames, ParamSets
  <2>2. v = [Top EXCEPT !.params = [Top.params EXCEPT !["package"] = w], !.operated = TRUE,
                        !.returned = IF ok THEN "success" ELSE "failed"]
    BY <1>2 DEF Frames
  <2> QED  BY <1>2, <2>1, <2>2 DEF Frames, ParamSets, Fields
<1>5. Changes(v)
  BY <1>1
<1> HIDE DEF v
<1>6. v.mode = "rerun" => \A f \in Fields : v.params[f] # 0 => v.params[f] = v.old[f]
  BY <1>2, <1>3, <1>4 DEF FrameFits, Fields
<1>7. UNCHANGED <<last, ended>> /\ Top.pc # "closed"
  BY <1>2 DEF DownloadPackage, InBody
<1> QED  BY <1>2, <1>4, <1>5, <1>6, <1>7, BodyStep

LEMMA HostOperatesStep == ASSUME RunsInv, HostOperates PROVE RunsInv'
<1>1. PICK ok \in BOOLEAN :
        Changes([Top EXCEPT !.operated = TRUE, !.returned = IF ok THEN "success" ELSE "failed"])
  BY DEF HostOperates
<1>2. Top \in Frames /\ InBody /\ FrameFits(Top) /\ UNCHANGED <<last, ended>> /\ Top.pc # "closed"
  BY TopIs DEF HostOperates, InBody, RunsInv, StackFits
<1> DEFINE v == [Top EXCEPT !.operated = TRUE, !.returned = IF ok THEN "success" ELSE "failed"]
<1>3. /\ v \in Frames /\ v.script = Top.script /\ v.old = Top.old
      /\ v.mode = Top.mode /\ v.pc = Top.pc /\ v.params = Top.params
  BY <1>2 DEF Frames
<1>4. Changes(v)
  BY <1>1
<1> HIDE DEF v
<1> QED  BY <1>2, <1>3, <1>4, BodyStep DEF FrameFits

\* A run that ends: what it has collected becomes its script's last run.
LEMMA EndingStep ==
  ASSUME RunsInv, InBody, NEW status \in {"success", "failed", "program_error"}, Ending(status)
  PROVE  RunsInv'
<1>1. /\ Len(stack) \in Nat \ {0} /\ Len(stack) \in 1..Len(stack) /\ Top = stack[Len(stack)] /\ Top \in Frames
      /\ RunsTyped /\ stack # <<>> /\ Started \in Nat /\ Top.pc # "closed" /\ FrameFits(Top)
  BY TopIs DEF RunsInv, InBody, StackFits
<1> DEFINE v == [Top EXCEPT !.pc = "closed", !.returned = status]
<1>2. /\ v \in Frames /\ v.script = Top.script /\ v.old = Top.old /\ v.params = Top.params
      /\ v.mode = Top.mode /\ v.pc = "closed" /\ v.operated = Top.operated
      /\ v.returned = status
  BY <1>1 DEF Frames
<1>3. Changes(v) /\ UNCHANGED ended
  BY DEF Ending
<1> HIDE DEF v
<1>4. /\ stack' \in Seq(Frames) /\ Len(stack') = Len(stack) /\ Started' = Started
      /\ \A i \in 1..Len(stack) : stack'[i] = IF i = Len(stack) THEN v ELSE stack[i]
  BY <1>1, <1>2, <1>3, TopChanges DEF Started
<1>5. Commits(status) <=> Committed(v)
  BY <1>2 DEF Commits, Committed
<1>6. Top.script \in Scripts /\ Top.params \in Lasts
  BY <1>1 DEF Frames, Lasts
<1>7. /\ last' \in [Scripts -> Lasts]
      /\ last'[Top.script] = IF Committed(v) THEN Top.params ELSE last[Top.script]
      /\ \A s \in Scripts : s # Top.script => last'[s] = last[s]
  <2>1. last \in [Scripts -> Lasts]
    BY <1>1 DEF RunsTyped
  <2>2. CASE Commits(status)
    <3>1. last' = [last EXCEPT ![Top.script] = Top.params]
      BY <2>2 DEF Ending
    <3> QED  BY <1>5, <1>6, <2>1, <2>2, <3>1
  <2>3. CASE ~Commits(status)
    <3>1. last' = last
      BY <2>3 DEF Ending
    <3> QED  BY <1>5, <1>6, <2>1, <2>3, <3>1
  <2> QED  BY <2>2, <2>3
<1>8. RunsTyped'
  BY <1>1, <1>3, <1>4, <1>7 DEF RunsTyped
<1>9. last[Top.script] = Top.old
  BY <1>1 DEF FrameFits, Committed
<1>10. ASSUME NEW i \in 1..Len(stack), NEW u, u = stack'[i] PROVE FrameFits(u)'
  <2>1. CASE i = Len(stack)
    <3>1. u = v
      BY <1>4, <1>10, <2>1
    <3>2. last'[v.script] = IF Committed(v) THEN v.params ELSE v.old
      BY <1>2, <1>7, <1>9
    <3> QED  BY <1>1, <1>2, <1>4, <3>1, <3>2 DEF FrameFits, Committed
  <2>2. CASE i # Len(stack)
    <3>1. u = stack[i] /\ FrameFits(u) /\ u.script # Top.script /\ u \in Frames
      BY <1>1, <1>4, <1>10, <2>2 DEF RunsInv, StackFits, RunsTyped
    <3>2. last'[u.script] = last[u.script]
      BY <1>7, <3>1 DEF Frames
    <3> QED  BY <1>4, <3>1, <3>2 DEF FrameFits, Committed
  <2> QED  BY <2>1, <2>2
<1>11. StackFits'
  <2>1. \A i \in 1..Len(stack) : stack'[i].script = stack[i].script
    BY <1>1, <1>2, <1>4
  <2>2. \A i, j \in 1..Len(stack) : i # j => stack'[i].script # stack'[j].script
    BY <2>1 DEF RunsInv, StackFits
  <2>3. \A i \in 1..Len(stack) : i < Len(stack) => stack'[i].pc # "closed"
    BY <1>1, <1>4 DEF RunsInv, StackFits
  <2>4. \A i \in 1..Len(stack) : FrameFits(stack[i])'
    BY <1>10
  <2> QED  BY <1>4, <2>2, <2>3, <2>4 DEF StackFits
<1>12. ASSUME NEW s \in Scripts
       PROVE  Latest(s)' \/ \E i \in 1..Len(stack') : stack'[i].script = s /\ Committed(stack'[i])
  <2>1. CASE s = Top.script /\ Committed(v)
    BY <1>1, <1>2, <1>4, <2>1
  <2>2. CASE ~(s = Top.script /\ Committed(v))
    <3>1. last'[s] = last[s] /\ ended' = ended
      BY <1>3, <1>7, <2>2
    <3>2. Latest(s)' <=> Latest(s)
      BY <3>1 DEF Latest, KeptRuns
    <3>3. ASSUME NEW i \in 1..Len(stack), Committed(stack[i]) PROVE stack'[i] = stack[i]
      BY <1>1, <1>4, <3>3 DEF Committed
    <3> QED  BY <1>4, <3>2, <3>3 DEF RunsInv, LastFits
  <2> QED  BY <2>1, <2>2
<1>13. LastFits'
  BY <1>12 DEF LastFits, Committed
<1> QED  BY <1>8, <1>11, <1>13 DEF RunsInv

LEMMA ReturnStep == ASSUME RunsInv, Return \/ LeaveMenu \/ Raise PROVE RunsInv'
<1>1. InBody /\ Top \in Frames /\ FrameFits(Top)
  BY TopIs DEF Return, LeaveMenu, Raise, InBody, RunsInv, StackFits
<1>2. CASE LeaveMenu \/ Raise
  BY <1>1, <1>2, EndingStep DEF LeaveMenu, Raise
<1>3. CASE Return
  <2>1. PICK status \in {"success", Top.returned} \ {"none"} :
          \/ Ending(status)
          \/ Changes([Top EXCEPT !.pc = "menu"]) /\ UNCHANGED <<last, ended>>
    BY <1>3 DEF Return
  <2>2. CASE Ending(status)
    <3>1. status \in {"success", "failed", "program_error"}
      BY <1>1 DEF Frames
    <3> QED  BY <1>1, <2>2, <3>1, EndingStep
  <2>3. CASE Changes([Top EXCEPT !.pc = "menu"]) /\ UNCHANGED <<last, ended>>
    <3> DEFINE v == [Top EXCEPT !.pc = "menu"]
    <3>1. /\ v \in Frames /\ v.script = Top.script /\ v.old = Top.old
          /\ v.mode = Top.mode /\ v.pc = "menu" /\ v.params = Top.params
      BY <1>1 DEF Frames
    <3>2. Changes(v)
      BY <2>3
    <3> HIDE DEF v
    <3> QED  BY <1>1, <2>3, <3>1, <3>2, BodyStep DEF FrameFits
  <2> QED  BY <2>1, <2>2, <2>3
<1> QED  BY <1>2, <1>3

LEMMA StartRunStep == ASSUME RunsInv, NEW script \in Scripts, StartRun(script) PROVE RunsInv'
<1> DEFINE n == Len(stack)
<1>1. /\ RunsTyped /\ n \in Nat /\ UNCHANGED <<last, ended>>
      /\ \A i \in 1..n : stack[i].script # script
  BY LenProperties, EmptySeq DEF StartRun, MayStart, RunsInv, RunsTyped
<1>2. PICK mode \in IF stack = <<>> THEN Modes ELSE {Top.mode} :
        stack' = Append(stack, NewContext(script, mode))
  BY DEF StartRun
<1>3. mode \in Modes /\ Started \in Nat
  <2>1. CASE stack = <<>>
    BY <1>1, <1>2, <2>1, LenProperties DEF RunsTyped, Started
  <2>2. CASE stack # <<>>
    BY <1>1, <1>2, <2>2, TopIs DEF Frames
  <2> QED  BY <2>1, <2>2
<1> DEFINE v == NewContext(script, mode)
<1>4. v \in Frames /\ v.script = script /\ v.old = last[script] /\ v.pc = "body" /\ v.params = Unset
  BY <1>1, <1>3, NothingKept DEF NewContext, Frames, RunsTyped
<1> HIDE DEF v
<1>5. /\ stack' \in Seq(Frames) /\ Len(stack') = n + 1 /\ stack'[n + 1] = v
      /\ \A i \in 1..n : stack'[i] = stack[i]
  BY <1>1, <1>2, <1>4, AppendProperties DEF RunsTyped, v
<1>6. RunsTyped'
  BY <1>1, <1>5 DEF RunsTyped
<1>7. \A i \in 1..(n + 1) : i \in 1..n \/ i = n + 1
  BY <1>1
<1>8. ASSUME NEW i \in 1..(n + 1), NEW u, u = stack'[i] PROVE FrameFits(u)'
  <2>1. CASE i \in 1..n
    <3>1. u = stack[i] /\ FrameFits(u)
      BY <1>5, <1>8, <2>1 DEF RunsInv, StackFits
    <3> QED  BY <1>1, <3>1 DEF FrameFits, Committed
  <2>2. CASE i = n + 1
    <3>1. u = v
      BY <1>5, <1>8, <2>2
    <3>2. \A f \in Fields : v.params[f] = 0
      BY <1>4 DEF Unset
    <3> QED  BY <1>1, <1>4, <3>1, <3>2 DEF FrameFits, Committed
  <2> QED  BY <1>7, <2>1, <2>2
<1>9. StackFits'
  <2>1. \A i, j \in 1..n : i # j => stack[i].script # stack[j].script
    BY DEF RunsInv, StackFits
  <2>2. \A i, j \in 1..(n + 1) : i # j => stack'[i].script # stack'[j].script
    BY <1>1, <1>4, <1>5, <1>7, <2>1
  <2>3. \A i \in 1..n : stack[i].pc # "closed"
    <3> TAKE i \in 1..n
    <3>1. CASE i < n
      BY <3>1 DEF RunsInv, StackFits
    <3>2. CASE i = n
      <4>1. stack # <<>>
        BY <1>1, <3>2, EmptySeq
      <4>2. InBody
        BY <4>1 DEF StartRun, MayStart
      <4> QED  BY <3>2, <4>2 DEF InBody, Top
    <3> QED  BY <1>1, <3>1, <3>2
  <2>4. \A i \in 1..(n + 1) : stack'[i].pc # "closed"
    BY <1>4, <1>5, <1>7, <2>3
  <2>5. \A i \in 1..(n + 1) : FrameFits(stack[i])'
    BY <1>8
  <2> QED  BY <1>5, <2>2, <2>4, <2>5 DEF StackFits
<1>10. LastFits'
  <2>1. \A s : Latest(s)' <=> Latest(s)
    BY <1>1 DEF Latest, KeptRuns
  <2>2. \A i \in 1..n : i \in 1..(n + 1)
    BY <1>1
  <2> QED  BY <1>5, <2>1, <2>2 DEF RunsInv, LastFits, Committed
<1> QED  BY <1>6, <1>9, <1>10 DEF RunsInv

LEMMA RunsStutter == ASSUME RunsInv, UNCHANGED <<stack, last, ended>> PROVE RunsInv'
<1>1. RunsTyped' /\ Started' = Started
  BY DEF RunsInv, RunsTyped, Started
<1>2. \A u : FrameFits(u)' <=> FrameFits(u)
  BY DEF FrameFits, Committed
<1>3. StackFits'
  BY <1>2 DEF RunsInv, StackFits
<1>4. \A s : Latest(s)' <=> Latest(s)
  BY DEF Latest, KeptRuns
<1>5. LastFits'
  BY <1>4 DEF RunsInv, LastFits, Committed
<1> QED  BY <1>1, <1>3, <1>5 DEF RunsInv

LEMMA StartFailsStep == ASSUME RunsInv, NEW script \in Scripts, StartFails(script) PROVE RunsInv'
<1>1. UNCHANGED <<last, ended>>
  BY DEF StartFails
<1>2. CASE stack = <<>>
  <2>1. stack' = stack
    BY <1>2 DEF StartFails
  <2> QED  BY <1>1, <2>1, RunsStutter
<1>3. CASE stack # <<>>
  <2> DEFINE v == [Top EXCEPT !.returned = "failed"]
  <2>1. InBody /\ Changes(v)
    BY <1>3 DEF StartFails, MayStart
  <2>2. Top \in Frames /\ FrameFits(Top) /\ Top.pc # "closed"
    BY <1>3, <2>1, TopIs DEF InBody, RunsInv, StackFits
  <2>3. /\ v \in Frames /\ v.script = Top.script /\ v.old = Top.old
        /\ v.mode = Top.mode /\ v.pc = Top.pc /\ v.params = Top.params
    BY <2>2 DEF Frames
  <2> HIDE DEF v
  <2> QED  BY <1>1, <2>1, <2>2, <2>3, BodyStep DEF FrameFits
<1> QED  BY <1>2, <1>3

LEMMA WriteRunResultStep == ASSUME RunsInv, WriteRunResult PROVE RunsInv'
<1> DEFINE n == Len(stack)
           v == Top
           e == [script |-> v.script,
                 kept |-> IF v.returned # "program_error" \/ v.operated THEN v.params ELSE NoLast]
<1>1. /\ n \in Nat \ {0} /\ n \in 1..n /\ v = stack[n] /\ v \in Frames /\ Started \in Nat
      /\ RunsTyped /\ stack # <<>> /\ v.pc = "closed" /\ FrameFits(v) /\ Len(ended) \in Nat
  BY TopIs DEF WriteRunResult, RunsInv, StackFits
<1>2. ended' = Append(ended, e) /\ last' = last
  BY DEF WriteRunResult
<1>3. e \in Outcomes /\ e.script = v.script
      /\ (Committed(v) => e.kept = v.params) /\ (~Committed(v) => e.kept = NoLast)
  BY <1>1, NothingKept DEF Outcomes, Frames, Lasts, Committed, FrameFits
<1>4. /\ stack' \in Seq(Frames) /\ Len(stack') = n - 1
      /\ \A i \in 1..(n - 1) : /\ stack'[i].script = stack[i].script
                               /\ stack'[i].pc = stack[i].pc /\ stack'[i].old = stack[i].old
                               /\ stack'[i].mode = stack[i].mode /\ stack'[i].params = stack[i].params
  <2>1. CASE n = 1
    <3>1. stack' = <<>>
      BY <2>1 DEF WriteRunResult
    <3>2. Len(<<>>) = n - 1 /\ <<>> \in Seq(Frames) /\ \A i : i \notin 1..(n - 1)
      BY <2>1
    <3> HIDE DEF n, v, e
    <3> QED  BY <3>1, <3>2
  <2>2. CASE n # 1
    <3> DEFINE f == Front(stack)
               r == IF v.returned = "success" THEN "success" ELSE "failed"
    <3>1. stack' = [f EXCEPT ![n - 1].returned = r]
      BY <2>2 DEF WriteRunResult
    <3>2. /\ f \in Seq(Frames) /\ Len(f) = n - 1 /\ \A i \in 1..(n - 1) : f[i] = stack[i]
      <4>1. f = SubSeq(stack, 1, n - 1)
        BY DEF Front
      <4>2. 1 \in Int /\ n - 1 \in Int /\ 1 <= n - 1 /\ (n - 1) - 1 + 1 = n - 1
        <5> HIDE DEF n, v, e
        <5> QED  BY <1>1, <2>2
      <4>3. \A i \in 1..(n - 1) : stack[i] \in Frames /\ 1 + i - 1 = i
        BY <1>1 DEF RunsTyped
      <4>4. /\ SubSeq(stack, 1, n - 1) \in Seq(Frames)
            /\ Len(SubSeq(stack, 1, n - 1)) = IF 1 <= n - 1 THEN (n - 1) - 1 + 1 ELSE 0
            /\ \A i \in 1..((n - 1) - 1 + 1) : SubSeq(stack, 1, n - 1)[i] = stack[1 + i - 1]
        BY <4>2, <4>3, SubSeqProperties
      <4>5. Len(SubSeq(stack, 1, n - 1)) = n - 1 /\ \A i \in 1..(n - 1) : SubSeq(stack, 1, n - 1)[i] = stack[i]
        BY <4>2, <4>3, <4>4
      <4> QED  BY <4>1, <4>4, <4>5
    <3> DEFINE u == [f[n - 1] EXCEPT !.returned = r]
    <3>3. n - 1 \in 1..(n - 1) /\ f[n - 1] = stack[n - 1] /\ f[n - 1] \in Frames
      BY <1>1, <2>2, <3>2
    <3>4. /\ u \in Frames /\ u.script = stack[n - 1].script /\ u.pc = stack[n - 1].pc
          /\ u.old = stack[n - 1].old /\ u.mode = stack[n - 1].mode /\ u.params = stack[n - 1].params
      BY <3>3 DEF Frames
    <3>5. stack' = [f EXCEPT ![n - 1] = u]
      BY <3>1
    <3> HIDE DEF f, u
    <3>6. /\ stack' \in Seq(Frames) /\ Len(stack') = n - 1
          /\ \A i \in 1..(n - 1) : stack'[i] = IF i = n - 1 THEN u ELSE f[i]
      BY <3>2, <3>3, <3>4, <3>5, ExceptSeq
    <3> QED  BY <3>2, <3>4, <3>6
  <2> QED  BY <2>1, <2>2
<1>5. \A i \in 1..(n - 1) : /\ i \in 1..n /\ i # n /\ stack[i] \in Frames /\ FrameFits(stack[i]) /\ stack[i].pc # "closed"
                            /\ stack[i].script # v.script
  <2> TAKE i \in 1..(n - 1)
  <2>1. i \in 1..n /\ i # n /\ i < n
    <3> HIDE DEF n, v, e
    <3> QED  BY <1>1
  <2>2. stack[i] \in Frames
    BY <1>1, <2>1 DEF RunsTyped
  <2>3. FrameFits(stack[i]) /\ stack[i].pc # "closed" /\ stack[i].script # stack[n].script
    BY <1>1, <2>1 DEF RunsInv, StackFits
  <2> HIDE DEF n, v, e
  <2> QED  BY <1>1, <2>1, <2>2, <2>3
<1> DEFINE k == Len(ended)
<1>6. /\ ended' \in Seq(Outcomes) /\ Len(ended') = k + 1 /\ ended'[k + 1] = e
      /\ \A i \in 1..k : ended'[i] = ended[i]
  <2> HIDE DEF e
  <2> QED  BY <1>1, <1>2, <1>3, AppendProperties DEF RunsTyped
<1>7. Started' = Started
  <2>1. Started = k + n /\ Started' = Len(ended') + Len(stack')
    BY DEF Started
  <2> QED  BY <1>1, <1>4, <1>6, <2>1
<1> HIDE DEF e, n, v
<1>10. RunsTyped'
  BY <1>1, <1>2, <1>4, <1>6 DEF RunsTyped
<1>11. ASSUME NEW i \in 1..(n - 1), NEW u, u = stack'[i] PROVE FrameFits(u)'
  <2>1. /\ FrameFits(stack[i]) /\ stack[i].pc # "closed"
        /\ u.script = stack[i].script /\ u.pc = stack[i].pc /\ u.old = stack[i].old
        /\ u.mode = stack[i].mode /\ u.params = stack[i].params
    BY <1>4, <1>5, <1>11
  <2> QED  BY <1>2, <2>1 DEF FrameFits, Committed
<1>12. StackFits'
  <2>1. \A i, j \in 1..(n - 1) : i # j => stack'[i].script # stack'[j].script
    <3>1. \A i, j \in 1..n : i # j => stack[i].script # stack[j].script
      BY DEF RunsInv, StackFits, n
    <3> QED  BY <1>4, <1>5, <3>1
  <2>2. \A i \in 1..(n - 1) : stack'[i].pc # "closed"
    BY <1>4, <1>5
  <2>3. \A i \in 1..(n - 1) : FrameFits(stack[i])'
    BY <1>11
  <2> QED  BY <1>4, <2>1, <2>2, <2>3 DEF StackFits
<1>14. ASSUME NEW s \in Scripts PROVE Latest(s)'
  <2>1. last'[s] = last[s]
    BY <1>2
  <2>2. \A i \in 1..(k + 1) : i \in 1..k \/ i = k + 1
    BY <1>1
  <2>3. CASE s = v.script /\ Committed(v)
    <3>1. e.kept = v.params /\ v.params \in ParamSets /\ e.kept # NoLast /\ last[s] = v.params
      BY <1>1, <1>3, <2>3, NothingKept DEF FrameFits, Frames
    <3>2. k + 1 \in KeptRuns(s)'
      BY <1>1, <1>3, <1>6, <2>3, <3>1 DEF KeptRuns
    <3>3. \A j \in KeptRuns(s)' : j <= k + 1
      BY <1>1, <1>6 DEF KeptRuns
    <3> QED  BY <1>6, <2>1, <3>1, <3>2, <3>3 DEF Latest
  <2>4. CASE ~(s = v.script /\ Committed(v))
    <3>1. ~(e.script = s /\ e.kept # NoLast)
      BY <1>3, <2>4
    <3>2. KeptRuns(s)' = KeptRuns(s)
      BY <1>1, <1>6, <2>2, <3>1 DEF KeptRuns
    <3>3. \A i \in KeptRuns(s) : ended'[i] = ended[i]
      BY <1>6 DEF KeptRuns
    <3>4. Latest(s)
      <4>1. \A i \in 1..n : ~(stack[i].script = s /\ Committed(stack[i]))
        <5> TAKE i \in 1..n
        <5>1. CASE i = n
          BY <1>1, <2>4, <5>1
        <5>2. CASE i # n
          <6>1. i \in 1..(n - 1)
            BY <1>1, <5>2
          <6> QED  BY <1>5, <6>1 DEF Committed
        <5> QED  BY <5>1, <5>2
      <4> QED  BY <4>1 DEF RunsInv, LastFits, n
    <3>5. Latest(s)' <=> IF KeptRuns(s)' = {} THEN last'[s] = NoLast
                         ELSE \E i \in KeptRuns(s)' : last'[s] = ended'[i].kept /\ \A j \in KeptRuns(s)' : j <= i
      BY DEF Latest
    <3> QED  BY <2>1, <3>2, <3>3, <3>4, <3>5 DEF Latest
  <2> QED  BY <2>3, <2>4
<1> QED  BY <1>10, <1>12, <1>14 DEF RunsInv, LastFits

LEMMA RunsNextInv == ASSUME RunsInv, RunsNext PROVE RunsInv'
BY StartRunStep, StartFailsStep, RegisterHostStep, DownloadPackageStep, HostOperatesStep, ReturnStep,
   WriteRunResultStep DEF RunsNext

LEMMA RunsAlways == RunsSpec => []RunsInv
<1>1. RunsInv /\ [RunsNext]_runsVars => RunsInv'
  BY RunsNextInv, RunsStutter DEF runsVars
<1> QED  BY <1>1, RunsInitInv, PTL DEF RunsSpec

\* What a rerun takes is what the last run of its script had, and what is kept of a
\* script is of its latest run that came to its end or had begun an operation, for any
\* scripts, values, children and numbers of runs (run_script, _collect_values,
\* commit_last_run).
THEOREM RerunRepeatsTheorem == RunsSpec => []RerunRepeats
<1>1. ASSUME RunsInv PROVE RerunRepeats
  <2>1. ASSUME NEW i \in 1..Len(stack), NEW f \in Fields,
               stack[i].mode = "rerun", stack[i].params[f] # 0
        PROVE  stack[i].params[f] = last[stack[i].script][f]
    <3>1. FrameFits(stack[i])
      BY <1>1 DEF RunsInv, StackFits
    <3> QED  BY <2>1, <3>1 DEF FrameFits
  <2>2. ASSUME NEW s \in Scripts, \A i \in 1..Len(stack) : ~(stack[i].script = s /\ stack[i].pc = "closed")
        PROVE  Latest(s)
    BY <1>1, <2>2 DEF RunsInv, LastFits, Committed
  <2> QED  BY <2>1, <2>2 DEF RerunRepeats, Latest
<1> QED  BY <1>1, RunsAlways, PTL
=============================================================================
