-------------------------- MODULE AnalysisPoolProofs --------------------------
(***************************************************************************)
(* Proofs about AnalysisPool for any files, any number of workers and any   *)
(* interval between two looks at the cancellation.                          *)
(***************************************************************************)
EXTENDS AnalysisPool, FiniteSetTheorems, WellFoundedInduction, TLAPS

Phases == {"collecting", "parsing", "indexing", "publishing", "announcing", "stopping", "over"}

TaskStates == {"none", "queued", "running", "done", "failed", "cancelled", "dropped"}

PoolTypes ==
    /\ cancelled \in BOOLEAN /\ stop \in BOOLEAN /\ broken \in BOOLEAN
    /\ phase \in Phases
    /\ outcome \in {"none", "failed", "cancelled"}
    /\ task \in [Ranks -> TaskStates]
    /\ changed \subseteq Ranks
    /\ collected \subseteq Ranks

\* What a future's state says of its source and of the user.
TaskInv ==
    \A r \in Ranks :
        /\ task[r] \in {"none", "queued", "done"} => r \notin changed
        /\ task[r] = "failed" => broken
        /\ task[r] = "cancelled" => cancelled \/ stop
        /\ r \in collected => task[r] = "done"

\* What the phase says of the futures and of the exception on its way.
PhaseInv ==
    /\ phase = "collecting" => \A r \in Ranks : task[r] = "none"
    /\ phase \in {"indexing", "publishing", "announcing"} => collected = Ranks
    /\ phase = "over" => \A r \in Ranks : task[r] \notin {"running", "queued"}
    /\ stop => phase \in {"stopping", "over"}
    /\ phase \notin {"stopping", "over"} => outcome = "none"
    /\ phase = "stopping" => outcome # "none"
    /\ outcome = "cancelled" => cancelled
    /\ outcome = "failed" => broken

ManifestInv ==
    /\ manifest \in {"failed", "cancelled"} => phase = "over" /\ outcome = manifest
    /\ manifest = "ready" => phase \in {"announcing", "stopping", "over"} /\ collected = Ranks
    /\ phase = "announcing" => manifest = "ready"
    /\ phase = "over" => \/ manifest = "ready" /\ outcome = "none"
                         \/ outcome # "none" /\ (broken \/ manifest = outcome)

IInv == PoolTypes /\ TaskInv /\ PhaseInv /\ ManifestInv

LEMMA InitInv == Init => IInv
  BY DEF Init, IInv, PoolTypes, TaskInv, PhaseInv, ManifestInv, Phases, TaskStates

\* An exception in the task's own thread, of which the caller knows the reason.
LEMMA RaiseInv ==
    ASSUME IInv, NEW why \in {"failed", "cancelled"}, Raise(why), broken' \in BOOLEAN,
           phase \notin {"stopping", "over"},
           why = "cancelled" => cancelled,
           broken => broken',
           why = "failed" => broken'
    PROVE  IInv'
  BY DEF IInv, PoolTypes, TaskInv, PhaseInv, ManifestInv, Raise, Ranks, Phases, indexVars

\* A parser changes the state of its own future only.
LEMMA ParserInv ==
    ASSUME IInv, NEW r \in Ranks, NEW state \in TaskStates, Becomes(r, state), parserUnchanged,
           phase # "over" \/ state \notin {"running", "queued"},
           phase # "collecting",
           r \notin collected,
           state \in {"none", "queued", "done"} => r \notin changed,
           state = "cancelled" => cancelled \/ stop
    PROVE  IInv'
<1>1. /\ task' \in [Ranks -> TaskStates] /\ task'[r] = state
      /\ \A q \in Ranks : q # r => task'[q] = task[q]
  BY DEF IInv, PoolTypes, Becomes
<1>2. broken' \in BOOLEAN /\ (broken => broken') /\ (state = "failed" => broken')
  BY Zenon DEF IInv, PoolTypes, Becomes
<1>3. Ranks' = Ranks
  BY DEF parserUnchanged, Ranks
<1>4. PoolTypes'
  BY <1>1, <1>2, <1>3 DEF IInv, PoolTypes, parserUnchanged
<1>5. TaskInv'
  BY <1>1, <1>2, <1>3 DEF IInv, TaskInv, parserUnchanged
<1>6. PhaseInv'
  BY <1>1, <1>2, <1>3 DEF IInv, PhaseInv, parserUnchanged
<1>7. ManifestInv'
  BY <1>2, <1>3 DEF IInv, ManifestInv, parserUnchanged
<1> QED BY <1>4, <1>5, <1>6, <1>7 DEF IInv

\* A parser that is running ends in one of these.
LEMMA RunningFacts ==
    ASSUME IInv, NEW r \in Ranks, task[r] \in {"running", "queued"}
    PROVE  r \notin collected /\ phase \notin {"over", "collecting"}
  BY DEF IInv, TaskInv, PhaseInv

LEMMA ParsersInv ==
    ASSUME IInv, NEW r \in Ranks,
           StartParser(r) \/ ParseLine(r) \/ FinishParser(r) \/ ParserFails(r) \/ DropFuture(r)
    PROVE  IInv'
<1>1. CASE StartParser(r)
  <2>1. task[r] = "queued" /\ r \notin changed
    BY <1>1 DEF StartParser, IInv, TaskInv
  <2>2. parserUnchanged /\ ((Becomes(r, "cancelled") /\ WorkerCancelled) \/ Becomes(r, "running"))
    BY <1>1 DEF StartParser
  <2> QED BY <2>1, <2>2, ParserInv, RunningFacts DEF TaskStates, WorkerCancelled
<1>2. CASE ParseLine(r)
  <2>1. task[r] = "running" /\ parserUnchanged
    BY <1>2 DEF ParseLine
  <2>2. CASE WorkerCancelled /\ Becomes(r, "cancelled")
    BY <2>1, <2>2, ParserInv, RunningFacts DEF TaskStates, WorkerCancelled
  <2>3. CASE UNCHANGED <<task, broken>>
    BY <2>1, <2>3 DEF parserUnchanged, IInv, PoolTypes, TaskInv, PhaseInv, ManifestInv, Ranks
  <2> QED BY <1>2, <2>2, <2>3 DEF ParseLine
<1>3. CASE FinishParser(r)
  <2>1. task[r] = "running" /\ parserUnchanged /\ Becomes(r, Verdict(r))
    BY <1>3 DEF FinishParser
  <2>2. /\ Verdict(r) \in {"cancelled", "failed", "done"}
        /\ Verdict(r) = "cancelled" => cancelled \/ stop
        /\ Verdict(r) = "done" => r \notin changed
    BY Zenon DEF Verdict, WorkerCancelled
  <2> HIDE DEF Verdict
  <2> QED BY <2>1, <2>2, ParserInv, RunningFacts DEF TaskStates
<1>4. CASE ParserFails(r)
  BY <1>4, ParserInv, RunningFacts DEF ParserFails, TaskStates
<1>5. CASE DropFuture(r)
  BY <1>5, ParserInv, RunningFacts DEF DropFuture, TaskStates
<1> QED BY <1>1, <1>2, <1>3, <1>4, <1>5

LEMMA CancelledInv ==
    ASSUME IInv, CancelledHere, phase \notin {"stopping", "over"}
    PROVE  IInv'
<1>1. cancelled /\ Raise("cancelled") /\ broken' = broken /\ broken \in BOOLEAN
  BY DEF CancelledHere, IInv, PoolTypes
<1> QED BY <1>1, RaiseInv

LEMMA CollectInv ==
    ASSUME IInv, NEW r \in Ranks, Collect(r)
    PROVE  IInv'
<1>0. phase = "parsing" /\ broken \in BOOLEAN
  BY DEF Collect, IInv, PoolTypes
<1>1. CASE task[r] = "failed" /\ Raise("failed") /\ UNCHANGED broken
  <2>1. broken
    BY <1>1 DEF IInv, TaskInv
  <2> QED BY <1>0, <1>1, <2>1, RaiseInv
<1>2. CASE task[r] = "cancelled" /\ Raise("cancelled") /\ UNCHANGED broken
  <2>1. cancelled
    BY <1>0, <1>2 DEF IInv, TaskInv, PhaseInv
  <2> QED BY <1>0, <1>2, <2>1, RaiseInv
<1>3. CASE CancelledHere
  BY <1>0, <1>3, CancelledInv
<1>4. CASE /\ task[r] = "done" /\ ~cancelled
           /\ collected' = collected \cup {r}
           /\ UNCHANGED <<files, workers, cancelled, phase, outcome, broken, stop, task, shard,
                          changed, indexVars, manifest>>
  BY <1>0, <1>4 DEF IInv, PoolTypes, TaskInv, PhaseInv, ManifestInv, Ranks, indexVars
<1> QED BY <1>1, <1>2, <1>3, <1>4 DEF Collect

LEMMA MainInv ==
    ASSUME IInv, \/ Submit \/ StartIndex \/ MergeShard \/ Assign \/ ReportMissing \/ Publish
                 \/ Announce \/ StepFails \/ Abort
    PROVE  IInv'
<1>1. CASE CancelledHere /\ phase \notin {"stopping", "over"}
  BY <1>1, CancelledInv
<1>2. CASE ~cancelled /\ Submit
  BY <1>2 DEF IInv, PoolTypes, TaskInv, PhaseInv, ManifestInv, Submit, Ranks, Phases,
     TaskStates, indexVars
<1>3. CASE ~cancelled /\ StartIndex
  BY <1>3 DEF IInv, PoolTypes, TaskInv, PhaseInv, ManifestInv, StartIndex, Ranks, Phases,
     poolVars, indexVars
<1>4. CASE ~cancelled /\ (MergeShard \/ Assign)
  <2>1. UNCHANGED <<files, workers, cancelled, phase, outcome, broken, poolVars, manifest>>
    BY <1>4 DEF MergeShard, Assign
  <2> QED BY <2>1 DEF IInv, PoolTypes, TaskInv, PhaseInv, ManifestInv, Ranks, poolVars
<1>5. CASE ~cancelled /\ ReportMissing
  BY <1>5 DEF IInv, PoolTypes, TaskInv, PhaseInv, ManifestInv, ReportMissing, Ranks, Phases,
     poolVars
<1>6. CASE ~cancelled /\ Publish
  BY <1>6 DEF IInv, PoolTypes, TaskInv, PhaseInv, ManifestInv, Publish, Ranks, Phases,
     poolVars, indexVars
<1>7. CASE Announce
  <2>1. \A r \in Ranks : task[r] = "done"
    BY <1>7 DEF IInv, PhaseInv, TaskInv, Announce
  <2> QED BY <1>7, <2>1 DEF IInv, PoolTypes, TaskInv, PhaseInv, ManifestInv, Announce, Ranks, Phases,
       poolVars, indexVars
<1>8. CASE StepFails
  BY <1>8, RaiseInv DEF StepFails
<1>9. CASE Abort
  <2>1. /\ phase = "stopping" /\ phase' = "over" /\ Ranks' = Ranks
        /\ UNCHANGED <<files, workers, cancelled, outcome, stop, task, changed, collected>>
        /\ \A r \in Ranks : task[r] \notin {"running", "queued"}
        /\ \/ manifest' = outcome /\ broken' = broken
           \/ broken' = TRUE /\ manifest' = manifest
    BY <1>9 DEF Abort, Queued, Running, Ranks, poolVars
  <2>. broken \in BOOLEAN
    BY DEF IInv, PoolTypes
  <2>0. broken' \in BOOLEAN /\ (broken => broken')
    <3>1. broken' = broken \/ broken' = TRUE
      BY <2>1, Zenon
    <3>2. CASE broken' = broken
      BY <3>2
    <3>3. CASE broken' = TRUE
      BY <3>3
    <3> QED BY <3>1, <3>2, <3>3, Zenon
  <2>2. PoolTypes' /\ TaskInv' /\ PhaseInv'
    <3>1. manifest' \in {manifest, outcome}
      BY <2>1
    <3>2. PoolTypes'
      BY <2>0, <2>1 DEF IInv, PoolTypes, Phases
    <3>3. TaskInv'
      BY <2>0, <2>1 DEF IInv, TaskInv
    <3>4. PhaseInv'
      BY <2>0, <2>1 DEF IInv, PhaseInv
    <3> QED BY <3>2, <3>3, <3>4
  <2>3. outcome \in {"failed", "cancelled"}
    BY <2>1 DEF IInv, PoolTypes, PhaseInv
  <2>4. ManifestInv'
    BY <2>1, <2>3 DEF IInv, ManifestInv
  <2> QED BY <2>2, <2>4 DEF IInv
<1>10. CASE cancelled /\ (Submit \/ StartIndex \/ MergeShard \/ Assign \/ ReportMissing \/ Publish)
  BY <1>1, <1>10 DEF Submit, StartIndex, MergeShard, Assign, ReportMissing, Publish
<1> QED BY <1>2, <1>3, <1>4, <1>5, <1>6, <1>7, <1>8, <1>9, <1>10

LEMMA StepInv == IInv /\ [Next]_vars => IInv'
<1> SUFFICES ASSUME IInv, [Next]_vars PROVE IInv'
  OBVIOUS
<1>1. CASE Cancel
  BY <1>1 DEF IInv, PoolTypes, TaskInv, PhaseInv, ManifestInv, Cancel, Ranks, poolVars, indexVars
<1>2. ASSUME NEW r \in Ranks, SourceChanges(r) PROVE IInv'
  BY <1>2 DEF IInv, PoolTypes, TaskInv, PhaseInv, ManifestInv, SourceChanges, Ranks, indexVars
<1>4. CASE UNCHANGED vars \/ Ended
  BY <1>4 DEF Ended, IInv, PoolTypes, TaskInv, PhaseInv, ManifestInv, Ranks, vars, poolVars, indexVars
<1> QED BY <1>1, <1>2, <1>4, ParsersInv, CollectInv, MainInv DEF Next, ParserStep, MainStep

LEMMA Invariance == Spec => []IInv
  BY InitInv, StepInv, PTL DEF Spec

\* Whichever parser or step stopped first and whichever result came first, a batch is
\* recorded as cancelled only if the user asked for it, as failed only if something
\* broke, and as ready only if every parser ended well on a source that did not change.
THEOREM TruthfulOutcome == Spec => []OutcomeIsTrue
<1>1. IInv => OutcomeIsTrue
  BY DEF IInv, PoolTypes, TaskInv, PhaseInv, ManifestInv, OutcomeIsTrue
<1> QED BY <1>1, Invariance, PTL

\* No parser runs, or waits to run, once the outcome is recorded.
THEOREM QuietAtTheEnd == Spec => []QuietWhenOver
<1>1. IInv => QuietWhenOver
  BY DEF IInv, PhaseInv, QuietWhenOver, Running, Queued
<1> QED BY <1>1, Invariance, PTL

-----------------------------------------------------------------------------
\* The type invariant needs the shape of a shard, of which TypeOK has the number only.
Shard(file) ==
    LET lines == 1..Len(file)
        lines0 == 0..Len(file)
    IN  [number : lines0, header : lines0, rows : Seq(lines), segments : Seq(lines),
         records : Seq(lines \X lines0), diagnosed : SUBSET lines]

LEMMA FlushType ==
    ASSUME NEW file \in Seq(Line), NEW p \in Shard(file)
    PROVE  FlushSegment(file, p) \in Shard(file) /\ FlushSegment(file, p).number = p.number
<1> DEFINE rows == [i \in DOMAIN p.rows |-> <<p.rows[i], p.header>>]
           lines == 1..Len(file)
           lines0 == 0..Len(file)
           kept == [p EXCEPT !.segments = Append(@, p.header), !.records = @ \o rows]
<1>1. rows \in Seq(lines \X lines0)
  <2>1. DOMAIN p.rows = 1..Len(p.rows) /\ \A i \in DOMAIN p.rows : p.rows[i] \in lines
    BY DEF Shard
  <2> QED BY <2>1 DEF Shard
<1>2. p.records \o rows \in Seq(lines \X lines0)
  BY <1>1 DEF Shard
<1> HIDE DEF rows
<1>3. CASE FlushSegment(file, p) = p
  BY <1>3
<1>4. CASE p.header # None /\ FlushSegment(file, p) = kept
  <2>1. Append(p.segments, p.header) \in Seq(lines)
    BY <1>4 DEF Shard, None
  <2>2. kept \in Shard(file) /\ kept.number = p.number
    BY <1>2, <2>1 DEF Shard
  <2> QED BY <1>4, <2>2
<1> QED BY <1>3, <1>4 DEF FlushSegment, rows

LEMMA ReadType ==
    ASSUME NEW file \in Seq(Line), NEW p \in Shard(file), p.number < Len(file)
    PROVE  ReadLine(file, p) \in Shard(file) /\ ReadLine(file, p).number = p.number + 1
<1> DEFINE n == p.number + 1
           next == [p EXCEPT !.number = n]
           closed == [Closed(file, p) EXCEPT !.number = n]
<1>1. n \in Nat /\ n \in 1..Len(file) /\ n \in 0..Len(file)
  BY DEF Shard
<1>2. file[n].kind \in {"segment", "driver", "invalid", "text", "blank"} /\ file[n].kept \in BOOLEAN
  <2>1. file[n] \in Line
    BY <1>1
  <2> QED BY <2>1 DEF Line
<1>3. next \in Shard(file) /\ next.number = n
  BY <1>1 DEF Shard
<1>4. closed \in Shard(file) /\ closed.number = n
  <2>1. ASSUME NEW q \in Shard(file) PROVE [q EXCEPT !.header = None, !.rows = <<>>] \in Shard(file)
    <3>1. <<>> \in Seq(1..Len(file)) /\ None \in 0..Len(file)
      BY DEF None
    <3> QED BY <3>1 DEF Shard
  <2>2. Closed(file, p) \in Shard(file)
    BY <2>1, FlushType DEF Closed
  <2> QED BY <1>1, <2>2 DEF Shard
<1> HIDE DEF n, next, closed
<1>5. \/ ReadLine(file, p) = [closed EXCEPT !.header = n]
      \/ ReadLine(file, p) = [closed EXCEPT !.records = Append(@, <<n, None>>)]
      \/ ReadLine(file, p) = closed
      \/ ReadLine(file, p) = [closed EXCEPT !.diagnosed = @ \cup {n}]
      \/ ReadLine(file, p) = [next EXCEPT !.rows = Append(@, n)]
      \/ ReadLine(file, p) = [next EXCEPT !.diagnosed = @ \cup {n}]
      \/ ReadLine(file, p) = next
  BY <1>2 DEF ReadLine, n, next, closed
<1>6. /\ Append(closed.records, <<n, None>>) \in Seq((1..Len(file)) \X (0..Len(file)))
      /\ Append(next.rows, n) \in Seq(1..Len(file))
  BY <1>1, <1>3, <1>4 DEF Shard, None
<1>7. /\ [closed EXCEPT !.header = n] \in Shard(file)
      /\ [closed EXCEPT !.records = Append(@, <<n, None>>)] \in Shard(file)
      /\ [closed EXCEPT !.diagnosed = @ \cup {n}] \in Shard(file)
  BY <1>1, <1>4, <1>6 DEF Shard
<1>8. /\ [next EXCEPT !.rows = Append(@, n)] \in Shard(file)
      /\ [next EXCEPT !.diagnosed = @ \cup {n}] \in Shard(file)
  BY <1>1, <1>3, <1>6 DEF Shard
<1>9. ReadLine(file, p).number = n
  BY <1>3, <1>4, <1>5 DEF Shard
<1> QED BY <1>3, <1>4, <1>5, <1>7, <1>8, <1>9 DEF n

FileTypes ==
    /\ files \in Inputs
    /\ workers \in 1..MaxWorkers
    /\ DOMAIN shard = Ranks /\ \A r \in Ranks : shard[r] \in Shard(files[r])
    /\ Cardinality(Running) <= Threads
    /\ merged \in 0..Len(files)
    /\ manifest \in {"collecting", "parsing", "indexing", "ready", "failed", "cancelled"}

LEMMA FilesFacts ==
    ASSUME FileTypes
    PROVE  /\ files \in Seq(Seq(Line)) /\ Ranks = 1..Len(files) /\ Len(files) \in Nat
           /\ \A r \in Ranks : files[r] \in Seq(Line)
           /\ IsFiniteSet(Running) /\ Cardinality(Running) \in Nat
           /\ Threads \in Nat
<1>1. files \in Seq(Seq(Line))
  BY PoolAssumption DEF FileTypes
<1>2. Ranks = 1..Len(files) /\ Len(files) \in Nat /\ \A r \in Ranks : files[r] \in Seq(Line)
  BY <1>1 DEF Ranks
<1>3. IsFiniteSet(Running)
  <2>1. IsFiniteSet(1..Len(files))
    BY <1>2, FS_Interval
  <2> QED BY <1>2, <2>1, FS_Subset DEF Running
<1>4. Threads \in Nat
  BY PoolAssumption DEF Threads, FileTypes
<1> QED BY <1>1, <1>2, <1>3, <1>4, FS_CardinalityType

LEMMA InitFiles == Init => FileTypes
<1> SUFFICES ASSUME Init PROVE FileTypes
  OBVIOUS
<1>1. files \in Seq(Seq(Line))
  BY PoolAssumption DEF Init
<1>2. Running = {}
  BY <1>1 DEF Running, Init
<1>3. Cardinality(Running) = 0 /\ Threads >= 0
  BY <1>2, FS_EmptySet, PoolAssumption DEF Threads, Init
<1>4. \A r \in Ranks : NewShard \in Shard(files[r])
  BY DEF NewShard, Shard, None
<1>5. DOMAIN shard = Ranks /\ \A r \in Ranks : shard[r] \in Shard(files[r])
  BY <1>4 DEF Init
<1> QED BY <1>1, <1>3, <1>5 DEF Init, FileTypes

\* Fewer parsers run, or as many.
LEMMA FewerRun ==
    ASSUME FileTypes, UNCHANGED <<files, workers>>, Running' \subseteq Running
    PROVE  (Cardinality(Running) <= Threads)'
<1>1. Cardinality(Running') <= Cardinality(Running) /\ IsFiniteSet(Running')
  BY FilesFacts, FS_Subset
<1>2. Threads' = Threads /\ Cardinality(Running') \in Nat
  BY <1>1, FS_CardinalityType DEF Threads, Serial
<1> QED BY <1>1, <1>2, FilesFacts DEF FileTypes

LEMMA StepFiles == IInv /\ FileTypes /\ [Next]_vars => FileTypes'
<1> SUFFICES ASSUME IInv, FileTypes, [Next]_vars PROVE FileTypes'
  OBVIOUS
<1> USE FilesFacts
<1>0. UNCHANGED <<files, workers>> /\ Ranks' = Ranks
  BY DEF Next, ParserStep, MainStep, Cancel, SourceChanges, StartParser, ParseLine, FinishParser,
     ParserFails, parserUnchanged, Submit, Collect, Raise, CancelledHere, DropFuture, StartIndex,
     MergeShard, Assign, ReportMissing, Publish, Announce, StepFails, Abort, Ended, Ranks, vars
<1>1. ASSUME NEW r \in Ranks, StartParser(r) PROVE FileTypes'
  <2>1. /\ Cardinality(Running) < Threads /\ r \notin Running
        /\ Running' \subseteq Running \cup {r}
    BY <1>0, <1>1 DEF StartParser, Becomes, Running, IInv, PoolTypes
  <2>2. Cardinality(Running \cup {r}) = Cardinality(Running) + 1 /\ IsFiniteSet(Running \cup {r})
    BY <2>1, FS_AddElement
  <2>3. Cardinality(Running') <= Cardinality(Running) + 1 /\ Cardinality(Running') \in Nat
    BY <2>1, <2>2, FS_Subset, FS_CardinalityType
  <2>4. Threads' = Threads
    BY <1>0 DEF Threads, Serial
  <2> QED BY <1>0, <1>1, <2>1, <2>3, <2>4
          DEF FileTypes, StartParser, parserUnchanged, indexVars
<1>2. ASSUME NEW r \in Ranks, ParseLine(r) PROVE FileTypes'
  <2>1. Running' \subseteq Running
    BY <1>0, <1>2 DEF ParseLine, Becomes, Running, IInv, PoolTypes
  <2>2. shard' = shard \/ shard' = [shard EXCEPT ![r] = ReadLine(files[r], @)]
    BY <1>2 DEF ParseLine
  <2>3. shard[r] \in Shard(files[r]) /\ shard[r].number < Len(files[r])
    BY <1>2 DEF ParseLine, FileTypes
  <2>4. /\ ReadLine(files[r], shard[r]) \in Shard(files[r])
        /\ ReadLine(files[r], shard[r]).number = shard[r].number + 1
    BY <2>3, ReadType
  <2>5. ReadLine(files[r], shard[r]).number \in 0..Len(files[r])
    <3>1. Len(files[r]) \in Nat /\ shard[r].number \in Nat
      BY <2>3 DEF Shard
    <3> QED BY <2>3, <2>4, <3>1
  <2>6. DOMAIN shard' = Ranks /\ \A q \in Ranks : shard'[q] \in Shard(files[q])
    BY <2>2, <2>4, <2>5 DEF FileTypes
  <2> QED BY <1>0, <1>2, <2>1, <2>6, FewerRun
          DEF FileTypes, ParseLine, parserUnchanged, indexVars
<1>3. ASSUME NEW r \in Ranks, FinishParser(r) PROVE FileTypes'
  <2>1. Running' \subseteq Running
    <3>1. /\ task' = [task EXCEPT ![r] = Verdict(r)] /\ task \in [Ranks -> TaskStates]
          /\ task[r] = "running"
      BY <1>3 DEF FinishParser, Becomes, IInv, PoolTypes
    <3>2. Verdict(r) # "running"
      BY Zenon DEF Verdict
    <3> QED BY <1>0, <3>1, <3>2 DEF Running
  <2>2. shard' = [shard EXCEPT ![r] = FlushSegment(files[r], @)] /\ shard[r] \in Shard(files[r])
    BY <1>3 DEF FinishParser, FileTypes
  <2>3. /\ FlushSegment(files[r], shard[r]) \in Shard(files[r])
        /\ FlushSegment(files[r], shard[r]).number = shard[r].number
    BY <2>2, FlushType
  <2>4. DOMAIN shard' = Ranks /\ \A q \in Ranks : shard'[q] \in Shard(files[q])
    BY <2>2, <2>3 DEF FileTypes
  <2> QED BY <1>0, <1>3, <2>1, <2>4, FewerRun
          DEF FileTypes, FinishParser, parserUnchanged, indexVars
<1>4. CASE Submit \/ \E r \in Ranks : DropFuture(r) \/ ParserFails(r)
  <2>1. Running' \subseteq Running
    BY <1>0, <1>4 DEF Submit, Raise, CancelledHere, DropFuture, ParserFails, Becomes, Running, IInv,
       PoolTypes
  <2> QED BY <1>0, <1>4, <2>1, FewerRun
          DEF FileTypes, Submit, Raise, CancelledHere, DropFuture, ParserFails, parserUnchanged,
              indexVars
<1>5. CASE MergeShard
  BY <1>0, <1>5, FewerRun DEF FileTypes, MergeShard, Raise, CancelledHere, Running, poolVars, indexVars
<1>6. CASE \/ Cancel \/ StartIndex \/ Assign \/ ReportMissing \/ Publish \/ Abort
           \/ Announce \/ StepFails
           \/ \E r \in Ranks : Collect(r) \/ SourceChanges(r)
           \/ UNCHANGED vars \/ Ended
  <2>1. UNCHANGED <<task, shard, merged>> /\ Running' = Running
    BY <1>0, <1>6 DEF Cancel, StartIndex, Assign, ReportMissing, Publish, Abort, Collect, Raise,
       CancelledHere, Announce, StepFails, SourceChanges, Ended, Running, vars, poolVars, indexVars
  <2>2. \/ manifest' = manifest \/ manifest' = "indexing" \/ manifest' = "ready"
        \/ manifest' = outcome /\ phase = "stopping"
    <3>1. CASE StartIndex \/ Publish \/ Abort
      BY <3>1 DEF StartIndex, Publish, Abort, Raise, CancelledHere
    <3>2. CASE \/ Announce \/ StepFails \/ Cancel \/ Assign \/ ReportMissing \/ UNCHANGED vars \/ Ended
               \/ \E r \in Ranks : Collect(r) \/ SourceChanges(r)
      <4>1. manifest' = manifest
        BY <3>2 DEF Cancel, Assign, ReportMissing, Collect, Raise, CancelledHere, Announce,
           StepFails, SourceChanges, Ended, vars
      <4> QED BY <4>1
    <3> QED BY <1>6, <3>1, <3>2
  <2> QED BY <1>0, <2>1, <2>2, FewerRun DEF FileTypes, IInv, PoolTypes, PhaseInv
<1> QED BY <1>1, <1>2, <1>3, <1>4, <1>5, <1>6 DEF Next, ParserStep, MainStep

LEMMA FilesInvariance == Spec => []FileTypes
<1>1. IInv /\ IInv' /\ FileTypes /\ [Next]_vars => FileTypes'
  BY StepFiles
<1> QED BY InitFiles, <1>1, Invariance, PTL DEF Spec

\* Types of the pool: never more parsers than threads, nothing collected that is not done.
THEOREM PoolTypeCorrect == Spec => []TypeOK
<1>1. Spec => []FileTypes
  BY FilesInvariance
<1>2. IInv /\ FileTypes => TypeOK
  BY DEF IInv, PoolTypes, TaskInv, FileTypes, Shard, TypeOK, Phases, TaskStates
<1> QED BY <1>1, <1>2, Invariance, PTL

-----------------------------------------------------------------------------
\* The dumps.  What the pass knows of a stream after k segments: the dump it has open.
SegmentRow == [rank : Nat, line : Nat, stream : Streams, seg : Nat, time : Nat]

IsOpen(segments, k, s, dump) ==
    LET same == {j \in 1..k : segments[j].stream = s}
        starts == {j \in same : segments[j].seg = 0}
    IN  /\ same = {} => dump = None
        /\ same # {} /\ starts = {} => dump \in same /\ \A j \in same : dump <= j
        /\ starts # {} => dump \in starts /\ \A j \in starts : dump >= j

LEMMA OpenStep ==
    ASSUME NEW segments \in Seq(SegmentRow), NEW k \in Nat, k + 1 <= Len(segments),
           NEW s \in Streams, NEW dump \in Nat, IsOpen(segments, k, s, dump)
    PROVE  IsOpen(segments, k + 1, s,
                  IF segments[k + 1].stream = s
                  THEN IF segments[k + 1].seg = 0 \/ dump = None THEN k + 1 ELSE dump
                  ELSE dump)
<1> DEFINE Same(n) == {j \in 1..n : segments[j].stream = s}
           Starts(n) == {j \in Same(n) : segments[j].seg = 0}
<1>1. 1..k + 1 = (1..k) \cup {k + 1}
  OBVIOUS
<1>2. CASE segments[k + 1].stream # s
  <2>1. Same(k + 1) = Same(k) /\ Starts(k + 1) = Starts(k)
    BY <1>1, <1>2
  <2> QED BY <1>2, <2>1 DEF IsOpen
<1>3. CASE segments[k + 1].stream = s /\ segments[k + 1].seg = 0
  <2>1. k + 1 \in Starts(k + 1) /\ \A j \in Starts(k + 1) : k + 1 >= j
    BY <1>1, <1>3
  <2> QED BY <1>3, <2>1 DEF IsOpen
<1>4. CASE segments[k + 1].stream = s /\ segments[k + 1].seg # 0
  <2>1. Same(k + 1) = Same(k) \cup {k + 1} /\ Starts(k + 1) = Starts(k)
    BY <1>1, <1>4
  <2>2. CASE Same(k) = {}
    <3>1. dump = None /\ Starts(k) = {}
      BY <2>2 DEF IsOpen
    <3> QED BY <1>4, <2>1, <2>2, <3>1 DEF IsOpen
  <2>3. CASE Same(k) # {}
    <3>1. dump \in Same(k)
      BY <2>3 DEF IsOpen
    <3>2. dump # None /\ dump < k + 1
      BY <3>1 DEF None
    <3> QED BY <1>4, <2>1, <2>3, <3>1, <3>2 DEF IsOpen
  <2> QED BY <2>2, <2>3
<1> QED BY <1>2, <1>3, <1>4

LEMMA OpenIsDump ==
    ASSUME NEW segments \in Seq(SegmentRow), NEW i \in 1..Len(segments), NEW dump \in Nat,
           IsOpen(segments, i, segments[i].stream, dump)
    PROVE  dump = DumpOf(segments, i)
<1> DEFINE same == {j \in 1..i : segments[j].stream = segments[i].stream}
           starts == {j \in same : segments[j].seg = 0}
<1>1. i \in same /\ same \subseteq Nat /\ starts \subseteq Nat
  OBVIOUS
<1>2. CASE starts = {}
  <2>1. dump \in same /\ \A j \in same : dump <= j
    BY <1>1, <1>2 DEF IsOpen
  <2>2. Min(same) \in same /\ \A j \in same : Min(same) <= j
    BY <2>1 DEF Min
  <2>3. dump = Min(same)
    BY <1>1, <2>1, <2>2
  <2> QED BY <1>2, <2>3 DEF DumpOf
<1>3. CASE starts # {}
  <2>1. dump \in starts /\ \A j \in starts : dump >= j
    BY <1>3 DEF IsOpen
  <2>2. Max(starts) \in starts /\ \A j \in starts : Max(starts) >= j
    BY <2>1 DEF Max
  <2>3. dump = Max(starts)
    BY <1>1, <2>1, <2>2
  <2> QED BY <1>3, <2>3 DEF DumpOf
<1> QED BY <1>2, <1>3

DumpsByStream ==
    \A i \in 1..Len(dumps.dumps) : dumps.dumps[i] = DumpOf(index.segments, i)

DumpsShape ==
    /\ DOMAIN dumps = {"active", "previous", "dumps", "first", "diagnostics", "missing"}
    /\ dumps.active \in [Streams -> Nat]
    /\ dumps.dumps \in Seq(Nat)

IndexInv ==
    /\ index.segments \in Seq(SegmentRow)
    /\ DumpsShape
    /\ Len(dumps.dumps) <= Len(index.segments)
    /\ merged < Len(files) => dumps.dumps = <<>>
    /\ \A s \in Streams : IsOpen(index.segments, Len(dumps.dumps), s, dumps.active[s])
    /\ DumpsByStream

LEMMA InitIndex == Init => IndexInv
<1> SUFFICES ASSUME Init PROVE IndexInv
  OBVIOUS
<1>1. index.segments = <<>> /\ index.segments \in Seq(SegmentRow)
  BY DEF Init
<1>2. DumpsShape /\ dumps.dumps = <<>> /\ \A s \in Streams : dumps.active[s] = None
  BY DEF Init, NoDumps, DumpsShape, None
<1>3. \A s \in Streams : IsOpen(index.segments, 0, s, None)
  BY DEF IsOpen
<1> QED BY <1>1, <1>2, <1>3 DEF IndexInv, DumpsByStream

LEMMA MergeIndex ==
    ASSUME FileTypes, IndexInv, MergeShard, ~cancelled
    PROVE  IndexInv'
<1> DEFINE r == merged + 1
           rows == [i \in DOMAIN shard[r].segments |-> Row(r, shard[r].segments[i])]
<1>1. r \in Ranks /\ r \in Nat /\ files[r] \in Seq(Line) /\ shard[r] \in Shard(files[r])
  BY FilesFacts DEF MergeShard, FileTypes
<1>2. \A i \in DOMAIN shard[r].segments : Row(r, shard[r].segments[i]) \in SegmentRow
  <2> TAKE i \in DOMAIN shard[r].segments
  <2>1. shard[r].segments[i] \in 1..Len(files[r])
    BY <1>1 DEF Shard
  <2>2. files[r][shard[r].segments[i]] \in Line
    BY <1>1, <2>1
  <2> QED BY <1>1, <2>1, <2>2 DEF Row, SegmentRow, Line
<1>3. rows \in Seq(SegmentRow)
  <2>1. DOMAIN shard[r].segments = 1..Len(shard[r].segments) /\ Len(shard[r].segments) \in Nat
    BY <1>1 DEF Shard
  <2> QED BY <1>2, <2>1
<1>4. index'.segments = index.segments \o rows
  <2>1. index' = [segments |-> index.segments \o rows,
                  records |-> index.records \o
                    [i \in DOMAIN shard[r].records |-> <<r, shard[r].records[i]>>]]
    BY DEF MergeShard
  <2> QED BY <2>1
<1>5. dumps' = dumps /\ dumps.dumps = <<>> /\ files' = files
  BY DEF MergeShard, IndexInv, Raise
<1> HIDE DEF rows
<1>6. index'.segments \in Seq(SegmentRow)
  BY <1>3, <1>4 DEF IndexInv
<1>7. \A s \in Streams : IsOpen(index'.segments, Len(dumps'.dumps), s, dumps'.active[s])
  BY <1>5 DEF IndexInv, IsOpen
<1> QED BY <1>5, <1>6, <1>7 DEF IndexInv, DumpsShape, DumpsByStream

LEMMA AssignIndex ==
    ASSUME FileTypes, IndexInv, Assign, ~cancelled
    PROVE  IndexInv'
<1> DEFINE i == Len(dumps.dumps) + 1
           s == index.segments[i]
           open == dumps.active[s.stream]
           dump == IF s.seg = 0 \/ open = None THEN i ELSE open
<1>1. /\ i \in 1..Len(index.segments) /\ i - 1 = Len(dumps.dumps) /\ i - 1 \in Nat /\ i \in Nat
      /\ index.segments \in Seq(SegmentRow) /\ merged = Len(files)
      /\ UNCHANGED <<index, merged, files>>
  BY DEF Assign, IndexInv, DumpsShape, Raise
<1>2. s.stream \in Streams /\ s.seg \in Nat /\ open \in Nat /\ dump \in Nat
  <2>1. s \in SegmentRow
    BY <1>1
  <2>2. s.stream \in Streams /\ s.seg \in Nat
    BY <2>1 DEF SegmentRow
  <2> QED BY <1>1, <2>2 DEF IndexInv, DumpsShape
<1>3. dumps' = AssignSegment(index.segments, dumps, i)
  BY DEF Assign, Raise
<1>4. /\ DOMAIN dumps' = DOMAIN dumps
      /\ dumps'.active = [dumps.active EXCEPT ![s.stream] = dump]
      /\ dumps'.dumps = Append(dumps.dumps, dump)
  BY <1>3 DEF AssignSegment, IndexInv, DumpsShape
<1> HIDE DEF i, s, open, dump
<1>5. DumpsShape'
  BY <1>2, <1>4 DEF IndexInv, DumpsShape
<1>6. /\ Len(dumps'.dumps) = i /\ dumps'.dumps[i] = dump
      /\ \A j \in 1..i - 1 : dumps'.dumps[j] = dumps.dumps[j]
  BY <1>1, <1>2, <1>4 DEF IndexInv, DumpsShape, i
<1>7. \A q \in Streams : IsOpen(index.segments, i, q, dumps'.active[q])
  <2> TAKE q \in Streams
  <2>1. IsOpen(index.segments, i - 1, q, dumps.active[q]) /\ dumps.active[q] \in Nat
    BY <1>1 DEF IndexInv, DumpsShape
  <2>2. IsOpen(index.segments, (i - 1) + 1, q,
               IF index.segments[(i - 1) + 1].stream = q
               THEN IF index.segments[(i - 1) + 1].seg = 0 \/ dumps.active[q] = None
                    THEN (i - 1) + 1 ELSE dumps.active[q]
               ELSE dumps.active[q])
    BY <1>1, <2>1, OpenStep
  <2>3. (i - 1) + 1 = i
    BY <1>1
  <2>4. dumps'.active[q] = IF s.stream = q THEN dump ELSE dumps.active[q]
    BY <1>2, <1>4 DEF IndexInv, DumpsShape
  <2> QED BY <2>2, <2>3, <2>4 DEF s, open, dump
<1>8. dump = DumpOf(index.segments, i)
  <2>1. IsOpen(index.segments, i, s.stream, dump)
    BY <1>2, <1>4, <1>7 DEF IndexInv, DumpsShape
  <2> QED BY <1>1, <1>2, <2>1, OpenIsDump DEF s
<1>9. DumpsByStream'
  <2>1. ASSUME NEW j \in 1..i PROVE dumps'.dumps[j] = DumpOf(index.segments, j)
    <3>1. CASE j = i
      BY <1>6, <1>8, <3>1
    <3>2. CASE j # i
      <4>1. j \in 1..i - 1
        BY <1>1, <3>2
      <4> QED BY <1>1, <1>6, <4>1 DEF IndexInv, DumpsByStream
    <3> QED BY <3>1, <3>2
  <2> QED BY <1>1, <1>6, <2>1 DEF DumpsByStream
<1> QED BY <1>1, <1>5, <1>6, <1>7, <1>9 DEF IndexInv

LEMMA StepIndex == FileTypes /\ IndexInv /\ [Next]_vars => IndexInv'
<1> SUFFICES ASSUME FileTypes, IndexInv, [Next]_vars PROVE IndexInv'
  OBVIOUS
<1>1. CASE MergeShard /\ ~cancelled
  BY <1>1, MergeIndex
<1>2. CASE Assign /\ ~cancelled
  BY <1>2, AssignIndex
<1>3. CASE ReportMissing /\ ~cancelled
  <2>1. /\ UNCHANGED <<index, merged, files>>
        /\ dumps' = [dumps EXCEPT !.missing = MissingSegments(index.segments, dumps.dumps)]
    BY <1>3 DEF ReportMissing, Raise
  <2>2. DOMAIN dumps' = DOMAIN dumps /\ dumps'.active = dumps.active /\ dumps'.dumps = dumps.dumps
    BY <2>1 DEF IndexInv, DumpsShape
  <2> QED BY <2>1, <2>2 DEF IndexInv, DumpsShape, DumpsByStream
<1>4. CASE UNCHANGED <<index, merged, dumps, files>>
  BY <1>4 DEF IndexInv, DumpsShape, DumpsByStream
<1>5. CASE cancelled /\ (MergeShard \/ Assign \/ ReportMissing)
  BY <1>4, <1>5 DEF MergeShard, Assign, ReportMissing, Raise, CancelledHere, indexVars
<1>6. CASE \/ Submit \/ StartIndex \/ Publish \/ Announce \/ StepFails \/ Abort
           \/ \E r \in Ranks : Collect(r) \/ DropFuture(r)
  BY <1>4, <1>6 DEF Submit, StartIndex, Publish, Announce, StepFails, Abort, Collect, DropFuture,
     parserUnchanged, Raise, CancelledHere, indexVars
<1>7. CASE Cancel \/ ParserStep \/ Ended \/ (\E r \in Ranks : SourceChanges(r)) \/ UNCHANGED vars
  BY <1>4, <1>7 DEF Cancel, ParserStep, StartParser, ParseLine, FinishParser, ParserFails,
     parserUnchanged, Ended, SourceChanges, vars, indexVars
<1> QED BY <1>1, <1>2, <1>3, <1>5, <1>6, <1>7 DEF Next, MainStep

\* Every segment that has been assigned is in the dump that starts at the last seg[0] of
\* its stream, or else at the stream's first segment, whatever else lies in between.
THEOREM DumpsFollowStreams == Spec => []DumpsByStream
<1>1. Spec => []FileTypes
  BY FilesInvariance
<1>2. FileTypes /\ IndexInv /\ [Next]_vars => IndexInv'
  BY StepIndex
<1>3. IndexInv => DumpsByStream
  BY DEF IndexInv
<1> QED BY InitIndex, <1>1, <1>2, <1>3, PTL DEF Spec
-----------------------------------------------------------------------------
\* The shards.  The header that is open after n lines: the last start, if a segment.
Current(file, n) ==
    LET h == HeaderOf(file, n + 1)
    IN  IF h # None /\ file[h].kind = "segment" THEN h ELSE None

LEMMA CurrentStep ==
    ASSUME NEW file \in Seq(Line), NEW m \in Nat, m < Len(file)
    PROVE  Current(file, m + 1) = IF file[m + 1].kind = "segment" THEN m + 1
                                  ELSE IF file[m + 1].kind \in {"driver", "invalid"} THEN None
                                  ELSE Current(file, m)
<1> DEFINE Starts(n) == {h \in 1..n - 1 : file[h].kind \in {"segment", "driver", "invalid"}}
           kind == file[m + 1].kind
<1>1. \A n \in Nat : HeaderOf(file, n) = IF Starts(n) = {} THEN None ELSE Max(Starts(n))
  BY DEF HeaderOf
<1>2. 1..(m + 2) - 1 = (1..(m + 1) - 1) \cup {m + 1} /\ (m + 1) + 1 = m + 2 /\ m + 1 # None
  BY DEF None
<1> HIDE DEF kind
<1>3. CASE kind \in {"segment", "driver", "invalid"}
  <2>1. m + 1 \in Starts(m + 2) /\ \A h \in Starts(m + 2) : h \in Nat /\ m + 1 >= h
    BY <1>2, <1>3 DEF kind
  <2>2. Max(Starts(m + 2)) \in Starts(m + 2) /\ \A h \in Starts(m + 2) : Max(Starts(m + 2)) >= h
    BY <2>1 DEF Max
  <2>3. Max(Starts(m + 2)) = m + 1
    BY <2>1, <2>2
  <2>4. HeaderOf(file, m + 2) = m + 1
    BY <1>1, <2>1, <2>3
  <2> QED BY <1>2, <1>3, <2>4 DEF Current, kind
<1>4. CASE kind \notin {"segment", "driver", "invalid"}
  <2>1. Starts(m + 2) = Starts(m + 1)
    BY <1>2, <1>4 DEF kind
  <2> HIDE DEF Starts
  <2>2. /\ HeaderOf(file, m + 1) = IF Starts(m + 1) = {} THEN None ELSE Max(Starts(m + 1))
        /\ HeaderOf(file, m + 2) = IF Starts(m + 2) = {} THEN None ELSE Max(Starts(m + 2))
    BY <1>1
  <2>3. HeaderOf(file, m + 2) = HeaderOf(file, m + 1)
    BY <2>1, <2>2
  <2> QED BY <1>2, <1>4, <2>3 DEF Current, kind
<1> QED BY <1>3, <1>4 DEF kind

\* What the file says of a record: a driver line, or a row of a segment that is kept.
LEMMA RecordFacts ==
    ASSUME NEW file \in Seq(Line), NEW n \in 1..Len(file), NEW h \in 0..Len(file)
    PROVE  <<n, h>> \in RecordsOf(file) <=>
              \/ h = None /\ file[n].kind = "driver" /\ file[n].kept
              \/ /\ file[n].kind \in {"text", "blank"}
                 /\ h = Current(file, n - 1) /\ h # None /\ file[h].kept
<1>1. (n - 1) + 1 = n
  OBVIOUS
<1> QED BY <1>1 DEF RecordsOf, BelongsTo, Current

\* A sequence has the members of a set.
Lists(s, S) ==
    /\ \A i \in DOMAIN s : s[i] \in S
    /\ \A x \in S : \E i \in DOMAIN s : s[i] = x

LEMMA ConcatElements ==
    ASSUME NEW T, NEW s \in Seq(T), NEW t \in Seq(T)
    PROVE  /\ s \o t \in Seq(T)
           /\ \A i \in DOMAIN (s \o t) :
                \/ i \in DOMAIN s /\ (s \o t)[i] = s[i]
                \/ /\ i > Len(s) /\ i - Len(s) \in DOMAIN t
                   /\ (s \o t)[i] = t[i - Len(s)]
           /\ \A i \in DOMAIN s : i \in DOMAIN (s \o t) /\ (s \o t)[i] = s[i]
           /\ \A i \in DOMAIN t : Len(s) + i \in DOMAIN (s \o t) /\ (s \o t)[Len(s) + i] = t[i]
<1>1. /\ DOMAIN s = 1..Len(s) /\ DOMAIN t = 1..Len(t) /\ DOMAIN (s \o t) = 1..Len(s) + Len(t)
      /\ Len(s) \in Nat /\ Len(t) \in Nat
  OBVIOUS
<1>2. \A i \in 1..Len(s) + Len(t) : (s \o t)[i] = IF i <= Len(s) THEN s[i] ELSE t[i - Len(s)]
  OBVIOUS
<1> QED BY <1>1, <1>2

LEMMA AppendElements ==
    ASSUME NEW T, NEW s \in Seq(T), NEW x \in T
    PROVE  /\ Append(s, x) \in Seq(T)
           /\ DOMAIN Append(s, x) = DOMAIN s \cup {Len(s) + 1}
           /\ \A i \in DOMAIN s : Append(s, x)[i] = s[i] /\ i < Len(s) + 1
           /\ Append(s, x)[Len(s) + 1] = x
  OBVIOUS

LEMMA AppendAscends ==
    ASSUME NEW T, NEW s \in Seq(T), NEW x \in T,
           \A i, j \in DOMAIN s : i < j => s[i] < s[j],
           \A i \in DOMAIN s : s[i] < x
    PROVE  \A i, j \in DOMAIN Append(s, x) : i < j => Append(s, x)[i] < Append(s, x)[j]
<1> DEFINE t == Append(s, x)
<1>1. /\ DOMAIN t = DOMAIN s \cup {Len(s) + 1}
      /\ \A i \in DOMAIN s : t[i] = s[i] /\ i < Len(s) + 1
      /\ t[Len(s) + 1] = x
  BY AppendElements
<1>2. Len(s) \in Nat /\ \A i \in DOMAIN s : i \in Nat
  OBVIOUS
<1> HIDE DEF t
<1>3. \A i, j \in DOMAIN t : i < j => t[i] < t[j]
  <2> SUFFICES ASSUME NEW i \in DOMAIN t, NEW j \in DOMAIN t, i < j PROVE t[i] < t[j]
    OBVIOUS
  <2>1. i \in DOMAIN s
    BY <1>1, <1>2
  <2> QED BY <1>1, <1>2, <2>1
<1> QED BY <1>3 DEF t

LEMMA AppendLists ==
    ASSUME NEW T, NEW s \in Seq(T), NEW x \in T, NEW S, Lists(s, S)
    PROVE  Lists(Append(s, x), S \cup {x})
  BY AppendElements DEF Lists

LEMMA ConcatLists ==
    ASSUME NEW T, NEW s \in Seq(T), NEW t \in Seq(T), NEW S, NEW U, Lists(s, S), Lists(t, U)
    PROVE  Lists(s \o t, S \cup U)
<1>1. \A i \in DOMAIN (s \o t) : (s \o t)[i] \in S \cup U
  BY ConcatElements DEF Lists
<1>2. ASSUME NEW x \in S PROVE \E i \in DOMAIN (s \o t) : (s \o t)[i] = x
  <2>1. PICK i \in DOMAIN s : s[i] = x
    BY DEF Lists
  <2> QED BY <2>1, ConcatElements
<1>3. ASSUME NEW x \in U PROVE \E i \in DOMAIN (s \o t) : (s \o t)[i] = x
  <2>1. PICK i \in DOMAIN t : t[i] = x
    BY DEF Lists
  <2>2. Len(s) + i \in DOMAIN (s \o t) /\ (s \o t)[Len(s) + i] = x
    BY <2>1, ConcatElements
  <2> QED BY <2>2
<1> QED BY <1>1, <1>2, <1>3 DEF Lists

\* The members of a sequence stand in a relation in their order.
Ordered(s, R) == \A i, j \in DOMAIN s : i < j => <<s[i], s[j]>> \in R

LEMMA ConcatOrdered ==
    ASSUME NEW T, NEW s \in Seq(T), NEW t \in Seq(T), NEW R, Ordered(s, R), Ordered(t, R),
           \A i \in DOMAIN s : \A j \in DOMAIN t : <<s[i], t[j]>> \in R
    PROVE  Ordered(s \o t, R)
<1> DEFINE all == s \o t
<1>1. /\ DOMAIN s = 1..Len(s) /\ Len(s) \in Nat
      /\ \A i \in DOMAIN all :
           \/ i \in DOMAIN s /\ all[i] = s[i]
           \/ i > Len(s) /\ i - Len(s) \in DOMAIN t /\ all[i] = t[i - Len(s)]
  BY ConcatElements
<1>2. DOMAIN all \subseteq Nat
  <2>1. all \in Seq(T)
    BY ConcatElements
  <2> QED BY <2>1
<1> HIDE DEF all
<1>3. ASSUME NEW i \in DOMAIN all, NEW j \in DOMAIN all, i < j PROVE <<all[i], all[j]>> \in R
  <2>1. i \in Nat /\ j \in Nat
    BY <1>2
  <2>2. CASE j \in DOMAIN s /\ all[j] = s[j]
    <3>1. i \in DOMAIN s /\ all[i] = s[i]
      BY <1>1, <1>3, <2>1, <2>2
    <3> QED BY <1>3, <2>2, <3>1 DEF Ordered
  <2>3. CASE j - Len(s) \in DOMAIN t /\ all[j] = t[j - Len(s)]
    <3>1. CASE i \in DOMAIN s /\ all[i] = s[i]
      BY <2>3, <3>1
    <3>2. CASE i - Len(s) \in DOMAIN t /\ all[i] = t[i - Len(s)]
      <4>1. i - Len(s) < j - Len(s)
        BY <1>1, <1>3, <2>1
      <4> QED BY <2>3, <3>2, <4>1 DEF Ordered
    <3> QED BY <1>1, <3>1, <3>2
  <2> QED BY <1>1, <2>2, <2>3
<1> QED BY <1>3 DEF Ordered, all

\* What a shard holds of the lines up to n: each segment and record that is kept, once.
Whole(file, segments, records, n) ==
    /\ \A i, j \in DOMAIN segments : i < j => segments[i] < segments[j]
    /\ Lists(segments, {k \in SegmentsOf(file) : k <= n})
    /\ \A i, j \in DOMAIN records : i < j => records[i][1] < records[j][1]
    /\ Lists(records, {x \in RecordsOf(file) : x[1] <= n})

\* While a segment is open the shard ends before its header, and its rows wait.
OpenSegment(file, p) ==
    /\ p.header <= p.number /\ file[p.header].kind = "segment"
    /\ Whole(file, p.segments, p.records, p.header - 1)
    /\ \A k \in p.header + 1..p.number :
        file[k].kind \in {"text", "blank"} /\ Current(file, k - 1) = p.header
    /\ \A i, j \in DOMAIN p.rows : i < j => p.rows[i] < p.rows[j]
    /\ Lists(p.rows, p.header + 1..p.number)

OpenShard(file, p) ==
    /\ p.header = Current(file, p.number)
    /\ p.header = None => Whole(file, p.segments, p.records, p.number)
    /\ p.header # None => OpenSegment(file, p)

\* Lines that are neither kept segments nor records add nothing.
LEMMA WholeSkips ==
    ASSUME NEW file \in Seq(Line), NEW segments, NEW records,
           NEW m \in Nat, NEW n \in Nat, m <= n, Whole(file, segments, records, m),
           \A k \in m + 1..n : /\ k \notin SegmentsOf(file)
                               /\ \A h \in 0..Len(file) : <<k, h>> \notin RecordsOf(file)
    PROVE  Whole(file, segments, records, n)
<1>1. {k \in SegmentsOf(file) : k <= n} = {k \in SegmentsOf(file) : k <= m}
  BY DEF SegmentsOf
<1>2. {x \in RecordsOf(file) : x[1] <= n} = {x \in RecordsOf(file) : x[1] <= m}
  <2>1. ASSUME NEW x \in RecordsOf(file), x[1] <= n PROVE x[1] <= m
    <3>1. x = <<x[1], x[2]>> /\ x[1] \in 1..Len(file) /\ x[2] \in 0..Len(file)
      BY DEF RecordsOf
    <3> QED BY <2>1, <3>1
  <2>2. ASSUME NEW x \in RecordsOf(file), x[1] <= m PROVE x[1] <= n
    BY <2>2 DEF RecordsOf
  <2> QED BY <2>1, <2>2
<1> QED BY <1>1, <1>2 DEF Whole

\* The open segment and its rows are written where its record rules keep it.
LEMMA FlushKept ==
    ASSUME NEW file \in Seq(Line), NEW p \in Shard(file), OpenSegment(file, p),
           p.header # None, file[p.header].kept
    PROVE  Whole(file, FlushSegment(file, p).segments, FlushSegment(file, p).records, p.number)
<1> DEFINE h == p.header
           n == p.number
           rows == [i \in DOMAIN p.rows |-> <<p.rows[i], h>>]
           lines == 1..Len(file)
           Pair == lines \X (0..Len(file))
           Kept == {k \in SegmentsOf(file) : k <= h - 1}
           Old == {x \in RecordsOf(file) : x[1] <= h - 1}
           New == {<<k, h>> : k \in h + 1..n}
<1>1. /\ h \in lines /\ h \in Nat /\ n \in Nat /\ h <= n /\ n <= Len(file) /\ Len(file) \in Nat
      /\ h # None /\ file[h].kind = "segment" /\ file[h].kept
      /\ \A k \in h + 1..n : file[k].kind \in {"text", "blank"} /\ Current(file, k - 1) = h
      /\ p.segments \in Seq(lines) /\ p.rows \in Seq(lines) /\ p.records \in Seq(Pair)
  BY DEF Shard, None, OpenSegment
<1>2. /\ FlushSegment(file, p).segments = Append(p.segments, h)
      /\ FlushSegment(file, p).records = p.records \o rows
  BY DEF FlushSegment, Shard
<1>3. /\ rows \in Seq(Pair) /\ DOMAIN rows = DOMAIN p.rows
      /\ \A i \in DOMAIN rows : rows[i] = <<p.rows[i], h>>
  <2>1. DOMAIN p.rows = 1..Len(p.rows) /\ Len(p.rows) \in Nat /\ \A i \in DOMAIN p.rows : p.rows[i] \in lines
    BY <1>1
  <2>2. \A i \in 1..Len(p.rows) : <<p.rows[i], h>> \in Pair
    BY <1>1, <2>1
  <2> QED BY <2>1, <2>2
<1>4. Whole(file, p.segments, p.records, h - 1) /\ Lists(p.rows, h + 1..n)
  BY DEF OpenSegment
<1> HIDE DEF h, n, rows
<1>5. Lists(Append(p.segments, h), {k \in SegmentsOf(file) : k <= n})
  <2>1. {k \in SegmentsOf(file) : k <= n} = Kept \cup {h}
    <3>1. \A k \in SegmentsOf(file) : k \in Nat /\ file[k].kind = "segment"
      BY <1>1 DEF SegmentsOf
    <3>2. ASSUME NEW k \in SegmentsOf(file), k <= n PROVE k <= h - 1 \/ k = h
      <4>1. k \notin h + 1..n
        BY <1>1, <3>1
      <4> QED BY <1>1, <3>1, <3>2, <4>1
    <3>3. h \in SegmentsOf(file)
      BY <1>1 DEF SegmentsOf
    <3> QED BY <1>1, <3>1, <3>2, <3>3
  <2>2. Lists(p.segments, Kept)
    BY <1>4 DEF Whole
  <2>3. Lists(Append(p.segments, h), Kept \cup {h})
    <3> HIDE DEF Kept
    <3> QED BY <1>1, <2>2, AppendLists
  <2> QED BY <2>1, <2>3
<1>6. \A i, j \in DOMAIN Append(p.segments, h) :
        i < j => Append(p.segments, h)[i] < Append(p.segments, h)[j]
  <2>1. \A i \in DOMAIN p.segments : p.segments[i] < h /\ i \in Nat /\ i < Len(p.segments) + 1
    BY <1>1, <1>4 DEF Whole, Lists
  <2>2. /\ DOMAIN Append(p.segments, h) = DOMAIN p.segments \cup {Len(p.segments) + 1}
        /\ \A i \in DOMAIN p.segments : Append(p.segments, h)[i] = p.segments[i]
        /\ Append(p.segments, h)[Len(p.segments) + 1] = h
    BY <1>1, AppendElements
  <2> QED BY <1>4, <2>1, <2>2 DEF Whole
<1>7. Lists(rows, New)
  <2>1. ASSUME NEW i \in DOMAIN rows PROVE rows[i] \in New
    <3>1. rows[i] = <<p.rows[i], h>> /\ p.rows[i] \in h + 1..n
      BY <1>3, <1>4 DEF Lists
    <3> QED BY <3>1
  <2>2. ASSUME NEW x \in New PROVE \E i \in DOMAIN rows : rows[i] = x
    <3>1. PICK k \in h + 1..n : x = <<k, h>>
      OBVIOUS
    <3>2. PICK i \in DOMAIN p.rows : p.rows[i] = k
      BY <1>4, <3>1 DEF Lists
    <3> QED BY <1>3, <3>1, <3>2
  <2> HIDE DEF New
  <2> QED BY <2>1, <2>2 DEF Lists
<1>8. {x \in RecordsOf(file) : x[1] <= n} = Old \cup New
  <2>1. ASSUME NEW k \in h + 1..n PROVE <<k, h>> \in RecordsOf(file)
    <3>1. k \in lines /\ h \in 0..Len(file)
      BY <1>1
    <3> QED BY <1>1, <3>1, RecordFacts
  <2>2. ASSUME NEW x \in RecordsOf(file), x[1] <= n, ~(x[1] <= h - 1) PROVE x \in New
    <3>1. x = <<x[1], x[2]>> /\ x[1] \in lines /\ x[2] \in 0..Len(file)
      BY DEF RecordsOf
    <3>2. x[1] \in h..n
      BY <1>1, <2>2, <3>1
    <3>3. \/ x[2] = None /\ file[x[1]].kind = "driver" /\ file[x[1]].kept
          \/ /\ file[x[1]].kind \in {"text", "blank"}
             /\ x[2] = Current(file, x[1] - 1) /\ x[2] # None /\ file[x[2]].kept
      BY <2>2, <3>1, RecordFacts
    <3>4. x[1] # h
      BY <1>1, <3>3
    <3>5. x[1] \in h + 1..n
      BY <1>1, <3>2, <3>4
    <3>6. x[2] = h
      BY <1>1, <3>3, <3>5
    <3> QED BY <3>1, <3>5, <3>6
  <2>3. ASSUME NEW x \in Old PROVE x[1] <= n
    BY <1>1, <2>3 DEF RecordsOf
  <2>4. \A x \in New : x[1] <= n
    BY <1>1
  <2> QED BY <2>1, <2>2, <2>3, <2>4
<1>9. Lists(p.records \o rows, {x \in RecordsOf(file) : x[1] <= n})
  <2>1. Lists(p.records, Old)
    BY <1>4 DEF Whole
  <2>2. Lists(p.records \o rows, Old \cup New)
    <3> HIDE DEF Pair, Old, New
    <3> QED BY <1>1, <1>3, <1>7, <2>1, ConcatLists
  <2> QED BY <1>8, <2>2
<1>10. \A i, j \in DOMAIN (p.records \o rows) :
        i < j => (p.records \o rows)[i][1] < (p.records \o rows)[j][1]
  <2> DEFINE R == {x \in Pair \X Pair : x[1][1] < x[2][1]}
  <2>1. ASSUME NEW i \in DOMAIN p.records PROVE p.records[i] \in Pair /\ p.records[i][1] < h
    <3>1. p.records[i] \in RecordsOf(file) /\ p.records[i][1] <= h - 1
      BY <1>4 DEF Whole, Lists
    <3>2. p.records[i] \in Pair
      BY <1>1
    <3>3. p.records[i][1] \in Nat
      BY <3>2
    <3> QED BY <1>1, <3>1, <3>2, <3>3
  <2>2. ASSUME NEW i \in DOMAIN rows PROVE rows[i] \in Pair /\ rows[i][1] = p.rows[i] /\ rows[i][1] > h
    <3>1. p.rows[i] \in h + 1..n
      BY <1>3, <1>4 DEF Lists
    <3>2. p.rows[i] > h
      BY <1>1, <3>1
    <3> QED BY <1>3, <3>2
  <2>3. Ordered(p.records, R)
    BY <1>4, <2>1 DEF Ordered, Whole
  <2>4. Ordered(rows, R)
    <3>1. \A i, j \in DOMAIN p.rows : i < j => p.rows[i] < p.rows[j]
      BY DEF OpenSegment
    <3> QED BY <1>3, <2>2, <3>1 DEF Ordered
  <2>5. ASSUME NEW i \in DOMAIN p.records, NEW j \in DOMAIN rows PROVE <<p.records[i], rows[j]>> \in R
    <3>1. p.records[i] \in Pair /\ p.records[i][1] < h /\ rows[j] \in Pair /\ rows[j][1] > h
      BY <2>1, <2>2
    <3>2. p.records[i][1] \in Nat /\ rows[j][1] \in Nat
      BY <3>1
    <3> QED BY <1>1, <3>1, <3>2
  <2>6. Ordered(p.records \o rows, R)
    <3> HIDE DEF R, Pair
    <3> QED BY <1>1, <1>3, <2>3, <2>4, <2>5, ConcatOrdered
  <2> DEFINE all == p.records \o rows
  <2> HIDE DEF all
  <2> QED BY <2>6 DEF Ordered, all
<1> QED BY <1>2, <1>5, <1>6, <1>9, <1>10 DEF Whole, n

LEMMA FlushWhole ==
    ASSUME NEW file \in Seq(Line), NEW p \in Shard(file), OpenShard(file, p)
    PROVE  Whole(file, FlushSegment(file, p).segments, FlushSegment(file, p).records, p.number)
<1>1. CASE p.header = None
  BY <1>1 DEF OpenShard, FlushSegment
<1>2. CASE p.header # None /\ file[p.header].kept
  BY <1>2, FlushKept DEF OpenShard
<1>3. CASE p.header # None /\ ~file[p.header].kept
  <2>1. FlushSegment(file, p) = p /\ OpenSegment(file, p)
    BY <1>3 DEF FlushSegment, OpenShard
  <2>2. /\ p.header \in 1..Len(file) /\ p.header - 1 \in Nat /\ p.number \in Nat
        /\ p.number <= Len(file) /\ Len(file) \in Nat /\ p.header <= p.number
    BY <1>3, <2>1 DEF Shard, None, OpenSegment
  <2>3. ASSUME NEW k \in (p.header - 1) + 1..p.number
        PROVE  /\ k \notin SegmentsOf(file)
               /\ \A h \in 0..Len(file) : <<k, h>> \notin RecordsOf(file)
    <3>1. k \in 1..Len(file)
      BY <2>2
    <3>2. \/ k = p.header
          \/ file[k].kind \in {"text", "blank"} /\ Current(file, k - 1) = p.header
      BY <2>1, <2>2 DEF OpenSegment
    <3>3. file[p.header].kind = "segment"
      BY <2>1 DEF OpenSegment
    <3>4. k \notin SegmentsOf(file)
      BY <1>3, <3>2, <3>3 DEF SegmentsOf
    <3>5. \A h \in 0..Len(file) : <<k, h>> \notin RecordsOf(file)
      BY <1>3, <3>1, <3>2, <3>3, RecordFacts
    <3> QED BY <3>4, <3>5
  <2>4. Whole(file, p.segments, p.records, p.header - 1)
    BY <2>1 DEF OpenSegment
  <2> QED BY <2>1, <2>2, <2>3, <2>4, WholeSkips
<1> QED BY <1>1, <1>2, <1>3

\* A line that ends the open segment: only what it opens or adds itself remains.
LEMMA ClosedFacts ==
    ASSUME NEW file \in Seq(Line), NEW p \in Shard(file), OpenShard(file, p), p.number < Len(file)
    PROVE  LET q == [Closed(file, p) EXCEPT !.number = p.number + 1]
           IN  /\ q \in Shard(file) /\ q.number = p.number + 1
               /\ q.header = None /\ q.rows = <<>>
               /\ Whole(file, q.segments, q.records, p.number)
<1> DEFINE f == FlushSegment(file, p)
           q == [Closed(file, p) EXCEPT !.number = p.number + 1]
<1>1. f \in Shard(file) /\ Whole(file, f.segments, f.records, p.number)
  BY FlushType, FlushWhole
<1> HIDE DEF f
<1>2. q = [[f EXCEPT !.header = None, !.rows = <<>>] EXCEPT !.number = p.number + 1]
  BY DEF Closed, f
<1>3. /\ p.number + 1 \in 0..Len(file) /\ None \in 0..Len(file) /\ <<>> \in Seq(1..Len(file))
  BY DEF Shard, None
<1>4. /\ q \in Shard(file) /\ q.number = p.number + 1 /\ q.header = None /\ q.rows = <<>>
      /\ q.segments = f.segments /\ q.records = f.records
  BY <1>1, <1>2, <1>3 DEF Shard
<1> QED BY <1>1, <1>4

\* A driver record that is kept is appended without a header.
LEMMA DriverWhole ==
    ASSUME NEW file \in Seq(Line), NEW n \in 1..Len(file), NEW segments \in Seq(1..Len(file)),
           NEW records \in Seq((1..Len(file)) \X (0..Len(file))),
           Whole(file, segments, records, n - 1), file[n].kind = "driver", file[n].kept
    PROVE  Whole(file, segments, Append(records, <<n, None>>), n)
<1> DEFINE Pair == (1..Len(file)) \X (0..Len(file))
           Old == {x \in RecordsOf(file) : x[1] <= n - 1}
           r == Append(records, <<n, None>>)
<1>1. n \in Nat /\ n - 1 \in Nat /\ Len(file) \in Nat /\ None \in 0..Len(file)
  BY DEF None
<1>2. <<n, None>> \in RecordsOf(file)
  BY <1>1, RecordFacts
<1>3. {x \in RecordsOf(file) : x[1] <= n} = Old \cup {<<n, None>>}
  <2>1. ASSUME NEW x \in RecordsOf(file), x[1] <= n, ~(x[1] <= n - 1) PROVE x = <<n, None>>
    <3>1. x = <<x[1], x[2]>> /\ x[1] \in 1..Len(file) /\ x[2] \in 0..Len(file)
      BY DEF RecordsOf
    <3>2. x[1] = n
      BY <1>1, <2>1, <3>1
    <3>3. <<n, x[2]>> \in RecordsOf(file)
      BY <2>1, <3>1, <3>2
    <3>4. x[2] = None
      <4> DEFINE h == x[2]
      <4> HIDE DEF h
      <4>1. h \in 0..Len(file) /\ <<n, h>> \in RecordsOf(file)
        BY <3>1, <3>3 DEF h
      <4>2. h = None
        BY <4>1, RecordFacts
      <4> QED BY <4>2 DEF h
    <3> QED BY <3>1, <3>2, <3>4
  <2>2. ASSUME NEW x \in Old PROVE x[1] <= n
    <3>1. x[1] \in 1..Len(file) /\ x[1] <= n - 1
      BY DEF RecordsOf
    <3> QED BY <1>1, <3>1
  <2>3. <<n, None>>[1] <= n
    BY <1>1
  <2> QED BY <1>2, <2>1, <2>2, <2>3
<1>4. {k \in SegmentsOf(file) : k <= n} = {k \in SegmentsOf(file) : k <= n - 1}
  <2>1. \A k \in SegmentsOf(file) : k \in Nat /\ k # n
    BY <1>1 DEF SegmentsOf
  <2> QED BY <1>1, <2>1
<1>5. Lists(records, Old) /\ <<n, None>> \in Pair
  BY <1>1 DEF Whole
<1>6. Lists(r, Old \cup {<<n, None>>})
  <2> HIDE DEF Pair, Old
  <2>1. records \in Seq(Pair)
    BY DEF Pair
  <2> QED BY <1>5, <2>1, AppendLists
<1>7. \A i, j \in DOMAIN r : i < j => r[i][1] < r[j][1]
  <2>1. /\ DOMAIN r = DOMAIN records \cup {Len(records) + 1}
        /\ \A i \in DOMAIN records : r[i] = records[i] /\ i < Len(records) + 1 /\ i \in Nat
        /\ r[Len(records) + 1] = <<n, None>> /\ Len(records) \in Nat
    <3> HIDE DEF Pair
    <3>1. records \in Seq(Pair) /\ <<n, None>> \in Pair
      BY <1>5 DEF Pair
    <3>2. Len(records) \in Nat /\ DOMAIN records = 1..Len(records)
      BY <3>1
    <3>3. \A i \in DOMAIN records : i \in Nat
      BY <3>2
    <3> QED BY <3>1, <3>2, <3>3, AppendElements
  <2>2. \A i \in DOMAIN records : records[i][1] < n
    <3> TAKE i \in DOMAIN records
    <3>1. records[i] \in Old
      BY <1>5 DEF Lists
    <3>2. records[i][1] \in 1..Len(file) /\ records[i][1] <= n - 1
      BY <3>1 DEF RecordsOf
    <3> QED BY <1>1, <3>2
  <2>3. \A i, j \in DOMAIN records : i < j => records[i][1] < records[j][1]
    BY DEF Whole
  <2> HIDE DEF r
  <2> QED BY <2>1, <2>2, <2>3
<1>8. \A i, j \in DOMAIN segments : i < j => segments[i] < segments[j]
  BY DEF Whole
<1>9. Lists(segments, {k \in SegmentsOf(file) : k <= n})
  BY <1>4 DEF Whole
<1>10. Lists(r, {x \in RecordsOf(file) : x[1] <= n})
  BY <1>3, <1>6
<1> QED BY <1>7, <1>8, <1>9, <1>10 DEF Whole

\* A row of the open segment waits behind the others.
LEMMA RowWaits ==
    ASSUME NEW file \in Seq(Line), NEW p \in Shard(file), OpenSegment(file, p), p.header # None,
           p.number < Len(file), file[p.number + 1].kind \in {"text", "blank"},
           Current(file, p.number) = p.header,
           NEW q, q.header = p.header, q.number = p.number + 1,
           q.segments = p.segments, q.records = p.records, q.rows = Append(p.rows, p.number + 1)
    PROVE  OpenSegment(file, q)
<1> DEFINE n == p.number + 1
           h == p.header
           rows == Append(p.rows, n)
<1>1. /\ n \in 1..Len(file) /\ n \in Nat /\ n - 1 = p.number /\ h \in Nat /\ h <= n - 1
      /\ p.rows \in Seq(1..Len(file))
  <2>1. p.number \in 0..Len(file) /\ h \in 0..Len(file) /\ Len(file) \in Nat /\ p.rows \in Seq(1..Len(file))
    BY DEF Shard
  <2> QED BY <2>1 DEF OpenSegment
<1>2. (h + 1..n - 1) \cup {n} = h + 1..n
  BY <1>1
<1>3. Lists(p.rows, h + 1..n - 1) /\ \A i, j \in DOMAIN p.rows : i < j => p.rows[i] < p.rows[j]
  BY <1>1 DEF OpenSegment
<1>4. \A k \in h + 1..n - 1 : file[k].kind \in {"text", "blank"} /\ Current(file, k - 1) = h
  BY <1>1 DEF OpenSegment
<1>5. file[n].kind \in {"text", "blank"} /\ Current(file, n - 1) = h
  BY <1>1
<1> HIDE DEF n, h
<1>6. Lists(rows, h + 1..n)
  BY <1>1, <1>2, <1>3, AppendLists
<1>7. \A i, j \in DOMAIN rows : i < j => rows[i] < rows[j]
  <2>1. \A i \in DOMAIN p.rows : p.rows[i] < n
    <3> TAKE i \in DOMAIN p.rows
    <3>1. p.rows[i] \in h + 1..n - 1
      BY <1>3 DEF Lists
    <3> QED BY <1>1, <3>1
  <2> QED BY <1>1, <1>3, <2>1, AppendAscends
<1>8. \A k \in h + 1..n : file[k].kind \in {"text", "blank"} /\ Current(file, k - 1) = h
  BY <1>2, <1>4, <1>5
<1>9. /\ q.header = h /\ q.number = n /\ q.rows = rows /\ h <= n
      /\ file[h].kind = "segment" /\ Whole(file, q.segments, q.records, h - 1)
  BY <1>1 DEF n, h, OpenSegment
<1> HIDE DEF rows
<1> QED BY <1>6, <1>7, <1>8, <1>9 DEF OpenSegment

LEMMA ReadWhole ==
    ASSUME NEW file \in Seq(Line), NEW p \in Shard(file), OpenShard(file, p), p.number < Len(file)
    PROVE  OpenShard(file, ReadLine(file, p))
<1> DEFINE n == p.number + 1
           q == [Closed(file, p) EXCEPT !.number = n]
           next == [p EXCEPT !.number = n]
           kind == file[n].kind
           r == ReadLine(file, p)
<1>1. /\ n \in 1..Len(file) /\ n \in Nat /\ n - 1 = p.number /\ p.number \in Nat /\ n # None
      /\ None \in 0..Len(file) /\ Len(file) \in Nat
  <2>1. p.number \in 0..Len(file) /\ Len(file) \in Nat
    BY DEF Shard
  <2> QED BY <2>1 DEF None
<1>2. /\ q \in Shard(file) /\ q.number = n /\ q.header = None /\ q.rows = <<>>
      /\ Whole(file, q.segments, q.records, n - 1)
  BY <1>1, ClosedFacts
<1>3. Current(file, n) = IF kind = "segment" THEN n
                         ELSE IF kind \in {"driver", "invalid"} THEN None
                         ELSE Current(file, p.number)
  BY <1>1, CurrentStep
<1>4. kind \in {"segment", "driver", "invalid", "text", "blank"} /\ file[n].kept \in BOOLEAN
  <2>1. file[n] \in Line
    BY <1>1
  <2> QED BY <2>1 DEF Line
<1>5. p.header = Current(file, p.number)
  BY DEF OpenShard
<1>6. /\ next \in Shard(file) /\ next.number = n /\ next.header = p.header /\ next.rows = p.rows
      /\ next.segments = p.segments /\ next.records = p.records
  <2>1. n \in 0..Len(file)
    BY <1>1
  <2> QED BY <2>1 DEF Shard
<1>7. /\ kind = "segment" => r = [q EXCEPT !.header = n]
      /\ kind = "driver" /\ file[n].kept => r = [q EXCEPT !.records = Append(@, <<n, None>>)]
      /\ kind = "driver" /\ ~file[n].kept => r = q
      /\ kind = "invalid" => r = [q EXCEPT !.diagnosed = @ \cup {n}]
      /\ kind \in {"text", "blank"} /\ p.header # None => r = [next EXCEPT !.rows = Append(@, n)]
      /\ kind = "text" /\ p.header = None => r = [next EXCEPT !.diagnosed = @ \cup {n}]
      /\ kind = "blank" /\ p.header = None => r = next
  BY DEF ReadLine
<1>8. (n - 1) + 1..n = {n}
  BY <1>1
<1> SUFFICES OpenShard(file, r)
  OBVIOUS
<1> HIDE DEF n, q, next, kind, r
<1>9. ASSUME n \notin SegmentsOf(file), \A h \in 0..Len(file) : <<n, h>> \notin RecordsOf(file),
             NEW segments, NEW records, Whole(file, segments, records, n - 1)
      PROVE  Whole(file, segments, records, n)
  BY <1>1, <1>8, <1>9, WholeSkips
<1>10. CASE kind = "segment"
  <2>1. r.header = n /\ r.number = n /\ r.rows = <<>> /\ r.segments = q.segments /\ r.records = q.records
    BY <1>2, <1>7, <1>10 DEF Shard
  <2>2. Lists(<<>>, n + 1..n) /\ DOMAIN <<>> = {} /\ n + 1..n = {}
    BY <1>1 DEF Lists
  <2>3. OpenSegment(file, r)
    BY <1>1, <1>2, <1>10, <2>1, <2>2 DEF OpenSegment, kind
  <2> QED BY <1>1, <1>3, <1>10, <2>1, <2>3 DEF OpenShard
<1>11. CASE kind = "driver" /\ file[n].kept
  <2>1. /\ r.header = None /\ r.number = n /\ r.segments = q.segments
        /\ r.records = Append(q.records, <<n, None>>)
    BY <1>2, <1>7, <1>11 DEF Shard
  <2>2. /\ q.segments \in Seq(1..Len(file)) /\ q.records \in Seq((1..Len(file)) \X (0..Len(file)))
    BY <1>2 DEF Shard
  <2>3. Whole(file, r.segments, r.records, n)
    BY <1>1, <1>2, <1>11, <2>1, <2>2, DriverWhole DEF kind
  <2> QED BY <1>3, <1>11, <2>1, <2>3 DEF OpenShard
<1>12. CASE (kind = "driver" /\ ~file[n].kept) \/ kind = "invalid"
  <2>1. /\ r.header = None /\ r.number = n /\ r.segments = q.segments /\ r.records = q.records
    BY <1>2, <1>7, <1>12 DEF Shard
  <2>2. n \notin SegmentsOf(file)
    BY <1>12 DEF SegmentsOf, kind
  <2>3. \A h \in 0..Len(file) : <<n, h>> \notin RecordsOf(file)
    BY <1>1, <1>12, RecordFacts DEF kind
  <2>4. Whole(file, r.segments, r.records, n)
    BY <1>2, <1>9, <2>1, <2>2, <2>3
  <2> QED BY <1>3, <1>12, <2>1, <2>4 DEF OpenShard
<1>13. CASE kind \in {"text", "blank"} /\ p.header # None
  <2>1. /\ r.header = p.header /\ r.number = n /\ r.segments = p.segments
        /\ r.records = p.records /\ r.rows = Append(p.rows, n)
    BY <1>6, <1>7, <1>13 DEF Shard
  <2>2. OpenSegment(file, p)
    BY <1>13 DEF OpenShard
  <2>3. OpenSegment(file, r)
    BY <1>1, <1>5, <1>13, <2>1, <2>2, RowWaits DEF n, kind
  <2>4. r.header = Current(file, n)
    BY <1>3, <1>5, <1>13, <2>1
  <2> QED BY <1>13, <2>1, <2>3, <2>4 DEF OpenShard
<1>14. CASE kind \in {"text", "blank"} /\ p.header = None
  <2>1. /\ r.header = None /\ r.number = n /\ r.segments = p.segments /\ r.records = p.records
    BY <1>4, <1>6, <1>7, <1>14 DEF Shard
  <2>2. n \notin SegmentsOf(file)
    BY <1>14 DEF SegmentsOf, kind
  <2>3. \A h \in 0..Len(file) : <<n, h>> \notin RecordsOf(file)
    <3>1. file[n].kind \in {"text", "blank"} /\ Current(file, n - 1) = None
      BY <1>1, <1>5, <1>14 DEF kind
    <3> QED BY <1>1, <3>1, RecordFacts
  <2>4. Whole(file, p.segments, p.records, n - 1)
    BY <1>1, <1>14 DEF OpenShard
  <2>5. Whole(file, r.segments, r.records, n)
    BY <1>9, <2>1, <2>2, <2>3, <2>4
  <2>6. r.header = Current(file, n)
    BY <1>3, <1>5, <1>14, <2>1
  <2> QED BY <2>1, <2>5, <2>6 DEF OpenShard
<1> QED BY <1>4, <1>10, <1>11, <1>12, <1>13, <1>14

LEMMA NewWhole ==
    ASSUME NEW file \in Seq(Line)
    PROVE  OpenShard(file, NewShard)
<1>1. Current(file, 0) = None
  BY DEF Current, HeaderOf, None
<1>2. /\ {k \in SegmentsOf(file) : k <= 0} = {}
      /\ {x \in RecordsOf(file) : x[1] <= 0} = {}
  BY DEF SegmentsOf, RecordsOf
<1>3. Whole(file, <<>>, <<>>, 0)
  BY <1>2 DEF Whole, Lists
<1> QED BY <1>1, <1>3 DEF OpenShard, NewShard, None

\* Every parser's shard, and the index that is merged from those that are done.
ShardsInv ==
    \A r \in Ranks :
        /\ task[r] \in {"none", "queued", "running"} => OpenShard(files[r], shard[r])
        /\ task[r] = "done" =>
            Whole(files[r], shard[r].segments, shard[r].records, Len(files[r]))

RecordBefore(x, y) == x[1] < y[1] \/ (x[1] = y[1] /\ x[2][1] < y[2][1])

RowBefore(x, y) == x.rank < y.rank \/ (x.rank = y.rank /\ x.line < y.line)

MergedRecords(records, k) ==
    /\ records \in Seq(Nat \X (Nat \X Nat))
    /\ \A i, j \in DOMAIN records : i < j => RecordBefore(records[i], records[j])
    /\ Lists(records, {x \in (1..k) \X (Nat \X Nat) : x[2] \in RecordsOf(files[x[1]])})

\* A row of the index is what its header says.
MergedSegments(segments, k) ==
    /\ segments \in Seq(SegmentRow)
    /\ \A i, j \in DOMAIN segments : i < j => RowBefore(segments[i], segments[j])
    /\ \A i \in DOMAIN segments :
        segments[i].rank \in 1..k /\ segments[i].line \in SegmentsOf(files[segments[i].rank])
    /\ \A r \in 1..k : \A n \in SegmentsOf(files[r]) :
        \E i \in DOMAIN segments : segments[i].rank = r /\ segments[i].line = n

MergedInv ==
    /\ MergedRecords(index.records, merged)
    /\ MergedSegments(index.segments, merged)
    /\ phase = "publishing" \/ manifest = "ready" => merged = Len(files)

LEMMA MergeRecords ==
    ASSUME NEW k \in Nat, k + 1 \in Ranks, files[k + 1] \in Seq(Line), NEW records,
           MergedRecords(records, k), NEW p \in Shard(files[k + 1]),
           Whole(files[k + 1], p.segments, p.records, Len(files[k + 1]))
    PROVE  MergedRecords(records \o [i \in DOMAIN p.records |-> <<k + 1, p.records[i]>>], k + 1)
<1> DEFINE r == k + 1
           file == files[k + 1]
           Entry == Nat \X (Nat \X Nat)
           new == [i \in DOMAIN p.records |-> <<r, p.records[i]>>]
           all == records \o new
           Upto(n) == {x \in (1..n) \X (Nat \X Nat) : x[2] \in RecordsOf(files[x[1]])}
           New == {<<r, y>> : y \in RecordsOf(file)}
<1>1. /\ records \in Seq(Entry) /\ Lists(records, Upto(k))
      /\ \A i, j \in DOMAIN records : i < j => RecordBefore(records[i], records[j])
  BY DEF MergedRecords
<1>2. /\ DOMAIN p.records = 1..Len(p.records) /\ Len(p.records) \in Nat
      /\ \A i \in DOMAIN p.records : p.records[i] \in Nat \X Nat
  <2>1. p.records \in Seq((1..Len(file)) \X (0..Len(file))) /\ Len(file) \in Nat
    BY DEF Shard
  <2> QED BY <2>1
<1>3. /\ new \in Seq(Entry) /\ DOMAIN new = DOMAIN p.records
      /\ \A i \in DOMAIN new : new[i] = <<r, p.records[i]>>
  <2>1. \A i \in 1..Len(p.records) : <<r, p.records[i]>> \in Entry
    BY <1>2
  <2> QED BY <1>2, <2>1
<1>4. \A y \in RecordsOf(file) : y \in Nat \X Nat /\ y[1] <= Len(file)
  <2>1. Len(file) \in Nat
    OBVIOUS
  <2> QED BY <2>1 DEF RecordsOf
<1>5. /\ Lists(p.records, RecordsOf(file))
      /\ \A i, j \in DOMAIN p.records : i < j => p.records[i][1] < p.records[j][1]
  <2>1. {x \in RecordsOf(file) : x[1] <= Len(file)} = RecordsOf(file)
    BY <1>4
  <2> QED BY <2>1 DEF Whole
<1>6. Lists(new, New)
  <2>1. \A i \in DOMAIN new : new[i] \in New
    BY <1>3, <1>5 DEF Lists
  <2>2. ASSUME NEW x \in New PROVE \E i \in DOMAIN new : new[i] = x
    <3>1. PICK y \in RecordsOf(file) : x = <<r, y>>
      OBVIOUS
    <3>2. PICK i \in DOMAIN p.records : p.records[i] = y
      BY <1>5, <3>1 DEF Lists
    <3> QED BY <1>3, <3>1, <3>2
  <2> HIDE DEF New, new
  <2> QED BY <2>1, <2>2 DEF Lists
<1>7. Upto(r) = Upto(k) \cup New
  <2>1. 1..r = (1..k) \cup {r}
    OBVIOUS
  <2>2. ASSUME NEW x \in Upto(r) PROVE x \in Upto(k) \/ x \in New
    BY <2>1
  <2>3. Upto(k) \subseteq Upto(r)
    BY <2>1
  <2>4. New \subseteq Upto(r)
    BY <1>4, <2>1
  <2> QED BY <2>2, <2>3, <2>4
<1>8. all \in Seq(Entry) /\ Lists(all, Upto(k) \cup New)
  <2> HIDE DEF Entry, New, Upto, new
  <2> QED BY <1>1, <1>3, <1>6, ConcatElements, ConcatLists
<1>9. \A i, j \in DOMAIN all : i < j => RecordBefore(all[i], all[j])
  <2> DEFINE R == {x \in Entry \X Entry : RecordBefore(x[1], x[2])}
  <2>1. Ordered(records, R)
    BY <1>1 DEF Ordered
  <2>2. Ordered(new, R)
    <3>1. \A i \in DOMAIN new : new[i] \in Entry /\ new[i][1] = r /\ new[i][2] = p.records[i]
      BY <1>3
    <3> HIDE DEF new
    <3> QED BY <1>3, <1>5, <3>1 DEF Ordered, RecordBefore
  <2>3. ASSUME NEW i \in DOMAIN records, NEW j \in DOMAIN new PROVE <<records[i], new[j]>> \in R
    <3>1. records[i] \in Entry /\ new[j] \in Entry
      BY <1>1, <1>3
    <3>2. records[i][1] \in 1..k
      BY <1>1 DEF Lists
    <3>3. new[j][1] = r
      BY <1>3
    <3> QED BY <3>1, <3>2, <3>3 DEF RecordBefore
  <2>4. Ordered(all, R)
    <3> HIDE DEF R, Entry, new
    <3> QED BY <1>1, <1>3, <2>1, <2>2, <2>3, ConcatOrdered
  <2> HIDE DEF all
  <2> QED BY <2>4 DEF Ordered
<1> QED BY <1>7, <1>8, <1>9 DEF MergedRecords

LEMMA MergeSegments ==
    ASSUME NEW k \in Nat, k + 1 \in Ranks, files[k + 1] \in Seq(Line), NEW segments,
           MergedSegments(segments, k), NEW p \in Shard(files[k + 1]),
           Whole(files[k + 1], p.segments, p.records, Len(files[k + 1])),
           [i \in DOMAIN p.segments |-> Row(k + 1, p.segments[i])] \in Seq(SegmentRow)
    PROVE  MergedSegments(segments \o [i \in DOMAIN p.segments |-> Row(k + 1, p.segments[i])], k + 1)
<1> DEFINE r == k + 1
           file == files[k + 1]
           new == [i \in DOMAIN p.segments |-> Row(r, p.segments[i])]
           all == segments \o new
<1>1. /\ segments \in Seq(SegmentRow) /\ new \in Seq(SegmentRow)
      /\ \A i, j \in DOMAIN segments : i < j => RowBefore(segments[i], segments[j])
      /\ \A i \in DOMAIN segments :
           segments[i].rank \in 1..k /\ segments[i].line \in SegmentsOf(files[segments[i].rank])
      /\ \A q \in 1..k : \A n \in SegmentsOf(files[q]) :
           \E i \in DOMAIN segments : segments[i].rank = q /\ segments[i].line = n
  BY DEF MergedSegments
<1>2. /\ DOMAIN new = DOMAIN p.segments
      /\ \A i \in DOMAIN new : new[i].rank = r /\ new[i].line = p.segments[i]
  BY DEF Row
<1>3. /\ Lists(p.segments, SegmentsOf(file))
      /\ \A i, j \in DOMAIN p.segments : i < j => p.segments[i] < p.segments[j]
  <2>1. {n \in SegmentsOf(file) : n <= Len(file)} = SegmentsOf(file)
    BY DEF SegmentsOf
  <2> QED BY <2>1 DEF Whole
<1> HIDE DEF new
<1>4. /\ all \in Seq(SegmentRow)
      /\ \A n \in DOMAIN all :
          \/ n \in DOMAIN segments /\ all[n] = segments[n]
          \/ /\ n > Len(segments) /\ n - Len(segments) \in DOMAIN new
             /\ all[n] = new[n - Len(segments)]
      /\ \A n \in DOMAIN segments : n \in DOMAIN all /\ all[n] = segments[n]
      /\ \A n \in DOMAIN new : Len(segments) + n \in DOMAIN all /\ all[Len(segments) + n] = new[n]
  BY <1>1, ConcatElements
<1> HIDE DEF all
<1>5. \A i, j \in DOMAIN all : i < j => RowBefore(all[i], all[j])
  <2> DEFINE R == {x \in SegmentRow \X SegmentRow : RowBefore(x[1], x[2])}
  <2>1. Ordered(segments, R)
    BY <1>1 DEF Ordered
  <2>2. Ordered(new, R)
    <3>1. \A i \in DOMAIN new : new[i] \in SegmentRow
      BY <1>1
    <3> QED BY <1>2, <1>3, <3>1 DEF Ordered, RowBefore
  <2>3. ASSUME NEW i \in DOMAIN segments, NEW j \in DOMAIN new PROVE <<segments[i], new[j]>> \in R
    <3>1. segments[i] \in SegmentRow /\ new[j] \in SegmentRow
      BY <1>1
    <3>2. segments[i].rank \in 1..k /\ new[j].rank = r
      BY <1>1, <1>2
    <3> QED BY <3>1, <3>2 DEF RowBefore
  <2>4. Ordered(all, R)
    <3> HIDE DEF R
    <3> QED BY <1>1, <2>1, <2>2, <2>3, ConcatOrdered DEF all
  <2> QED BY <2>4 DEF Ordered
<1>6. ASSUME NEW i \in DOMAIN all
      PROVE  all[i].rank \in 1..r /\ all[i].line \in SegmentsOf(files[all[i].rank])
  <2>1. CASE i \in DOMAIN segments /\ all[i] = segments[i]
    BY <1>1, <2>1
  <2>2. CASE i - Len(segments) \in DOMAIN new /\ all[i] = new[i - Len(segments)]
    <3>1. p.segments[i - Len(segments)] \in SegmentsOf(file)
      BY <1>2, <1>3, <2>2 DEF Lists
    <3> QED BY <1>2, <2>2, <3>1
  <2> QED BY <1>4, <2>1, <2>2
<1>7. ASSUME NEW q \in 1..r, NEW n \in SegmentsOf(files[q])
      PROVE  \E i \in DOMAIN all : all[i].rank = q /\ all[i].line = n
  <2>1. CASE q \in 1..k
    <3>1. PICK i \in DOMAIN segments : segments[i].rank = q /\ segments[i].line = n
      BY <1>1, <2>1
    <3> QED BY <1>4, <3>1
  <2>2. CASE q = r
    <3>1. PICK i \in DOMAIN p.segments : p.segments[i] = n
      BY <1>3, <2>2 DEF Lists
    <3>2. Len(segments) + i \in DOMAIN all /\ all[Len(segments) + i] = new[i]
      BY <1>2, <1>4
    <3> QED BY <1>2, <2>2, <3>1, <3>2
  <2> QED BY <2>1, <2>2
<1> QED BY <1>4, <1>5, <1>6, <1>7 DEF MergedSegments, all, new

LEMMA InitMerged == Init => ShardsInv /\ MergedInv
<1> SUFFICES ASSUME Init PROVE ShardsInv /\ MergedInv
  OBVIOUS
<1>1. \A r \in Ranks : files[r] \in Seq(Line)
  BY PoolAssumption DEF Init, Ranks
<1>2. ShardsInv
  BY <1>1, NewWhole DEF ShardsInv, Init
<1>3. MergedRecords(<<>>, 0)
  BY DEF MergedRecords, Lists
<1>4. MergedSegments(<<>>, 0)
  BY DEF MergedSegments
<1>5. index.records = <<>> /\ index.segments = <<>> /\ merged = 0
  BY DEF Init
<1>6. phase = "collecting" /\ manifest = "collecting"
  BY DEF Init
<1> QED BY <1>2, <1>3, <1>4, <1>5, <1>6 DEF MergedInv

\* A step of one parser keeps what its shard and the others hold.
LEMMA ParserShards ==
    ASSUME IInv, FileTypes, ShardsInv, NEW r \in Ranks,
           StartParser(r) \/ ParseLine(r) \/ FinishParser(r) \/ ParserFails(r) \/ DropFuture(r)
    PROVE  ShardsInv'
<1> USE FilesFacts
<1>0. /\ UNCHANGED files /\ Ranks' = Ranks /\ DOMAIN shard = Ranks
      /\ task \in [Ranks -> TaskStates] /\ shard[r] \in Shard(files[r])
  BY DEF StartParser, ParseLine, FinishParser, ParserFails, DropFuture, parserUnchanged, Ranks,
     FileTypes, IInv, PoolTypes
<1>1. CASE StartParser(r)
  <2>1. /\ UNCHANGED shard /\ task[r] = "queued"
        /\ task' = [task EXCEPT ![r] = IF WorkerCancelled THEN "cancelled" ELSE "running"]
    BY <1>1 DEF StartParser, Becomes
  <2> QED BY <1>0, <2>1 DEF ShardsInv
<1>2. CASE ParseLine(r)
  <2>1. task[r] = "running" /\ shard[r].number < Len(files[r])
    BY <1>2 DEF ParseLine
  <2>2. OpenShard(files[r], ReadLine(files[r], shard[r]))
    BY <1>0, <2>1, ReadWhole DEF ShardsInv
  <2>3. \/ task' = [task EXCEPT ![r] = "cancelled"] /\ UNCHANGED shard
        \/ shard' = [shard EXCEPT ![r] = ReadLine(files[r], @)] /\ UNCHANGED task
    BY <1>2 DEF ParseLine, Becomes
  <2>4. CASE task' = [task EXCEPT ![r] = "cancelled"] /\ UNCHANGED shard
    BY <1>0, <2>4 DEF ShardsInv
  <2>5. CASE shard' = [shard EXCEPT ![r] = ReadLine(files[r], @)] /\ UNCHANGED task
    <3>1. shard'[r] = ReadLine(files[r], shard[r]) /\ \A q \in Ranks : q # r => shard'[q] = shard[q]
      BY <1>0, <2>5
    <3> QED BY <1>0, <2>1, <2>2, <2>5, <3>1 DEF ShardsInv
  <2> QED BY <2>3, <2>4, <2>5
<1>3. CASE FinishParser(r)
  <2>1. /\ task[r] = "running" /\ shard[r].number = Len(files[r])
        /\ shard' = [shard EXCEPT ![r] = FlushSegment(files[r], @)]
        /\ task' = [task EXCEPT ![r] = Verdict(r)]
    BY <1>3 DEF FinishParser, Becomes
  <2>4. Verdict(r) \in {"cancelled", "failed", "done"}
    BY Zenon DEF Verdict
  <2>2. Whole(files[r], FlushSegment(files[r], shard[r]).segments,
              FlushSegment(files[r], shard[r]).records, Len(files[r]))
    BY <1>0, <2>1, FlushWhole DEF ShardsInv
  <2>3. /\ shard'[r] = FlushSegment(files[r], shard[r]) /\ task'[r] \in {"cancelled", "failed", "done"}
        /\ \A q \in Ranks : q # r => shard'[q] = shard[q] /\ task'[q] = task[q]
    BY <1>0, <2>1, <2>4
  <2> QED BY <1>0, <2>2, <2>3 DEF ShardsInv
<1>4. CASE ParserFails(r) \/ DropFuture(r)
  <2>1. /\ UNCHANGED shard
        /\ task' = [task EXCEPT ![r] = "failed"] \/ task' = [task EXCEPT ![r] = "dropped"]
    BY <1>4 DEF ParserFails, DropFuture, Becomes
  <2>2. /\ task'[r] \in {"failed", "dropped"}
        /\ \A q \in Ranks : q # r => task'[q] = task[q]
    BY <1>0, <2>1
  <2> QED BY <1>0, <2>1, <2>2 DEF ShardsInv
<1> QED BY <1>1, <1>2, <1>3, <1>4

LEMMA StepShards == IInv /\ FileTypes /\ ShardsInv /\ [Next]_vars => ShardsInv'
<1> SUFFICES ASSUME IInv, FileTypes, ShardsInv, [Next]_vars PROVE ShardsInv'
  OBVIOUS
<1>1. ASSUME UNCHANGED <<files, shard, task>> PROVE ShardsInv'
  BY <1>1 DEF ShardsInv, Ranks
<1>2. CASE Submit
  <2>1. CASE cancelled
    BY <1>1, <1>2, <2>1 DEF Submit, Raise, CancelledHere
  <2>2. CASE ~cancelled
    <3>1. /\ \A r \in Ranks : task[r] = "none"
          /\ UNCHANGED <<files, shard>> /\ task' = [r \in Ranks |-> "queued"] /\ Ranks' = Ranks
      BY <1>2, <2>2 DEF Submit, IInv, PhaseInv, Ranks
    <3> QED BY <3>1 DEF ShardsInv
  <2> QED BY <2>1, <2>2
<1>3. ASSUME NEW r \in Ranks, DropFuture(r) PROVE ShardsInv'
  BY <1>3, ParserShards
<1>4. CASE ParserStep
  BY <1>4, ParserShards DEF ParserStep
<1>5. CASE \/ StartIndex \/ MergeShard \/ Assign \/ ReportMissing \/ Publish \/ Abort
           \/ Announce \/ StepFails \/ \E r \in Ranks : Collect(r)
  BY <1>1, <1>5 DEF StartIndex, MergeShard, Assign, ReportMissing, Publish, Abort, Collect,
     Announce, StepFails, Raise, CancelledHere, poolVars
<1>6. CASE Cancel \/ Ended \/ (\E r \in Ranks : SourceChanges(r)) \/ UNCHANGED vars
  BY <1>1, <1>6 DEF Cancel, Ended, SourceChanges, vars, poolVars
<1> QED BY <1>2, <1>3, <1>4, <1>5, <1>6 DEF Next, MainStep

\* Only a shard whose parser is done, and that is whole, is merged.
LEMMA MergeMerged ==
    ASSUME IInv, FileTypes, ShardsInv, MergedInv, MergeShard, ~cancelled
    PROVE  MergedInv'
<1> DEFINE r == merged + 1
           p == shard[r]
<1>1. /\ merged \in Nat /\ r \in Nat /\ r \in Ranks /\ files[r] \in Seq(Line) /\ p \in Shard(files[r])
  BY FilesFacts DEF MergeShard, FileTypes
<1>2. task[r] = "done"
  BY <1>1 DEF IInv, TaskInv, PhaseInv, MergeShard
<1>3. Whole(files[r], p.segments, p.records, Len(files[r]))
  BY <1>1, <1>2 DEF ShardsInv
<1>4. [i \in DOMAIN p.segments |-> Row(r, p.segments[i])] \in Seq(SegmentRow)
  <2>1. /\ DOMAIN p.segments = 1..Len(p.segments) /\ Len(p.segments) \in Nat
        /\ \A i \in DOMAIN p.segments : p.segments[i] \in 1..Len(files[r])
    BY <1>1 DEF Shard
  <2>2. ASSUME NEW i \in 1..Len(p.segments) PROVE Row(r, p.segments[i]) \in SegmentRow
    <3>1. p.segments[i] \in 1..Len(files[r]) /\ files[r][p.segments[i]] \in Line
      BY <1>1, <2>1
    <3> HIDE DEF r, p
    <3> QED BY <1>1, <3>1 DEF Row, SegmentRow, Line
  <2> QED BY <2>1, <2>2
<1>5. /\ merged' = r /\ UNCHANGED <<files, phase, manifest>> /\ phase = "indexing" /\ Ranks' = Ranks
      /\ index'.segments = index.segments \o [i \in DOMAIN p.segments |-> Row(r, p.segments[i])]
      /\ index'.records = index.records \o [i \in DOMAIN p.records |-> <<r, p.records[i]>>]
  <2>1. /\ index' = [segments |-> index.segments \o [i \in DOMAIN p.segments |-> Row(r, p.segments[i])],
                     records |-> index.records \o [i \in DOMAIN p.records |-> <<r, p.records[i]>>]]
        /\ merged' = r /\ UNCHANGED <<files, phase, manifest>> /\ phase = "indexing"
    BY DEF MergeShard
  <2> QED BY <2>1 DEF Ranks
<1>6. MergedRecords(index'.records, r)
  BY <1>1, <1>3, <1>5, MergeRecords DEF MergedInv
<1>7. MergedSegments(index'.segments, r)
  BY <1>1, <1>3, <1>4, <1>5, MergeSegments DEF MergedInv
<1>8. manifest # "ready"
  BY <1>5 DEF IInv, ManifestInv
<1> HIDE DEF r
<1>9. MergedRecords(index.records, merged)' /\ MergedSegments(index.segments, merged)'
  BY <1>5, <1>6, <1>7 DEF MergedRecords, MergedSegments
<1> QED BY <1>5, <1>8, <1>9 DEF MergedInv

LEMMA StepMerged == IInv /\ FileTypes /\ ShardsInv /\ MergedInv /\ [Next]_vars => MergedInv'
<1> SUFFICES ASSUME IInv, FileTypes, ShardsInv, MergedInv, [Next]_vars PROVE MergedInv'
  OBVIOUS
<1>1. ASSUME UNCHANGED <<files, index, merged>>,
             (phase = "publishing" \/ manifest = "ready" => merged = Len(files))'
      PROVE  MergedInv'
  BY <1>1 DEF MergedInv, MergedRecords, MergedSegments
<1>2. ASSUME NEW why \in {"failed", "cancelled"}, Raise(why) PROVE MergedInv'
  BY <1>1, <1>2 DEF Raise, MergedInv, indexVars
<1>3. CASE MergeShard
  BY <1>2, <1>3, MergeMerged DEF MergeShard, CancelledHere
<1>4. CASE Submit \/ StartIndex \/ Publish \/ Announce \/ StepFails \/ Abort
  <2>1. CASE cancelled /\ (Submit \/ StartIndex \/ Publish)
    BY <1>2, <1>4, <2>1 DEF Submit, StartIndex, Publish, CancelledHere
  <2>2. CASE ~cancelled /\ (Submit \/ StartIndex)
    BY <1>1, <2>2 DEF Submit, StartIndex, indexVars
  <2>3. CASE ~cancelled /\ Publish
    BY <1>1, <2>3 DEF Publish, MergedInv, indexVars
  <2>4. CASE Abort
    <3>1. manifest' \in {manifest, "none", "failed", "cancelled"} /\ phase' = "over"
      BY <2>4 DEF Abort, IInv, PoolTypes
    <3> QED BY <1>1, <2>4, <3>1 DEF Abort, MergedInv, indexVars
  <2>5. CASE Announce
    BY <1>1, <2>5 DEF Announce, MergedInv, indexVars
  <2>6. CASE StepFails
    BY <1>2, <2>6 DEF StepFails
  <2> QED BY <1>4, <2>1, <2>2, <2>3, <2>4, <2>5, <2>6 DEF IInv, PoolTypes
<1>5. CASE Assign \/ ReportMissing
  BY <1>1, <1>2, <1>5 DEF Assign, ReportMissing, CancelledHere, MergedInv, poolVars
<1>6. ASSUME NEW r \in Ranks, Collect(r) PROVE MergedInv'
  BY <1>1, <1>2, <1>6 DEF Collect, CancelledHere, MergedInv, indexVars
<1>7. ASSUME NEW r \in Ranks, DropFuture(r) \/ SourceChanges(r) PROVE MergedInv'
  BY <1>1, <1>7 DEF DropFuture, SourceChanges, parserUnchanged, MergedInv, indexVars
<1>8. CASE ParserStep
  BY <1>1, <1>8 DEF ParserStep, StartParser, ParseLine, FinishParser, ParserFails, parserUnchanged,
     MergedInv, indexVars
<1>9. CASE Cancel \/ Ended \/ UNCHANGED vars
  BY <1>1, <1>9 DEF Cancel, Ended, vars, MergedInv, indexVars
<1> QED BY <1>3, <1>4, <1>5, <1>6, <1>7, <1>8, <1>9 DEF Next, MainStep

LEMMA MergedInvariance == Spec => [](ShardsInv /\ MergedInv)
<1>1. Spec => []IInv
  BY Invariance
<1>2. Spec => []FileTypes
  BY FilesInvariance
<1>3. IInv /\ FileTypes /\ ShardsInv /\ MergedInv /\ [Next]_vars => ShardsInv' /\ MergedInv'
  BY StepShards, StepMerged
<1> QED BY InitMerged, <1>1, <1>2, <1>3, PTL DEF Spec

\* Whatever order the parsers ran and ended in, a ready batch holds every record and
\* segment its rules keep, once, under its own header, in the order of sources and lines.
THEOREM ReadyIndexTheorem == Spec => []ReadyIndexIsWhole
<1>1. ASSUME FileTypes, MergedInv, manifest = "ready" PROVE ReadyIndexIsWhole
  <2>1. /\ MergedRecords(index.records, Len(files)) /\ MergedSegments(index.segments, Len(files))
        /\ Ranks = 1..Len(files) /\ \A r \in Ranks : files[r] \in Seq(Line)
    BY <1>1, FilesFacts DEF MergedInv
  <2>2. ASSUME NEW r \in Ranks
        PROVE  {x[2] : x \in {y \in Range(index.records) : y[1] = r}} = RecordsOf(files[r])
    <3>1. ASSUME NEW x \in Range(index.records), x[1] = r PROVE x[2] \in RecordsOf(files[r])
      BY <2>1, <3>1 DEF MergedRecords, Lists, Range
    <3>2. ASSUME NEW y \in RecordsOf(files[r])
          PROVE  \E x \in Range(index.records) : x[1] = r /\ x[2] = y
      <4>1. y \in Nat \X Nat
        <5>1. files[r] \in Seq(Line) /\ Len(files[r]) \in Nat
          BY <2>1
        <5> QED BY <5>1 DEF RecordsOf
      <4>2. <<r, y>> \in (1..Len(files)) \X (Nat \X Nat)
        BY <2>1, <4>1
      <4>3. PICK i \in DOMAIN index.records : index.records[i] = <<r, y>>
        BY <2>1, <4>2 DEF MergedRecords, Lists
      <4> QED BY <4>3 DEF Range
    <3> QED BY <3>1, <3>2
  <2>3. ASSUME NEW r \in Ranks
        PROVE  {x.line : x \in {y \in Range(index.segments) : y.rank = r}} = SegmentsOf(files[r])
    <3>1. ASSUME NEW x \in Range(index.segments), x.rank = r PROVE x.line \in SegmentsOf(files[r])
      BY <2>1, <3>1 DEF MergedSegments, Range
    <3>2. ASSUME NEW n \in SegmentsOf(files[r])
          PROVE  \E x \in Range(index.segments) : x.rank = r /\ x.line = n
      <4>1. PICK i \in DOMAIN index.segments :
              index.segments[i].rank = r /\ index.segments[i].line = n
        BY <2>1 DEF MergedSegments
      <4> QED BY <4>1 DEF Range
    <3> QED BY <3>1, <3>2
  <2>4. \A i, j \in DOMAIN index.records : i < j =>
          LET x == index.records[i]  y == index.records[j]
          IN  x[1] < y[1] \/ (x[1] = y[1] /\ x[2][1] < y[2][1])
    BY <2>1 DEF MergedRecords, RecordBefore
  <2>5. \A i, j \in DOMAIN index.segments : i < j =>
          LET x == index.segments[i]  y == index.segments[j]
          IN  x.rank < y.rank \/ (x.rank = y.rank /\ x.line < y.line)
    BY <2>1 DEF MergedSegments, RowBefore
  <2> QED BY <2>2, <2>3, <2>4, <2>5 DEF ReadyIndexIsWhole
<1>2. FileTypes /\ MergedInv => ReadyIndexIsWhole
  BY <1>1 DEF ReadyIndexIsWhole
<1> QED BY <1>2, FilesInvariance, MergedInvariance, PTL
-----------------------------------------------------------------------------
\* The dumps of a ready batch.  What is needed of sets of numbers: a least element, and
\* a greatest one where the numbers come from a sequence.
LEMMA LeastNumber ==
    ASSUME NEW S \in SUBSET Nat, S # {}
    PROVE  \E x \in S : \A y \in S : x <= y
<1> DEFINE R == {p \in Nat \X Nat : p[1] < p[2]}
<1>1. IsWellFoundedOn(R, Nat)
  BY NatLessThanWellFounded DEF OpToRel
<1>2. \E x \in S : \A y \in S : <<y, x>> \notin R
  <2> HIDE DEF R
  <2> QED BY <1>1, WFMin
<1>3. \A x, y \in S : <<y, x>> \notin R => x <= y
  OBVIOUS
<1> HIDE DEF R
<1> QED BY <1>2, <1>3

LEMMA NumbersBounded ==
    ASSUME NEW segments \in Seq(SegmentRow)
    PROVE  \E m \in Nat : \A i \in DOMAIN segments : segments[i].seg <= m
<1> DEFINE Bounded(k) == \E m \in Nat : \A i \in 1..k : segments[i].seg <= m
           S == {k \in 0..Len(segments) : ~Bounded(k)}
<1>1. Len(segments) \in Nat /\ DOMAIN segments = 1..Len(segments)
  OBVIOUS
<1>2. ASSUME NEW i \in 1..Len(segments) PROVE segments[i].seg \in Nat
  <2>1. segments[i] \in SegmentRow
    OBVIOUS
  <2> QED BY <2>1 DEF SegmentRow
<1>3. Bounded(0)
  <2>1. \A i \in 1..0 : segments[i].seg <= 0
    OBVIOUS
  <2> QED BY <2>1
<1>4. ASSUME NEW k \in 1..Len(segments), Bounded(k - 1) PROVE Bounded(k)
  <2>1. PICK m \in Nat : \A i \in 1..k - 1 : segments[i].seg <= m
    BY <1>4
  <2>2. k \in Nat /\ segments[k].seg \in Nat
    BY <1>1, <1>2
  <2>3. m + segments[k].seg \in Nat
    BY <2>2
  <2>4. ASSUME NEW i \in 1..k PROVE segments[i].seg <= m + segments[k].seg
    <3>1. i \in 1..Len(segments)
      BY <1>1
    <3>2. segments[i].seg \in Nat
      BY <1>2, <3>1
    <3>3. CASE i \in 1..k - 1
      <4>1. segments[i].seg <= m
        BY <2>1, <3>3
      <4> QED BY <2>2, <3>2, <4>1
    <3>4. CASE i = k
      BY <2>2, <3>4
    <3> QED BY <2>2, <3>3, <3>4
  <2> QED BY <2>3, <2>4
<1> HIDE DEF Bounded
<1>5. S = {}
  <2>1. SUFFICES ASSUME S # {} PROVE FALSE
    OBVIOUS
  <2>2. S \in SUBSET Nat
    BY <1>1
  <2>3. PICK k \in S : \A j \in S : k <= j
    BY <2>1, <2>2, LeastNumber
  <2>4. k \in 0..Len(segments) /\ ~Bounded(k) /\ k # 0
    BY <1>3, <2>3
  <2>5. k \in 1..Len(segments) /\ k - 1 \in 0..Len(segments) /\ ~(k <= k - 1)
    BY <1>1, <2>4
  <2>6. Bounded(k - 1)
    BY <2>3, <2>5
  <2> QED BY <1>4, <2>4, <2>5, <2>6
<1>6. Bounded(Len(segments))
  <2>1. Len(segments) \in 0..Len(segments)
    BY <1>1
  <2> QED BY <1>5, <2>1
<1> QED BY <1>1, <1>6 DEF Bounded

LEMMA GreatestNumber ==
    ASSUME NEW S \in SUBSET Nat, S # {}, NEW m \in Nat, \A x \in S : x <= m
    PROVE  \E x \in S : \A y \in S : y <= x
<1> DEFINE T == {k \in Nat : \A x \in S : x <= k}
<1>1. PICK k \in T : \A j \in T : k <= j
  <2>1. m \in T
    OBVIOUS
  <2> QED BY <2>1, LeastNumber
<1>2. k \in S
  <2>1. SUFFICES ASSUME k \notin S PROVE FALSE
    OBVIOUS
  <2>2. ASSUME NEW x \in S PROVE x <= k - 1
    <3>1. x \in Nat /\ x <= k /\ x # k /\ k \in Nat
      BY <2>1
    <3> QED BY <3>1
  <2>3. k \in Nat /\ k - 1 \in Nat
    <3>1. PICK x \in S : TRUE
      OBVIOUS
    <3>2. x \in Nat /\ x <= k - 1 /\ k \in Nat
      BY <2>2, <3>1
    <3> QED BY <3>2
  <2>4. k - 1 \in T
    BY <2>2, <2>3
  <2> QED BY <1>1, <2>3, <2>4
<1> QED BY <1>1, <1>2

\* The numbers of one dump.
SegsOf(segments, list, d) == {segments[i].seg : i \in {j \in DOMAIN segments : list[j] = d}}

\* The gaps between neighbours are exactly the numbers that a dump lacks.
LEMMA GapsAreMissing ==
    ASSUME NEW segments \in Seq(SegmentRow), NEW list \in Seq(Nat), Len(list) = Len(segments),
           NEW d \in Nat, SegsOf(segments, list, d) # {}
    PROVE  LET N == SegsOf(segments, list, d)
           IN  UNION {m[2]..m[3] : m \in {x \in MissingSegments(segments, list) : x[1] = d}}
                 = (Min(N)..Max(N)) \ N
<1> DEFINE N == SegsOf(segments, list, d)
           rows == {<<list[i], segments[i].seg>> : i \in DOMAIN segments}
           missing == MissingSegments(segments, list)
<1>1. ASSUME NEW i \in DOMAIN segments PROVE segments[i].seg \in Nat /\ list[i] \in Nat
  <2>1. segments[i] \in SegmentRow /\ i \in DOMAIN list
    OBVIOUS
  <2> QED BY <2>1 DEF SegmentRow
<1>2. /\ N \subseteq Nat /\ rows \subseteq Nat \X Nat
      /\ \A v \in Nat : v \in N <=> <<d, v>> \in rows
  BY <1>1 DEF SegsOf
<1>3. PICK lo \in N : \A v \in N : lo <= v
  BY <1>2, LeastNumber
<1>4. PICK hi \in N : \A v \in N : v <= hi
  <2>1. PICK m \in Nat : \A i \in DOMAIN segments : segments[i].seg <= m
    BY NumbersBounded
  <2>2. \A v \in N : v <= m
    BY <2>1 DEF SegsOf
  <2> HIDE DEF N
  <2> QED BY <1>2, <1>3, <2>2, GreatestNumber
<1>5. lo \in Nat /\ hi \in Nat
  BY <1>2
<1> HIDE DEF N
<1>6. Min(N) = lo
  <2>1. Min(N) \in N /\ \A v \in N : Min(N) <= v
    BY <1>3 DEF Min
  <2>2. Min(N) \in Nat
    BY <1>2, <2>1
  <2> QED BY <1>2, <1>3, <1>5, <2>1, <2>2
<1>7. Max(N) = hi
  <2>1. Max(N) \in N /\ \A v \in N : Max(N) >= v
    BY <1>4 DEF Max
  <2>2. Max(N) \in Nat
    BY <1>2, <2>1
  <2> QED BY <1>2, <1>4, <1>5, <2>1, <2>2
<1>8. missing = {<<p[2][1], p[1][2] + 1, p[2][2] - 1>> : p \in
                 {q \in rows \X rows :
                    /\ Before(q[1], q[2])
                    /\ \A x \in rows : ~(Before(q[1], x) /\ Before(x, q[2]))
                    /\ q[1][1] = q[2][1] /\ q[2][2] > q[1][2] + 1}}
  BY DEF MissingSegments, Neighbours
<1> HIDE DEF rows, missing
<1>9. ASSUME NEW m \in missing, m[1] = d, NEW v \in m[2]..m[3]
      PROVE  v \in (lo..hi) \ N
  <2>1. PICK x \in rows, y \in rows :
            /\ m = <<y[1], x[2] + 1, y[2] - 1>> /\ x[1] = y[1]
            /\ \A z \in rows : ~(Before(x, z) /\ Before(z, y))
    BY <1>8
  <2>2. /\ x = <<d, x[2]>> /\ y = <<d, y[2]>> /\ x[2] \in Nat /\ y[2] \in Nat
    BY <1>2, <1>9, <2>1
  <2>3. x[2] \in N /\ y[2] \in N
    BY <1>2, <2>2
  <2>4. v \in Nat /\ x[2] < v /\ v < y[2]
    BY <2>1, <2>2
  <2>5. lo <= x[2] /\ y[2] <= hi
    BY <1>3, <1>4, <2>3
  <2>6. v \notin N
    <3>1. Before(x, <<d, v>>) /\ Before(<<d, v>>, y)
      BY <2>2, <2>4 DEF Before
    <3> QED BY <1>2, <2>1, <2>4, <3>1
  <2> QED BY <1>5, <2>2, <2>4, <2>5, <2>6
<1>10. ASSUME NEW v \in (lo..hi) \ N
       PROVE  \E m \in missing : m[1] = d /\ v \in m[2]..m[3]
  <2>1. v \in Nat /\ v \notin N /\ lo < v /\ v < hi
    BY <1>3, <1>4, <1>5
  <2>2. PICK a \in N : a < v /\ \A w \in N : w < v => w <= a
    <3> DEFINE Below == {w \in N : w < v}
    <3>1. Below \in SUBSET Nat /\ lo \in Below /\ \A w \in Below : w <= v
      <4>1. \A w \in Below : w \in Nat /\ w < v
        BY <1>2
      <4>2. lo \in Below
        BY <1>3, <2>1
      <4> QED BY <2>1, <4>1, <4>2
    <3>2. PICK a \in Below : \A w \in Below : w <= a
      BY <2>1, <3>1, GreatestNumber
    <3> QED BY <3>2
  <2>3. PICK b \in N : v < b /\ \A w \in N : v < w => b <= w
    <3> DEFINE Above == {w \in N : v < w}
    <3>1. Above \in SUBSET Nat /\ hi \in Above
      BY <1>2, <2>1
    <3>2. PICK b \in Above : \A w \in Above : b <= w
      BY <3>1, LeastNumber
    <3> QED BY <3>2
  <2> DEFINE x == <<d, a>>
             y == <<d, b>>
             m == <<d, a + 1, b - 1>>
  <2>4. a \in Nat /\ b \in Nat /\ x \in rows /\ y \in rows
    BY <1>2
  <2>5. Before(x, y)
    BY <2>1, <2>2, <2>3, <2>4 DEF Before
  <2>6. ASSUME NEW z \in rows, Before(x, z), Before(z, y) PROVE FALSE
    <3>1. z = <<z[1], z[2]>> /\ z[1] \in Nat /\ z[2] \in Nat
      BY <1>2
    <3>2. z[1] = d /\ a < z[2] /\ z[2] < b
      BY <2>4, <2>6, <3>1 DEF Before
    <3>3. z[2] \in N
      BY <1>2, <3>1, <3>2
    <3>4. z[2] < v \/ z[2] > v
      BY <2>1, <3>1, <3>3
    <3> QED BY <2>2, <2>3, <2>4, <3>1, <3>2, <3>3, <3>4
  <2>7. /\ <<x, y>>[1] = x /\ <<x, y>>[2] = y /\ <<x, y>> \in rows \X rows
        /\ x[1] = d /\ y[1] = d /\ x[2] = a /\ y[2] = b
    BY <2>4
  <2>8. b > a + 1
    BY <2>1, <2>2, <2>3, <2>4
  <2> HIDE DEF x, y
  <2>9. m \in missing
    BY <1>8, <2>5, <2>6, <2>7, <2>8
  <2>10. m[1] = d /\ v \in m[2]..m[3]
    BY <2>1, <2>2, <2>3, <2>4
  <2> QED BY <2>9, <2>10
<1>11. UNION {m[2]..m[3] : m \in {x \in missing : x[1] = d}} = (lo..hi) \ N
  BY <1>9, <1>10
<1> QED BY <1>6, <1>7, <1>11 DEF missing, N

\* The assembly of the first segments.  The numbers from 1 on that it has assigned:
Done(a) == 1..Len(a.dumps)

AssemblyTypes(segments, a) ==
    /\ DOMAIN a = {"active", "previous", "dumps", "first", "diagnostics", "missing"}
    /\ a.active \in [Streams -> Nat] /\ a.previous \in [Streams -> Nat]
    /\ a.dumps \in Seq(Nat) /\ a.first \in Seq(Nat)
    /\ Len(a.first) = Len(a.dumps) /\ Len(a.dumps) <= Len(segments)
    /\ a.diagnostics \subseteq Done(a) \X Codes

\* The dump a stream has open is one of its own, and the time kept for it is that of the
\* stream's last segment, which is in that dump.
ActiveOf(segments, a, s) ==
    \E j \in Done(a) :
        /\ segments[j].stream = s /\ \A l \in Done(a) : l > j => segments[l].stream # s
        /\ a.dumps[j] = a.active[s] /\ a.previous[s] = segments[j].time

\* A dump is named by its first segment, of the same stream; a start opens a dump.
HeadsInv(segments, a) ==
    \A i \in Done(a) :
        /\ a.dumps[i] \in 1..i /\ a.dumps[a.dumps[i]] = a.dumps[i]
        /\ segments[a.dumps[i]].stream = segments[i].stream
        /\ segments[i].seg = 0 => a.dumps[i] = i

FirstInv(segments, a) ==
    \A d \in Done(a) : a.dumps[d] = d =>
        /\ \E i \in Done(a) : a.dumps[i] = d /\ segments[i].time = a.first[d]
        /\ \A i \in Done(a) : a.dumps[i] = d => a.first[d] <= segments[i].time

DiagnosticsInv(segments, a) ==
    \A i \in Done(a) :
        /\ <<i, "missing_start">> \in a.diagnostics <=> a.dumps[i] = i /\ segments[i].seg # 0
        /\ <<i, "duplicate_segment">> \in a.diagnostics <=>
             \E j \in 1..i - 1 : a.dumps[j] = a.dumps[i] /\ segments[j].seg = segments[i].seg
        /\ <<i, "segment_time_reversed">> \in a.diagnostics <=>
             \E j \in 1..i - 1 : /\ a.dumps[j] = a.dumps[i] /\ segments[j].time > segments[i].time
                                 /\ \A l \in j + 1..i - 1 : a.dumps[l] # a.dumps[i]

AssemblyInv(segments, a) ==
    /\ AssemblyTypes(segments, a)
    /\ \A s \in Streams : a.active[s] # None => ActiveOf(segments, a, s)
    /\ HeadsInv(segments, a)
    /\ FirstInv(segments, a)
    /\ DiagnosticsInv(segments, a)

\* What the assignment of segment i to a dump does, where it is new or not.
Assigned(segments, a, b, i, new, dump) ==
    LET s == segments[i]
    IN  /\ b.active = [a.active EXCEPT ![s.stream] = dump]
        /\ b.previous = [a.previous EXCEPT ![s.stream] = s.time]
        /\ b.dumps = Append(a.dumps, dump)
        /\ b.first = FirstValues(a.first, dump, s.time)
        /\ \A j \in Nat, code \in Codes :
            <<j, code>> \in b.diagnostics <=>
              \/ <<j, code>> \in a.diagnostics
              \/ j = i /\ \/ code = "missing_start" /\ new /\ s.seg # 0
                          \/ /\ code = "duplicate_segment" /\ ~new
                             /\ \E l \in 1..i - 1 : a.dumps[l] = dump /\ segments[l].seg = s.seg
                          \/ /\ code = "segment_time_reversed" /\ ~new
                             /\ s.time < a.previous[s.stream]
        /\ \A x \in b.diagnostics : x \in a.diagnostics \/ x \in {i} \X Codes

LEMMA AssignedFacts ==
    ASSUME NEW segments, NEW a, AssemblyTypes(segments, a), NEW i \in Nat
    PROVE  LET b == AssignSegment(segments, a, i)
               new == segments[i].seg = 0 \/ a.active[segments[i].stream] = None
               dump == IF new THEN i ELSE a.active[segments[i].stream]
           IN  DOMAIN b = DOMAIN a /\ Assigned(segments, a, b, i, new, dump)
<1> DEFINE s == segments[i]
           b == AssignSegment(segments, a, i)
           new == s.seg = 0 \/ a.active[s.stream] = None
           dump == IF new THEN i ELSE a.active[s.stream]
           repeated == \E j \in 1..i - 1 : a.dumps[j] = dump /\ segments[j].seg = s.seg
           reversed == s.time < a.previous[s.stream]
           named == {<<i, code>> : code \in {c \in Codes :
                       \/ c = "missing_start" /\ new /\ s.seg # 0
                       \/ c = "duplicate_segment" /\ ~new /\ repeated
                       \/ c = "segment_time_reversed" /\ ~new /\ reversed}}
<1>1. b = [a EXCEPT !.active[s.stream] = dump,
                    !.previous[s.stream] = s.time,
                    !.dumps = Append(@, dump),
                    !.first = FirstValues(@, dump, s.time),
                    !.diagnostics = @ \cup named]
  BY DEF AssignSegment
<1>2. DOMAIN a = {"active", "previous", "dumps", "first", "diagnostics", "missing"}
  BY DEF AssemblyTypes
<1>3. /\ DOMAIN b = DOMAIN a
      /\ b.active = [a.active EXCEPT ![s.stream] = dump]
      /\ b.previous = [a.previous EXCEPT ![s.stream] = s.time]
      /\ b.dumps = Append(a.dumps, dump)
      /\ b.first = FirstValues(a.first, dump, s.time)
      /\ b.diagnostics = a.diagnostics \cup named
  <2> HIDE DEF named, s, dump, new, b
  <2>1. b.active = [a.active EXCEPT ![s.stream] = dump] /\ DOMAIN b = DOMAIN a
    BY <1>1, <1>2
  <2>2. b.previous = [a.previous EXCEPT ![s.stream] = s.time]
    BY <1>1, <1>2
  <2>3. b.dumps = Append(a.dumps, dump)
    BY <1>1, <1>2
  <2>4. b.diagnostics = a.diagnostics \cup named
    BY <1>1, <1>2
  <2>5. b.first = FirstValues(a.first, dump, s.time)
    BY <1>1, <1>2
  <2> QED BY <2>1, <2>2, <2>3, <2>4, <2>5
<1>4. ASSUME NEW j \in Nat, NEW code \in Codes
      PROVE  <<j, code>> \in named <=>
               j = i /\ \/ code = "missing_start" /\ new /\ s.seg # 0
                        \/ code = "duplicate_segment" /\ ~new /\ repeated
                        \/ code = "segment_time_reversed" /\ ~new /\ reversed
  BY DEF named
<1>5. \A x \in named : x \in {i} \X Codes
  BY DEF named
<1> HIDE DEF named, new, dump, b
<1>6. Assigned(segments, a, b, i, new, dump)
  BY <1>3, <1>4, <1>5 DEF Assigned
<1> QED BY <1>3, <1>6 DEF b, new, dump

\* Where the i-th segment goes: to itself, or to the dump its stream has open.
Goes(segments, a, i, new, dump) ==
    /\ i = Len(a.dumps) + 1 /\ i \in 1..Len(segments)
    /\ new \in BOOLEAN
    /\ new => dump = i
    /\ ~new => /\ dump \in 1..i - 1 /\ dump = a.active[segments[i].stream]
               /\ a.dumps[dump] = dump /\ segments[dump].stream = segments[i].stream
               /\ segments[i].seg # 0
               /\ ActiveOf(segments, a, segments[i].stream)

LEMMA GoesFacts ==
    ASSUME NEW segments \in Seq(SegmentRow), NEW a, AssemblyInv(segments, a),
           NEW i \in Nat, i = Len(a.dumps) + 1, i <= Len(segments)
    PROVE  LET new == segments[i].seg = 0 \/ a.active[segments[i].stream] = None
               dump == IF new THEN i ELSE a.active[segments[i].stream]
           IN  Goes(segments, a, i, new, dump)
<1> DEFINE s == segments[i]
           new == s.seg = 0 \/ a.active[s.stream] = None
           dump == IF new THEN i ELSE a.active[s.stream]
<1>1. i \in 1..Len(segments) /\ Done(a) = 1..i - 1 /\ a.dumps \in Seq(Nat)
  BY DEF AssemblyInv, AssemblyTypes, Done
<1>2. s.stream \in Streams
  <2>1. s \in SegmentRow
    BY <1>1
  <2> QED BY <2>1 DEF SegmentRow
<1>3. CASE new
  BY <1>1, <1>3 DEF Goes
<1>4. CASE ~new
  <2>1. ActiveOf(segments, a, s.stream)
    BY <1>2, <1>4 DEF AssemblyInv
  <2>2. PICK j \in Done(a) : segments[j].stream = s.stream /\ a.dumps[j] = a.active[s.stream]
    BY <2>1 DEF ActiveOf
  <2>3. /\ a.dumps[j] \in 1..j /\ a.dumps[a.dumps[j]] = a.dumps[j]
        /\ segments[a.dumps[j]].stream = segments[j].stream
    BY <2>2 DEF AssemblyInv, HeadsInv
  <2>4. a.active[s.stream] \in 1..i - 1
    BY <1>1, <2>2, <2>3
  <2> QED BY <1>1, <1>4, <2>1, <2>2, <2>3, <2>4 DEF Goes
<1> QED BY <1>3, <1>4

\* What was there stays, and the new entries are those of segment i.
Placed(segments, a, b, i, new, dump) ==
    LET s == segments[i]
    IN  /\ AssemblyTypes(segments, b)
        /\ Done(a) = 1..i - 1 /\ Done(b) = 1..i /\ i \notin 1..i - 1
        /\ dump \in 1..i /\ (new <=> dump = i)
        /\ b.dumps[i] = dump /\ \A l \in 1..i - 1 : b.dumps[l] = a.dumps[l]
        /\ b.first[dump] = IF new \/ s.time < a.first[dump] THEN s.time ELSE a.first[dump]
        /\ \A l \in 1..i - 1 : l # dump => b.first[l] = a.first[l]
        /\ s.stream \in Streams /\ s.time \in Nat /\ s.seg \in Nat

LEMMA AssignedLists ==
    ASSUME NEW segments \in Seq(SegmentRow), NEW a, NEW b, AssemblyTypes(segments, a),
           DOMAIN b = DOMAIN a, NEW i \in Nat, NEW new \in BOOLEAN, NEW dump,
           Goes(segments, a, i, new, dump), Assigned(segments, a, b, i, new, dump)
    PROVE  Placed(segments, a, b, i, new, dump)
<1> DEFINE s == segments[i]
           longer == Append(a.first, s.time)
<1>1. /\ i \in 1..Len(segments) /\ Done(a) = 1..i - 1 /\ i \notin 1..i - 1
      /\ i = Len(a.dumps) + 1 /\ Len(a.first) = i - 1
      /\ a.dumps \in Seq(Nat) /\ a.first \in Seq(Nat)
  BY DEF AssemblyTypes, Done, Goes
<1>2. s.stream \in Streams /\ s.time \in Nat /\ s.seg \in Nat
  <2>1. s \in SegmentRow
    BY <1>1
  <2> QED BY <2>1 DEF SegmentRow
<1>3. dump \in 1..i /\ dump \in Nat /\ (new <=> dump = i)
  BY <1>1 DEF Goes
<1>4. /\ b.dumps \in Seq(Nat) /\ Len(b.dumps) = i /\ b.dumps[i] = dump
      /\ \A l \in 1..i - 1 : b.dumps[l] = a.dumps[l]
  <2>1. b.dumps = Append(a.dumps, dump)
    BY DEF Assigned
  <2> QED BY <1>1, <1>3, <2>1
<1>5. /\ longer \in Seq(Nat) /\ Len(longer) = i /\ longer[i] = s.time
      /\ \A l \in 1..i - 1 : longer[l] = a.first[l]
  BY <1>1, <1>2
<1>6. b.first = [longer EXCEPT ![dump] = IF s.time < longer[dump] THEN s.time ELSE longer[dump]]
  BY DEF Assigned, FirstValues
<1> HIDE DEF longer, s
<1>7. /\ b.first \in Seq(Nat) /\ Len(b.first) = i
      /\ \A l \in 1..i : l # dump => b.first[l] = longer[l]
      /\ b.first[dump] = IF s.time < longer[dump] THEN s.time ELSE longer[dump]
  <2>1. DOMAIN longer = 1..i /\ \A l \in 1..i : longer[l] \in Nat
    BY <1>5
  <2>2. b.first \in [1..i -> Nat]
    BY <1>2, <1>3, <1>6, <2>1
  <2>3. b.first \in Seq(Nat) /\ Len(b.first) = i
    BY <2>2
  <2> QED BY <1>3, <1>6, <2>1, <2>3
<1>8. b.first[dump] = IF new \/ s.time < a.first[dump] THEN s.time ELSE a.first[dump]
  <2>1. CASE new
    BY <1>2, <1>3, <1>5, <1>7, <2>1
  <2>2. CASE ~new
    <3>1. dump \in 1..i - 1
      BY <1>1, <1>3, <2>2
    <3> QED BY <1>5, <1>7, <2>2, <3>1
  <2> QED BY <2>1, <2>2 DEF Goes
<1>9. ASSUME NEW l \in 1..i - 1, l # dump PROVE b.first[l] = a.first[l]
  <2>1. l \in 1..i
    OBVIOUS
  <2> QED BY <1>5, <1>7, <1>9, <2>1
<1>10. /\ b.active \in [Streams -> Nat] /\ b.previous \in [Streams -> Nat]
  BY <1>2, <1>3 DEF AssemblyTypes, Assigned, s
<1>11. Done(b) = 1..i
  BY <1>4 DEF Done
<1>12. b.diagnostics \subseteq (1..i) \X Codes
  <2>1. a.diagnostics \subseteq (1..i - 1) \X Codes
    BY <1>1 DEF AssemblyTypes
  <2>2. \A x \in b.diagnostics : x \in a.diagnostics \/ x \in {i} \X Codes
    BY DEF Assigned
  <2>3. i \in 1..i /\ \A l \in 1..i - 1 : l \in 1..i
    BY <1>1
  <2> QED BY <2>1, <2>2, <2>3
<1>13. AssemblyTypes(segments, b)
  <2>1. DOMAIN b = {"active", "previous", "dumps", "first", "diagnostics", "missing"}
    BY DEF AssemblyTypes
  <2>2. Len(b.first) = Len(b.dumps) /\ Len(b.dumps) <= Len(segments)
    BY <1>1, <1>4, <1>7
  <2> QED BY <1>4, <1>7, <1>10, <1>11, <1>12, <2>1, <2>2 DEF AssemblyTypes
<1> QED BY <1>1, <1>2, <1>3, <1>4, <1>8, <1>9, <1>11, <1>13 DEF s, Placed

LEMMA AssemblyStep ==
    ASSUME NEW segments \in Seq(SegmentRow), NEW a, AssemblyInv(segments, a),
           NEW i \in Nat, i = Len(a.dumps) + 1, i <= Len(segments)
    PROVE  AssemblyInv(segments, AssignSegment(segments, a, i))
<1> DEFINE s == segments[i]
           b == AssignSegment(segments, a, i)
           new == s.seg = 0 \/ a.active[s.stream] = None
           dump == IF new THEN i ELSE a.active[s.stream]
           D == 1..i - 1
<1>1. /\ AssemblyTypes(segments, a)
      /\ \A q \in Streams : a.active[q] # None => ActiveOf(segments, a, q)
      /\ HeadsInv(segments, a) /\ FirstInv(segments, a) /\ DiagnosticsInv(segments, a)
  BY DEF AssemblyInv
<1>2. Goes(segments, a, i, new, dump)
  BY GoesFacts
<1>3. DOMAIN b = DOMAIN a /\ Assigned(segments, a, b, i, new, dump)
  BY <1>1, AssignedFacts
<1> SUFFICES AssemblyInv(segments, b)
  OBVIOUS
<1>4. s.seg = 0 => new
  OBVIOUS
<1> HIDE DEF b, new, dump, s
<1>5. /\ AssemblyTypes(segments, b)
      /\ Done(a) = D /\ Done(b) = 1..i /\ i \notin D
      /\ dump \in 1..i /\ (new <=> dump = i)
      /\ b.dumps[i] = dump /\ \A l \in D : b.dumps[l] = a.dumps[l]
      /\ b.first[dump] = IF new \/ s.time < a.first[dump] THEN s.time ELSE a.first[dump]
      /\ \A l \in D : l # dump => b.first[l] = a.first[l]
      /\ s.stream \in Streams /\ s.time \in Nat /\ s.seg \in Nat
  <2>1. new \in BOOLEAN
    BY <1>2 DEF Goes
  <2>2. Placed(segments, a, b, i, new, dump)
    BY <1>1, <1>2, <1>3, <2>1, AssignedLists
  <2> QED BY <2>2 DEF s, Placed
<1>6. /\ i \in 1..Len(segments) /\ \A l \in 1..i : l \in D \/ l = i
      /\ \A l \in D : l \in Nat /\ l < i /\ l \in 1..i
  BY DEF D
<1>7. /\ ~new => /\ dump \in D /\ dump = a.active[s.stream] /\ a.dumps[dump] = dump
                 /\ segments[dump].stream = s.stream
                 /\ ActiveOf(segments, a, s.stream)
      /\ new => dump = i
  BY <1>2 DEF Goes, s
<1>8. \A l \in D : a.dumps[l] \in 1..l /\ a.dumps[l] \in D /\ b.dumps[l] # i
  <2> TAKE l \in D
  <2>1. a.dumps[l] \in 1..l
    BY <1>1, <1>5 DEF HeadsInv
  <2> QED BY <1>5, <1>6, <2>1
<1> HIDE DEF D
<1>9. ASSUME NEW q \in Streams, b.active[q] # None PROVE ActiveOf(segments, b, q)
  <2>1. /\ b.active[q] = IF q = s.stream THEN dump ELSE a.active[q]
        /\ b.previous[q] = IF q = s.stream THEN s.time ELSE a.previous[q]
    BY <1>1, <1>3, <1>5 DEF Assigned, AssemblyTypes, s
  <2>2. CASE q = s.stream
    <3>1. i \in Done(b) /\ \A l \in Done(b) : ~(l > i)
      BY <1>5, <1>6
    <3>2. segments[i].stream = q /\ b.dumps[i] = b.active[q] /\ b.previous[q] = segments[i].time
      BY <1>5, <2>1, <2>2 DEF s
    <3> QED BY <3>1, <3>2 DEF ActiveOf
  <2>3. CASE q # s.stream
    <3>1. ActiveOf(segments, a, q)
      BY <1>1, <1>9, <2>1, <2>3
    <3>2. PICK j \in D :
            /\ segments[j].stream = q /\ \A l \in D : l > j => segments[l].stream # q
            /\ a.dumps[j] = a.active[q] /\ a.previous[q] = segments[j].time
      BY <1>5, <3>1 DEF ActiveOf
    <3>3. \A l \in Done(b) : l > j => segments[l].stream # q
      BY <1>5, <1>6, <2>3, <3>2 DEF s
    <3> QED BY <1>5, <1>6, <2>1, <2>3, <3>2, <3>3 DEF ActiveOf
  <2> QED BY <2>2, <2>3
<1>10. HeadsInv(segments, b)
  <2>1. ASSUME NEW l \in D
        PROVE  /\ b.dumps[l] \in 1..l /\ b.dumps[b.dumps[l]] = b.dumps[l]
               /\ segments[b.dumps[l]].stream = segments[l].stream
               /\ segments[l].seg = 0 => b.dumps[l] = l
    BY <1>1, <1>5, <1>8 DEF HeadsInv
  <2>2. /\ b.dumps[i] \in 1..i /\ b.dumps[b.dumps[i]] = b.dumps[i]
        /\ segments[b.dumps[i]].stream = segments[i].stream
        /\ segments[i].seg = 0 => b.dumps[i] = i
    <3>1. CASE new
      BY <1>5, <1>7, <3>1
    <3>2. CASE ~new
      BY <1>4, <1>5, <1>7, <3>2 DEF s
    <3> QED BY <3>1, <3>2
  <2> QED BY <1>5, <1>6, <2>1, <2>2 DEF HeadsInv
<1>11. FirstInv(segments, b)
  <2>1. ASSUME NEW d \in 1..i, b.dumps[d] = d
        PROVE  /\ \E l \in 1..i : b.dumps[l] = d /\ segments[l].time = b.first[d]
               /\ \A l \in 1..i : b.dumps[l] = d => b.first[d] <= segments[l].time
    <3>1. CASE d \in D /\ d # dump
      <4>1. /\ a.dumps[d] = d /\ b.first[d] = a.first[d]
        BY <1>5, <2>1, <3>1
      <4>2. PICK l \in D : a.dumps[l] = d /\ segments[l].time = a.first[d]
        BY <1>1, <1>5, <3>1, <4>1 DEF FirstInv
      <4>3. \A n \in D : a.dumps[n] = d => a.first[d] <= segments[n].time
        BY <1>1, <1>5, <3>1, <4>1 DEF FirstInv
      <4>4. l \in 1..i /\ b.dumps[l] = d /\ segments[l].time = b.first[d]
        BY <1>5, <1>6, <4>1, <4>2
      <4>5. \A n \in 1..i : b.dumps[n] = d => b.first[d] <= segments[n].time
        BY <1>5, <1>6, <3>1, <4>1, <4>3
      <4> QED BY <4>4, <4>5
    <3>2. CASE d \in D /\ d = dump
      <4>1. ~new /\ a.dumps[d] = d
        BY <1>5, <2>1, <3>2
      <4>2. PICK l \in D : a.dumps[l] = d /\ segments[l].time = a.first[d]
        BY <1>1, <1>5, <3>2, <4>1 DEF FirstInv
      <4>3. \A n \in D : a.dumps[n] = d => a.first[d] <= segments[n].time
        BY <1>1, <1>5, <3>2, <4>1 DEF FirstInv
      <4>4. \A n \in D : segments[n].time \in Nat
        <5> TAKE n \in D
        <5>1. n \in 1..Len(segments)
          BY <1>6
        <5>2. segments[n] \in SegmentRow
          BY <5>1
        <5> QED BY <5>2 DEF SegmentRow
      <4>5. b.first[d] = IF segments[i].time < a.first[d] THEN segments[i].time ELSE a.first[d]
        BY <1>5, <3>2, <4>1 DEF s
      <4>6. a.first[d] \in Nat /\ segments[i].time \in Nat
        BY <1>5, <4>2, <4>4 DEF s
      <4>7. b.first[d] <= a.first[d] /\ b.first[d] <= segments[i].time /\ b.first[d] \in Nat
        BY <4>5, <4>6
      <4>8. \E n \in 1..i : b.dumps[n] = d /\ segments[n].time = b.first[d]
        <5>1. CASE b.first[d] = segments[i].time
          BY <1>5, <1>6, <3>2, <5>1
        <5>2. CASE b.first[d] = a.first[d]
          BY <1>5, <1>6, <4>2, <5>2
        <5> QED BY <4>5, <5>1, <5>2
      <4>9. ASSUME NEW n \in 1..i, b.dumps[n] = d PROVE b.first[d] <= segments[n].time
        <5>1. CASE n = i
          BY <4>7, <5>1
        <5>2. CASE n \in D
          <6>1. a.first[d] <= segments[n].time /\ segments[n].time \in Nat
            BY <1>5, <4>3, <4>4, <4>9, <5>2
          <6> QED BY <4>6, <4>7, <6>1
        <5> QED BY <1>6, <5>1, <5>2
      <4> QED BY <4>8, <4>9
    <3>3. CASE d = i
      <4>1. new /\ dump = i /\ b.first[i] = segments[i].time
        BY <1>5, <2>1, <3>3 DEF s
      <4>2. \A n \in 1..i : b.dumps[n] = i => n = i
        BY <1>6, <1>8
      <4>3. segments[i].time <= segments[i].time
        BY <1>5 DEF s
      <4> QED BY <1>5, <1>6, <3>3, <4>1, <4>2, <4>3
    <3> QED BY <1>6, <3>1, <3>2, <3>3
  <2> QED BY <1>5, <2>1 DEF FirstInv
<1>12. DiagnosticsInv(segments, b)
  <2> DEFINE Right(c, j) ==
        /\ <<j, "missing_start">> \in c.diagnostics <=> c.dumps[j] = j /\ segments[j].seg # 0
        /\ <<j, "duplicate_segment">> \in c.diagnostics <=>
             \E l \in 1..j - 1 : c.dumps[l] = c.dumps[j] /\ segments[l].seg = segments[j].seg
        /\ <<j, "segment_time_reversed">> \in c.diagnostics <=>
             \E l \in 1..j - 1 : /\ c.dumps[l] = c.dumps[j] /\ segments[l].time > segments[j].time
                                 /\ \A n \in l + 1..j - 1 : c.dumps[n] # c.dumps[j]
  <2>1. "missing_start" \in Codes /\ "duplicate_segment" \in Codes /\ "segment_time_reversed" \in Codes
    BY DEF Codes
  <2>2. ASSUME NEW j \in D PROVE Right(b, j)
    <3>1. Right(a, j)
      BY <1>1, <1>5 DEF DiagnosticsInv
    <3>2. \A l \in 1..j : l \in D
      BY <1>6 DEF D
    <3>3. j \in Nat /\ j # i
      BY <1>5, <1>6
    <3>4. \A code \in Codes : <<j, code>> \in b.diagnostics <=> <<j, code>> \in a.diagnostics
      BY <1>3, <3>3 DEF Assigned
    <3>5. \A l \in 1..j - 1 : l \in D /\ b.dumps[l] = a.dumps[l]
      BY <1>5, <3>2, <3>3
    <3>6. \A l \in 1..j - 1 : \A n \in l + 1..j - 1 : b.dumps[n] = a.dumps[n]
      BY <3>3, <3>5
    <3>7. b.dumps[j] = a.dumps[j]
      BY <1>5
    <3> QED BY <2>1, <3>1, <3>4, <3>5, <3>6, <3>7
  <2>3. \A code \in Codes : <<i, code>> \notin a.diagnostics
    BY <1>1, <1>5 DEF AssemblyTypes
  <2>4. <<i, "missing_start">> \in b.diagnostics <=> new /\ s.seg # 0
    BY <1>3, <2>1, <2>3 DEF Assigned, s
  <2>5. <<i, "duplicate_segment">> \in b.diagnostics <=>
           ~new /\ \E l \in D : a.dumps[l] = dump /\ segments[l].seg = s.seg
    BY <1>3, <2>1, <2>3 DEF Assigned, s, D
  <2>6. <<i, "segment_time_reversed">> \in b.diagnostics <=> ~new /\ s.time < a.previous[s.stream]
    BY <1>3, <2>1, <2>3 DEF Assigned, s
  <2>7. new => \A l \in D : b.dumps[l] # b.dumps[i]
    BY <1>5, <1>7, <1>8
  <2>8. <<i, "duplicate_segment">> \in b.diagnostics <=>
           \E l \in D : b.dumps[l] = b.dumps[i] /\ segments[l].seg = segments[i].seg
    BY <1>5, <2>5, <2>7 DEF s
  <2>9. <<i, "segment_time_reversed">> \in b.diagnostics <=>
           \E l \in D : /\ b.dumps[l] = b.dumps[i] /\ segments[l].time > segments[i].time
                        /\ \A n \in l + 1..i - 1 : b.dumps[n] # b.dumps[i]
    <3>1. CASE new
      BY <2>6, <2>7, <3>1
    <3>2. CASE ~new
      <4>1. PICK j \in D :
              /\ segments[j].stream = s.stream /\ \A l \in D : l > j => segments[l].stream # s.stream
              /\ a.dumps[j] = dump /\ a.previous[s.stream] = segments[j].time
        BY <1>5, <1>7, <3>2 DEF ActiveOf
      <4>2. \A l \in D : a.dumps[l] = dump => segments[l].stream = s.stream
        BY <1>1, <1>5, <1>7, <3>2 DEF HeadsInv
      <4>3. \A l \in D : l > j => b.dumps[l] # b.dumps[i]
        BY <1>5, <4>1, <4>2
      <4>4. b.dumps[j] = b.dumps[i] /\ j \in Nat
        BY <1>5, <1>6, <4>1
      <4>5. \A n \in j + 1..i - 1 : n \in D /\ n > j
        BY <1>6, <4>4 DEF D
      <4>6. ASSUME NEW l \in D, b.dumps[l] = b.dumps[i], \A n \in l + 1..i - 1 : b.dumps[n] # b.dumps[i]
            PROVE  l = j
        <5>1. l \in Nat /\ ~(l > j)
          BY <1>6, <4>3, <4>6
        <5>2. ~(l < j)
          <6>1. l < j => j \in l + 1..i - 1
            BY <1>6, <4>4, <5>1
          <6> QED BY <4>4, <4>6, <6>1
        <5> QED BY <4>4, <5>1, <5>2
      <4>7. segments[j].time \in Nat
        <5>1. j \in 1..Len(segments)
          BY <1>6, <4>4
        <5>2. segments[j] \in SegmentRow
          BY <5>1
        <5> QED BY <5>2 DEF SegmentRow
      <4>8. s.time < a.previous[s.stream] <=> segments[j].time > segments[i].time
        BY <1>5, <4>1, <4>7 DEF s
      <4> QED BY <2>6, <3>2, <4>3, <4>4, <4>5, <4>6, <4>8
    <3> QED BY <3>1, <3>2
  <2>10. Right(b, i)
    BY <1>5, <2>4, <2>8, <2>9 DEF s, D
  <2> HIDE DEF Right
  <2>11. \A j \in 1..i : Right(b, j)
    BY <1>6, <2>2, <2>10
  <2> QED BY <1>5, <2>11 DEF DiagnosticsInv, Right
<1> QED BY <1>5, <1>9, <1>10, <1>11, <1>12 DEF AssemblyInv

LEMMA NoneAssembled ==
    ASSUME NEW segments \in Seq(SegmentRow)
    PROVE  AssemblyInv(segments, NoDumps)
<1>1. /\ NoDumps.dumps = <<>> /\ NoDumps.first = <<>> /\ NoDumps.diagnostics = {}
      /\ NoDumps.active = [s \in Streams |-> None] /\ NoDumps.previous = [s \in Streams |-> 0]
      /\ DOMAIN NoDumps = {"active", "previous", "dumps", "first", "diagnostics", "missing"}
  BY DEF NoDumps
<1>2. Done(NoDumps) = {}
  BY <1>1 DEF Done
<1>3. AssemblyTypes(segments, NoDumps)
  BY <1>1 DEF AssemblyTypes, None
<1> QED BY <1>1, <1>2, <1>3 DEF AssemblyInv, HeadsInv, FirstInv, DiagnosticsInv

\* All of it, once every segment is assigned and the gaps are looked for.
LEMMA AssembledIsRight ==
    ASSUME NEW segments \in Seq(SegmentRow), NEW a, AssemblyInv(segments, a),
           Len(a.dumps) = Len(segments), a.missing = MissingSegments(segments, a.dumps),
           \A i \in DOMAIN segments : a.dumps[i] = DumpOf(segments, i)
    PROVE  DumpsAreRight(segments, a)
<1> DEFINE D == DOMAIN segments
           Members(d) == {i \in D : DumpOf(segments, i) = d}
           Numbers(d) == {segments[i].seg : i \in Members(d)}
<1>1. D = Done(a) /\ D = 1..Len(segments) /\ Len(segments) \in Nat /\ a.dumps \in Seq(Nat)
  BY DEF Done, AssemblyInv, AssemblyTypes
<1>2. ASSUME NEW i \in D PROVE segments[i].seg \in Nat /\ segments[i].time \in Nat
  <2>1. segments[i] \in SegmentRow
    OBVIOUS
  <2> QED BY <2>1 DEF SegmentRow
<1>3. \A d : Members(d) = {i \in D : a.dumps[i] = d}
  OBVIOUS
<1>4. \A i \in D : a.dumps[i] \in 1..i /\ a.dumps[i] \in D /\ a.dumps[a.dumps[i]] = a.dumps[i]
                   /\ (segments[i].seg = 0 => a.dumps[i] = i)
  BY <1>1 DEF AssemblyInv, HeadsInv
<1>5. ASSUME NEW d \in D, Members(d) # {}
      PROVE  /\ a.first[d] = Min({segments[i].time : i \in Members(d)})
             /\ <<d, "missing_start">> \in a.diagnostics <=> 0 \notin Numbers(d)
             /\ UNION {m[2]..m[3] : m \in {x \in a.missing : x[1] = d}}
                  = (Min(Numbers(d))..Max(Numbers(d))) \ Numbers(d)
  <2>1. PICK i \in D : a.dumps[i] = d
    BY <1>3, <1>5
  <2>2. a.dumps[d] = d /\ d \in Members(d) /\ d \in Nat
    BY <1>1, <1>3, <1>4, <2>1
  <2>3. a.first[d] = Min({segments[n].time : n \in Members(d)})
    <3> DEFINE T == {segments[n].time : n \in Members(d)}
    <3>1. T \subseteq Nat
      BY <1>2
    <3>2. a.first[d] \in T /\ \A t \in T : a.first[d] <= t
      <4>1. /\ \E n \in D : a.dumps[n] = d /\ segments[n].time = a.first[d]
            /\ \A n \in D : a.dumps[n] = d => a.first[d] <= segments[n].time
        BY <1>1, <2>2 DEF AssemblyInv, FirstInv
      <4> QED BY <1>3, <4>1
    <3> HIDE DEF T
    <3>3. Min(T) \in T /\ \A t \in T : Min(T) <= t
      BY <3>2 DEF Min
    <3>4. Min(T) \in Nat /\ a.first[d] \in Nat /\ Min(T) <= a.first[d] /\ a.first[d] <= Min(T)
      BY <3>1, <3>2, <3>3
    <3>5. a.first[d] = Min(T)
      BY <3>4
    <3> QED BY <3>5 DEF T
  <2>4. <<d, "missing_start">> \in a.diagnostics <=> 0 \notin Numbers(d)
    <3>1. <<d, "missing_start">> \in a.diagnostics <=> segments[d].seg # 0
      BY <1>1, <2>2 DEF AssemblyInv, DiagnosticsInv
    <3>2. 0 \in Numbers(d) <=> segments[d].seg = 0
      <4>1. ASSUME NEW n \in Members(d), segments[n].seg = 0 PROVE n = d
        BY <1>3, <1>4, <4>1
      <4> QED BY <2>2, <4>1
    <3> QED BY <3>1, <3>2
  <2>5. Numbers(d) = SegsOf(segments, a.dumps, d)
    BY <1>3 DEF SegsOf
  <2>6. SegsOf(segments, a.dumps, d) # {}
    <3>1. segments[d].seg \in Numbers(d)
      BY <2>2
    <3> QED BY <2>5, <3>1
  <2>7. UNION {m[2]..m[3] : m \in {x \in a.missing : x[1] = d}}
          = (Min(Numbers(d))..Max(Numbers(d))) \ Numbers(d)
    <3> HIDE DEF Numbers
    <3>1. LET N == SegsOf(segments, a.dumps, d)
          IN  UNION {m[2]..m[3] : m \in {x \in MissingSegments(segments, a.dumps) : x[1] = d}}
                = (Min(N)..Max(N)) \ N
      BY <1>1, <2>2, <2>6, GapsAreMissing
    <3> QED BY <2>5, <3>1
  <2> QED BY <2>3, <2>4, <2>7
<1>6. ASSUME NEW i \in D
      PROVE  LET earlier == {j \in Members(DumpOf(segments, i)) : j < i}
             IN  /\ <<i, "duplicate_segment">> \in a.diagnostics
                     <=> \E j \in earlier : segments[j].seg = segments[i].seg
                 /\ <<i, "segment_time_reversed">> \in a.diagnostics
                     <=> earlier # {} /\ segments[Max(earlier)].time > segments[i].time
  <2> DEFINE E == {j \in Members(DumpOf(segments, i)) : j < i}
  <2>1. /\ <<i, "duplicate_segment">> \in a.diagnostics <=>
             \E j \in 1..i - 1 : a.dumps[j] = a.dumps[i] /\ segments[j].seg = segments[i].seg
        /\ <<i, "segment_time_reversed">> \in a.diagnostics <=>
             \E j \in 1..i - 1 : /\ a.dumps[j] = a.dumps[i] /\ segments[j].time > segments[i].time
                                 /\ \A l \in j + 1..i - 1 : a.dumps[l] # a.dumps[i]
    BY <1>1 DEF AssemblyInv, DiagnosticsInv
  <2>2. /\ \A j \in E : j \in 1..i - 1 /\ a.dumps[j] = a.dumps[i]
        /\ \A j \in 1..i - 1 : a.dumps[j] = a.dumps[i] => j \in E
    BY <1>1, <1>3
  <2>3. i \in Nat /\ E \subseteq Nat /\ \A j \in E : j <= i
    BY <1>1
  <2> HIDE DEF E
  <2>4. <<i, "duplicate_segment">> \in a.diagnostics <=> \E j \in E : segments[j].seg = segments[i].seg
    BY <2>1, <2>2
  <2>5. <<i, "segment_time_reversed">> \in a.diagnostics
          <=> E # {} /\ segments[Max(E)].time > segments[i].time
    <3>1. CASE E = {}
      BY <2>1, <2>2, <3>1
    <3>2. CASE E # {}
      <4>1. PICK e \in E : \A j \in E : j <= e
        BY <2>3, <3>2, GreatestNumber
      <4>2. Max(E) \in E /\ \A j \in E : Max(E) >= j
        BY <4>1 DEF Max
      <4>3. Max(E) \in Nat /\ Max(E) \in 1..i - 1 /\ a.dumps[Max(E)] = a.dumps[i]
        BY <2>2, <2>3, <4>2
      <4>4. \A l \in Max(E) + 1..i - 1 : a.dumps[l] # a.dumps[i]
        <5> TAKE l \in Max(E) + 1..i - 1
        <5>1. l \in 1..i - 1 /\ ~(Max(E) >= l)
          BY <2>3, <4>3
        <5> QED BY <2>2, <4>2, <5>1
      <4>5. ASSUME NEW j \in 1..i - 1, a.dumps[j] = a.dumps[i],
                   \A l \in j + 1..i - 1 : a.dumps[l] # a.dumps[i]
            PROVE  j = Max(E)
        <5>1. j \in E /\ Max(E) >= j /\ j \in Nat
          BY <2>2, <4>2, <4>5
        <5>2. Max(E) \notin j + 1..i - 1
          BY <4>3, <4>5
        <5> QED BY <2>3, <4>3, <5>1, <5>2
      <4> QED BY <2>1, <3>2, <4>3, <4>4, <4>5
    <3> QED BY <3>1, <3>2
  <2> QED BY <2>4, <2>5 DEF E
<1> QED BY <1>5, <1>6 DEF DumpsAreRight

\* The gaps are no part of it.
LEMMA SameAssembly ==
    ASSUME NEW segments, NEW a, NEW b, AssemblyInv(segments, a), DOMAIN b = DOMAIN a,
           b.active = a.active, b.previous = a.previous, b.dumps = a.dumps,
           b.first = a.first, b.diagnostics = a.diagnostics
    PROVE  AssemblyInv(segments, b)
<1>1. Done(b) = Done(a)
  BY DEF Done
<1>2. AssemblyTypes(segments, b)
  BY <1>1 DEF AssemblyInv, AssemblyTypes
<1>3. \A s \in Streams : b.active[s] # None => ActiveOf(segments, b, s)
  BY <1>1 DEF AssemblyInv, ActiveOf
<1>4. HeadsInv(segments, b) /\ FirstInv(segments, b) /\ DiagnosticsInv(segments, b)
  BY <1>1 DEF AssemblyInv, HeadsInv, FirstInv, DiagnosticsInv
<1> QED BY <1>2, <1>3, <1>4 DEF AssemblyInv

StreamsInv ==
    /\ AssemblyInv(index.segments, dumps)
    /\ phase = "publishing" \/ manifest = "ready" =>
        /\ Len(dumps.dumps) = Len(index.segments)
        /\ dumps.missing = MissingSegments(index.segments, dumps.dumps)

LEMMA InitStreams == Init => StreamsInv
<1> SUFFICES ASSUME Init PROVE StreamsInv
  OBVIOUS
<1>1. index.segments = <<>> /\ <<>> \in Seq(SegmentRow) /\ dumps = NoDumps
  BY DEF Init
<1>2. AssemblyInv(index.segments, dumps)
  BY <1>1, NoneAssembled
<1> QED BY <1>2 DEF StreamsInv, Init

\* Until the first segment is assigned, the rows that are merged matter to nothing.
LEMMA MergeStreams ==
    ASSUME IInv, FileTypes, IndexInv, StreamsInv, MergeShard, ~cancelled
    PROVE  StreamsInv'
<1>1. dumps' = dumps /\ dumps.dumps = <<>> /\ phase' = "indexing" /\ manifest' # "ready"
  BY DEF MergeShard, IndexInv, IInv, ManifestInv
<1>2. index'.segments \in Seq(SegmentRow)
  BY MergeIndex DEF IndexInv
<1>3. Done(dumps) = {}
  BY <1>1 DEF Done
<1>4. AssemblyInv(index'.segments, dumps)
  <2>1. Len(dumps.dumps) = 0 /\ Len(index'.segments) \in Nat
    BY <1>1, <1>2
  <2>2. AssemblyTypes(index'.segments, dumps)
    BY <2>1 DEF StreamsInv, AssemblyInv, AssemblyTypes
  <2>3. \A s \in Streams : dumps.active[s] = None
    BY <1>3 DEF StreamsInv, AssemblyInv, ActiveOf
  <2> QED BY <1>3, <2>2, <2>3 DEF AssemblyInv, HeadsInv, FirstInv, DiagnosticsInv
<1> QED BY <1>1, <1>4 DEF StreamsInv

LEMMA StepStreams == IInv /\ FileTypes /\ IndexInv /\ StreamsInv /\ [Next]_vars => StreamsInv'
<1> SUFFICES ASSUME IInv, FileTypes, IndexInv, StreamsInv, [Next]_vars PROVE StreamsInv'
  OBVIOUS
<1>1. ASSUME UNCHANGED <<index, dumps>>,
             ~(phase = "publishing" \/ manifest = "ready") =>
                ~(phase = "publishing" \/ manifest = "ready")'
      PROVE  StreamsInv'
  BY <1>1 DEF StreamsInv
<1>2. ASSUME NEW why \in {"failed", "cancelled"}, Raise(why) PROVE StreamsInv'
  BY <1>1, <1>2 DEF Raise, indexVars
<1>3. CASE MergeShard
  BY <1>2, <1>3, MergeStreams DEF MergeShard, CancelledHere
<1>4. CASE Assign
  <2>1. CASE cancelled
    BY <1>2, <1>4, <2>1 DEF Assign, CancelledHere
  <2>2. CASE ~cancelled
    <3> DEFINE i == Len(dumps.dumps) + 1
    <3>1. /\ i <= Len(index.segments) /\ dumps' = AssignSegment(index.segments, dumps, i)
          /\ UNCHANGED <<index, phase, manifest>> /\ phase = "indexing"
      BY <1>4, <2>2 DEF Assign
    <3>2. i \in Nat /\ index.segments \in Seq(SegmentRow)
      BY DEF IndexInv, DumpsShape
    <3>3. AssemblyInv(index.segments, dumps)
      BY DEF StreamsInv
    <3>4. AssemblyInv(index.segments, dumps')
      BY <3>1, <3>2, <3>3, AssemblyStep
    <3>5. manifest # "ready"
      BY <3>1 DEF IInv, ManifestInv
    <3> QED BY <3>1, <3>4, <3>5 DEF StreamsInv
  <2> QED BY <2>1, <2>2 DEF IInv, PoolTypes
<1>5. CASE ReportMissing
  <2>1. CASE cancelled
    BY <1>2, <1>5, <2>1 DEF ReportMissing, CancelledHere
  <2>2. CASE ~cancelled
    <3>1. /\ Len(dumps.dumps) = Len(index.segments) /\ UNCHANGED index
          /\ dumps' = [dumps EXCEPT !.missing = MissingSegments(index.segments, dumps.dumps)]
      BY <1>5, <2>2 DEF ReportMissing
    <3>2. AssemblyInv(index.segments, dumps)
      BY DEF StreamsInv
    <3>3. /\ DOMAIN dumps' = DOMAIN dumps /\ dumps'.active = dumps.active
          /\ dumps'.previous = dumps.previous /\ dumps'.dumps = dumps.dumps
          /\ dumps'.first = dumps.first /\ dumps'.diagnostics = dumps.diagnostics
          /\ dumps'.missing = MissingSegments(index.segments, dumps.dumps)
      BY <3>1, <3>2 DEF AssemblyInv, AssemblyTypes
    <3>4. AssemblyInv(index.segments, dumps')
      BY <3>2, <3>3, SameAssembly
    <3> QED BY <3>1, <3>3, <3>4 DEF StreamsInv
  <2> QED BY <2>1, <2>2 DEF IInv, PoolTypes
<1>6. CASE Submit \/ StartIndex \/ Publish \/ Announce \/ StepFails \/ Abort
  <2>1. CASE cancelled /\ (Submit \/ StartIndex \/ Publish)
    BY <1>2, <1>6, <2>1 DEF Submit, StartIndex, Publish, CancelledHere
  <2>2. CASE ~cancelled /\ (Submit \/ StartIndex)
    BY <1>1, <2>2 DEF Submit, StartIndex, indexVars
  <2>3. CASE ~cancelled /\ Publish
    BY <1>1, <2>3 DEF Publish, indexVars
  <2>4. CASE Abort
    <3>1. manifest' \in {manifest, "none", "failed", "cancelled"} /\ phase' = "over"
      BY <2>4 DEF Abort, IInv, PoolTypes
    <3> QED BY <1>1, <2>4, <3>1 DEF Abort, indexVars
  <2>5. CASE Announce
    BY <1>1, <2>5 DEF Announce, indexVars
  <2>6. CASE StepFails
    BY <1>2, <2>6 DEF StepFails
  <2> QED BY <1>6, <2>1, <2>2, <2>3, <2>4, <2>5, <2>6 DEF IInv, PoolTypes
<1>7. ASSUME NEW r \in Ranks, Collect(r) PROVE StreamsInv'
  BY <1>1, <1>2, <1>7 DEF Collect, CancelledHere, indexVars
<1>8. ASSUME NEW r \in Ranks, DropFuture(r) \/ SourceChanges(r) PROVE StreamsInv'
  BY <1>1, <1>8 DEF DropFuture, SourceChanges, parserUnchanged, indexVars
<1>9. CASE ParserStep
  BY <1>1, <1>9 DEF ParserStep, StartParser, ParseLine, FinishParser, ParserFails, parserUnchanged,
     indexVars
<1>10. CASE Cancel \/ Ended \/ UNCHANGED vars
  BY <1>1, <1>10 DEF Cancel, Ended, vars, indexVars
<1> QED BY <1>3, <1>4, <1>5, <1>6, <1>7, <1>8, <1>9, <1>10 DEF Next, MainStep

\* A ready batch has each segment in the dump its stream had open, across files, with
\* the dump's earliest time, and names exactly the starts and numbers that are missing,
\* repeated or out of time.
THEOREM ReadyDumpsTheorem == Spec => []DumpsAreStreams
<1>1. Spec => []IInv
  BY Invariance
<1>2. Spec => []FileTypes
  BY FilesInvariance
<1>3. FileTypes /\ IndexInv /\ [Next]_vars => IndexInv'
  BY StepIndex
<1>4. IInv /\ FileTypes /\ IndexInv /\ StreamsInv /\ [Next]_vars => StreamsInv'
  BY StepStreams
<1>5. IndexInv /\ StreamsInv => DumpsAreStreams
  <2> SUFFICES ASSUME IndexInv, StreamsInv, manifest = "ready"
               PROVE  DumpsAreRight(index.segments, dumps)
    BY DEF DumpsAreStreams
  <2>1. /\ index.segments \in Seq(SegmentRow) /\ AssemblyInv(index.segments, dumps)
        /\ Len(dumps.dumps) = Len(index.segments)
        /\ dumps.missing = MissingSegments(index.segments, dumps.dumps)
    BY DEF IndexInv, StreamsInv
  <2>2. \A i \in DOMAIN index.segments : dumps.dumps[i] = DumpOf(index.segments, i)
    BY <2>1 DEF IndexInv, DumpsByStream
  <2> QED BY <2>1, <2>2, AssembledIsRight
<1> QED BY InitIndex, InitStreams, <1>1, <1>2, <1>3, <1>4, <1>5, PTL DEF Spec
=============================================================================
