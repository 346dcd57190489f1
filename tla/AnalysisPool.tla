----------------------------- MODULE AnalysisPool -----------------------------
(***************************************************************************)
(* run_analysis of product_log/workflow.py from the moment its sources are  *)
(* known: the pool of parsers, their cancellation, the index and the        *)
(* manifest.  The user may cancel at any time, a source may change while it *)
(* is parsed, and whatever the parsers and the task do may raise: an        *)
(* unreadable file, a full disk, a database error, a broken progress pipe.  *)
(***************************************************************************)
EXTENDS FirmwareDumps

CONSTANTS
    Inputs,       \* sequences of files a batch may have, in source order
    MaxWorkers,   \* largest number of workers asked for
    CheckEvery    \* lines a parser reads between two looks at its cancellation

ASSUME PoolAssumption ==
    /\ \A input \in Inputs : input \in Seq(Seq(Line))
    /\ MaxWorkers \in 1..32
    /\ CheckEvery \in Nat \ {0}

VARIABLES
    files,      \* content of the sources
    workers,    \* number of workers
    cancelled,  \* has the user cancelled?
    phase,      \* "collecting", "parsing", "indexing", "publishing", "announcing",
                \* "stopping" after an exception, "over"
    outcome,    \* why it stops
    broken,     \* has anything raised that is not a cancellation?
    stop,       \* stop_workers
    task,       \* state of each source's future
    shard,      \* what its parser has written
    changed,    \* sources that changed under their parser
    collected,  \* futures whose result has been taken
    index,      \* index.sqlite3: segments and records in the order of insertion
    merged,     \* shards merged into it
    dumps,      \* result of the assembly
    manifest    \* status in manifest.json

poolVars == <<stop, task, shard, changed, collected>>
indexVars == <<index, merged, dumps>>
vars == <<files, workers, cancelled, phase, outcome, broken, poolVars, indexVars, manifest>>

Ranks == DOMAIN files
Serial == Len(files) <= 1 \/ workers = 1
Threads == IF Serial THEN 1 ELSE workers
Running == {r \in Ranks : task[r] = "running"}
Queued == {r \in Ranks : task[r] = "queued"}
Finished == {r \in Ranks : task[r] \in {"done", "failed", "cancelled"}}

TypeOK ==
    /\ files \in Inputs
    /\ workers \in 1..MaxWorkers
    /\ cancelled \in BOOLEAN /\ stop \in BOOLEAN /\ broken \in BOOLEAN
    /\ phase \in {"collecting", "parsing", "indexing", "publishing", "announcing",
                  "stopping", "over"}
    /\ outcome \in {"none", "failed", "cancelled"}
    /\ task \in [Ranks -> {"none", "queued", "running", "done", "failed", "cancelled", "dropped"}]
    /\ \A r \in Ranks : shard[r].number \in 0..Len(files[r])
    /\ changed \subseteq Ranks
    /\ collected \subseteq {r \in Ranks : task[r] = "done"}
    /\ Cardinality(Running) <= Threads
    /\ merged \in 0..Len(files)
    /\ manifest \in {"collecting", "parsing", "indexing", "ready", "failed", "cancelled"}

Init ==
    /\ files \in Inputs
    /\ workers \in 1..MaxWorkers
    /\ cancelled = FALSE /\ broken = FALSE
    /\ phase = "collecting" /\ outcome = "none" /\ manifest = "collecting"
    /\ stop = FALSE
    /\ task = [r \in Ranks |-> "none"]
    /\ shard = [r \in Ranks |-> NewShard]
    /\ changed = {} /\ collected = {}
    /\ index = [segments |-> <<>>, records |-> <<>>]
    /\ merged = 0
    /\ dumps = NoDumps

-----------------------------------------------------------------------------
\* The surroundings: TaskManager.stop sets the event that cancelled() reads.
Cancel ==
    /\ ~cancelled /\ phase # "over"
    /\ cancelled' = TRUE
    /\ UNCHANGED <<files, workers, phase, outcome, broken, poolVars, indexVars, manifest>>

SourceChanges(r) ==
    /\ task[r] = "running" /\ r \notin changed
    /\ changed' = changed \cup {r}
    /\ UNCHANGED <<files, workers, cancelled, phase, outcome, broken, stop, task, shard, collected,
                   indexVars, manifest>>

-----------------------------------------------------------------------------
\* The parsers.  A worker takes the futures in the order of their submission; without
\* a pool the next file waits for the result of the last one.
WorkerCancelled == stop \/ cancelled

parserUnchanged == UNCHANGED <<files, workers, cancelled, phase, outcome, stop, collected,
                               changed, indexVars, manifest>>

Becomes(r, state) ==
    /\ task' = [task EXCEPT ![r] = state]
    /\ broken' = (broken \/ state = "failed")

StartParser(r) ==
    /\ task[r] = "queued" /\ \A q \in Ranks : q < r => task[q] # "queued"
    /\ Cardinality(Running) < Threads
    /\ Serial => phase = "parsing" /\ \A q \in Ranks : q < r => q \in collected
    /\ Becomes(r, IF WorkerCancelled THEN "cancelled" ELSE "running")
    /\ UNCHANGED shard
    /\ parserUnchanged

ParseLine(r) ==
    LET check == shard[r].number % CheckEvery = 0
    IN  /\ task[r] = "running" /\ shard[r].number < Len(files[r])
        /\ IF check /\ WorkerCancelled
           THEN Becomes(r, "cancelled") /\ UNCHANGED shard
           ELSE shard' = [shard EXCEPT ![r] = ReadLine(files[r], @)] /\ UNCHANGED <<task, broken>>
        /\ parserUnchanged

\* Its last looks: at the cancellation, and at the size and time of the source.
Verdict(r) == IF WorkerCancelled THEN "cancelled" ELSE IF r \in changed THEN "failed" ELSE "done"

\* Mutant: the segment that is open at the end of the file is lost.
FinishParserUnflushed(r) ==
    /\ task[r] = "running" /\ shard[r].number = Len(files[r])
    /\ Becomes(r, Verdict(r))
    /\ UNCHANGED shard
    /\ parserUnchanged

FinishParser(r) ==
    /\ task[r] = "running" /\ shard[r].number = Len(files[r])
    /\ shard' = [shard EXCEPT ![r] = FlushSegment(files[r], @)]
    /\ Becomes(r, Verdict(r))
    /\ parserUnchanged

\* Mutant: a parser that fails stops the others by itself.
ParserFailsAndStops(r) ==
    /\ task[r] = "running"
    /\ Becomes(r, "failed")
    /\ stop' = TRUE
    /\ UNCHANGED <<files, workers, cancelled, phase, outcome, shard, collected, changed, indexVars,
                   manifest>>

\* The file, the patterns or the shard's database raise at any line.
ParserFails(r) ==
    /\ task[r] = "running"
    /\ Becomes(r, "failed")
    /\ UNCHANGED shard
    /\ parserUnchanged

-----------------------------------------------------------------------------
\* The task's own thread.
Raise(why) ==
    /\ outcome' = why
    /\ stop' = TRUE
    /\ phase' = "stopping"
    /\ UNCHANGED <<files, workers, cancelled, task, shard, changed, collected, indexVars, manifest>>

\* What has no action of its own raises: a write of the manifest, the collection or
\* removal of shards, the database, the caller's progress function, an interrupt.
StepFails ==
    /\ phase \notin {"stopping", "over"}
    /\ Serial => Running = {}
    /\ broken' = TRUE
    /\ Raise("failed")

\* check_cancelled
CancelledHere == cancelled /\ Raise("cancelled") /\ UNCHANGED broken

\* emit("parsing", 0), then every file is submitted.
Submit ==
    /\ phase = "collecting"
    /\ IF cancelled
       THEN CancelledHere
       ELSE /\ phase' = "parsing" /\ manifest' = "parsing"
            /\ task' = [r \in Ranks |-> "queued"]
            /\ UNCHANGED <<files, workers, cancelled, outcome, broken, stop, shard, changed, collected,
                           indexVars>>

\* as_completed: the result of any future that has one; then emit("parsing", rank).
Collect(r) ==
    /\ phase = "parsing" /\ r \in Finished \ collected
    /\ \/ task[r] = "failed" /\ Raise("failed") /\ UNCHANGED broken
       \/ task[r] = "cancelled" /\ Raise("cancelled") /\ UNCHANGED broken
       \/ task[r] = "done" /\ CancelledHere
       \/ /\ task[r] = "done" /\ ~cancelled
          /\ collected' = collected \cup {r}
          /\ UNCHANGED <<files, workers, cancelled, phase, outcome, broken, stop, task, shard, changed,
                         indexVars, manifest>>

\* future.cancel() in the handler of the exception: a running future is not affected.
DropFuture(r) ==
    /\ phase = "stopping" /\ task[r] = "queued"
    /\ Becomes(r, "dropped")
    /\ UNCHANGED shard
    /\ parserUnchanged

\* emit("indexing", 0)
StartIndex ==
    /\ phase = "parsing" /\ collected = Ranks
    /\ IF cancelled
       THEN CancelledHere
       ELSE /\ phase' = "indexing" /\ manifest' = "indexing"
            /\ UNCHANGED <<files, workers, cancelled, outcome, broken, poolVars, indexVars>>

Row(r, n) == [rank |-> r, line |-> n, stream |-> files[r][n].stream,
              seg |-> files[r][n].seg, time |-> files[r][n].time]

MergeShard ==
    LET r == merged + 1
    IN  /\ phase = "indexing" /\ merged < Len(files)
        /\ IF cancelled
           THEN CancelledHere
           ELSE /\ merged' = r
                /\ index' = [segments |-> index.segments \o
                                [i \in DOMAIN shard[r].segments |-> Row(r, shard[r].segments[i])],
                             records |-> index.records \o
                                [i \in DOMAIN shard[r].records |-> <<r, shard[r].records[i]>>]]
                /\ UNCHANGED <<files, workers, cancelled, phase, outcome, broken, poolVars, dumps, manifest>>

Assign ==
    LET i == Len(dumps.dumps) + 1
    IN  /\ phase = "indexing" /\ merged = Len(files) /\ i <= Len(index.segments)
        /\ IF cancelled
           THEN CancelledHere
           ELSE /\ dumps' = AssignSegment(index.segments, dumps, i)
                /\ UNCHANGED <<files, workers, cancelled, phase, outcome, broken, poolVars, index, merged,
                               manifest>>

\* A cancellation is looked for at every number: the rest of the pass is lost with the batch.
ReportMissing ==
    /\ phase = "indexing" /\ merged = Len(files) /\ Len(dumps.dumps) = Len(index.segments)
    /\ IF cancelled
       THEN CancelledHere
       ELSE /\ dumps' = [dumps EXCEPT !.missing = MissingSegments(index.segments, dumps.dumps)]
            /\ phase' = "publishing"
            /\ UNCHANGED <<files, workers, cancelled, outcome, broken, poolVars, index, merged, manifest>>

\* The shards are removed and the manifest is replaced.
Publish ==
    /\ phase = "publishing"
    /\ IF cancelled
       THEN CancelledHere
       ELSE /\ phase' = "announcing" /\ manifest' = "ready"
            /\ UNCHANGED <<files, workers, cancelled, outcome, broken, poolVars, indexVars>>

\* The last call of progress.
Announce ==
    /\ phase = "announcing"
    /\ phase' = "over"
    /\ UNCHANGED <<files, workers, cancelled, outcome, broken, poolVars, indexVars, manifest>>

\* Mutant: the threads are not waited for.
AbortAtOnce ==
    /\ phase = "stopping"
    /\ phase' = "over" /\ manifest' = outcome
    /\ UNCHANGED <<files, workers, cancelled, outcome, broken, poolVars, indexVars>>

\* Leaving the executor's block waits for its threads; then the outcome is recorded,
\* unless that write raises too.
Abort ==
    /\ phase = "stopping" /\ Queued = {} /\ Running = {}
    /\ phase' = "over"
    /\ \/ manifest' = outcome /\ UNCHANGED broken
       \/ broken' = TRUE /\ UNCHANGED manifest
    /\ UNCHANGED <<files, workers, cancelled, outcome, poolVars, indexVars>>

ParserStep == \E r \in Ranks : StartParser(r) \/ ParseLine(r) \/ FinishParser(r) \/ ParserFails(r)

MainStep ==
    \/ Submit \/ StartIndex \/ MergeShard \/ Assign \/ ReportMissing \/ Publish \/ Announce
    \/ StepFails \/ Abort
    \/ \E r \in Ranks : Collect(r) \/ DropFuture(r)

Ended == phase = "over" /\ UNCHANGED vars

Next == Cancel \/ ParserStep \/ MainStep \/ Ended \/ \E r \in Ranks : SourceChanges(r)

Spec == Init /\ [][Next]_vars

-----------------------------------------------------------------------------
\* Whatever order the parsers ran and ended in, a ready batch holds every line the
\* rules keep, once, under its own header, and in the order of sources and lines.
ReadyIndexIsWhole ==
    manifest = "ready" =>
        /\ \A i, j \in DOMAIN index.records : i < j =>
            LET x == index.records[i]  y == index.records[j]
            IN  x[1] < y[1] \/ (x[1] = y[1] /\ x[2][1] < y[2][1])
        /\ \A r \in Ranks :
            /\ {x[2] : x \in {y \in Range(index.records) : y[1] = r}} = RecordsOf(files[r])
            /\ {x.line : x \in {y \in Range(index.segments) : y.rank = r}} = SegmentsOf(files[r])
        /\ \A i, j \in DOMAIN index.segments : i < j =>
            LET x == index.segments[i]  y == index.segments[j]
            IN  x.rank < y.rank \/ (x.rank = y.rank /\ x.line < y.line)

\* A ready batch has each segment in the dump its stream had open, across files, and
\* names exactly the starts and numbers that are missing, repeated or out of time.
DumpsAreStreams ==
    manifest = "ready" =>
        DumpsAreRight(index.segments, dumps)

\* Parsers that stop because another one or the task failed must not turn the failure
\* into a cancellation, nor the other way round: a batch is recorded as cancelled only
\* if the user asked for it, as failed only if something raised that is not a
\* cancellation, and as ready only if every parser ended well on a source that did not
\* change.  A batch that is over and of which nothing broke is recorded as one of them.
OutcomeIsTrue ==
    /\ manifest = "cancelled" => cancelled
    /\ manifest = "failed" => broken
    /\ manifest = "ready" => changed = {} /\ \A r \in Ranks : task[r] = "done"
    /\ phase = "over" /\ ~broken => manifest \in {"ready", "cancelled"}

\* Once the manager has the task's outcome (and may remove the batch), no parser holds
\* a shard or writes to it, and none will begin.
QuietWhenOver == phase = "over" => Running = {} /\ Queued = {}
=============================================================================
