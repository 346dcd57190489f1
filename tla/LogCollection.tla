----------------------------- MODULE LogCollection -----------------------------
(***************************************************************************)
(* LogCollection of autoenv/logs.py, from the download of its sources to    *)
(* the ready manifest, and the queries of autoenv/log_query.py that the Web *)
(* server answers meanwhile.  A script calls the operations one after the   *)
(* other, in any order it likes, and ends when one of them raises; the      *)
(* server runs in another process and sees only the files.  How lines are   *)
(* matched is LogRules' subject: here a rule takes the files of a group.    *)
(***************************************************************************)
EXTENDS ScpBatch

CONSTANTS
    MaxSources,   \* sources a script declares
    MaxRules      \* rules it applies

Sources == 1..MaxSources
Items == Sources \X Files
Records == Items \X (1..MaxRules)

ASSUME CollectionAssumption == MaxSources \in Nat \ {0} /\ MaxRules \in Nat

VARIABLES
    pc,          \* the script: "call", "download", "index", "publish" or "ended"
    declared,    \* sources of the download call
    many,        \* was it download_sources or download_many?
    results,     \* _downloads: [ok, files] of each source so far
    raw,         \* files under raw/
    expanded,    \* files under expanded/
    group,       \* files of the group in use
    rules,       \* rules applied
    records,     \* _records
    failed,      \* _failed
    extracted,   \* _extracted
    finalized,   \* _finalized
    index,       \* rows of index.sqlite3
    manifest,    \* status in manifest.json
    announced,   \* its record_count
    query,       \* a query of the server: "idle", "checked" or "read"
    wanted,      \* record_count of the manifest it has checked
    rows         \* how many rows it read

stateVars == <<declared, many, results, failed, extracted, finalized>>
fileVars == <<raw, expanded, index, manifest, announced>>
ruleVars == <<group, rules, records>>
queryVars == <<query, wanted, rows>>
vars == <<batchVars, pc, stateVars, fileVars, ruleVars, queryVars>>

TypeOK ==
    /\ BatchTypeOK
    /\ pc \in {"call", "download", "index", "publish", "ended"}
    /\ declared \in 0..MaxSources
    /\ many \in BOOLEAN
    /\ results \in Seq([ok : BOOLEAN, files : SUBSET Files])
    /\ raw \subseteq Items /\ expanded \subseteq raw /\ group \subseteq expanded
    /\ rules \in 0..MaxRules
    /\ records \subseteq Records /\ index \subseteq Records
    /\ failed \in BOOLEAN /\ extracted \in BOOLEAN /\ finalized \in BOOLEAN
    /\ manifest \in {"building", "failed", "ready"}
    /\ announced \in Nat /\ wanted \in Nat /\ rows \in Nat
    /\ query \in {"idle", "checked", "read"}

Init ==
    /\ BatchInit
    /\ pc = "call"
    /\ declared = 0 /\ many = FALSE /\ results = <<>>
    /\ raw = {} /\ expanded = {} /\ group = {}
    /\ rules = 0 /\ records = {}
    /\ failed = FALSE /\ extracted = FALSE /\ finalized = FALSE
    /\ index = {} /\ manifest = "building" /\ announced = 0
    /\ query = "idle" /\ wanted = 0 /\ rows = 0

-----------------------------------------------------------------------------
(* Download *)

\* A source that has been started keeps a second download away.
DownloadAllowed == results = <<>> /\ ~failed /\ ~extracted /\ ~finalized

\* The sources are fetched one after the other, each into its own directory;
\* download has one, and no directory of its own for it.
Download(n) ==
    /\ pc = "call" /\ DownloadAllowed
    /\ pc' = "download"
    /\ declared' = n
    /\ many' \in BOOLEAN
    /\ many' = FALSE => n = 1
    /\ UNCHANGED <<batchVars, results, failed, extracted, finalized, fileVars, ruleVars, queryVars>>

\* Each source in turn is a batch of its own.
StartSource ==
    /\ pc = "download"
    /\ phase = "idle"
    /\ (\E n \in 0..MaxFiles : StartBatch(n)) \/ StartRaises
    /\ UNCHANGED <<pc, stateVars, fileVars, ruleVars, queryVars>>

Transfers ==
    /\ pc = "download"
    /\ BatchStep
    /\ UNCHANGED <<pc, stateVars, fileVars, ruleVars, queryVars>>

Source == Len(results) + 1
Fetched == {Source} \X Present
BatchOver == pc = "download" /\ phase \in Over
BatchForgotten ==
    /\ phase' = "idle" /\ total' = 0
    /\ transfer' = [i \in Files |-> "none"]
    /\ partName' = NoNames /\ disk' = EmptyDirectory /\ counted' = 0 /\ told' = <<>> /\ lock' = NoFile

SourceFetched ==
    /\ BatchOver /\ phase = "success"
    /\ results' = Append(results, [ok |-> TRUE, files |-> Completed])
    /\ raw' = raw \cup Fetched
    /\ pc' = IF Source = declared THEN "call" ELSE "download"
    /\ BatchForgotten
    /\ UNCHANGED <<declared, many, failed, extracted, finalized,
                   expanded, index, manifest, announced, ruleVars, queryVars>>

\* Mutant: the sources after the failed one are fetched all the same.
SourceSkipped ==
    /\ BatchOver /\ phase = "failure"
    /\ raw' = raw \cup Fetched
    /\ results' = Append(results, [ok |-> TRUE, files |-> {}])
    /\ pc' = IF Source = declared THEN "call" ELSE "download"
    /\ BatchForgotten
    /\ UNCHANGED <<declared, many, failed, extracted, finalized,
                   expanded, index, manifest, announced, ruleVars, queryVars>>

\* raw/ is removed and made again.
ClearedRaw == {}

\* One source that fails ends the download; raw/ is emptied if there may be
\* other sources in it.
SourceFails ==
    /\ BatchOver /\ phase = "failure"
    /\ results' = Append(results, [ok |-> FALSE, files |-> {}])
    /\ failed' = TRUE
    /\ manifest' = "failed"
    /\ raw' = IF many THEN ClearedRaw ELSE raw \cup Fetched
    /\ pc' = "call"
    /\ BatchForgotten
    /\ UNCHANGED <<declared, many, extracted, finalized, expanded, index, announced,
                   ruleVars, queryVars>>

\* The call raises, and the script with it.
SourceRaises ==
    /\ BatchOver /\ phase = "raised"
    /\ raw' = raw \cup Fetched
    /\ pc' = "ended"
    /\ BatchForgotten
    /\ UNCHANGED <<stateVars, expanded, index, manifest, announced, ruleVars, queryVars>>

-----------------------------------------------------------------------------
(* Extraction, groups and rules *)

Succeeded == results # <<>> /\ \A s \in DOMAIN results : results[s].ok
Downloaded == {item \in Items : item[1] \in DOMAIN results /\ item[2] \in results[item[1]].files}

\* The script is told of the failure, and may go on.
FailsHere == failed' = TRUE /\ manifest' = "failed"

Archive == INSTANCE LogArchive

\* Every file is copied, and what it holds expanded beside it; a file counts
\* that is there with all its members.
ExtractAll ==
    /\ pc = "call"
    /\ Succeeded /\ expanded = {} /\ Downloaded \subseteq raw
    /\ \E whole \in Archive!AcceptedAreWhole, item \in Downloaded :
          expanded' = IF whole THEN Downloaded ELSE Downloaded \ {item}
    /\ extracted' = TRUE
    /\ UNCHANGED <<batchVars, pc, declared, many, results, failed, finalized,
                   raw, index, manifest, announced, ruleVars, queryVars>>

\* Nothing downloaded, a file gone, a copy already there, a bad archive or a
\* limit: some files stay behind.
ExtractFails ==
    /\ pc = "call"
    /\ expanded' \in IF Succeeded /\ expanded = {} THEN SUBSET (Downloaded \cap raw) ELSE {expanded}
    /\ FailsHere
    /\ UNCHANGED <<batchVars, pc, declared, many, results, extracted, finalized,
                   raw, index, announced, ruleVars, queryVars>>

\* group and source_groups: files of the expanded tree, or of one source.
Group ==
    /\ pc = "call"
    /\ extracted
    /\ \/ group' \in {expanded} \cup {{item \in expanded : item[1] = s} : s \in 1..declared}
          /\ UNCHANGED <<pc, failed, manifest>>
       \/ pc' = "ended" /\ FailsHere /\ UNCHANGED group
    /\ UNCHANGED <<batchVars, declared, many, results, extracted, finalized,
                   raw, expanded, index, announced, rules, records, queryVars>>

\* A rule adds the records of its files, all of them or, with a file that
\* cannot be decoded, some.
Match ==
    /\ pc = "call"
    /\ group # {} /\ rules < MaxRules
    /\ rules' = rules + 1
    /\ \/ /\ records' = records \cup (group \X {rules + 1})
          /\ UNCHANGED <<failed, manifest>>
       \/ /\ \E G \in SUBSET group : records' = records \cup (G \X {rules + 1})
          /\ FailsHere
    /\ UNCHANGED <<batchVars, pc, declared, many, results, extracted, finalized,
                   raw, expanded, index, announced, group, queryVars>>

-----------------------------------------------------------------------------
(* finalize *)

\* Mutant: a finalized collection may be finalized again.
FinalizeAllowedAgain == ~failed

FinalizeAllowed == ~finalized /\ ~failed

\* The target files are written and the old index is unlinked.
Finalize ==
    /\ pc = "call"
    /\ FinalizeAllowed
    /\ index' = {}
    /\ pc' = "index"
    /\ UNCHANGED <<batchVars, stateVars, raw, expanded, manifest, announced, ruleVars, queryVars>>

FinalizeRefused ==
    /\ pc = "call"
    /\ ~FinalizeAllowed
    /\ FailsHere
    /\ UNCHANGED <<batchVars, pc, declared, many, results, extracted, finalized,
                   raw, expanded, index, announced, ruleVars, queryVars>>

WriteIndex ==
    /\ pc = "index"
    /\ index' = records
    /\ finalized' = TRUE
    /\ pc' = "publish"
    /\ UNCHANGED <<batchVars, declared, many, results, failed, extracted,
                   raw, expanded, manifest, announced, ruleVars, queryVars>>

WriteManifest ==
    /\ pc = "publish"
    /\ manifest' = "ready"
    /\ announced' = Cardinality(records)
    /\ pc' = "call"
    /\ UNCHANGED <<batchVars, stateVars, raw, expanded, index, ruleVars, queryVars>>

\* The disk refuses the index, or the manifest.
FinalizeFails ==
    /\ pc \in {"index", "publish"}
    /\ FailsHere
    /\ pc' = "call"
    /\ UNCHANGED <<batchVars, declared, many, results, extracted, finalized,
                   raw, expanded, index, announced, ruleVars, queryVars>>

\* The script returns, raises or is killed.
ScriptEnds ==
    /\ pc' = "ended" /\ pc # "ended"
    /\ BatchForgotten
    /\ UNCHANGED <<stateVars, fileVars, ruleVars, queryVars>>

-----------------------------------------------------------------------------
(* The server *)

\* list_log_targets accepts a ready manifest only; the index is opened next.
CheckManifest ==
    /\ query = "idle"
    /\ manifest = "ready"
    /\ query' = "checked" /\ wanted' = announced
    /\ UNCHANGED <<batchVars, pc, stateVars, fileVars, ruleVars, rows>>

ReadIndex ==
    /\ query = "checked"
    /\ query' = "read" /\ rows' = Cardinality(index)
    /\ UNCHANGED <<batchVars, pc, stateVars, fileVars, ruleVars, wanted>>

QueryDone ==
    /\ query = "read"
    /\ query' = "idle" /\ wanted' = 0 /\ rows' = 0
    /\ UNCHANGED <<batchVars, pc, stateVars, fileVars, ruleVars>>

-----------------------------------------------------------------------------

Next ==
    \/ \E n \in Sources : Download(n)
    \/ StartSource \/ Transfers \/ SourceFetched \/ SourceFails \/ SourceRaises
    \/ ExtractAll \/ ExtractFails \/ Group \/ Match
    \/ Finalize \/ FinalizeRefused \/ WriteIndex \/ WriteManifest \/ FinalizeFails
    \/ ScriptEnds
    \/ CheckManifest \/ ReadIndex \/ QueryDone

Spec == Init /\ [][Next]_vars

\* The workers of the pool run.
FairSpec == Spec /\ BatchFairness

-----------------------------------------------------------------------------
(* Properties *)

\* However the parallel transfers of a batch interleave and fail, its progress
\* lines count up one by one and it ends with whole files in their places.
TransfersInOrder == TypeOK /\ ProgressInOrder /\ PlacedWhenOver

\* The records the server offers come from a whole batch: every source was
\* fetched and each of its files expanded, whatever failed before and in
\* whatever order the script called, and though a file can be gone again when
\* the batch is over.  (finalize asks for no extraction: a script that leaves
\* it out gets a ready batch without records.  What is under the files' names
\* is PlacedWhenOver's subject.)
ReadyIsWhole ==
    manifest = "ready" /\ announced > 0 =>
        /\ Len(results) = declared
        /\ \A s \in DOMAIN results : results[s].ok /\ results[s].files # {}
        /\ expanded = Downloaded

\* A query finds the records the manifest it checked has announced, also
\* while the script goes on.
QueriesAreWhole == query = "read" => rows = wanted
=============================================================================
