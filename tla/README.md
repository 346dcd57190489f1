# AutoEnv: TLA+ models, checks and proofs

AutoEnv is a local tool for network-device work: Python scripts drive SSH,
Telnet and FTP connections, collect logs into queryable batches, and a local Web
server (`webPage/server.py`) starts the scripts, shows their output and serves
the product-log parser (`product_log/`). This directory models the parts of it
that keep state, run concurrently or survive a restart. Paths below are
relative to the repository; `autoenv/`, `product_log/` and `webPage/` are under `src/`.

## 1. Inventory

| Component | State it keeps | Operations | What is hard |
|---|---|---|---|
| Product-log upload, `product_log/web.py` 63-77, 229-328, 619-657 | `Upload.offsets/finished/claimed`, its lock, the directory of files, `TaskManager.uploads` | create, chunk, finish, cancel, use by a start | every request is a thread; two locks; chunks repeated, reordered, broken off; a removal that fails half-way |
| Product-log task manager and retention, `product_log/web.py`, `retention.py` | task list, active task, pin, batch and upload directories, `manifest.json`, `web-task.json` | start, worker thread, stop, list/pin, retention pass, restart | what a pass may delete while tasks finish and chain inputs; writes in place; restart from disk |
| Analysis workflow, `product_log/workflow.py`, `parser.py`, `index.py` | batch directory, shards, a parser pool, dumps open per stream | expand, select, parse, index, publish; queries | parsers that end in any order, fail or are cancelled; dumps that go on in other files |
| Web script session, `webPage/server.py` 56-196, 562-572, `webPage/app.js` 100-123 | `events`, `generation`, `process`, `last_log_path`; page cursor | start, stop, monitor thread, append, poll | old monitors, several pages, cursors, a child that is killed at any line |
| Execution session and command line, `autoenv/script_session.py`, `cli.py`, `recorder.py` | bindings, remote objects, operations, `result.json`, `state/script_runs/` | prepare, bind, get_remote_info, finish, close | every way a script can end; a catalogue edited between two runs; files shared by runs |
| Registry and runtime, `autoenv/registry.py`, `runtime.py` | stack of runs, last parameters, package cache, connections | run_script, rerun, child runs, pruning | failures between the steps of a start and of an end |
| Connection catalogue, `autoenv/remote_catalog.py` | files of connections, digests | read, save | edits under a prepared run; two saves at once |
| Remote environment, `autoenv/remote_environment.py` | `available`, self-check, one client per object | create, retry, execute, waits, transfers, close | a client replaced, a connection lost |
| SSH and FTP hosts, `autoenv/ssh_host.py`, `ftp_host.py` | connection, channels, remote file, `.part` | execute, execute_on_output, upload, download, `scp_download_many` | a connection that dies between the command and its status; worker pool, counter, all-or-nothing |
| Telnet client, `autoenv/telnet_client.py` | received text, cursor, prompt, mode, socket | login, probe, execute, wait, read, mark | output against timeouts, late answers of earlier commands, reboots, passwords |
| Log collection, `autoenv/logs.py`, `log_query.py` | `_downloads`, `_records`, flags, raw/expanded trees, SQLite index, manifest | download, extract, group, match, finalize; list, query, correlate, export | a script may call anything after a failure; readers in another process; block boundaries; paging |
| Package manager and extractor, `autoenv/package_manager.py`, `extractor.py` | `package_dir`, `.part`, targets and backups | download, package, extract | a server that changes meanwhile; a replacement that fails half-way |
| Local archives and file handles, `autoenv/local_archives.py`, `file_handles.py` | files of the script | unzip, copy_to, move_to, rename, create_file | publication without overwriting anybody's file; members that collide |
| Command line options, script metadata, configuration, module map, selectors, rules file | none to speak of | parsing, validation | - |
| Pages (JavaScript), offline parser, vendored libraries, agent skills, docs | - | - | user interface or third party |

How they meet: the page calls the server over HTTP; the server starts
`python -m autoenv.cli run ...` as a child and reads the event file and the
`output.log` that the child's `ExecutionSession` writes. The session binds a
connection of the catalogue and makes a remote object of it, which owns a Telnet
client or an SSH or FTP host. A script calls `LogCollection`, which calls
`SSHHost.scp_download_many` once per source and leaves `index.sqlite3` and
`manifest.json`, which the server's query handlers read from their own process. The
server's product-log handlers share one `TaskManager` per root; its worker thread
calls `run_analysis`, and every operation that takes the manager's lock may run a
pass of retention.

What makes each part correct is stated as properties next to the model; the
list of hazards that they answer, each at its line, is in `PROJECT.json`.

## 2. Modules

| Module | Models | Composed with |
|---|---|---|
| `UploadContract` | what an upload promises a client: bytes received once and in order, accepted only when complete, used once, dropped at most once | implemented by `ProductLogUpload` |
| `ProductLogUpload` | one upload and its handler threads | refinement `Contract!ContractSpec` (`got <- offsets`, `phase <- Phase`) |
| `ProductLogManager` | `TaskManager` without the bytes of uploads, `enforce_retention`, `_load_history` | |
| `FirmwareDumps` | how a source is cut into segments and rows, and how segments become dumps; definitions only | used by `AnalysisPool` |
| `AnalysisPool` | `run_analysis` from its parsers to its outcome, with `parse_file` and `build_index` | EXTENDS `FirmwareDumps` |
| `WebSession` | `ScriptProcessSession`, the HTTP handler around it, the page that polls, the child | |
| `ScriptSession` | the runs of one script: `cli.py`, `ExecutionSession`, the catalogue, the history, the remote object as the session sees it | |
| `ScriptRuns` | `run_script` with child runs and reruns, `RunContext`, the package cache | |
| `ConsoleContract` | what a serial console promises its reader: text kept in order, taken once, up to the first keyword | implemented by `TelnetConsole` |
| `TelnetConsole` | `TelnetClient` with `TelnetRemote`, and the device at the other end | refinement `Contract!ContractSpec` (`unread <- Unread(client)`, `reader <- Reader`) |
| `RemoteHost` | `SSHHost` and `FTPHost`: commands and transfers of one file | |
| `Remotes` | a remote object, which is one or the other | EXTENDS `TelnetConsole`, INSTANCE `RemoteHost` |
| `LocalDisk` | the names that local operations share | used by the next four |
| `PackageDownload`, `PackageExtraction` | `PackageManager.download`; `Extractor.extract` | EXTENDS `LocalDisk` |
| `ArchiveMembers` | which archives `local_archives.py` accepts; definitions only | used by `FileHandles`, `LogArchive` |
| `FileHandles` | `copy_to`, `move_to`, `rename`, `create_file`, `unzip` of handles | EXTENDS `LocalDisk`, `ArchiveMembers` |
| `LocalFiles` | all of these at once, and a user | EXTENDS the three |
| `ScpBatch` | `scp_download_many` | used by `LogCollection` |
| `LogArchive` | which archives the extraction of `logs.py` accepts; definitions only | INSTANCE in `LogCollection` |
| `LogCollection` | the collection's operations in any order, and the server's queries meanwhile | EXTENDS `ScpBatch` |
| `LogRules` | timestamps and their inheritance, `match_line_block`, `match_block`, strict mode, hidden lines, one line per step | EXTENDS `LogQuery` |
| `LogQuery` | `query_log_records`: context, windows by offset, pages; definitions only | used by `LogRules` |
| `LogReading` | a file matched, its rows indexed, a client that reads them all | EXTENDS `LogRules` |
| `ProductLogUploadProofs`, `AnalysisPoolProofs`, `LogCollectionProofs`, `WebSessionProofs`, `ProductLogManagerProofs`, `LocalFilesProofs`, `RemotesProofs` | proofs (section 5) | EXTEND the module they are named after; `LogCollectionProofs` has `ScpBatch`, `LogRules` and `LogReading` too, `RemotesProofs` the host and the console |
| `ScriptSessionProofs` | proofs (section 5) | EXTENDS `ScriptSession` and `ScriptRuns` |
| `MCProductLogUpload`, `MCAnalysisPool`, `MCLogCollection`, `MCRemotes`, `MCLocalFiles`, `MCScriptSession` | values of constants a cfg cannot write | |

Names follow the code: an operation `finish_upload` is `ArriveFinish`,
`AcceptFinish`, `RejectFinish`, `FinishStorage`: one action for each stretch the
code runs under a lock or between two points where another thread can see its
work. `PROJECT.json` maps every definition to its lines. Operators that begin with
the comment "Mutant:" are plausible bugs; each property is shown to fail when one
of them takes the place of the operator it is a variant of.

### ProductLogUpload
`req[r]` is a handler thread with the request it serves; a request keeps the
upload it looked up although a cancellation forgets it meanwhile, as the Python
object does. `write_chunk` holds the upload's lock from `AcceptChunk` until
`CommitChunk` or `BreakChunk`, one byte per step; `cancel_upload` and `start`
take the manager's lock first and wait for the upload's. A file's i-th byte is the
number i, so order and completeness of the data are visible.

### ProductLogManager
`batchDir` is what a batch's directory holds; only the stages a restart can tell
apart are kept. `op` is the operation that holds the manager's lock, `phase` the
retention pass it runs: the scan computes what is spared once, then one removal
per step, while the worker goes on without the lock. `Return` to `EnterComplete`
are the lines of `_run` after `run_analysis`; only `Announce` and `EnterComplete`
need the lock. `Crash` keeps the disk, `Boot` is `_load_history` followed by a pass.

### WebSession
`Request`, `TakeProcess`, `KillTaken`, `ResetSession`, `SpawnChild`,
`RegisterChild`, `Answer` are the critical sections of `stop` and `start_script`.
The monitor of each run is a thread of its own that `stop` does not end. The child
(`cli.py`, `script_session.py`) writes its location, then lines, and exits or is
killed. A page that is reloaded is another page; `Watchers` are the pages that stay
open. The server is a `ThreadingHTTPServer`, so requests overlap (`MaxRequests` bounds
how many): `stop` reads the attribute `process` and clears it later, and two requests may
do this, spawn and register in any order. `crossed` remembers which requests met another
one since the server last had none, so that a property can say what only they can do.

### ScriptSession, ScriptRuns
One record per run says where it is (`pc`), what it was prepared with, its remote
object, the outcome of each operation (`ops`) and how it ended. The steps are those
of `cli.main`: inspect, read the catalogue, read the history, bind, run the body
(`InitScript`, `GetRemote`, `SelfCheck`, `Retry`, `Operate`, `CloseRemote`, `Catch`),
and one of `Returns`, `ReturnsResult`, `RaisesOut`, then `WriteResult`, `OpenPartial`,
`WritePartial`, `ReplaceHistory`, `Close`. A script run without the command line
(`hosted = FALSE`) takes the same steps with its own exit status, except that a history
it cannot write ends it before it has closed its remote objects. It is taken to use the
block `with init_script()`.
The `.tmp` of the history is one file for all runs of a script: opening it cuts off what
another run has written, a run may go on writing to a file that another one has moved, and
what is then read as the history may be cut short or mixed (`Unreadable`), which fails the
next run that needs it. A hosted script goes on after its block has closed the remote
objects; each is closed once, and refuses to be tried again. A role has one remote object;
`client.close()` is taken not to raise, and a process that is killed is not modelled. Configurations are revisions; the
digests of the code are their equality. `SaveConnection`, `EditScript` and
`AnotherRunEnds` are what happens around the run.
`ScriptRuns` is the older path, `run_script` of the registry: a stack of runs, of
which the top one acts; each end commits and pops in the code's order. A start may fail
(`StartFails`): for want of a last run, or because a directory or file of the run cannot be
made or removed; there is then no context, and the caller has a failed result. The clean-up
at a start goes by the time of the run directories, which every file that is put into one
makes the newest (`touched`), and empties one after the other until the rest is within the
limit (`size`), or stops at one it cannot remove. Equal times, a directory that is removed
half-way, the fallback of `RunContext.argument` to defaults (`runtime.py` 472), the choice of
a newest directory and scripts that call themselves are left out. A start may empty the
packages of the parent that is running (the test `historical_content_only` of
`tests/test_runtime_registry.py` 812 excludes only the run's own).

### ConsoleContract, TelnetConsole
Text is a sequence of tokens (output, keyword, prompt, login and password prompts,
the marker line of a command); a packet is any prefix of what is on the wire. The
client's fields are the code's: `buf`, `cursor`, `floor` (where a new prompt is looked
for), `prompt`, `mode`. `op` is the operation that holds the client's lock, with the
point of `login_passive`, `prepare_passive_command`, `_open_session`, `_execute_locked`
or of a passive wait it is at. The device may be a POSIX shell or an appliance,
echo prompts inside its output, answer late, reboot; the gateway may keep it while
the connection is lost. What is sent arrives as a whole or, over a connection that has
broken, not at all: then the command ends in `SendFails`, with no answer.

### RemoteHost, Remotes
One operation at a time (`call`) on a connection that may die at every step. `Receive`
and the verdicts of `_execute` are separate actions, so that the status, the keyword
and the end of a stream come in every order; transfers go through check, write,
verify, record, with SFTP, SCP and FTP differing where the code differs. A torn upload is a
shorter file, which is why a comparison of sizes, all that FTP has, finds it; nobody else
writes the remote file. `Remotes` chooses the class as `create_remote` does.

### LocalDisk and the modules of local files
`disk[name]` is what is behind a name and whether it is whole; `part` is the `.part`
beside it; what `mkdtemp` and `mkstemp` made belongs to the job. Every rename, link,
unlink and copy of the code is a step; between any two of them another worker, the
server or the user may act. A build has a name and a length, and several may have the
same: the server may replace the listed one by another before its body is sent, and the
check compares lengths only, so that another build of the name and length, or a piece of a
longer one that happens to have the length, passes it (`SizeFits`). That a piece of a package
does not expand is assumed of the archive formats. `ArchiveMembers` gives each member a path out of a
small tree and folds the code's admission over all archives of up to
`MaxMembers` members.

### ScpBatch, LogCollection, LogArchive
A transfer goes through `Begin`, `Get`, `Place` (rename), `Stamp` (mtime and
record), `Count` and `Tell` (under `completion_lock`); every one of these can
fail, also the recorder's writes (`LogMayFail`). A file is received in the destination
directory under its own name with `.part` added, and the remote directory may hold a file
of just that name (`Namings`): then one worker unlinks, overwrites or moves what
another has fetched, and `disk` says whose contents are under which name. `Apart` are the
files that clash with no other. Names that differ only in case are taken to be different. `Collect` is the loop over
`as_completed` and the clean-up. The script of `LogCollection` calls `Download`,
`ExtractAll`, `Group`, `Match`, `Finalize` in any order; only exceptions that leave a
call end it. Whether an accepted archive is written in full is what `LogArchive`
computes from its admission rule; formats, limits and decoding are the
nondeterministic failure of `ExtractFails` and `Match`.

### FirmwareDumps, AnalysisPool
A parser is a thread (`StartParser`, `ParseLine`, `FinishParser`), the task's own
thread is the rest: `Submit`, `Collect` (a result of `as_completed`, then `emit`),
`DropFuture` (`future.cancel` in the handler), `MergeShard`, `Assign` (one segment),
`ReportMissing`, `Publish`, `Abort`. Every `check_cancelled` is where the code has
it; a parser looks at the first line and then every `CheckEvery` lines (256 in the
code). One worker or one file is the loop without a pool: the same actions, one
thread, the next file only after the result of the last. Whatever a parser or the task
does may raise (`ParserFails`, `StepFails`): the source, the patterns, a database, a write
of the manifest, the removal of the shards, the caller's progress function; `broken`
remembers that something did. That the executor itself cannot start a thread is left
out. The last progress call comes after the manifest says `ready`: if it raises, as a broken
pipe of the command line does (the manager's does not), `failed` is written over it. A line is what the
profile's patterns say of it; kernel files (a record for each line) and rows inside
a header line are left out, and what the code calls unclassified is not stored
for a configured source, so it is a diagnostic only.

### LogRules, LogQuery, LogReading
A line is what the patterns say of it: begin, end or text, excluded or consumed, and a
valid, an invalid or no timestamp. The three rules are fed the same lines.
Properties define each rule's result over the whole file, without the state
machine; hidden lines (`exclude_regex`, `consume_regex`) are dropped after the block is
found, as `Shows` has it. Metadata fields are left out. A valid timestamp is named by
its line, so inheritance shows which line a time came from.

## 3. Runs

| Run | Bounds | Shows | States |
|---|---|---|---|
| `MCUpload` | 3 threads, files of 2 and 0 bytes, chunks of at most 2, removals may fail half-way | `AcceptedBytesInOrder`, `UsedUploadComplete`, `FinishedFilesFrozen`, `ImplementsContract`, `RequestsAnswered` | 228 000 |
| `MCRetention` | 3 batches, 1 upload, limit of 2 trees, 1 restart | `TaskListIsTrue`, `StorageSettles`, `DurableOutcome`, `KeptInputs`, `RetentionSpares` | 2.8 million |
| `MCManagerFailures` | 2 batches, 1 upload, removals and manifest writes may fail | `TasksComplete`, `LockReleased` | 234 000 |
| `MCAnalysisPool` | up to 2 files of 7 kinds, or 3 of those 3 that begin with a kept segment, at most 4 lines each, 2 streams, 1 or 2 workers, a look every 2 lines, anything may raise | `ReadyIndexIsWhole`, `DumpsAreStreams`, `OutcomeIsTrue`, `QuietWhenOver`; no deadlock but the end | 2.4 million |
| `MCSession` | 2 pages of which 1 polls, 2 requests at a time, 2 runs, 2 lines in all | `ShownInOrder`, `NoStaleEvents`, `NoChildLost`, `EndIsShown` | 605 000 |
| `MCScriptSession` | 1 console, 2 connections of 2 revisions, a script edited once, 2 operations a run | `InheritedIsSame`, `ResultIsTrue`, `NothingLeftOpen`, `HistoryIsOfARun` | 2.05 million |
| `MCScriptRuns` | 2 scripts, 3 runs, 2 hosts, packages of size 1 or 2, a cache of 2 | `RerunRepeats`, `LeastIsRemoved` | 402 000 |
| `MCRemotes` | a console (2 operations, 1 reboot or break, 5 unread tokens, every mode, device and login) or a host (a keyword of 2 characters, 3 characters a stream, every protocol) | `AnswersAreTrue`, `PasswordAtPrompts`, `TransfersAreWhole`, `ImplementsConsole` | 1.07 million |
| `MCLocalFiles` | 2 workers, 3 builds of one name, 2 of them of one length, 2 places, archives of up to 2 members, 1 change by the server or somebody else | `PackagesAsListed`, `OldTreeKept`, `UnpackedIsClear`, `OthersFilesStay` | 2.1 million |
| `MCLogCollection` | 2 sources of at most 3 files, of which the `.part` of one may be another's name, 2 workers, 2 rules | `TransfersInOrder`, `ReadyIsWhole`, `QueriesAreWhole`, `BatchEnds` | 213 000 |
| `MCLogReading` | files of at most 5 lines, context 1, pages of 1 or 2 | `BlocksFollowRules`, `ReadingsAreWhole` | 544 000 |
| `MCTornManifest` | 2 batches, a limit of 1 tree, 1 restart | violates `NewestSuccessKept` | - |

The last run ends in a counterexample, a disagreement of the code with what
`product_log/README.md` 96 says: `_run` rewrites a published `manifest.json` in place;
after a restart at that moment the newest success is unknown and retention removes it.

What the less obvious properties say:

- `ReadyIndexIsWhole`, `DumpsAreStreams`: however the pool's parsers end, the index holds
  the kept lines in the order of the sources, and the dumps are the streams' segments.
- `OutcomeIsTrue`: cancelled only if the user asked, failed only if something raised that is
  not a cancellation, ready only if every parser ended well on an unchanged source; and where
  nothing broke, ready or cancelled it is.
- `RequestsAnswered`: every request of a handler thread is answered, if no client stalls
  for ever in the middle of a body. Its premise says just this (`AwaitsBody`); section 4.
- `NoChildLost`: a child that lives is the one the next stop takes, or in the hands of a
  request, until it is dead; only requests that met another one can lose it.
- `PlacedWhenOver` (in `TransfersInOrder`): a batch that is over has left no partial file, and
  a successful one has each of its files that clash with no other one's `.part`.
- `PackagesAsListed`: a package in place has the name and the length that were listed, and is
  the very build unless the server changed between the listing and the body.
- `TaskListIsTrue`: what is not finished is the active task, and `ready` is only what
  has been published. `DurableOutcome`: a restart finds the outcome a client was told.
- `AnswersAreTrue`: a code in a result is the code its own command ended with, although
  prompts, markers and answers of earlier commands arrive late; a keyword cut over two
  packets counts. `PasswordAtPrompts`: the password is never typed into a shell, unless
  the device still had input of an earlier connection to read (section 6).
- `ImplementsConsole`: reads, waits and marks over the cursor are the contract's; a wait
  that fails takes nothing, no text is shown twice.
- `InheritedIsSame`: a run uses the very revision its history was written for, whatever
  is saved meanwhile. `ResultIsTrue`: `result.json` and the exit status agree with what
  happened, for every way to end.
- `NothingLeftOpen`: a run that is over has left nothing connected, though a hosted script may
  use, retry and close its remote object in any order, and after its block. The one
  exception is a script by itself that could not write its history.
  `HistoryIsOfARun`: what the next run reads is the binding of a run that was initialized and
  has written its result, or cannot be read at all.
- `LeastIsRemoved`: a start empties a run's packages only when they do not fit into the limit
  with those of the runs changed since, and what it keeps fits.
- `OldTreeKept`, `OthersFilesStay`: at no moment is the only copy of the old tree gone; a
  file of somebody else is never replaced, also if it appears during the operation.
- `BlocksFollowRules`: each rule's blocks are those of its definition over the whole
  file. `ReadingsAreWhole`: scrolling shows every row, pages keep their context.

Why the bounds are enough: three threads are one more than the two that can
meet at each of two locks; two files show that one file's state says nothing of the
other; a chunk of two bytes can break in the middle. Three batches are the
shortest chain in which a kept task reads a batch whose own input is a third, and
more than the two batches that can both be newest (newest of all, newest success).
Two runs are one old monitor and one new; a second page takes the list over from the
first one; two lines are read in one piece or in two. Two workers with three files
have a transfer waiting while two interfere. Three files of seven kinds are every way
a dump can begin in one file and go on, or not, in the next two, with a third parser
waiting for a thread; a file of three lines is cut by a look at the cancellation. Five
lines are a block, its boundaries and what comes before or after; three page sizes
with one context line overlap at every seam. Two operations on a console are one that
leaves late output and one that meets it, and one event is a reboot or a break between
them; five tokens overflow with two answers. A keyword of two characters can be cut
once. Two revisions and two names tell a connection edited from one replaced; a run
after a run is what reads the history. One console is run, and of concurrent runs of the
script it meets the one that is bound alike and moves the file both have written
(`AnotherRunEnds`); that runs bound to other targets tear and mix this file is in
`WritePartial` and `OpenPartial` by what may be found there, and `HistoryTheorem` is for any
number of consoles. Two requests are what can cross; a third can only meet what two have
left, which `NoChildLost` says is nothing once the server has no request. Three builds
of one name are the newest one, one as long as the replaced one, and a longer one. In the
batches two files clash and one does not, in either order of the listing. Three runs are a parent, a child
and a rerun. Two members are the least that can collide.

`CHECK_DEADLOCK FALSE` is given where the system really ends: every request on a
cancelled upload answered, a script or a reader that is through, the bounds on
operations, edits and runs used up.

## 4. Fairness

- Upload: strong fairness of each thread's step under the locks (`SF(Handle)`):
  a lock that is released again and again is had. Python's locks promise no order,
  but a waiter is woken; starvation for ever is not considered. Nothing is assumed of the
  bodies that clients send: the server's socket has no timeout (`web.py` 275), so a
  client that stops in the middle of a chunk keeps the upload's lock, and through
  `cancel_upload` the manager's, for good. `RequestsAnswered` therefore has the premise
  that no request awaits its body for ever; what it shows is that this is the only way
  in which a request stays unanswered.
- Manager: the holder of the lock goes on, the worker ends its analysis (its loops
  are over finite input) and gets the lock in the end.
- Session: handler and monitor threads run and an open page polls (its `setTimeout`).
  Nothing is assumed of the child: `EndIsShown` starts from its end.
- Analysis: none. Every behaviour of `AnalysisPool` is finite, so that it ends is the
  absence of deadlock: its only stuttering step is `Ended`.
- Collection: the pool's workers and the collector run; a channel's `get` returns or
  raises (the timeout of paramiko's channel).
- Remotes, local files, sessions and runs of scripts: safety only.

## 5. Proofs

`ProductLogUploadProofs` proves, for any set of files, sizes, chunk limit and
number of threads, with removals that fail half-way:

| Theorem | States |
|---|---|
| `TypeCorrect` | `Spec => []TypeOK` |
| `ChunksInOrder` | `Spec => []AcceptedBytesInOrder` |
| `CompleteWhenUsed` | `Spec => []UsedUploadComplete` |
| `SingleUse` | `Spec => []UsedOnce` |
| `FrozenOnceFinished` | `Spec => FinishedFilesFrozen` |
| `Refinement` | `Spec => ImplementsContract` |

None of the invariants is inductive by itself. `IInv` adds what the code relies on
without saying so: who holds which lock at which step (`LocksHeld`), what an
accepted chunk still satisfies while it waits for its bytes (`ChunkInv`), that one
thread at most writes (`WriterInv`), how much of each file is on disk as a
function of `offsets` and the chunk in flight (`DiskInv`), how the flags depend on
each other and on the files (`FlagInv`), and what a start has checked and may
still rely on when it claims (`StartInv`). One lemma per action shows that it
preserves `IInv`; the quiet actions share one. An upload that a failed removal has torn
is the case the properties except (section 6, `web.py` 325). The assumptions on the
constants are those of `UploadAssumption`.

`AnalysisPoolProofs` proves, for any batches, workers and interval of the looks:

| Theorem | States |
|---|---|
| `PoolTypeCorrect` | `Spec => []TypeOK` |
| `TruthfulOutcome` | `Spec => []OutcomeIsTrue`, whatever raises |
| `QuietAtTheEnd` | `Spec => []QuietWhenOver` |
| `DumpsFollowStreams` | `Spec => []DumpsByStream`: every assigned segment, also before the end, is in the dump that the last start of its stream began |
| `ReadyIndexTheorem` | `Spec => []ReadyIndexIsWhole` |
| `ReadyDumpsTheorem` | `Spec => []DumpsAreStreams` |

`OutcomeIsTrue` rests on what the order of the code's lines gives: `stop_workers` is
set only once an exception is on its way (`PhaseInv`), so that a parser which stops
before has been stopped by the user (`TaskInv`), and one that failed has broken something. `DumpsFollowStreams` carries the
dump each stream has open (`IsOpen`), which says of `active` what `DumpOf` says of
the whole sequence; `OpenStep` is one segment, `OpenIsDump` the end.

`ReadyIndexTheorem` needs what a shard holds in the middle of a file (`ShardsInv`): while
no header is open, exactly the kept segments and records of the lines read so far
(`Whole`); while one is, what came before it, with its rows waiting in order
(`OpenSegment`). `ReadWhole` is one line, `FlushWhole` the end of a segment; a finished
parser's shard is whole whatever the others do, and `MergedInv` says that the merged
lists are the shards of the first files one after the other, in their order.

`ReadyDumpsTheorem` carries, for the segments assigned so far (`AssemblyInv`): the dump
each stream has open and the time of its last segment (`ActiveOf`), that a dump is named by
its first segment and a start opens one (`HeadsInv`), that `first` is the least time
(`FirstInv`), and when each diagnostic is there (`DiagnosticsInv`). The last query is
`GapsAreMissing`: the gaps between neighbours of one dump are together exactly the numbers
between its least and its greatest that it does not have. For each of those there is a
greatest number below and a least above (`GreatestNumber`, `LeastNumber`, by `WFMin` on the
finite set of numbers). The assumption is `PoolAssumption`.

`LogCollectionProofs` proves, for any numbers of files, workers, sources and rules:

| Theorem | States |
|---|---|
| `BatchTheorem` | `BatchSpec => [](ProgressInOrder /\ PlacedWhenOver)`, for any clashes of names |
| `TransfersTheorem` | `Spec => []TransfersInOrder` of the whole collection |
| `QueriesTheorem` | `Spec => []QueriesAreWhole` |
| `AcceptedIsUnambiguous` | an archive that `LogAccepts` is `Unambiguous`, whatever its members |
| `ReadyTheorem` | `Spec => []ReadyIsWhole` |
| `BlocksTheorem` | `ReadingSpec => []BlocksFollowRules`, of `LogRules` in `LogReading` |
| `ReadingsTheorem` | `ReadingSpec => []ReadingsAreWhole` |

`TransferInv` says what a file's place in its transfer tells of the total and the lock,
`DiskInv` that what is under a name has been placed there or is being received there, and a
piece has somebody who will remove it, though names clash (`NameInv`); `ApartInv` that only its
own worker touches a file that stands apart;
`ToldInv` relates `counted`, the lines told and the number of files past the counter
(`Passed`): while nothing is broken the lines are exactly 0, 1, 2, ..., and the holder
of the lock has counted one more than is told. `FetchInv` says that only a complete
download is expanded, `PublishInv` that the manifest and a query under way keep the
index from being replaced (a collection that is finalized is never finalized
again), `WholeInv` that expansion is whole or the collection has failed. `WholeInv` needs
that what the extraction accepts is written in full, which is a fact about a fold over the
members: `CheckedSteps` says that the library's `FoldLeft` checks one member after the
other, `NotedFits` what `seen` then tells of the members so far. `AcceptedIsUnambiguous` is
more general than the archives TLC evaluates: any number of members, any paths.

`BlocksFollowRules` speaks of a file as a whole and the rules see one line at a time, so
`RulesInv` says of the lines read so far what each rule has made of them, in relations that
a further line does not disturb (`AppendLine`, `TimesStay`). `LineInv`: the open block
started at the first start marker since the last timestamp (`StartOf`). `StrictInv`: a line
counts by the last boundary before it (`AfterBegin`), and the head of a file waits for its
first one (`BeforeEnd`). `LegacyInv`: the records are those of the segments that an end has
closed, and the buffer holds what the open segment has after its first begin (`LastEnd`,
`FirstBegin`); the block's time is a relation too (`BlockTimeAt`), which has one solution
(`BlockTimeUnique`). `MatchingInv` holds before the end of the file, `MatchedInv`
after it. The records come in the order of the lines, so that a set of rows determines
them (`GivesConcat`, `GivesAppend`).

`ReadingsTheorem`: a reader who scrolls has seen the first rows of the whole answer, cut
wherever the windows end (`ScrollInv`, `SubSeqJoins`); one who pages has the pages in their
order (`PagesInv`), and the page that shows a hit is the first that reaches its number
(`LeastNumber`). Both need that the rows of a query are the rows near a hit in increasing
order (`ContextFacts`). The assumptions are `RulesAssumption` and `ReadingAssumption`.

`WebSessionProofs` proves, for any pages, runs and lines:

| Theorem | States |
|---|---|
| `NoChildLostTheorem` | `Spec => NoChildLost`, requests that overlap included |
| `NoStaleTheorem` | `Spec => []NoStaleEvents`, requests that overlap included |
| `ShownInOrderTheorem` | `Spec => []ShownInOrder`, requests that overlap included |

`ReachInv` says of a request that has met no other one that it is alone, and what `process`
is at each of its steps; a step of such a request then hands the child on, from the session to
the request that kills it and from the one that has started it to the session.

`ShownInv`: the list is the current run's, its lines are numbered and
as many as the run's monitor has published (`ListFits`); a run that is being started has no
monitor yet and shares its number with no other start (`StartsFit`); a monitor that has
seen its child dead reads once more, and has then published every line (`MonitorFits`); a
page that polls the list shows a beginning of it (`PageFits`). An older monitor changes
nothing of this, because the append of its events is refused.

`ProductLogManagerProofs` proves, for any numbers of batches, uploads and restarts, any
sizes and limit:

| Theorem | States |
|---|---|
| `ListTheorem` | `Spec => []TaskListIsTrue` |
| `InputsTheorem` | `Spec => KeptInputs` |
| `SparesTheorem` | `Spec => RetentionSpares`, if no write of a manifest fails |
| `DurableTheorem` | `Spec => []DurableOutcome`, if no write and no removal fails |
| `SettlesTheorem` | `Spec => []StorageSettles`, if no removal fails |

The worker runs on without the lock while a pass removes trees, so the question is what
of a scan is still true at each removal. `HolderInv` is what an operation relies on at
each step, `WorkerInv` that the active task stays listed, unfinished and on disk until it
completes, `PublishedInv` that ready means published. `QueueInv` says that no candidate
still in the queue is active, viewed or read by anybody listed, and that an upload in it,
or one that follows its last batch, has no reader left; `NewestInv` that none is the
newest of anything, because a new status makes at most the active task the newest.
`ToldInv` relates what was told to the list and the disk, `SettleInv` the pass's
count and queue to the storage. The hypotheses are needed: a manifest that cannot be
written takes the newest result away (section 6, `web.py` 406), a half-removed tree
loses what was told and is a candidate again.

`ScriptSessionProofs` proves, for any consoles, connections, texts of the script, revisions
and numbers of operations:

| Theorem | States |
|---|---|
| `InheritedTheorem` | `Spec => []InheritedIsSame` |
| `ResultTheorem` | `Spec => []ResultIsTrue` |
| `ClosedTheorem` | `Spec => []NothingLeftOpen` |
| `HistoryTheorem` | `Spec => HistoryIsOfARun` |
| `RerunRepeatsTheorem` | `RunsSpec => []RerunRepeats`, of `ScriptRuns` |

For a session, the invariant is about the value of one run, so that each action needs one
lemma about the value it leaves and none about the other consoles: these share only the catalogue, which a
run reads once, and the history with its `.tmp`. `PartialInv` says of that file that, if
it can be read at all, it holds the binding of a run that is about to move it; for the rest of
the session's invariant the history may be any. `OpenInv`: what was closed is not connected,
nor about to be, so that a run that goes on after its block finds nothing to open. `BindingInv` says that the binding is of
the catalogue that the run has read, also when the connection has been saved since;
`CheckInv` that the remote object is available just when its last check was a success, and
that only a failed operation is raised; `EndInv` that what `finish` is given is true of the
run, and stays true when the last operation is made final.

For the stack of `ScriptRuns`, `StackFits` says that no two runs on it are of one script and
that each has either committed what it collected, which is then what its script's last run
left, or not, and then that is what it found when it started (`FrameFits`), so that no
child disturbs what is kept for its parent. `LastFits` says that what is
kept of a script is of its latest run that kept anything, or of one still on the stack.
What the clean-up removes is a fold over runs ordered by time; `LeastIsRemoved` is checked
by TLC only.

`LocalFilesProofs` proves, for any packages, builds, places, handlers and changes:

| Theorem | States |
|---|---|
| `PackagesAsListedTheorem` | `Spec => []PackagesAsListed` |
| `OldTreeKeptTheorem` | `Spec => []OldTreeKept` |
| `OthersFilesStayTheorem` | `Spec => OthersFilesStay` |
| `AcceptedIsClear` | `Accepts` holds of just the archives that are `Clear` and have at most `maxFiles` files, whatever their members |
| `UnpackedIsClearTheorem` | `Spec => []UnpackedIsClear` |

`Inv` says what each operation has checked at each of its steps and may still rely on though
everybody else goes on: a download, of its `.part` and of what it published (`DownloadFits`);
an extraction, of where the old tree is (`ExtractFits`); copies and unzips, of what they are
about to place (`CopyFits`, `UnzipFits`); and `LinkHeld`, that a name once linked is its
handler's own until the old one is removed. `AcceptedIsClear` follows the check member by member:
while it takes them, `seen` knows each place with its one spelling (`SeenFits`), and a
further member collides with none of it just when the members so far are clear with it
(`CollidesUnlessClear`). `DownloadAssumption` gives finite sets of builds and places, because the
newest of a listing is the greatest of it.

`RemotesProofs` proves, for any texts, keywords, limits, files and numbers of operations:

| Theorem | States |
|---|---|
| `TransfersAreWholeTheorem` | `RemotesSpec => []TransfersAreWhole` |
| `AnswersAreTrueTheorem` | `RemotesSpec => []AnswersAreTrue` |
| `PasswordAtPromptsTheorem` | `RemotesSpec => []PasswordAtPrompts` |
| `ImplementsConsoleTheorem` | `RemotesSpec => ImplementsConsole` |

The host's invariant `HostInv` says what each point of an operation has established of the
file and of the streams: a verified upload is the device's new file, a keyword that the kept
tail and the next characters show has been shown by that stream. The console's `ConsoleInv`
adds to the types what a command may rely on. `RunFits`: every marker with the number of the
command that runs, wherever it is on its way, tells the code of that command, except for
digits cut at the end of a broken connection; its `printf` comes right after it. `Plain`:
without a gateway, the device has been asked by the running command only, so that whatever
output is under way is its own, and none comes after its marker. `PasswordFits`: a device
whose prompt for a password is on its way or in the buffer is still at that prompt and has
nothing else to read. `ImplementsConsoleTheorem` maps every step of the client to one of
`ConsoleContract` or to none: the arrival of a packet appends to the unread text, a read or a
wait takes what the cursor passes, a compaction changes nothing that is unread.

Only model-checked: every liveness property (fairness and ENABLED are beyond the
prover) and `LeastIsRemoved`. Every other invariant and action property of a passing run is
stated by a theorem, and so are both refinements. The library's induction theorems take an operator as a parameter, which
no installed prover can instantiate. That a set of naturals has a least element, and a
finite family of sets a smallest, is had from `WFMin` and the well-foundedness of `<` and of
strict inclusion (`LatestIsListed`, `LeastExists`, `LeastNumber`), and induction over numbers
from that, for a set of numbers (`EveryNumber`): a set that has 0, and with each number the
next, has all. With it `FlattenAppend` proves what the library's `FlattenSeq` does with one
more element, and `CheckedSteps` the same of `FoldLeft`, for the operators used here.

## 6. Further observations

Met while modelling; not runs of their own. Most of them are what a property above
makes an exception of, or has a bound for.

Product log:

- `web.py` 325: `cancel_upload` sets `finished` before a removal that can fail
  half-way; the upload stays registered and `start` accepts it though files are gone.
  `MCUpload` reaches such uploads (`torn`); the upload's properties, which do not hold of
  them, except them by name, and the contract counts them as dropped.
- `web.py` 387: a task's status is terminal before `task.manifest` is set, so a
  client may see `ready` and a null manifest.
- `web.py` 164: `viewed_batch_id` is one slot; a second reader's pin ends the
  first one's protection while it still reads without the lock.
- `web.py` 323: an upload that a task reads by its path is not claimed and can be
  cancelled under it (the exception `KeptInputs` allows).
- `web.py` 406: a failed manifest write turns the newest success into a failure
  without the lock; a pass that has already chosen what to spare may then remove
  what is now the newest success. `RetentionSpares` is checked without such failures.

Web session:

- `server.py` 117: two starts at once both pass `stop` before either registers its
  child: two children run, and stop reaches one; or a stop clears (`server.py` 91) what a
  start has registered since the stop read it. `NoChildLost` excepts requests that met.
- `server.py` 172: an event file that appears after the monitor's look of a round, with
  the child ending before the round does, leaves `output` unset: the run completes
  and shows none of its output, which `docs/WEB_ARCHITECTURE_AND_HANDOFF.md` 81 says the
  page gets. `ShownInOrder` demands all lines only if the monitor has the location.
- `server.py` 567: the generation in the answer is read after `start_script` returned
  and may be another page's.
- `server.py` 188: an old run's monitor may set `last_log_path` for the next run.
- `app.js` 111: a page whose run another page has superseded stops polling and keeps its
  start button disabled until it is reloaded (`PollSuperseded`).

Runs of scripts:

- `script_session.py` 306: all runs of a script share the `.tmp` of its history; when two
  end together one `os.replace` fails and its exit status is 1 although `result.json`
  says success, or the file that is moved is cut short. Any other failure of `finish` after
  `result.json` does the same.
- `script_session.py` 318: when a script by itself cannot write its history, 319-329 are not
  reached and its remote objects stay open to the end of the process.
- `cli.py`: a script run by itself with a failed self-check exits with 0.
- `remote_catalog.py` 89: two saves of a connection at once lose one of them.
- `runtime.py`: the start of a child may remove packages of its running parent when the
  cache is over its limit; a commit that fails part-way loses the last values of the
  other objects; after a `BaseException` there is no `result.json`.

Remote objects:

- `remote_environment.py` 336: a console is prepared only when its prompt is unknown, so
  in `auto` mode the command after `telnet_wait_exec` or a reboot goes out without a
  marker and ends as `RESULT_UNKNOWN`; `docs/REFACTOR_PLAN_FOUR_API_CATEGORIES.md` 135
  says the state is confirmed again.
- `telnet_client.py` 524, 529: a capability probe that times out leaves the mode `auto`;
  `_open_session` in `prompt_only` mode may stop at the prompt of the greeting.
- `telnet_client.py`: the digits of an exit code may be cut by a lost connection
  (`ResultIsOwn` excepts them, and 0 stays 0); an unread text over its limit cannot be
  drained; a keyword also matches the echo of the command that looks for it.
- A device that answers late over a kept gateway may get the password where it
  expects a command (`dev.late`, the exception of `PasswordAtPrompts`).
- A failed self-check leaves its connection open until the object is closed.
- `ssh_host.py`: a command whose `exec_command` raises after delivery reports
  `CONNECTION_FAILED` although it may run; uploads in place leave partial files behind,
  and after a torn upload the name of an earlier one still stands in commands.
- `ftp_host.py`: a failed upload closes the object for good, a failed download only its
  connection; `available` stays TRUE; `SIZE` in ASCII mode answers 550, so that
  `overwrite=False` overwrites; a dead connection is used again by `_connect`; a failed
  login leaves the control connection open.
- `ssh_host.py` 698: a worker that fails after the rename (in `os.utime` or the record
  of the file) leaves its file in a batch that reports failure and no files; the
  clean-up knows only the futures that returned. `PlacedWhenOver` says just this much.
- `ssh_host.py` 683: of two remote files `x` and `x.part` that both match, the second is
  received or placed where the first one is pending; a batch may then report success with one
  file's contents under the other's name, or with a file missing. The comment at 680 says a
  pending file is unique and final names become visible only after a successful return,
  which holds of the files in `Apart`.

Local files:

- `package_manager.py` 314: the check compares lengths; a build of the same name and
  length that replaces the listed one before the body is sent is installed in its place.
- `file_handles.py` 135: a source that is replaced between the link and the unlink of a
  rename is unlinked although it was not what was linked; the model's sources stay.
- Two downloads of one package share their `.part`; the model has one packager, and one
  package name in the run.
- `extractor.py`: a new tree in place whose backup cannot be removed is reported as
  `extraction_failed`; when the restoration fails too, the old tree stays hidden.
- A second build makes `package()` ambiguous.

Collections:

- `logs.py` 589: `finalize` asks for no extraction; a script that leaves it out gets a
  ready batch without records (`ReadyIsWhole` speaks of batches with records).
- `logs.py` 589-634: a second `finalize`, or a rule that fails after it, turns a ready
  batch into a failed one.
- `logs.py` 494: two `group()` calls number their files from 0 each, so their
  records of one target interleave.
- `logs.py` 425: when `scp_download_many` raises, the collection is not marked failed; a
  script that catches the exception goes on with the sources fetched so far.

## 7. Plan and what is not modelled

Built: upload, with contract; manager and retention; Web session; SCP batch and log
collection; analysis pool and dumps; consoles, with contract, and hosts; packages, archives
and handles; sessions of scripts and runs; rules and queries, all of these with proofs.

Left for later, in this order:

1. `AnalysisSources`: the first half of `run_analysis` (expansion of nested archives
   under one budget, the choice of directories, selection, copies and renames, order),
   so that the pool's sources are its result; the queries of `index.py` with the cache
   of matches and the stale sources.
2. The pool as an implementation of the worker of `ProductLogManager` (`WorkerBegins`
   to `Publish` and `Abort`); `ScriptSession`'s remote object as an abstraction of `Remotes`.

Not modelled, and why:

- Argument parsing, validation of configuration, script metadata, tables of module
  names, the rules file: functions of their input without state.
- Archive formats (zip, tar, 7z, rar), byte and ratio limits, text encodings, terminal
  escapes and Telnet options, host keys and authentication: data below what the
  properties tell apart; their failures are in the models.
- `correlate` and `export` of a log query, groups and counts of the index: projections of
  rows that `LogReading` and `AnalysisPool` have.
- `TerminalSession`: the pty reader around the same start, stop and append.
- The pages, the offline JavaScript parser (a second implementation of `parser.py`), the
  launcher, vendored libraries.

## 8. Running

    tlc -workers 2 -config MCUpload.cfg MCProductLogUpload.tla
    tlapm ProductLogUploadProofs.tla

and likewise for the other runs and proof modules. Each run of `PROJECT.json` names its
module and cfg; none takes more than about three minutes on two cores, and the proofs
take from one to ten minutes a module.
