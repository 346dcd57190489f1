------------------------------ MODULE LocalDisk ------------------------------
(***************************************************************************)
(* The files and directories that the local operations of scripts share,   *)
(* and the operations under way.  A node says what it holds and whether     *)
(* that is whole.  Names made by mkdtemp and mkstemp belong to the          *)
(* operation that made them, so what is behind them is kept in its job.     *)
(***************************************************************************)
EXTENDS Naturals, FiniteSets, Sequences, SequencesExt

CONSTANTS
    Workers,       \* threads that use the disk at the same time
    PackageNames,  \* names of packages in package_dir
    MaxEdits       \* changes somebody else makes, at most

\* The target file and the target directory of extractions, the directory of
\* an unzip, and the destination of a copy.
Names == PackageNames \cup {"file", "tree", "out", "target"}

ASSUME DiskAssumption ==
    /\ Workers # {} /\ PackageNames # {} /\ MaxEdits \in Nat
    /\ PackageNames \cap {"file", "tree", "out", "target"} = {}

\* What a node holds is a kind and a number or, of an archive, its members.
Node(kind, which) == [holds |-> <<kind, which>>, whole |-> TRUE]
Absent == [holds |-> <<"nothing">>, whole |-> FALSE]
EmptyDirectory == [holds |-> <<"nothing">>, whole |-> TRUE]
User(n) == Node("user", n)
Truncated(node) == [node EXCEPT !.whole = FALSE]

VARIABLES
    disk,     \* [Names -> node]
    part,     \* [Names -> node], the .part file beside each
    job,      \* what each worker is doing
    edits     \* what somebody else has changed so far

NoJob == [op |-> "none", pc |-> "idle"]
Over == {"idle", "success", "failed", "refused"}

\* Of an operation that is over its outcome stays, and what a property needs.
Free(w) == job[w].pc \in Over
Starts(w, op) == job' = [job EXCEPT ![w] = op]
Moves(w, pc) == job' = [job EXCEPT ![w].pc = pc]
Succeeds(w) == job' = [job EXCEPT ![w] = [op |-> @.op, pc |-> "success"]]
Fails(w) == job' = [job EXCEPT ![w] = [op |-> @.op, pc |-> "failed"]]
=============================================================================
