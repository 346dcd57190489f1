------------------------------ MODULE LogArchive ------------------------------
(***************************************************************************)
(* The archives among the log files: which of them the extraction of          *)
(* autoenv/logs.py accepts.  It has a check of its own, on a disk that tells  *)
(* upper from lower case.                                                   *)
(***************************************************************************)
EXTENDS ArchiveMembers

LogArchives == UNION {[1..n -> MemberChoices] : n \in 0..3}

Within(path, directory) == directory \in Parents(path)

\* A file must not be where a directory is needed, before it or after it.
ParentFileCollision(seen, m) ==
    \/ ~m.directory /\ \E p \in DOMAIN seen : Within(p, m.path)
    \/ \E p \in DOMAIN seen : Within(m.path, p) /\ ~seen[p]

\* What is known with one path more.
Noted(seen, m) ==
    [p \in DOMAIN seen \cup {m.path} |-> IF p = m.path THEN m.directory ELSE seen[p]]

\* Mutant: a member may have the name of an earlier one.
LogAddOver(state, m) ==
    IF ParentFileCollision(state.seen, m)
    THEN [state EXCEPT !.verdict = Refused]
    ELSE [state EXCEPT !.seen = Noted(@, m)]

\* seen tells of every path so far whether it is a directory.
LogAdd(state, m) ==
    IF m.path \in DOMAIN state.seen \/ ParentFileCollision(state.seen, m)
    THEN [state EXCEPT !.verdict = Refused]
    ELSE [state EXCEPT !.seen = Noted(@, m)]

\* All members are checked before the first one is written.
LogAccepts(archive) ==
    FoldLeft(LogAdd, [seen |-> Nothing, verdict |-> "taken"], archive).verdict # Refused

\* What is written is what the archive holds: no two members are one place, and
\* nothing is in a file.
Unambiguous(archive) ==
    \A i, j \in DOMAIN archive :
        /\ archive[i].path = archive[j].path => i = j
        /\ Within(archive[i].path, archive[j].path) => archive[j].directory

\* Are archives that are accepted written in full?
AcceptedAreWhole == {Unambiguous(a) : a \in {b \in LogArchives : LogAccepts(b)}}
=============================================================================
