--------------------------- MODULE ArchiveMembers ---------------------------
(***************************************************************************)
(* The members of an archive as _Members.add of autoenv/local_archives.py   *)
(* admits them, one after the other, and what an archive must look like to   *)
(* be unpacked without ambiguity on a disk that ignores case.                *)
(***************************************************************************)
EXTENDS Naturals, Sequences, SequencesExt, Functions

\* A member: its path, whether it is a directory, and its size.
Paths == {<<"a">>, <<"A">>, <<"a", "b">>}
Member(path, directory, size) == [path |-> path, directory |-> directory, size |-> size]
MemberChoices == [path : Paths, directory : BOOLEAN, size : {1}]

CaseFolded(path) == [i \in DOMAIN path |-> IF path[i] = "A" THEN "a" ELSE path[i]]
Parents(path) == {SubSeq(path, 1, n) : n \in 1..(Len(path) - 1)}

\* What the paths seen so far are known as: [folded path -> spelling, whether a
\* directory, whether listed itself].
Known(seen, path) == CaseFolded(path) \in DOMAIN seen

\* A member's parents are known from here on, then the member is listed.
Learn(seen, path) ==
    [q \in DOMAIN seen \cup {CaseFolded(p) : p \in Parents(path)} |->
        IF q \in DOMAIN seen THEN seen[q]
        ELSE [as |-> SubSeq(path, 1, Len(q)), directory |-> TRUE, listed |-> FALSE]]
List(seen, m) ==
    [q \in DOMAIN seen \cup {CaseFolded(m.path)} |->
        IF q = CaseFolded(m.path)
        THEN [as |-> m.path, directory |-> m.directory, listed |-> TRUE] ELSE seen[q]]

\* A parent must be a directory of the same spelling.
ParentCollides(seen, path) ==
    \E p \in Parents(path) :
        Known(seen, p) /\ LET k == seen[CaseFolded(p)] IN ~k.directory \/ k.as # p

\* A directory may be listed after what is in it, once.
Collides(seen, m) ==
    Known(seen, m.path) /\ LET k == seen[CaseFolded(m.path)] IN
                           k.listed \/ ~m.directory \/ k.as # m.path

Refused == "refused"

\* Mutant: a directory may turn out to be a file.
AddOver(state, m) ==
    IF state.verdict = Refused \/ ParentCollides(state.seen, m.path)
    THEN [state EXCEPT !.verdict = Refused]
    ELSE [state EXCEPT !.seen = List(Learn(@, m.path), m),
                       !.files = @ + (IF m.directory THEN 0 ELSE 1)]

\* _Members.add.
Add(state, m) ==
    IF state.verdict = Refused \/ ParentCollides(state.seen, m.path)
       \/ Collides(state.seen, m)
    THEN [state EXCEPT !.verdict = Refused]
    ELSE [state EXCEPT !.seen = List(Learn(@, m.path), m),
                       !.files = @ + (IF m.directory THEN 0 ELSE 1)]

Nothing == [x \in {} |-> x]
Checked(archive) ==
    FoldLeft(Add, [seen |-> Nothing, files |-> 0, verdict |-> "taken"], archive)

\* max_files bounds the files; the directories are bounded separately.
Accepts(archive, maxFiles) ==
    Checked(archive).verdict = "taken" /\ Checked(archive).files <= maxFiles

\* What an archive means, whatever the order of its members: no two of them
\* are one place, nothing is in a file, and a place has one spelling.
Clear(archive) ==
    LET M == DOMAIN archive
        SamePlace(p, q) == CaseFolded(p) = CaseFolded(q)
    IN  /\ \A i, j \in M : SamePlace(archive[i].path, archive[j].path) => i = j
        /\ \A i, j \in M : \A p \in Parents(archive[i].path) :
              /\ SamePlace(p, archive[j].path) =>
                    archive[j].directory /\ archive[j].path = p
              /\ \A q \in Parents(archive[j].path) : SamePlace(p, q) => p = q
=============================================================================
