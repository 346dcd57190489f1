-------------------------- MODULE PackageExtraction --------------------------
(***************************************************************************)
(* Extractor.extract of autoenv/extractor.py with the selectors of          *)
(* autoenv/selectors.py: one file or one directory of a local package is     *)
(* expanded into a directory of its own and then replaces the file or the    *)
(* directory of that name in package_dir.                                   *)
(***************************************************************************)
EXTENDS PackageDownload

extractVars == <<disk, part, edits, remote>>

\* package(): what ends in .part is no package, and one alone must match.
\* extra_file() and match() name one of them.
Matching == {n \in PackageNames : disk[n] # Absent}
Resolved(selector) ==
    IF selector = "package" THEN IF Cardinality(Matching) = 1 THEN Matching ELSE {}
    ELSE Matching

BeginExtract(w) ==
    /\ Free(w)
    /\ \E into \in {"file", "tree"}, selector \in {"package", "named"} :
          Starts(w, [op |-> "extract", pc |-> "resolve", into |-> into,
                     selector |-> selector, new |-> Absent, old |-> Absent,
                     backup |-> Absent])
    /\ UNCHANGED extractVars

\* What is taken out of a package is of the build in it.
Taken(package, into) == Node(into, package.holds[2])

\* The archive is opened, checked member by member, expanded below a new
\* directory, and the target found in it.  A piece of an archive does not
\* expand: the formats' own ends and checksums are missing.
ExpandPackage(w) ==
    /\ job[w].pc = "resolve"
    /\ \E name \in {n \in Resolved(job[w].selector) : disk[n].whole} :
          Starts(w, [op |-> "extract", into |-> job[w].into,
                     pc |-> IF job[w].into = "file" THEN "pending" ELSE "moveold",
                     new |-> Taken(disk[name], job[w].into),
                     old |-> disk[job[w].into], backup |-> Absent])
    /\ UNCHANGED extractVars

\* Nothing or too much matches, the type is not supported, a member is unsafe,
\* the target is missing or ambiguous, or the disk fails.
ExtractFails(w) ==
    /\ job[w].pc \in {"resolve", "pending", "replace", "moveold"}
    /\ Moves(w, "failed")
    /\ part' = [part EXCEPT !["file"] = IF job[w].pc = "replace" THEN Absent ELSE @]
    /\ UNCHANGED <<disk, edits, remote>>

\* What an earlier extraction left behind is removed first.
CopyPending(w) ==
    /\ job[w].pc = "pending"
    /\ part' = [part EXCEPT !["file"] = job[w].new]
    /\ Moves(w, "replace")
    /\ UNCHANGED <<disk, edits, remote>>

ReplaceFile(w) ==
    /\ job[w].pc = "replace"
    /\ disk' = [disk EXCEPT !["file"] = part["file"]]
    /\ part' = [part EXCEPT !["file"] = Absent]
    /\ Moves(w, "success")
    /\ UNCHANGED <<edits, remote>>

\* The new tree is staged and its digest taken; then the old one is moved away.
MoveOldTree(w) ==
    /\ job[w].pc = "moveold"
    /\ job' = [job EXCEPT ![w].pc = "placenew", ![w].backup = disk["tree"]]
    /\ disk' = [disk EXCEPT !["tree"] = Absent]
    /\ UNCHANGED <<part, edits, remote>>

PlaceNewTree(w) ==
    /\ job[w].pc = "placenew"
    /\ disk' = [disk EXCEPT !["tree"] = job[w].new]
    /\ IF job[w].backup = Absent THEN Moves(w, "success") ELSE Moves(w, "dropold")
    /\ UNCHANGED <<part, edits, remote>>

\* Mutant: the backup is not put back.
ForgetOldTree(w) ==
    /\ job[w].pc = "placenew"
    /\ job' = [job EXCEPT ![w].pc = "failed", ![w].backup = Absent]
    /\ UNCHANGED extractVars

\* The new tree cannot be put in place: the backup comes back.  When that
\* fails too, and again in the finally block, it stays where it is.
RestoreOldTree(w) ==
    /\ job[w].pc = "placenew"
    /\ \/ /\ disk' = [disk EXCEPT !["tree"] = job[w].backup]
          /\ job' = [job EXCEPT ![w].pc = "failed", ![w].backup = Absent]
       \/ UNCHANGED disk /\ Moves(w, "failed")
    /\ UNCHANGED <<part, edits, remote>>

\* A backup that cannot be removed makes a failure of an extraction that is in
\* place.
DropOldTree(w) ==
    /\ job[w].pc = "dropold"
    /\ \E outcome \in {"success", "failed"} :
          job' = [job EXCEPT ![w].pc = outcome, ![w].backup = Absent]
    /\ UNCHANGED extractVars

ExtractStep(w) ==
    /\ job[w].op = "extract"
    /\ \/ ExpandPackage(w) \/ ExtractFails(w) \/ CopyPending(w) \/ ReplaceFile(w)
       \/ MoveOldTree(w) \/ PlaceNewTree(w) \/ RestoreOldTree(w) \/ DropOldTree(w)
=============================================================================
