----------------------------- MODULE FileHandles -----------------------------
(***************************************************************************)
(* FileHandle of autoenv/file_handles.py and extract_archive of             *)
(* autoenv/local_archives.py: a handle remembers the digest of a file, and   *)
(* copies, renames or unpacks it as long as the file is still the same.      *)
(***************************************************************************)
EXTENDS PackageExtraction, ArchiveMembers

CONSTANTS
    MaxMembers,    \* members of an archive, at most
    MaxFiles       \* max_files of an unzip

handleVars == <<edits, remote, part>>
Archives == UNION {[1..n -> MemberChoices] : n \in 0..MaxMembers}

\* Of an archive it matters whether it may be unpacked.
Unpacked(archive) ==
    Node("archive", Clear(archive)
                    /\ Cardinality({i \in DOMAIN archive : ~archive[i].directory}) <= MaxFiles)

Verdicts == {[accepted |-> Accepts(a, MaxFiles), tree |-> Unpacked(a)] : a \in Archives}

\* get_file, a search or a group: the digest is taken now.
BeginCopy(w) ==
    /\ Free(w) /\ disk["file"] # Absent
    /\ \E op \in {"move_to", "rename"} :
          Starts(w, [op |-> op, pc |-> "verify", handle |-> disk["file"], copy |-> Absent])
    /\ UNCHANGED <<disk, handleVars>>

\* FileHandle.verify, and no file of that name at the destination.
VerifyHandle(w) ==
    /\ job[w].pc = "verify"
    /\ disk["file"] = job[w].handle /\ disk["target"] = Absent
    /\ Moves(w, IF job[w].op = "move_to" THEN "copy" ELSE "link")
    /\ UNCHANGED <<disk, handleVars>>

\* Into a name made by mkstemp.
CopyFile(w) ==
    /\ job[w].pc = "copy" /\ disk["file"] # Absent
    /\ job' = [job EXCEPT ![w].pc = "recheck", ![w].copy = disk["file"]]
    /\ UNCHANGED <<disk, handleVars>>

RecheckCopy(w) ==
    /\ job[w].pc = "recheck" /\ job[w].copy = job[w].handle
    /\ Moves(w, "link")
    /\ UNCHANGED <<disk, handleVars>>

\* Mutant: the copy replaces what is there.
ReplaceTarget(w) ==
    /\ job[w].pc = "link"
    /\ disk["file"] # Absent
    /\ disk' = [disk EXCEPT !["target"] =
                  IF job[w].op = "move_to" THEN job[w].copy ELSE disk["file"]]
    /\ IF job[w].op = "move_to" THEN Succeeds(w) ELSE Moves(w, "unlink")
    /\ UNCHANGED handleVars

\* os.link refuses a name that exists by now.
LinkTarget(w) ==
    /\ job[w].pc = "link" /\ disk["target"] = Absent
    /\ job[w].op = "move_to" \/ disk["file"] # Absent
    /\ disk' = [disk EXCEPT !["target"] =
                  IF job[w].op = "move_to" THEN job[w].copy ELSE disk["file"]]
    /\ IF job[w].op = "move_to" THEN Succeeds(w) ELSE Moves(w, "unlink")
    /\ UNCHANGED handleVars

\* rename removes the old name; when it cannot, it removes the new one.
UnlinkSource(w) ==
    /\ job[w].pc = "unlink"
    /\ \/ /\ disk["file"] # Absent
          /\ disk' = [disk EXCEPT !["file"] = Absent] /\ Succeeds(w)
       \/ disk' = [disk EXCEPT !["target"] = Absent] /\ Fails(w)
    /\ UNCHANGED handleVars

\* The file is another one or gone, the destination exists, the copy differs,
\* or the disk fails.
CopyFails(w) ==
    /\ job[w].pc \in {"verify", "copy", "recheck", "link"}
    /\ Fails(w)
    /\ UNCHANGED <<disk, handleVars>>

CopyStep(w) ==
    /\ job[w].op \in {"move_to", "rename"}
    /\ \/ VerifyHandle(w) \/ CopyFile(w) \/ RecheckCopy(w) \/ LinkTarget(w)
       \/ UnlinkSource(w) \/ CopyFails(w)

\* create_file writes beside the file and replaces it.
CreateFile(w) ==
    /\ Free(w) /\ edits < MaxEdits /\ edits' = edits + 1
    /\ disk' = [disk EXCEPT !["file"] = Node("script", edits)]
    /\ UNCHANGED <<job, remote, part>>

-----------------------------------------------------------------------------
EmptyOrNew == disk["out"] \in {Absent, EmptyDirectory}

\* FileHandle.unzip: the handle is verified, and the destination is new or empty.
BeginUnzip(w) ==
    /\ Free(w) /\ EmptyOrNew
    /\ Starts(w, [op |-> "unzip", pc |-> "check", tree |-> Absent, existed |-> FALSE])
    /\ UNCHANGED <<disk, handleVars>>

\* Every member is admitted before the first one is written, below a new
\* directory beside the destination.  The archive may be damaged, or the
\* operation cancelled, up to the last check before it is published.
ExpandArchive(w) ==
    /\ job[w].pc = "check"
    /\ \E v \in Verdicts :
          job' = [job EXCEPT ![w].pc = IF v.accepted THEN "publish" ELSE "refused",
                             ![w].tree = v.tree]
    /\ UNCHANGED <<disk, handleVars>>

\* The destination must still be new or empty; an empty one makes way.
MakeWay(w) ==
    /\ job[w].pc = "publish" /\ EmptyOrNew
    /\ job' = [job EXCEPT ![w].pc = IF disk["out"] = Absent THEN "rename" ELSE "rmdir",
                          ![w].existed = disk["out"] # Absent]
    /\ UNCHANGED <<disk, handleVars>>

RemoveEmpty(w) ==
    /\ job[w].pc = "rmdir" /\ disk["out"] = EmptyDirectory
    /\ disk' = [disk EXCEPT !["out"] = Absent]
    /\ Moves(w, "rename")
    /\ UNCHANGED handleVars

\* A rename onto a directory that is not empty fails.
PlaceArchive(w) ==
    /\ job[w].pc = "rename" /\ EmptyOrNew
    /\ disk' = [disk EXCEPT !["out"] = job[w].tree]
    /\ Succeeds(w)
    /\ UNCHANGED handleVars

\* Whatever stops an unzip, the expanded tree is removed, and a directory that
\* was there is made again.
UnzipFails(w) ==
    /\ job[w].pc \in {"check", "publish", "rmdir", "rename"}
    /\ disk' = [disk EXCEPT !["out"] =
                  IF job[w].pc = "rename" /\ job[w].existed /\ @ = Absent
                  THEN EmptyDirectory ELSE @]
    /\ Fails(w)
    /\ UNCHANGED handleVars

UnzipStep(w) ==
    /\ job[w].op = "unzip"
    /\ \/ ExpandArchive(w) \/ MakeWay(w) \/ RemoveEmpty(w) \/ PlaceArchive(w)
       \/ UnzipFails(w)
=============================================================================
