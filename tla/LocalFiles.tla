----------------------------- MODULE LocalFiles -----------------------------
(***************************************************************************)
(* The local file operations together: one run that downloads and extracts  *)
(* packages in its package_dir, scripts that copy, rename and unpack files    *)
(* of it at the same time, the package server, and somebody else who uses    *)
(* the destinations.                                                        *)
(***************************************************************************)
EXTENDS FileHandles

CONSTANT Packager   \* the worker whose run package_dir belongs to

ASSUME PackagerAssumption == Packager \in Workers

filesVars == <<disk, part, job, edits, remote>>
Handlers == Workers \ {Packager}

Init ==
    /\ DownloadInit
    /\ disk \in {[n \in Names |-> CASE n = "out" -> out [] n = "tree" -> tree [] OTHER -> Absent] :
                    out \in {Absent, EmptyDirectory}, tree \in {Absent, Node("tree", 0)}}
    /\ part = [n \in Names |-> IF n = "file" THEN Truncated(Node("file", 0)) ELSE Absent]
    /\ job = [w \in Workers |-> NoJob]
    /\ edits = 0

\* Somebody puts files where there are none; nobody else replaces a file.
SomebodyWrites ==
    /\ edits < MaxEdits /\ edits' = edits + 1
    /\ \E n \in {"target", "out"} :
          /\ disk[n] = Absent \/ (n = "out" /\ EmptyOrNew)
          /\ disk' = [disk EXCEPT ![n] = User(edits)]
    /\ UNCHANGED <<part, job, remote>>

Next ==
    \/ ServerChanges \/ SomebodyWrites
    \/ BeginDownload(Packager) \/ DownloadStep(Packager)
    \/ BeginExtract(Packager) \/ ExtractStep(Packager)
    \/ \E w \in Handlers : \/ BeginCopy(w) \/ CopyStep(w) \/ CreateFile(w)
                           \/ BeginUnzip(w) \/ UnzipStep(w)

Spec == Init /\ [][Next]_filesVars

-----------------------------------------------------------------------------
\* What can be in place for a build that was listed: that build, whole, or
\* another one of its name, to the same length.
Delivered(file, build) ==
    \E c \in Builds :
        /\ NameOf[c] = NameOf[build]
        /\ file \in {Node("build", c), Truncated(Node("build", c))}
        /\ SizeFits(file, build)

\* A package in package_dir is never a piece of the build that was listed, whenever
\* the connection broke, the disk failed or the server changed: it has the name and
\* the length listed, and it is that very build, whole, unless the server changed
\* between the listing and the body.  The files and trees taken out of packages
\* are whole at every moment (the .part files, the size and os.replace of
\* PackageManager.download and Extractor.extract).
PackagesAsListed ==
    /\ \A n \in {"file", "tree"} : disk[n] = Absent \/ disk[n].whole
    /\ \A n \in PackageNames : disk[n] # Absent =>
          \E b \in Builds : NameOf[b] = n /\ Delivered(disk[n], b)
    /\ LET j == job[Packager]  local == NameOf[j.build] IN
       j.op = "download" /\ j.pc = "success" =>
          /\ Delivered(disk[local], j.build)
          /\ edits = j.since => disk[local] = Node("build", j.build)

\* While a directory is replaced, and after it failed, the old tree is in its
\* place or in the backup until the new one is in place (_replace_directory_
\* safely of autoenv/extractor.py).
OldTreeKept ==
    LET j == job[Packager] IN
    j.op = "extract" /\ j.into = "tree" /\ j.old # Absent =>
        j.old \in {disk["tree"], j.backup} \/ disk["tree"] = j.new

\* What somebody else put at a destination stays: no copy, rename or unzip
\* replaces it (FileHandle.move_to, rename, unzip); and a copy that is placed
\* holds what the handle was taken of.
OthersFilesStay == [][
    /\ \A n \in {"target", "out"} : disk[n].holds[1] = "user" => disk'[n] = disk[n]
    /\ \A w \in Handlers :
          job[w].op = "move_to" /\ job'[w].op = "move_to" /\ job[w].pc # "success"
             /\ job'[w].pc = "success" => disk'["target"] = job[w].handle
    ]_filesVars

\* The destination of an unzip holds nothing, somebody's files, or one whole
\* archive, and only an archive that is clear (extract_archive and
\* _Members.add of autoenv/local_archives.py).  Every clear archive with few
\* enough files is accepted.
UnpackedIsClear ==
    /\ disk["out"] # Absent => disk["out"].whole
    /\ disk["out"].holds[1] = "archive" => disk["out"].holds[2]
    /\ \A w \in Handlers : job[w].op = "unzip" /\ job[w].pc = "refused" =>
          ~job[w].tree.holds[2]
=============================================================================
