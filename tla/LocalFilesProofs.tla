-------------------------- MODULE LocalFilesProofs --------------------------
(***************************************************************************)
(* Theorems about LocalFiles: what is in package_dir and at the             *)
(* destinations at every moment, for every number of workers, packages,      *)
(* builds and changes by somebody else.                                     *)
(***************************************************************************)
EXTENDS LocalFiles, FiniteSetTheorems, WellFoundedInduction, TLAPS

-----------------------------------------------------------------------------
\* What can be at each place.  Of a build, there may be a piece.
BuildNodes == UNION {{Node("build", b), Truncated(Node("build", b))} : b \in Builds}
FileNodes == {Node("file", b) : b \in Builds} \cup {Node("script", n) : n \in Nat}
TreeNodes == {Node("tree", b) : b \in Builds \cup {0}}
ArchiveNodes == {Node("archive", c) : c \in BOOLEAN}
UserNodes == {User(n) : n \in Nat}

DiskFits ==
    /\ DOMAIN disk = Names /\ DOMAIN part = Names /\ edits \in Nat
    /\ \A n \in PackageNames : disk[n] \in BuildNodes \cup {Absent}
    /\ disk["file"] \in FileNodes \cup {Absent}
    /\ disk["tree"] \in TreeNodes \cup {Absent}
    /\ disk["out"] \in ArchiveNodes \cup UserNodes \cup {Absent, EmptyDirectory}
    /\ disk["target"] \in FileNodes \cup UserNodes \cup {Absent}

\* A directory that is there lists builds.
ServerFits == DOMAIN remote = Places /\ \A p \in Places : remote[p] = Gone \/ remote[p] \subseteq Builds

\* A download that has selected a build, and what it has fetched.
DownloadFits(j) ==
    /\ j.pc \in {"lookup", "clear", "fetch", "check", "publish", "success", "failed"}
    /\ j.pc = "lookup" => "candidates" \in DOMAIN j /\ j.candidates \subseteq Places
    /\ j.pc \in {"clear", "fetch", "check", "publish"} =>
          "place" \in DOMAIN j /\ j.place \in Places
    /\ j.pc \in {"clear", "fetch", "check", "publish", "success"} =>
          {"build", "since"} \subseteq DOMAIN j /\ j.build \in Builds
    /\ j.pc \in {"check", "publish"} => part[NameOf[j.build]] \in BuildNodes

\* An extraction: what it has expanded, and where the old tree is.
ExtractFits(j) ==
    /\ j.pc \in {"resolve", "pending", "replace", "moveold", "placenew", "dropold",
                 "success", "failed"}
    /\ {"into", "new", "old", "backup"} \subseteq DOMAIN j
    /\ j.into \in {"file", "tree"}
    /\ j.pc = "resolve" => j.old = Absent
    /\ j.pc \in {"pending", "replace"} => j.into = "file" /\ j.new \in FileNodes
    /\ j.pc = "replace" => part["file"] = j.new
    /\ j.pc \in {"moveold", "placenew", "dropold"} => j.into = "tree" /\ j.new \in TreeNodes
    /\ j.pc = "moveold" => disk["tree"] = j.old
    /\ j.pc = "placenew" => j.backup = j.old /\ j.backup \in TreeNodes \cup {Absent}
    /\ j.pc = "dropold" => disk["tree"] = j.new
    /\ j.into = "tree" /\ j.old # Absent =>
          j.old \in {disk["tree"], j.backup} \/ disk["tree"] = j.new

PackagerFits ==
    LET j == job[Packager] IN
    /\ {"op", "pc"} \subseteq DOMAIN j
    /\ j.op \in {"none", "download", "extract"}
    /\ j.op = "none" => j.pc = "idle"
    /\ j.op = "download" => DownloadFits(j)
    /\ j.op = "extract" => ExtractFits(j)

\* A copy or a rename; what it places was never somebody else's.
CopyFits(j) ==
    /\ j.pc \in {"verify", "copy", "recheck", "link", "unlink", "success", "failed"}
    /\ j.pc \notin {"success", "failed"} =>
          /\ {"handle", "copy"} \subseteq DOMAIN j
          /\ j.handle \in FileNodes /\ j.copy \in FileNodes \cup {Absent}
    /\ j.pc \in {"copy", "recheck"} => j.op = "move_to"
    /\ j.pc = "link" /\ j.op = "move_to" => j.copy = j.handle
    /\ j.pc = "unlink" => j.op = "rename"

\* An unzip; what it is about to place was accepted.
UnzipFits(j) ==
    /\ j.pc \in {"check", "publish", "rmdir", "rename", "refused", "success", "failed"}
    /\ j.pc \notin {"success", "failed"} => {"tree", "existed"} \subseteq DOMAIN j
    /\ j.pc \in {"publish", "rmdir", "rename", "refused"} => j.tree \in ArchiveNodes

HandlerFits(j) ==
    /\ {"op", "pc"} \subseteq DOMAIN j
    /\ j.op \in {"none", "move_to", "rename", "unzip"}
    /\ j.op = "none" => j.pc = "idle"
    /\ j.op \in {"move_to", "rename"} => CopyFits(j)
    /\ j.op = "unzip" => UnzipFits(j)

\* A rename that has placed the new name is the only one, and the name is its own.
LinkHeld ==
    \A w \in Handlers : job[w].pc = "unlink" =>
        /\ disk["target"] \in FileNodes
        /\ \A v \in Handlers : job[v].pc = "unlink" => v = w

Inv ==
    /\ DiskFits /\ ServerFits /\ DOMAIN job = Workers
    /\ PackagerFits
    /\ \A w \in Handlers : HandlerFits(job[w])
    /\ LinkHeld

-----------------------------------------------------------------------------
\* A listing that is not empty has a newest build, and a newest directory.
LEMMA LatestIsListed ==
  ASSUME NEW s, s \subseteq Builds \/ s \subseteq Places, s # {}
  PROVE  Latest(s) \in s
<1> DEFINE Above(x) == {y \in s : y > x}
           T == {Above(x) : x \in s}
<1>0. s \subseteq Nat /\ IsFiniteSet(s)
  BY DownloadAssumption, FS_Subset
<1>1. IsWellFoundedOn(StrictSubsetOrdering(s), SUBSET s)
  <2>1. FiniteSubsetsOf(s) = SUBSET s
    BY <1>0, FS_FiniteSubsetsOfFinite
  <2> QED  BY <2>1, FS_StrictSubsetOrderingWellFounded
<1>2. T \subseteq SUBSET s /\ T # {}
  OBVIOUS
<1>3. \E u \in T : \A v \in T : ~(<<v, u>> \in StrictSubsetOrdering(s))
  <2> HIDE DEF T
  <2> QED  BY <1>1, <1>2, WFMin
<1>4. PICK x \in s : \A v \in T : ~(<<v, Above(x)>> \in StrictSubsetOrdering(s))
  BY <1>3
<1>5. ASSUME NEW y \in s, y > x PROVE FALSE
  <2>1. \A z \in s : z > y => z > x
    BY <1>5, <1>0
  <2>2. y \in Above(x) /\ y \notin Above(y)
    BY <1>5, <1>0
  <2>3. Above(y) \subseteq Above(x) /\ y \in Above(x) /\ y \notin Above(y)
    BY <2>1, <2>2, Zenon
  <2>4. <<Above(y), Above(x)>> \in StrictSubsetOrdering(s)
    BY <2>3 DEF StrictSubsetOrdering
  <2> QED  BY <2>4, <1>4
<1>6. \A y \in s : y <= x
  BY <1>5, <1>0
<1> QED  BY <1>6 DEF Latest

\* What a node is told apart by.
LEMMA NodeKinds ==
  /\ Absent.holds[1] = "nothing" /\ EmptyDirectory.holds[1] = "nothing"
  /\ \A n \in FileNodes \cup TreeNodes \cup ArchiveNodes \cup UserNodes : n.whole
  /\ \A n \in FileNodes \cup ArchiveNodes : n.holds[1] # "user"
  /\ \A n \in UserNodes : n.holds[1] = "user"
  /\ \A n \in FileNodes \cup TreeNodes \cup ArchiveNodes \cup UserNodes :
        n # Absent /\ n # EmptyDirectory
<1>1. \A kind, which : /\ Node(kind, which).holds[1] = kind
                       /\ Node(kind, which).holds[2] = which
                       /\ Node(kind, which).whole
  BY DEF Node
<1>2. /\ Absent.holds[1] = "nothing" /\ EmptyDirectory.holds[1] = "nothing"
      /\ Absent.whole = FALSE
  BY DEF Absent, EmptyDirectory
<1>3. \A n \in FileNodes \cup TreeNodes \cup ArchiveNodes \cup UserNodes :
         n.whole /\ n.holds[1] # "nothing"
  BY <1>1 DEF FileNodes, TreeNodes, ArchiveNodes, UserNodes, User
<1>4. /\ \A n \in FileNodes \cup ArchiveNodes : n.holds[1] # "user"
      /\ \A n \in UserNodes : n.holds[1] = "user"
  BY <1>1 DEF FileNodes, ArchiveNodes, UserNodes, User
<1> QED  BY <1>2, <1>3, <1>4

LEMMA PlacesDiffer ==
  /\ PackageNames \subseteq Names /\ {"file", "tree", "out", "target"} \subseteq Names
  /\ \A n \in PackageNames : n \notin {"file", "tree", "out", "target"}
BY DiskAssumption DEF Names

LEMMA InitInv == Init => Inv
<1> SUFFICES ASSUME Init PROVE Inv
  OBVIOUS
<1>1. PICK out \in {Absent, EmptyDirectory}, tree \in {Absent, Node("tree", 0)} :
        disk = [n \in Names |-> CASE n = "out" -> out [] n = "tree" -> tree [] OTHER -> Absent]
  BY DEF Init
<1>2. DiskFits
  BY <1>1, PlacesDiffer DEF Init, DiskFits, TreeNodes
<1>3. ServerFits
  <2>1. Latest(Builds) \in Builds
    BY LatestIsListed, DownloadAssumption
  <2> QED  BY <2>1 DEF Init, DownloadInit, ServerFits
<1>4. job = [w \in Workers |-> NoJob]
  BY DEF Init
<1>5. \A w \in Workers : job[w] = NoJob /\ {"op", "pc"} \subseteq DOMAIN job[w]
                         /\ job[w].op = "none" /\ job[w].pc = "idle"
  BY <1>4 DEF NoJob
<1>6. PackagerFits
  BY <1>5, PackagerAssumption DEF PackagerFits
<1>7. \A w \in Handlers : HandlerFits(job[w])
  BY <1>5 DEF HandlerFits, Handlers
<1>8. LinkHeld
  BY <1>5 DEF LinkHeld, Handlers
<1> QED  BY <1>2, <1>3, <1>4, <1>6, <1>7, <1>8 DEF Inv

-----------------------------------------------------------------------------
\* What is left to show of a step of one actor: its own job, and the places it
\* changes.
LEMMA PackagerStep ==
  ASSUME Inv,
         DOMAIN job' = Workers, \A v \in Handlers : job'[v] = job[v],
         disk'["target"] = disk["target"],
         DiskFits', ServerFits', PackagerFits'
  PROVE  Inv'
<1>1. \A v \in Handlers : HandlerFits(job'[v])
  BY DEF Inv
<1>2. LinkHeld'
  BY DEF Inv, LinkHeld, Handlers
<1> QED  BY <1>1, <1>2 DEF Inv, HandlerFits, CopyFits, UnzipFits

LEMMA PackagerKept ==
  ASSUME Inv, job'[Packager] = job[Packager], part' = part,
         \A n \in PackageNames \cup {"tree"} : disk'[n] = disk[n]
  PROVE  PackagerFits'
<1> DEFINE j == job[Packager]
<1>1. PackagerFits
  BY DEF Inv
<1>2. ASSUME j.op = "download" PROVE DownloadFits(j)'
  <2>1. DownloadFits(j)
    BY <1>1, <1>2 DEF PackagerFits
  <2> QED  BY <2>1 DEF DownloadFits
<1>3. ASSUME j.op = "extract" PROVE ExtractFits(j)'
  BY <1>1, <1>3 DEF PackagerFits, ExtractFits
<1> QED  BY <1>1, <1>2, <1>3 DEF PackagerFits

LEMMA HandlerStep ==
  ASSUME Inv, NEW w \in Handlers,
         DOMAIN job' = Workers, \A v \in Workers \ {w} : job'[v] = job[v],
         \A n \in PackageNames \cup {"tree"} : disk'[n] = disk[n],
         part' = part, remote' = remote,
         DiskFits', HandlerFits(job'[w]), LinkHeld'
  PROVE  Inv'
<1>1. PackagerFits'
  BY PackagerKept, PackagerAssumption DEF Handlers
<1>2. \A v \in Handlers : HandlerFits(job'[v])
  BY DEF Inv, Handlers
<1>3. ServerFits'
  BY DEF Inv, ServerFits
<1> QED  BY <1>1, <1>2, <1>3 DEF Inv, HandlerFits, CopyFits, UnzipFits

\* The job of one worker is replaced, or its program counter.
LEMMA JobReplaced ==
  ASSUME NEW w \in Workers, NEW j, DOMAIN job = Workers, job' = [job EXCEPT ![w] = j]
  PROVE  DOMAIN job' = Workers /\ job'[w] = j /\ \A v \in Workers \ {w} : job'[v] = job[v]
OBVIOUS

LEMMA JobMoves ==
  ASSUME NEW w \in Workers, NEW pc, DOMAIN job = Workers, Moves(w, pc), "pc" \in DOMAIN job[w]
  PROVE  /\ DOMAIN job' = Workers /\ \A v \in Workers \ {w} : job'[v] = job[v]
         /\ DOMAIN job'[w] = DOMAIN job[w] /\ job'[w].pc = pc
         /\ \A f \in DOMAIN job[w] : f # "pc" => job'[w][f] = job[w][f]
BY DEF Moves

LEMMA JobOver ==
  ASSUME NEW w \in Workers, DOMAIN job = Workers, Succeeds(w) \/ Fails(w)
  PROVE  /\ DOMAIN job' = Workers /\ \A v \in Workers \ {w} : job'[v] = job[v]
         /\ {"op", "pc"} \subseteq DOMAIN job'[w]
         /\ job'[w].op = job[w].op
         /\ job'[w].pc = IF Succeeds(w) THEN "success" ELSE "failed"
<1>1. CASE Succeeds(w)
  BY <1>1 DEF Succeeds
<1>2. CASE Fails(w)
  <2>1. job'[w] = [op |-> job[w].op, pc |-> "failed"]
    BY <1>2 DEF Fails
  <2>2. ~Succeeds(w)
    <3>1. Succeeds(w) => job'[w] = [op |-> job[w].op, pc |-> "success"]
      BY DEF Succeeds
    <3> QED  BY <2>1, <3>1
  <2> QED  BY <1>2, <2>1, <2>2 DEF Fails
<1> QED  BY <1>1, <1>2

-----------------------------------------------------------------------------
LEMMA ServerChangesKeeps == Inv /\ ServerChanges => Inv'
<1> SUFFICES ASSUME Inv, ServerChanges PROVE Inv'
  OBVIOUS
<1>1. UNCHANGED <<disk, part, job>> /\ edits' = edits + 1
  BY DEF ServerChanges
<1>2. ServerFits'
  BY DEF Inv, ServerFits, ServerChanges
<1>3. DiskFits'
  BY <1>1 DEF Inv, DiskFits
<1>4. PackagerFits'
  BY <1>1, PackagerKept
<1> QED  BY <1>1, <1>2, <1>3, <1>4, PackagerStep, PlacesDiffer DEF Inv

LEMMA SomebodyWritesKeeps == Inv /\ SomebodyWrites => Inv'
<1> SUFFICES ASSUME Inv, SomebodyWrites PROVE Inv'
  OBVIOUS
<1>1. PICK n \in {"target", "out"} :
        /\ disk[n] = Absent \/ (n = "out" /\ EmptyOrNew)
        /\ disk' = [disk EXCEPT ![n] = User(edits)]
  BY DEF SomebodyWrites
<1>2. UNCHANGED <<part, job, remote>> /\ edits' = edits + 1
  BY DEF SomebodyWrites
<1>3. DiskFits /\ User(edits) \in UserNodes
  BY DEF Inv, DiskFits, UserNodes
<1>4. DiskFits'
  BY <1>1, <1>2, <1>3, PlacesDiffer DEF DiskFits
<1>5. \A m \in PackageNames \cup {"tree"} : disk'[m] = disk[m]
  BY <1>1, <1>3, PlacesDiffer DEF DiskFits
<1>6. PackagerFits'
  BY <1>2, <1>5, PackagerKept
<1>7. LinkHeld'
  <2>1. disk["target"] \in FileNodes => disk'["target"] = disk["target"]
    BY <1>1, <1>3, NodeKinds, PlacesDiffer DEF DiskFits
  <2> QED  BY <1>2, <2>1 DEF Inv, LinkHeld
<1> QED  BY <1>2, <1>4, <1>6, <1>7 DEF Inv, ServerFits, HandlerFits, CopyFits, UnzipFits

-----------------------------------------------------------------------------
LEMMA BeginDownloadKeeps == Inv /\ BeginDownload(Packager) => Inv'
<1> SUFFICES ASSUME Inv, BeginDownload(Packager) PROVE Inv'
  OBVIOUS
<1>1. PICK candidates \in SUBSET Places :
        Starts(Packager, [op |-> "download", pc |-> "lookup", candidates |-> candidates])
  BY DEF BeginDownload
<1>2. UNCHANGED <<disk, part, edits, remote>>
  BY DEF BeginDownload, downloadVars
<1> DEFINE j == [op |-> "download", pc |-> "lookup", candidates |-> candidates]
<1>3. DOMAIN job' = Workers /\ job'[Packager] = j /\ \A v \in Handlers : job'[v] = job[v]
  BY <1>1, PackagerAssumption DEF Inv, Starts, Handlers
<1>4. PackagerFits'
  BY <1>3 DEF PackagerFits, DownloadFits
<1> QED  BY <1>2, <1>3, <1>4, PackagerStep DEF Inv, DiskFits, ServerFits

LEMMA TryCandidateKeeps ==
  Inv /\ job[Packager].op = "download" /\ TryCandidate(Packager) => Inv'
<1> SUFFICES ASSUME Inv, job[Packager].op = "download", TryCandidate(Packager) PROVE Inv'
  OBVIOUS
<1> DEFINE j == job[Packager]
           p == Latest(j.candidates)
           k == job'[Packager]
<1>1. DownloadFits(j) /\ {"op", "pc"} \subseteq DOMAIN j /\ j.pc = "lookup"
  BY DEF Inv, PackagerFits, TryCandidate
<1>2. UNCHANGED <<disk, part, edits, remote>>
  BY DEF TryCandidate, downloadVars
<1>3. /\ DOMAIN job' = Workers /\ \A v \in Handlers : job'[v] = job[v]
      /\ Listed(p) = {} => k = [j EXCEPT !.candidates = @ \ {p}]
      /\ Listed(p) # {} => k = [op |-> "download", pc |-> "clear", place |-> p,
                               build |-> Latest(Listed(p)), since |-> edits]
  <2>1. CASE Listed(p) = {}
    <3>1. job' = [job EXCEPT ![Packager].candidates = @ \ {p}]
      BY <2>1 DEF TryCandidate
    <3> QED  BY <2>1, <3>1, PackagerAssumption DEF Inv, Handlers
  <2>2. CASE Listed(p) # {}
    BY <2>2, PackagerAssumption DEF Inv, TryCandidate, Starts, Handlers
  <2> QED  BY <2>1, <2>2
<1>4. p \in Places /\ Listed(p) \subseteq Builds
  <2>1. p \in Places
    BY <1>1, LatestIsListed DEF TryCandidate, DownloadFits
  <2> QED  BY <2>1 DEF Inv, ServerFits, Listed
<1>5. CASE Listed(p) = {}
  <2>1. k = [j EXCEPT !.candidates = @ \ {p}]
    BY <1>3, <1>5
  <2>2. /\ DOMAIN k = DOMAIN j /\ k.op = "download" /\ k.pc = "lookup"
        /\ k.candidates \subseteq Places
    BY <1>1, <2>1 DEF DownloadFits
  <2>3. PackagerFits'
    BY <1>1, <2>2 DEF PackagerFits, DownloadFits
  <2> QED  BY <1>2, <1>3, <2>3, PackagerStep DEF Inv, DiskFits, ServerFits
<1>6. CASE Listed(p) # {}
  <2>1. /\ k = [op |-> "download", pc |-> "clear", place |-> p,
                build |-> Latest(Listed(p)), since |-> edits]
        /\ Latest(Listed(p)) \in Builds
    BY <1>3, <1>4, <1>6, LatestIsListed
  <2>2. PackagerFits'
    BY <1>4, <2>1 DEF PackagerFits, DownloadFits
  <2> QED  BY <1>2, <1>3, <2>2, PackagerStep DEF Inv, DiskFits, ServerFits
<1> QED  BY <1>5, <1>6

\* The job of a download keeps its fields, and its next place is known.
LEMMA DownloadMoves ==
  ASSUME Inv, job[Packager].op = "download", NEW pc,
         pc \in {"fetch", "check", "publish"}, Moves(Packager, pc),
         job[Packager].pc \in {"clear", "fetch", "check"}
  PROVE  /\ DOMAIN job' = Workers /\ \A v \in Handlers : job'[v] = job[v]
         /\ job[Packager].build \in Builds /\ Local(Packager) \in PackageNames
         /\ NameOf[job'[Packager].build] = Local(Packager)
         /\ \A f \in {"op", "place", "build", "since"} : job'[Packager][f] = job[Packager][f]
         /\ job'[Packager].pc = pc /\ job[Packager].place \in Places
         /\ (pc # "fetch" => part'[Local(Packager)] \in BuildNodes) => PackagerFits'
<1> DEFINE j == job[Packager]
           k == job'[Packager]
<1>1. DownloadFits(j) /\ {"op", "pc"} \subseteq DOMAIN j /\ DOMAIN job = Workers
  BY DEF Inv, PackagerFits
<1>2. /\ DOMAIN job' = Workers /\ \A v \in Handlers : job'[v] = job[v]
      /\ DOMAIN k = DOMAIN j /\ k.pc = pc
      /\ \A f \in DOMAIN j : f # "pc" => k[f] = j[f]
  BY <1>1, JobMoves, PackagerAssumption DEF Handlers
<1>3. /\ {"place", "build", "since"} \subseteq DOMAIN j /\ j.place \in Places
      /\ j.build \in Builds
  BY <1>1 DEF DownloadFits
<1>4. k.op = "download" /\ k.build = j.build /\ k.place = j.place /\ k.since = j.since
  BY <1>1, <1>2, <1>3
<1>5. Local(Packager) \in PackageNames
  BY <1>3, DownloadAssumption DEF Local
<1>6. ASSUME pc # "fetch" => part'[Local(Packager)] \in BuildNodes
      PROVE  PackagerFits'
  <2>1. DownloadFits(job[Packager])'
    BY <1>1, <1>2, <1>3, <1>4, <1>6 DEF DownloadFits, Local
  <2> QED  BY <1>1, <1>2, <1>4, <2>1 DEF PackagerFits
<1> QED  BY <1>2, <1>3, <1>4, <1>5, <1>6 DEF Local

LEMMA DownloadEnds ==
  ASSUME Inv, job[Packager].op = "download", Fails(Packager)
  PROVE  DOMAIN job' = Workers /\ (\A v \in Handlers : job'[v] = job[v]) /\ PackagerFits'
<1>1. job' = [job EXCEPT ![Packager] = [op |-> @.op, pc |-> "failed"]] /\ DOMAIN job = Workers
  BY DEF Inv, Fails
<1>2. /\ DOMAIN job' = Workers /\ \A v \in Handlers : job'[v] = job[v]
      /\ job'[Packager] = [op |-> "download", pc |-> "failed"]
  BY <1>1, PackagerAssumption DEF Handlers
<1> QED  BY <1>2 DEF PackagerFits, DownloadFits

LEMMA DownloadStepKeeps == Inv /\ DownloadStep(Packager) => Inv'
<1> SUFFICES ASSUME Inv, DownloadStep(Packager) PROVE Inv'
  OBVIOUS
<1> DEFINE j == job[Packager]
<1>0. j.op = "download" /\ DiskFits /\ ServerFits /\ DOMAIN job = Workers
  BY DEF Inv, DownloadStep
<1>1. CASE TryCandidate(Packager)
  BY <1>0, <1>1, TryCandidateKeeps
<1>2. CASE LookupFails(Packager)
  <2>1. Fails(Packager) /\ UNCHANGED <<disk, part, edits, remote>>
    BY <1>2 DEF LookupFails, downloadVars
  <2> QED  BY <1>0, <2>1, DownloadEnds, PackagerStep DEF DiskFits, ServerFits
<1>3. CASE ClearPart(Packager)
  <2>1. /\ Moves(Packager, "fetch") /\ UNCHANGED <<disk, edits, remote>> /\ j.pc = "clear"
        /\ part' = [part EXCEPT ![Local(Packager)] = Absent]
    BY <1>3 DEF ClearPart
  <2>2. /\ DOMAIN job' = Workers /\ \A v \in Handlers : job'[v] = job[v]
        /\ PackagerFits'
    BY <1>0, <2>1, DownloadMoves
  <2> QED  BY <1>0, <2>1, <2>2, PackagerStep DEF DiskFits, ServerFits
<1>4. CASE Fetch(Packager)
  <2>1. /\ Moves(Packager, "check") /\ UNCHANGED <<disk, edits, remote>> /\ j.pc = "fetch"
    BY <1>4 DEF Fetch
  <2>2. DOMAIN part' = DOMAIN part /\ part'[Local(Packager)] \in BuildNodes
    <3>1. PICK b \in Listed(j.place) :
            \E body \in {Node("build", b), Truncated(Node("build", b))} :
                part' = [part EXCEPT ![Local(Packager)] = body]
      BY <1>4 DEF Fetch
    <3>2. j.place \in Places /\ Local(Packager) \in PackageNames
      BY <1>0, <2>1, DownloadAssumption DEF Inv, PackagerFits, DownloadFits, Local
    <3>3. b \in Builds
      BY <1>0, <3>2 DEF ServerFits, Listed
    <3> QED  BY <1>0, <3>1, <3>2, <3>3, PlacesDiffer DEF DiskFits, BuildNodes
  <2>3. /\ DOMAIN job' = Workers /\ \A v \in Handlers : job'[v] = job[v]
        /\ PackagerFits'
    BY <1>0, <2>1, <2>2, DownloadMoves
  <2> QED  BY <1>0, <2>1, <2>2, <2>3, PackagerStep DEF DiskFits, ServerFits
<1>5. CASE CheckSize(Packager)
  <2>1. /\ Moves(Packager, "publish") /\ UNCHANGED <<disk, part, edits, remote>>
        /\ j.pc = "check"
    BY <1>5 DEF CheckSize, downloadVars
  <2>2. part'[Local(Packager)] \in BuildNodes
    BY <1>0, <2>1 DEF Local, Inv, PackagerFits, DownloadFits
  <2>3. /\ DOMAIN job' = Workers /\ \A v \in Handlers : job'[v] = job[v]
        /\ PackagerFits'
    <3>1. "publish" \in {"fetch", "check", "publish"} /\ j.pc \in {"clear", "fetch", "check"}
      BY <2>1
    <3> QED  BY <1>0, <2>1, <2>2, <3>1, DownloadMoves
  <2> QED  BY <1>0, <2>1, <2>3, PackagerStep DEF DiskFits, ServerFits
<1>6. CASE PublishPackage(Packager)
  <2> DEFINE k == [op |-> j.op, pc |-> "success", build |-> j.build, since |-> j.since]
             here == NameOf[j.build]
  <2>1. /\ disk' = [disk EXCEPT ![here] = part[here]]
        /\ part' = [part EXCEPT ![here] = Absent]
        /\ job' = [job EXCEPT ![Packager] = k] /\ UNCHANGED <<edits, remote>>
    BY <1>6 DEF PublishPackage, Local
  <2>2. j.build \in Builds /\ part[here] \in BuildNodes /\ here \in PackageNames
    BY <1>0, <1>6, DownloadAssumption DEF Inv, PackagerFits, DownloadFits, PublishPackage
  <2>3. DOMAIN job' = Workers /\ job'[Packager] = k /\ \A v \in Handlers : job'[v] = job[v]
    BY <1>0, <2>1, PackagerAssumption DEF Handlers
  <2>4. /\ DOMAIN disk' = Names /\ DOMAIN part' = Names
        /\ disk'[here] \in BuildNodes /\ \A n \in Names \ {here} : disk'[n] = disk[n]
    BY <1>0, <2>1, <2>2, PlacesDiffer DEF DiskFits
  <2>6. DiskFits' /\ disk'["target"] = disk["target"]
    BY <1>0, <2>1, <2>2, <2>4, PlacesDiffer DEF DiskFits
  <2>7. PackagerFits'
    BY <1>0, <2>2, <2>3, <2>4 DEF PackagerFits, DownloadFits
  <2> QED  BY <1>0, <2>1, <2>3, <2>6, <2>7, PackagerStep DEF ServerFits
<1>7. CASE DownloadFails(Packager)
  <2>1. Fails(Packager) /\ UNCHANGED <<disk, edits, remote>> /\ DOMAIN part' = DOMAIN part
    BY <1>7 DEF DownloadFails
  <2> QED  BY <1>0, <2>1, DownloadEnds, PackagerStep DEF DiskFits, ServerFits
<1> QED
  BY <1>1, <1>2, <1>3, <1>4, <1>5, <1>6, <1>7 DEF DownloadStep

-----------------------------------------------------------------------------
LEMMA BeginExtractKeeps == Inv /\ BeginExtract(Packager) => Inv'
<1> SUFFICES ASSUME Inv, BeginExtract(Packager) PROVE Inv'
  OBVIOUS
<1>1. PICK into \in {"file", "tree"}, selector \in {"package", "named"} :
        Starts(Packager, [op |-> "extract", pc |-> "resolve", into |-> into,
                          selector |-> selector, new |-> Absent, old |-> Absent,
                          backup |-> Absent])
  BY DEF BeginExtract
<1>2. UNCHANGED <<disk, part, edits, remote>>
  BY DEF BeginExtract, extractVars
<1> DEFINE j == [op |-> "extract", pc |-> "resolve", into |-> into, selector |-> selector,
                 new |-> Absent, old |-> Absent, backup |-> Absent]
<1>3. DOMAIN job' = Workers /\ job'[Packager] = j /\ \A v \in Handlers : job'[v] = job[v]
  BY <1>1, PackagerAssumption DEF Inv, Starts, Handlers
<1>4. PackagerFits'
  BY <1>3 DEF PackagerFits, ExtractFits
<1> QED  BY <1>2, <1>3, <1>4, PackagerStep DEF Inv, DiskFits, ServerFits

\* An extraction that goes on keeps its fields but the program counter.
LEMMA ExtractMoves ==
  ASSUME Inv, job[Packager].op = "extract", NEW pc, Moves(Packager, pc)
  PROVE  /\ DOMAIN job' = Workers /\ \A v \in Handlers : job'[v] = job[v]
         /\ {"op", "pc", "into", "new", "old", "backup"} \subseteq DOMAIN job'[Packager]
         /\ job'[Packager].op = "extract" /\ job'[Packager].pc = pc
         /\ \A f \in {"into", "new", "old", "backup"} : job'[Packager][f] = job[Packager][f]
<1> DEFINE j == job[Packager]
<1>1. {"op", "pc", "into", "new", "old", "backup"} \subseteq DOMAIN j
  BY DEF Inv, PackagerFits, ExtractFits
<1>2. /\ DOMAIN job' = Workers /\ \A v \in Handlers : job'[v] = job[v]
      /\ DOMAIN job'[Packager] = DOMAIN j /\ job'[Packager].pc = pc
      /\ \A f \in DOMAIN j : f # "pc" => job'[Packager][f] = j[f]
  BY <1>1, JobMoves, PackagerAssumption DEF Inv, Handlers
<1> QED  BY <1>1, <1>2

LEMMA TakenOfBuild ==
  ASSUME NEW b, NEW into
  PROVE  /\ Taken(Node("build", b), into) = Node(into, b)
         /\ ~Truncated(Node("build", b)).whole
<1>1. Node("build", b).holds[2] = b /\ Truncated(Node("build", b)).whole = FALSE
  BY DEF Node, Truncated
<1> QED  BY <1>1 DEF Taken, Node

\* The target of an extraction holds the build that its package holds.
LEMMA ExpandPackageKeeps ==
  Inv /\ job[Packager].op = "extract" /\ ExpandPackage(Packager) => Inv'
<1> SUFFICES ASSUME Inv, job[Packager].op = "extract", ExpandPackage(Packager) PROVE Inv'
  OBVIOUS
<1> DEFINE j == job[Packager]
           k == job'[Packager]
<1>1. PICK name \in {n \in Resolved(j.selector) : disk[n].whole} :
        job' = [job EXCEPT ![Packager] =
                  [op |-> "extract", into |-> j.into,
                   pc |-> IF j.into = "file" THEN "pending" ELSE "moveold",
                   new |-> Taken(disk[name], j.into),
                   old |-> disk[j.into], backup |-> Absent]]
  BY DEF ExpandPackage, Starts
<1>2. UNCHANGED <<disk, part, edits, remote>>
  BY DEF ExpandPackage, extractVars
<1>3. ExtractFits(j) /\ DiskFits /\ DOMAIN job = Workers /\ j.into \in {"file", "tree"}
  BY DEF Inv, PackagerFits, ExtractFits
<1>4. /\ DOMAIN job' = Workers /\ \A v \in Handlers : job'[v] = job[v]
      /\ k = [op |-> "extract", into |-> j.into,
              pc |-> IF j.into = "file" THEN "pending" ELSE "moveold",
              new |-> Taken(disk[name], j.into), old |-> disk[j.into], backup |-> Absent]
  BY <1>1, <1>3, PackagerAssumption DEF Handlers
<1>6. k.new \in IF j.into = "file" THEN FileNodes ELSE TreeNodes
  <2>1. name \in Matching /\ disk[name].whole
    BY <1>1 DEF Resolved
  <2>2. PICK b \in Builds : disk[name] \in {Node("build", b), Truncated(Node("build", b))}
    BY <1>3, <2>1 DEF Matching, DiskFits, BuildNodes
  <2>3. k.new = Node(j.into, b)
    BY <1>4, <2>1, <2>2, TakenOfBuild
  <2> QED  BY <1>3, <2>3 DEF FileNodes, TreeNodes
<1>7. PackagerFits'
  <2>1. ExtractFits(job[Packager])'
    BY <1>2, <1>3, <1>4, <1>6 DEF ExtractFits
  <2> QED  BY <1>4, <2>1 DEF PackagerFits
<1> QED  BY <1>2, <1>3, <1>4, <1>7, PackagerStep DEF Inv, DiskFits, ServerFits

LEMMA ReplaceFileKeeps ==
  Inv /\ job[Packager].op = "extract" /\ (CopyPending(Packager) \/ ReplaceFile(Packager)) => Inv'
<1> SUFFICES ASSUME Inv, job[Packager].op = "extract",
                    CopyPending(Packager) \/ ReplaceFile(Packager)
             PROVE  Inv'
  OBVIOUS
<1> DEFINE j == job[Packager]
           k == job'[Packager]
<1>1. ExtractFits(j) /\ DiskFits /\ UNCHANGED <<edits, remote>>
  BY DEF Inv, PackagerFits, CopyPending, ReplaceFile
<1>2. CASE CopyPending(Packager)
  <2>1. /\ part' = [part EXCEPT !["file"] = j.new] /\ Moves(Packager, "replace")
        /\ disk' = disk /\ j.pc = "pending"
    BY <1>2 DEF CopyPending
  <2>2. /\ DOMAIN job' = Workers /\ \A v \in Handlers : job'[v] = job[v]
        /\ {"op", "pc", "into", "new", "old", "backup"} \subseteq DOMAIN k
        /\ k.op = "extract" /\ k.pc = "replace" /\ k.into = j.into /\ k.new = j.new
        /\ k.old = j.old /\ k.backup = j.backup
    BY <2>1, ExtractMoves
  <2>3. part'["file"] = j.new /\ DOMAIN part' = Names
    BY <1>1, <2>1, PlacesDiffer DEF DiskFits
  <2>4. ExtractFits(job[Packager])'
    BY <1>1, <2>1, <2>2, <2>3 DEF ExtractFits
  <2>5. PackagerFits'
    BY <2>2, <2>4 DEF PackagerFits
  <2> QED  BY <1>1, <2>1, <2>2, <2>3, <2>5, PackagerStep DEF Inv, DiskFits, ServerFits
<1>3. CASE ReplaceFile(Packager)
  <2>1. /\ disk' = [disk EXCEPT !["file"] = part["file"]]
        /\ part' = [part EXCEPT !["file"] = Absent]
        /\ Moves(Packager, "success") /\ j.pc = "replace"
    BY <1>3 DEF ReplaceFile
  <2>2. /\ DOMAIN job' = Workers /\ \A v \in Handlers : job'[v] = job[v]
        /\ {"op", "pc", "into", "new", "old", "backup"} \subseteq DOMAIN k
        /\ k.op = "extract" /\ k.pc = "success" /\ k.into = j.into /\ k.new = j.new
        /\ k.old = j.old /\ k.backup = j.backup
    BY <2>1, ExtractMoves
  <2>3. j.into = "file" /\ part["file"] \in FileNodes
    BY <1>1, <2>1 DEF ExtractFits
  <2>4. /\ DOMAIN part' = Names /\ DOMAIN disk' = Names /\ disk'["file"] \in FileNodes
        /\ \A n \in Names \ {"file"} : disk'[n] = disk[n]
    BY <1>1, <2>1, <2>3, PlacesDiffer DEF DiskFits
  <2>5. DiskFits' /\ disk'["target"] = disk["target"]
    BY <1>1, <2>4, PlacesDiffer DEF DiskFits
  <2>6. ExtractFits(job[Packager])'
    BY <2>2, <2>3 DEF ExtractFits
  <2>7. PackagerFits'
    BY <2>2, <2>6 DEF PackagerFits
  <2> QED  BY <1>1, <2>2, <2>5, <2>7, PackagerStep DEF Inv, ServerFits
<1> QED  BY <1>2, <1>3

LEMMA BackupReplaced ==
  ASSUME NEW j, NEW k, NEW pc, NEW backup, {"pc", "backup"} \subseteq DOMAIN j,
         k = [j EXCEPT !.pc = pc, !.backup = backup]
  PROVE  /\ DOMAIN k = DOMAIN j /\ k.pc = pc /\ k.backup = backup
         /\ \A f \in DOMAIN j : f \notin {"pc", "backup"} => k[f] = j[f]
OBVIOUS

\* A step that changes the tree, its program counter and the backup.
LEMMA TreeStep ==
  ASSUME Inv, job[Packager].op = "extract", NEW pc, NEW backup, NEW tree,
         job' = [job EXCEPT ![Packager].pc = pc, ![Packager].backup = backup],
         DOMAIN disk' = Names, disk'["tree"] = tree, tree \in TreeNodes \cup {Absent},
         \A n \in Names \ {"tree"} : disk'[n] = disk[n],
         UNCHANGED <<part, edits, remote>>,
         LET j == job[Packager] IN
         \/ pc = "placenew" /\ backup = j.old /\ j.pc = "moveold" /\ j.old \in TreeNodes \cup {Absent}
         \/ pc = "dropold" /\ tree = j.new /\ j.pc = "placenew"
         \/ pc = "success" /\ tree = j.new
         \/ /\ pc = "failed"
            /\ j.into = "tree" /\ j.old # Absent => j.old \in {tree, backup} \/ tree = j.new
  PROVE  Inv'
<1> DEFINE j == job[Packager]
           k == job'[Packager]
<1>1. ExtractFits(j) /\ DiskFits /\ {"op", "pc"} \subseteq DOMAIN j /\ DOMAIN job = Workers
  BY DEF Inv, PackagerFits
<1>2. /\ DOMAIN job' = Workers /\ \A v \in Handlers : job'[v] = job[v]
      /\ k = [j EXCEPT !.pc = pc, !.backup = backup]
  BY <1>1, PackagerAssumption DEF Handlers
<1>4. {"op", "pc", "into", "new", "old", "backup"} \subseteq DOMAIN j
  BY <1>1 DEF ExtractFits
<1>3. /\ {"op", "pc", "into", "new", "old", "backup"} \subseteq DOMAIN k
      /\ k.op = "extract" /\ k.pc = pc /\ k.backup = backup
      /\ k.into = j.into /\ k.new = j.new /\ k.old = j.old
  <2>0. {"pc", "backup"} \subseteq DOMAIN j /\ k = [j EXCEPT !.pc = pc, !.backup = backup]
    BY <1>2, <1>4
  <2>1. DOMAIN k = DOMAIN j /\ k.pc = pc /\ k.backup = backup
        /\ \A f \in DOMAIN j : f \notin {"pc", "backup"} => k[f] = j[f]
    <3> HIDE DEF j, k
    <3> QED  BY <2>0, BackupReplaced
  <2> QED  BY <1>4, <2>1
<1>5. DiskFits' /\ disk'["target"] = disk["target"]
  BY <1>1, PlacesDiffer DEF DiskFits
<1>6. ExtractFits(job[Packager])'
  BY <1>1, <1>3 DEF ExtractFits
<1>7. PackagerFits'
  BY <1>3, <1>6 DEF PackagerFits
<1> QED  BY <1>2, <1>5, <1>7, PackagerStep DEF Inv, ServerFits

LEMMA ReplaceTreeKeeps ==
  Inv /\ job[Packager].op = "extract"
      /\ (\/ MoveOldTree(Packager) \/ PlaceNewTree(Packager)
          \/ RestoreOldTree(Packager) \/ DropOldTree(Packager)) => Inv'
<1> SUFFICES ASSUME Inv, job[Packager].op = "extract",
                    \/ MoveOldTree(Packager) \/ PlaceNewTree(Packager)
                    \/ RestoreOldTree(Packager) \/ DropOldTree(Packager)
             PROVE  Inv'
  OBVIOUS
<1> DEFINE j == job[Packager]
<1>1. ExtractFits(j) /\ DiskFits /\ DOMAIN job = Workers /\ {"op", "pc"} \subseteq DOMAIN j
      /\ j.op = "extract"
  BY DEF Inv, PackagerFits
<1>2. ASSUME NEW tree, disk' = [disk EXCEPT !["tree"] = tree]
      PROVE  DOMAIN disk' = Names /\ disk'["tree"] = tree
             /\ \A n \in Names \ {"tree"} : disk'[n] = disk[n]
  BY <1>1, <1>2, PlacesDiffer DEF DiskFits
<1>3. \A pc : Moves(Packager, pc) =>
        job' = [job EXCEPT ![Packager].pc = pc, ![Packager].backup = j.backup]
  BY DEF Moves
<1>4. CASE MoveOldTree(Packager)
  <2>1. disk["tree"] = j.old /\ j.old \in TreeNodes \cup {Absent} /\ j.pc = "moveold"
    BY <1>1, <1>4 DEF MoveOldTree, ExtractFits, DiskFits
  <2>2. /\ job' = [job EXCEPT ![Packager].pc = "placenew", ![Packager].backup = j.old]
        /\ disk' = [disk EXCEPT !["tree"] = Absent] /\ UNCHANGED <<part, edits, remote>>
    BY <1>4, <2>1 DEF MoveOldTree
  <2> QED  BY <1>1, <1>2, <2>1, <2>2, TreeStep
<1>5. CASE PlaceNewTree(Packager)
  <2>1. /\ j.pc = "placenew" /\ j.new \in TreeNodes
        /\ disk' = [disk EXCEPT !["tree"] = j.new] /\ UNCHANGED <<part, edits, remote>>
    BY <1>1, <1>5 DEF PlaceNewTree, ExtractFits
  <2>2. \E pc \in {"success", "dropold"} : Moves(Packager, pc)
    BY <1>5 DEF PlaceNewTree
  <2>3. PICK pc \in {"success", "dropold"} :
          job' = [job EXCEPT ![Packager].pc = pc, ![Packager].backup = j.backup]
    BY <1>3, <2>2
  <2> QED  BY <1>1, <1>2, <2>1, <2>3, TreeStep
<1>6. CASE RestoreOldTree(Packager)
  <2>1. j.pc = "placenew" /\ j.backup = j.old /\ j.backup \in TreeNodes \cup {Absent}
        /\ UNCHANGED <<part, edits, remote>>
    BY <1>1, <1>6 DEF RestoreOldTree, ExtractFits
  <2>2. CASE /\ disk' = [disk EXCEPT !["tree"] = j.backup]
             /\ job' = [job EXCEPT ![Packager].pc = "failed", ![Packager].backup = Absent]
    BY <1>1, <1>2, <2>1, <2>2, TreeStep
  <2>3. CASE UNCHANGED disk /\ Moves(Packager, "failed")
    <3>1. DOMAIN disk' = Names /\ disk'["tree"] = disk["tree"]
          /\ \A n \in Names \ {"tree"} : disk'[n] = disk[n]
      BY <1>1, <2>3 DEF DiskFits
    <3>2. job' = [job EXCEPT ![Packager].pc = "failed", ![Packager].backup = j.backup]
      BY <1>3, <2>3
    <3>3. disk["tree"] \in TreeNodes \cup {Absent}
      BY <1>1 DEF DiskFits
    <3> QED  BY <1>1, <2>1, <3>1, <3>2, <3>3, TreeStep
  <2> QED  BY <1>6, <2>2, <2>3 DEF RestoreOldTree
<1>7. CASE DropOldTree(Packager)
  <2>1. PICK outcome \in {"success", "failed"} :
          job' = [job EXCEPT ![Packager].pc = outcome, ![Packager].backup = Absent]
    BY <1>7 DEF DropOldTree
  <2>2. j.pc = "dropold" /\ disk' = disk /\ UNCHANGED <<part, edits, remote>>
    BY <1>7 DEF DropOldTree, extractVars
  <2>3. disk["tree"] = j.new /\ j.new \in TreeNodes
    BY <1>1, <2>2 DEF ExtractFits
  <2>4. DOMAIN disk' = Names /\ disk'["tree"] = disk["tree"]
        /\ \A n \in Names \ {"tree"} : disk'[n] = disk[n]
    BY <1>1, <2>2 DEF DiskFits
  <2> QED  BY <1>1, <2>1, <2>2, <2>3, <2>4, TreeStep
<1> QED  BY <1>4, <1>5, <1>6, <1>7

LEMMA ExtractFailsKeeps ==
  Inv /\ job[Packager].op = "extract" /\ ExtractFails(Packager) => Inv'
<1> SUFFICES ASSUME Inv, job[Packager].op = "extract", ExtractFails(Packager) PROVE Inv'
  OBVIOUS
<1> DEFINE j == job[Packager]
           k == job'[Packager]
<1>1. /\ ExtractFits(j) /\ DiskFits /\ Moves(Packager, "failed")
      /\ UNCHANGED <<disk, edits, remote>> /\ DOMAIN part' = DOMAIN part
      /\ j.pc \in {"resolve", "pending", "replace", "moveold"}
  BY DEF Inv, PackagerFits, ExtractFails
<1>2. /\ DOMAIN job' = Workers /\ \A v \in Handlers : job'[v] = job[v]
      /\ {"op", "pc", "into", "new", "old", "backup"} \subseteq DOMAIN k
      /\ k.op = "extract" /\ k.pc = "failed" /\ k.into = j.into /\ k.new = j.new
      /\ k.old = j.old /\ k.backup = j.backup
  BY <1>1, ExtractMoves
<1>3. ExtractFits(job[Packager])'
  BY <1>1, <1>2 DEF ExtractFits
<1>4. PackagerFits'
  BY <1>2, <1>3 DEF PackagerFits
<1> QED  BY <1>1, <1>2, <1>4, PackagerStep DEF Inv, DiskFits, ServerFits

LEMMA ExtractStepKeeps == Inv /\ ExtractStep(Packager) => Inv'
BY ExpandPackageKeeps, ReplaceFileKeeps, ReplaceTreeKeeps, ExtractFailsKeeps DEF ExtractStep

-----------------------------------------------------------------------------
\* A worker that does not come to remove the old name, with the target as it
\* was, disturbs no rename.
LEMMA LinkHeldKept ==
  ASSUME Inv, NEW w \in Handlers, \A v \in Workers \ {w} : job'[v] = job[v],
         disk'["target"] = disk["target"], job'[w].pc # "unlink"
  PROVE  LinkHeld'
BY DEF Inv, LinkHeld, Handlers

LEMMA BeginCopyKeeps == ASSUME NEW w \in Handlers PROVE Inv /\ BeginCopy(w) => Inv'
<1> SUFFICES ASSUME Inv, BeginCopy(w) PROVE Inv'
  OBVIOUS
<1>1. PICK op \in {"move_to", "rename"} :
        Starts(w, [op |-> op, pc |-> "verify", handle |-> disk["file"], copy |-> Absent])
  BY DEF BeginCopy
<1> DEFINE j == [op |-> op, pc |-> "verify", handle |-> disk["file"], copy |-> Absent]
<1>2. /\ UNCHANGED <<disk, part, edits, remote>> /\ w \in Workers /\ DOMAIN job = Workers
      /\ DiskFits /\ disk["file"] # Absent
  BY DEF BeginCopy, handleVars, Handlers, Inv
<1>3. DOMAIN job' = Workers /\ job'[w] = j /\ \A v \in Workers \ {w} : job'[v] = job[v]
  BY <1>1, <1>2 DEF Starts
<1>4. disk["file"] \in FileNodes
  BY <1>2 DEF DiskFits
<1>5. HandlerFits(job'[w])
  BY <1>3, <1>4 DEF HandlerFits, CopyFits
<1>6. LinkHeld'
  BY <1>2, <1>3, LinkHeldKept
<1> QED  BY <1>2, <1>3, <1>5, <1>6, HandlerStep DEF DiskFits

\* A copy that goes on keeps its fields but the program counter.
LEMMA CopyMoves ==
  ASSUME Inv, NEW w \in Handlers, NEW pc, Moves(w, pc),
         job[w].op \in {"move_to", "rename"}, job[w].pc \in {"verify", "recheck", "link"}
  PROVE  /\ CopyFits(job[w])
         /\ DOMAIN job' = Workers /\ \A v \in Workers \ {w} : job'[v] = job[v]
         /\ {"op", "pc", "handle", "copy"} \subseteq DOMAIN job'[w]
         /\ job'[w].op = job[w].op /\ job'[w].pc = pc
         /\ job'[w].handle = job[w].handle /\ job'[w].copy = job[w].copy
<1> DEFINE j == job[w]
<1>1. CopyFits(j) /\ {"op", "pc", "handle", "copy"} \subseteq DOMAIN j
  BY DEF Inv, HandlerFits, CopyFits
<1>2. /\ DOMAIN job' = Workers /\ \A v \in Workers \ {w} : job'[v] = job[v]
      /\ DOMAIN job'[w] = DOMAIN j /\ job'[w].pc = pc
      /\ \A f \in DOMAIN j : f # "pc" => job'[w][f] = j[f]
  BY <1>1, JobMoves DEF Inv, Handlers
<1> QED  BY <1>1, <1>2

\* A copy that ends, and an unzip that ends.
LEMMA HandlerEnds ==
  ASSUME Inv, NEW w \in Handlers, Succeeds(w) \/ Fails(w),
         job[w].op \in {"move_to", "rename", "unzip"}
  PROVE  /\ DOMAIN job' = Workers /\ \A v \in Workers \ {w} : job'[v] = job[v]
         /\ HandlerFits(job'[w]) /\ job'[w].pc \in {"success", "failed"}
<1>1. /\ DOMAIN job' = Workers /\ \A v \in Workers \ {w} : job'[v] = job[v]
      /\ {"op", "pc"} \subseteq DOMAIN job'[w] /\ job'[w].op = job[w].op
      /\ job'[w].pc \in {"success", "failed"}
  BY JobOver DEF Inv, Handlers
<1> QED  BY <1>1 DEF HandlerFits, CopyFits, UnzipFits

LEMMA LinkTargetKeeps ==
  ASSUME NEW w \in Handlers
  PROVE  Inv /\ job[w].op \in {"move_to", "rename"} /\ LinkTarget(w) => Inv'
<1> SUFFICES ASSUME Inv, job[w].op \in {"move_to", "rename"}, LinkTarget(w) PROVE Inv'
  OBVIOUS
<1> DEFINE j == job[w]
           new == IF j.op = "move_to" THEN j.copy ELSE disk["file"]
<1>1. /\ j.pc = "link" /\ disk["target"] = Absent /\ UNCHANGED <<edits, remote, part>>
      /\ disk' = [disk EXCEPT !["target"] = new]
      /\ j.op = "move_to" \/ disk["file"] # Absent
      /\ IF j.op = "move_to" THEN Succeeds(w) ELSE Moves(w, "unlink")
  BY DEF LinkTarget, handleVars
<1>2. DiskFits /\ CopyFits(j)
  BY DEF Inv, HandlerFits
<1>3. new \in FileNodes
  BY <1>1, <1>2 DEF DiskFits, CopyFits
<1>4. /\ DOMAIN disk' = Names /\ disk'["target"] = new
      /\ \A n \in Names \ {"target"} : disk'[n] = disk[n]
  BY <1>1, <1>2, PlacesDiffer DEF DiskFits
<1>5. DiskFits' /\ \A n \in PackageNames \cup {"tree"} : disk'[n] = disk[n]
  BY <1>1, <1>2, <1>3, <1>4, PlacesDiffer DEF DiskFits
<1>6. /\ DOMAIN job' = Workers /\ \A v \in Workers \ {w} : job'[v] = job[v]
      /\ HandlerFits(job'[w])
  <2>1. CASE j.op = "move_to"
    BY <1>1, <2>1, HandlerEnds
  <2>2. CASE j.op # "move_to"
    <3>1. /\ DOMAIN job' = Workers /\ \A v \in Workers \ {w} : job'[v] = job[v]
          /\ {"op", "pc", "handle", "copy"} \subseteq DOMAIN job'[w]
          /\ job'[w].op = j.op /\ job'[w].pc = "unlink"
          /\ job'[w].handle = j.handle /\ job'[w].copy = j.copy
      BY <1>1, <2>2, CopyMoves
    <3> QED  BY <1>1, <1>2, <2>2, <3>1 DEF HandlerFits, CopyFits
  <2> QED  BY <2>1, <2>2
<1>7. \A v \in Handlers \ {w} : job'[v].pc # "unlink"
  BY <1>1, <1>6, NodeKinds DEF Inv, LinkHeld, Handlers
<1>8. LinkHeld'
  BY <1>3, <1>4, <1>7 DEF LinkHeld
<1> QED  BY <1>1, <1>5, <1>6, <1>8, HandlerStep

LEMMA CopyStepKeeps == ASSUME NEW w \in Handlers PROVE Inv /\ CopyStep(w) => Inv'
<1> SUFFICES ASSUME Inv, CopyStep(w) PROVE Inv'
  OBVIOUS
<1> DEFINE j == job[w]
<1>0. /\ j.op \in {"move_to", "rename"} /\ DiskFits /\ HandlerFits(j) /\ CopyFits(j)
      /\ w \in Workers /\ DOMAIN job = Workers
  BY DEF CopyStep, Inv, HandlerFits, Handlers
<1>1. CASE VerifyHandle(w)
  <2>1. /\ j.pc = "verify" /\ UNCHANGED <<disk, part, edits, remote>>
        /\ Moves(w, IF j.op = "move_to" THEN "copy" ELSE "link")
    BY <1>1 DEF VerifyHandle, handleVars
  <2>2. /\ DOMAIN job' = Workers /\ \A v \in Workers \ {w} : job'[v] = job[v]
        /\ {"op", "pc", "handle", "copy"} \subseteq DOMAIN job'[w]
        /\ job'[w].op = j.op /\ job'[w].pc = IF j.op = "move_to" THEN "copy" ELSE "link"
        /\ job'[w].handle = j.handle /\ job'[w].copy = j.copy
    BY <1>0, <2>1, CopyMoves
  <2>3. HandlerFits(job'[w])
    BY <1>0, <2>1, <2>2 DEF HandlerFits, CopyFits
  <2>4. LinkHeld'
    BY <2>1, <2>2, LinkHeldKept
  <2> QED  BY <1>0, <2>1, <2>2, <2>3, <2>4, HandlerStep DEF DiskFits
<1>2. CASE CopyFile(w)
  <2>1. /\ j.pc = "copy" /\ UNCHANGED <<disk, part, edits, remote>> /\ disk["file"] # Absent
        /\ job' = [job EXCEPT ![w].pc = "recheck", ![w].copy = disk["file"]]
    BY <1>2 DEF CopyFile, handleVars
  <2>2. {"op", "pc", "handle", "copy"} \subseteq DOMAIN j
    BY <1>0, <2>1 DEF HandlerFits, CopyFits
  <2>3. /\ DOMAIN job' = Workers /\ \A v \in Workers \ {w} : job'[v] = job[v]
        /\ job'[w] = [j EXCEPT !.pc = "recheck", !.copy = disk["file"]]
    BY <1>0, <2>1
  <2>4. /\ {"op", "pc", "handle", "copy"} \subseteq DOMAIN job'[w]
        /\ job'[w].op = j.op /\ job'[w].pc = "recheck"
        /\ job'[w].handle = j.handle /\ job'[w].copy = disk["file"]
    BY <2>2, <2>3
  <2>5. HandlerFits(job'[w])
    BY <1>0, <2>1, <2>4 DEF HandlerFits, CopyFits, DiskFits
  <2>6. LinkHeld'
    BY <2>1, <2>3, <2>4, LinkHeldKept
  <2> QED  BY <1>0, <2>1, <2>3, <2>5, <2>6, HandlerStep DEF DiskFits
<1>3. CASE RecheckCopy(w)
  <2>1. /\ j.pc = "recheck" /\ UNCHANGED <<disk, part, edits, remote>> /\ j.copy = j.handle
        /\ Moves(w, "link")
    BY <1>3 DEF RecheckCopy, handleVars
  <2>2. /\ DOMAIN job' = Workers /\ \A v \in Workers \ {w} : job'[v] = job[v]
        /\ {"op", "pc", "handle", "copy"} \subseteq DOMAIN job'[w]
        /\ job'[w].op = j.op /\ job'[w].pc = "link"
        /\ job'[w].handle = j.handle /\ job'[w].copy = j.copy
    BY <1>0, <2>1, CopyMoves
  <2>3. HandlerFits(job'[w])
    BY <1>0, <2>1, <2>2 DEF HandlerFits, CopyFits
  <2>4. LinkHeld'
    BY <2>1, <2>2, LinkHeldKept
  <2> QED  BY <1>0, <2>1, <2>2, <2>3, <2>4, HandlerStep DEF DiskFits
<1>4. CASE LinkTarget(w)
  BY <1>0, <1>4, LinkTargetKeeps
<1>5. CASE UnlinkSource(w)
  <2>1. j.pc = "unlink" /\ UNCHANGED <<part, edits, remote>> /\ (Succeeds(w) \/ Fails(w))
        /\ \E n \in {"file", "target"} : disk' = [disk EXCEPT ![n] = Absent]
    BY <1>5 DEF UnlinkSource, handleVars
  <2>2. PICK n \in {"file", "target"} : disk' = [disk EXCEPT ![n] = Absent]
    BY <2>1
  <2>3. DOMAIN disk' = Names /\ disk'[n] = Absent /\ \A m \in Names \ {n} : disk'[m] = disk[m]
    BY <1>0, <2>2, PlacesDiffer DEF DiskFits
  <2>4. DiskFits' /\ \A m \in PackageNames \cup {"tree"} : disk'[m] = disk[m]
    BY <1>0, <2>1, <2>3, PlacesDiffer DEF DiskFits
  <2>5. /\ DOMAIN job' = Workers /\ \A v \in Workers \ {w} : job'[v] = job[v]
        /\ HandlerFits(job'[w]) /\ job'[w].pc \in {"success", "failed"}
    BY <1>0, <2>1, HandlerEnds
  <2>6. LinkHeld'
    BY <2>1, <2>5 DEF Inv, LinkHeld, Handlers
  <2> QED  BY <2>1, <2>4, <2>5, <2>6, HandlerStep
<1>6. CASE CopyFails(w)
  <2>1. UNCHANGED <<disk, part, edits, remote>> /\ Fails(w)
    BY <1>6 DEF CopyFails, handleVars
  <2>2. /\ DOMAIN job' = Workers /\ \A v \in Workers \ {w} : job'[v] = job[v]
        /\ HandlerFits(job'[w]) /\ job'[w].pc \in {"success", "failed"}
    BY <1>0, <2>1, HandlerEnds
  <2>3. LinkHeld'
    BY <2>1, <2>2, LinkHeldKept
  <2> QED  BY <1>0, <2>1, <2>2, <2>3, HandlerStep DEF DiskFits
<1> QED
  BY <1>1, <1>2, <1>3, <1>4, <1>5, <1>6 DEF CopyStep

LEMMA CreateFileKeeps == ASSUME NEW w \in Handlers PROVE Inv /\ CreateFile(w) => Inv'
<1> SUFFICES ASSUME Inv, CreateFile(w) PROVE Inv'
  OBVIOUS
<1>1. /\ disk' = [disk EXCEPT !["file"] = Node("script", edits)] /\ edits' = edits + 1
      /\ UNCHANGED <<job, remote, part>> /\ DiskFits /\ DOMAIN job = Workers
  BY DEF CreateFile, Inv
<1>2. Node("script", edits) \in FileNodes
  BY <1>1 DEF DiskFits, FileNodes
<1>3. DOMAIN disk' = Names /\ \A n \in Names \ {"file"} : disk'[n] = disk[n]
  BY <1>1 DEF DiskFits
<1>4. DiskFits' /\ \A n \in PackageNames \cup {"tree", "target"} : disk'[n] = disk[n]
  BY <1>1, <1>2, <1>3, PlacesDiffer DEF DiskFits
<1>5. HandlerFits(job'[w]) /\ LinkHeld'
  BY <1>1, <1>4 DEF Inv, LinkHeld
<1> QED  BY <1>1, <1>4, <1>5, HandlerStep

-----------------------------------------------------------------------------
LEMMA VerdictTrees == \A v \in Verdicts : v.tree \in ArchiveNodes
<1>1. \A a : Unpacked(a) \in ArchiveNodes
  BY Zenon DEF Unpacked, ArchiveNodes
<1> QED  BY <1>1 DEF Verdicts

LEMMA BeginUnzipKeeps == ASSUME NEW w \in Handlers PROVE Inv /\ BeginUnzip(w) => Inv'
<1> SUFFICES ASSUME Inv, BeginUnzip(w) PROVE Inv'
  OBVIOUS
<1> DEFINE j == [op |-> "unzip", pc |-> "check", tree |-> Absent, existed |-> FALSE]
<1>1. /\ UNCHANGED <<disk, part, edits, remote>> /\ w \in Workers /\ DOMAIN job = Workers
      /\ DiskFits /\ job' = [job EXCEPT ![w] = j]
  BY DEF BeginUnzip, handleVars, Handlers, Inv, Starts
<1>2. DOMAIN job' = Workers /\ job'[w] = j /\ \A v \in Workers \ {w} : job'[v] = job[v]
  BY <1>1
<1>3. HandlerFits(job'[w])
  BY <1>2 DEF HandlerFits, UnzipFits
<1>4. LinkHeld'
  BY <1>1, <1>2, LinkHeldKept
<1> QED  BY <1>1, <1>2, <1>3, <1>4, HandlerStep DEF DiskFits

\* What the steps of an unzip do to its job, and to its destination.
UnzipJob(w) ==
    /\ DOMAIN job' = Workers /\ \A v \in Workers \ {w} : job'[v] = job[v]
    /\ UnzipFits(job'[w]) /\ {"op", "pc"} \subseteq DOMAIN job'[w]
    /\ job'[w].op = "unzip" /\ job'[w].pc # "unlink"

LEMMA UnzipKeeps ==
  ASSUME Inv, NEW w \in Handlers, UnzipJob(w), UNCHANGED <<edits, remote, part>>,
         NEW out, out \in ArchiveNodes \cup UserNodes \cup {Absent, EmptyDirectory},
         DOMAIN disk' = Names, disk'["out"] = out,
         \A n \in Names \ {"out"} : disk'[n] = disk[n]
  PROVE  Inv'
<1>1. DiskFits' /\ \A n \in PackageNames \cup {"tree", "target"} : disk'[n] = disk[n]
  BY PlacesDiffer DEF Inv, DiskFits
<1>2. HandlerFits(job'[w])
  BY DEF UnzipJob, HandlerFits
<1>3. LinkHeld'
  BY <1>1, LinkHeldKept DEF UnzipJob
<1> QED  BY <1>1, <1>2, <1>3, HandlerStep DEF UnzipJob

LEMMA UnzipMoves ==
  ASSUME Inv, NEW w \in Handlers, job[w].op = "unzip", job[w].pc \in {"publish", "rmdir"},
         NEW pc \in {"rmdir", "rename"}, NEW existed,
         job' = [job EXCEPT ![w].pc = pc, ![w].existed = existed]
  PROVE  UnzipJob(w) /\ job'[w].pc = pc /\ job'[w].tree = job[w].tree
<1> DEFINE j == job[w]
           k == job'[w]
<1>1. /\ UnzipFits(j) /\ {"op", "pc"} \subseteq DOMAIN j /\ w \in Workers /\ DOMAIN job = Workers
      /\ j.op = "unzip"
  BY DEF Inv, HandlerFits, Handlers
<1>2. {"op", "pc", "tree", "existed"} \subseteq DOMAIN j /\ j.tree \in ArchiveNodes
  BY <1>1 DEF UnzipFits
<1>3. /\ DOMAIN job' = Workers /\ \A v \in Workers \ {w} : job'[v] = job[v]
      /\ k = [j EXCEPT !.pc = pc, !.existed = existed]
  BY <1>1
<1>4. DOMAIN k = DOMAIN j /\ k.pc = pc /\ k.op = "unzip" /\ k.tree = j.tree
  <2> HIDE DEF j, k
  <2> QED  BY <1>1, <1>2, <1>3
<1> QED  BY <1>2, <1>3, <1>4 DEF UnzipJob, UnzipFits

LEMMA UnzipStepKeeps == ASSUME NEW w \in Handlers PROVE Inv /\ UnzipStep(w) => Inv'
<1> SUFFICES ASSUME Inv, UnzipStep(w) PROVE Inv'
  OBVIOUS
<1> DEFINE j == job[w]
<1>0. /\ j.op = "unzip" /\ DiskFits /\ HandlerFits(j) /\ UnzipFits(j)
      /\ w \in Workers /\ DOMAIN job = Workers
      /\ disk["out"] \in ArchiveNodes \cup UserNodes \cup {Absent, EmptyDirectory}
  BY DEF UnzipStep, Inv, HandlerFits, Handlers, DiskFits
<1>1. disk' = disk => /\ DOMAIN disk' = Names /\ disk'["out"] = disk["out"]
                      /\ \A n \in Names \ {"out"} : disk'[n] = disk[n]
  BY <1>0 DEF DiskFits
<1>2. ASSUME NEW out, disk' = [disk EXCEPT !["out"] = out]
      PROVE  /\ DOMAIN disk' = Names /\ disk'["out"] = out
             /\ \A n \in Names \ {"out"} : disk'[n] = disk[n]
  BY <1>0, <1>2, PlacesDiffer DEF DiskFits
<1>3. Succeeds(w) \/ Fails(w) => UnzipJob(w)
  <2>1. Succeeds(w) \/ Fails(w) =>
          /\ DOMAIN job' = Workers /\ \A v \in Workers \ {w} : job'[v] = job[v]
          /\ {"op", "pc"} \subseteq DOMAIN job'[w] /\ job'[w].op = job[w].op
          /\ job'[w].pc \in {"success", "failed"}
    BY <1>0, JobOver
  <2> QED  BY <1>0, <2>1 DEF UnzipJob, UnzipFits
<1>4. CASE ExpandArchive(w)
  <2>1. UNCHANGED <<disk, edits, remote, part>> /\ j.pc = "check"
    BY <1>4 DEF ExpandArchive, handleVars
  <2>2. PICK v \in Verdicts :
          job' = [job EXCEPT ![w].pc = IF v.accepted THEN "publish" ELSE "refused",
                             ![w].tree = v.tree]
    BY <1>4 DEF ExpandArchive
  <2>3. {"op", "pc", "tree", "existed"} \subseteq DOMAIN j
    BY <1>0, <2>1 DEF UnzipFits, HandlerFits
  <2>4. PICK pc \in {"publish", "refused"} : job' = [job EXCEPT ![w].pc = pc, ![w].tree = v.tree]
    BY <2>2
  <2>5. /\ DOMAIN job' = Workers /\ \A u \in Workers \ {w} : job'[u] = job[u]
        /\ job'[w] = [j EXCEPT !.pc = pc, !.tree = v.tree]
    BY <1>0, <2>4
  <2>6. /\ {"op", "pc", "tree", "existed"} \subseteq DOMAIN job'[w]
        /\ job'[w].op = "unzip" /\ job'[w].pc = pc /\ job'[w].tree = v.tree
    BY <1>0, <2>3, <2>5
  <2>7. UnzipJob(w)
    BY <2>5, <2>6, VerdictTrees DEF UnzipJob, UnzipFits
  <2> QED  BY <1>0, <1>1, <2>1, <2>7, UnzipKeeps
<1>5. CASE MakeWay(w)
  <2>1. UNCHANGED <<disk, edits, remote, part>> /\ j.pc = "publish"
    BY <1>5 DEF MakeWay, handleVars
  <2>2. \E pc \in {"rmdir", "rename"} : \E existed :
          job' = [job EXCEPT ![w].pc = pc, ![w].existed = existed]
    BY <1>5 DEF MakeWay
  <2>3. UnzipJob(w)
    BY <1>0, <2>1, <2>2, UnzipMoves
  <2> QED  BY <1>0, <1>1, <2>1, <2>3, UnzipKeeps
<1>6. CASE RemoveEmpty(w)
  <2>1. /\ UNCHANGED <<edits, remote, part>> /\ j.pc = "rmdir" /\ Moves(w, "rename")
        /\ disk' = [disk EXCEPT !["out"] = Absent]
    BY <1>6 DEF RemoveEmpty, handleVars
  <2>2. job' = [job EXCEPT ![w].pc = "rename", ![w].existed = j.existed]
    BY <2>1 DEF Moves
  <2>3. UnzipJob(w)
    BY <1>0, <2>1, <2>2, UnzipMoves
  <2> QED  BY <1>0, <1>2, <2>1, <2>3, UnzipKeeps
<1>7. CASE PlaceArchive(w)
  <2>1. /\ UNCHANGED <<edits, remote, part>> /\ j.pc = "rename" /\ Succeeds(w)
        /\ disk' = [disk EXCEPT !["out"] = j.tree]
    BY <1>7 DEF PlaceArchive, handleVars
  <2>2. j.tree \in ArchiveNodes
    BY <1>0, <2>1 DEF UnzipFits
  <2> QED  BY <1>0, <1>2, <1>3, <2>1, <2>2, UnzipKeeps
<1>8. CASE UnzipFails(w)
  <2>1. UNCHANGED <<edits, remote, part>> /\ Fails(w)
    BY <1>8 DEF UnzipFails, handleVars
  <2>2. PICK out \in {EmptyDirectory, disk["out"]} : disk' = [disk EXCEPT !["out"] = out]
    BY <1>8 DEF UnzipFails
  <2> QED  BY <1>0, <1>2, <1>3, <2>1, <2>2, UnzipKeeps
<1> QED
  BY <1>4, <1>5, <1>6, <1>7, <1>8 DEF UnzipStep

-----------------------------------------------------------------------------
LEMMA NextInv == Inv /\ [Next]_filesVars => Inv'
<1> SUFFICES ASSUME Inv, [Next]_filesVars PROVE Inv'
  OBVIOUS
<1>1. CASE UNCHANGED filesVars
  BY <1>1, PackagerKept DEF filesVars, Inv, DiskFits, ServerFits, LinkHeld
<1>2. CASE Next
  <2>1. CASE ServerChanges \/ SomebodyWrites
    BY <2>1, ServerChangesKeeps, SomebodyWritesKeeps
  <2>2. CASE BeginDownload(Packager) \/ DownloadStep(Packager)
    BY <2>2, BeginDownloadKeeps, DownloadStepKeeps
  <2>3. CASE BeginExtract(Packager) \/ ExtractStep(Packager)
    BY <2>3, BeginExtractKeeps, ExtractStepKeeps
  <2>4. ASSUME NEW w \in Handlers,
               BeginCopy(w) \/ CopyStep(w) \/ CreateFile(w) \/ BeginUnzip(w) \/ UnzipStep(w)
        PROVE  Inv'
    BY <2>4, BeginCopyKeeps, CopyStepKeeps, CreateFileKeeps, BeginUnzipKeeps, UnzipStepKeeps
  <2> QED  BY <1>2, <2>1, <2>2, <2>3, <2>4 DEF Next
<1> QED  BY <1>1, <1>2

LEMMA SpecInv == Spec => []Inv
BY InitInv, NextInv, PTL DEF Spec

\* The old tree is never lost while, and after, a directory is replaced.
THEOREM OldTreeKeptTheorem == Spec => []OldTreeKept
<1>1. Inv => OldTreeKept
  BY DEF Inv, PackagerFits, ExtractFits, OldTreeKept
<1> QED  BY <1>1, SpecInv, PTL

-----------------------------------------------------------------------------
\* What a download knows of the build it listed: as long as the server has not
\* changed since, it is the one build of that name there, and what came.
Selected(j) ==
    /\ j.pc \in {"clear", "fetch", "check", "publish", "success"} => j.since \in Nat /\ j.since <= edits
    /\ j.pc \in {"clear", "fetch"} /\ edits = j.since => j.build \in Listed(j.place)
    /\ j.pc \in {"check", "publish"} =>
          \E c \in Builds :
              /\ NameOf[c] = NameOf[j.build] /\ (edits = j.since => c = j.build)
              /\ part[NameOf[j.build]] \in {Node("build", c), Truncated(Node("build", c))}
    /\ j.pc = "publish" => SizeFits(part[NameOf[j.build]], j.build)
    /\ j.pc = "success" => /\ Delivered(disk[NameOf[j.build]], j.build)
                           /\ edits = j.since => disk[NameOf[j.build]] = Node("build", j.build)

\* Every package was listed, in a directory that lists no name twice.
ListedInv ==
    /\ \A p \in Places : DistinctNames(Listed(p))
    /\ \A n \in PackageNames : disk[n] # Absent =>
          \E b \in Builds : NameOf[b] = n /\ Delivered(disk[n], b)
    /\ job[Packager].op = "download" => Selected(job[Packager])

\* What comes and has the length listed is delivered; and a piece of the build
\* that was listed has not that length.
LEMMA SizeDecides ==
  ASSUME NEW b \in Builds, NEW c \in Builds, NameOf[c] = NameOf[b],
         NEW file \in {Node("build", c), Truncated(Node("build", c))}, SizeFits(file, b)
  PROVE  Delivered(file, b) /\ (c = b => file = Node("build", b))
<1>1. Delivered(file, b)
  BY DEF Delivered
<1>2. ASSUME c = b, file = Truncated(Node("build", b)) PROVE FALSE
  <2>1. file.holds[2] = b /\ file.whole = FALSE
    BY <1>2 DEF Node, Truncated
  <2>2. SizeOf[b] > SizeOf[b] /\ SizeOf[b] \in Nat
    BY <2>1, DownloadAssumption DEF SizeFits
  <2> QED  BY <2>2
<1> QED  BY <1>1, <1>2

LEMMA InitListed == Init => ListedInv
<1> SUFFICES ASSUME Init PROVE ListedInv
  OBVIOUS
<1>1. \A n \in PackageNames : disk[n] = Absent
  BY PlacesDiffer DEF Init
<1>2. \A p \in Places : DistinctNames(Listed(p))
  BY DEF Init, DownloadInit, Listed, DistinctNames
<1>3. job[Packager].op = "none"
  BY PackagerAssumption DEF Init, NoJob
<1> QED  BY <1>1, <1>2, <1>3 DEF ListedInv

\* Of the packages, a step leaves all but at most one.
LEMMA ListedStep ==
  ASSUME Inv, ListedInv, UNCHANGED <<edits, remote>>,
         \A n \in PackageNames : disk'[n] # Absent /\ disk'[n] # disk[n] =>
            \E b \in Builds : NameOf[b] = n /\ Delivered(disk'[n], b),
         job'[Packager].op = "download" => Selected(job[Packager])'
  PROVE  ListedInv'
<1>1. \A p \in Places : DistinctNames(Listed(p))'
  BY DEF ListedInv, Listed, DistinctNames
<1>2. \A n \in PackageNames : disk'[n] # Absent =>
        \E b \in Builds : NameOf[b] = n /\ Delivered(disk'[n], b)
  <2> TAKE n \in PackageNames
  <2>1. disk[n] # Absent => \E b \in Builds : NameOf[b] = n /\ Delivered(disk[n], b)
    BY DEF ListedInv
  <2> QED  BY <2>1
<1> QED  BY <1>1, <1>2 DEF ListedInv, Delivered

\* The steps of the server and of the others.
LEMMA ListedKept ==
  ASSUME Inv, ListedInv, job'[Packager] = job[Packager], part' = part,
         \A n \in PackageNames : disk'[n] = disk[n],
         (edits' = edits /\ remote' = remote) \/ edits' = edits + 1,
         \A p \in Places : DistinctNames(Listed(p))'
  PROVE  ListedInv'
<1> DEFINE j == job[Packager]
<1>1. \A n \in PackageNames : disk'[n] # Absent =>
        \E b \in Builds : NameOf[b] = n /\ Delivered(disk'[n], b)
  BY DEF ListedInv
<1>2. ASSUME j.op = "download" PROVE Selected(job[Packager])'
  <2>1. DownloadFits(j) /\ Selected(j) /\ edits \in Nat
    BY <1>2 DEF Inv, PackagerFits, DiskFits, ListedInv
  <2>2. j.pc \in {"check", "publish", "success"} => NameOf[j.build] \in PackageNames
    BY <2>1, DownloadAssumption DEF DownloadFits
  <2>3. CASE edits' = edits /\ remote' = remote
    BY <2>1, <2>2, <2>3 DEF Selected, Listed, Delivered, SizeFits
  <2>4. CASE edits' = edits + 1
    <3>1. j.pc \in {"clear", "fetch", "check", "publish", "success"} =>
            j.since \in Nat /\ j.since <= edits' /\ edits' # j.since
      BY <2>1, <2>4 DEF Selected
    <3> QED  BY <2>1, <2>2, <3>1 DEF Selected, Delivered, SizeFits
  <2> QED  BY <2>3, <2>4
<1> QED  BY <1>1, <1>2 DEF ListedInv, Delivered

LEMMA ServerListed == Inv /\ ListedInv /\ ServerChanges => ListedInv'
<1> SUFFICES ASSUME Inv, ListedInv, ServerChanges PROVE ListedInv'
  OBVIOUS
<1>1. UNCHANGED <<disk, part, job>> /\ edits' = edits + 1
  BY DEF ServerChanges
<1>2. PICK p \in Places, new \in {s \in SUBSET Builds : DistinctNames(s)} \cup {Gone} :
        remote' = [remote EXCEPT ![p] = new]
  BY DEF ServerChanges
<1>3. ASSUME NEW q \in Places PROVE DistinctNames(Listed(q))'
  <2>1. CASE q = p /\ new # Gone
    <3>1. remote'[q] = new /\ DistinctNames(new)
      BY <1>2, <2>1 DEF Inv, ServerFits
    <3> QED  BY <2>1, <3>1 DEF Listed, DistinctNames
  <2>2. CASE q = p /\ new = Gone
    <3>1. remote'[q] = Gone
      BY <1>2, <2>2 DEF Inv, ServerFits
    <3> QED  BY <3>1 DEF Listed, DistinctNames
  <2>3. CASE q # p
    <3>1. remote'[q] = remote[q] /\ DistinctNames(Listed(q))
      BY <1>2, <2>3 DEF Inv, ServerFits, ListedInv
    <3> QED  BY <3>1 DEF Listed, DistinctNames
  <2> QED  BY <2>1, <2>2, <2>3
<1> QED  BY <1>1, <1>3, ListedKept

LEMMA TryCandidateListed ==
  Inv /\ ListedInv /\ job[Packager].op = "download" /\ TryCandidate(Packager) => ListedInv'
<1> SUFFICES ASSUME Inv, ListedInv, job[Packager].op = "download", TryCandidate(Packager)
             PROVE  ListedInv'
  OBVIOUS
<1> DEFINE j == job[Packager]
           p == Latest(j.candidates)
           k == job'[Packager]
<1>1. /\ UNCHANGED <<disk, part, edits, remote>> /\ DownloadFits(j) /\ edits \in Nat
      /\ j.pc = "lookup" /\ {"op", "pc"} \subseteq DOMAIN j
  BY DEF TryCandidate, downloadVars, Inv, PackagerFits, DiskFits
<1>2. /\ Listed(p) = {} => k = [j EXCEPT !.candidates = @ \ {p}]
      /\ Listed(p) # {} => k = [op |-> "download", pc |-> "clear", place |-> p,
                               build |-> Latest(Listed(p)), since |-> edits]
  <2>1. CASE Listed(p) = {}
    <3>1. job' = [job EXCEPT ![Packager].candidates = @ \ {p}]
      BY <2>1 DEF TryCandidate
    <3> QED  BY <2>1, <3>1, PackagerAssumption DEF Inv
  <2>2. CASE Listed(p) # {}
    BY <2>2, PackagerAssumption DEF Inv, TryCandidate, Starts
  <2> QED  BY <2>1, <2>2
<1>3. Listed(p) # {} => Latest(Listed(p)) \in Listed(p)
  <2>1. p \in Places
    BY <1>1, LatestIsListed DEF TryCandidate, DownloadFits
  <2>2. Listed(p) \subseteq Builds
    BY <2>1 DEF Inv, ServerFits, Listed
  <2> QED  BY <2>2, LatestIsListed
<1>4. Selected(job[Packager])'
  <2>1. CASE Listed(p) = {}
    <3>1. k.pc = "lookup"
      BY <1>1, <1>2, <2>1
    <3> QED  BY <3>1 DEF Selected
  <2>2. CASE Listed(p) # {}
    <3>1. /\ k.pc = "clear" /\ k.place = p /\ k.build = Latest(Listed(p)) /\ k.since = edits
      BY <1>2, <2>2
    <3> QED  BY <1>1, <1>3, <2>2, <3>1 DEF Selected, Listed
  <2> QED  BY <2>1, <2>2
<1> QED  BY <1>1, <1>4, ListedStep

LEMMA DownloadListed == Inv /\ ListedInv /\ DownloadStep(Packager) => ListedInv'
<1> SUFFICES ASSUME Inv, ListedInv, DownloadStep(Packager) PROVE ListedInv'
  OBVIOUS
<1> DEFINE j == job[Packager]
           k == job'[Packager]
           here == Local(Packager)
<1>0. /\ j.op = "download" /\ DiskFits /\ DownloadFits(j) /\ Selected(j) /\ edits \in Nat
      /\ ServerFits /\ \A p \in Places : DistinctNames(Listed(p))
  BY DEF Inv, DownloadStep, PackagerFits, DiskFits, ListedInv
<1>1. CASE TryCandidate(Packager)
  BY <1>0, <1>1, TryCandidateListed
<1>2. CASE LookupFails(Packager) \/ DownloadFails(Packager)
  <2>1. Fails(Packager) /\ UNCHANGED <<disk, edits, remote>>
    BY <1>2 DEF LookupFails, DownloadFails, downloadVars
  <2>2. k.pc = "failed"
    BY <2>1, PackagerAssumption DEF Fails, Inv
  <2> QED  BY <2>1, <2>2, ListedStep DEF Selected
<1>3. CASE ClearPart(Packager)
  <2>1. Moves(Packager, "fetch") /\ UNCHANGED <<disk, edits, remote>> /\ j.pc = "clear"
    BY <1>3 DEF ClearPart
  <2>2. k.pc = "fetch" /\ k.build = j.build /\ k.place = j.place /\ k.since = j.since
    BY <1>0, <2>1, DownloadMoves
  <2>3. Selected(job[Packager])'
    BY <1>0, <2>1, <2>2 DEF Selected, Listed
  <2> QED  BY <2>1, <2>3, ListedStep
<1>4. CASE Fetch(Packager)
  <2>1. Moves(Packager, "check") /\ UNCHANGED <<disk, edits, remote>> /\ j.pc = "fetch"
    BY <1>4 DEF Fetch
  <2>2. /\ k.pc = "check" /\ k.build = j.build /\ k.place = j.place /\ k.since = j.since
        /\ here \in PackageNames /\ j.place \in Places
    BY <1>0, <2>1, DownloadMoves
  <2>3. PICK b \in Listed(j.place) :
          /\ NameOf[b] = here
          /\ \E body \in {Node("build", b), Truncated(Node("build", b))} :
                part' = [part EXCEPT ![here] = body]
    BY <1>4 DEF Fetch
  <2>4. b \in Builds /\ part'[here] \in {Node("build", b), Truncated(Node("build", b))}
    BY <1>0, <2>2, <2>3, PlacesDiffer DEF ServerFits, Listed, DiskFits
  <2>5. edits = j.since => b = j.build
    BY <1>0, <2>1, <2>2, <2>3 DEF Selected, DistinctNames, Local
  <2>6. Selected(job[Packager])'
    BY <1>0, <2>1, <2>2, <2>3, <2>4, <2>5 DEF Selected, Local
  <2> QED  BY <2>1, <2>6, ListedStep
<1>5. CASE CheckSize(Packager)
  <2>1. /\ Moves(Packager, "publish") /\ UNCHANGED <<disk, part, edits, remote>> /\ j.pc = "check"
        /\ SizeFits(part[NameOf[j.build]], j.build)
    BY <1>5 DEF CheckSize, downloadVars, Local
  <2>2. k.pc = "publish" /\ k.build = j.build /\ k.since = j.since
    BY <1>0, <2>1, DownloadMoves
  <2>3. Selected(job[Packager])'
    BY <1>0, <2>1, <2>2 DEF Selected, SizeFits
  <2> QED  BY <2>1, <2>3, ListedStep
<1>6. CASE PublishPackage(Packager)
  <2> DEFINE file == part[here]
  <2>1. /\ disk' = [disk EXCEPT ![here] = file] /\ UNCHANGED <<edits, remote>> /\ j.pc = "publish"
        /\ job' = [job EXCEPT ![Packager] =
                     [op |-> j.op, pc |-> "success", build |-> j.build, since |-> j.since]]
    BY <1>6 DEF PublishPackage
  <2>2. k.pc = "success" /\ k.build = j.build /\ k.since = j.since
    BY <2>1, PackagerAssumption DEF Inv
  <2>3. j.build \in Builds /\ here \in PackageNames /\ here = NameOf[j.build]
    BY <1>0, <2>1, DownloadAssumption DEF DownloadFits, Local
  <2>4. /\ disk'[here] = file /\ \A n \in PackageNames \ {here} : disk'[n] = disk[n]
    BY <1>0, <2>1, <2>3, PlacesDiffer DEF DiskFits
  <2>5. Delivered(file, j.build) /\ (edits = j.since => file = Node("build", j.build))
    <3>1. PICK c \in Builds : /\ NameOf[c] = NameOf[j.build] /\ (edits = j.since => c = j.build)
                              /\ file \in {Node("build", c), Truncated(Node("build", c))}
      BY <1>0, <2>1, <2>3 DEF Selected
    <3>2. SizeFits(file, j.build)
      BY <1>0, <2>1, <2>3 DEF Selected
    <3> QED  BY <2>3, <3>1, <3>2, SizeDecides
  <2>6. Selected(job[Packager])'
    <3>1. /\ k.since \in Nat /\ k.since <= edits' /\ disk'[NameOf[k.build]] = file
          /\ edits' = edits
      BY <1>0, <2>1, <2>2, <2>3, <2>4 DEF Selected
    <3>2. Delivered(disk'[NameOf[k.build]], k.build)
          /\ (edits' = k.since => disk'[NameOf[k.build]] = Node("build", k.build))
      BY <2>2, <2>5, <3>1
    <3> QED  BY <2>2, <3>1, <3>2 DEF Selected, Delivered, SizeFits
  <2> QED  BY <2>1, <2>3, <2>4, <2>5, <2>6, ListedStep
<1> QED
  BY <1>1, <1>2, <1>3, <1>4, <1>5, <1>6 DEF DownloadStep

\* A step of an extraction, or the first one of a download, places no package.
LEMMA PackagerListed ==
  ASSUME Inv, ListedInv,
         BeginDownload(Packager) \/ BeginExtract(Packager) \/ ExtractStep(Packager)
  PROVE  ListedInv'
<1>1. DOMAIN job = Workers /\ DOMAIN disk = Names
      /\ \A n \in PackageNames : n \in Names /\ n \notin {"file", "tree"}
  BY PlacesDiffer DEF Inv, DiskFits
<1>2. CASE BeginDownload(Packager)
  <2>1. job'[Packager].pc = "lookup" /\ UNCHANGED <<disk, edits, remote>>
    BY <1>1, <1>2, PackagerAssumption DEF BeginDownload, Starts, downloadVars
  <2> QED  BY <2>1, ListedStep DEF Selected
<1>3. CASE BeginExtract(Packager)
  <2>1. job'[Packager].op = "extract" /\ UNCHANGED <<disk, edits, remote>>
    BY <1>1, <1>3, PackagerAssumption DEF BeginExtract, Starts, extractVars
  <2> QED  BY <2>1, ListedStep
<1>4. CASE ExtractStep(Packager)
  <2>0. job[Packager].op = "extract" /\ {"op", "pc", "backup"} \subseteq DOMAIN job[Packager]
    BY <1>4 DEF ExtractStep, Inv, PackagerFits, ExtractFits
  <2>1. job'[Packager].op = "extract"
    BY <1>1, <1>4, <2>0, PackagerAssumption
       DEF ExtractStep, ExpandPackage, ExtractFails, CopyPending, ReplaceFile, MoveOldTree,
           PlaceNewTree, RestoreOldTree, DropOldTree, Moves, Starts
  <2>2. \A n \in PackageNames : disk'[n] = disk[n]
    BY <1>1, <1>4
       DEF ExtractStep, ExpandPackage, ExtractFails, CopyPending, ReplaceFile, MoveOldTree,
           PlaceNewTree, RestoreOldTree, DropOldTree, extractVars
  <2>3. UNCHANGED <<edits, remote>>
    BY <1>4
       DEF ExtractStep, ExpandPackage, ExtractFails, CopyPending, ReplaceFile, MoveOldTree,
           PlaceNewTree, RestoreOldTree, DropOldTree, extractVars
  <2> QED  BY <2>1, <2>2, <2>3, ListedStep
<1> QED  BY <1>2, <1>3, <1>4

\* Neither does somebody else, nor a script that uses a handle.
LEMMA OthersListed ==
  ASSUME Inv, ListedInv,
         \/ SomebodyWrites
         \/ \E w \in Handlers : \/ BeginCopy(w) \/ CopyStep(w) \/ CreateFile(w)
                                \/ BeginUnzip(w) \/ UnzipStep(w)
  PROVE  ListedInv'
<1>1. DOMAIN job = Workers /\ DOMAIN disk = Names
      /\ \A n \in PackageNames : n \in Names /\ n \notin {"file", "out", "target"}
      /\ \A p \in Places : DistinctNames(Listed(p))
  BY PlacesDiffer DEF Inv, DiskFits, ListedInv
<1>2. /\ job'[Packager] = job[Packager] /\ UNCHANGED <<part, remote>>
      /\ \A n \in PackageNames : disk'[n] = disk[n]
      /\ edits' = edits \/ edits' = edits + 1
  <2>1. CASE SomebodyWrites
    BY <1>1, <2>1 DEF SomebodyWrites
  <2>2. ASSUME NEW w \in Handlers,
               BeginCopy(w) \/ CopyStep(w) \/ CreateFile(w) \/ BeginUnzip(w) \/ UnzipStep(w)
        PROVE  /\ job'[Packager] = job[Packager] /\ UNCHANGED <<part, remote>>
               /\ \A n \in PackageNames : disk'[n] = disk[n]
               /\ edits' = edits \/ edits' = edits + 1
    <3>1. w \in Workers /\ w # Packager
      BY <2>2 DEF Handlers
    <3>2. /\ UNCHANGED <<part, remote>> /\ (edits' = edits \/ edits' = edits + 1)
          /\ \A n \in PackageNames : disk'[n] = disk[n]
      <4>1. CASE BeginCopy(w) \/ CreateFile(w) \/ BeginUnzip(w)
        BY <1>1, <4>1 DEF BeginCopy, CreateFile, BeginUnzip, handleVars
      <4>2. CASE CopyStep(w)
        BY <1>1, <4>2
           DEF CopyStep, VerifyHandle, CopyFile, RecheckCopy, LinkTarget, UnlinkSource, CopyFails,
               handleVars
      <4>3. CASE UnzipStep(w)
        BY <1>1, <4>3
           DEF UnzipStep, ExpandArchive, MakeWay, RemoveEmpty, PlaceArchive, UnzipFails, handleVars
      <4> QED  BY <2>2, <4>1, <4>2, <4>3
    <3>3. job'[Packager] = job[Packager]
      <4>1. CASE BeginCopy(w) \/ CreateFile(w) \/ BeginUnzip(w)
        BY <1>1, <3>1, <4>1, PackagerAssumption DEF BeginCopy, CreateFile, BeginUnzip, Starts
      <4>2. CASE CopyStep(w)
        BY <1>1, <3>1, <4>2, PackagerAssumption
           DEF CopyStep, VerifyHandle, CopyFile, RecheckCopy, LinkTarget, UnlinkSource, CopyFails,
               Moves, Succeeds, Fails
      <4>3. CASE UnzipStep(w)
        BY <1>1, <3>1, <4>3, PackagerAssumption
           DEF UnzipStep, ExpandArchive, MakeWay, RemoveEmpty, PlaceArchive, UnzipFails,
               Moves, Succeeds, Fails
      <4> QED  BY <2>2, <4>1, <4>2, <4>3
    <3> QED  BY <3>2, <3>3
  <2> QED  BY <2>1, <2>2
<1>3. \A p \in Places : DistinctNames(Listed(p))'
  <2>1. remote' = remote
    BY <1>2
  <2> QED  BY <2>1 DEF ListedInv, Listed, DistinctNames
<1> QED  BY <1>1, <1>2, <1>3, ListedKept

LEMMA NextListed == Inv /\ ListedInv /\ [Next]_filesVars => ListedInv'
<1> SUFFICES ASSUME Inv, ListedInv, [Next]_filesVars PROVE ListedInv'
  OBVIOUS
<1>1. CASE UNCHANGED filesVars
  <2>1. UNCHANGED <<disk, part, job, edits, remote>>
    BY <1>1 DEF filesVars
  <2>2. \A p \in Places : DistinctNames(Listed(p))'
    BY <2>1 DEF ListedInv, Listed, DistinctNames
  <2> QED  BY <2>1, <2>2, ListedKept
<1>2. CASE Next
  BY <1>2, ServerListed, DownloadListed, PackagerListed, OthersListed DEF Next
<1> QED  BY <1>1, <1>2

\* A package in place has the name and the length of one that was listed, and is
\* that very one unless the server changed meanwhile; the files and trees taken
\* out of packages are whole.
THEOREM PackagesAsListedTheorem == Spec => []PackagesAsListed
<1>1. Inv /\ ListedInv => PackagesAsListed
  <2> SUFFICES ASSUME Inv, ListedInv PROVE PackagesAsListed
    OBVIOUS
  <2>1. \A n \in {"file", "tree"} : disk[n] = Absent \/ disk[n].whole
    BY NodeKinds DEF Inv, DiskFits
  <2> QED  BY <2>1 DEF PackagesAsListed, ListedInv, Selected
<1>2. Spec => []ListedInv
  BY InitListed, NextListed, SpecInv, PTL DEF Spec
<1> QED  BY <1>1, <1>2, SpecInv, PTL

-----------------------------------------------------------------------------
Destinations == {"target", "out"}

\* What a step of the run that owns package_dir leaves alone.
LEMMA PackagerLeaves ==
  ASSUME Inv, \/ BeginDownload(Packager) \/ DownloadStep(Packager)
              \/ BeginExtract(Packager) \/ ExtractStep(Packager)
  PROVE  /\ \A v \in Handlers : job'[v] = job[v]
         /\ \A n \in Destinations : disk'[n] = disk[n]
<1>1. /\ DOMAIN job = Workers /\ DOMAIN disk = Names
      /\ \A v \in Handlers : v \in Workers /\ v # Packager
      /\ \A n \in Destinations : n \in Names /\ n \notin PackageNames \cup {"file", "tree"}
  BY PlacesDiffer DEF Inv, DiskFits, Handlers, Destinations
<1>2. CASE BeginDownload(Packager)
  BY <1>1, <1>2 DEF BeginDownload, Starts
<1>3. CASE DownloadStep(Packager)
  <2>1. CASE TryCandidate(Packager) \/ LookupFails(Packager) \/ ClearPart(Packager)
    BY <1>1, <2>1 DEF TryCandidate, LookupFails, ClearPart, Fails, Moves, Starts
  <2>2. CASE Fetch(Packager) \/ CheckSize(Packager) \/ DownloadFails(Packager)
    BY <1>1, <2>2 DEF Fetch, CheckSize, DownloadFails, Fails, Moves
  <2>3. CASE PublishPackage(Packager)
    <3>1. Local(Packager) \in PackageNames
      BY <1>3, <2>3, DownloadAssumption
         DEF Inv, PackagerFits, DownloadFits, PublishPackage, Local, DownloadStep
    <3> QED  BY <1>1, <2>3, <3>1 DEF PublishPackage
  <2> QED  BY <1>3, <2>1, <2>2, <2>3 DEF DownloadStep
<1>4. CASE BeginExtract(Packager)
  BY <1>1, <1>4 DEF BeginExtract, extractVars, Starts
<1>5. CASE ExtractStep(Packager)
  <2>1. CASE ExpandPackage(Packager) \/ ExtractFails(Packager) \/ CopyPending(Packager)
             \/ DropOldTree(Packager)
    BY <1>1, <2>1 DEF ExpandPackage, ExtractFails, CopyPending, DropOldTree, extractVars, Moves, Starts
  <2>2. CASE ReplaceFile(Packager) \/ MoveOldTree(Packager)
    BY <1>1, <2>2 DEF ReplaceFile, MoveOldTree, Moves
  <2>3. CASE PlaceNewTree(Packager)
    BY <1>1, <2>3 DEF PlaceNewTree, Moves
  <2>4. CASE RestoreOldTree(Packager)
    BY <1>1, <2>4 DEF RestoreOldTree, Moves
  <2> QED  BY <1>5, <2>1, <2>2, <2>3, <2>4 DEF ExtractStep
<1> QED  BY <1>2, <1>3, <1>4, <1>5

\* What a step of a handler leaves alone, and what it places.
LEMMA HandlerLeaves ==
  ASSUME Inv, NEW w \in Handlers,
         BeginCopy(w) \/ CopyStep(w) \/ CreateFile(w) \/ BeginUnzip(w) \/ UnzipStep(w)
  PROVE  /\ \A v \in Handlers \ {w} : job'[v] = job[v]
         /\ \A n \in Destinations : disk[n].holds[1] = "user" => disk'[n] = disk[n]
         /\ job[w].op = "move_to" /\ job'[w].op = "move_to" /\ job[w].pc # "success"
               /\ job'[w].pc = "success" => disk'["target"] = job[w].handle
<1>1. /\ DOMAIN job = Workers /\ DOMAIN disk = Names /\ w \in Workers
      /\ \A v \in Handlers : v \in Workers /\ {"target", "out", "file"} \subseteq Names
      /\ HandlerFits(job[w])
  BY PlacesDiffer DEF Inv, DiskFits, Handlers
<1>2. /\ disk["target"] \in FileNodes \cup {Absent} => disk["target"].holds[1] # "user"
      /\ disk["out"] \in {Absent, EmptyDirectory} => disk["out"].holds[1] # "user"
  BY NodeKinds
<1>4. CASE BeginCopy(w)
  BY <1>1, <1>4 DEF BeginCopy, Starts, Destinations
<1>5. CASE CopyStep(w)
  <2>1. job[w].op \in {"move_to", "rename"} /\ CopyFits(job[w]) /\ "pc" \in DOMAIN job[w]
    BY <1>1, <1>5 DEF CopyStep, HandlerFits
  <2>2. CASE VerifyHandle(w)
    <3>1. job'[w].pc \in {"copy", "link"}
      BY <1>1, <2>1, <2>2 DEF VerifyHandle, Moves
    <3> QED  BY <1>1, <2>2, <3>1 DEF VerifyHandle, Moves, Destinations
  <2>3. CASE CopyFile(w)
    <3>1. job'[w].pc = "recheck"
      BY <1>1, <2>1, <2>3 DEF CopyFile, CopyFits
    <3> QED  BY <1>1, <2>3, <3>1 DEF CopyFile, Destinations
  <2>4. CASE RecheckCopy(w)
    <3>1. job'[w].pc = "link"
      BY <1>1, <2>1, <2>4 DEF RecheckCopy, Moves
    <3> QED  BY <1>1, <2>4, <3>1 DEF RecheckCopy, Moves, Destinations
  <2>5. CASE LinkTarget(w)
    <3>1. \A v \in Handlers \ {w} : job'[v] = job[v]
      BY <1>1, <2>5 DEF LinkTarget, Succeeds, Moves
    <3>2. \A n \in Destinations : disk[n].holds[1] = "user" => disk'[n] = disk[n]
      BY <1>1, <1>2, <2>5 DEF LinkTarget, Destinations
    <3>3. job[w].op = "move_to" => disk'["target"] = job[w].handle
      BY <1>1, <2>1, <2>5 DEF LinkTarget, CopyFits
    <3> QED  BY <3>1, <3>2, <3>3
  <2>6. CASE UnlinkSource(w)
    <3>1. job[w].op = "rename"
      BY <2>1, <2>6 DEF UnlinkSource, CopyFits
    <3>2. disk["target"] \in FileNodes
      BY <2>6 DEF UnlinkSource, Inv, LinkHeld
    <3>3. \A v \in Handlers \ {w} : job'[v] = job[v]
      BY <1>1, <2>6 DEF UnlinkSource, Succeeds, Fails
    <3>4. \A n \in Destinations : disk[n].holds[1] = "user" => disk'[n] = disk[n]
      BY <1>1, <1>2, <2>6, <3>2 DEF UnlinkSource, Destinations
    <3> QED  BY <3>1, <3>3, <3>4
  <2>7. CASE CopyFails(w)
    <3>1. job'[w].pc = "failed"
      BY <1>1, <2>7 DEF CopyFails, Fails
    <3> QED  BY <1>1, <2>7, <3>1 DEF CopyFails, Fails, Destinations
  <2> QED  BY <1>5, <2>2, <2>3, <2>4, <2>5, <2>6, <2>7 DEF CopyStep
<1>6. CASE CreateFile(w)
  BY <1>1, <1>6 DEF CreateFile, Destinations
<1>7. CASE BeginUnzip(w)
  BY <1>1, <1>7 DEF BeginUnzip, Starts, Destinations
<1>8. CASE UnzipStep(w)
  <2>1. job[w].op = "unzip"
    BY <1>8 DEF UnzipStep
  <2>2. \A v \in Handlers \ {w} : job'[v] = job[v]
    BY <1>1, <1>8 DEF UnzipStep, ExpandArchive, MakeWay, RemoveEmpty, PlaceArchive, UnzipFails,
                      Moves, Succeeds, Fails
  <2>3. \A n \in Destinations : disk[n].holds[1] = "user" => disk'[n] = disk[n]
    <3>1. CASE ExpandArchive(w) \/ MakeWay(w)
      BY <3>1 DEF ExpandArchive, MakeWay
    <3>2. CASE RemoveEmpty(w)
      BY <1>1, <1>2, <3>2 DEF RemoveEmpty, Destinations
    <3>3. CASE PlaceArchive(w)
      BY <1>1, <1>2, <3>3 DEF PlaceArchive, EmptyOrNew, Destinations
    <3>4. CASE UnzipFails(w)
      BY <1>1, <1>2, <3>4 DEF UnzipFails, Destinations
    <3> QED  BY <1>8, <3>1, <3>2, <3>3, <3>4 DEF UnzipStep
  <2> QED  BY <2>1, <2>2, <2>3
<1> QED  BY <1>4, <1>5, <1>6, <1>7, <1>8

\* No copy, rename or unzip replaces what somebody else put at its destination,
\* and a copy that is placed holds what its handle was taken of.
THEOREM OthersFilesStayTheorem == Spec => OthersFilesStay
<1> DEFINE Stay ==
      /\ \A n \in {"target", "out"} : disk[n].holds[1] = "user" => disk'[n] = disk[n]
      /\ \A w \in Handlers :
            job[w].op = "move_to" /\ job'[w].op = "move_to" /\ job[w].pc # "success"
               /\ job'[w].pc = "success" => disk'["target"] = job[w].handle
<1>1. ASSUME Inv, Next PROVE Stay
  <2>1. CASE ServerChanges
    BY <2>1 DEF ServerChanges
  <2>2. CASE SomebodyWrites
    <3>1. /\ \A w \in Handlers : job'[w] = job[w]
          /\ \A n \in Destinations : disk[n].holds[1] = "user" => disk'[n] = disk[n]
      BY <1>1, <2>2, NodeKinds, PlacesDiffer
         DEF SomebodyWrites, EmptyOrNew, Inv, DiskFits, Destinations
    <3> QED  BY <3>1 DEF Destinations
  <2>3. CASE \/ BeginDownload(Packager) \/ DownloadStep(Packager)
             \/ BeginExtract(Packager) \/ ExtractStep(Packager)
    <3>1. /\ \A v \in Handlers : job'[v] = job[v]
          /\ \A n \in Destinations : disk'[n] = disk[n]
      BY <1>1, <2>3, PackagerLeaves
    <3> QED  BY <3>1 DEF Destinations
  <2>4. ASSUME NEW w \in Handlers,
               BeginCopy(w) \/ CopyStep(w) \/ CreateFile(w) \/ BeginUnzip(w) \/ UnzipStep(w)
        PROVE  Stay
    <3>1. /\ \A v \in Handlers \ {w} : job'[v] = job[v]
          /\ \A n \in Destinations : disk[n].holds[1] = "user" => disk'[n] = disk[n]
          /\ job[w].op = "move_to" /\ job'[w].op = "move_to" /\ job[w].pc # "success"
                /\ job'[w].pc = "success" => disk'["target"] = job[w].handle
      BY <1>1, <2>4, HandlerLeaves
    <3> QED  BY <3>1 DEF Destinations
  <2> QED  BY <1>1, <2>1, <2>2, <2>3, <2>4 DEF Next
<1>2. Inv /\ [Next]_filesVars => [Stay]_filesVars
  BY <1>1
<1>3. Spec => [][Stay]_filesVars
  <2> HIDE DEF Stay
  <2> QED  BY <1>2, SpecInv, PTL DEF Spec
<1> QED  BY <1>3 DEF OthersFilesStay

-----------------------------------------------------------------------------
(* The archives that an unzip accepts *)

\* Any set of numbers has a least one.
LEMMA LeastNumber ==
    ASSUME NEW S \in SUBSET Nat, S # {}
    PROVE  \E x \in S : \A y \in S : x <= y
<1> DEFINE R == {p \in Nat \X Nat : p[1] < p[2]}
<1>1. IsWellFoundedOn(R, Nat)
  BY NatLessThanWellFounded DEF OpToRel
<1>2. \E x \in S : \A y \in S : <<y, x>> \notin R
  <2> HIDE DEF R
  <2> QED BY <1>1, WFMin
<1>3. \A x, y \in S : <<y, x>> \notin R => x <= y
  OBVIOUS
<1> HIDE DEF R
<1> QED BY <1>2, <1>3

\* A property of 0 that n hands on to n + 1 has every number.
LEMMA EveryNumber ==
    ASSUME NEW P, 0 \in P, \A n \in Nat : n \in P => n + 1 \in P
    PROVE  \A n \in Nat : n \in P
<1> DEFINE S == {n \in Nat : n \notin P}
<1>1. SUFFICES ASSUME S # {} PROVE FALSE
  OBVIOUS
<1>2. PICK n \in S : \A k \in S : n <= k
  BY <1>1, LeastNumber
<1>3. n \in Nat /\ n # 0 /\ n \notin P
  BY <1>2
<1>4. n - 1 \in Nat /\ ~(n <= n - 1) /\ (n - 1) + 1 = n
  BY <1>3
<1>5. n - 1 \in P
  BY <1>2, <1>4
<1> QED BY <1>3, <1>4, <1>5

\* The greatest of a set, if one knows it.
LEMMA MaxIs ==
    ASSUME NEW S \in SUBSET Nat, NEW x \in S, \A y \in S : y <= x
    PROVE  Max(S) = x
<1>1. Max(S) \in S /\ \A y \in S : y <= Max(S)
  BY DEF Max
<1>2. Max(S) <= x /\ x <= Max(S) /\ x \in Nat /\ Max(S) \in Nat
  BY <1>1
<1> QED BY <1>2

NothingChecked == [seen |-> Nothing, files |-> 0, verdict |-> "taken"]

\* What FoldLeft computes on its way, for every set of the first n members.
IsChecked(a, n, f) ==
    f = [s \in SUBSET (1..n) |->
            IF s = {} THEN NothingChecked
            ELSE Add(f[s \ {Max(s)}], a[Max(s)])]

LEMMA CheckedExists ==
    ASSUME NEW a, NEW n \in Nat
    PROVE  \E f : IsChecked(a, n, f)
<1> DEFINE P == {k \in Nat : \E f : IsChecked(a, k, f)}
           start == NothingChecked
           next(f, s) == IF s = {} THEN start ELSE Add(f[s \ {Max(s)}], a[Max(s)])
<1>1. 0 \in P
  <2> DEFINE f == [s \in SUBSET (1..0) |-> start]
  <2>1. \A s \in SUBSET (1..0) : s = {}
    OBVIOUS
  <2>2. f = [s \in SUBSET (1..0) |-> next(f, s)]
    BY <2>1
  <2> HIDE DEF f
  <2> QED BY <2>2 DEF IsChecked
<1>2. ASSUME NEW k \in Nat, k \in P PROVE k + 1 \in P
  <2>1. PICK f : IsChecked(a, k, f)
    BY <1>2
  <2> DEFINE g == [s \in SUBSET (1..k + 1) |->
                      IF k + 1 \in s THEN Add(f[s \ {k + 1}], a[k + 1]) ELSE f[s]]
  <2>2. \A s \in SUBSET (1..k) : g[s] = f[s] /\ s \in SUBSET (1..k + 1) /\ k + 1 \notin s
    <3> TAKE s \in SUBSET (1..k)
    <3>1. s \in SUBSET (1..k + 1) /\ k + 1 \notin s
      OBVIOUS
    <3> QED BY <3>1
  <2>3. \A s \in SUBSET (1..k) : f[s] = next(f, s)
    BY <2>1 DEF IsChecked
  <2>4. \A s \in SUBSET (1..k + 1) : k + 1 \notin s => s \in SUBSET (1..k)
    OBVIOUS
  <2>5. \A s \in SUBSET (1..k + 1) : s \ {k + 1} \in SUBSET (1..k)
    OBVIOUS
  <2>6. ASSUME NEW s \in SUBSET (1..k + 1), k + 1 \in s PROVE g[s] = next(g, s)
    <3>1. Max(s) = k + 1
      <4>1. s \in SUBSET Nat /\ \A y \in s : y <= k + 1
        OBVIOUS
      <4> QED BY <2>6, <4>1, MaxIs
    <3>2. g[s] = Add(f[s \ {k + 1}], a[k + 1])
      BY <2>6
    <3>3. g[s \ {k + 1}] = f[s \ {k + 1}]
      BY <2>2, <2>5
    <3> HIDE DEF g
    <3> QED BY <2>6, <3>1, <3>2, <3>3
  <2>7. ASSUME NEW s \in SUBSET (1..k + 1), k + 1 \notin s PROVE g[s] = next(g, s)
    <3>1. s \in SUBSET (1..k) /\ s \ {Max(s)} \in SUBSET (1..k)
      BY <2>4, <2>7
    <3>2. g[s] = f[s] /\ g[s \ {Max(s)}] = f[s \ {Max(s)}]
      BY <2>2, <3>1
    <3> HIDE DEF g
    <3> QED BY <2>3, <3>1, <3>2
  <2>8. g = [s \in SUBSET (1..k + 1) |-> next(g, s)]
    <3>1. \A s \in SUBSET (1..k + 1) : g[s] = next(g, s)
      BY <2>6, <2>7
    <3>2. DOMAIN g = SUBSET (1..k + 1) /\ g = [s \in DOMAIN g |-> g[s]]
      OBVIOUS
    <3> HIDE DEF g, next
    <3> QED BY <3>1, <3>2
  <2> HIDE DEF g
  <2>9. IsChecked(a, k + 1, g)
    BY <2>8 DEF IsChecked
  <2>10. k + 1 \in Nat
    OBVIOUS
  <2> QED BY <2>9, <2>10
<1> HIDE DEF P
<1>3. n \in P
  BY <1>1, <1>2, EveryNumber
<1> QED BY <1>3 DEF P

\* The first members, checked one after the other.
CheckedTo(a, k) == (CHOOSE f : IsChecked(a, Len(a), f))[1..k]

LEMMA CheckedSteps ==
    ASSUME NEW T, NEW a \in Seq(T)
    PROVE  /\ Checked(a) = CheckedTo(a, Len(a))
           /\ CheckedTo(a, 0) = NothingChecked
           /\ \A k \in 0..Len(a) - 1 : CheckedTo(a, k + 1) = Add(CheckedTo(a, k), a[k + 1])
<1> DEFINE n == Len(a)
           f == CHOOSE f : IsChecked(a, n, f)
<1>1. n \in Nat /\ DOMAIN a = 1..n
  OBVIOUS
<1>2. Checked(a) = f[1..n]
  <2>1. Checked(a) = (CHOOSE h : h = [s \in SUBSET DOMAIN a |->
                         IF s = {} THEN NothingChecked ELSE Add(h[s \ {Max(s)}], a[Max(s)])])[DOMAIN a]
    BY DEF Checked, FoldLeft, MapThenFoldSet, NothingChecked
  <2> HIDE DEF n
  <2> QED BY <1>1, <2>1 DEF IsChecked
<1>3. IsChecked(a, n, f)
  <2>1. PICK h : IsChecked(a, n, h)
    BY <1>1, CheckedExists
  <2> QED BY <2>1
<1> HIDE DEF f, n
<1>4. \A s \in SUBSET (1..n) :
        f[s] = IF s = {} THEN NothingChecked
               ELSE Add(f[s \ {Max(s)}], a[Max(s)])
  BY <1>3 DEF IsChecked
<1>5. f[1..0] = NothingChecked
  <2>1. 1..0 = {} /\ 1..0 \in SUBSET (1..n)
    OBVIOUS
  <2> QED BY <1>4, <2>1
<1>6. ASSUME NEW k \in 0..n - 1 PROVE f[1..k + 1] = Add(f[1..k], a[k + 1])
  <2>1. 1..k + 1 \in SUBSET (1..n) /\ k + 1 \in 1..k + 1
    BY <1>1
  <2>2. (1..k + 1) \ {k + 1} = 1..k
    OBVIOUS
  <2>3. 1..k + 1 \in SUBSET Nat /\ \A y \in 1..k + 1 : y <= k + 1
    OBVIOUS
  <2>4. Max(1..k + 1) = k + 1
    BY <2>1, <2>3, MaxIs
  <2> QED BY <1>4, <2>1, <2>2, <2>4
<1>7. \A k : CheckedTo(a, k) = f[1..k]
  BY DEF CheckedTo, f, n
<1> QED BY <1>2, <1>5, <1>6, <1>7 DEF n

\* A path, its parents, and what they are known as.
LEMMA ParentFacts ==
    ASSUME NEW T, NEW p \in Seq(T), NEW q \in Parents(p)
    PROVE  q \in Seq(T) /\ Len(q) < Len(p) /\ q = SubSeq(p, 1, Len(q))
<1>1. PICK n \in 1..Len(p) - 1 : q = SubSeq(p, 1, n)
  BY DEF Parents
<1>2. n \in Nat /\ Len(p) \in Nat /\ n <= Len(p) /\ n < Len(p) /\ \A i \in 1..n : i \in 1..Len(p)
  OBVIOUS
<1>3. SubSeq(p, 1, n) \in Seq(T) /\ Len(SubSeq(p, 1, n)) = n
  BY <1>2
<1> QED BY <1>1, <1>2, <1>3

LEMMA FoldedLength ==
    ASSUME NEW T, NEW p \in Seq(T)
    PROVE  Len(CaseFolded(p)) = Len(p) /\ Len(p) \in Nat
<1> DEFINE c == CaseFolded(p)
<1>1. Len(p) \in Nat /\ DOMAIN p = 1..Len(p) /\ \A i \in 1..Len(p) : p[i] \in T \cup {"a"}
  OBVIOUS
<1>2. c = [i \in 1..Len(p) |-> IF p[i] = "A" THEN "a" ELSE p[i]]
  BY <1>1 DEF CaseFolded
<1> HIDE DEF c
<1>3. c \in [1..Len(p) -> T \cup {"a"}]
  BY <1>1, <1>2
<1>4. c \in Seq(T \cup {"a"}) /\ Len(c) = Len(p)
  BY <1>1, <1>3
<1> QED BY <1>1, <1>4 DEF c

\* A parent is another place than the path, and no two parents are one place.
LEMMA ParentsDiffer ==
    ASSUME NEW T, NEW p \in Seq(T), NEW q \in Parents(p)
    PROVE  /\ CaseFolded(q) # CaseFolded(p) /\ SubSeq(p, 1, Len(CaseFolded(q))) = q
           /\ \A r \in Parents(p) : CaseFolded(q) = CaseFolded(r) => q = r
<1>1. q \in Seq(T) /\ Len(q) < Len(p) /\ q = SubSeq(p, 1, Len(q))
  BY ParentFacts
<1>2. Len(CaseFolded(q)) = Len(q) /\ Len(CaseFolded(p)) = Len(p) /\ Len(p) \in Nat /\ Len(q) \in Nat
  BY <1>1, FoldedLength
<1>3. ASSUME NEW r \in Parents(p), CaseFolded(q) = CaseFolded(r) PROVE q = r
  <2>1. r \in Seq(T) /\ r = SubSeq(p, 1, Len(r))
    BY ParentFacts
  <2>2. Len(CaseFolded(r)) = Len(r)
    BY <2>1, FoldedLength
  <2> QED BY <1>1, <1>2, <1>3, <2>1, <2>2
<1> QED BY <1>1, <1>2, <1>3

Members(T) == [path : Seq(T), directory : BOOLEAN, size : Nat]

\* Clear, of the first k members.
ClearTo(a, k) ==
    /\ \A i, j \in 1..k : CaseFolded(a[i].path) = CaseFolded(a[j].path) => i = j
    /\ \A i, j \in 1..k : \A p \in Parents(a[i].path) :
          /\ CaseFolded(p) = CaseFolded(a[j].path) => a[j].directory /\ a[j].path = p
          /\ \A q \in Parents(a[j].path) : CaseFolded(p) = CaseFolded(q) => p = q

\* What is known of the first k members while they are clear.
SeenFits(a, k, seen) ==
    /\ \A x : x \in DOMAIN seen <=>
          \E i \in 1..k : x = CaseFolded(a[i].path) \/ \E p \in Parents(a[i].path) : x = CaseFolded(p)
    /\ \A i \in 1..k : /\ seen[CaseFolded(a[i].path)].as = a[i].path
                       /\ seen[CaseFolded(a[i].path)].directory = a[i].directory
    /\ \A i \in 1..k : \A p \in Parents(a[i].path) :
          seen[CaseFolded(p)].directory /\ seen[CaseFolded(p)].as = p
    /\ \A x \in DOMAIN seen : seen[x].listed <=> \E j \in 1..k : x = CaseFolded(a[j].path)

\* One more member is clear of the others just when it collides with none of them.
LEMMA CollidesUnlessClear ==
    ASSUME NEW T, NEW a \in Seq(Members(T)), NEW k \in 0..Len(a) - 1, NEW seen,
           ClearTo(a, k), SeenFits(a, k, seen)
    PROVE  ClearTo(a, k + 1) <=> ~ParentCollides(seen, a[k + 1].path) /\ ~Collides(seen, a[k + 1])
<1> DEFINE m == a[k + 1]
           free == ~ParentCollides(seen, m.path) /\ ~Collides(seen, m)
<1>1. /\ k + 1 \in 1..k + 1 /\ m.path \in Seq(T) /\ m.directory \in BOOLEAN
      /\ \A i \in 1..k + 1 : i \in 1..k \/ i = k + 1
      /\ \A i \in 1..k : i \in 1..k + 1 /\ i # k + 1
  <2>1. k + 1 \in 1..Len(a) /\ k + 1 \in 1..k + 1
    OBVIOUS
  <2>2. m \in Members(T)
    BY <2>1
  <2> QED BY <2>1, <2>2 DEF Members
<1>2. ASSUME free PROVE ClearTo(a, k + 1)
  <2>1. ASSUME NEW p \in Parents(m.path), CaseFolded(p) \in DOMAIN seen
        PROVE  seen[CaseFolded(p)].directory /\ seen[CaseFolded(p)].as = p
    BY <1>2, <2>1 DEF ParentCollides, Known
  <2>2. CaseFolded(m.path) \in DOMAIN seen =>
          LET s == seen[CaseFolded(m.path)] IN ~s.listed /\ m.directory /\ s.as = m.path
    BY <1>2 DEF Collides, Known
  <2>3. ASSUME NEW i \in 1..k PROVE CaseFolded(a[i].path) # CaseFolded(m.path)
    BY <2>2 DEF SeenFits
  <2>4. ASSUME NEW j \in 1..k, NEW p \in Parents(m.path), CaseFolded(p) = CaseFolded(a[j].path)
        PROVE  a[j].directory /\ a[j].path = p
    BY <2>1, <2>4 DEF SeenFits
  <2>5. ASSUME NEW i \in 1..k, NEW p \in Parents(a[i].path), CaseFolded(p) = CaseFolded(m.path)
        PROVE  m.directory /\ m.path = p
    BY <2>2, <2>5 DEF SeenFits
  <2>6. ASSUME NEW j \in 1..k, NEW p \in Parents(m.path), NEW q \in Parents(a[j].path),
               CaseFolded(p) = CaseFolded(q)
        PROVE  p = q
    BY <2>1, <2>6 DEF SeenFits
  <2>7. \A i, j \in 1..k + 1 : CaseFolded(a[i].path) = CaseFolded(a[j].path) => i = j
    BY <1>1, <2>3 DEF ClearTo
  <2>8. ASSUME NEW i \in 1..k + 1, NEW j \in 1..k + 1, NEW p \in Parents(a[i].path)
        PROVE  /\ CaseFolded(p) = CaseFolded(a[j].path) => a[j].directory /\ a[j].path = p
               /\ \A q \in Parents(a[j].path) : CaseFolded(p) = CaseFolded(q) => p = q
    <3>1. CASE i \in 1..k /\ j \in 1..k
      BY <3>1 DEF ClearTo
    <3>2. CASE i \in 1..k /\ j = k + 1
      BY <2>5, <2>6, <3>2
    <3>3. CASE i = k + 1 /\ j \in 1..k
      BY <2>4, <2>6, <3>3
    <3>4. CASE i = k + 1 /\ j = k + 1
      BY <1>1, <3>4, ParentsDiffer
    <3> QED BY <1>1, <3>1, <3>2, <3>3, <3>4
  <2> QED BY <2>7, <2>8 DEF ClearTo
<1>3. ASSUME ClearTo(a, k + 1) PROVE free
  <2>1. ASSUME NEW p \in Parents(m.path), CaseFolded(p) \in DOMAIN seen
        PROVE  seen[CaseFolded(p)].directory /\ seen[CaseFolded(p)].as = p
    <3>1. PICK i \in 1..k : \/ CaseFolded(p) = CaseFolded(a[i].path)
                            \/ \E q \in Parents(a[i].path) : CaseFolded(p) = CaseFolded(q)
      BY <2>1 DEF SeenFits
    <3>2. CASE CaseFolded(p) = CaseFolded(a[i].path)
      <4>1. a[i].directory /\ a[i].path = p
        BY <1>1, <1>3, <3>2 DEF ClearTo
      <4> QED BY <3>2, <4>1 DEF SeenFits
    <3>3. ASSUME NEW q \in Parents(a[i].path), CaseFolded(p) = CaseFolded(q)
          PROVE  seen[CaseFolded(p)].directory /\ seen[CaseFolded(p)].as = p
      <4>1. p = q
        BY <1>1, <1>3, <3>3 DEF ClearTo
      <4> QED BY <4>1 DEF SeenFits
    <3> QED BY <3>1, <3>2, <3>3
  <2>2. ASSUME CaseFolded(m.path) \in DOMAIN seen
        PROVE  LET s == seen[CaseFolded(m.path)] IN ~s.listed /\ m.directory /\ s.as = m.path
    <3>1. \A i \in 1..k : CaseFolded(m.path) # CaseFolded(a[i].path)
      BY <1>1, <1>3 DEF ClearTo
    <3>2. PICK i \in 1..k : \E q \in Parents(a[i].path) : CaseFolded(m.path) = CaseFolded(q)
      BY <2>2, <3>1 DEF SeenFits
    <3>3. ASSUME NEW q \in Parents(a[i].path), CaseFolded(m.path) = CaseFolded(q)
          PROVE  m.directory /\ m.path = q
      BY <1>1, <1>3, <3>3 DEF ClearTo
    <3>4. m.directory /\ seen[CaseFolded(m.path)].as = m.path
      BY <3>2, <3>3 DEF SeenFits
    <3>5. ~seen[CaseFolded(m.path)].listed
      BY <2>2, <3>1 DEF SeenFits
    <3> QED BY <3>4, <3>5
  <2> QED BY <2>1, <2>2 DEF ParentCollides, Collides, Known
<1> QED BY <1>2, <1>3

\* What is known once one more member is listed.
LEMMA SeenGrows ==
    ASSUME NEW T, NEW a \in Seq(Members(T)), NEW k \in 0..Len(a) - 1, NEW seen,
           SeenFits(a, k, seen), ClearTo(a, k + 1), ~ParentCollides(seen, a[k + 1].path)
    PROVE  SeenFits(a, k + 1, List(Learn(seen, a[k + 1].path), a[k + 1]))
<1> DEFINE m == a[k + 1]
           own == CaseFolded(m.path)
           parents == {CaseFolded(p) : p \in Parents(m.path)}
           learnt == Learn(seen, m.path)
           new == List(learnt, m)
<1>1. /\ k + 1 \in 1..k + 1 /\ m.path \in Seq(T) /\ m.directory \in BOOLEAN
      /\ \A i \in 1..k + 1 : i \in 1..k \/ i = k + 1
      /\ \A i \in 1..k : i \in 1..k + 1 /\ i # k + 1
  <2>1. k + 1 \in 1..Len(a) /\ k + 1 \in 1..k + 1
    OBVIOUS
  <2>2. m \in Members(T)
    BY <2>1
  <2> QED BY <2>1, <2>2 DEF Members
<1>2. /\ DOMAIN learnt = DOMAIN seen \cup parents
      /\ \A x \in DOMAIN seen : learnt[x] = seen[x]
      /\ \A x \in parents : x \notin DOMAIN seen =>
            learnt[x] = [as |-> SubSeq(m.path, 1, Len(x)), directory |-> TRUE, listed |-> FALSE]
  BY DEF Learn
<1>3. /\ DOMAIN new = DOMAIN seen \cup parents \cup {own}
      /\ new[own] = [as |-> m.path, directory |-> m.directory, listed |-> TRUE]
      /\ \A x \in DOMAIN seen : x # own => new[x] = seen[x]
      /\ \A x \in parents : x \notin DOMAIN seen /\ x # own =>
            new[x] = [as |-> SubSeq(m.path, 1, Len(x)), directory |-> TRUE, listed |-> FALSE]
  <2>1. /\ DOMAIN new = DOMAIN learnt \cup {own}
        /\ new[own] = [as |-> m.path, directory |-> m.directory, listed |-> TRUE]
        /\ \A x \in DOMAIN learnt : x # own => new[x] = learnt[x]
    <3> HIDE DEF learnt
    <3> QED BY DEF List
  <2> HIDE DEF learnt, new, own, parents
  <2> QED BY <1>2, <2>1
<1> HIDE DEF learnt, new
<1>4. \A i \in 1..k : CaseFolded(a[i].path) \in DOMAIN seen /\ CaseFolded(a[i].path) # own
  <2> TAKE i \in 1..k
  <2>1. CaseFolded(a[i].path) \in DOMAIN seen
    BY DEF SeenFits
  <2> QED BY <1>1, <2>1 DEF ClearTo
<1>5. \A x : x \in DOMAIN new <=>
         \E i \in 1..k + 1 : x = CaseFolded(a[i].path) \/ \E p \in Parents(a[i].path) : x = CaseFolded(p)
  <2>1. \A x : x \in DOMAIN seen <=>
           \E i \in 1..k : x = CaseFolded(a[i].path) \/ \E p \in Parents(a[i].path) : x = CaseFolded(p)
    BY DEF SeenFits
  <2>2. \A x : x \in parents <=> \E p \in Parents(m.path) : x = CaseFolded(p)
    OBVIOUS
  <2> HIDE DEF parents
  <2> QED BY <1>1, <1>3, <2>1, <2>2
<1>6. ASSUME NEW i \in 1..k + 1
      PROVE  new[CaseFolded(a[i].path)].as = a[i].path /\ new[CaseFolded(a[i].path)].directory = a[i].directory
  <2>1. CASE i \in 1..k
    BY <1>3, <1>4, <2>1 DEF SeenFits
  <2>2. CASE i = k + 1
    BY <1>3, <2>2
  <2> QED BY <1>1, <2>1, <2>2
<1>7. ASSUME NEW i \in 1..k + 1, NEW p \in Parents(a[i].path)
      PROVE  new[CaseFolded(p)].directory /\ new[CaseFolded(p)].as = p
  <2>1. CASE CaseFolded(p) = own
    <3>1. m.directory /\ m.path = p
      BY <1>1, <2>1 DEF ClearTo
    <3> QED BY <1>3, <2>1, <3>1
  <2>2. CASE CaseFolded(p) # own /\ i \in 1..k
    <3>1. CaseFolded(p) \in DOMAIN seen
      BY <2>2 DEF SeenFits
    <3> QED BY <1>3, <2>2, <3>1 DEF SeenFits
  <2>3. CASE CaseFolded(p) # own /\ i = k + 1 /\ CaseFolded(p) \in DOMAIN seen
    BY <1>3, <2>3 DEF ParentCollides, Known
  <2>4. CASE CaseFolded(p) # own /\ i = k + 1 /\ CaseFolded(p) \notin DOMAIN seen
    <3>1. p \in Parents(m.path)
      BY <2>4
    <3>2. SubSeq(m.path, 1, Len(CaseFolded(p))) = p
      BY <1>1, <3>1, ParentsDiffer
    <3>3. CaseFolded(p) \in parents
      BY <3>1
    <3>4. new[CaseFolded(p)] = [as |-> SubSeq(m.path, 1, Len(CaseFolded(p))), directory |-> TRUE, listed |-> FALSE]
      <4> HIDE DEF parents, own
      <4> QED BY <1>3, <2>4, <3>3
    <3> QED BY <3>2, <3>4
  <2> QED BY <1>1, <2>1, <2>2, <2>3, <2>4
<1>8. ASSUME NEW x \in DOMAIN new
      PROVE  new[x].listed <=> \E j \in 1..k + 1 : x = CaseFolded(a[j].path)
  <2>1. CASE x = own
    BY <1>1, <1>3, <2>1
  <2>2. CASE x # own /\ x \in DOMAIN seen
    <3>1. new[x].listed <=> \E j \in 1..k : x = CaseFolded(a[j].path)
      BY <1>3, <2>2 DEF SeenFits
    <3> QED BY <1>1, <2>2, <3>1
  <2>3. CASE x # own /\ x \notin DOMAIN seen
    <3>1. ~new[x].listed
      <4>1. x \in parents
        BY <1>3, <2>3
      <4> HIDE DEF parents
      <4> QED BY <1>3, <2>3, <4>1
    <3>2. \A j \in 1..k + 1 : x # CaseFolded(a[j].path)
      BY <1>1, <1>4, <2>3
    <3> QED BY <3>1, <3>2
  <2> QED BY <2>1, <2>2, <2>3
<1>9. SeenFits(a, k + 1, new)
  BY <1>5, <1>6, <1>7, <1>8 DEF SeenFits
<1> QED BY <1>9 DEF new, learnt

FilesTo(a, k) == {i \in 1..k : ~a[i].directory}

\* What the check has made of the first k members.
CheckFits(a, k, state) ==
    /\ state = [seen |-> state.seen, files |-> state.files, verdict |-> state.verdict]
    /\ state.verdict \in {"taken", Refused}
    /\ state.verdict = "taken" <=> ClearTo(a, k)
    /\ state.verdict = "taken" => /\ SeenFits(a, k, state.seen)
                                  /\ state.files = Cardinality(FilesTo(a, k))

LEMMA AddFits ==
    ASSUME NEW T, NEW a \in Seq(Members(T)), NEW k \in 0..Len(a) - 1, NEW state, CheckFits(a, k, state)
    PROVE  CheckFits(a, k + 1, Add(state, a[k + 1]))
<1> DEFINE m == a[k + 1]
           new == Add(state, m)
           refused == ParentCollides(state.seen, m.path) \/ Collides(state.seen, m)
           known == List(Learn(state.seen, m.path), m)
           files == state.files + (IF m.directory THEN 0 ELSE 1)
<1>1. state = [seen |-> state.seen, files |-> state.files, verdict |-> state.verdict]
  BY DEF CheckFits
<1>2. new = IF state.verdict = Refused \/ refused
            THEN [seen |-> state.seen, files |-> state.files, verdict |-> Refused]
            ELSE [seen |-> known, files |-> files, verdict |-> state.verdict]
  <2>1. new = IF state.verdict = Refused \/ refused THEN [state EXCEPT !.verdict = Refused]
              ELSE [state EXCEPT !.seen = known, !.files = files]
    BY DEF Add
  <2> HIDE DEF new, refused, known, files
  <2>2. [state EXCEPT !.verdict = Refused]
          = [seen |-> state.seen, files |-> state.files, verdict |-> Refused]
    BY <1>1
  <2>3. [state EXCEPT !.seen = known, !.files = files]
          = [seen |-> known, files |-> files, verdict |-> state.verdict]
    <3>1. [state EXCEPT !.seen = known] = [seen |-> known, files |-> state.files, verdict |-> state.verdict]
      BY <1>1
    <3>2. [[seen |-> known, files |-> state.files, verdict |-> state.verdict] EXCEPT !.files = files]
            = [seen |-> known, files |-> files, verdict |-> state.verdict]
      OBVIOUS
    <3> QED BY <3>1, <3>2
  <2> QED BY <2>1, <2>2, <2>3
<1>3. Refused # "taken"
  BY DEF Refused
<1>4. k + 1 \in 1..k + 1 /\ \A i \in 1..k : i \in 1..k + 1
  OBVIOUS
<1>5. CASE state.verdict = Refused \/ refused
  <2>1. new = [seen |-> new.seen, files |-> new.files, verdict |-> new.verdict] /\ new.verdict = Refused
    <3> HIDE DEF new, refused, known, files
    <3> QED BY <1>2, <1>5
  <2>2. ~ClearTo(a, k + 1)
    <3>1. CASE state.verdict = Refused
      BY <1>3, <1>4, <3>1 DEF CheckFits, ClearTo
    <3>2. CASE state.verdict = "taken" /\ refused
      BY <3>2, CollidesUnlessClear DEF CheckFits
    <3> QED BY <1>5, <3>1, <3>2 DEF CheckFits
  <2> HIDE DEF new
  <2>3. CheckFits(a, k + 1, new)
    BY <1>3, <2>1, <2>2 DEF CheckFits
  <2> QED BY <2>3 DEF new
<1>6. CASE state.verdict # Refused /\ ~refused
  <2>1. /\ new = [seen |-> new.seen, files |-> new.files, verdict |-> new.verdict]
        /\ new.seen = known /\ new.files = files /\ new.verdict = "taken"
    <3>1. state.verdict = "taken"
      BY <1>6 DEF CheckFits
    <3> HIDE DEF new, refused, known, files
    <3> QED BY <1>2, <1>6, <3>1
  <2>2. state.verdict = "taken" /\ ClearTo(a, k) /\ SeenFits(a, k, state.seen)
        /\ state.files = Cardinality(FilesTo(a, k))
    BY <1>6 DEF CheckFits
  <2>3. ClearTo(a, k + 1)
    BY <1>6, <2>2, CollidesUnlessClear
  <2>4. SeenFits(a, k + 1, known)
    BY <1>6, <2>2, <2>3, SeenGrows
  <2>5. files = Cardinality(FilesTo(a, k + 1))
    <3>1. k \in Nat /\ IsFiniteSet(FilesTo(a, k)) /\ k + 1 \notin FilesTo(a, k)
      <4>1. k \in Nat /\ k + 1 \notin 1..k
        OBVIOUS
      <4>2. IsFiniteSet(1..k)
        BY <4>1, FS_Interval
      <4>3. FilesTo(a, k) \subseteq 1..k
        BY DEF FilesTo
      <4> QED BY <4>1, <4>2, <4>3, FS_Subset
    <3>2. \A i : i \in 1..k + 1 <=> i \in 1..k \/ i = k + 1
      BY <3>1
    <3>3. FilesTo(a, k + 1) = IF m.directory THEN FilesTo(a, k) ELSE FilesTo(a, k) \cup {k + 1}
      BY <3>2 DEF FilesTo
    <3>4. Cardinality(FilesTo(a, k)) \in Nat
          /\ Cardinality(FilesTo(a, k) \cup {k + 1}) = Cardinality(FilesTo(a, k)) + 1
      BY <3>1, FS_AddElement, FS_CardinalityType
    <3> QED BY <2>2, <3>3, <3>4
  <2> HIDE DEF new, known, files
  <2>6. CheckFits(a, k + 1, new)
    BY <2>1, <2>3, <2>4, <2>5 DEF CheckFits
  <2> QED BY <2>6 DEF new
<1> QED BY <1>5, <1>6

\* Of any number of members with any paths, _Members.add accepts just the archives
\* that are clear and have no more files than it allows.
THEOREM AcceptedIsClear ==
    ASSUME NEW T, NEW a \in Seq(Members(T)), NEW maxFiles
    PROVE  Accepts(a, maxFiles) <=> Clear(a) /\ Cardinality(FilesTo(a, Len(a))) <= maxFiles
<1> DEFINE P == {k \in Nat : k \in 0..Len(a) => CheckFits(a, k, CheckedTo(a, k))}
<1>1. 0 \in P
  <2>1. CheckedTo(a, 0) = [seen |-> Nothing, files |-> 0, verdict |-> "taken"]
    BY CheckedSteps DEF NothingChecked
  <2>2. DOMAIN Nothing = {} /\ 1..0 = {}
    BY DEF Nothing
  <2>3. ClearTo(a, 0) /\ SeenFits(a, 0, Nothing)
    BY <2>2 DEF ClearTo, SeenFits
  <2>4. Cardinality(FilesTo(a, 0)) = 0
    <3>1. FilesTo(a, 0) = {}
      BY <2>2 DEF FilesTo
    <3> QED BY <3>1, FS_EmptySet
  <2> QED BY <2>1, <2>3, <2>4 DEF CheckFits
<1>2. ASSUME NEW k \in Nat, k \in P PROVE k + 1 \in P
  <2>1. SUFFICES ASSUME k + 1 \in 0..Len(a) PROVE CheckFits(a, k + 1, CheckedTo(a, k + 1))
    OBVIOUS
  <2>2. k \in 0..Len(a) - 1 /\ k \in 0..Len(a)
    BY <2>1
  <2>3. CheckFits(a, k, CheckedTo(a, k))
    BY <1>2, <2>2
  <2>4. CheckedTo(a, k + 1) = Add(CheckedTo(a, k), a[k + 1])
    BY <2>2, CheckedSteps
  <2> QED BY <2>2, <2>3, <2>4, AddFits
<1>3. CheckFits(a, Len(a), CheckedTo(a, Len(a)))
  <2>1. \A k \in Nat : k \in P
    <3> HIDE DEF P
    <3> QED BY <1>1, <1>2, EveryNumber
  <2>2. Len(a) \in 0..Len(a) /\ Len(a) \in Nat
    OBVIOUS
  <2> QED BY <2>1, <2>2
<1>4. Checked(a) = CheckedTo(a, Len(a)) /\ DOMAIN a = 1..Len(a)
  BY CheckedSteps
<1>5. Clear(a) <=> ClearTo(a, Len(a))
  BY <1>4 DEF Clear, ClearTo
<1> QED BY <1>3, <1>4, <1>5 DEF CheckFits, Accepts

\* What an unzip accepts is clear, and what it refuses is not.
LEMMA AdmissionAgrees == \A v \in Verdicts : v.accepted <=> v.tree.holds[2]
<1> SUFFICES ASSUME NEW a \in Archives
             PROVE  Accepts(a, MaxFiles) <=> Unpacked(a).holds[2]
  BY DEF Verdicts
<1>1. PICK n \in 0..MaxMembers : a \in [1..n -> MemberChoices]
  BY DEF Archives
<1> DEFINE T == {"a", "A", "b"}
<1>2. \A m \in MemberChoices : m \in Members(T)
  <2>1. ASSUME NEW x \in T PROVE <<x>> \in Seq(T)
    OBVIOUS
  <2>2. ASSUME NEW x \in T, NEW y \in T PROVE <<x, y>> \in Seq(T)
    OBVIOUS
  <2>3. \A p \in Paths : p \in Seq(T)
    BY <2>1, <2>2 DEF Paths
  <2> QED BY <2>3 DEF MemberChoices, Members
<1> HIDE DEF T
<1>3. a \in [1..n -> Members(T)]
  BY <1>1, <1>2
<1>4. a \in Seq(Members(T)) /\ DOMAIN a = 1..Len(a)
  BY <1>3
<1>5. Accepts(a, MaxFiles) <=> Clear(a) /\ Cardinality(FilesTo(a, Len(a))) <= MaxFiles
  BY <1>4, AcceptedIsClear
<1>6. FilesTo(a, Len(a)) = {i \in DOMAIN a : ~a[i].directory}
  BY <1>4 DEF FilesTo
<1> QED BY <1>5, <1>6 DEF Unpacked, Node

-----------------------------------------------------------------------------
(* What is at the destination of an unzip *)

\* What an unzip carries was accepted or refused rightly, and so was what is at
\* the destination.
ClearInv ==
    /\ disk["out"] \in ArchiveNodes => disk["out"].holds[2]
    /\ \A w \in Handlers : job[w].op = "unzip" =>
          /\ job[w].pc \in {"publish", "rmdir", "rename"} => job[w].tree.holds[2]
          /\ job[w].pc = "refused" => ~job[w].tree.holds[2]

\* A step that leaves the destination of the unzips and their jobs alone.
LEMMA ClearKept ==
  ASSUME ClearInv, disk'["out"] = disk["out"] \/ disk'["out"] \notin ArchiveNodes,
         \A w \in Handlers : \/ job'[w] = job[w]
                             \/ job'[w].op # "unzip"
                             \/ job'[w].pc \in {"check", "success", "failed"}
                             \/ /\ job[w].op = "unzip"
                                /\ job[w].pc \in {"publish", "rmdir", "rename"}
                                /\ job'[w].pc # "refused" /\ job'[w].tree = job[w].tree
  PROVE  ClearInv'
BY DEF ClearInv

LEMMA UnzipStepClear ==
  ASSUME Inv, ClearInv, NEW w \in Handlers, UnzipStep(w)
  PROVE  ClearInv'
<1> DEFINE j == job[w]
<1>0. /\ j.op = "unzip" /\ UnzipFits(j) /\ {"op", "pc"} \subseteq DOMAIN j
      /\ w \in Workers /\ DOMAIN job = Workers /\ DOMAIN disk = Names /\ "out" \in Names
      /\ \A v \in Handlers \ {w} : job'[v] = job[v]
  BY HandlerLeaves, PlacesDiffer DEF UnzipStep, Inv, HandlerFits, Handlers, DiskFits
<1>1. Succeeds(w) \/ Fails(w) => job'[w].pc \in {"success", "failed"}
  BY <1>0, JobOver
<1>2. CASE ExpandArchive(w)
  <2>1. disk' = disk /\ j.pc = "check"
    BY <1>2 DEF ExpandArchive
  <2>2. PICK v \in Verdicts :
          job' = [job EXCEPT ![w].pc = IF v.accepted THEN "publish" ELSE "refused",
                             ![w].tree = v.tree]
    BY <1>2 DEF ExpandArchive
  <2>3. {"op", "pc", "tree", "existed"} \subseteq DOMAIN j
    BY <1>0, <2>1 DEF UnzipFits
  <2>4. job'[w] = [j EXCEPT !.pc = IF v.accepted THEN "publish" ELSE "refused", !.tree = v.tree]
    BY <1>0, <2>2
  <2>5. /\ job'[w].op = "unzip" /\ job'[w].tree = v.tree
        /\ job'[w].pc = IF v.accepted THEN "publish" ELSE "refused"
    BY <1>0, <2>3, <2>4
  <2>6. v.accepted <=> v.tree.holds[2]
    BY AdmissionAgrees
  <2> QED  BY <1>0, <2>1, <2>5, <2>6 DEF ClearInv
<1>3. CASE MakeWay(w)
  <2>1. \E pc \in {"rmdir", "rename"} : \E existed :
          job' = [job EXCEPT ![w].pc = pc, ![w].existed = existed]
    BY <1>3 DEF MakeWay
  <2>2. job'[w].pc \in {"rmdir", "rename"} /\ job'[w].tree = j.tree /\ j.pc = "publish"
    BY <1>0, <1>3, <2>1, UnzipMoves DEF MakeWay
  <2> QED  BY <1>0, <1>3, <2>2, ClearKept DEF MakeWay
<1>4. CASE RemoveEmpty(w)
  <2>1. job' = [job EXCEPT ![w].pc = "rename", ![w].existed = j.existed] /\ j.pc = "rmdir"
    BY <1>4 DEF RemoveEmpty, Moves
  <2>2. job'[w].pc = "rename" /\ job'[w].tree = j.tree
    BY <1>0, <2>1, UnzipMoves
  <2>3. disk'["out"] \notin ArchiveNodes
    BY <1>0, <1>4, NodeKinds DEF RemoveEmpty
  <2> QED  BY <1>0, <2>1, <2>2, <2>3, ClearKept
<1>5. CASE PlaceArchive(w)
  <2>1. disk'["out"] = j.tree /\ j.pc = "rename" /\ job'[w].pc \in {"success", "failed"}
    BY <1>0, <1>1, <1>5 DEF PlaceArchive
  <2>2. j.tree.holds[2]
    BY <1>0, <2>1 DEF ClearInv
  <2> QED  BY <1>0, <2>1, <2>2 DEF ClearInv
<1>6. CASE UnzipFails(w)
  <2>1. disk'["out"] \in {EmptyDirectory, disk["out"]}
    BY <1>0, <1>6 DEF UnzipFails
  <2>2. EmptyDirectory \notin ArchiveNodes
    BY NodeKinds
  <2>3. job'[w].pc \in {"success", "failed"}
    BY <1>1, <1>6 DEF UnzipFails
  <2> QED  BY <1>0, <2>1, <2>2, <2>3, ClearKept
<1> QED  BY <1>2, <1>3, <1>4, <1>5, <1>6 DEF UnzipStep

LEMMA NextClear == Inv /\ ClearInv /\ [Next]_filesVars => ClearInv'
<1> SUFFICES ASSUME Inv, ClearInv, [Next]_filesVars PROVE ClearInv'
  OBVIOUS
<1>1. CASE UNCHANGED filesVars
  BY <1>1, ClearKept DEF filesVars
<1>2. CASE ServerChanges
  BY <1>2, ClearKept DEF ServerChanges
<1>3. CASE SomebodyWrites
  <2>1. job' = job /\ (disk'["out"] = disk["out"] \/ disk'["out"] = User(edits))
    BY <1>3, PlacesDiffer DEF SomebodyWrites, Inv, DiskFits
  <2>2. User(edits) \notin ArchiveNodes
    BY DEF User, Node, ArchiveNodes
  <2> QED  BY <2>1, <2>2, ClearKept
<1>4. CASE \/ BeginDownload(Packager) \/ DownloadStep(Packager)
           \/ BeginExtract(Packager) \/ ExtractStep(Packager)
  BY <1>4, PackagerLeaves, ClearKept DEF Destinations
<1>5. ASSUME NEW w \in Handlers, BeginCopy(w) \/ CopyStep(w) \/ CreateFile(w) \/ BeginUnzip(w)
      PROVE  ClearInv'
  <2>1. \A v \in Handlers \ {w} : job'[v] = job[v]
    BY <1>5, HandlerLeaves
  <2>2. /\ disk'["out"] = disk["out"] /\ w \in Workers /\ DOMAIN job = Workers
    BY <1>5, PlacesDiffer
       DEF BeginCopy, CopyStep, VerifyHandle, CopyFile, RecheckCopy, LinkTarget, UnlinkSource,
           CopyFails, CreateFile, BeginUnzip, Inv, DiskFits, Handlers
  <2>3. \/ job'[w] = job[w] \/ job'[w].op # "unzip" \/ job'[w].pc = "check"
    <3>1. CASE BeginCopy(w)
      BY <2>2, <3>1 DEF BeginCopy, Starts
    <3>2. CASE CreateFile(w)
      BY <3>2 DEF CreateFile
    <3>3. CASE BeginUnzip(w)
      BY <2>2, <3>3 DEF BeginUnzip, Starts
    <3>4. CASE CopyStep(w)
      <4>1. {"op", "pc"} \subseteq DOMAIN job[w] /\ CopyFits(job[w]) /\ job[w].op # "unzip"
        BY <3>4 DEF CopyStep, Inv, HandlerFits
      <4>2. job'[w].op = job[w].op
        BY <2>2, <3>4, <4>1
           DEF CopyStep, VerifyHandle, CopyFile, RecheckCopy, LinkTarget, UnlinkSource,
               CopyFails, Moves, Succeeds, Fails
      <4> QED  BY <4>1, <4>2
    <3> QED  BY <1>5, <3>1, <3>2, <3>3, <3>4
  <2> QED  BY <2>1, <2>2, <2>3, ClearKept
<1>6. ASSUME NEW w \in Handlers, UnzipStep(w) PROVE ClearInv'
  BY <1>6, UnzipStepClear
<1> QED  BY <1>1, <1>2, <1>3, <1>4, <1>5, <1>6 DEF Next

\* The destination of an unzip never holds anything but whole, clear archives,
\* whoever else uses it.
THEOREM UnpackedIsClearTheorem == Spec => []UnpackedIsClear
<1>1. Init => ClearInv
  <2> SUFFICES ASSUME Init PROVE ClearInv
    OBVIOUS
  <2>1. disk["out"] \in {Absent, EmptyDirectory}
    BY PlacesDiffer DEF Init
  <2>2. \A w \in Handlers : job[w].op = "none"
    BY DEF Init, NoJob, Handlers
  <2> QED  BY <2>1, <2>2, NodeKinds DEF ClearInv
<1>2. Inv /\ ClearInv /\ [Next]_filesVars => ClearInv'
  BY NextClear
<1>3. Inv /\ ClearInv => UnpackedIsClear
  BY NodeKinds DEF Inv, DiskFits, ClearInv, UnpackedIsClear, EmptyDirectory
<1> QED  BY <1>1, <1>2, <1>3, SpecInv, PTL DEF Spec
=============================================================================
