--------------------------- MODULE PackageDownload ---------------------------
(***************************************************************************)
(* PackageManager.download of autoenv/package_manager.py: the package is     *)
(* looked for in one directory, or in the newest directories below a base,  *)
(* fetched into a .part file and put in place once its size is right.  The  *)
(* server publishes and withdraws builds meanwhile.                         *)
(***************************************************************************)
EXTENDS LocalDisk

CONSTANTS
    Builds,    \* builds the server may publish: their times
    NameOf,    \* [Builds -> PackageNames], the file name of a build
    SizeOf,    \* [Builds -> Nat], its length
    Places     \* the newest directories, by their times

ASSUME DownloadAssumption ==
    /\ Builds \subseteq Nat \ {0} /\ Builds # {} /\ IsFiniteSet(Builds)
    /\ Places \subseteq Nat /\ IsFiniteSet(Places)
    /\ NameOf \in [Builds -> PackageNames] /\ SizeOf \in [Builds -> Nat]

VARIABLE remote   \* [Places -> the builds published there], or Gone

Gone == {0}
downloadVars == <<part, remote>>
Latest(s) == CHOOSE x \in s : \A y \in s : y <= x
DistinctNames(s) == \A a, b \in s : NameOf[a] = NameOf[b] => a = b

DownloadInit == remote \in [Places -> {{Latest(Builds)}, Gone}]

\* Builds come and go; one that has the name of another one replaces it.
ServerChanges ==
    /\ edits < MaxEdits /\ edits' = edits + 1
    /\ \E p \in Places, new \in {s \in SUBSET Builds : DistinctNames(s)} \cup {Gone} :
          remote[p] # new /\ remote' = [remote EXCEPT ![p] = new]
    /\ UNCHANGED <<disk, part, job>>

\* A directory that is not there answers 404; there may be no answer at all.
Listed(p) == IF remote[p] = Gone THEN {} ELSE remote[p]

\* path_mode: "link" and "override" name one directory, "base_link_newest"
\* tries every newest directory it lists.
BeginDownload(w) ==
    /\ Free(w)
    /\ \E candidates \in {{p} : p \in Places} \cup {{p \in Places : remote[p] # Gone}} :
          Starts(w, [op |-> "download", pc |-> "lookup", candidates |-> candidates])
    /\ UNCHANGED <<disk, edits, downloadVars>>

\* The latest candidate first; one that has disappeared, or has no match, is
\* passed over.  (since: the changes so far, for PackagesAsListed.)
TryCandidate(w) ==
    /\ job[w].pc = "lookup" /\ job[w].candidates # {}
    /\ LET p == Latest(job[w].candidates) IN
       IF Listed(p) = {}
       THEN job' = [job EXCEPT ![w].candidates = @ \ {p}]
       ELSE Starts(w, [op |-> "download", pc |-> "clear", place |-> p,
                       build |-> Latest(Listed(p)), since |-> edits])
    /\ UNCHANGED <<disk, edits, downloadVars>>

\* No candidate is left, or a listing does not answer.
LookupFails(w) ==
    /\ job[w].pc = "lookup"
    /\ Fails(w)
    /\ UNCHANGED <<disk, edits, downloadVars>>

Local(w) == NameOf[job[w].build]

\* What an earlier download left behind is not kept.
ClearPart(w) ==
    /\ job[w].pc = "clear"
    /\ part' = [part EXCEPT ![Local(w)] = Absent]
    /\ Moves(w, "fetch")
    /\ UNCHANGED <<disk, edits, remote>>

\* The body is of the file that has this name now, which may be another build
\* than the one listed; it may end early without anyone raising.
Fetch(w) ==
    /\ job[w].pc = "fetch"
    /\ \E b \in Listed(job[w].place) :
          /\ NameOf[b] = Local(w)
          /\ \E body \in {Node("build", b), Truncated(Node("build", b))} :
                part' = [part EXCEPT ![Local(w)] = body]
    /\ Moves(w, "check")
    /\ UNCHANGED <<disk, edits, remote>>

\* Mutant: the size is not compared.
CheckAnySize(w) ==
    /\ job[w].pc = "check"
    /\ Moves(w, "publish")
    /\ UNCHANGED <<disk, edits, downloadVars>>

\* Can a file have the size listed for a build?  Some piece of a longer one has.
SizeFits(file, build) ==
    LET size == SizeOf[file.holds[2]] IN
    IF file.whole THEN size = SizeOf[build] ELSE size > SizeOf[build]

CheckSize(w) ==
    /\ job[w].pc = "check" /\ SizeFits(part[Local(w)], job[w].build)
    /\ Moves(w, "publish")
    /\ UNCHANGED <<disk, edits, downloadVars>>

\* The new file replaces the old one of that name at once.
PublishPackage(w) ==
    /\ job[w].pc = "publish"
    /\ disk' = [disk EXCEPT ![Local(w)] = part[Local(w)]]
    /\ part' = [part EXCEPT ![Local(w)] = Absent]
    /\ job' = [job EXCEPT ![w] = [op |-> @.op, pc |-> "success", build |-> @.build,
                                  since |-> @.since]]
    /\ UNCHANGED <<edits, remote>>

\* The file is gone, the body breaks off, its size is wrong, or the file cannot
\* be replaced.  The .part file is removed, when it can be.
DownloadFails(w) ==
    /\ job[w].pc \in {"fetch", "check", "publish"}
    /\ \E left \in {Absent, IF job[w].pc = "fetch" THEN Truncated(Node("build", job[w].build))
                                                 ELSE part[Local(w)]} :
          part' = [part EXCEPT ![Local(w)] = left]
    /\ Fails(w)
    /\ UNCHANGED <<disk, edits, remote>>

DownloadStep(w) ==
    /\ job[w].op = "download"
    /\ \/ TryCandidate(w) \/ LookupFails(w) \/ ClearPart(w) \/ Fetch(w)
       \/ CheckSize(w) \/ PublishPackage(w) \/ DownloadFails(w)
=============================================================================
