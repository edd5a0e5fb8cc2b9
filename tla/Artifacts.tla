----------------------------- MODULE Artifacts -----------------------------
(***************************************************************************)
(* internal/ipadl, and the order in which main starts things: the kernel   *)
(* and the initramfs of the deploy ramdisk are made to exist before any    *)
(* server runs.  If one is missing, both are extracted from a tarball,     *)
(* which is kept and downloaded only if it is not there.  Files are placed *)
(* by a rename, one after the other; the process fails, stops or is killed *)
(* between any two of these steps, and the service manager starts it       *)
(* again.                                                                  *)
(*                                                                         *)
(* The mirror is not in the repository: it publishes one release after     *)
(* another under one name, and may offer a tarball that is incomplete.     *)
(***************************************************************************)
EXTENDS Naturals

CONSTANTS Artifact,     \* the kernel and the initramfs
          MaxRelease    \* bound on the releases published

ASSUME ArtifactsAssumption ==
  /\ Artifact # {}
  /\ MaxRelease \in Nat \ {0}

VARIABLES pc,       \* how far the process has started
          got,      \* what extractKernelInitramfs has placed
          disk,     \* artifact -> the release it is of, or Missing
          tarball,  \* the tarball in the cache, or NoTarball
          mirror    \* the tarball that a download gets

vars == <<pc, got, disk, tarball, mirror>>

Release == 1 .. MaxRelease
Missing == 0

(* A tarball, by the release and the entries that a reader gets to. *)
Tarball == [release : Release, entries : SUBSET Artifact]
NoTarball == [release |-> 0, entries |-> {}]

Exists(a) == disk[a] # Missing
AllExist == \A a \in Artifact : Exists(a)

Init ==
  /\ pc = "off"
  /\ got = {}
  /\ tarball = NoTarball
  /\ mirror \in {t \in Tarball : t.release = 1}
  /\ \/ disk = [a \in Artifact |-> Missing]
     \/ disk = [a \in Artifact |-> 1]            \* put there by the operator

-----------------------------------------------------------------------------
(* EnsureArtifacts and main. *)

Start ==
  /\ pc = "off"
  /\ pc' = "check"
  /\ UNCHANGED <<got, disk, tarball, mirror>>

AfterCheck(next) ==
  /\ pc = "check"
  /\ pc' = next
  /\ got' = {}
  /\ UNCHANGED <<disk, tarball, mirror>>

(* Mutants of Check: one artifact is enough; the cache is not looked at;   *)
(* a cached tarball is taken for an extracted one.                         *)
CheckOne == AfterCheck(IF \E a \in Artifact : Exists(a) THEN "ensured"
                       ELSE IF tarball # NoTarball THEN "extract" ELSE "download")
CheckRefetch == AfterCheck(IF AllExist THEN "ensured" ELSE "download")
CheckCached == AfterCheck(IF AllExist \/ tarball # NoTarball THEN "ensured" ELSE "download")

(* Both exist, or the tarball does, or it is downloaded. *)
Check == AfterCheck(IF AllExist THEN "ensured"
                    ELSE IF tarball # NoTarball THEN "extract" ELSE "download")

(* downloadFile, to its rename; one that fails leaves no tarball. *)
Download ==
  /\ pc = "download"
  /\ pc' = "extract"
  /\ tarball' = mirror
  /\ UNCHANGED <<got, disk, mirror>>

(* copyToFile, for the next entry that is wanted: the order is the         *)
(* tarball's, and an artifact that is there already is replaced.           *)
Place(a) ==
  /\ pc = "extract"
  /\ a \in tarball.entries \ got
  /\ disk' = [disk EXCEPT ![a] = tarball.release]
  /\ got' = got \cup {a}
  /\ UNCHANGED <<pc, tarball, mirror>>

(* The loop ends early, at the second artifact. *)
Extracted ==
  /\ pc = "extract" /\ got = Artifact
  /\ pc' = "ensured"
  /\ UNCHANGED <<got, disk, tarball, mirror>>

(* The image is hashed, the allocator is loaded, the servers are started.  *)
Serve ==
  /\ pc = "ensured"
  /\ pc' = "serving"
  /\ UNCHANGED <<got, disk, tarball, mirror>>

(* The process is gone, and what it has placed stays. *)
Exit ==
  /\ pc' = "off"
  /\ got' = {}
  /\ UNCHANGED <<disk, tarball, mirror>>

(* The tarball ends, or breaks, before the second artifact. *)
NotFound ==
  /\ pc = "extract" /\ got # Artifact
  /\ tarball.entries \subseteq got
  /\ Exit

(* Any other error on the way, a signal or a kill. *)
Fail == pc # "off" /\ Exit

-----------------------------------------------------------------------------
(* The mirror and the operator. *)

Publish ==
  /\ mirror.release < MaxRelease
  /\ mirror' \in {t \in Tarball : t.release = mirror.release + 1}
  /\ UNCHANGED <<pc, got, disk, tarball>>

Complete ==
  /\ mirror' = [mirror EXCEPT !.entries = Artifact]
  /\ UNCHANGED <<pc, got, disk, tarball>>

(* To get rid of a release, the operator deletes the tarball and both      *)
(* artifacts; without the tarball, neither artifact is deleted alone.      *)
Discard(S) ==
  /\ pc = "off"
  /\ disk' = [a \in Artifact |-> IF a \in S THEN Missing ELSE disk[a]]
  /\ \/ S = Artifact /\ tarball' = NoTarball
     \/ tarball # NoTarball /\ UNCHANGED tarball
  /\ UNCHANGED <<pc, got, mirror>>

Unattended == \/ Start \/ Check \/ Download \/ (\E a \in Artifact : Place(a))
              \/ Extracted \/ NotFound \/ Serve \/ Fail
              \/ Publish \/ Complete

Next == Unattended \/ \E S \in SUBSET Artifact : Discard(S)

Spec == Init /\ [][Next]_vars

(* The service manager starts the process whenever it has failed, an       *)
(* unusable tarball is noticed, and no other step fails every time it is   *)
(* tried.                                                                  *)
Fairness ==
  /\ WF_vars(Start) /\ WF_vars(NotFound)
  /\ SF_vars(Check) /\ SF_vars(Download)
  /\ \A a \in Artifact : SF_vars(Place(a))

FairSpec == Spec /\ Fairness

-----------------------------------------------------------------------------
(* Properties. *)

TypeOK ==
  /\ pc \in {"off", "check", "download", "extract", "ensured", "serving"}
  /\ got \subseteq Artifact
  /\ disk \in [Artifact -> Release \cup {Missing}]
  /\ tarball \in Tarball \cup {NoTarball}
  /\ mirror \in Tarball

(* No server runs before both artifacts exist, so that the DHCP server     *)
(* does not offer a boot that ends in a 404, and they are of one release,  *)
(* wherever an earlier start was interrupted and whatever the mirror has   *)
(* published since: the kernel and the initramfs of two releases may not   *)
(* boot.                                                                   *)
ServedTogether ==
  pc = "serving" => \E r \in Release : \A a \in Artifact : disk[a] = r

(* A start that finds an artifact missing gets both into place: once the   *)
(* operator leaves the files alone, both exist sooner or later, over       *)
(* however many restarts, unless the cache holds a tarball that was not    *)
(* whole when it was downloaded: that one is never replaced.               *)
CachedBroken == tarball # NoTarball /\ tarball.entries # Artifact
Installed == <>[][Unattended]_vars => <>[](AllExist \/ CachedBroken)

(* What Installed rests on, besides the restarts: no start,                *)
(* however it ends, undoes what an earlier one has got into place, and the *)
(* tarball that is cached is never exchanged for that of another release.  *)
NothingUndone ==
  [][Unattended => /\ \A a \in Artifact : Exists(a) => disk'[a] # Missing
                   /\ tarball # NoTarball => tarball' = tarball]_vars

-----------------------------------------------------------------------------
(* The inductive invariant: until the operator discards the cached         *)
(* tarball, nothing on the disk is of a release other than its own.        *)

OneRelease ==
  \/ tarball # NoTarball /\ \A a \in Artifact : disk[a] \in {Missing, tarball.release}
  \/ tarball = NoTarball /\ \E r \in Release \cup {Missing} : \A a \in Artifact : disk[a] = r

DownloadsOnce ==
  /\ pc = "download" => got = {} /\ tarball = NoTarball /\ \A a \in Artifact : ~Exists(a)
  /\ pc = "extract" => tarball # NoTarball /\ \A a \in got : Exists(a)
  /\ pc \in {"ensured", "serving"} => AllExist

AInv == TypeOK /\ OneRelease /\ DownloadsOnce
=============================================================================
