-------------------------- MODULE ArtifactsProofs --------------------------
(***************************************************************************)
(* Proofs about Artifacts, for any set of artifacts and any number of      *)
(* releases.                                                               *)
(***************************************************************************)
EXTENDS Artifacts, TLAPS

(* What a download may get is a tarball, and not the absence of one. *)
LEMMA TarballFacts ==
  /\ NoTarball \notin Tarball
  /\ \A t \in Tarball : t.release \in Release /\ t.entries \subseteq Artifact
  /\ \A r \in Release : r # Missing /\ r \in Nat
BY ArtifactsAssumption DEF Tarball, NoTarball, Release, Missing

LEMMA InitAInv == Init => AInv
<1> SUFFICES ASSUME Init PROVE AInv
  OBVIOUS
<1>1. 1 \in Release /\ Missing \notin Release
  BY ArtifactsAssumption DEF Release, Missing
<1>2. TypeOK
  BY <1>1, TarballFacts DEF Init, TypeOK
<1>3. OneRelease
  BY <1>1 DEF Init, OneRelease
<1>4. DownloadsOnce
  BY DEF Init, DownloadsOnce
<1> QED BY <1>2, <1>3, <1>4 DEF AInv

(* An extraction step: what is placed is of the cached tarball's release.  *)
LEMMA PlaceAInv ==
  ASSUME AInv, NEW a \in Artifact, Place(a)
  PROVE  AInv'
<1>1. tarball \in Tarball /\ tarball # NoTarball /\ tarball.release \in Release
  BY TarballFacts DEF AInv, TypeOK, DownloadsOnce, Place
<1>2. /\ disk' \in [Artifact -> Release \cup {Missing}]
      /\ disk'[a] = tarball.release
      /\ \A b \in Artifact \ {a} : disk'[b] = disk[b]
  BY <1>1 DEF AInv, TypeOK, Place
<1>3. TypeOK'
  BY <1>2 DEF AInv, TypeOK, Place
<1>4. OneRelease'
  BY <1>1, <1>2 DEF AInv, OneRelease, Place
<1>5. DownloadsOnce'
  BY <1>1, <1>2, TarballFacts DEF AInv, DownloadsOnce, Place, Exists
<1> QED BY <1>3, <1>4, <1>5 DEF AInv

(* Discarding keeps a tarball, or leaves nothing that is of its release.   *)
LEMMA DiscardAInv ==
  ASSUME AInv, NEW S \in SUBSET Artifact, Discard(S)
  PROVE  AInv'
<1>1. /\ disk' \in [Artifact -> Release \cup {Missing}]
      /\ \A a \in Artifact : disk'[a] = IF a \in S THEN Missing ELSE disk[a]
  BY DEF AInv, TypeOK, Discard
<1>2. TypeOK'
  BY <1>1 DEF AInv, TypeOK, Discard
<1>3. OneRelease'
  <2>1. CASE S = Artifact /\ tarball' = NoTarball
    BY <1>1, <2>1 DEF OneRelease
  <2>2. CASE tarball # NoTarball /\ UNCHANGED tarball
    BY <1>1, <2>2 DEF AInv, OneRelease
  <2> QED BY <2>1, <2>2 DEF Discard
<1>4. DownloadsOnce'
  BY DEF AInv, DownloadsOnce, Discard
<1> QED BY <1>2, <1>3, <1>4 DEF AInv

(* The check sends a start to the download only if nothing is there whose  *)
(* release the download could disagree with.                               *)
LEMMA CheckAInv ==
  ASSUME AInv, Check
  PROVE  AInv'
<1>1. TypeOK' /\ OneRelease'
  BY DEF AInv, TypeOK, OneRelease, Check, AfterCheck
<1>2. CASE AllExist
  BY <1>1, <1>2 DEF AInv, DownloadsOnce, Check, AfterCheck, AllExist, Exists
<1>3. CASE ~AllExist /\ tarball # NoTarball
  BY <1>1, <1>3 DEF AInv, DownloadsOnce, Check, AfterCheck, AllExist, Exists
<1>4. CASE ~AllExist /\ tarball = NoTarball
  <2>1. \A a \in Artifact : ~Exists(a)
    BY <1>4 DEF AInv, OneRelease, AllExist, Exists
  <2> QED BY <1>1, <1>4, <2>1 DEF AInv, DownloadsOnce, Check, AfterCheck, AllExist, Exists
<1> QED BY <1>2, <1>3, <1>4

LEMMA DownloadAInv ==
  ASSUME AInv, Download
  PROVE  AInv'
<1>1. tarball' \in Tarball /\ tarball' # NoTarball /\ \A a \in Artifact : disk'[a] = Missing
  BY TarballFacts DEF AInv, TypeOK, DownloadsOnce, Download, Exists
<1>2. TypeOK' /\ OneRelease'
  BY <1>1 DEF AInv, TypeOK, OneRelease, Download
<1>3. got' = {}
  BY DEF AInv, DownloadsOnce, Download
<1> QED BY <1>1, <1>2, <1>3 DEF AInv, DownloadsOnce, Download

(* Every step of the process, of the mirror and of the operator keeps the  *)
(* invariant.                                                              *)
LEMMA NextAInv == AInv /\ [Next]_vars => AInv'
<1> SUFFICES ASSUME AInv, [Next]_vars PROVE AInv'
  OBVIOUS
<1> USE DEF AInv, TypeOK, OneRelease, DownloadsOnce
<1>1. CASE Start
  BY <1>1 DEF Start
<1>2. CASE Check
  BY <1>2, CheckAInv
<1>3. CASE Download
  BY <1>3, DownloadAInv
<1>4. CASE \E a \in Artifact : Place(a)
  BY <1>4, PlaceAInv
<1>5. CASE Extracted
  BY <1>5 DEF Extracted, AllExist, Exists
<1>6. CASE NotFound \/ Fail
  BY <1>6 DEF NotFound, Fail, Exit
<1>7. CASE Serve
  BY <1>7 DEF Serve, AllExist, Exists
<1>8. CASE Publish
  BY <1>8, TarballFacts DEF Publish, AllExist, Exists
<1>9. CASE Complete
  BY <1>9 DEF Complete, Tarball, AllExist, Exists
<1>10. CASE \E S \in SUBSET Artifact : Discard(S)
  BY <1>10, DiscardAInv
<1>11. CASE UNCHANGED vars
  BY <1>11 DEF vars, AllExist, Exists
<1> QED BY <1>1, <1>2, <1>3, <1>4, <1>5, <1>6, <1>7, <1>8, <1>9, <1>10, <1>11
        DEF Next, Unattended

(* Whatever is on the disk is of the release of the cached tarball, and a  *)
(* download starts only with nothing there.                                *)
THEOREM ArtifactsInvariant == Spec => []AInv
<1> QED BY InitAInv, NextAInv, PTL DEF Spec

(* Type correctness of the ramdisk artifacts. *)
THEOREM ArtifactsTypes == Spec => []TypeOK
<1>1. AInv => TypeOK
  BY DEF AInv
<1> QED BY <1>1, ArtifactsInvariant, PTL

(* The servers run only with a kernel and an initramfs of one release.     *)
THEOREM ServedTogetherAlways == Spec => []ServedTogether
<1>1. AInv => ServedTogether
  BY ArtifactsAssumption DEF AInv, TypeOK, OneRelease, DownloadsOnce, ServedTogether, AllExist, Exists
<1> QED BY <1>1, ArtifactsInvariant, PTL

(* No start undoes what an earlier one has got into place, wherever either *)
(* is interrupted, nor does it exchange the tarball that is cached.        *)
THEOREM NothingUndoneAlways == Spec => NothingUndone
<1> DEFINE Kept == Unattended => /\ \A a \in Artifact : Exists(a) => disk'[a] # Missing
                                 /\ tarball # NoTarball => tarball' = tarball
<1>1. ASSUME AInv, Unattended PROVE \A a \in Artifact : Exists(a) => disk'[a] # Missing
  <2>1. ASSUME NEW b \in Artifact, Place(b)
        PROVE  \A a \in Artifact : Exists(a) => disk'[a] # Missing
    <3>1. tarball.release # Missing
      BY <1>1, <2>1, TarballFacts DEF AInv, TypeOK, DownloadsOnce, Place
    <3> QED BY <1>1, <2>1, <3>1 DEF AInv, TypeOK, Place, Exists
  <2>2. CASE UNCHANGED disk
    BY <2>2 DEF Exists
  <2> QED BY <1>1, <2>1, <2>2 DEF Unattended, Start, Check, AfterCheck, Download, Extracted,
                                  NotFound, Exit, Serve, Fail, Publish, Complete
<1>2. ASSUME AInv, Unattended, tarball # NoTarball PROVE tarball' = tarball
  <2>1. ~Download
    BY <1>2 DEF AInv, DownloadsOnce, Download
  <2> QED BY <1>2, <2>1 DEF Unattended, Start, Check, AfterCheck, Place, Extracted,
                            NotFound, Exit, Serve, Fail, Publish, Complete
<1>3. AInv /\ [Next]_vars => [Kept]_vars
  BY <1>1, <1>2
<1> QED BY <1>3, ArtifactsInvariant, PTL DEF Spec, NothingUndone
=============================================================================
