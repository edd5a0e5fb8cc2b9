-------------------------- MODULE StateFileProofs --------------------------
(***************************************************************************)
(* Proofs about the state file, for any MACs and any maintenance           *)
(* processes, when maintenance is run only while the server is stopped.    *)
(*                                                                         *)
(* The argument: the one process that runs writes to an inode that only    *)
(* .tmp names, and renames it when it holds its memory; the memory of a    *)
(* running process contains what was reported as marked and nothing that   *)
(* was reported as forgotten, and so does each file it puts in place.      *)
(***************************************************************************)
EXTENDS StateFile, TLAPS

LEMMA InitInv == Init => SInv
<1> SUFFICES ASSUME Init PROVE SInv
  OBVIOUS
<1>1. TypeOK
  BY DEF Init, TypeOK, NoChange, Content, Empty
<1> QED BY <1>1 DEF Init, SInv, Alone, WritesAside, MemoryTracks, FileWhole, MarkedSurvives,
                    ForgottenStays, OnDisk, Json, At

(* A step of a process is a step of the one process that runs.             *)
LEMMA OthersOff ==
  ASSUME SInv, NEW p \in Process, ~At(p, "off")
  PROVE  \A q \in Process \ {p} : At(q, "off")
BY DEF SInv, Alone

(* Steps that leave the file as it is, and add nothing to what was         *)
(* reported, keep its three properties.                                    *)
LEMMA FileKept ==
  ASSUME SInv, OnDisk' = OnDisk, marked' \subseteq marked, forgotten' \subseteq forgotten
  PROVE  FileWhole' /\ MarkedSurvives' /\ ForgottenStays'
BY DEF SInv, FileWhole, MarkedSurvives, ForgottenStays

LEMMA StartInv ==
  ASSUME OneAtATime, SInv, NEW p \in Process, Start(p)
  PROVE  SInv'
<1>1. \A q \in Process \ {p} : At(q, "off")
  BY DEF Start, MayRun
<1>2. /\ pc' = [pc EXCEPT ![p] = "idle"] /\ data' = [data EXCEPT ![p] = OnDisk.macs]
      /\ UNCHANGED <<fd, change, file, tmp, content, marked, forgotten>>
      /\ OnDisk' = OnDisk
  BY DEF Start, Goto, names, history, OnDisk
<1>3. OnDisk.macs \in SUBSET MAC
  BY DEF SInv, TypeOK, OnDisk, Json, Content
<1>4. TypeOK'
  BY <1>2, <1>3 DEF SInv, TypeOK
<1>5. Alone'
  BY <1>1, <1>2 DEF SInv, TypeOK, Alone, At
<1>6. WritesAside'
  BY <1>1, <1>2 DEF Start, SInv, TypeOK, WritesAside, At
<1>7. MemoryTracks'
  <2>1. marked \subseteq OnDisk.macs /\ forgotten \cap OnDisk.macs = {}
    BY DEF SInv, FileWhole, MarkedSurvives, ForgottenStays
  <2>2. change[p] = NoChange
    BY DEF Start, SInv, MemoryTracks
  <2> QED BY <1>1, <1>2, <1>3, <2>1, <2>2 DEF SInv, TypeOK, MemoryTracks, At, NoChange
<1> QED BY <1>2, <1>4, <1>5, <1>6, <1>7, FileKept DEF SInv

LEMMA EndInv ==
  ASSUME SInv, NEW p \in Process, End(p)
  PROVE  SInv'
<1>1. \A q \in Process \ {p} : At(q, "off")
  BY OthersOff DEF End
<1>2. /\ pc' = [pc EXCEPT ![p] = "off"] /\ data' = [data EXCEPT ![p] = {}]
      /\ fd' = [fd EXCEPT ![p] = NoInode] /\ change' = [change EXCEPT ![p] = NoChange]
      /\ UNCHANGED <<file, tmp, content, marked, forgotten>>
      /\ OnDisk' = OnDisk
  BY DEF End, Goto, names, history, OnDisk
<1>3. NoChange \in [add : SUBSET MAC, del : SUBSET MAC]
  BY DEF NoChange
<1>4. TypeOK'
  BY <1>2, <1>3 DEF SInv, TypeOK
<1>5. Alone'
  BY <1>1, <1>2 DEF SInv, TypeOK, Alone, At
<1>6. WritesAside'
  BY <1>1, <1>2 DEF SInv, TypeOK, WritesAside, At
<1>7. MemoryTracks'
  BY <1>1, <1>2 DEF SInv, TypeOK, MemoryTracks, At
<1> QED BY <1>2, <1>4, <1>5, <1>6, <1>7, FileKept DEF SInv

(* An operation begins: the histories lose what it is about.               *)
LEMMA BeginInv ==
  ASSUME SInv, NEW p \in Process, NEW add \in SUBSET MAC, NEW del \in SUBSET MAC,
         Begin(p, add, del), add \cap del = {},
         marked' \subseteq marked, marked' \cap del = {},
         forgotten' \subseteq forgotten, forgotten' \cap add = {}
  PROVE  SInv'
<1> DEFINE c == [add |-> add, del |-> del]
<1>1. \A q \in Process \ {p} : At(q, "off")
  BY OthersOff DEF Begin, At
<1>2. /\ pc' = [pc EXCEPT ![p] = "open"] /\ data' = [data EXCEPT ![p] = (data[p] \cup add) \ del]
      /\ change' = [change EXCEPT ![p] = c]
      /\ UNCHANGED <<fd, file, tmp, content>>
      /\ OnDisk' = OnDisk
  BY DEF Begin, Goto, names, OnDisk
<1>3. c \in [add : SUBSET MAC, del : SUBSET MAC] /\ c.add = add /\ c.del = del
  OBVIOUS
<1> HIDE DEF c
<1>4. TypeOK'
  BY <1>2, <1>3 DEF SInv, TypeOK
<1>5. Alone'
  BY <1>1, <1>2 DEF SInv, TypeOK, Alone, At
<1>6. WritesAside'
  BY <1>1, <1>2 DEF Begin, SInv, TypeOK, WritesAside, At
<1>7. MemoryTracks'
  <2>1. marked \subseteq data[p] /\ forgotten \cap data[p] = {}
    BY DEF Begin, SInv, MemoryTracks, At
  <2>2. \A q \in Process \ {p} : pc'[q] = "off" /\ change'[q] = NoChange /\ data'[q] = {}
    BY <1>1, <1>2 DEF SInv, TypeOK, MemoryTracks, At
  <2>3. pc'[p] = "open" /\ data'[p] = (data[p] \cup add) \ del /\ change'[p] = c
    BY <1>2 DEF SInv, TypeOK
  <2>4. /\ marked' \subseteq data'[p] /\ forgotten' \cap data'[p] = {}
        /\ change'[p].add \subseteq data'[p] /\ change'[p].del \cap data'[p] = {}
    BY <1>3, <2>1, <2>3
  <2> QED BY <2>2, <2>3, <2>4 DEF MemoryTracks, At
<1> QED BY <1>2, <1>4, <1>5, <1>6, <1>7, FileKept DEF SInv

LEMMA OperationInv ==
  ASSUME SInv,
         \/ \E macs \in SUBSET MAC \ {{}} : MarkDeployed(macs)
         \/ \E p \in Tool : ForgetAll(p) \/ \E mac \in MAC : Forget(p, mac)
  PROVE  SInv'
<1>1. ASSUME NEW macs \in SUBSET MAC, MarkDeployed(macs) PROVE SInv'
  <2>1. Server \in Process
    BY DEF Process
  <2> QED BY <1>1, <2>1, BeginInv DEF MarkDeployed
<1>2. ASSUME NEW p \in Tool, ForgetAll(p) PROVE SInv'
  <2>1. p \in Process /\ MAC \in SUBSET MAC
    BY DEF Process
  <2> QED BY <1>2, <2>1, BeginInv DEF ForgetAll
<1>3. ASSUME NEW p \in Tool, NEW mac \in MAC, Forget(p, mac) PROVE SInv'
  <2>1. p \in Process /\ {mac} \in SUBSET MAC
    BY DEF Process
  <2> QED BY <1>3, <2>1, BeginInv DEF Forget
<1> QED BY <1>1, <1>2, <1>3

-----------------------------------------------------------------------------
(* The save. *)

(* A step that writes to the file beside: it leaves the memory, the        *)
(* operation and what the name of the file refers to.                      *)
LEMMA AsideInv ==
  ASSUME SInv, NEW p \in Process, ~At(p, "off"),
         NEW l \in {"open", "write", "rename", "idle"}, pc' = [pc EXCEPT ![p] = l],
         TypeOK', WritesAside', OnDisk' = OnDisk,
         change' = change \/ change' = [change EXCEPT ![p] = NoChange],
         UNCHANGED <<data, history>>
  PROVE  SInv'
<1>1. \A q \in Process \ {p} : At(q, "off")
  BY OthersOff
<1>2. /\ pc'[p] # "off"
      /\ \A q \in Process \ {p} : pc'[q] = "off"
  BY <1>1 DEF SInv, TypeOK, At
<1>3. Alone'
  BY <1>2 DEF Alone, At
<1>4. MemoryTracks'
  <2>1. \A q \in Process \ {p} : change'[q] = NoChange /\ data'[q] = {}
    BY <1>1 DEF SInv, TypeOK, MemoryTracks
  <2>2. /\ marked' = marked /\ forgotten' = forgotten /\ data' = data
        /\ change'[p] = change[p] \/ change'[p] = NoChange
    BY DEF SInv, TypeOK, history
  <2>3. /\ marked \subseteq data[p] /\ forgotten \cap data[p] = {}
        /\ change[p].add \subseteq data[p] /\ change[p].del \cap data[p] = {}
    BY DEF SInv, MemoryTracks
  <2>4. NoChange.add = {} /\ NoChange.del = {}
    BY DEF NoChange
  <2> QED BY <1>2, <2>1, <2>2, <2>3, <2>4 DEF MemoryTracks, At
<1> QED BY <1>3, <1>4, FileKept DEF SInv, history

LEMMA OpenTmpInv ==
  ASSUME SInv, NEW p \in Process, OpenTmp(p)
  PROVE  SInv'
<1>1. \A q \in Process \ {p} : At(q, "off")
  BY OthersOff DEF OpenTmp, At
<1>2. PICK i \in Inode :
        /\ i = tmp \/ (tmp = NoInode /\ i # file /\ \A q \in Process : fd[q] # i)
        /\ tmp' = i
        /\ fd' = [fd EXCEPT ![p] = i]
        /\ content' = [content EXCEPT ![i] = Empty]
  BY DEF OpenTmp
<1>3. /\ At(p, "open") /\ pc' = [pc EXCEPT ![p] = "write"]
      /\ UNCHANGED <<data, change, file, history>>
  BY DEF OpenTmp, Goto
<1>4. i # NoInode /\ i # file
  BY <1>2, StateFileAssumption DEF SInv, TypeOK, WritesAside
<1>5. TypeOK'
  <2>1. Empty \in Content
    BY DEF Empty, Content
  <2> QED BY <1>2, <1>3, <2>1 DEF SInv, TypeOK, history
<1>6. WritesAside'
  <2>1. \A q \in Process \ {p} : pc'[q] = "off" /\ fd'[q] = NoInode
    BY <1>1, <1>2, <1>3 DEF SInv, TypeOK, WritesAside, At
  <2>2. pc'[p] = "write" /\ fd'[p] = i
    BY <1>2, <1>3 DEF SInv, TypeOK
  <2>3. content'[tmp'] = Empty
    BY <1>2 DEF SInv, TypeOK
  <2> QED BY <1>2, <1>3, <1>4, <2>1, <2>2, <2>3 DEF WritesAside, At
<1>7. OnDisk' = OnDisk
  BY <1>2, <1>3, <1>4 DEF SInv, TypeOK, OnDisk
<1> QED BY <1>3, <1>5, <1>6, <1>7, AsideInv DEF At

LEMMA WriteTmpInv ==
  ASSUME SInv, NEW p \in Process, WriteTmp(p)
  PROVE  SInv'
<1>1. \A q \in Process \ {p} : At(q, "off")
  BY OthersOff DEF WriteTmp, At
<1>2. /\ At(p, "write") /\ pc' = [pc EXCEPT ![p] = "rename"]
      /\ fd' = [fd EXCEPT ![p] = NoInode]
      /\ UNCHANGED <<data, change, file, tmp, history>>
  BY DEF WriteTmp, Goto, names
<1>3. fd[p] = tmp /\ tmp # NoInode /\ tmp # file /\ tmp \in Inode
      /\ content[tmp] = Empty
  BY <1>2 DEF SInv, TypeOK, WritesAside
<1>4. content' = [content EXCEPT ![tmp] = Json(data[p])]
  BY <1>3 DEF WriteTmp
<1>5. TypeOK'
  <2>1. Json(data[p]) \in Content
    BY DEF Json, Content, SInv, TypeOK
  <2> QED BY <1>2, <1>4, <2>1 DEF SInv, TypeOK, history
<1>6. WritesAside'
  <2>1. \A q \in Process \ {p} : pc'[q] = "off" /\ fd'[q] = NoInode
    BY <1>1, <1>2 DEF SInv, TypeOK, WritesAside, At
  <2>2. /\ pc'[p] = "rename" /\ fd'[p] = NoInode
        /\ content'[tmp'] = Json(data'[p])
    BY <1>2, <1>3, <1>4 DEF SInv, TypeOK, Json
  <2> QED BY <1>2, <1>3, <2>1, <2>2 DEF WritesAside, At
<1>7. OnDisk' = OnDisk
  BY <1>2, <1>3, <1>4 DEF SInv, TypeOK, OnDisk
<1> QED BY <1>2, <1>5, <1>6, <1>7, AsideInv DEF At

LEMMA SaveFailsInv ==
  ASSUME SInv, NEW p \in Process, SaveFails(p)
  PROVE  SInv'
<1>1. \A q \in Process \ {p} : At(q, "off")
  BY OthersOff DEF SaveFails, At
<1>2. /\ ~At(p, "off") /\ pc' = [pc EXCEPT ![p] = "idle"]
      /\ fd' = [fd EXCEPT ![p] = NoInode] /\ change' = [change EXCEPT ![p] = NoChange]
      /\ UNCHANGED <<data, file, tmp, history>>
      /\ content' = content \/ (At(p, "write") /\ content' = [content EXCEPT ![fd[p]] = Torn])
  BY DEF SaveFails, Goto, names, At
<1>3. At(p, "write") => fd[p] = tmp /\ tmp # NoInode /\ tmp # file /\ tmp \in Inode
  BY DEF SInv, TypeOK, WritesAside
<1>4. Torn \in Content /\ NoChange \in [add : SUBSET MAC, del : SUBSET MAC]
  BY DEF Torn, Content, NoChange
<1>5. TypeOK'
  BY <1>2, <1>4 DEF SInv, TypeOK, history
<1>6. WritesAside'
  <2>1. \A q \in Process \ {p} : pc'[q] = "off" /\ fd'[q] = NoInode
    BY <1>1, <1>2 DEF SInv, TypeOK, WritesAside, At
  <2>2. pc'[p] = "idle" /\ fd'[p] = NoInode
    BY <1>2 DEF SInv, TypeOK
  <2> QED BY <1>2, <2>1, <2>2 DEF SInv, WritesAside, At
<1>7. OnDisk' = OnDisk
  BY <1>2, <1>3 DEF SInv, TypeOK, OnDisk
<1> QED BY <1>2, <1>5, <1>6, <1>7, AsideInv

(* The rename puts the memory of the process in place, which contains what *)
(* was and what is now reported.                                           *)
LEMMA RenameInv ==
  ASSUME SInv, NEW p \in Process, Rename(p)
  PROVE  SInv'
<1>1. \A q \in Process \ {p} : At(q, "off")
  BY OthersOff DEF Rename, At
<1>2. /\ At(p, "rename") /\ tmp # NoInode /\ file' = tmp /\ tmp' = NoInode
      /\ pc' = [pc EXCEPT ![p] = "idle"] /\ change' = [change EXCEPT ![p] = NoChange]
      /\ UNCHANGED <<data, fd, content>>
      /\ marked' = marked \cup change[p].add /\ forgotten' = forgotten \cup change[p].del
  BY DEF Rename, Goto
<1>3. content[tmp] = Json(data[p])
  BY <1>2 DEF SInv, WritesAside
<1>4. OnDisk' = Json(data[p])
  BY <1>2, <1>3 DEF OnDisk
<1>5. /\ marked \subseteq data[p] /\ forgotten \cap data[p] = {}
      /\ change[p].add \subseteq data[p] /\ change[p].del \cap data[p] = {}
  BY <1>2 DEF SInv, MemoryTracks, At
<1>6. NoChange \in [add : SUBSET MAC, del : SUBSET MAC] /\ NoChange.add = {} /\ NoChange.del = {}
  BY DEF NoChange
<1>7. change[p].add \subseteq MAC /\ change[p].del \subseteq MAC
  BY DEF SInv, TypeOK
<1>8. TypeOK'
  BY <1>2, <1>6, <1>7 DEF SInv, TypeOK
<1>9. /\ pc'[p] = "idle" /\ change'[p] = NoChange
      /\ \A q \in Process \ {p} : pc'[q] = "off" /\ change'[q] = NoChange /\ data'[q] = {}
  BY <1>1, <1>2 DEF SInv, TypeOK, MemoryTracks, At
<1>10. Alone'
  BY <1>9 DEF Alone, At
<1>11. WritesAside'
  BY <1>2, <1>9 DEF SInv, WritesAside, At
<1>12. MemoryTracks'
  BY <1>2, <1>5, <1>6, <1>9 DEF MemoryTracks, At
<1>13. FileWhole' /\ MarkedSurvives' /\ ForgottenStays'
  BY <1>2, <1>4, <1>5 DEF FileWhole, MarkedSurvives, ForgottenStays, Json
<1> QED BY <1>8, <1>10, <1>11, <1>12, <1>13 DEF SInv

-----------------------------------------------------------------------------
(* Started while nothing else runs, no process ever finds the file broken, *)
(* or without what was reported as marked, or with what was forgotten.     *)
THEOREM StateFileInvariant == OneAtATime => (Spec => []SInv)
<1>1. OneAtATime /\ SInv /\ [Next]_vars => SInv'
  <2> SUFFICES ASSUME OneAtATime, SInv, [Next]_vars PROVE SInv'
    OBVIOUS
  <2>1. ASSUME NEW p \in Process, Start(p) \/ End(p) \/ Save(p) PROVE SInv'
    BY <2>1, StartInv, EndInv, OpenTmpInv, WriteTmpInv, RenameInv, SaveFailsInv DEF Save
  <2>2. CASE \/ \E macs \in SUBSET MAC \ {{}} : MarkDeployed(macs)
             \/ \E p \in Tool : ForgetAll(p) \/ \E mac \in MAC : Forget(p, mac)
    BY <2>2, OperationInv
  <2>3. CASE UNCHANGED vars
    <3>1. UNCHANGED <<pc, data, fd, change, file, tmp, content, marked, forgotten>>
      BY <2>3 DEF vars, process, names, history
    <3> QED BY <3>1 DEF SInv, TypeOK, Alone, WritesAside, MemoryTracks, FileWhole, MarkedSurvives,
                        ForgottenStays, OnDisk, At
  <2> QED BY <2>1, <2>2, <2>3 DEF Next
<1>2. CASE OneAtATime
  BY <1>1, <1>2, InitInv, PTL DEF Spec
<1>3. CASE ~OneAtATime
  BY <1>3
<1> QED BY <1>2, <1>3

(* Type correctness of the state file, with one process at a time. *)
THEOREM StateFileTypes == OneAtATime => (Spec => []TypeOK)
<1>1. SInv => TypeOK
  BY DEF SInv
<1> QED BY <1>1, StateFileInvariant, PTL

(* Killed or failing anywhere in a save, a process never leaves a state    *)
(* file that the next one cannot read.                                     *)
THEOREM FileWholeAlways == OneAtATime => (Spec => []FileWhole)
<1>1. SInv => FileWhole
  BY DEF SInv
<1> QED BY <1>1, StateFileInvariant, PTL

(* A deployment that was reported as saved stays in the state file until   *)
(* an operator forgets it.                                                 *)
THEOREM MarkedSurvivesAlways == OneAtATime => (Spec => []MarkedSurvives)
<1>1. SInv => MarkedSurvives
  BY DEF SInv
<1> QED BY <1>1, StateFileInvariant, PTL

(* A MAC that was reported as forgotten stays out of the state file until  *)
(* it is deployed again.                                                   *)
THEOREM ForgottenStaysAlways == OneAtATime => (Spec => []ForgottenStays)
<1>1. SInv => ForgottenStays
  BY DEF SInv
<1> QED BY <1>1, StateFileInvariant, PTL

-----------------------------------------------------------------------------
(* The durable set that one process at a time keeps. *)

(* What the one process that runs has in memory is all there is. *)
LEMMA OneMemory ==
  ASSUME SInv, NEW p \in Process, ~At(p, "off")
  PROVE  Memory = data[p]
<1>1. \A q \in Process \ {p} : data[q] = {}
  BY OthersOff DEF SInv, MemoryTracks
<1> QED BY <1>1 DEF Memory

LEMMA OneMemoryNext ==
  ASSUME SInv', NEW p \in Process, ~At(p, "off")'
  PROVE  Memory' = data'[p]
<1>1. \A q \in Process \ {p} : At(q, "off")'
  BY DEF SInv, Alone
<1>2. \A q \in Process \ {p} : data'[q] = {}
  BY <1>1 DEF SInv, MemoryTracks
<1> QED BY <1>2 DEF Memory

LEMMA InitKeeps == Init => Kept!SetInit
BY DEF Init, Kept!SetInit, Memory, OnDisk, Json, At

(* The last process gone, the file is what counts. *)
LEMMA StartKeeps ==
  ASSUME OneAtATime, SInv, SInv', NEW p \in Process, Start(p)
  PROVE  Memory' = Memory /\ OnDisk' = OnDisk
<1>1. (\A q \in Process : At(q, "off")) /\ OnDisk' = OnDisk
  BY DEF Start, MayRun, names, OnDisk
<1>2. data'[p] = OnDisk.macs /\ ~At(p, "off")'
  BY DEF Start, Goto, SInv, TypeOK, At
<1> QED BY <1>1, <1>2, OneMemoryNext DEF Memory

LEMMA EndKeeps ==
  ASSUME SInv, NEW p \in Process, End(p)
  PROVE  Memory' = OnDisk.macs /\ OnDisk' = OnDisk
<1>1. \A q \in Process : At(q, "off")'
  BY OthersOff DEF End, Goto, SInv, TypeOK, At
<1>2. OnDisk' = OnDisk
  BY DEF End, names, OnDisk
<1> QED BY <1>1, <1>2 DEF Memory

(* An operation is a change that is not saved yet. *)
LEMMA BeginKeeps ==
  ASSUME SInv, SInv', NEW p \in Process, NEW add \in SUBSET MAC, NEW del \in SUBSET MAC,
         Begin(p, add, del)
  PROVE  Kept!SetNext
<1>1. ~At(p, "off") /\ OnDisk' = OnDisk
  BY DEF Begin, At, names, OnDisk
<1>2. ~At(p, "off")' /\ data'[p] = (data[p] \cup add) \ del
  BY DEF Begin, Goto, SInv, TypeOK, At
<1>3. Memory' = (Memory \cup add) \ del
  BY <1>1, <1>2, OneMemory, OneMemoryNext
<1>4. Kept!Change(add, del)
  BY <1>1, <1>3 DEF Kept!Change
<1> QED BY <1>4 DEF Kept!SetNext

(* The steps of a save but the rename change neither; the rename saves.    *)
LEMMA AsideKeeps ==
  ASSUME SInv, SInv', NEW p \in Process, OpenTmp(p) \/ WriteTmp(p) \/ SaveFails(p)
  PROVE  Memory' = Memory /\ OnDisk' = OnDisk
<1>1. ~At(p, "off") /\ ~At(p, "off")' /\ data' = data /\ file' = file
  BY DEF OpenTmp, WriteTmp, SaveFails, Goto, SInv, TypeOK, At, names
<1>2. CASE file = NoInode
  BY <1>1, <1>2, OneMemory, OneMemoryNext DEF OnDisk
<1>3. CASE file # NoInode
  <2>1. file # tmp /\ file \in Inode /\ content \in [Inode -> Content]
    BY <1>3 DEF SInv, TypeOK, WritesAside
  <2>2. At(p, "write") => fd[p] = tmp
    BY DEF SInv, WritesAside
  <2>3. content'[file] = content[file]
    BY <2>1, <2>2 DEF OpenTmp, WriteTmp, SaveFails
  <2> QED BY <1>1, <2>3, OneMemory, OneMemoryNext DEF OnDisk
<1> QED BY <1>2, <1>3

LEMMA RenameKeeps ==
  ASSUME SInv, SInv', NEW p \in Process, Rename(p)
  PROVE  Kept!Save
<1>1. ~At(p, "off") /\ ~At(p, "off")' /\ data' = data
  BY DEF Rename, Goto, SInv, TypeOK, At
<1>2. OnDisk' = Json(data[p])
  BY DEF Rename, SInv, WritesAside, OnDisk
<1>3. Memory = data[p] /\ Memory' = data[p]
  BY <1>1, OneMemory, OneMemoryNext
<1> QED BY <1>2, <1>3 DEF Kept!Save, Json

(* Each step is a step of the durable set or none: with one process at a   *)
(* time, the file and its rewriting by .tmp and rename serve as a copy     *)
(* that is replaced in one step, and only by what a process has in memory. *)
THEOREM StateFileImplements == OneAtATime => (Spec => ImplementsDurableSet)
<1>1. OneAtATime /\ SInv /\ SInv' /\ [Next]_vars => [Kept!SetNext]_(Kept!setVars)
  <2> SUFFICES ASSUME OneAtATime, SInv, SInv', [Next]_vars PROVE [Kept!SetNext]_(Kept!setVars)
    OBVIOUS
  <2> USE DEF Kept!setVars
  <2>1. ASSUME NEW p \in Process, Start(p) PROVE [Kept!SetNext]_(Kept!setVars)
    BY <2>1, StartKeeps
  <2>2. ASSUME NEW p \in Process, End(p) PROVE [Kept!SetNext]_(Kept!setVars)
    BY <2>2, EndKeeps DEF Kept!SetNext, Kept!Reload
  <2>3. ASSUME NEW p \in Process, Save(p) PROVE [Kept!SetNext]_(Kept!setVars)
    BY <2>3, AsideKeeps, RenameKeeps DEF Save, Kept!SetNext
  <2>4. ASSUME NEW macs \in SUBSET MAC, MarkDeployed(macs) PROVE Kept!SetNext
    <3>1. Server \in Process
      BY DEF Process
    <3> QED BY <2>4, <3>1, BeginKeeps DEF MarkDeployed
  <2>5. ASSUME NEW p \in Tool, ForgetAll(p) \/ \E mac \in MAC : Forget(p, mac) PROVE Kept!SetNext
    <3>1. p \in Process /\ MAC \in SUBSET MAC /\ \A mac \in MAC : {mac} \in SUBSET MAC
      BY DEF Process
    <3> QED BY <2>5, <3>1, BeginKeeps DEF ForgetAll, Forget
  <2>6. CASE UNCHANGED vars
    <3>1. UNCHANGED <<pc, data, file, content>>
      BY <2>6 DEF vars, process, names
    <3> QED BY <3>1 DEF Memory, OnDisk, At
  <2> QED BY <2>1, <2>2, <2>3, <2>4, <2>5, <2>6 DEF Next
<1>2. CASE OneAtATime
  BY <1>1, <1>2, InitKeeps, StateFileInvariant, PTL DEF Spec, ImplementsDurableSet, Kept!SetSpec
<1>3. CASE ~OneAtATime
  BY <1>3
<1> QED BY <1>2, <1>3
=============================================================================
