----------------------------- MODULE StateFile -----------------------------
(***************************************************************************)
(* internal/state, down to the system calls: the server keeps the set of   *)
(* deployed MACs in memory and rewrites the state file after each change,  *)
(* by a file beside it (.tmp) and a rename; `autopxe -forget', -forget-all *)
(* and -list-deployed are processes of their own that load the same file   *)
(* and write it in the same way.  The mutex of the tracker orders the      *)
(* operations of one process, and nothing orders two processes.  A process *)
(* may be killed between any two system calls.                             *)
(*                                                                         *)
(* A file is an inode: a name refers to it, and a process that has opened  *)
(* it writes to it under whatever name it has by then.                     *)
(***************************************************************************)
EXTENDS FiniteSets, Naturals

CONSTANTS MAC,
          Server,      \* the process that serves
          Tool,        \* the maintenance processes
          Inode,
          NoInode,
          OneAtATime   \* whether maintenance is run only while the server is stopped

Process == {Server} \cup Tool

ASSUME StateFileAssumption ==
  /\ Server \notin Tool
  /\ NoInode \notin Inode
  /\ OneAtATime \in BOOLEAN
  /\ IsFiniteSet(Process) /\ IsFiniteSet(Inode)
  /\ Cardinality(Inode) >= Cardinality(Process) + 2  \* those named or open never use up all

VARIABLES pc,        \* process -> where it is in an operation
          data,      \* process -> Tracker.data, the MACs recorded as deployed
          fd,        \* process -> the inode it has opened to write
          change,    \* process -> what its operation adds and removes
          file, tmp, \* the inodes that the two names refer to
          content,   \* inode -> what it holds
          marked,    \* history: MACs that MarkDeployed reported as saved
          forgotten  \* history: MACs that a maintenance process reported as removed

process == <<pc, data, fd, change>>
names == <<file, tmp>>
history == <<marked, forgotten>>
vars == <<process, names, content, history>>

NoChange == [add |-> {}, del |-> {}]

(* What an inode holds: a record that parses, or one that does not because *)
(* it was truncated or is broken.                                          *)
Content == [form : {"json", "empty", "torn"}, macs : SUBSET MAC]
Json(macs) == [form |-> "json", macs |-> macs]
Empty == [form |-> "empty", macs |-> {}]
Torn == [form |-> "torn", macs |-> {}]

TypeOK ==
  /\ pc \in [Process -> {"off", "idle", "open", "write", "rename"}]
  /\ data \in [Process -> SUBSET MAC]
  /\ fd \in [Process -> Inode \cup {NoInode}]
  /\ change \in [Process -> [add : SUBSET MAC, del : SUBSET MAC]]
  /\ file \in Inode \cup {NoInode} /\ tmp \in Inode \cup {NoInode}
  /\ content \in [Inode -> Content]
  /\ marked \subseteq MAC /\ forgotten \subseteq MAC

Init ==
  /\ pc = [p \in Process |-> "off"]
  /\ data = [p \in Process |-> {}]
  /\ fd = [p \in Process |-> NoInode]
  /\ change = [p \in Process |-> NoChange]
  /\ file = NoInode /\ tmp = NoInode
  /\ content = [i \in Inode |-> Empty]
  /\ marked = {} /\ forgotten = {}

At(p, l) == pc[p] = l
Goto(p, l) == pc' = [pc EXCEPT ![p] = l]

(* What a reader of the file finds; no file counts as an empty record. *)
OnDisk == IF file = NoInode THEN Json({}) ELSE content[file]

-----------------------------------------------------------------------------
(* New and load.  A file that does not parse ends the process. *)

MayRun(p) == OneAtATime => \A q \in Process \ {p} : At(q, "off")

(* Mutant: the file is not loaded. *)
StartUnloaded(p) ==
  /\ At(p, "off")
  /\ MayRun(p)
  /\ Goto(p, "idle")
  /\ UNCHANGED <<data, fd, change, names, content, history>>

Start(p) ==
  /\ At(p, "off")
  /\ MayRun(p)
  /\ OnDisk.form = "json"
  /\ data' = [data EXCEPT ![p] = OnDisk.macs]
  /\ Goto(p, "idle")
  /\ UNCHANGED <<fd, change, names, content, history>>

(* The process ends: it has finished, is stopped or is killed. *)
End(p) ==
  /\ ~At(p, "off")
  /\ Goto(p, "off")
  /\ data' = [data EXCEPT ![p] = {}]
  /\ fd' = [fd EXCEPT ![p] = NoInode]
  /\ change' = [change EXCEPT ![p] = NoChange]
  /\ UNCHANGED <<names, content, history>>

(* Mutant: what is removed stays in the memory. *)
BeginAdding(p, add, del) ==
  /\ At(p, "idle")
  /\ Goto(p, "open")
  /\ data' = [data EXCEPT ![p] = @ \cup add]
  /\ change' = [change EXCEPT ![p] = [add |-> add, del |-> del]]
  /\ UNCHANGED <<fd, names, content>>

(* The operations: they change the memory, and save it. *)
Begin(p, add, del) ==
  /\ At(p, "idle")
  /\ Goto(p, "open")
  /\ data' = [data EXCEPT ![p] = (@ \cup add) \ del]
  /\ change' = [change EXCEPT ![p] = [add |-> add, del |-> del]]
  /\ UNCHANGED <<fd, names, content>>

MarkDeployed(macs) ==
  /\ Begin(Server, macs, {})
  /\ forgotten' = forgotten \ macs
  /\ UNCHANGED marked

Forget(p, mac) ==
  /\ mac \in data[p]
  /\ Begin(p, {}, {mac})
  /\ marked' = marked \ {mac}
  /\ UNCHANGED forgotten

ForgetAll(p) ==
  /\ Begin(p, {}, MAC)
  /\ marked' = {}
  /\ UNCHANGED forgotten

-----------------------------------------------------------------------------
(* save *)

(* os.WriteFile opens the file to write: it creates or truncates it. *)
OpenTmp(p) ==
  /\ At(p, "open")
  /\ \E i \in Inode :
       /\ i = tmp \/ (tmp = NoInode /\ i # file /\ \A q \in Process : fd[q] # i)
       /\ tmp' = i
       /\ fd' = [fd EXCEPT ![p] = i]
       /\ content' = [content EXCEPT ![i] = Empty]
  /\ Goto(p, "write")
  /\ UNCHANGED <<data, change, file, history>>

(* Mutant: only what the operation adds is written. *)
WriteAdded(p) ==
  /\ At(p, "write")
  /\ content' = [content EXCEPT ![fd[p]] = Json(change[p].add)]
  /\ fd' = [fd EXCEPT ![p] = NoInode]
  /\ Goto(p, "rename")
  /\ UNCHANGED <<data, change, names, history>>

(* It writes from the start of the inode, whatever another process has     *)
(* written there since; the tail of something longer stays.                *)
WriteTmp(p) ==
  /\ At(p, "write")
  /\ \E c \in {Json(data[p]), Torn} :
       /\ c = Torn => content[fd[p]] \notin {Empty, Json(data[p])}
       /\ content' = [content EXCEPT ![fd[p]] = c]
  /\ fd' = [fd EXCEPT ![p] = NoInode]
  /\ Goto(p, "rename")
  /\ UNCHANGED <<data, change, names, history>>

Rename(p) ==
  /\ At(p, "rename")
  /\ tmp # NoInode
  /\ file' = tmp /\ tmp' = NoInode
  /\ marked' = marked \cup change[p].add
  /\ forgotten' = forgotten \cup change[p].del
  /\ change' = [change EXCEPT ![p] = NoChange]
  /\ Goto(p, "idle")
  /\ UNCHANGED <<data, fd, content>>

(* Mutant: a failed write is not noticed. *)
WriteFailsUnnoticed(p) ==
  /\ At(p, "write")
  /\ content' = [content EXCEPT ![fd[p]] = Torn]
  /\ fd' = [fd EXCEPT ![p] = NoInode]
  /\ Goto(p, "rename")
  /\ UNCHANGED <<data, change, names, history>>

(* A system call fails, the rename also because another process has taken  *)
(* the file away.  A failed write may have written a part.  The memory     *)
(* keeps the change.                                                       *)
SaveFails(p) ==
  /\ pc[p] \in {"open", "write", "rename"}
  /\ \/ At(p, "write") /\ content' = [content EXCEPT ![fd[p]] = Torn]
     \/ UNCHANGED content
  /\ fd' = [fd EXCEPT ![p] = NoInode]
  /\ change' = [change EXCEPT ![p] = NoChange]
  /\ Goto(p, "idle")
  /\ UNCHANGED <<data, names, history>>

Save(p) == OpenTmp(p) \/ WriteTmp(p) \/ Rename(p) \/ SaveFails(p)

Next ==
  \/ \E p \in Process : Start(p) \/ End(p) \/ Save(p)
  \/ \E macs \in SUBSET MAC \ {{}} : MarkDeployed(macs)
  \/ \E p \in Tool : ForgetAll(p) \/ \E mac \in MAC : Forget(p, mac)

Spec == Init /\ [][Next]_vars

-----------------------------------------------------------------------------
(* Properties. *)

(* The package says that the file is written atomically: at no time does a *)
(* process that starts find it truncated or broken, wherever the writer    *)
(* was killed, or failed to write.                                         *)
FileWhole == OnDisk.form = "json"

(* What MarkDeployed reported as saved is in the file, through crashes and *)
(* failed saves of later operations, until an operator forgets it.         *)
MarkedSurvives == FileWhole => marked \subseteq OnDisk.macs

(* A MAC that `-forget' reported as removed is not in the file again       *)
(* before it is deployed again.                                            *)
ForgottenStays == FileWhole => forgotten \cap OnDisk.macs = {}

(* One process at a time keeps a durable set: between two processes, the   *)
(* file is all there is.                                                   *)
Memory == IF \A p \in Process : At(p, "off") THEN OnDisk.macs
          ELSE UNION {data[p] : p \in Process}
Kept == INSTANCE DurableSet WITH Element <- MAC, memory <- Memory, saved <- OnDisk.macs
ImplementsDurableSet == Kept!SetSpec

-----------------------------------------------------------------------------
(* The inductive invariant behind them, when there is one process at a time. *)

Alone == \A p, q \in Process : p # q => At(p, "off") \/ At(q, "off")

(* The process that saves writes to what .tmp names, which no reader sees. *)
WritesAside ==
  /\ file = NoInode \/ file # tmp
  /\ \A p \in Process :
       /\ IF At(p, "write")
          THEN fd[p] = tmp /\ tmp # NoInode /\ content[tmp] = Empty
          ELSE fd[p] = NoInode
       /\ At(p, "rename") => tmp # NoInode /\ content[tmp] = Json(data[p])

(* The memory of a process is what the file says, but for its operation    *)
(* and for changes that it failed to save and did not report.              *)
MemoryTracks ==
  \A p \in Process :
    IF At(p, "off")
    THEN change[p] = NoChange /\ data[p] = {}
    ELSE /\ marked \subseteq data[p] /\ forgotten \cap data[p] = {}
         /\ change[p].add \subseteq data[p] /\ change[p].del \cap data[p] = {}

SInv ==
  /\ TypeOK
  /\ Alone
  /\ WritesAside
  /\ MemoryTracks
  /\ FileWhole
  /\ MarkedSurvives
  /\ ForgottenStays
=============================================================================
