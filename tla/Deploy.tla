------------------------------- MODULE Deploy -------------------------------
(***************************************************************************)
(* internal/node, internal/ironic and internal/state: how a machine that   *)
(* booted the deploy ramdisk is registered, imaged and recorded.  HTTP     *)
(* handlers and one driver goroutine per started deployment run            *)
(* concurrently; each step below is one critical section of the code or    *)
(* one exchange of a driver with an agent, and between any two of them     *)
(* everybody else may move.  Requests and answers are lost, agents reboot, *)
(* and the server stops: its node store and its drivers are gone, the      *)
(* state file stays.                                                       *)
(*                                                                         *)
(* The machines and the agents on them are not in the repository: they are *)
(* modelled from the requests that the code expects and the answers it     *)
(* looks at.                                                               *)
(***************************************************************************)
EXTENDS Naturals

CONSTANTS Machine, NIC,
          Nics,        \* machine -> the NICs it has
          Reports,     \* machine -> the sets of NICs that its lookups may list
          URL,         \* callback addresses of agents
          NoURL,       \* the empty callback URL
          MayOmitURL,  \* whether a heartbeat may come without a callback URL
          MaxNodes,    \* bound on the UUIDs drawn
          MaxDrivers,  \* bound on the driver goroutines started
          MaxPolls     \* polls that fit before the deadline of a deployment

ASSUME DeployAssumption ==
  /\ Nics \in [Machine -> SUBSET NIC]
  /\ \A j, k \in Machine : j # k => Nics[j] \cap Nics[k] = {}
  /\ Reports \in [Machine -> SUBSET SUBSET NIC]
  /\ \A k \in Machine : \A S \in Reports[k] : S # {} /\ S \subseteq Nics[k]
  /\ NoURL \notin URL
  /\ MayOmitURL \in BOOLEAN
  /\ MaxNodes \in Nat /\ MaxDrivers \in Nat /\ MaxPolls \in Nat

Nodes == 1 .. MaxNodes
NoNode == 0
Drivers == 1 .. MaxDrivers
NoCommand == 0

VARIABLES node,       \* Store.nodes: UUID -> node
          macIndex,   \* Store.macIndex: NIC -> UUID
          created,    \* UUIDs drawn so far, over all runs of the server
          driver,     \* the driver goroutines, in the order they were started
          spawned,    \* how many were started
          deployed,   \* Tracker.data: the NICs recorded as deployed
          stateFile,  \* the state file
          agent,      \* machine -> the agent that runs on it
          disk        \* machine -> what its disk holds

server == <<node, macIndex, created, driver, spawned>>
tracker == <<deployed, stateFile>>
machines == <<agent, disk>>
vars == <<server, tracker, machines>>

-----------------------------------------------------------------------------

States == {"none", "new", "deploying", "run_image", "done", "failed"}
NodeRecord == [macs : SUBSET NIC, state : States, url : URL \cup {NoURL},
               driverStarted : BOOLEAN]
Unregistered == [macs |-> {}, state |-> "none", url |-> NoURL, driverStarted |-> FALSE]

(* Where a driver stands in driveDeploy; `ended' once it has returned. *)
Steps == {"idle", "snapshot", "claim", "prepare", "poll", "claim_run", "run",
          "finish", "record", "ended"}
DriverRecord == [pc : Steps, node : Nodes \cup {NoNode}, url : URL \cup {NoURL},
                 polls : 0 .. MaxPolls]
NoDriver == [pc |-> "idle", node |-> NoNode, url |-> NoURL, polls |-> 0]

(* An agent knows the node it was told at lookup, and the one prepare_image *)
(* command it executes, named by the driver that sent it.                   *)
AgentRecord == [on : BOOLEAN, uuid : Nodes \cup {NoNode}, url : URL \cup {NoURL},
                command : Drivers \cup {NoCommand},
                status : {"", "RUNNING", "SUCCEEDED", "FAILED"}]
NoAgent == [on |-> FALSE, uuid |-> NoNode, url |-> NoURL, command |-> NoCommand, status |-> ""]

Init ==
  /\ node = [n \in Nodes |-> Unregistered]
  /\ macIndex = [x \in NIC |-> NoNode]
  /\ created = 0
  /\ driver = [d \in Drivers |-> NoDriver]
  /\ spawned = 0
  /\ deployed = {} /\ stateFile = {}
  /\ agent = [k \in Machine |-> NoAgent]
  /\ disk = [k \in Machine |-> "old"]

-----------------------------------------------------------------------------
(* The handlers. *)

(* Mutants: a node that has its verdict is not found again; a new node is  *)
(* indexed by one of its NICs only.                                        *)
KnownUnsettled(S) == {n \in {macIndex[x] : x \in S} \ {NoNode} :
                        node[n].state \notin {"done", "failed"}}
IndexedByOne(S, n) == [macIndex EXCEPT ![CHOOSE x \in S : TRUE] = n]

(* The nodes that the index has for the NICs of a request. *)
Known(S) == {macIndex[x] : x \in S} \ {NoNode}
Indexed(S, n) == [x \in NIC |-> IF x \in S THEN n ELSE macIndex[x]]

(* GetOrCreate: the node of the first NIC of the request that is indexed,  *)
(* or a new one indexed by all of them.                                    *)
GetOrCreate(S, n) ==
  \/ n \in Known(S) /\ UNCHANGED <<node, macIndex, created>>
  \/ /\ Known(S) = {}
     /\ created < MaxNodes
     /\ n = created + 1
     /\ created' = n
     /\ node' = [node EXCEPT ![n] = [Unregistered EXCEPT !.macs = S, !.state = "new"]]
     /\ macIndex' = Indexed(S, n)

(* handleLookup: the agent is told its node, unless the answer is lost. *)
Lookup(k, S) ==
  /\ agent[k].on
  /\ S \in Reports[k]
  /\ \E n \in Nodes : /\ GetOrCreate(S, n)
                      /\ agent' = [agent EXCEPT ![k].uuid = n] \/ UNCHANGED agent
  /\ UNCHANGED <<driver, spawned, tracker, disk>>

(* Mutant: the flag is not looked at. *)
StartsDriverAgain(n) == node[n].state = "new"

(* RecordHeartbeat: whether the handler is to start a driver. *)
StartsDriver(n) == ~node[n].driverStarted /\ node[n].state = "new"

(* handleHeartbeat for a node of the store; any other UUID gets a 404. *)
Heartbeat(k, url) ==
  LET n == agent[k].uuid IN
  /\ agent[k].on
  /\ url = agent[k].url \/ (MayOmitURL /\ url = NoURL)
  /\ n # NoNode /\ node[n].state # "none"
  /\ IF StartsDriver(n)
     THEN /\ spawned < MaxDrivers
          /\ node' = [node EXCEPT ![n].url = url, ![n].driverStarted = TRUE]
          /\ spawned' = spawned + 1
          /\ driver' = [driver EXCEPT ![spawned'].pc = "snapshot", ![spawned'].node = n]
     ELSE /\ node' = [node EXCEPT ![n].url = url]
          /\ UNCHANGED <<driver, spawned>>
  /\ UNCHANGED <<macIndex, created, tracker, machines>>

-----------------------------------------------------------------------------
(* driveDeploy, step by step. *)

At(d, pc) == driver[d].pc = pc
Goto(d, pc) == driver' = [driver EXCEPT ![d].pc = pc]
ForceState(d, s) == node' = [node EXCEPT ![driver[d].node].state = s]
FailRetries(d) == ForceState(d, "new") /\ Goto(d, "ended")   \* mutant: back to new
Fail(d) == ForceState(d, "failed") /\ Goto(d, "ended")

(* Node.Transition: a compare-and-swap; the driver returns if it fails. *)
Claim(d, from, to, next) ==
  IF node[driver[d].node].state = from
  THEN ForceState(d, to) /\ Goto(d, next)
  ELSE Goto(d, "ended") /\ UNCHANGED node

notNodes == <<macIndex, created, spawned>>

(* The callback URL is read once; a driver that finds none returns. *)
Snapshot(d) ==
  /\ At(d, "snapshot")
  /\ LET url == node[driver[d].node].url IN
     driver' = [driver EXCEPT ![d].url = url,
                              ![d].pc = IF url = NoURL THEN "ended" ELSE "claim"]
  /\ UNCHANGED <<notNodes, node, tracker, machines>>

ClaimDeploy(d) ==
  /\ At(d, "claim")
  /\ Claim(d, "new", "deploying", "prepare")
  /\ UNCHANGED <<notNodes, tracker, machines>>

(* The agent that a command of driver d reaches: the one at the URL that   *)
(* the driver has read, with the token of its node.                        *)
AtURL(d, k) == agent[k].on /\ agent[k].url = driver[d].url
Reached(d, k) == AtURL(d, k) /\ agent[k].uuid = driver[d].node

(* An agent that is not busy starts to write the image; its answer with    *)
(* the id of the command may get lost.  A busy agent, one with another     *)
(* token or none at all: no answer with an id.                             *)
PrepareTaken(d) ==
  /\ \E k \in Machine :
       /\ Reached(d, k) /\ agent[k].status # "RUNNING"
       /\ agent' = [agent EXCEPT ![k].command = d, ![k].status = "RUNNING"]
       /\ disk' = [disk EXCEPT ![k] = "partial"]
  /\ \/ Goto(d, "poll") /\ UNCHANGED node
     \/ Fail(d)

PrepareImage(d) ==
  /\ At(d, "prepare")
  /\ PrepareTaken(d) \/ (Fail(d) /\ UNCHANGED machines)
  /\ UNCHANGED <<notNodes, tracker>>

(* Mutant: any status ends the poll. *)
AnswersAnything(d, status) == \E k \in Machine : Reached(d, k) /\ agent[k].command = d

(* GetCommandStatus and the switch on its answer; no agent, an agent that  *)
(* has rebooted or a lost answer give no status.                           *)
Answers(d, status) ==
  \E k \in Machine : Reached(d, k) /\ agent[k].command = d /\ agent[k].status = status

PollEnds(d) ==
  /\ At(d, "poll")
  /\ \/ Answers(d, "SUCCEEDED") /\ Goto(d, "claim_run") /\ UNCHANGED node
     \/ Answers(d, "FAILED") /\ Fail(d)
  /\ UNCHANGED <<notNodes, tracker, machines>>

(* Mutant of PollAgain: the deadline starts anew with each poll. *)
PollForever(d) == At(d, "poll") /\ UNCHANGED vars

PollAgain(d) ==
  /\ At(d, "poll")
  /\ IF driver[d].polls = MaxPolls
     THEN Fail(d)
     ELSE driver' = [driver EXCEPT ![d].polls = @ + 1] /\ UNCHANGED node
  /\ UNCHANGED <<notNodes, tracker, machines>>

ClaimRun(d) ==
  /\ At(d, "claim_run")
  /\ Claim(d, "deploying", "run_image", "run")
  /\ UNCHANGED <<notNodes, tracker, machines>>

(* run_image: the agent boots the machine from its disk and is gone. *)
RunTaken(d) ==
  /\ \E k \in Machine : /\ Reached(d, k) /\ agent[k].status = "SUCCEEDED"
                        /\ agent' = [agent EXCEPT ![k] = NoAgent]
                        /\ UNCHANGED disk
  /\ \/ Goto(d, "finish") /\ UNCHANGED node
     \/ Fail(d)

(* SendCommand does not look at the HTTP status, and driveDeploy not at    *)
(* the answer: an agent that refuses, in JSON, counts as one that obeys.   *)
RunRefused(d) ==
  /\ \E k \in Machine : AtURL(d, k)
  /\ Goto(d, "finish")
  /\ UNCHANGED <<node, machines>>

RunImage(d) ==
  /\ At(d, "run")
  /\ \/ RunTaken(d)
     \/ RunRefused(d)
     \/ Fail(d) /\ UNCHANGED machines
  /\ UNCHANGED <<notNodes, tracker>>

(* Mutant: the node is not told that it is done. *)
FinishSilently(d) ==
  /\ At(d, "finish")
  /\ Goto(d, "record")
  /\ UNCHANGED <<notNodes, node, tracker, machines>>

Finish(d) ==
  /\ At(d, "finish")
  /\ ForceState(d, "done")
  /\ Goto(d, "record")
  /\ UNCHANGED <<notNodes, tracker, machines>>

(* Mutant: only the NIC that the node was looked up by first is recorded. *)
RecordOne(d) ==
  /\ At(d, "record")
  /\ \E x \in node[driver[d].node].macs : deployed' = deployed \cup {x}
  /\ stateFile' = deployed' \/ UNCHANGED stateFile
  /\ Goto(d, "ended")
  /\ UNCHANGED <<notNodes, node, machines>>

(* MarkDeployed; a failed save is logged, and only the memory has it. *)
Record(d) ==
  /\ At(d, "record")
  /\ deployed' = deployed \cup node[driver[d].node].macs
  /\ stateFile' = deployed' \/ UNCHANGED stateFile
  /\ Goto(d, "ended")
  /\ UNCHANGED <<notNodes, node, machines>>

Drive(d) == \/ Snapshot(d) \/ ClaimDeploy(d) \/ PrepareImage(d) \/ PollEnds(d) \/ PollAgain(d)
            \/ ClaimRun(d) \/ RunImage(d) \/ Finish(d) \/ Record(d)

-----------------------------------------------------------------------------
(* The machines, and the server's process. *)

(* A machine is reset and boots over NIC x: handle grants the ramdisk to a *)
(* NIC that is not recorded.  The machine has an address then, perhaps     *)
(* another one than before, and will run an agent, whatever is recorded    *)
(* while it boots.                                                         *)
NetBoot(k, x) ==
  /\ x \in Nics[k] /\ x \notin deployed
  /\ \E u \in URL : /\ \A j \in Machine \ {k} : agent[j].url # u
                    /\ agent' = [agent EXCEPT ![k] = [NoAgent EXCEPT !.url = u]]
  /\ UNCHANGED <<server, tracker, disk>>

AgentUp(k) ==
  /\ agent[k].url # NoURL /\ ~agent[k].on
  /\ agent' = [agent EXCEPT ![k].on = TRUE]
  /\ UNCHANGED <<server, tracker, disk>>

AgentEnds(k) ==
  /\ agent[k].status = "RUNNING"
  /\ \/ /\ agent' = [agent EXCEPT ![k].status = "SUCCEEDED"]
        /\ disk' = [disk EXCEPT ![k] = "image"]
     \/ /\ agent' = [agent EXCEPT ![k].status = "FAILED"]
        /\ UNCHANGED disk
  /\ UNCHANGED <<server, tracker>>

(* The process ends and is started again: only the state file is left. *)
Restart ==
  /\ node' = [n \in Nodes |-> Unregistered]
  /\ macIndex' = [x \in NIC |-> NoNode]
  /\ driver' = [d \in Drivers |-> IF driver[d].pc = "idle" THEN NoDriver
                                  ELSE [NoDriver EXCEPT !.pc = "ended"]]
  /\ deployed' = stateFile
  /\ UNCHANGED <<created, spawned, stateFile, machines>>

Next ==
  \/ \E k \in Machine : \E S \in Reports[k] : Lookup(k, S)
  \/ \E k \in Machine, url \in URL \cup {NoURL} : Heartbeat(k, url)
  \/ \E d \in Drivers : Drive(d)
  \/ \E k \in Machine, x \in NIC : NetBoot(k, x)
  \/ \E k \in Machine : AgentUp(k) \/ AgentEnds(k)
  \/ Restart

Spec == Init /\ [][Next]_vars

(* The runtime schedules every goroutine; an exchange with an agent ends,  *)
(* by an answer or by the client's timeout of 30 seconds, and the deadline *)
(* bounds the polls.  Nothing is assumed of agents, machines or handlers.  *)
FairSpec == Spec /\ \A d \in Drivers : WF_vars(Drive(d))

-----------------------------------------------------------------------------
(* Properties. *)

TypeOK ==
  /\ node \in [Nodes -> NodeRecord]
  /\ macIndex \in [NIC -> Nodes \cup {NoNode}]
  /\ created \in 0 .. MaxNodes
  /\ driver \in [Drivers -> DriverRecord]
  /\ spawned \in 0 .. MaxDrivers
  /\ deployed \subseteq NIC /\ stateFile \subseteq NIC
  /\ agent \in [Machine -> AgentRecord]
  /\ disk \in [Machine -> {"old", "partial", "image"}]

(* RecordHeartbeat tells at most one handler per node to start a driver,   *)
(* however many heartbeats race.                                           *)
OneDriver ==
  \A d, e \in Drivers : (driver[d].node # NoNode /\ driver[d].node = driver[e].node) => d = e

(* A driver always finds its node in the state that its step implies: this *)
(* is what makes ForceState, which checks nothing, safe.                   *)
DriverAgrees ==
  \A d \in Drivers :
    LET s == node[driver[d].node].state IN
    /\ driver[d].pc \in {"snapshot", "claim"} => s = "new"
    /\ driver[d].pc \in {"prepare", "poll", "claim_run"} => s = "deploying"
    /\ driver[d].pc \in {"run", "finish"} => s = "run_image"
    /\ driver[d].pc = "record" => s = "done"

(* Why there is one driver: a node has a driver only once its flag is set, *)
(* and the flag is set with the driver's start.  UUIDs not yet drawn are   *)
(* nobody's, so that a new node does not get the driver of another.        *)
DriversNumbered ==
  /\ \A d \in Drivers : driver[d].pc = "idle" <=> d > spawned
  /\ \A d \in Drivers : driver[d].node = NoNode => driver[d].pc \in {"idle", "ended"}
  /\ \A d \in Drivers : driver[d].pc = "idle" => driver[d].node = NoNode
DriversFlagged ==
  \A d \in Drivers : driver[d].node # NoNode => node[driver[d].node].driverStarted
NodesDrawn ==
  /\ \A n \in Nodes : node[n].state = "none" => ~node[n].driverStarted
  /\ \A n \in Nodes : n > created => node[n].state = "none"

CInv == TypeOK /\ DriversNumbered /\ DriversFlagged /\ NodesDrawn /\ OneDriver /\ DriverAgrees

(* A node whose driver was started has its verdict, or a driver that runs; *)
(* or its driver, the only one it ever gets, has found no callback URL.    *)
Runs(d) == driver[d].pc \notin {"idle", "ended"}
Attended ==
  \A n \in Nodes : node[n].driverStarted =>
    \/ node[n].state \in {"done", "failed"}
    \/ \E d \in Drivers : /\ driver[d].node = n
                          /\ \/ Runs(d)
                             \/ node[n].state = "new" /\ At(d, "ended") /\ driver[d].url = NoURL

DInv == CInv /\ Attended

(* A node moves forward only, and a verdict is final until a restart.      *)
Moves == {<<"none", "new">>, <<"new", "deploying">>, <<"deploying", "run_image">>,
          <<"deploying", "failed">>, <<"run_image", "failed">>, <<"run_image", "done">>}
Forward(n) == \/ node'[n].state \in {node[n].state, "none"}
              \/ <<node[n].state, node'[n].state>> \in Moves
StatesForward == [][\A n \in Nodes : Forward(n)]_vars

(* A NIC is recorded as deployed only while the disk of its machine holds  *)
(* the complete image: no other driver may be writing to it, and a command *)
(* of an earlier run of the server does not count.                         *)
RecordedIsWritten ==
  [][\A k \in Machine : Nics[k] \cap (deployed' \ deployed) # {} => disk[k] = "image"]_vars

(* All NICs of a machine are gated together, also after a failed save and  *)
(* a restart.                                                              *)
GatedByAllNics ==
  \A k \in Machine : Nics[k] \cap deployed # {} => Nics[k] \subseteq deployed

(* Within one run of the server, no agent overwrites the disk of a machine *)
(* whose node is done, however often the machine boots the ramdisk, and    *)
(* also if it was granted before its deployment was recorded.              *)
Overwrites(k) == agent[k].status # "RUNNING" /\ agent'[k].status = "RUNNING"
ImagedOnce ==
  [][\A k \in Machine : Overwrites(k) =>
       \A n \in Nodes : node[n].state = "done" => node[n].macs \cap Nics[k] = {}]_vars

(* What these three rest on, if every lookup lists all NICs: a machine has *)
(* one node, the index leads there from each NIC, an agent knows no other, *)
(* and a driver that was told of success has a machine with the image,     *)
(* which it keeps while its node is done.                                  *)
AllWhole == \A k \in Machine : Reports[k] = {Nics[k]}
NodesWhole ==
  /\ \A n \in Nodes : IF node[n].state = "none" THEN node[n].macs = {}
                      ELSE \E k \in Machine : node[n].macs = Nics[k]
  /\ \A x \in NIC, n \in Nodes : macIndex[x] = n <=> x \in node[n].macs
AgentsKnow ==
  \A k \in Machine :
    /\ agent[k].uuid <= created
    /\ (agent[k].uuid # NoNode /\ node[agent[k].uuid].state # "none")
         => node[agent[k].uuid].macs = Nics[k]
Gated(S) == \A k \in Machine : Nics[k] \cap S # {} => Nics[k] \subseteq S
ToldOf(d) == driver[d].pc \in {"claim_run", "run", "finish", "record"}
DisksWritten ==
  \A k \in Machine :
    /\ agent[k].status = "RUNNING" => disk[k] = "partial"
    /\ agent[k].status = "SUCCEEDED" => disk[k] = "image"
    /\ \A d \in Drivers :
         (ToldOf(d) /\ node[driver[d].node].macs = Nics[k]) => disk[k] = "image"
    /\ \A n \in Nodes :
         (node[n].state = "done" /\ node[n].macs = Nics[k]) => disk[k] = "image"

FileBehind == stateFile \subseteq deployed /\ Gated(deployed) /\ Gated(stateFile)

(* The server keeps the promise of Provision, if every lookup lists all    *)
(* NICs: a machine is settled once its node is done, and recorded by all   *)
(* its NICs.                                                               *)
Settled == {k \in Machine : \E n \in Nodes : node[n].state = "done" /\ node[n].macs \cap Nics[k] # {}}
AllOf(S) == {k \in Machine : Nics[k] \subseteq S}
Promise == INSTANCE Provision
             WITH settled <- Settled, recorded <- AllOf(deployed), durable <- AllOf(stateFile)
ImplementsProvision == Promise!ProvisionSpec

(* It uses the record of deployed machines as a durable set. *)
Tracker == INSTANCE DurableSet WITH Element <- NIC, memory <- deployed, saved <- stateFile
KeepsRecord == Tracker!SetSpec

WInv == NodesWhole /\ AgentsKnow /\ FileBehind /\ DisksWritten

(* A node for which a driver was started ends as done or failed, unless    *)
(* the server is restarted.  It holds only of agents that always report a  *)
(* callback URL: a driver that finds none returns, and is the node's last. *)
NodeSettles ==
  \A n \in Nodes : node[n].driverStarted ~> node[n].state \in {"done", "failed", "none"}

(* What it rests on, besides the scheduling of drivers: no node is left    *)
(* without one, and each step of a driver uses up one of its steps or one  *)
(* of its polls, of which there are MaxPolls.                              *)
NeverLeft ==
  \A n \in Nodes : node[n].driverStarted =>
    node[n].state \in {"done", "failed"} \/ \E d \in Drivers : driver[d].node = n /\ Runs(d)

StepsLeft(pc) ==
  CASE pc = "snapshot" -> 8 [] pc = "claim" -> 7 [] pc = "prepare" -> 6 [] pc = "poll" -> 5
    [] pc = "claim_run" -> 4 [] pc = "run" -> 3 [] pc = "finish" -> 2 [] pc = "record" -> 1
    [] OTHER -> 0
Closer(d) == \/ StepsLeft(driver'[d].pc) < StepsLeft(driver[d].pc)
             \/ driver'[d].pc = driver[d].pc /\ driver'[d].polls > driver[d].polls
DriversComeCloser ==
  [][\A d \in Drivers : (Runs(d) /\ driver'[d] # driver[d]) => Closer(d)]_vars

(* What the comment on GetOrCreate says: after a lookup, every NIC it      *)
(* listed finds the node that GetOrCreate has returned, whether or not the *)
(* answer with it arrives.                                                 *)
AllNicsIndexed ==
  [][\A k \in Machine : \A S \in Reports[k] : \A n \in Nodes :
       (Lookup(k, S) /\ GetOrCreate(S, n)) => \A x \in S : macIndex'[x] = n]_vars

(* What the configuration's comment says: a node that is recorded has      *)
(* deployed successfully, that is, its agent took the run_image command.   *)
FinishedIsRun ==
  [][\A d \in Drivers : (At(d, "run") /\ driver'[d].pc = "finish")
        => \E k \in Machine : Reached(d, k) /\ agent'[k] = NoAgent]_vars
=============================================================================
