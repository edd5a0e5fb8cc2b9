---------------------------- MODULE DeployProofs ----------------------------
(***************************************************************************)
(* Proofs about deployments, for any machines, NICs, lookups, agents and   *)
(* bounds.                                                                 *)
(*                                                                         *)
(* The argument: a driver exists for a node only when the node's flag is   *)
(* set, and only a heartbeat sets it, at the start of the driver; so a     *)
(* node has one driver at most.  Then nobody but this driver moves the     *)
(* node out of `new', and the step at which the driver stands determines   *)
(* the node's state.                                                       *)
(***************************************************************************)
EXTENDS Deploy, TLAPS

(* A driver that is under way drives a node of the store. *)
LEMMA Driving ==
  ASSUME CInv, NEW d \in Drivers, driver[d].pc \notin {"idle", "ended"}
  PROVE  /\ driver[d].node \in Nodes
         /\ d <= spawned
         /\ node[driver[d].node].driverStarted
BY DeployAssumption DEF CInv, TypeOK, DriverRecord, DriversNumbered, DriversFlagged, NoNode,
                        Nodes, Drivers

(* What every step of a driver has in common: it moves on, and may change  *)
(* the state of its node, not to "none".                                   *)
Moved(d, s) ==
  /\ driver' \in [Drivers -> DriverRecord]
  /\ \A e \in Drivers \ {d} : driver'[e] = driver[e]
  /\ driver'[d].node = driver[d].node
  /\ driver'[d].pc # "idle"
  /\ s \in States \ {"none"}
  /\ node' = [node EXCEPT ![driver[d].node].state = s]
  /\ UNCHANGED <<macIndex, created, spawned>>

(* The step and the state it leaves the node in agree.                     *)
Agree(pc, s) ==
  /\ pc \in {"snapshot", "claim"} => s = "new"
  /\ pc \in {"prepare", "poll", "claim_run"} => s = "deploying"
  /\ pc \in {"run", "finish"} => s = "run_image"
  /\ pc = "record" => s = "done"

LEMMA MovedInv ==
  ASSUME CInv, NEW d \in Drivers, driver[d].pc \notin {"idle", "ended"},
         NEW s, Moved(d, s), Agree(driver'[d].pc, s),
         deployed' \subseteq NIC, stateFile' \subseteq NIC,
         agent' \in [Machine -> AgentRecord],
         disk' \in [Machine -> {"old", "partial", "image"}]
  PROVE  CInv'
<1> DEFINE n == driver[d].node
<1>1. /\ n \in Nodes /\ d <= spawned /\ node[n].driverStarted /\ n # NoNode
      /\ node \in [Nodes -> NodeRecord]
  BY Driving, DeployAssumption DEF CInv, TypeOK, Nodes, NoNode
<1>2. /\ node' \in [Nodes -> NodeRecord]
      /\ \A i \in Nodes : /\ node'[i].driverStarted = node[i].driverStarted
                          /\ node'[i].state = IF i = n THEN s ELSE node[i].state
  BY <1>1 DEF Moved, NodeRecord
<1>3. TypeOK'
  BY <1>2 DEF Moved, CInv, TypeOK
<1>4. DriversNumbered'
  BY <1>1 DEF Moved, CInv, DriversNumbered, Drivers
<1>5. DriversFlagged'
  <2>1. \A e \in Drivers : driver[e].node \in Nodes \cup {NoNode}
    BY DEF CInv, TypeOK, DriverRecord
  <2> QED BY <1>1, <1>2, <2>1 DEF Moved, CInv, DriversFlagged
<1>6. NodesDrawn'
  BY <1>1, <1>2 DEF Moved, CInv, NodesDrawn
<1>7. OneDriver'
  BY DEF Moved, CInv, OneDriver
<1>8. DriverAgrees'
  <2>1. ASSUME NEW e \in Drivers \ {d}, driver[e].pc \notin {"idle", "ended"}
        PROVE  node'[driver'[e].node].state = node[driver[e].node].state /\ driver'[e] = driver[e]
    <3>1. driver[e].node \in Nodes /\ driver[e].node # n
      BY <1>1, <2>1, Driving DEF CInv, OneDriver
    <3> QED BY <1>2, <2>1, <3>1 DEF Moved
  <2>2. node'[driver'[d].node].state = s
    BY <1>1, <1>2 DEF Moved
  <2>3. ASSUME NEW e \in Drivers PROVE Agree(driver'[e].pc, node'[driver'[e].node].state)
    <3>1. CASE e = d
      BY <2>2, <3>1
    <3>2. CASE e # d /\ driver[e].pc \notin {"idle", "ended"}
      BY <2>1, <3>2 DEF CInv, DriverAgrees, Agree
    <3>3. CASE e # d /\ driver[e].pc \in {"idle", "ended"}
      BY <3>3 DEF Moved, Agree
    <3> QED BY <3>1, <3>2, <3>3
  <2> QED BY <2>3 DEF DriverAgrees, Agree
<1> QED BY <1>3, <1>4, <1>5, <1>6, <1>7, <1>8 DEF CInv

(* Every step of a driver moves it on, from the state that DriverAgrees    *)
(* gives to one that agrees with its next step.                            *)
LEMMA DriveMoves ==
  ASSUME CInv, NEW d \in Drivers, Drive(d)
  PROVE  /\ driver[d].pc \notin {"idle", "ended"}
         /\ deployed' \subseteq NIC /\ stateFile' \subseteq NIC
         /\ agent' \in [Machine -> AgentRecord]
         /\ disk' \in [Machine -> {"old", "partial", "image"}]
         /\ \E s \in States :
              /\ Moved(d, s) /\ Agree(driver'[d].pc, s)
              /\ s = node[driver[d].node].state \/ <<node[driver[d].node].state, s>> \in Moves
<1> DEFINE n == driver[d].node
           from == node[n].state
<1>1. driver[d].pc \notin {"idle", "ended"}
  BY DEF Drive, Snapshot, ClaimDeploy, PrepareImage, PollEnds, PollAgain, ClaimRun, RunImage,
         Finish, Record, At
<1>2. /\ n \in Nodes /\ from \in States \ {"none"} /\ node[n].driverStarted
      /\ node \in [Nodes -> NodeRecord] /\ driver \in [Drivers -> DriverRecord]
  BY <1>1, Driving DEF CInv, TypeOK, NodeRecord, NodesDrawn
<1>3. Agree(driver[d].pc, from)
  BY DEF CInv, DriverAgrees, Agree
<1>4. /\ deployed \subseteq NIC /\ stateFile \subseteq NIC
      /\ agent \in [Machine -> AgentRecord]
      /\ disk \in [Machine -> {"old", "partial", "image"}]
      /\ node[n].macs \subseteq NIC
  BY <1>2 DEF CInv, TypeOK, NodeRecord
<1>5. node = [node EXCEPT ![n].state = from]
  BY <1>2 DEF NodeRecord
(* The two shapes that most steps have. *)
<1>6. ASSUME NEW pc \in Steps \ {"idle"}, Goto(d, pc), UNCHANGED <<node, macIndex, created, spawned>>
      PROVE  Moved(d, from) /\ driver'[d].pc = pc
  BY <1>2, <1>5, <1>6 DEF Goto, Moved, DriverRecord
<1>7. ASSUME NEW pc \in Steps \ {"idle"}, NEW s \in States \ {"none"}, Goto(d, pc), ForceState(d, s),
             UNCHANGED <<macIndex, created, spawned>>
      PROVE  Moved(d, s) /\ driver'[d].pc = pc
  BY <1>2, <1>7 DEF Goto, ForceState, Moved, DriverRecord
<1> DEFINE Good == \E s \in States : /\ Moved(d, s) /\ Agree(driver'[d].pc, s)
                                     /\ s = from \/ <<from, s>> \in Moves
<1> USE DEF At, notNodes, tracker, machines
<1>8. CASE Snapshot(d)
  <2>1. Moved(d, from) /\ driver'[d].pc \in {"ended", "claim"}
    BY <1>2, <1>5, <1>8 DEF Snapshot, Moved, DriverRecord, NodeRecord, Steps
  <2>2. Good
    BY <1>2, <1>3, <1>8, <2>1 DEF Agree, Snapshot
  <2> QED BY <1>1, <1>4, <1>8, <2>2 DEF Snapshot
<1>9. CASE ClaimDeploy(d)
  <2>1. from = "new"
    BY <1>3, <1>9 DEF Agree, ClaimDeploy
  <2>2. Goto(d, "prepare") /\ ForceState(d, "deploying") /\ UNCHANGED <<macIndex, created, spawned>>
    BY <1>9, <2>1 DEF ClaimDeploy, Claim
  <2>3. Moved(d, "deploying") /\ driver'[d].pc = "prepare"
    BY <1>7, <2>2 DEF Steps, States
  <2>4. Good
    BY <2>1, <2>3 DEF Agree, Moves, States
  <2> QED BY <1>1, <1>4, <1>9, <2>4 DEF ClaimDeploy
<1>10. ASSUME Fail(d), UNCHANGED <<macIndex, created, spawned>>, from \in {"deploying", "run_image"}
       PROVE  Good
  <2>1. Moved(d, "failed") /\ driver'[d].pc = "ended"
    BY <1>7, <1>10 DEF Fail, Steps, States
  <2> QED BY <1>10, <2>1 DEF Agree, Moves, States
<1>11. CASE PrepareImage(d)
  <2>1. from = "deploying"
    BY <1>3, <1>11 DEF Agree, PrepareImage
  <2>2. ASSUME Goto(d, "poll"), UNCHANGED <<node, macIndex, created, spawned>> PROVE Good
    <3>1. Moved(d, from) /\ driver'[d].pc = "poll"
      BY <1>6, <2>2 DEF Steps
    <3> QED BY <1>2, <2>1, <3>1 DEF Agree
  <2>3. Good
    BY <1>10, <1>11, <2>1, <2>2 DEF PrepareImage, PrepareTaken
  <2>4. /\ agent' \in [Machine -> AgentRecord]
        /\ disk' \in [Machine -> {"old", "partial", "image"}]
    <3>1. CASE UNCHANGED <<agent, disk>>
      BY <1>4, <3>1
    <3>2. CASE PrepareTaken(d)
      <4>1. PICK k \in Machine :
               /\ agent' = [agent EXCEPT ![k].command = d, ![k].status = "RUNNING"]
               /\ disk' = [disk EXCEPT ![k] = "partial"]
        BY <3>2 DEF PrepareTaken
      <4>2. [agent[k] EXCEPT !.command = d, !.status = "RUNNING"] \in AgentRecord
        BY <1>4 DEF AgentRecord
      <4>3. agent' = [agent EXCEPT ![k] = [agent[k] EXCEPT !.command = d, !.status = "RUNNING"]]
        BY <1>4, <4>1
      <4> QED BY <1>4, <4>1, <4>2, <4>3
    <3> QED BY <1>11, <3>1, <3>2 DEF PrepareImage
  <2> QED BY <1>1, <1>4, <1>11, <2>3, <2>4 DEF PrepareImage
<1>12. CASE PollEnds(d)
  <2>1. from = "deploying"
    BY <1>3, <1>12 DEF Agree, PollEnds
  <2>2. ASSUME Goto(d, "claim_run"), UNCHANGED <<node, macIndex, created, spawned>> PROVE Good
    <3>1. Moved(d, from) /\ driver'[d].pc = "claim_run"
      BY <1>6, <2>2 DEF Steps
    <3> QED BY <1>2, <2>1, <3>1 DEF Agree
  <2>3. Good
    BY <1>10, <1>12, <2>1, <2>2 DEF PollEnds
  <2> QED BY <1>1, <1>4, <1>12, <2>3 DEF PollEnds
<1>13. CASE PollAgain(d)
  <2>1. from = "deploying"
    BY <1>3, <1>13 DEF Agree, PollAgain
  <2>2. CASE driver[d].polls = MaxPolls
    BY <1>1, <1>4, <1>10, <1>13, <2>1, <2>2 DEF PollAgain
  <2>3. CASE driver[d].polls # MaxPolls
    <3>1. driver' = [driver EXCEPT ![d].polls = @ + 1] /\ UNCHANGED <<node, macIndex, created, spawned>>
      BY <1>13, <2>3 DEF PollAgain
    <3>2. driver[d].polls + 1 \in 0 .. MaxPolls
      BY <1>2, <2>3, DeployAssumption DEF DriverRecord
    <3>3. Moved(d, from) /\ driver'[d].pc = driver[d].pc
      BY <1>1, <1>2, <1>5, <3>1, <3>2 DEF Moved, DriverRecord
    <3>4. Good
      BY <1>2, <1>3, <3>3
    <3> QED BY <1>1, <1>4, <1>13, <3>4 DEF PollAgain
  <2> QED BY <2>2, <2>3
<1>14. CASE ClaimRun(d)
  <2>1. from = "deploying"
    BY <1>3, <1>14 DEF Agree, ClaimRun
  <2>2. Goto(d, "run") /\ ForceState(d, "run_image") /\ UNCHANGED <<macIndex, created, spawned>>
    BY <1>14, <2>1 DEF ClaimRun, Claim
  <2>3. Moved(d, "run_image") /\ driver'[d].pc = "run"
    BY <1>7, <2>2 DEF Steps, States
  <2>4. Good
    BY <2>1, <2>3 DEF Agree, Moves, States
  <2> QED BY <1>1, <1>4, <1>14, <2>4 DEF ClaimRun
<1>15. CASE RunImage(d)
  <2>1. from = "run_image"
    BY <1>3, <1>15 DEF Agree, RunImage
  <2>2. ASSUME Goto(d, "finish"), UNCHANGED <<node, macIndex, created, spawned>> PROVE Good
    <3>1. Moved(d, from) /\ driver'[d].pc = "finish"
      BY <1>6, <2>2 DEF Steps
    <3> QED BY <1>2, <2>1, <3>1 DEF Agree
  <2>3. Good
    BY <1>10, <1>15, <2>1, <2>2 DEF RunImage, RunTaken, RunRefused
  <2>4. NoAgent \in AgentRecord
    BY DEF NoAgent, AgentRecord
  <2>5. /\ agent' \in [Machine -> AgentRecord]
        /\ disk' \in [Machine -> {"old", "partial", "image"}]
    BY <1>4, <1>15, <2>4 DEF RunImage, RunTaken, RunRefused
  <2> QED BY <1>1, <1>4, <1>15, <2>3, <2>5 DEF RunImage
<1>16. CASE Finish(d)
  <2>1. from = "run_image"
    BY <1>3, <1>16 DEF Agree, Finish
  <2>2. Moved(d, "done") /\ driver'[d].pc = "record"
    BY <1>7, <1>16 DEF Finish, Steps, States
  <2>3. Good
    BY <2>1, <2>2 DEF Agree, Moves, States
  <2> QED BY <1>1, <1>4, <1>16, <2>3 DEF Finish
<1>17. CASE Record(d)
  <2>1. Goto(d, "ended") /\ UNCHANGED <<node, macIndex, created, spawned>>
    BY <1>17 DEF Record
  <2>2. Moved(d, from) /\ driver'[d].pc = "ended"
    BY <1>6, <2>1 DEF Steps
  <2>3. Good
    BY <1>2, <2>2 DEF Agree
  <2> QED BY <1>1, <1>4, <1>17, <2>3 DEF Record
<1> QED BY <1>8, <1>9, <1>11, <1>12, <1>13, <1>14, <1>15, <1>16, <1>17 DEF Drive

-----------------------------------------------------------------------------
(* The handlers, the machines and the restart. *)

(* What the handlers make of the records that they change.                 *)
LEMMA Told ==
  ASSUME NEW a \in AgentRecord, NEW i \in Nodes \cup {NoNode}
  PROVE  [a EXCEPT !.uuid = i] \in AgentRecord
BY DEF AgentRecord

LEMMA Started ==
  ASSUME NEW r \in DriverRecord, NEW n \in Nodes
  PROVE  LET started == [r EXCEPT !.pc = "snapshot", !.node = n] IN
         started \in DriverRecord /\ started.pc = "snapshot" /\ started.node = n
BY DEF DriverRecord, Steps

LEMMA Flagged ==
  ASSUME NEW r \in NodeRecord, NEW url \in URL \cup {NoURL}
  PROVE  LET flagged == [r EXCEPT !.url = url, !.driverStarted = TRUE] IN
         flagged \in NodeRecord /\ flagged.driverStarted = TRUE /\ flagged.state = r.state
BY DEF NodeRecord

LEMMA Fresh ==
  ASSUME NEW S \in SUBSET NIC
  PROVE  LET fresh == [Unregistered EXCEPT !.macs = S, !.state = "new"] IN
         fresh \in NodeRecord /\ fresh.driverStarted = FALSE /\ fresh.state = "new"
BY DEF Unregistered, NodeRecord, States

(* What a lookup does: it finds a node, or creates one that was not drawn. *)
Creates(S, n) ==
  /\ created < MaxNodes
  /\ n = created + 1
  /\ created' = n
  /\ node' = [node EXCEPT ![n] = [Unregistered EXCEPT !.macs = S, !.state = "new"]]
  /\ macIndex' = Indexed(S, n)

LEMMA FoundOrCreated ==
  ASSUME NEW S, NEW n, GetOrCreate(S, n)
  PROVE  \/ n \in Known(S) /\ UNCHANGED <<node, macIndex, created>>
         \/ Known(S) = {} /\ Creates(S, n)
BY DEF GetOrCreate, Creates

LEMMA LookupInv ==
  ASSUME CInv, NEW k \in Machine, NEW S \in Reports[k], Lookup(k, S)
  PROVE  CInv'
<1> USE DeployAssumption
<1>1. /\ driver' = driver /\ spawned' = spawned /\ deployed' = deployed
      /\ stateFile' = stateFile /\ disk' = disk
      /\ S \subseteq NIC
  BY DEF Lookup, tracker
<1>2. PICK m \in Nodes : /\ GetOrCreate(S, m)
                         /\ agent' = [agent EXCEPT ![k].uuid = m] \/ UNCHANGED agent
  BY DEF Lookup
<1>3. agent' \in [Machine -> AgentRecord]
  <2>1. [agent[k] EXCEPT !.uuid = m] \in AgentRecord
    BY Told DEF CInv, TypeOK
  <2> QED BY <1>2, <2>1 DEF CInv, TypeOK
<1>4. CASE UNCHANGED <<node, macIndex, created>>
  <2>1. TypeOK'
    BY <1>1, <1>4, <1>3 DEF CInv, TypeOK
  <2> QED BY <1>1, <1>4, <2>1
          DEF CInv, DriversNumbered, DriversFlagged, NodesDrawn, OneDriver, DriverAgrees
<1>5. CASE Creates(S, m)
  <2>1. created' \in Nodes /\ created' > created /\ created \in Nat
    BY <1>5 DEF CInv, TypeOK, Nodes, Creates
  <2>2. /\ macIndex' \in [NIC -> Nodes \cup {NoNode}]
        /\ created < MaxNodes /\ created' = created + 1
    BY <1>5, <2>1 DEF CInv, TypeOK, Creates, Indexed
  <2> DEFINE fresh == [Unregistered EXCEPT !.macs = S, !.state = "new"]
  <2>3. fresh \in NodeRecord /\ fresh.state = "new" /\ fresh.driverStarted = FALSE
    BY <1>1, Fresh
  <2>4. node' = [node EXCEPT ![created'] = fresh]
    BY <1>5 DEF Creates
  <2> HIDE DEF fresh
  <2>5. TypeOK'
    BY <1>1, <1>3, <2>1, <2>2, <2>3, <2>4 DEF CInv, TypeOK, Nodes
  (* No driver has the node that is created: its UUID was not drawn. *)
  <2>6. node[created'].state = "none" /\ ~node[created'].driverStarted
    BY <2>1 DEF CInv, NodesDrawn
  <2>7. \A d \in Drivers : driver[d].node # created'
    BY <2>1, <2>6 DEF CInv, DriversFlagged, NoNode, Nodes
  <2>8. \A n \in Nodes : node'[n] = IF n = created' THEN fresh ELSE node[n]
    BY <2>1, <2>4 DEF CInv, TypeOK
  <2>9. \A d \in Drivers : driver[d].node # NoNode => node'[driver[d].node] = node[driver[d].node]
    <3>1. \A d \in Drivers : driver[d].node \in Nodes \cup {NoNode}
      BY DEF CInv, TypeOK, DriverRecord
    <3> QED BY <2>7, <2>8, <3>1
  <2>10. NodesDrawn'
    BY <2>1, <2>2, <2>3, <2>8 DEF CInv, NodesDrawn, Nodes
  <2>11. DriversFlagged' /\ DriversNumbered' /\ OneDriver'
    BY <1>1, <2>9 DEF CInv, DriversFlagged, DriversNumbered, OneDriver
  <2>12. DriverAgrees'
    <3>1. \A d \in Drivers : driver[d].node = NoNode => driver[d].pc \in {"idle", "ended"}
      BY DEF CInv, DriversNumbered
    <3> QED BY <1>1, <2>9, <3>1 DEF CInv, DriverAgrees
  <2> QED BY <2>5, <2>10, <2>11, <2>12 DEF CInv
<1>6. UNCHANGED <<node, macIndex, created>> \/ Creates(S, m)
  BY <1>2, FoundOrCreated
<1> QED BY <1>4, <1>5, <1>6

LEMMA HeartbeatInv ==
  ASSUME CInv, NEW k \in Machine, NEW url \in URL \cup {NoURL}, Heartbeat(k, url)
  PROVE  CInv'
<1> USE DeployAssumption
<1> DEFINE n == agent[k].uuid
<1>1. /\ macIndex' = macIndex /\ created' = created /\ deployed' = deployed
      /\ stateFile' = stateFile /\ disk' = disk /\ agent' = agent
      /\ n \in Nodes /\ node[n].state # "none"
      /\ node \in [Nodes -> NodeRecord] /\ driver \in [Drivers -> DriverRecord]
  BY DEF Heartbeat, tracker, machines, CInv, TypeOK, AgentRecord
<1>2. CASE /\ ~StartsDriver(n)
           /\ node' = [node EXCEPT ![n].url = url]
           /\ UNCHANGED <<driver, spawned>>
  <2>1. /\ node' \in [Nodes -> NodeRecord]
        /\ \A i \in Nodes : /\ node'[i].state = node[i].state
                            /\ node'[i].driverStarted = node[i].driverStarted
    <3>1. [node[n] EXCEPT !.url = url] \in NodeRecord
      BY <1>1 DEF NodeRecord
    <3> QED BY <1>1, <1>2, <3>1 DEF NodeRecord
  <2>2. TypeOK'
    BY <1>1, <1>2, <2>1 DEF CInv, TypeOK
  <2>3. \A d \in Drivers : driver[d].node \in Nodes \cup {NoNode}
    BY <1>1 DEF DriverRecord
  <2>4. DriverAgrees'
    <3>1. \A d \in Drivers : driver[d].node = NoNode => driver[d].pc \in {"idle", "ended"}
      BY DEF CInv, DriversNumbered
    <3> QED BY <1>2, <2>1, <2>3, <3>1 DEF CInv, DriverAgrees
  <2> QED BY <1>1, <1>2, <2>1, <2>2, <2>3, <2>4
          DEF CInv, DriversNumbered, DriversFlagged, NodesDrawn, OneDriver
<1>3. CASE /\ StartsDriver(n)
           /\ spawned < MaxDrivers
           /\ node' = [node EXCEPT ![n].url = url, ![n].driverStarted = TRUE]
           /\ spawned' = spawned + 1
           /\ driver' = [driver EXCEPT ![spawned'].pc = "snapshot", ![spawned'].node = n]
  <2> DEFINE d0 == spawned'
  <2>1. d0 \in Drivers /\ spawned \in Nat /\ d0 > spawned
    BY <1>3 DEF CInv, TypeOK, Drivers
  <2>2. driver[d0].pc = "idle" /\ driver[d0].node = NoNode
    BY <2>1 DEF CInv, DriversNumbered
  <2>3. /\ driver' \in [Drivers -> DriverRecord]
        /\ driver'[d0].pc = "snapshot" /\ driver'[d0].node = n
        /\ \A d \in Drivers \ {d0} : driver'[d] = driver[d]
    <3> DEFINE started == [driver[d0] EXCEPT !.pc = "snapshot", !.node = n]
    <3>1. started \in DriverRecord /\ started.pc = "snapshot" /\ started.node = n
      BY <1>1, <2>1, Started
    <3>2. driver' = [driver EXCEPT ![d0] = started]
      BY <1>1, <1>3, <2>1
    <3> HIDE DEF started
    <3> QED BY <1>1, <2>1, <3>1, <3>2
  <2>4. /\ node' \in [Nodes -> NodeRecord]
        /\ node'[n].driverStarted = TRUE
        /\ \A i \in Nodes : node'[i].state = node[i].state
        /\ \A i \in Nodes : node[i].driverStarted => node'[i].driverStarted
        /\ \A i \in Nodes \ {n} : node'[i].driverStarted = node[i].driverStarted
    <3> DEFINE flagged == [node[n] EXCEPT !.url = url, !.driverStarted = TRUE]
    <3>1. /\ flagged \in NodeRecord
          /\ flagged.driverStarted = TRUE /\ flagged.state = node[n].state
      BY <1>1, Flagged
    <3>2. node' = [node EXCEPT ![n] = flagged]
      BY <1>1, <1>3
    <3> HIDE DEF flagged
    <3> QED BY <1>1, <3>1, <3>2
  (* The flag was not set: the node has no driver yet. *)
  <2>5. \A d \in Drivers : driver[d].node # n
    BY <1>1, <1>3 DEF CInv, DriversFlagged, StartsDriver, NoNode, Nodes
  <2>6. \A d \in Drivers : driver[d].node \in Nodes \cup {NoNode}
    BY <1>1 DEF DriverRecord
  <2>7. TypeOK'
    BY <1>1, <1>3, <2>1, <2>3, <2>4 DEF CInv, TypeOK, Drivers
  <2>8. DriversNumbered'
    <3>1. \A d \in Drivers \ {d0} : d > spawned <=> d > d0
      BY <1>3, <2>1 DEF Drivers
    <3>2. ~(d0 > d0)
      BY <2>1 DEF Drivers
    <3> QED BY <1>1, <2>3, <3>1, <3>2 DEF CInv, DriversNumbered, NoNode, Nodes
  <2>9. DriversFlagged'
    BY <2>3, <2>4, <2>6 DEF CInv, DriversFlagged
  <2>10. NodesDrawn'
    BY <1>1, <2>4 DEF CInv, NodesDrawn
  <2>11. OneDriver'
    BY <2>3, <2>5 DEF CInv, OneDriver
  <2>12. DriverAgrees'
    <3>1. \A d \in Drivers : driver[d].node = NoNode => driver[d].pc \in {"idle", "ended"}
      BY DEF CInv, DriversNumbered
    <3>2. node'[n].state = "new"
      BY <1>1, <1>3, <2>4 DEF StartsDriver
    <3> QED BY <2>3, <2>4, <2>6, <3>1, <3>2 DEF CInv, DriverAgrees
  <2> QED BY <2>7, <2>8, <2>9, <2>10, <2>11, <2>12 DEF CInv
<1> QED BY <1>2, <1>3 DEF Heartbeat

LEMMA MachineInv ==
  ASSUME CInv, NEW k \in Machine, (\E x \in NIC : NetBoot(k, x)) \/ AgentUp(k) \/ AgentEnds(k)
  PROVE  CInv'
<1>1. /\ UNCHANGED <<node, macIndex, created, driver, spawned, deployed, stateFile>>
      /\ disk' \in [Machine -> {"old", "partial", "image"}]
  BY DEF NetBoot, AgentUp, AgentEnds, server, tracker, CInv, TypeOK
<1>2. agent' \in [Machine -> AgentRecord]
  <2>1. ASSUME NEW u \in URL PROVE [NoAgent EXCEPT !.url = u] \in AgentRecord
    BY DEF NoAgent, AgentRecord
  <2>2. CASE \E x \in NIC : NetBoot(k, x)
    BY <2>1, <2>2 DEF NetBoot, CInv, TypeOK
  <2>3. CASE AgentEnds(k)
    <3>1. PICK t \in {"SUCCEEDED", "FAILED"} : agent' = [agent EXCEPT ![k].status = t]
      BY <2>3 DEF AgentEnds
    <3>2. [agent[k] EXCEPT !.status = t] \in AgentRecord
      BY <3>1 DEF CInv, TypeOK, AgentRecord
    <3> QED BY <3>1, <3>2 DEF CInv, TypeOK
  <2>4. CASE AgentUp(k)
    <3>1. [agent[k] EXCEPT !.on = TRUE] \in AgentRecord
      BY DEF CInv, TypeOK, AgentRecord
    <3> QED BY <2>4, <3>1 DEF AgentUp, CInv, TypeOK
  <2> QED BY <2>2, <2>3, <2>4
<1>3. TypeOK'
  BY <1>1, <1>2 DEF CInv, TypeOK
<1> QED BY <1>1, <1>3
        DEF CInv, DriversNumbered, DriversFlagged, NodesDrawn, OneDriver, DriverAgrees

LEMMA RestartInv ==
  ASSUME CInv, Restart
  PROVE  CInv'
<1> USE DeployAssumption
<1>1. /\ created' = created /\ spawned' = spawned /\ stateFile' = stateFile
      /\ agent' = agent /\ disk' = disk /\ deployed' = stateFile
      /\ macIndex' = [x \in NIC |-> NoNode]
  BY DEF Restart, machines
<1>2. /\ NoDriver \in DriverRecord /\ [NoDriver EXCEPT !.pc = "ended"] \in DriverRecord
      /\ Unregistered \in NodeRecord
  BY DEF NoDriver, DriverRecord, Unregistered, NodeRecord, Steps, States
<1>3. \A n \in Nodes : node'[n] = Unregistered
  BY DEF Restart
<1>4. /\ driver' \in [Drivers -> DriverRecord]
      /\ \A d \in Drivers : /\ driver'[d].node = NoNode
                            /\ driver'[d].pc = IF driver[d].pc = "idle" THEN "idle" ELSE "ended"
  BY <1>2 DEF Restart, NoDriver
<1>5. node' \in [Nodes -> NodeRecord]
  BY <1>2 DEF Restart
<1>6. TypeOK'
  BY <1>1, <1>4, <1>5 DEF CInv, TypeOK
<1>7. \A n \in Nodes : node'[n].state = "none" /\ node'[n].driverStarted = FALSE
  BY <1>3 DEF Unregistered
<1> QED BY <1>1, <1>4, <1>6, <1>7
        DEF CInv, DriversNumbered, DriversFlagged, NodesDrawn, OneDriver, DriverAgrees

LEMMA DeployInit == Init => CInv
<1> SUFFICES ASSUME Init PROVE CInv
  OBVIOUS
<1> USE DeployAssumption
<1>1. NoDriver \in DriverRecord /\ Unregistered \in NodeRecord /\ NoAgent \in AgentRecord
  BY DEF NoDriver, DriverRecord, Unregistered, NodeRecord, NoAgent, AgentRecord, Steps, States
<1>2. TypeOK
  BY <1>1 DEF Init, TypeOK
<1>3. /\ \A d \in Drivers : driver[d].node = NoNode /\ driver[d].pc = "idle" /\ d > spawned
      /\ \A n \in Nodes : node[n].state = "none" /\ node[n].driverStarted = FALSE
  BY DEF Init, NoDriver, Unregistered, Drivers
<1> QED BY <1>2, <1>3
        DEF CInv, DriversNumbered, DriversFlagged, NodesDrawn, OneDriver, DriverAgrees

LEMMA DeployStep == CInv /\ [Next]_vars => CInv'
<1> SUFFICES ASSUME CInv, [Next]_vars PROVE CInv'
  OBVIOUS
<1>1. ASSUME NEW d \in Drivers, Drive(d) PROVE CInv'
  BY <1>1, DriveMoves, MovedInv
<1>2. CASE UNCHANGED vars
  BY <1>2 DEF vars, server, tracker, machines, CInv, TypeOK, DriversNumbered, DriversFlagged,
              NodesDrawn, OneDriver, DriverAgrees
<1> QED BY <1>1, <1>2, LookupInv, HeartbeatInv, MachineInv, RestartInv DEF Next

LEMMA DriversInvariant == Spec => []CInv
BY DeployInit, DeployStep, PTL DEF Spec

-----------------------------------------------------------------------------
(* No node is left without a driver, and every driver comes to its end.    *)

(* Each step of a driver brings it closer to its end, and it does not end  *)
(* before its node has a verdict, but where it finds no callback URL.      *)
LEMMA DriveOutcome ==
  ASSUME CInv, NEW d \in Drivers, Drive(d)
  PROVE  /\ Closer(d)
         /\ At(d, "ended")' => \/ node'[driver[d].node].state \in {"done", "failed"}
                               \/ node'[driver[d].node].state = "new" /\ driver'[d].url = NoURL
<1> DEFINE n == driver[d].node
           Outcome == \/ node'[n].state \in {"done", "failed"}
                      \/ node'[n].state = "new" /\ driver'[d].url = NoURL
<1>1. /\ n \in Nodes /\ node \in [Nodes -> NodeRecord] /\ driver \in [Drivers -> DriverRecord]
      /\ \A pc \in {"snapshot", "claim"} : At(d, pc) => node[n].state = "new"
      /\ \A pc \in {"prepare", "poll", "claim_run"} : At(d, pc) => node[n].state = "deploying"
      /\ At(d, "record") => node[n].state = "done"
  BY DriveMoves, Driving DEF CInv, TypeOK, DriverAgrees, At
<1>2. \A pc : Goto(d, pc) => driver'[d].pc = pc
  BY <1>1 DEF Goto, DriverRecord
<1>3. \A s : ForceState(d, s) => node'[n].state = s
  BY <1>1 DEF ForceState, NodeRecord
<1>4. Fail(d) => driver'[d].pc = "ended" /\ node'[n].state = "failed"
  BY <1>2, <1>3 DEF Fail
<1> USE DEF At, Closer, StepsLeft
<1>5. CASE Snapshot(d)
  <2>1. /\ driver'[d].pc \in {"claim", "ended"}
        /\ driver'[d].pc = "ended" => driver'[d].url = NoURL
    <3> DEFINE url == node[n].url
               pc == IF url = NoURL THEN "ended" ELSE "claim"
    <3>1. driver' = [driver EXCEPT ![d].url = url, ![d].pc = pc]
      BY <1>5 DEF Snapshot
    <3>2. driver'[d].pc = pc /\ driver'[d].url = url
      <4> HIDE DEF url, pc
      <4> QED BY <1>1, <3>1 DEF DriverRecord
    <3> QED BY <3>2
  <2>2. node' = node
    BY <1>5 DEF Snapshot
  <2> QED BY <1>1, <1>5, <2>1, <2>2 DEF Snapshot
<1>6. CASE ClaimDeploy(d)
  BY <1>1, <1>2, <1>6 DEF ClaimDeploy, Claim
<1>7. CASE PrepareImage(d)
  BY <1>2, <1>4, <1>7 DEF PrepareImage, PrepareTaken
<1>8. CASE PollEnds(d)
  BY <1>2, <1>4, <1>8 DEF PollEnds
<1>9. CASE PollAgain(d)
  <2>1. CASE driver[d].polls # MaxPolls
    <3>1. driver' = [driver EXCEPT ![d].polls = @ + 1]
      BY <1>9, <2>1 DEF PollAgain
    <3>2. driver[d].polls \in Nat
      BY <1>1, DeployAssumption DEF DriverRecord
    <3>3. driver'[d].pc = driver[d].pc /\ driver'[d].polls = driver[d].polls + 1
      BY <1>1, <3>1 DEF DriverRecord
    <3> QED BY <1>9, <3>2, <3>3 DEF PollAgain
  <2> QED BY <1>4, <1>9, <2>1 DEF PollAgain
<1>10. CASE ClaimRun(d)
  BY <1>1, <1>2, <1>10 DEF ClaimRun, Claim
<1>11. CASE RunImage(d)
  BY <1>2, <1>4, <1>11 DEF RunImage, RunTaken, RunRefused
<1>12. CASE Finish(d)
  BY <1>2, <1>12 DEF Finish
<1>13. CASE Record(d)
  BY <1>1, <1>2, <1>13 DEF Record
<1> QED BY <1>5, <1>6, <1>7, <1>8, <1>9, <1>10, <1>11, <1>12, <1>13 DEF Drive

LEMMA DriveAttends ==
  ASSUME CInv, Attended, NEW d \in Drivers, Drive(d)
  PROVE  Attended'
<1> SUFFICES ASSUME NEW n \in Nodes, node'[n].driverStarted
             PROVE  \/ node'[n].state \in {"done", "failed"}
                    \/ \E e \in Drivers :
                         /\ driver'[e].node = n
                         /\ \/ Runs(e)'
                            \/ node'[n].state = "new" /\ At(e, "ended")' /\ driver'[e].url = NoURL
  BY DEF Attended, Runs, At
<1>1. PICK s \in States : Moved(d, s)
  BY DriveMoves
<1>2. /\ driver[d].node \in Nodes /\ Runs(d) /\ node \in [Nodes -> NodeRecord]
  BY DriveMoves, Driving DEF CInv, TypeOK, Runs
<1>3. CASE n = driver[d].node
  <2>1. CASE At(d, "ended")'
    BY <1>1, <1>3, <2>1, DriveOutcome DEF Moved
  <2>2. CASE ~At(d, "ended")'
    BY <1>1, <1>3, <2>2 DEF Moved, Runs, At
  <2> QED BY <2>1, <2>2
<1>4. CASE n # driver[d].node
  <2>1. node'[n] = node[n]
    BY <1>1, <1>2, <1>4 DEF Moved
  <2>2. \A e \in Drivers : driver[e].node = n => driver'[e] = driver[e]
    BY <1>1, <1>4 DEF Moved
  <2> QED BY <2>1, <2>2 DEF Attended, Runs, At
<1> QED BY <1>3, <1>4

LEMMA HandlersAttend ==
  ASSUME CInv, Attended,
         \/ \E k \in Machine : \E S \in Reports[k] : Lookup(k, S)
         \/ \E k \in Machine, url \in URL \cup {NoURL} : Heartbeat(k, url)
  PROVE  Attended'
<1>1. node \in [Nodes -> NodeRecord] /\ driver \in [Drivers -> DriverRecord]
  BY DEF CInv, TypeOK
<1> USE DEF Attended, Runs, At
<1>2. ASSUME NEW k \in Machine, NEW S \in Reports[k], Lookup(k, S) PROVE Attended'
  <2>1. PICK n \in Nodes : GetOrCreate(S, n) /\ UNCHANGED driver
    BY <1>2 DEF Lookup
  <2>2. CASE UNCHANGED node
    BY <2>1, <2>2
  <2>3. CASE node' = [node EXCEPT ![n] = [Unregistered EXCEPT !.macs = S, !.state = "new"]]
    <3>1. ~node'[n].driverStarted /\ \A m \in Nodes \ {n} : node'[m] = node[m]
      BY <1>1, <2>3 DEF Unregistered
    <3> QED BY <2>1, <3>1
  <2> QED BY <2>1, <2>2, <2>3 DEF GetOrCreate
<1>3. ASSUME NEW k \in Machine, NEW url \in URL \cup {NoURL}, Heartbeat(k, url) PROVE Attended'
  <2> DEFINE n == agent[k].uuid
  <2>1. n \in Nodes
    BY <1>3 DEF Heartbeat, CInv, TypeOK, AgentRecord
  <2>2. CASE node' = [node EXCEPT ![n].url = url] /\ UNCHANGED driver
    <3>1. \A m \in Nodes : /\ node'[m].state = node[m].state
                            /\ node'[m].driverStarted = node[m].driverStarted
      BY <1>1, <2>1, <2>2 DEF NodeRecord
    <3> QED BY <2>2, <3>1
  <2>3. CASE /\ spawned < MaxDrivers /\ spawned' = spawned + 1
             /\ node' = [node EXCEPT ![n].url = url, ![n].driverStarted = TRUE]
             /\ driver' = [driver EXCEPT ![spawned'].pc = "snapshot", ![spawned'].node = n]
    <3>1. spawned' \in Drivers /\ spawned' > spawned
      BY <2>3, DeployAssumption DEF CInv, TypeOK, Drivers
    <3>2. driver[spawned'].node = NoNode
      BY <3>1 DEF CInv, DriversNumbered
    <3>3. /\ driver'[spawned'].pc = "snapshot" /\ driver'[spawned'].node = n
          /\ \A d \in Drivers \ {spawned'} : driver'[d] = driver[d]
      BY <1>1, <2>3, <3>1 DEF DriverRecord
    <3>4. \A m \in Nodes \ {n} : node'[m] = node[m]
      BY <1>1, <2>3
    <3>5. \A m \in Nodes : m # NoNode
      BY DeployAssumption DEF Nodes, NoNode
    <3> QED BY <3>1, <3>2, <3>3, <3>4, <3>5
  <2> QED BY <1>3, <2>2, <2>3 DEF Heartbeat
<1> QED BY <1>2, <1>3

LEMMA AttendedStep == CInv /\ Attended /\ [Next]_vars => Attended'
<1> SUFFICES ASSUME CInv, Attended, [Next]_vars PROVE Attended'
  OBVIOUS
<1>1. CASE UNCHANGED <<node, driver>>
  BY <1>1 DEF Attended, Runs, At
<1>2. CASE Restart
  BY <1>2 DEF Restart, Unregistered, Attended
<1> QED BY <1>1, <1>2, DriveAttends, HandlersAttend
        DEF Next, vars, server, NetBoot, AgentUp, AgentEnds

(* The inductive invariant of deployments, types included.                 *)
THEOREM DeployInvariant == Spec => []DInv
<1>1. Init => Attended
  BY DEF Init, Attended, Unregistered
<1>2. CInv /\ Attended /\ [Next]_vars => Attended'
  BY AttendedStep
<1> QED BY <1>1, <1>2, DriversInvariant, PTL DEF Spec, DInv

(* Each step of a driver uses up one of its steps or polls, and nobody     *)
(* else's step, but a restart, touches a driver that runs: with fair       *)
(* scheduling, every driver ends.                                          *)
THEOREM DriversComeCloserAlways == Spec => DriversComeCloser
<1> DEFINE A == \A d \in Drivers : (Runs(d) /\ driver'[d] # driver[d]) => Closer(d)
<1>1. CInv /\ [Next]_vars => A
  <2> SUFFICES ASSUME CInv, [Next]_vars, NEW d \in Drivers, Runs(d), driver'[d] # driver[d]
               PROVE  Closer(d)
    OBVIOUS
  <2>1. driver \in [Drivers -> DriverRecord]
    BY DEF CInv, TypeOK
  <2>2. ASSUME NEW e \in Drivers, Drive(e) PROVE Closer(d)
    <3>1. PICK s \in States : Moved(e, s)
      BY <2>2, DriveMoves
    <3> QED BY <2>2, <3>1, DriveOutcome DEF Moved
  <2>3. CASE Restart
    <3>1. driver'[d].pc = "ended"
      BY <2>3 DEF Restart, NoDriver, Runs
    <3>2. StepsLeft(driver[d].pc) > 0 /\ StepsLeft(driver'[d].pc) = 0
      BY <2>1, <3>1 DEF StepsLeft, Runs, DriverRecord, Steps
    <3> QED BY <3>2 DEF Closer
  <2>4. ASSUME NEW k \in Machine, NEW url \in URL \cup {NoURL}, Heartbeat(k, url) PROVE Closer(d)
    <3>1. /\ spawned < MaxDrivers /\ spawned' = spawned + 1
          /\ driver' = [driver EXCEPT ![spawned'].pc = "snapshot", ![spawned'].node = agent[k].uuid]
      BY <2>4 DEF Heartbeat
    <3>2. spawned' \in Drivers /\ spawned' > spawned
      BY <3>1, DeployAssumption DEF CInv, TypeOK, Drivers
    <3>3. d = spawned'
      BY <2>1, <3>1, <3>2
    <3> QED BY <3>2, <3>3 DEF CInv, DriversNumbered, Runs
  <2> QED BY <2>2, <2>3, <2>4 DEF Next, vars, server, Lookup, NetBoot, AgentUp, AgentEnds
<1>2. CInv /\ [Next]_vars => [A]_vars
  BY <1>1
<1> QED BY <1>2, DriversInvariant, PTL DEF Spec, DriversComeCloser

(* If agents always report a callback URL, then whoever needs one has one: *)
(* agents that run, nodes with a driver, and drivers that have read it.    *)
URLsKnown ==
  /\ \A k \in Machine : agent[k].on => agent[k].url # NoURL
  /\ \A n \in Nodes : node[n].driverStarted => node[n].url # NoURL
  /\ \A d \in Drivers : (driver[d].node # NoNode /\ ~At(d, "snapshot")) => driver[d].url # NoURL

LEMMA DriveURLs ==
  ASSUME CInv, URLsKnown, NEW d \in Drivers, Drive(d)
  PROVE  URLsKnown'
<1>1. PICK s \in States : Moved(d, s)
  BY DriveMoves
<1>2. /\ agent \in [Machine -> AgentRecord] /\ node \in [Nodes -> NodeRecord]
      /\ driver \in [Drivers -> DriverRecord]
      /\ driver[d].node \in Nodes /\ node[driver[d].node].driverStarted
  BY DriveMoves, Driving DEF CInv, TypeOK
<1>3. ASSUME NEW k \in Machine, agent'[k].on PROVE agent'[k].url # NoURL
  <2>1. CASE UNCHANGED agent
    BY <1>3, <2>1 DEF URLsKnown
  <2>2. ASSUME NEW j \in Machine, agent' = [agent EXCEPT ![j] = NoAgent] PROVE agent'[k].url # NoURL
    BY <1>2, <1>3, <2>2 DEF URLsKnown, NoAgent
  <2>3. ASSUME NEW j \in Machine, agent' = [agent EXCEPT ![j].command = d, ![j].status = "RUNNING"]
        PROVE  agent'[k].url # NoURL
    <3>1. agent'[k].on = agent[k].on /\ agent'[k].url = agent[k].url
      BY <1>2, <2>3 DEF AgentRecord
    <3> QED BY <1>3, <3>1 DEF URLsKnown
  <2> QED BY <2>1, <2>2, <2>3
          DEF machines, Drive, Snapshot, ClaimDeploy, PrepareImage, PrepareTaken, PollEnds, PollAgain,
              ClaimRun, RunImage, RunTaken, RunRefused, Finish, Record
<1>4. \A n \in Nodes : node'[n].driverStarted = node[n].driverStarted /\ node'[n].url = node[n].url
  BY <1>1, <1>2 DEF Moved, NodeRecord
<1>5. ~At(d, "snapshot")' => driver'[d].url # NoURL
  <2>1. CASE Snapshot(d)
    <3> DEFINE url == node[driver[d].node].url
    <3>1. url # NoURL
      BY <1>2 DEF URLsKnown
    <3>2. driver'[d].url = url
      <4>1. driver' = [driver EXCEPT ![d].url = url, ![d].pc = "claim"]
        BY <2>1, <3>1 DEF Snapshot
      <4> HIDE DEF url
      <4> QED BY <1>2, <4>1 DEF DriverRecord
    <3> QED BY <3>1, <3>2
  <2>2. CASE ~At(d, "snapshot") /\ driver'[d].url = driver[d].url
    BY <1>2, <2>2, DeployAssumption DEF URLsKnown, Nodes, NoNode
  <2>3. ASSUME NEW pc, Goto(d, pc) PROVE driver'[d].url = driver[d].url
    BY <1>2, <2>3 DEF Goto, DriverRecord
  <2>4. CASE PollAgain(d)
    <3>1. CASE driver' = [driver EXCEPT ![d].polls = @ + 1]
      BY <1>2, <2>2, <2>4, <3>1 DEF DriverRecord, PollAgain, At
    <3> QED BY <2>2, <2>3, <2>4, <3>1 DEF PollAgain, Fail, At
  <2> QED BY <2>1, <2>2, <2>3, <2>4
          DEF Drive, At, Fail, Claim, ClaimDeploy, PrepareImage, PrepareTaken, PollEnds,
              ClaimRun, RunImage, RunTaken, RunRefused, Finish, Record
<1>6. \A e \in Drivers \ {d} : driver'[e] = driver[e]
  BY <1>1 DEF Moved
<1> QED BY <1>2, <1>3, <1>4, <1>5, <1>6 DEF URLsKnown, At

(* What changes in an agent's record, but not the callback URL it reports. *)
LEMMA AgentURL ==
  ASSUME NEW a \in AgentRecord, NEW i, NEW t
  PROVE  /\ [a EXCEPT !.uuid = i].url = a.url /\ [a EXCEPT !.uuid = i].on = a.on
         /\ [a EXCEPT !.on = TRUE].url = a.url
         /\ [a EXCEPT !.status = t].url = a.url /\ [a EXCEPT !.status = t].on = a.on
BY DEF AgentRecord

LEMMA NodeURL ==
  ASSUME NEW r \in NodeRecord, NEW url
  PROVE  [r EXCEPT !.url = url].url = url
BY DEF NodeRecord

LEMMA HandlersURLs ==
  ASSUME ~MayOmitURL, CInv, URLsKnown,
         \/ \E k \in Machine : \E S \in Reports[k] : Lookup(k, S)
         \/ \E k \in Machine, url \in URL \cup {NoURL} : Heartbeat(k, url)
  PROVE  URLsKnown'
<1>1. /\ agent \in [Machine -> AgentRecord] /\ node \in [Nodes -> NodeRecord]
      /\ driver \in [Drivers -> DriverRecord]
  BY DEF CInv, TypeOK
<1> USE DEF URLsKnown, At
<1>2. ASSUME NEW k \in Machine, NEW S \in Reports[k], Lookup(k, S) PROVE URLsKnown'
  <2>1. PICK n \in Nodes : /\ GetOrCreate(S, n) /\ UNCHANGED driver
                           /\ agent' = [agent EXCEPT ![k].uuid = n] \/ UNCHANGED agent
    BY <1>2 DEF Lookup
  <2>2. \A j \in Machine : agent'[j].on = agent[j].on /\ agent'[j].url = agent[j].url
    <3>1. [agent[k] EXCEPT !.uuid = n].url = agent[k].url /\ [agent[k] EXCEPT !.uuid = n].on = agent[k].on
      BY <1>1, AgentURL
    <3> QED BY <1>1, <2>1, <3>1
  <2>3. CASE UNCHANGED node
    BY <2>1, <2>2, <2>3
  <2>4. CASE node' = [node EXCEPT ![n] = [Unregistered EXCEPT !.macs = S, !.state = "new"]]
    <3>1. ~node'[n].driverStarted /\ \A m \in Nodes \ {n} : node'[m] = node[m]
      BY <1>1, <2>4 DEF Unregistered
    <3> QED BY <2>1, <2>2, <3>1
  <2> QED BY <2>1, <2>3, <2>4 DEF GetOrCreate
<1>3. ASSUME NEW k \in Machine, NEW url \in URL \cup {NoURL}, Heartbeat(k, url) PROVE URLsKnown'
  <2> DEFINE n == agent[k].uuid
  <2>1. n \in Nodes /\ UNCHANGED agent /\ url # NoURL
    BY <1>3 DEF Heartbeat, machines, CInv, TypeOK, AgentRecord
  <2>2. CASE node' = [node EXCEPT ![n].url = url] /\ UNCHANGED driver
    <3> DEFINE r == [node[n] EXCEPT !.url = url]
    <3>1. r.url = url
      BY <1>1, <2>1, NodeURL
    <3>2. node' = [node EXCEPT ![n] = r]
      BY <1>1, <2>1, <2>2
    <3> HIDE DEF r
    <3>3. node'[n] = r /\ \A m \in Nodes \ {n} : node'[m] = node[m]
      BY <1>1, <2>1, <3>2
    <3> QED BY <2>1, <2>2, <3>1, <3>3
  <2>3. CASE /\ spawned < MaxDrivers /\ spawned' = spawned + 1
             /\ node' = [node EXCEPT ![n].url = url, ![n].driverStarted = TRUE]
             /\ driver' = [driver EXCEPT ![spawned'].pc = "snapshot", ![spawned'].node = n]
    <3>1. spawned' \in Drivers
      BY <2>3, DeployAssumption DEF CInv, TypeOK, Drivers
    <3>2. /\ driver'[spawned'].pc = "snapshot"
          /\ \A d \in Drivers \ {spawned'} : driver'[d] = driver[d]
      BY <1>1, <2>3, <3>1 DEF DriverRecord
    <3>3. node'[n].url = url /\ \A m \in Nodes \ {n} : node'[m] = node[m]
      BY <1>1, <2>1, <2>3 DEF NodeRecord
    <3> QED BY <2>1, <3>2, <3>3
  <2> QED BY <1>3, <2>2, <2>3 DEF Heartbeat
<1> QED BY <1>2, <1>3

LEMMA URLsStep == ~MayOmitURL /\ CInv /\ URLsKnown /\ [Next]_vars => URLsKnown'
<1> SUFFICES ASSUME ~MayOmitURL, CInv, URLsKnown, [Next]_vars PROVE URLsKnown'
  OBVIOUS
<1>1. agent \in [Machine -> AgentRecord]
  BY DEF CInv, TypeOK
<1>2. CASE /\ UNCHANGED <<node, driver>>
           /\ \A k \in Machine : agent'[k].on => agent'[k].url # NoURL
  BY <1>2 DEF URLsKnown, At
<1>3. ASSUME NEW k \in Machine, (\E x \in NIC : NetBoot(k, x)) \/ AgentUp(k) \/ AgentEnds(k)
      PROVE  URLsKnown'
  <2>1. UNCHANGED <<node, driver>>
    BY <1>3 DEF NetBoot, AgentUp, AgentEnds, server
  <2>2. CASE \E x \in NIC : NetBoot(k, x)
    <3>1. PICK u \in URL : agent' = [agent EXCEPT ![k] = [NoAgent EXCEPT !.url = u]]
      BY <2>2 DEF NetBoot
    <3>2. ~agent'[k].on /\ \A j \in Machine \ {k} : agent'[j] = agent[j]
      BY <1>1, <3>1 DEF NoAgent
    <3> QED BY <1>2, <2>1, <3>2 DEF URLsKnown
  <2>3. CASE AgentUp(k) \/ AgentEnds(k)
    <3>1. agent[k] \in AgentRecord
      BY <1>1
    <3>2. CASE AgentUp(k)
      <4>1. agent' = [agent EXCEPT ![k] = [agent[k] EXCEPT !.on = TRUE]] /\ agent[k].url # NoURL
        BY <1>1, <3>2 DEF AgentUp
      <4>2. [agent[k] EXCEPT !.on = TRUE].url = agent[k].url
        BY <3>1, AgentURL
      <4>3. agent'[k].url # NoURL /\ \A j \in Machine \ {k} : agent'[j] = agent[j]
        BY <1>1, <4>1, <4>2
      <4> QED BY <1>2, <2>1, <4>3 DEF URLsKnown
    <3>3. CASE AgentEnds(k)
      <4>1. PICK t : agent' = [agent EXCEPT ![k] = [agent[k] EXCEPT !.status = t]]
        BY <1>1, <3>3 DEF AgentEnds
      <4>2. /\ [agent[k] EXCEPT !.status = t].url = agent[k].url
            /\ [agent[k] EXCEPT !.status = t].on = agent[k].on
        BY <3>1, AgentURL
      <4>3. \A j \in Machine : agent'[j].url = agent[j].url /\ agent'[j].on = agent[j].on
        BY <1>1, <4>1, <4>2
      <4> QED BY <1>2, <2>1, <4>3 DEF URLsKnown
    <3> QED BY <2>3, <3>2, <3>3
  <2> QED BY <1>3, <2>2, <2>3
<1>4. CASE Restart
  BY <1>4 DEF Restart, machines, Unregistered, NoDriver, NoNode, URLsKnown, At
<1>5. CASE UNCHANGED vars
  BY <1>2, <1>5 DEF vars, server, machines, URLsKnown
<1> QED BY <1>3, <1>4, <1>5, DriveURLs, HandlersURLs DEF Next

(* If agents always report a callback URL, then a node for which a driver  *)
(* was started always has its verdict or a driver that runs.               *)
THEOREM NeverLeftAlways ==
  ASSUME ~MayOmitURL
  PROVE  Spec => []NeverLeft
<1>1. Init => URLsKnown
  <2> SUFFICES ASSUME Init PROVE URLsKnown
    OBVIOUS
  <2>1. /\ \A k \in Machine : agent[k].on = FALSE
        /\ \A n \in Nodes : node[n].driverStarted = FALSE
        /\ \A d \in Drivers : driver[d].node = NoNode
    BY DEF Init, NoAgent, Unregistered, NoDriver
  <2> QED BY <2>1 DEF URLsKnown
<1>2. CInv /\ URLsKnown /\ [Next]_vars => URLsKnown'
  BY URLsStep
<1>3. DInv /\ URLsKnown => NeverLeft
  BY DeployAssumption DEF DInv, Attended, URLsKnown, NeverLeft, At, Nodes, NoNode
<1> QED BY <1>1, <1>2, <1>3, DriversInvariant, DeployInvariant, PTL DEF Spec

-----------------------------------------------------------------------------
(* The other parts of the invariant. *)

(* Every variable of a deployment stays in its type.                       *)
THEOREM DeployTypes == Spec => []TypeOK
<1>1. CInv => TypeOK
  BY DEF CInv
<1> QED BY <1>1, DriversInvariant, PTL

(* At most one driver is ever started for a node, for any number of        *)
(* machines, heartbeats and restarts.                                      *)
THEOREM OneDriverAlways == Spec => []OneDriver
<1>1. CInv => OneDriver
  BY DEF CInv
<1> QED BY <1>1, DriversInvariant, PTL

(* A driver never finds its node in another state than its step implies.   *)
THEOREM DriverAgreesAlways == Spec => []DriverAgrees
<1>1. CInv => DriverAgrees
  BY DEF CInv
<1> QED BY <1>1, DriversInvariant, PTL

(* No step moves a node backwards, or out of done or failed, but a restart *)
(* that forgets it.                                                        *)
THEOREM StatesForwardAlways == Spec => StatesForward
<1>1. CInv /\ [Next]_vars => \A n \in Nodes : Forward(n)
  <2> SUFFICES ASSUME CInv, [Next]_vars, NEW n \in Nodes
               PROVE  Forward(n)
    OBVIOUS
  <2>1. node \in [Nodes -> NodeRecord]
    BY DEF CInv, TypeOK
  <2>2. ASSUME NEW d \in Drivers, Drive(d)
        PROVE  Forward(n)
    <3>1. PICK s \in States :
             /\ Moved(d, s)
             /\ s = node[driver[d].node].state \/ <<node[driver[d].node].state, s>> \in Moves
      BY <2>2, DriveMoves
    <3>2. node'[n].state = IF n = driver[d].node THEN s ELSE node[n].state
      BY <2>1, <3>1 DEF Moved, NodeRecord
    <3> QED BY <3>1, <3>2 DEF Forward
  <2>3. ASSUME NEW k \in Machine, NEW S \in Reports[k], Lookup(k, S)
        PROVE  Forward(n)
    <3>1. CASE UNCHANGED node
      BY <3>1 DEF Forward
    <3>2. ASSUME NEW m \in Nodes, Creates(S, m) PROVE Forward(n)
      <4>1. created \in Nat
        BY DEF CInv, TypeOK
      <4>2. CASE n = m
        <5>1. node[n].state = "none"
          BY <3>2, <4>1, <4>2 DEF CInv, NodesDrawn, Creates
        <5>2. node'[n].state = "new"
          BY <2>1, <3>2, <4>2 DEF Unregistered, Creates
        <5> QED BY <5>1, <5>2 DEF Forward, Moves
      <4>3. CASE n # m
        BY <2>1, <3>2, <4>3 DEF Forward, Creates
      <4> QED BY <4>2, <4>3
    <3> QED BY <2>3, <3>1, <3>2, FoundOrCreated DEF Lookup
  <2>4. ASSUME NEW k \in Machine, NEW url \in URL \cup {NoURL}, Heartbeat(k, url)
        PROVE  node'[n].state = node[n].state
    BY <2>1, <2>4 DEF Heartbeat, NodeRecord
  <2>5. CASE Restart
    BY <2>5 DEF Restart, Unregistered, Forward
  <2>6. CASE UNCHANGED node
    BY <2>6 DEF Forward
  <2> QED BY <2>2, <2>3, <2>4, <2>5, <2>6 DEF Next, NetBoot, AgentUp, AgentEnds, server, vars, Forward
<1> QED BY <1>1, DriversInvariant, PTL DEF Spec, StatesForward

-----------------------------------------------------------------------------
(* If every lookup lists all NICs, a machine has one node: the invariant   *)
(* WInv, one lemma per kind of step.                                       *)

LEMMA NicsApart ==
  ASSUME AllWhole, NEW j \in Machine, NEW k \in Machine, Nics[j] \cap Nics[k] # {} \/ Nics[j] = Nics[k]
  PROVE  j = k /\ Nics[k] # {} /\ Nics[k] \subseteq NIC
<1>1. Nics[k] # {} /\ Nics[k] \subseteq NIC
  <2>1. Nics[k] \in Reports[k]
    BY DEF AllWhole
  <2> QED BY <2>1, DeployAssumption
<1> QED BY <1>1, DeployAssumption

(* Two nodes of one machine are one node. *)
LEMMA OneNode ==
  ASSUME AllWhole, WInv, NEW k \in Machine, NEW m \in Nodes, NEW n \in Nodes,
         node[m].macs = Nics[k], node[n].macs \cap Nics[k] # {}
  PROVE  m = n
<1>1. PICK x \in Nics[k] : x \in node[n].macs
  OBVIOUS
<1>2. x \in NIC
  BY NicsApart
<1> QED BY <1>1, <1>2 DEF WInv, NodesWhole

(* The agent that a driver's command reaches runs on the machine of the    *)
(* driver's node.                                                          *)
LEMMA ReachesOwn ==
  ASSUME CInv, WInv, NEW d \in Drivers, driver[d].pc \notin {"idle", "ended"},
         NEW k \in Machine, Reached(d, k)
  PROVE  node[driver[d].node].macs = Nics[k] /\ driver[d].node \in Nodes
<1>1. driver[d].node \in Nodes /\ agent[k].uuid = driver[d].node /\ driver[d].node # NoNode
  BY Driving, DeployAssumption DEF Reached, NoNode, Nodes
<1>2. node[driver[d].node].state # "none"
  BY <1>1, Driving DEF CInv, NodesDrawn
<1> QED BY <1>1, <1>2 DEF WInv, AgentsKnow

LEMMA WholeInit == AllWhole /\ Init => WInv
<1> SUFFICES ASSUME Init PROVE WInv
  OBVIOUS
<1>1. /\ \A n \in Nodes : node[n].state = "none" /\ node[n].macs = {}
      /\ \A d \in Drivers : driver[d].pc = "idle"
      /\ \A k \in Machine : agent[k].uuid = NoNode /\ agent[k].status = ""
  BY DEF Init, Unregistered, NoDriver, NoAgent
<1>2. created = 0 /\ \A x \in NIC : macIndex[x] = 0
  BY DEF Init, NoNode
<1>3. NodesWhole
  <2>1. ASSUME NEW x \in NIC, NEW n \in Nodes PROVE macIndex[x] = n <=> x \in node[n].macs
    <3>1. node[n].macs = {}
      BY <1>1
    <3>2. n # 0
      BY DeployAssumption DEF Nodes
    <3> QED BY <1>2, <3>1, <3>2
  <2> QED BY <1>1, <2>1 DEF NodesWhole
<1>4. AgentsKnow
  <2>1. ASSUME NEW k \in Machine PROVE agent[k].uuid <= created /\ agent[k].uuid = NoNode
    <3>1. agent[k].uuid = NoNode
      BY <1>1
    <3> QED BY <1>2, <3>1 DEF NoNode
  <2> QED BY <2>1 DEF AgentsKnow
<1>5. DisksWritten
  BY <1>1 DEF DisksWritten, ToldOf
<1>6. FileBehind
  BY DEF Init, FileBehind, Gated
<1> QED BY <1>3, <1>4, <1>5, <1>6 DEF WInv

(* The one field of an agent that a step changes.                          *)
LEMMA AgentFields ==
  ASSUME NEW a \in AgentRecord, NEW i \in Nodes, NEW t \in {"SUCCEEDED", "FAILED"}
  PROVE  /\ [a EXCEPT !.uuid = i].uuid = i /\ [a EXCEPT !.uuid = i].status = a.status
         /\ [a EXCEPT !.on = TRUE].uuid = a.uuid /\ [a EXCEPT !.on = TRUE].status = a.status
         /\ [a EXCEPT !.status = t].uuid = a.uuid /\ [a EXCEPT !.status = t].status = t
BY DEF AgentRecord

LEMMA LookupWhole ==
  ASSUME AllWhole, CInv, WInv, NEW k \in Machine, NEW S \in Reports[k], Lookup(k, S)
  PROVE  WInv'
<1> USE DeployAssumption
<1>1. /\ driver' = driver /\ deployed' = deployed /\ stateFile' = stateFile /\ disk' = disk
      /\ S = Nics[k] /\ S # {} /\ S \subseteq NIC
      /\ agent \in [Machine -> AgentRecord] /\ created \in Nat
      /\ node \in [Nodes -> NodeRecord]
      /\ macIndex \in [NIC -> Nodes \cup {NoNode}]
  BY DEF Lookup, tracker, AllWhole, CInv, TypeOK
<1>2. PICK m \in Nodes : /\ GetOrCreate(S, m)
                         /\ agent' = [agent EXCEPT ![k].uuid = m] \/ UNCHANGED agent
  BY DEF Lookup
<1>3. \A j \in Machine : /\ agent'[j].status = agent[j].status
                         /\ agent'[j].uuid \in {agent[j].uuid, IF j = k THEN m ELSE agent[j].uuid}
  <2>1. /\ [agent[k] EXCEPT !.uuid = m].uuid = m
        /\ [agent[k] EXCEPT !.uuid = m].status = agent[k].status
    <3>1. agent[k] \in AgentRecord
      BY <1>1
    <3> QED BY <3>1, AgentFields
  <2>2. CASE agent' = [agent EXCEPT ![k].uuid = m]
    BY <1>1, <2>1, <2>2
  <2> QED BY <1>2, <2>2
<1>4. FileBehind'
  BY <1>1 DEF WInv, FileBehind, Gated
<1>5. CASE m \in Known(S) /\ UNCHANGED <<node, macIndex, created>>
  <2>1. PICK x \in S : macIndex[x] = m
    BY <1>5 DEF Known
  <2>2. x \in node[m].macs
    BY <1>1, <2>1 DEF WInv, NodesWhole
  <2>3. PICK j \in Machine : node[m].macs = Nics[j]
    BY <2>2 DEF WInv, NodesWhole
  <2>4. node[m].macs = Nics[k] /\ node[m].state # "none"
    BY <1>1, <2>1, <2>2, <2>3, NicsApart DEF WInv, NodesWhole
  <2>5. m <= created
    BY <1>1, <2>4 DEF CInv, NodesDrawn, Nodes
  <2>6. NodesWhole' /\ DisksWritten'
    BY <1>1, <1>3, <1>5 DEF WInv, NodesWhole, DisksWritten, ToldOf
  <2>7. AgentsKnow'
    BY <1>3, <1>5, <2>4, <2>5 DEF WInv, AgentsKnow
  <2> QED BY <1>4, <2>6, <2>7 DEF WInv
<1>6. CASE Known(S) = {} /\ Creates(S, m)
  <2>1. /\ m = created + 1 /\ created' = m /\ m # NoNode
        /\ \A x \in NIC : macIndex'[x] = IF x \in S THEN m ELSE macIndex[x]
    BY <1>1, <1>6 DEF Creates, Indexed, NoNode, Nodes
  <2>2. /\ node'[m].macs = S /\ node'[m].state = "new"
        /\ \A n \in Nodes \ {m} : node'[n] = node[n]
    BY <1>1, <1>6 DEF Creates, Unregistered
  <2>3. node[m].state = "none"
    BY <1>1, <2>1 DEF CInv, NodesDrawn
  <2>4. \A x \in S : macIndex[x] = NoNode
    BY <1>6 DEF Known
  <2>5. ASSUME NEW n \in Nodes \ {m} PROVE node[n].macs \cap S = {}
    BY <1>1, <2>4 DEF WInv, NodesWhole, NoNode, Nodes
  <2>6. NodesWhole'
    <3>1. ASSUME NEW x \in NIC, NEW n \in Nodes PROVE macIndex'[x] = n <=> x \in node'[n].macs
      <4>1. CASE n = m
        <5>1. node[m].macs = {}
          BY <2>3 DEF WInv, NodesWhole
        <5>2. macIndex[x] # m
          BY <5>1 DEF WInv, NodesWhole
        <5> QED BY <2>1, <2>2, <4>1, <5>2
      <4>2. CASE n # m
        BY <2>1, <2>2, <2>5, <4>2 DEF WInv, NodesWhole
      <4> QED BY <4>1, <4>2
    <3>2. ASSUME NEW n \in Nodes
          PROVE  IF node'[n].state = "none" THEN node'[n].macs = {}
                 ELSE \E j \in Machine : node'[n].macs = Nics[j]
      BY <1>1, <2>2 DEF WInv, NodesWhole
    <3> QED BY <3>1, <3>2 DEF NodesWhole
  <2>7. ASSUME NEW j \in Machine
        PROVE  agent[j].uuid <= created /\ agent[j].uuid \in Nat /\ agent[j].uuid # m
    <3>1. agent[j].uuid <= created
      BY DEF WInv, AgentsKnow
    <3>2. agent[j].uuid \in Nat
      <4>1. agent[j].uuid \in Nodes \cup {NoNode}
        BY <1>1 DEF AgentRecord
      <4> QED BY <4>1 DEF Nodes, NoNode
    <3> QED BY <1>1, <2>1, <3>1, <3>2
  <2>8. AgentsKnow'
    <3>1. ASSUME NEW j \in Machine
          PROVE  /\ agent'[j].uuid <= created'
                 /\ (agent'[j].uuid # NoNode /\ node'[agent'[j].uuid].state # "none")
                      => node'[agent'[j].uuid].macs = Nics[j]
      <4>1. CASE agent'[j].uuid = agent[j].uuid
        <5>1. agent[j].uuid # NoNode => agent[j].uuid \in Nodes \ {m}
          BY <1>1, <2>7 DEF AgentRecord
        <5> QED BY <1>1, <2>1, <2>2, <2>7, <4>1, <5>1 DEF WInv, AgentsKnow
      <4>2. CASE j = k /\ agent'[j].uuid = m
        BY <1>1, <2>1, <2>2, <4>2 DEF Nodes
      <4> QED BY <1>3, <4>1, <4>2
    <3> QED BY <3>1 DEF AgentsKnow
  <2>9. DisksWritten'
    <3>1. ASSUME NEW d \in Drivers, ToldOf(d)
          PROVE  node'[driver[d].node] = node[driver[d].node]
      <4>1. driver[d].node \in Nodes /\ node[driver[d].node].driverStarted
        BY <3>1, Driving DEF ToldOf
      <4>2. driver[d].node # m
        BY <2>3, <4>1 DEF CInv, NodesDrawn
      <4> QED BY <2>2, <4>1, <4>2
    <3>2. \A n \in Nodes : node'[n].state = "done" => node'[n] = node[n]
      BY <2>2
    <3> QED BY <1>1, <1>3, <3>1, <3>2 DEF WInv, DisksWritten, ToldOf
  <2> QED BY <1>4, <2>6, <2>8, <2>9 DEF WInv
<1> QED BY <1>2, <1>5, <1>6, FoundOrCreated

LEMMA HeartbeatWhole ==
  ASSUME CInv, WInv, NEW k \in Machine, NEW url \in URL \cup {NoURL}, Heartbeat(k, url)
  PROVE  WInv'
<1> USE DeployAssumption
<1>1. /\ UNCHANGED <<macIndex, created, deployed, stateFile, agent, disk>>
      /\ node \in [Nodes -> NodeRecord] /\ driver \in [Drivers -> DriverRecord]
  BY DEF Heartbeat, tracker, machines, CInv, TypeOK
<1>2. \A n \in Nodes : node'[n].macs = node[n].macs /\ node'[n].state = node[n].state
  BY <1>1 DEF Heartbeat, NodeRecord
<1>3. ASSUME NEW d \in Drivers, ToldOf(d)' PROVE driver'[d] = driver[d] /\ ToldOf(d)
  <2>1. CASE UNCHANGED driver
    BY <1>3, <2>1 DEF ToldOf
  <2>2. CASE driver' = [driver EXCEPT ![spawned'].pc = "snapshot",
                                      ![spawned'].node = agent[k].uuid]
    <3>1. CASE d = spawned'
      <4>1. driver'[d].pc = "snapshot"
        BY <1>1, <2>2, <3>1 DEF DriverRecord
      <4> QED BY <1>3, <4>1 DEF ToldOf
    <3>2. CASE d # spawned'
      BY <1>1, <1>3, <2>2, <3>2 DEF ToldOf
    <3> QED BY <3>1, <3>2
  <2> QED BY <2>1, <2>2 DEF Heartbeat
<1>4. NodesWhole' /\ FileBehind'
  BY <1>1, <1>2 DEF WInv, NodesWhole, FileBehind, Gated
<1>5. AgentsKnow'
  <2>1. \A j \in Machine : agent[j].uuid \in Nodes \cup {NoNode}
    BY DEF CInv, TypeOK, AgentRecord
  <2> QED BY <1>1, <1>2, <2>1 DEF WInv, AgentsKnow
<1>6. DisksWritten'
  <2>1. ASSUME NEW d \in Drivers, ToldOf(d) PROVE driver[d].node \in Nodes
    BY <2>1, Driving DEF ToldOf
  <2> QED BY <1>1, <1>2, <1>3, <2>1 DEF WInv, DisksWritten
<1> QED BY <1>4, <1>5, <1>6 DEF WInv

LEMMA MachineWhole ==
  ASSUME CInv, WInv, NEW k \in Machine, (\E x \in NIC : NetBoot(k, x)) \/ AgentUp(k) \/ AgentEnds(k)
  PROVE  WInv'
<1>1. /\ UNCHANGED <<node, macIndex, created, driver, deployed, stateFile>>
      /\ agent \in [Machine -> AgentRecord] /\ disk \in [Machine -> {"old", "partial", "image"}]
      /\ created \in Nat
  BY DeployAssumption DEF NetBoot, AgentUp, AgentEnds, server, tracker, CInv, TypeOK
<1>2. /\ \A j \in Machine : agent'[j].uuid \in {agent[j].uuid, NoNode}
      /\ \A j \in Machine : /\ agent'[j].status = "SUCCEEDED" => disk'[j] = "image"
                            /\ agent'[j].status = "RUNNING" => disk'[j] = "partial"
  <2>1. \A j \in Machine : /\ agent[j].status = "SUCCEEDED" => disk[j] = "image"
                           /\ agent[j].status = "RUNNING" => disk[j] = "partial"
    BY DEF WInv, DisksWritten
  <2>2. CASE \E x \in NIC : NetBoot(k, x)
    <3>1. PICK u \in URL : agent' = [agent EXCEPT ![k] = [NoAgent EXCEPT !.url = u]]
      BY <2>2 DEF NetBoot
    <3>2. [NoAgent EXCEPT !.url = u].uuid = NoNode /\ [NoAgent EXCEPT !.url = u].status = ""
      BY DEF NoAgent
    <3> QED BY <1>1, <2>1, <2>2, <3>1, <3>2 DEF NetBoot
  <2>3. CASE AgentUp(k)
    <3>1. /\ [agent[k] EXCEPT !.on = TRUE].uuid = agent[k].uuid
          /\ [agent[k] EXCEPT !.on = TRUE].status = agent[k].status
      BY <1>1, AgentFields
    <3> QED BY <1>1, <2>1, <2>3, <3>1 DEF AgentUp
  <2>4. CASE AgentEnds(k)
    <3>1. \A t \in {"SUCCEEDED", "FAILED"} : /\ [agent[k] EXCEPT !.status = t].uuid = agent[k].uuid
                                           /\ [agent[k] EXCEPT !.status = t].status = t
      <4>1. agent[k] \in AgentRecord
        BY <1>1
      <4> QED BY <4>1, AgentFields
    <3> QED BY <1>1, <2>1, <2>4, <3>1 DEF AgentEnds
  <2> QED BY <2>2, <2>3, <2>4
<1>4. \A j \in Machine : disk'[j] \in {disk[j], "image"}
  BY <1>1 DEF NetBoot, AgentUp, AgentEnds
<1>5. NodesWhole' /\ FileBehind'
  BY <1>1 DEF WInv, NodesWhole, FileBehind, Gated
<1>6. AgentsKnow'
  BY <1>1, <1>2 DEF WInv, AgentsKnow, NoNode
<1>7. DisksWritten'
  BY <1>1, <1>2, <1>4 DEF WInv, DisksWritten, ToldOf
<1> QED BY <1>5, <1>6, <1>7 DEF WInv

LEMMA RestartWhole ==
  ASSUME CInv, WInv, Restart
  PROVE  WInv'
<1>1. /\ \A n \in Nodes : node'[n].state = "none" /\ node'[n].macs = {}
      /\ \A x \in NIC : macIndex'[x] = NoNode
      /\ \A d \in Drivers : driver'[d].pc \in {"idle", "ended"}
      /\ UNCHANGED <<created, stateFile, agent, disk>> /\ deployed' = stateFile
  BY DEF Restart, Unregistered, NoDriver, machines
<1>2. \A j \in Machine : agent[j].uuid \in Nodes \cup {NoNode}
  BY DEF CInv, TypeOK, AgentRecord
<1>3. NodesWhole'
  BY <1>1, DeployAssumption DEF NodesWhole, NoNode, Nodes
<1>4. AgentsKnow' /\ DisksWritten' /\ FileBehind'
  BY <1>1, <1>2 DEF WInv, AgentsKnow, DisksWritten, ToldOf, FileBehind, Gated
<1> QED BY <1>3, <1>4 DEF WInv

(* A driver's step leaves every node its NICs, and no node unregistered.   *)
LEMMA DriveNodes ==
  ASSUME CInv, NEW d \in Drivers, Drive(d), NEW n \in Nodes
  PROVE  /\ node'[n].macs = node[n].macs
         /\ node'[n].state = "none" <=> node[n].state = "none"
         /\ \A e \in Drivers : driver'[e].node = driver[e].node
         /\ \A e \in Drivers \ {d} : driver'[e] = driver[e]
         /\ UNCHANGED <<macIndex, created, spawned>>
<1>1. /\ driver[d].node \in Nodes /\ driver[d].pc \notin {"idle", "ended"}
      /\ node[driver[d].node].state # "none"
  BY DriveMoves, Driving DEF CInv, NodesDrawn
<1>2. PICK s \in States : Moved(d, s)
  BY DriveMoves
<1>3. node \in [Nodes -> NodeRecord] /\ driver \in [Drivers -> DriverRecord]
  BY DEF CInv, TypeOK
<1>4. /\ node'[n].macs = node[n].macs
      /\ node'[n].state = IF n = driver[d].node THEN s ELSE node[n].state
  BY <1>1, <1>2, <1>3 DEF Moved, NodeRecord
<1> QED BY <1>1, <1>2, <1>3, <1>4 DEF Moved

(* What a driver's step does to agents and disks: only PrepareTaken makes  *)
(* a disk partial, and its agent is busy then.                             *)
LEMMA DriveAgents ==
  ASSUME CInv, NEW d \in Drivers, Drive(d), NEW k \in Machine
  PROVE  /\ agent'[k].uuid \in {agent[k].uuid, NoNode}
         /\ \/ agent'[k].status \in {agent[k].status, ""} /\ disk'[k] = disk[k]
            \/ /\ At(d, "prepare") /\ Reached(d, k)
               /\ agent'[k].status = "RUNNING" /\ agent[k].status # "RUNNING"
               /\ disk' = [disk EXCEPT ![k] = "partial"]
<1>1. agent \in [Machine -> AgentRecord] /\ disk \in [Machine -> {"old", "partial", "image"}]
  BY DEF CInv, TypeOK
<1>2. CASE UNCHANGED machines
  BY <1>2 DEF machines
<1>3. CASE PrepareImage(d)
  <2>1. CASE PrepareTaken(d)
    <3>1. PICK j \in Machine :
             /\ Reached(d, j) /\ agent[j].status # "RUNNING"
             /\ agent' = [agent EXCEPT ![j].command = d, ![j].status = "RUNNING"]
             /\ disk' = [disk EXCEPT ![j] = "partial"]
      BY <2>1 DEF PrepareTaken
    <3>2. CASE j = k
      <4>1. agent[k] \in AgentRecord
        BY <1>1
      <4>2. agent'[k] = [agent[k] EXCEPT !.command = d, !.status = "RUNNING"]
        BY <1>1, <3>1, <3>2
      <4>3. agent'[k].status = "RUNNING" /\ agent'[k].uuid = agent[k].uuid
        BY <4>1, <4>2 DEF AgentRecord
      <4> QED BY <1>3, <3>1, <3>2, <4>3 DEF PrepareImage
    <3>3. CASE j # k
      BY <1>1, <3>1, <3>3
    <3> QED BY <3>2, <3>3
  <2> QED BY <1>2, <1>3, <2>1 DEF PrepareImage
<1>4. CASE RunImage(d)
  <2>1. CASE RunTaken(d)
    <3>1. PICK j \in Machine : agent' = [agent EXCEPT ![j] = NoAgent] /\ UNCHANGED disk
      BY <2>1 DEF RunTaken
    <3>2. NoAgent.uuid = NoNode /\ NoAgent.status = ""
      BY DEF NoAgent
    <3>3. agent'[k] = agent[k] \/ agent'[k] = NoAgent
      BY <1>1, <3>1
    <3> QED BY <3>1, <3>2, <3>3
  <2> QED BY <1>2, <1>4, <2>1 DEF RunImage, RunRefused
<1> QED BY <1>2, <1>3, <1>4
        DEF Drive, Snapshot, ClaimDeploy, PollEnds, PollAgain, ClaimRun, Finish, Record

(* The record changes at its step only, by all that the machine has.      *)
LEMMA DriveRecords ==
  ASSUME AllWhole, CInv, WInv, NEW d \in Drivers, Drive(d)
  PROVE  \/ UNCHANGED tracker
         \/ /\ At(d, "record") /\ UNCHANGED <<node, machines>>
            /\ \E k \in Machine : /\ node[driver[d].node].macs = Nics[k]
                                  /\ deployed' = deployed \cup Nics[k]
            /\ stateFile' \in {stateFile, deployed'}
<1>1. CASE Record(d)
  <2>1. driver[d].node \in Nodes /\ node[driver[d].node].state = "done"
    BY <1>1, Driving DEF Record, At, CInv, DriverAgrees
  <2>2. PICK k \in Machine : node[driver[d].node].macs = Nics[k]
    BY <2>1 DEF WInv, NodesWhole
  <2> QED BY <1>1, <2>2 DEF Record
<1> QED BY <1>1
        DEF Drive, Snapshot, ClaimDeploy, PrepareImage, PollEnds, PollAgain, ClaimRun, RunImage, Finish

(* A driver that comes to know that its agent has ended, or knew it before.*)
LEMMA DriveTold ==
  ASSUME CInv, NEW d \in Drivers, Drive(d), ToldOf(d)'
  PROVE  \/ ToldOf(d)
         \/ At(d, "poll") /\ Answers(d, "SUCCEEDED")
<1>1. driver \in [Drivers -> DriverRecord]
  BY DEF CInv, TypeOK
<1>2. ASSUME NEW pc, Goto(d, pc), pc \in {"ended", "poll", "prepare", "claim"} PROVE FALSE
  <2>1. driver'[d].pc = pc
    BY <1>1, <1>2 DEF Goto, DriverRecord
  <2> QED BY <1>2, <2>1 DEF ToldOf
<1>3. ~Fail(d)
  BY <1>2 DEF Fail
<1> USE DEF ToldOf, At
<1>4. CASE Snapshot(d)
  <2>1. driver'[d].pc \in {"ended", "claim"}
    BY <1>1, <1>4 DEF Snapshot, DriverRecord
  <2> QED BY <2>1
<1>5. CASE ClaimDeploy(d)
  BY <1>2, <1>5 DEF ClaimDeploy, Claim
<1>6. CASE PrepareImage(d)
  BY <1>2, <1>3, <1>6 DEF PrepareImage, PrepareTaken
<1>7. CASE PollEnds(d)
  BY <1>3, <1>7 DEF PollEnds
<1>8. CASE PollAgain(d)
  <2>1. driver' = [driver EXCEPT ![d].polls = @ + 1]
    BY <1>3, <1>8 DEF PollAgain
  <2>2. driver'[d].pc = driver[d].pc
    BY <1>1, <2>1 DEF DriverRecord
  <2> QED BY <2>2
<1> QED BY <1>4, <1>5, <1>6, <1>7, <1>8 DEF Drive, ClaimRun, RunImage, Finish, Record

(* A node that a driver's step makes done is its own, and it knew before.  *)
LEMMA DriveDone ==
  ASSUME CInv, NEW d \in Drivers, Drive(d),
         NEW n \in Nodes, node'[n].state = "done", node[n].state # "done"
  PROVE  n = driver[d].node /\ ToldOf(d)
<1>1. /\ driver[d].node \in Nodes /\ driver[d].pc \notin {"idle", "ended"}
      /\ node \in [Nodes -> NodeRecord] /\ driver \in [Drivers -> DriverRecord]
  BY DriveMoves, Driving DEF CInv, TypeOK
<1>2. PICK s \in States :
        /\ Moved(d, s)
        /\ s = node[driver[d].node].state \/ <<node[driver[d].node].state, s>> \in Moves
  BY DriveMoves
<1>3. n = driver[d].node /\ s = "done"
  BY <1>1, <1>2 DEF Moved, NodeRecord
<1>4. node[n].state = "run_image"
  BY <1>2, <1>3 DEF Moves
<1>5. driver[d].pc \in {"run", "finish"}
  BY <1>1, <1>3, <1>4 DEF CInv, DriverAgrees, DriverRecord, Steps
<1> QED BY <1>3, <1>5 DEF ToldOf

LEMMA DriveWhole ==
  ASSUME AllWhole, CInv, WInv, NEW d \in Drivers, Drive(d)
  PROVE  WInv'
<1>1. driver[d].pc \notin {"idle", "ended"}
  BY DriveMoves
<1>2. UNCHANGED <<macIndex, created>>
  BY Driving, <1>1, DriveNodes
<1>3. NodesWhole'
  BY <1>2, DriveNodes DEF WInv, NodesWhole
<1>4. AgentsKnow'
  <2>1. \A k \in Machine : agent[k].uuid \in Nodes \cup {NoNode}
    BY DEF CInv, TypeOK, AgentRecord
  <2>2. 0 <= created
    BY DeployAssumption DEF CInv, TypeOK
  <2>3. ASSUME NEW k \in Machine
        PROVE  /\ agent'[k].uuid <= created'
               /\ (agent'[k].uuid # NoNode /\ node'[agent'[k].uuid].state # "none")
                    => node'[agent'[k].uuid].macs = Nics[k]
    <3>1. CASE agent'[k].uuid = agent[k].uuid
      BY <1>2, <2>1, <3>1, DriveNodes DEF WInv, AgentsKnow
    <3>2. CASE agent'[k].uuid = NoNode
      BY <1>2, <2>2, <3>2 DEF NoNode
    <3> QED BY <3>1, <3>2, DriveAgents
  <2> QED BY <2>3 DEF AgentsKnow
<1>5. FileBehind'
  <2>1. Gated(deployed) /\ Gated(stateFile) /\ stateFile \subseteq deployed
    BY DEF WInv, FileBehind
  <2>2. ASSUME NEW j \in Machine, deployed' = deployed \cup Nics[j] PROVE Gated(deployed')
    <3>1. \A k \in Machine \ {j} : Nics[k] \cap Nics[j] = {}
      BY NicsApart
    <3> QED BY <2>1, <2>2, <3>1 DEF Gated
  <2>3. Gated(deployed')
    BY <2>1, <2>2, DriveRecords DEF tracker
  <2>4. Gated(stateFile')
    BY <2>1, <2>3, DriveRecords DEF tracker
  <2>5. stateFile' \subseteq deployed'
    BY <2>1, DriveRecords DEF tracker
  <2> QED BY <2>3, <2>4, <2>5 DEF FileBehind, Gated
<1>6. DisksWritten'
  <2>1. ASSUME NEW k \in Machine
        PROVE  /\ agent'[k].status = "SUCCEEDED" => disk'[k] = "image"
               /\ agent'[k].status = "RUNNING" => disk'[k] = "partial"
    <3>1. disk \in [Machine -> {"old", "partial", "image"}]
      BY DEF CInv, TypeOK
    <3> QED BY <3>1, DriveAgents DEF WInv, DisksWritten
  <2>2. ASSUME NEW k \in Machine, NEW e \in Drivers, ToldOf(e)', node'[driver'[e].node].macs = Nics[k]
        PROVE  disk'[k] = "image"
    <3>1. driver'[e].node = driver[e].node /\ driver[e].node \in Nodes /\ driver[e].node # NoNode
      <4>1. driver[d].node \in Nodes
        BY <1>1, Driving
      <4>2. driver'[e].node = driver[e].node /\ (e # d => driver'[e] = driver[e])
        BY <4>1, DriveNodes
      <4>3. driver[e].pc \notin {"idle", "ended"}
        BY <1>1, <2>2, <4>2 DEF ToldOf
      <4> QED BY <4>2, <4>3, Driving, DeployAssumption DEF NoNode, Nodes
    <3>2. node[driver[e].node].macs = Nics[k]
      BY <2>2, <3>1, DriveNodes
    (* The disk is written, before this step. *)
    <3>3. disk[k] = "image"
      <4>1. CASE ToldOf(e)
        BY <3>2, <4>1 DEF WInv, DisksWritten
      <4>2. CASE e = d /\ At(d, "poll") /\ Answers(d, "SUCCEEDED")
        <5>1. PICK j \in Machine : Reached(d, j) /\ agent[j].status = "SUCCEEDED"
          BY <4>2 DEF Answers
        <5>2. node[driver[d].node].macs = Nics[j]
          BY <1>1, <5>1, ReachesOwn
        <5>3. j = k
          BY <3>2, <4>2, <5>2, NicsApart
        <5> QED BY <5>1, <5>3 DEF WInv, DisksWritten
      <4>3. CASE e # d
        <5>1. driver'[e] = driver[e]
          BY <3>1, <4>3, DriveNodes
        <5> QED BY <2>2, <4>1, <5>1 DEF ToldOf
      <4> QED BY <2>2, <4>1, <4>2, <4>3, DriveTold
    (* No step of d overwrites it: d would be e, which is not at prepare.  *)
    <3>4. ~(At(d, "prepare") /\ Reached(d, k) /\ agent'[k].status = "RUNNING" /\ agent[k].status # "RUNNING")
      <4> SUFFICES ASSUME At(d, "prepare"), Reached(d, k) PROVE FALSE
        OBVIOUS
      <4>1. node[driver[d].node].macs = Nics[k] /\ driver[d].node \in Nodes
        BY <1>1, ReachesOwn
      <4>2. driver[d].node = driver[e].node
        BY <3>1, <3>2, <4>1, OneNode, NicsApart
      <4>3. d = e
        BY <3>1, <4>2 DEF CInv, OneDriver
      <4> QED BY <2>2, <4>3, DriveTold DEF At, ToldOf
    <3> QED BY <3>3, <3>4, DriveAgents
  <2>3. ASSUME NEW k \in Machine, NEW n \in Nodes, node'[n].state = "done", node'[n].macs = Nics[k]
        PROVE  disk'[k] = "image"
    <3>1. node[n].macs = Nics[k]
      BY <2>3, DriveNodes
    <3>2. disk[k] = "image"
      BY <2>3, <3>1, DriveDone DEF WInv, DisksWritten
    <3>3. ~(At(d, "prepare") /\ Reached(d, k))
      <4> SUFFICES ASSUME At(d, "prepare"), Reached(d, k) PROVE FALSE
        OBVIOUS
      <4>1. node[driver[d].node].macs = Nics[k] /\ driver[d].node \in Nodes
        BY <1>1, ReachesOwn
      <4>2. driver[d].node = n
        BY <3>1, <4>1, OneNode, NicsApart
      <4>3. node[n].state = "deploying"
        BY <4>2 DEF CInv, DriverAgrees, At
      <4> QED BY <2>3, <4>3, DriveDone DEF ToldOf, At
    <3> QED BY <3>2, <3>3, DriveAgents
  <2> QED BY <2>1, <2>2, <2>3 DEF DisksWritten
<1> QED BY <1>3, <1>4, <1>5, <1>6 DEF WInv

LEMMA WholeStep == AllWhole /\ CInv /\ WInv /\ [Next]_vars => WInv'
<1> SUFFICES ASSUME AllWhole, CInv, WInv, [Next]_vars PROVE WInv'
  OBVIOUS
<1>1. CASE UNCHANGED vars
  BY <1>1 DEF vars, server, tracker, machines, WInv, NodesWhole, AgentsKnow, FileBehind, Gated,
          DisksWritten, ToldOf
<1> QED BY <1>1, LookupWhole, HeartbeatWhole, DriveWhole, MachineWhole, RestartWhole DEF Next

(* With lookups that list all NICs: one node per machine, which the index, *)
(* the agents and the record agree on.                                     *)
THEOREM WholeInvariant ==
  ASSUME AllWhole
  PROVE  Spec => []WInv
<1>1. Init => WInv
  BY WholeInit
<1>2. CInv /\ WInv /\ [Next]_vars => WInv'
  BY WholeStep
<1> QED BY <1>1, <1>2, DriversInvariant, PTL DEF Spec

(* Then all NICs of a machine are gated together: for any number of NICs,  *)
(* through failed saves and restarts.                                      *)
THEOREM GatedAlways ==
  ASSUME AllWhole
  PROVE  Spec => []GatedByAllNics
<1>1. WInv => GatedByAllNics
  BY DEF WInv, FileBehind, Gated, GatedByAllNics
<1> QED BY <1>1, WholeInvariant, PTL

(* Then no NIC is recorded before its machine's disk holds the image.      *)
THEOREM RecordedIsWrittenAlways ==
  ASSUME AllWhole
  PROVE  Spec => RecordedIsWritten
<1> DEFINE Written == \A k \in Machine : Nics[k] \cap (deployed' \ deployed) # {}
                                            => disk[k] = "image"
<1>1. CInv /\ WInv /\ [Next]_vars => Written
  <2> SUFFICES ASSUME CInv, WInv, [Next]_vars PROVE Written
    OBVIOUS
  <2>1. ASSUME NEW d \in Drivers, Drive(d), NEW k \in Machine, Nics[k] \cap (deployed' \ deployed) # {}
        PROVE  disk[k] = "image"
    <3>1. At(d, "record")
      BY <2>1, DriveRecords DEF tracker
    <3>2. PICK j \in Machine : /\ node[driver[d].node].macs = Nics[j]
                               /\ deployed' = deployed \cup Nics[j]
      BY <2>1, DriveRecords DEF tracker
    <3>3. Nics[j] \cap Nics[k] # {}
      BY <2>1, <3>2
    <3>4. j = k
      BY <3>3, NicsApart
    <3> QED BY <3>1, <3>2, <3>4 DEF WInv, DisksWritten, ToldOf, At
  <2>2. CASE deployed' \subseteq deployed
    BY <2>2
  <2>3. CASE Restart
    BY <2>2, <2>3 DEF Restart, WInv, FileBehind
  <2> QED BY <2>1, <2>2, <2>3
          DEF Next, Lookup, Heartbeat, NetBoot, AgentUp, AgentEnds, tracker, vars
<1>2. CInv /\ WInv /\ [Next]_vars => [Written]_vars
  BY <1>1
<1> QED BY <1>2, DriversInvariant, WholeInvariant, PTL DEF Spec, RecordedIsWritten

(* Then no machine is imaged again while the server knows that it is done. *)
THEOREM ImagedOnceAlways ==
  ASSUME AllWhole
  PROVE  Spec => ImagedOnce
<1> DEFINE Once == \A k \in Machine : Overwrites(k) =>
                     \A n \in Nodes : node[n].state = "done" => node[n].macs \cap Nics[k] = {}
<1>1. CInv /\ WInv /\ [Next]_vars => Once
  <2> SUFFICES ASSUME CInv, WInv, [Next]_vars, NEW k \in Machine, Overwrites(k),
                      NEW n \in Nodes, node[n].state = "done", node[n].macs \cap Nics[k] # {}
               PROVE  FALSE
    OBVIOUS
  <2>1. agent \in [Machine -> AgentRecord]
    BY DEF CInv, TypeOK
  <2>2. ASSUME NEW d \in Drivers, Drive(d) PROVE FALSE
    <3>1. At(d, "prepare") /\ Reached(d, k)
      BY <2>2, DriveAgents DEF Overwrites
    <3>2. node[driver[d].node].macs = Nics[k] /\ driver[d].node \in Nodes
      BY <3>1, ReachesOwn DEF At
    <3>3. driver[d].node = n
      BY <3>2, OneNode
    <3> QED BY <3>1, <3>3 DEF CInv, DriverAgrees, At
  <2>3. ASSUME NEW j \in Machine, \E S \in Reports[j] : Lookup(j, S) PROVE FALSE
    <3>1. PICK m \in Nodes : agent' = [agent EXCEPT ![j].uuid = m] \/ UNCHANGED agent
      BY <2>3 DEF Lookup
    <3>2. agent[j] \in AgentRecord
      BY <2>1
    <3>3. [agent[j] EXCEPT !.uuid = m].status = agent[j].status
      BY <3>2, AgentFields
    <3>4. agent'[k].status = agent[k].status
      BY <2>1, <3>1, <3>3
    <3> QED BY <3>4 DEF Overwrites
  <2>4. ASSUME NEW j \in Machine, (\E x \in NIC : NetBoot(j, x)) \/ AgentUp(j) \/ AgentEnds(j)
        PROVE  FALSE
    <3>1. agent[j] \in AgentRecord
      BY <2>1
    <3>2. CASE \E x \in NIC : NetBoot(j, x)
      <4>1. PICK u \in URL : agent' = [agent EXCEPT ![j] = [NoAgent EXCEPT !.url = u]]
        BY <3>2 DEF NetBoot
      <4>2. [NoAgent EXCEPT !.url = u].status = ""
        BY DEF NoAgent
      <4>3. agent'[k].status = agent[k].status \/ agent'[k].status = ""
        BY <2>1, <4>1, <4>2
      <4> QED BY <4>3 DEF Overwrites
    <3>3. CASE AgentUp(j)
      <4>1. [agent[j] EXCEPT !.on = TRUE].status = agent[j].status
        BY <3>1, AgentFields
      <4>2. agent'[k].status = agent[k].status
        BY <2>1, <3>3, <4>1 DEF AgentUp
      <4> QED BY <4>2 DEF Overwrites
    <3>4. CASE AgentEnds(j)
      <4>1. PICK t \in {"SUCCEEDED", "FAILED"} : agent' = [agent EXCEPT ![j].status = t]
        BY <3>4 DEF AgentEnds
      <4>2. [agent[j] EXCEPT !.status = t].status = t
        BY <3>1, AgentFields
      <4>3. agent'[k].status \in {agent[k].status, t}
        BY <2>1, <4>1, <4>2
      <4> QED BY <4>1, <4>3 DEF Overwrites
    <3> QED BY <2>4, <3>2, <3>3, <3>4
  <2>5. CASE UNCHANGED agent
    BY <2>5 DEF Overwrites
  <2> QED BY <2>2, <2>3, <2>4, <2>5 DEF Next, Heartbeat, Restart, machines, vars
<1>2. CInv /\ WInv /\ [Next]_vars => [Once]_vars
  BY <1>1
<1> QED BY <1>2, DriversInvariant, WholeInvariant, PTL DEF Spec, ImagedOnce

-----------------------------------------------------------------------------
(* The promise of Provision, step by step. *)

(* Who is settled depends on the nodes that are done, and their NICs. *)
LEMMA SettledSame ==
  ASSUME \A n \in Nodes : node'[n].state = "done" <=> node[n].state = "done",
         \A n \in Nodes : node[n].state = "done" => node'[n].macs = node[n].macs
  PROVE  Settled' = Settled
BY DEF Settled

(* A machine is recorded if its NICs are, and with them no other.          *)
LEMMA RecordedOne ==
  ASSUME AllWhole, NEW S \in SUBSET NIC, NEW k \in Machine
  PROVE  AllOf(S \cup Nics[k]) = AllOf(S) \cup {k}
<1>1. \A j \in Machine \ {k} : Nics[j] \cap Nics[k] = {}
  BY NicsApart
<1> QED BY <1>1 DEF AllOf

LEMMA PromiseInit == AllWhole /\ Init => Promise!ProvisionInit
<1> SUFFICES ASSUME AllWhole, Init PROVE Promise!ProvisionInit
  OBVIOUS
<1>1. AllOf({}) = {}
  BY NicsApart DEF AllOf
<1>2. Settled = {}
  BY DEF Settled, Init, Unregistered
<1> QED BY <1>1, <1>2 DEF Init, Promise!ProvisionInit

(* The machine of a settled node has its image, and no command runs on it. *)
LEMMA SettledWritten ==
  ASSUME AllWhole, WInv, NEW k \in Settled
  PROVE  /\ k \in Machine /\ disk[k] = "image" /\ agent[k].status # "RUNNING"
         /\ \A n \in Nodes : node[n].macs = Nics[k] => node[n].state = "done"
<1>1. k \in Machine
  BY DEF Settled
<1>2. PICK n \in Nodes : node[n].state = "done" /\ node[n].macs \cap Nics[k] # {}
  BY DEF Settled
<1>3. PICK j \in Machine : node[n].macs = Nics[j]
  BY <1>2 DEF WInv, NodesWhole
<1>4. j = k
  BY <1>1, <1>2, <1>3, NicsApart
<1>5. disk[k] = "image" /\ agent[k].status # "RUNNING"
  BY <1>1, <1>2, <1>3, <1>4 DEF WInv, DisksWritten
<1>6. \A m \in Nodes : node[m].macs = Nics[k] => m = n
  BY <1>1, <1>2, OneNode
<1> QED BY <1>1, <1>2, <1>5, <1>6

(* A driver's step settles its own machine, which has its image, or none.  *)
LEMMA DriveSettles ==
  ASSUME AllWhole, CInv, WInv, NEW d \in Drivers, Drive(d)
  PROVE  \/ Settled' = Settled
         \/ /\ ToldOf(d) /\ ~At(d, "record")
            /\ \E k \in Machine : disk[k] = "image" /\ Settled' = Settled \cup {k}
<1> DEFINE own == driver[d].node
<1>1. /\ own \in Nodes /\ driver[d].pc \notin {"idle", "ended"}
      /\ node \in [Nodes -> NodeRecord]
  BY DriveMoves, Driving DEF CInv, TypeOK
<1>2. \A n \in Nodes : node'[n].macs = node[n].macs
  BY DriveNodes
<1>3. \A n \in Nodes : node[n].state = "done" => node'[n].state = "done"
  <2>1. PICK s \in States :
          /\ Moved(d, s)
          /\ s = node[own].state \/ <<node[own].state, s>> \in Moves
    BY DriveMoves
  <2> QED BY <1>1, <2>1 DEF Moved, Moves, NodeRecord
<1>4. CASE \A n \in Nodes : node'[n].state = "done" => node[n].state = "done"
  <2>1. \A n \in Nodes : node'[n].state = "done" <=> node[n].state = "done"
    BY <1>3, <1>4
  <2> QED BY <1>2, <2>1, SettledSame
<1>5. ASSUME NEW n \in Nodes, node'[n].state = "done", node[n].state # "done"
      PROVE  /\ ToldOf(d) /\ ~At(d, "record")
             /\ \E k \in Machine : disk[k] = "image" /\ Settled' = Settled \cup {k}
  <2>1. n = own /\ ToldOf(d)
    BY <1>5, DriveDone
  <2>2. ~At(d, "record")
    BY <1>5, <2>1 DEF CInv, DriverAgrees, At
  <2>3. PICK k \in Machine : node[n].macs = Nics[k]
    BY <1>1, <1>5, <2>1, DriveNodes, Driving DEF WInv, NodesWhole, CInv, NodesDrawn
  <2>4. disk[k] = "image"
    BY <2>1, <2>3 DEF WInv, DisksWritten
  <2>5. \A m \in Nodes : node'[m].state = "done" <=> (node[m].state = "done" \/ m = n)
    BY <1>3, <1>5, <2>1, DriveDone
  <2>6. Settled' = Settled \cup {k}
    <3>1. \A j \in Machine : node[n].macs \cap Nics[j] # {} <=> j = k
      BY <2>3, NicsApart
    <3> QED BY <1>2, <2>5, <3>1 DEF Settled
  <2> QED BY <2>1, <2>2, <2>4, <2>6
<1> QED BY <1>4, <1>5

LEMMA DrivePromise ==
  ASSUME AllWhole, CInv, WInv, NEW d \in Drivers, Drive(d)
  PROVE  [Promise!ProvisionNext]_(Promise!provisionVars)
<1> USE DEF Promise!provisionVars
<1>1. /\ driver[d].node \in Nodes /\ driver[d].pc \notin {"idle", "ended"}
      /\ disk \in [Machine -> {"old", "partial", "image"}]
      /\ disk' \in [Machine -> {"old", "partial", "image"}]
      /\ deployed \subseteq NIC
  BY DriveMoves, Driving DEF CInv, TypeOK
<1>2. CASE At(d, "record") /\ ~UNCHANGED tracker
  <2>1. UNCHANGED node /\ UNCHANGED disk
    BY <1>2, DriveRecords DEF machines
  <2>2. PICK k \in Machine : /\ node[driver[d].node].macs = Nics[k]
                             /\ deployed' = deployed \cup Nics[k]
    BY <1>2, DriveRecords
  <2>3. k \in Settled
    <3>1. node[driver[d].node].state = "done"
      BY <1>2 DEF CInv, DriverAgrees, At
    <3> QED BY <1>1, <2>2, <3>1, NicsApart DEF Settled
  <2>4. AllOf(deployed') = AllOf(deployed) \cup {k}
    BY <1>1, <2>2, RecordedOne
  <2>5. AllOf(stateFile') \in {AllOf(stateFile), AllOf(deployed')}
    BY <1>2, DriveRecords
  <2>6. Settled' = Settled
    BY <2>1, SettledSame
  <2>7. Promise!Enter(k)
    BY <2>1, <2>3, <2>4, <2>5, <2>6 DEF Promise!Enter, AllOf
  <2> QED BY <2>7 DEF Promise!ProvisionNext
<1>3. CASE UNCHANGED tracker
  <2>1. AllOf(deployed') = AllOf(deployed) /\ AllOf(stateFile') = AllOf(stateFile)
    BY <1>3 DEF tracker
  <2>2. CASE UNCHANGED disk
    <3>1. CASE Settled' = Settled
      BY <2>1, <2>2, <3>1 DEF AllOf
    <3>2. ASSUME NEW k \in Machine, disk[k] = "image", Settled' = Settled \cup {k}
          PROVE  Promise!ProvisionNext
      <4>1. Promise!Settle(k)
        BY <2>1, <2>2, <3>2 DEF Promise!Settle, AllOf
      <4> QED BY <4>1 DEF Promise!ProvisionNext
    <3> QED BY <3>1, <3>2, DriveSettles
  <2>3. CASE ~UNCHANGED disk
    <3>1. PICK k \in Machine : disk'[k] # disk[k]
      BY <1>1, <2>3
    <3>2. At(d, "prepare") /\ Reached(d, k) /\ disk' = [disk EXCEPT ![k] = "partial"]
      BY <3>1, DriveAgents
    <3>3. node[driver[d].node].macs = Nics[k] /\ node[driver[d].node].state = "deploying"
      BY <1>1, <3>2, ReachesOwn DEF CInv, DriverAgrees, At
    <3>4. k \notin Settled
      BY <1>1, <3>3, SettledWritten
    <3>5. Settled' = Settled
      BY <3>2, DriveSettles DEF ToldOf, At
    <3>6. Promise!Write(k)
      BY <2>1, <3>2, <3>4, <3>5 DEF Promise!Write, AllOf
    <3> QED BY <3>6 DEF Promise!ProvisionNext
  <2> QED BY <2>2, <2>3
<1> QED BY <1>2, <1>3, DriveRecords

(* Handlers, machines and the rest leave all of it alone, except that an   *)
(* agent completes the disk of a machine that is not settled yet.          *)
LEMMA OthersPromise ==
  ASSUME AllWhole, CInv, WInv,
         \/ \E k \in Machine : \E S \in Reports[k] : Lookup(k, S)
         \/ \E k \in Machine, url \in URL \cup {NoURL} : Heartbeat(k, url)
         \/ \E k \in Machine, x \in NIC : NetBoot(k, x)
         \/ \E k \in Machine : AgentUp(k) \/ AgentEnds(k)
  PROVE  [Promise!ProvisionNext]_(Promise!provisionVars)
<1> USE DEF Promise!provisionVars
<1>1. /\ UNCHANGED tracker
      /\ AllOf(deployed') = AllOf(deployed) /\ AllOf(stateFile') = AllOf(stateFile)
  BY DEF Lookup, Heartbeat, NetBoot, AgentUp, AgentEnds, tracker
<1>2. node \in [Nodes -> NodeRecord]
  BY DEF CInv, TypeOK
<1>3. ASSUME NEW k \in Machine, NEW S \in Reports[k], Lookup(k, S)
      PROVE  Settled' = Settled /\ UNCHANGED disk
  <2>1. PICK n \in Nodes : GetOrCreate(S, n)
    BY <1>3 DEF Lookup
  <2>2. CASE UNCHANGED node
    BY <1>3, <2>2, SettledSame DEF Lookup
  <2>3. CASE /\ n = created + 1
             /\ node' = [node EXCEPT ![n] = [Unregistered EXCEPT !.macs = S, !.state = "new"]]
    <3>1. node[n].state = "none"
      BY <2>3, DeployAssumption DEF CInv, TypeOK, NodesDrawn, Nodes
    <3>2. node'[n].state = "new" /\ \A m \in Nodes \ {n} : node'[m] = node[m]
      BY <1>2, <2>3 DEF Unregistered
    <3> QED BY <1>3, <3>1, <3>2, SettledSame DEF Lookup
  <2> QED BY <2>1, <2>2, <2>3 DEF GetOrCreate
<1>4. ASSUME NEW k \in Machine, NEW url \in URL \cup {NoURL}, Heartbeat(k, url)
      PROVE  Settled' = Settled /\ UNCHANGED disk
  <2>1. \A n \in Nodes : node'[n].macs = node[n].macs /\ node'[n].state = node[n].state
    BY <1>2, <1>4 DEF Heartbeat, NodeRecord
  <2> QED BY <1>4, <2>1, SettledSame DEF Heartbeat, machines
<1>5. CASE UNCHANGED <<node, disk>>
  BY <1>1, <1>5, SettledSame DEF AllOf
<1>6. ASSUME NEW k \in Machine, AgentEnds(k)
      PROVE  [Promise!ProvisionNext]_(Promise!provisionVars)
  <2>1. CASE disk' = [disk EXCEPT ![k] = "image"]
    <3>1. k \notin Settled /\ disk[k] = "partial" /\ Settled' = Settled
      BY <1>6, SettledWritten, SettledSame DEF AgentEnds, WInv, DisksWritten, server
    <3>2. Promise!Complete(k)
      BY <1>1, <2>1, <3>1 DEF Promise!Complete, AllOf
    <3> QED BY <3>2 DEF Promise!ProvisionNext
  <2> QED BY <1>5, <1>6, <2>1 DEF AgentEnds, server
<1> QED BY <1>1, <1>3, <1>4, <1>5, <1>6 DEF NetBoot, AgentUp, server, AllOf

(* The server keeps the promise of Provision: each step of handlers,       *)
(* drivers, agents and restarts is a write, a completion, a settlement or  *)
(* an entry for one machine, a crash, or nothing that matters.  So a disk  *)
(* is not written once its machine is settled, and only machines that have *)
(* their image are settled and recorded.                                   *)
THEOREM ProvisionImplements ==
  ASSUME AllWhole
  PROVE  Spec => ImplementsProvision
<1>1. CInv /\ WInv /\ [Next]_vars => [Promise!ProvisionNext]_(Promise!provisionVars)
  <2> SUFFICES ASSUME CInv, WInv, [Next]_vars
               PROVE  [Promise!ProvisionNext]_(Promise!provisionVars)
    OBVIOUS
  <2>1. CASE Restart
    <3>1. Settled' = {} /\ AllOf(deployed') = AllOf(stateFile) /\ UNCHANGED <<stateFile, disk>>
      BY <2>1 DEF Restart, Settled, Unregistered, machines
    <3>2. Promise!Crash
      BY <3>1 DEF Promise!Crash, AllOf
    <3> QED BY <3>2 DEF Promise!ProvisionNext
  <2>2. CASE UNCHANGED vars
    BY <2>2, SettledSame DEF vars, server, tracker, machines, AllOf, Promise!provisionVars
  <2> QED BY <2>1, <2>2, DrivePromise, OthersPromise DEF Next
<1> QED BY <1>1, PromiseInit, DriversInvariant, WholeInvariant, PTL
        DEF Spec, ImplementsProvision, Promise!ProvisionSpec

(* The server uses the record of deployed machines as a durable set, for   *)
(* any lookups: it adds to both copies or to that in memory only, and goes *)
(* back to the file when it starts.                                        *)
THEOREM TrackerKeepsRecord == Spec => KeepsRecord
<1>1. Init => Tracker!SetInit
  BY DEF Init, Tracker!SetInit
<1>2. CInv /\ [Next]_vars => [Tracker!SetNext]_(Tracker!setVars)
  <2> SUFFICES ASSUME CInv, [Next]_vars PROVE [Tracker!SetNext]_(Tracker!setVars)
    OBVIOUS
  <2>1. ASSUME NEW d \in Drivers, Record(d) PROVE Tracker!SetNext
    <3> DEFINE macs == node[driver[d].node].macs
    <3>1. macs \subseteq NIC
      BY <2>1, Driving DEF Record, At, CInv, TypeOK, NodeRecord
    <3>2. Tracker!Change(macs, {})
      BY <2>1 DEF Record, Tracker!Change
    <3> QED BY <3>1, <3>2 DEF Tracker!SetNext
  <2>2. CASE Restart
    BY <2>2 DEF Restart, Tracker!SetNext, Tracker!Reload
  <2>3. CASE UNCHANGED tracker
    BY <2>3 DEF tracker, Tracker!setVars
  <2> QED BY <2>1, <2>2, <2>3
          DEF vars, Next, Lookup, Heartbeat, NetBoot, AgentUp, AgentEnds, Drive, Snapshot,
              ClaimDeploy, PrepareImage, PollEnds, PollAgain, ClaimRun, RunImage, Finish
<1> QED BY <1>1, <1>2, DriversInvariant, PTL DEF Spec, KeepsRecord, Tracker!SetSpec
=============================================================================
