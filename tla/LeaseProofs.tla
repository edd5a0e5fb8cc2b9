---------------------------- MODULE LeaseProofs ----------------------------
(***************************************************************************)
(* Proofs about the address allocator, for any set of clients, address     *)
(* space, lease time and set of configurations.                            *)
(*                                                                         *)
(* The argument: `Sound' says that three values could be the allocator's   *)
(* memory.  The memory is sound, and stays so when lapsed leases are       *)
(* reaped from it (LiveSound); every operation then makes one change to a  *)
(* sound memory.  The file is a sound memory of the past (FileSound), so   *)
(* that what Start loads is sound again.                                   *)
(***************************************************************************)
EXTENDS Lease, TLAPS

Sound(leases, index, holds) ==
  /\ leases \in [MAC -> LeaseRecord]
  /\ index \in [Addr -> MAC \cup {NoMAC}]
  /\ holds \in [Addr -> Nat]
  /\ \A v \in Addr, m \in MAC : index[v] = m <=> leases[m].ip = v
  /\ \A m \in MAC : leases[m] # NoLease => leases[m].ip \in DynamicPool(cfg) /\ ~IsStatic(m)
  /\ \A v \in Addr : holds[v] > 0 => index[v] = NoMAC

(* The pool and the bound addresses lie in the address space. *)
LEMMA PoolInAddr ==
  ASSUME NEW c \in Configs
  PROVE  /\ Pool(c) \subseteq Addr
         /\ DynamicPool(c) \subseteq Addr
         /\ \A m \in MAC : c.static[m] \in Addr \cup {NoAddr}
         /\ \A m \in MAC : c.static[m] \in StaticIPs(c)
BY LeaseAssumption DEF Pool, DynamicPool, StaticIPs, Addr

(* The memory of a state of the invariant is sound. *)
LEMMA MemorySound == IInv => Sound(dynamic, byIP, declined)
BY DEF IInv, TypeOK, IndexExact, LeasesAllowed, HoldsUnleased, Sound

(* Reaping keeps the memory sound, and every lease and hold that runs.     *)
LEMMA LiveSound ==
  ASSUME IInv
  PROVE  /\ Sound(LiveLeases, LiveIndex, LiveDeclined)
         /\ \A m \in MAC : LiveLeases[m] # NoLease
                             => LiveLeases[m] = dynamic[m] /\ dynamic[m].expires > now
         /\ \A m \in MAC : dynamic[m].expires > now => LiveLeases[m] = dynamic[m]
         /\ \A v \in Addr : declined[v] > now => LiveDeclined[v] = declined[v]
         /\ \A v \in Addr : LiveDeclined[v] > 0 => LiveDeclined[v] > now
<1> USE LeaseAssumption
<1>1. Sound(dynamic, byIP, declined) /\ now \in Nat /\ cfg \in Configs
  BY MemorySound DEF IInv, TypeOK
<1>2. LiveLeases \in [MAC -> LeaseRecord]
  BY <1>1 DEF Sound, LiveLeases, LeaseRecord
<1>3. LiveIndex \in [Addr -> MAC \cup {NoMAC}] /\ LiveDeclined \in [Addr -> Nat]
  BY <1>1 DEF Sound, LiveIndex, LiveDeclined
<1>4. \A m \in MAC : LiveLeases[m] # NoLease
                       => LiveLeases[m] = dynamic[m] /\ dynamic[m].expires > now
  BY <1>1 DEF LiveLeases
<1>5. \A m \in MAC : dynamic[m].expires > now => LiveLeases[m] = dynamic[m]
  BY <1>1 DEF LiveLeases
<1>6. ASSUME NEW v \in Addr, NEW m \in MAC
      PROVE  LiveIndex[v] = m <=> LiveLeases[m].ip = v
  BY <1>1 DEF Sound, LiveIndex, LiveLeases, LeaseRecord, NoLease
<1>7. \A m \in MAC : LiveLeases[m] # NoLease
                       => LiveLeases[m].ip \in DynamicPool(cfg) /\ ~IsStatic(m)
  BY <1>1, <1>4 DEF Sound
<1>8. \A v \in Addr : /\ declined[v] > now => LiveDeclined[v] = declined[v]
                      /\ LiveDeclined[v] > 0 => LiveDeclined[v] > now
                      /\ LiveDeclined[v] > 0 => LiveIndex[v] = NoMAC
  BY <1>1 DEF Sound, LiveIndex, LiveDeclined
<1> QED BY <1>2, <1>3, <1>4, <1>5, <1>6, <1>7, <1>8 DEF Sound

-----------------------------------------------------------------------------
(* Type correctness. *)

LEMMA TypeStep == TypeOK /\ [Next]_vars => TypeOK'
<1> SUFFICES ASSUME TypeOK, [Next]_vars PROVE TypeOK'
  OBVIOUS
<1> USE LeaseAssumption DEF TypeOK
<1>1. \A m \in MAC : cfg.static[m] \in Addr \cup {NoAddr}
  BY PoolInAddr
<1>2. Until \in Nat
  BY DEF Until
<1>3. /\ LiveLeases \in [MAC -> LeaseRecord]
      /\ LiveIndex \in [Addr -> MAC \cup {NoMAC}]
      /\ LiveDeclined \in [Addr -> Nat]
  BY DEF LiveLeases, LiveIndex, LiveDeclined, LeaseRecord
<1>4. \A S \in SUBSET MAC : Ended(S) \in [MAC -> PromiseRecord]
  BY DEF Ended, PromiseRecord
<1>5. ASSUME NEW m \in MAC, NEW v \in Addr, NEW st \in BOOLEAN, Promise(m, v, st)
      PROVE  promised' \in [MAC -> PromiseRecord]
  BY <1>2, <1>5 DEF Promise, PromiseRecord
<1>6. /\ NoLeases \in [MAC -> LeaseRecord]
      /\ NoIndex \in [Addr -> MAC \cup {NoMAC}]
      /\ NoHolds \in [Addr -> Nat]
  BY DEF NoLeases, NoIndex, NoHolds, LeaseRecord
<1>7. ASSUME NEW m \in MAC, AllocateStatic(m) PROVE TypeOK'
  BY <1>1, <1>5, <1>7 DEF AllocateStatic, IsStatic, memory, file
<1>8. ASSUME NEW m \in MAC, Renew(m) PROVE TypeOK'
  <2>1. dynamic[m] = LiveLeases[m] /\ dynamic[m].ip \in Addr
    BY <1>8 DEF Renew, LiveLeases, LeaseRecord
  <2>2. dynamic' \in [MAC -> LeaseRecord]
    BY <1>2, <1>3, <1>8 DEF Renew, LeaseRecord
  <2> QED BY <1>3, <1>5, <1>8, <2>1, <2>2 DEF Renew, SaveAndPromise, Save, SaveFails, file
<1>9. ASSUME NEW m \in MAC, AllocateFresh(m) PROVE TypeOK'
  <2>1. PICK v \in Pool(cfg) :
           /\ dynamic' = [LiveLeases EXCEPT ![m] = [ip |-> v, expires |-> Until]]
           /\ byIP' = [LiveIndex EXCEPT ![v] = m]
           /\ declined' = LiveDeclined
           /\ SaveAndPromise(m, v)
    BY <1>9 DEF AllocateFresh
  <2>2. v \in Addr
    BY PoolInAddr
  <2>3. dynamic' \in [MAC -> LeaseRecord]
    BY <1>2, <1>3, <2>1, <2>2 DEF LeaseRecord
  <2>4. byIP' \in [Addr -> MAC \cup {NoMAC}]
    BY <1>3, <2>1, <2>2
  <2> QED BY <1>3, <1>5, <1>9, <2>1, <2>2, <2>3, <2>4
          DEF AllocateFresh, SaveAndPromise, Save, SaveFails, file
<1>10. ASSUME NEW m \in MAC, AllocateFails(m) PROVE TypeOK'
  BY <1>3, <1>10 DEF AllocateFails, file
<1>11. ASSUME NEW m \in MAC, NEW ip \in Addr, GiveUp(m, ip)
       PROVE  promised' \in [MAC -> PromiseRecord]
  BY <1>4, <1>11 DEF GiveUp
<1>12. ASSUME NEW m \in MAC, NEW ip \in Addr, Release(m, ip) PROVE TypeOK'
  BY <1>11, <1>12 DEF Release, Save, SaveFails, file, LeaseRecord
<1>13. ASSUME NEW m \in MAC, NEW ip \in Addr, ReleaseIgnored(m, ip) PROVE TypeOK'
  BY <1>11, <1>13 DEF ReleaseIgnored, memory, file
<1>14. ASSUME NEW v \in Addr, Decline(v) PROVE TypeOK'
  <2>1. promised' \in [MAC -> PromiseRecord]
    <3>1. ASSUME NEW m \in MAC, promised[m].ip = v
          PROVE  [promised[m] EXCEPT !.contested = TRUE] \in PromiseRecord
      <4>1. promised[m] \in [ip : Addr, until : Nat, static : BOOLEAN, contested : BOOLEAN]
        BY <3>1 DEF PromiseRecord, NoPromise
      <4> QED BY <4>1 DEF PromiseRecord
    <3> QED BY <1>14, <3>1 DEF Decline
  <2>2. /\ dynamic' \in [MAC -> LeaseRecord]
        /\ byIP' \in [Addr -> MAC \cup {NoMAC}]
        /\ declined' \in [Addr -> Nat]
    BY <1>2, <1>14 DEF Decline, LeaseRecord
  <2>3. held' \in [Addr -> Nat]
    BY <1>2, <1>14 DEF Decline
  <2> QED BY <1>14, <2>1, <2>2, <2>3 DEF Decline, Save, SaveFails, file
<1>15. CASE ClearDynamic
  BY <1>4, <1>6, <1>15 DEF ClearDynamic, Save, SaveFails, file, DynamicPromises
<1>16. CASE ClearLeaseFile
  BY <1>4, <1>6, <1>16 DEF ClearLeaseFile, memory, DynamicPromises
<1>17. CASE Stop
  BY <1>6, <1>17 DEF Stop, file
<1>18. ASSUME NEW c \in Configs, Start(c) PROVE TypeOK'
  <2>1. /\ dynamic' \in [MAC -> LeaseRecord]
        /\ byIP' \in [Addr -> MAC \cup {NoMAC}]
        /\ declined' \in [Addr -> Nat]
    BY <1>18 DEF Start, LeaseRecord, Loadable
  <2>2. promised' \in [MAC -> PromiseRecord]
    BY <1>4, <1>18 DEF Start
  <2> QED BY <1>18, <2>1, <2>2 DEF Start, file
<1>19. CASE Tick
  BY <1>4, <1>19 DEF Tick, memory, file
<1>20. CASE UNCHANGED vars
  BY <1>20 DEF vars, memory, file
<1> HIDE DEF TypeOK
<1> QED
  BY <1>7, <1>8, <1>9, <1>10, <1>12, <1>13, <1>14, <1>15, <1>16, <1>17, <1>18, <1>19, <1>20
  DEF Next, Allocate

LEMMA InitType == Init => TypeOK
<1> SUFFICES ASSUME Init PROVE TypeOK
  OBVIOUS
<1> USE LeaseAssumption
<1>1. up \in BOOLEAN
  BY DEF Init
<1>2. /\ NoLeases \in [MAC -> LeaseRecord]
      /\ NoIndex \in [Addr -> MAC \cup {NoMAC}]
      /\ NoHolds \in [Addr -> Nat]
      /\ promised \in [MAC -> PromiseRecord]
  BY DEF Init, NoLeases, NoIndex, NoHolds, LeaseRecord, PromiseRecord
<1> QED BY <1>1, <1>2 DEF Init, TypeOK

(* The allocator keeps every variable in its type. *)
THEOREM TypeCorrect == Spec => []TypeOK
BY InitType, TypeStep, PTL DEF Spec

-----------------------------------------------------------------------------
(* The inductive invariant, one lemma per operation. *)

(* A sound memory, once saved, is a sound file. *)
LEMMA SavedSound ==
  ASSUME NEW leases, NEW index, NEW holds, Sound(leases, index, holds)
  PROVE  /\ \A m, n \in MAC : (leases[m] # NoLease /\ leases[m].ip = leases[n].ip) => m = n
         /\ \A v \in Addr, m \in MAC : holds[v] > 0 => leases[m].ip # v
<1> USE LeaseAssumption DEF Sound
<1>1. ASSUME NEW m \in MAC, NEW n \in MAC, leases[m] # NoLease, leases[m].ip = leases[n].ip
      PROVE  m = n
  <2>1. leases[m].ip \in Addr
    BY <1>1 DEF LeaseRecord
  <2>2. index[leases[m].ip] = m /\ index[leases[m].ip] = n
    BY <1>1, <2>1
  <2> QED BY <2>2
<1>2. ASSUME NEW v \in Addr, NEW m \in MAC, holds[v] > 0 PROVE leases[m].ip # v
  BY <1>2
<1> QED BY <1>1, <1>2

(* Renewing a lease and granting a fresh one make the same change to a     *)
(* reaped memory: m has v, for one lease time from now.                    *)
Grant(m, v) ==
  /\ v \in DynamicPool(cfg) /\ ~IsStatic(m)
  /\ LiveIndex[v] \in {m, NoMAC}
  /\ ~(LiveDeclined[v] > 0)
  /\ LiveLeases[m] = NoLease \/ LiveLeases[m].ip = v
  /\ up
  /\ dynamic' = [LiveLeases EXCEPT ![m] = [ip |-> v, expires |-> Until]]
  /\ byIP' = [LiveIndex EXCEPT ![v] = m]
  /\ declined' = LiveDeclined
  /\ SaveAndPromise(m, v)
  /\ UNCHANGED <<cfg, up, now, held>>

LEMMA RenewGrants ==
  ASSUME IInv, NEW m \in MAC, Renew(m)
  PROVE  \E v \in Addr : Grant(m, v)
<1> USE LeaseAssumption
<1>1. cfg \in Configs /\ up /\ dynamic[m] = LiveLeases[m] /\ LiveLeases[m] # NoLease
  BY LiveSound DEF Renew, IInv, TypeOK
<1>2. dynamic[m].ip \in DynamicPool(cfg) /\ dynamic[m].ip \in Addr
  BY <1>1, LiveSound, PoolInAddr DEF Sound
<1>3. LiveIndex[dynamic[m].ip] = m /\ ~(LiveDeclined[dynamic[m].ip] > 0)
  BY <1>1, <1>2, LiveSound DEF Sound
<1>4. dynamic' = [LiveLeases EXCEPT ![m] = [ip |-> dynamic[m].ip, expires |-> Until]]
  <2>1. LiveLeases[m] = [ip |-> dynamic[m].ip, expires |-> dynamic[m].expires]
    BY <1>1, LiveSound DEF Sound, LeaseRecord, NoLease
  <2>2. [LiveLeases[m] EXCEPT !.expires = Until] = [ip |-> dynamic[m].ip, expires |-> Until]
    BY <2>1
  <2>3. dynamic' = [LiveLeases EXCEPT ![m] = [LiveLeases[m] EXCEPT !.expires = Until]]
    BY LiveSound DEF Renew, Sound
  <2> QED BY <2>2, <2>3
<1>5. byIP' = [LiveIndex EXCEPT ![dynamic[m].ip] = m]
  BY <1>2, <1>3, LiveSound DEF Renew, Sound
<1> QED BY <1>1, <1>2, <1>3, <1>4, <1>5 DEF Renew, Grant

LEMMA FreshGrants ==
  ASSUME IInv, NEW m \in MAC, AllocateFresh(m)
  PROVE  \E v \in Addr : Grant(m, v)
<1> USE LeaseAssumption
<1>1. PICK v \in Pool(cfg) :
         /\ Free(v)
         /\ dynamic' = [LiveLeases EXCEPT ![m] = [ip |-> v, expires |-> Until]]
         /\ byIP' = [LiveIndex EXCEPT ![v] = m]
         /\ declined' = LiveDeclined
         /\ SaveAndPromise(m, v)
  BY DEF AllocateFresh
<1>2. cfg \in Configs /\ now \in Nat
  BY DEF IInv, TypeOK
<1>3. v \in Addr /\ v \in DynamicPool(cfg)
  BY <1>1, <1>2, PoolInAddr DEF Free, DynamicPool
<1>4. ~(LiveDeclined[v] > 0)
  BY <1>1, <1>2, <1>3, LiveSound DEF Free, Sound
<1> QED BY <1>1, <1>3, <1>4 DEF AllocateFresh, Grant, Free

(* What a grant relies on: nobody else was promised v, it is on no         *)
(* acknowledged hold, and m was promised nothing else that is uncontested. *)
LEMMA GrantFree ==
  ASSUME IInv, NEW m \in MAC, NEW v \in Addr, Grant(m, v)
  PROVE  /\ \A n \in MAC \ {m} : promised[n] # NoPromise => promised[n].ip # v
         /\ held[v] = 0
         /\ Firm(promised[m]) => promised[m].ip = v
<1> USE LeaseAssumption
<1>1. /\ now \in Nat /\ cfg \in Configs /\ held \in [Addr -> Nat]
      /\ promised \in [MAC -> PromiseRecord]
      /\ dynamic \in [MAC -> LeaseRecord] /\ declined \in [Addr -> Nat]
  BY DEF IInv, TypeOK
<1>2. ASSUME NEW n \in MAC, promised[n] # NoPromise, ~promised[n].static
      PROVE  /\ promised[n].ip \in Addr /\ promised[n].until \in Nat
             /\ \/ LiveLeases[n] # NoLease /\ LiveLeases[n].ip = promised[n].ip
                \/ promised[n].contested /\ LiveDeclined[promised[n].ip] > 0
  <2>1. now < promised[n].until /\ Covered(n, dynamic, declined)
    BY <1>2 DEF IInv, PromisesRun, PromisesCovered, Grant
  <2>2. promised[n].ip \in Addr /\ promised[n].until \in Nat
    BY <1>1, <1>2 DEF PromiseRecord
  <2>3. CASE dynamic[n].ip = promised[n].ip /\ dynamic[n].expires >= promised[n].until
    <3>1. dynamic[n].expires \in Nat
      BY <1>1 DEF LeaseRecord, NoLease
    <3>2. LiveLeases[n] = dynamic[n]
      BY <1>1, <2>1, <2>2, <2>3, <3>1, LiveSound
    <3> QED BY <2>2, <2>3, <3>2 DEF NoLease
  <2>4. CASE promised[n].contested /\ declined[promised[n].ip] >= promised[n].until
    BY <1>1, <2>1, <2>2, <2>4, LiveSound
  <2> QED BY <2>1, <2>2, <2>3, <2>4 DEF Covered
<1>3. ASSUME NEW n \in MAC \ {m}, promised[n] # NoPromise, promised[n].ip = v PROVE FALSE
  <2>1. CASE promised[n].static
    <3>1. cfg.static[n] = v
      BY <1>3, <2>1 DEF IInv, PromisesRun, Contradicts
    <3> QED BY <1>1, <3>1, PoolInAddr DEF Grant, DynamicPool
  <2>2. CASE ~promised[n].static
    <3>1. LiveLeases[n].ip = v
      BY <1>2, <1>3, <2>2 DEF Grant
    <3>2. LiveIndex[v] = n
      BY <3>1, LiveSound DEF Sound
    <3> QED BY <1>3, <3>2 DEF Grant
  <2> QED BY <2>1, <2>2
<1>4. held[v] = 0
  <2> SUFFICES ASSUME held[v] > 0 PROVE FALSE
    BY <1>1
  <2>1. now < held[v] /\ held[v] <= declined[v]
    BY DEF IInv, HoldsCovered, Grant
  <2>2. LiveDeclined[v] = declined[v]
    BY <1>1, <2>1, LiveSound
  <2> QED BY <1>1, <2>1, <2>2 DEF Grant
<1>5. ASSUME Firm(promised[m]) PROVE promised[m].ip = v
  BY <1>2, <1>5 DEF Firm, Grant
<1> QED BY <1>3, <1>4, <1>5

(* The parts of the next state's invariant, put together. *)
LEMMA Assembled ==
  ASSUME TypeOK', Sound(dynamic, byIP, declined)', FileSound', PromisesRun',
         PromisesCovered', HoldsCovered', Exclusive'
  PROVE  IInv'
BY DEF IInv, Sound, IndexExact, LeasesAllowed, HoldsUnleased

LEMMA GrantInv ==
  ASSUME IInv, TypeOK', NEW m \in MAC, NEW v \in Addr, Grant(m, v)
  PROVE  IInv'
<1> USE LeaseAssumption
<1>1. /\ now \in Nat /\ cfg \in Configs /\ up /\ up' /\ cfg' = cfg /\ now' = now /\ held' = held
      /\ held \in [Addr -> Nat] /\ promised \in [MAC -> PromiseRecord]
      /\ dynamic \in [MAC -> LeaseRecord] /\ declined \in [Addr -> Nat]
      /\ Until \in Nat /\ Until > now /\ Until' = Until
  BY DEF IInv, TypeOK, Grant, Until
<1>2. Sound(dynamic, byIP, declined)'
  <2>1. Sound(LiveLeases, LiveIndex, LiveDeclined)
    BY LiveSound
  <2>2. [ip |-> v, expires |-> Until] \in LeaseRecord
    BY <1>1 DEF LeaseRecord
  <2>3. /\ dynamic' \in [MAC -> LeaseRecord]
        /\ byIP' \in [Addr -> MAC \cup {NoMAC}]
        /\ declined' \in [Addr -> Nat]
    BY <2>1, <2>2 DEF Sound, Grant
  <2>4. /\ \A n \in MAC : dynamic'[n] = IF n = m THEN [ip |-> v, expires |-> Until]
                                               ELSE LiveLeases[n]
        /\ \A w \in Addr : byIP'[w] = IF w = v THEN m ELSE LiveIndex[w]
    BY <2>1 DEF Sound, Grant
  <2>5. ASSUME NEW w \in Addr, NEW n \in MAC PROVE byIP'[w] = n <=> dynamic'[n].ip = w
    <3>1. LiveIndex[w] = n <=> LiveLeases[n].ip = w
      BY <2>1 DEF Sound
    <3>2. CASE n = m
      BY <2>1, <2>4, <3>2 DEF Sound, Grant, NoLease
    <3>3. CASE n # m
      BY <2>4, <3>1, <3>3 DEF Grant
    <3> QED BY <3>2, <3>3
  <2>6. /\ \A n \in MAC : dynamic'[n] # NoLease => dynamic'[n].ip \in DynamicPool(cfg) /\ ~IsStatic(n)
        /\ \A w \in Addr : declined'[w] > 0 => byIP'[w] = NoMAC
    BY <2>1, <2>4 DEF Sound, Grant
  <2> QED BY <1>1, <2>3, <2>5, <2>6 DEF Sound, IsStatic
<1>3. \/ Save /\ Promise(m, v, FALSE)
      \/ fileLeases' = fileLeases /\ fileDeclined' = fileDeclined /\ promised' = promised
  BY DEF Grant, SaveAndPromise, SaveFails, file
<1>4. FileSound'
  <2>1. CASE Save
    <3>1. Sound(dynamic', byIP', declined')
      BY <1>1, <1>2 DEF Sound, IsStatic
    <3> HIDE DEF LeaseAssumption
    <3> QED BY <2>1, <3>1, SavedSound DEF Save, FileSound
  <2>2. CASE fileLeases' = fileLeases /\ fileDeclined' = fileDeclined
    BY <2>2 DEF IInv, FileSound
  <2> QED BY <1>3, <2>1, <2>2
<1>5. PromisesRun'
  <2>1. ~Contradicts(cfg, m)' \/ promised' = promised
    BY <1>1, <1>3 DEF Contradicts, Promise, Grant, IsStatic
  <2> QED BY <1>1, <1>3, <2>1 DEF IInv, PromisesRun, Contradicts, Promise
<1>6. ASSUME NEW n \in MAC, promised'[n] # NoPromise, ~promised'[n].static
      PROVE  Covered(n, dynamic, declined)' /\ Covered(n, fileLeases, fileDeclined)'
  <2>1. CASE Promise(m, v, FALSE) /\ Save /\ n = m
    <3>1. promised'[n].ip = v /\ promised'[n].until = Until
      BY <1>1, <2>1 DEF Promise
    <3>2. dynamic'[n].ip = v /\ dynamic'[n].expires = Until
      BY <2>1, LiveSound DEF Grant, Sound
    <3> QED BY <1>1, <2>1, <3>1, <3>2 DEF Covered, Save
  <2>2. CASE promised'[n] = promised[n]
    <3>1. /\ promised[n] # NoPromise /\ ~promised[n].static
          /\ now < promised[n].until /\ promised[n].until \in Nat /\ promised[n].ip \in Addr
          /\ promised[n].until <= Until
          /\ Covered(n, dynamic, declined) /\ Covered(n, fileLeases, fileDeclined)
      BY <1>1, <1>6, <2>2 DEF IInv, PromisesRun, PromisesCovered, PromiseRecord
    <3>2. Covered(n, dynamic, declined)'
      <4>1. CASE dynamic[n].ip = promised[n].ip /\ dynamic[n].expires >= promised[n].until
        <5>1. dynamic[n].expires \in Nat
          BY <1>1 DEF LeaseRecord, NoLease
        <5>2. LiveLeases[n] = dynamic[n]
          BY <1>1, <3>1, <4>1, <5>1, LiveSound
        <5>3. CASE n = m
          <6>1. dynamic'[n] = [ip |-> v, expires |-> Until]
            BY <5>3, LiveSound DEF Grant, Sound
          <6>2. promised[n].ip = v
            BY <3>1, <4>1, <5>2, <5>3 DEF Grant, NoLease
          <6> QED BY <1>1, <2>2, <3>1, <6>1, <6>2 DEF Covered
        <5>4. CASE n # m
          <6>1. dynamic'[n] = dynamic[n]
            BY <5>2, <5>4, LiveSound DEF Grant, Sound
          <6> QED BY <2>2, <4>1, <6>1 DEF Covered
        <5> QED BY <5>3, <5>4
      <4>2. CASE promised[n].contested /\ declined[promised[n].ip] >= promised[n].until
        <5>1. LiveDeclined[promised[n].ip] = declined[promised[n].ip]
          BY <1>1, <3>1, <4>2, LiveSound
        <5> QED BY <2>2, <4>2, <5>1 DEF Covered, Grant
      <4> QED BY <3>1, <4>1, <4>2 DEF Covered
    <3>3. CASE Save
      BY <3>2, <3>3 DEF Covered, Save
    <3>4. CASE fileLeases' = fileLeases /\ fileDeclined' = fileDeclined
      BY <2>2, <3>1, <3>2, <3>4 DEF Covered
    <3> QED BY <1>3, <3>2, <3>3, <3>4 DEF Covered
  <2>3. n # m => promised'[n] = promised[n]
    BY <1>1, <1>3 DEF Promise
  <2> QED BY <1>3, <2>1, <2>2, <2>3 DEF Covered
<1>7. PromisesCovered'
  BY <1>6 DEF PromisesCovered
<1>8. HoldsCovered'
  <2>1. ASSUME NEW w \in Addr, held[w] > 0
        PROVE  now < held[w] /\ held[w] <= Until /\ held[w] <= declined'[w]
               /\ held[w] <= fileDeclined'[w]
    <3>1. now < held[w] /\ held[w] <= Until /\ held[w] <= declined[w] /\ held[w] <= fileDeclined[w]
      BY <1>1, <2>1 DEF IInv, HoldsCovered
    <3>2. declined'[w] = declined[w]
      BY <1>1, <3>1, LiveSound DEF Grant
    <3> QED BY <1>3, <3>1, <3>2 DEF Save
  <2> QED BY <1>1, <2>1 DEF HoldsCovered
<1>9. Exclusive'
  <2>1. CASE promised' = promised
    BY <2>1 DEF IInv, Exclusive
  <2>2. CASE Promise(m, v, FALSE)
    <3>1. promised'[m].ip = v /\ \A n \in MAC \ {m} : promised'[n] = promised[n]
      BY <1>1, <2>2 DEF Promise
    <3>2. \A n \in MAC \ {m} : promised[n].ip # v
      BY <1>1, GrantFree DEF NoPromise
    <3>3. ASSUME NEW m1 \in MAC, NEW m2 \in MAC, m1 # m2, promised'[m1] # NoPromise,
                 promised'[m1].ip = promised'[m2].ip
          PROVE  promised'[m1].static /\ promised'[m2].static
      <4>1. m1 # m /\ m2 # m
        BY <3>1, <3>2, <3>3
      <4> QED BY <3>1, <3>3, <4>1 DEF IInv, Exclusive
    <3> QED BY <3>3 DEF Exclusive
  <2> QED BY <1>3, <2>1, <2>2
<1> QED BY <1>2, <1>4, <1>5, <1>7, <1>8, <1>9, Assembled

(* A step that only ends promises keeps the ones that stand apart.         *)
LEMMA EndedKeeps ==
  ASSUME IInv, TypeOK', \A n \in MAC : promised'[n] \in {promised[n], NoPromise}
  PROVE  /\ Exclusive'
         /\ (cfg' = cfg /\ now' = now) => PromisesRun'
<1>1. Exclusive'
  <2>1. ASSUME NEW m1 \in MAC, NEW m2 \in MAC, m1 # m2, promised'[m1] # NoPromise,
               promised'[m1].ip = promised'[m2].ip
        PROVE  promised'[m1].static /\ promised'[m2].static
    <3>1. promised'[m1].ip \in Addr
      BY <2>1 DEF TypeOK, PromiseRecord
    <3>2. promised'[m2] # NoPromise
      BY <2>1, <3>1, LeaseAssumption DEF NoPromise
    <3>3. promised'[m1] = promised[m1] /\ promised'[m2] = promised[m2]
      BY <2>1, <3>2
    <3> QED BY <2>1, <3>3 DEF IInv, Exclusive
  <2> QED BY <2>1 DEF Exclusive
<1>2. ASSUME cfg' = cfg, now' = now PROVE PromisesRun'
  <2>1. ASSUME NEW n \in MAC, promised'[n] # NoPromise PROVE promised'[n] = promised[n]
    BY <2>1
  <2> QED BY <1>2, <2>1 DEF IInv, PromisesRun, Until, Contradicts
<1> QED BY <1>1, <1>2

(* A static promise is apart from every dynamic one: its address is in no  *)
(* dynamic pool.                                                           *)
LEMMA StaticInv ==
  ASSUME IInv, TypeOK', NEW m \in MAC, AllocateStatic(m)
  PROVE  IInv'
<1> USE LeaseAssumption
<1> DEFINE v == cfg.static[m]
<1>1. /\ now \in Nat /\ cfg \in Configs /\ cfg' = cfg /\ now' = now /\ held' = held /\ up' = up
      /\ dynamic' = dynamic /\ byIP' = byIP /\ declined' = declined
      /\ fileLeases' = fileLeases /\ fileDeclined' = fileDeclined
      /\ promised \in [MAC -> PromiseRecord] /\ Until \in Nat /\ Until > now
  BY DEF IInv, TypeOK, AllocateStatic, memory, file, Until
<1>2. /\ v \in Addr /\ v \in StaticIPs(cfg)
      /\ promised'[m] = [ip |-> v, until |-> Until, static |-> TRUE, contested |-> FALSE]
      /\ \A n \in MAC \ {m} : promised'[n] = promised[n]
  BY <1>1, PoolInAddr DEF AllocateStatic, IsStatic, Promise
<1>3. PromisesRun'
  BY <1>1, <1>2 DEF IInv, PromisesRun, Contradicts, Until
<1>4. PromisesCovered'
  BY <1>1, <1>2 DEF IInv, PromisesCovered, Covered
<1>5. Exclusive'
  <2>1. ASSUME NEW n \in MAC, promised[n] # NoPromise, promised[n].ip = v PROVE promised[n].static
    BY <1>2, <2>1 DEF IInv, PromisesRun, Contradicts, DynamicPool
  <2>2. ASSUME NEW m1 \in MAC, NEW m2 \in MAC, m1 # m2, promised'[m1] # NoPromise,
               promised'[m1].ip = promised'[m2].ip
        PROVE  promised'[m1].static /\ promised'[m2].static
    <3>1. CASE m1 = m
      <4>1. promised[m2].ip = v /\ promised[m2] # NoPromise
        BY <1>2, <2>2, <3>1 DEF NoPromise
      <4> QED BY <1>2, <2>1, <2>2, <3>1, <4>1
    <3>2. CASE m2 = m
      <4>1. promised[m1].ip = v /\ promised[m1] # NoPromise
        BY <1>2, <2>2, <3>2
      <4> QED BY <1>2, <2>1, <2>2, <3>2, <4>1
    <3>3. CASE m1 # m /\ m2 # m
      BY <1>2, <2>2, <3>3 DEF IInv, Exclusive
    <3> QED BY <3>1, <3>2, <3>3
  <2> QED BY <2>2 DEF Exclusive
<1>6. Sound(dynamic, byIP, declined)'
  BY <1>1, MemorySound DEF Sound, IsStatic
<1>7. FileSound' /\ HoldsCovered'
  BY <1>1 DEF IInv, FileSound, HoldsCovered, Until
<1> QED BY <1>3, <1>4, <1>5, <1>6, <1>7, Assembled

LEMMA FailsInv ==
  ASSUME IInv, TypeOK', NEW m \in MAC, AllocateFails(m)
  PROVE  IInv'
<1> USE LeaseAssumption
<1>1. /\ now \in Nat /\ cfg' = cfg /\ now' = now /\ held' = held /\ up' = up
      /\ fileLeases' = fileLeases /\ fileDeclined' = fileDeclined /\ promised' = promised
      /\ promised \in [MAC -> PromiseRecord] /\ held \in [Addr -> Nat]
      /\ dynamic \in [MAC -> LeaseRecord] /\ declined \in [Addr -> Nat]
      /\ dynamic' = LiveLeases /\ byIP' = LiveIndex /\ declined' = LiveDeclined /\ up
  BY DEF IInv, TypeOK, AllocateFails, file
<1>2. Sound(dynamic, byIP, declined)'
  BY <1>1, LiveSound DEF Sound, IsStatic
<1>3. ASSUME NEW n \in MAC, promised[n] # NoPromise, ~promised[n].static
      PROVE  Covered(n, LiveLeases, LiveDeclined)
  <2>1. /\ Covered(n, dynamic, declined) /\ now < promised[n].until
        /\ promised[n].until \in Nat /\ promised[n].ip \in Addr
    BY <1>1, <1>3 DEF IInv, PromisesCovered, PromisesRun, PromiseRecord
  <2>2. dynamic[n].expires \in Nat
    BY <1>1 DEF LeaseRecord, NoLease
  <2>3. CASE dynamic[n].ip = promised[n].ip /\ dynamic[n].expires >= promised[n].until
    BY <1>1, <2>1, <2>2, <2>3, LiveSound DEF Covered
  <2>4. CASE promised[n].contested /\ declined[promised[n].ip] >= promised[n].until
    BY <1>1, <2>1, <2>4, LiveSound DEF Covered
  <2> QED BY <2>1, <2>3, <2>4 DEF Covered
<1>4. PromisesCovered'
  BY <1>1, <1>3 DEF IInv, PromisesCovered, Covered
<1>5. HoldsCovered'
  <2>1. ASSUME NEW w \in Addr, held[w] > 0 PROVE held[w] <= LiveDeclined[w]
    BY <1>1, <2>1, LiveSound DEF IInv, HoldsCovered
  <2> QED BY <1>1, <2>1 DEF IInv, HoldsCovered, Until
<1>6. FileSound' /\ PromisesRun' /\ Exclusive'
  BY <1>1 DEF IInv, FileSound, PromisesRun, Exclusive, Until, Contradicts
<1> QED BY <1>2, <1>4, <1>5, <1>6, Assembled

LEMMA ReleaseInv ==
  ASSUME IInv, TypeOK', NEW m \in MAC, NEW ip \in Addr, Release(m, ip)
  PROVE  IInv'
<1> USE LeaseAssumption
<1>1. /\ now \in Nat /\ cfg' = cfg /\ now' = now /\ held' = held /\ up' = up /\ up
      /\ dynamic \in [MAC -> LeaseRecord] /\ declined' = declined
      /\ dynamic[m].ip = ip
      /\ \A n \in MAC : dynamic'[n] = IF n = m THEN NoLease ELSE dynamic[n]
      /\ \A w \in Addr : byIP'[w] = IF w = ip THEN NoMAC ELSE byIP[w]
      /\ \/ fileLeases' = dynamic' /\ fileDeclined' = declined'
         \/ fileLeases' = fileLeases /\ fileDeclined' = fileDeclined
  BY DEF IInv, TypeOK, Release, Save, SaveFails, file
<1>2. /\ \A n \in MAC : promised'[n] \in {promised[n], NoPromise}
      /\ promised[m].ip = ip => promised'[m] = NoPromise
  BY DEF Release, GiveUp, Ended
<1>3. Sound(dynamic', byIP', declined') /\ Sound(dynamic, byIP, declined)'
  <2>1. Sound(dynamic, byIP, declined)
    BY MemorySound
  <2>2. ASSUME NEW w \in Addr, NEW n \in MAC PROVE byIP'[w] = n <=> dynamic'[n].ip = w
    BY <1>1, <2>1 DEF Sound, NoLease
  <2> QED BY <1>1, <2>1, <2>2 DEF Sound, IsStatic, TypeOK
<1>4. FileSound'
  <2>1. CASE fileLeases' = dynamic' /\ fileDeclined' = declined'
    BY <1>3, <2>1, SavedSound DEF FileSound
  <2>2. CASE fileLeases' = fileLeases /\ fileDeclined' = fileDeclined
    BY <2>2 DEF IInv, FileSound
  <2> QED BY <1>1, <2>1, <2>2
<1>5. PromisesCovered'
  <2>1. ASSUME NEW n \in MAC, promised'[n] # NoPromise, ~promised'[n].static
        PROVE  Covered(n, dynamic, declined)' /\ Covered(n, fileLeases, fileDeclined)'
    <3>1. /\ promised'[n] = promised[n]
          /\ Covered(n, dynamic, declined) /\ Covered(n, fileLeases, fileDeclined)
      BY <1>1, <1>2, <2>1 DEF IInv, PromisesCovered
    <3>2. n = m => promised[n].ip # ip
      BY <1>2, <2>1
    <3>3. Covered(n, dynamic, declined)'
      BY <1>1, <3>1, <3>2 DEF Covered
    <3> QED BY <1>1, <3>1, <3>3 DEF Covered
  <2> QED BY <2>1 DEF PromisesCovered
<1>6. HoldsCovered'
  BY <1>1 DEF IInv, HoldsCovered, Until
<1> QED BY <1>1, <1>2, <1>3, <1>4, <1>5, <1>6, EndedKeeps, Assembled

LEMMA ReleaseIgnoredInv ==
  ASSUME IInv, TypeOK', NEW m \in MAC, NEW ip \in Addr, ReleaseIgnored(m, ip)
  PROVE  IInv'
<1>1. /\ cfg' = cfg /\ now' = now /\ held' = held /\ up' = up
      /\ dynamic' = dynamic /\ byIP' = byIP /\ declined' = declined
      /\ fileLeases' = fileLeases /\ fileDeclined' = fileDeclined
      /\ \A n \in MAC : promised'[n] \in {promised[n], NoPromise}
  BY DEF ReleaseIgnored, memory, file, GiveUp, Ended
<1>2. ASSUME NEW n \in MAC, promised'[n] # NoPromise PROVE promised'[n] = promised[n]
  BY <1>1, <1>2
<1>3. PromisesCovered'
  BY <1>1, <1>2 DEF IInv, PromisesCovered, Covered
<1>4. FileSound' /\ HoldsCovered' /\ Sound(dynamic, byIP, declined)'
  BY <1>1, MemorySound DEF IInv, FileSound, HoldsCovered, Until, Sound, IsStatic
<1> QED BY <1>1, <1>3, <1>4, EndedKeeps, Assembled

LEMMA DeclineInv ==
  ASSUME IInv, TypeOK', NEW v \in Addr, Decline(v)
  PROVE  IInv'
<1> USE LeaseAssumption
<1>1. /\ now \in Nat /\ cfg' = cfg /\ now' = now /\ up' = up /\ up /\ cfg \in Configs
      /\ Until \in Nat /\ Until > now /\ Until' = Until
      /\ dynamic \in [MAC -> LeaseRecord] /\ byIP \in [Addr -> MAC \cup {NoMAC}]
      /\ promised \in [MAC -> PromiseRecord]
      /\ declined \in [Addr -> Nat] /\ held \in [Addr -> Nat]
  BY DEF IInv, TypeOK, Decline, Until
<1>2. /\ \A n \in MAC : dynamic'[n] = IF byIP[v] = n THEN NoLease ELSE dynamic[n]
      /\ \A w \in Addr : byIP'[w] = IF w = v THEN NoMAC ELSE byIP[w]
      /\ \A w \in Addr : declined'[w] = IF w = v /\ v \in DynamicPool(cfg) THEN Until ELSE declined[w]
  BY <1>1 DEF Decline
<1>3. \/ /\ fileLeases' = dynamic' /\ fileDeclined' = declined'
         /\ \A w \in Addr : held'[w] = IF w = v /\ v \in DynamicPool(cfg) THEN Until ELSE held[w]
      \/ fileLeases' = fileLeases /\ fileDeclined' = fileDeclined /\ held' = held
  BY <1>1 DEF Decline, Save, SaveFails, file
<1>4. Sound(dynamic', byIP', declined') /\ Sound(dynamic, byIP, declined)'
  <2>1. Sound(dynamic, byIP, declined)
    BY MemorySound
  <2>2. ASSUME NEW w \in Addr, NEW n \in MAC PROVE byIP'[w] = n <=> dynamic'[n].ip = w
    BY <1>2, <2>1 DEF Sound, NoLease
  <2> QED BY <1>1, <1>2, <2>1, <2>2 DEF Sound, IsStatic, TypeOK
<1>5. FileSound'
  <2>1. CASE fileLeases' = dynamic' /\ fileDeclined' = declined'
    BY <1>4, <2>1, SavedSound DEF FileSound
  <2>2. CASE fileLeases' = fileLeases /\ fileDeclined' = fileDeclined
    BY <2>2 DEF IInv, FileSound
  <2> QED BY <1>3, <2>1, <2>2
<1>6. ASSUME NEW n \in MAC
      PROVE  /\ promised'[n].ip = promised[n].ip /\ promised'[n].until = promised[n].until
             /\ promised'[n].static = promised[n].static
             /\ promised'[n] # NoPromise => promised[n] # NoPromise
             /\ promised[n].contested => promised'[n].contested
             /\ (promised[n].ip = v /\ ~promised[n].static) => promised'[n].contested
  <2>1. promised'[n] = IF promised[n].ip = v /\ ~promised[n].static
                       THEN [promised[n] EXCEPT !.contested = TRUE] ELSE promised[n]
    BY DEF Decline
  <2>2. CASE promised[n].ip = v /\ ~promised[n].static
    <3>1. promised[n] \in [ip : Addr, until : Nat, static : BOOLEAN, contested : BOOLEAN]
      BY <1>1, <2>2 DEF PromiseRecord, NoPromise
    <3>2. promised[n] # NoPromise
      BY <2>2 DEF NoPromise
    <3> QED BY <2>1, <2>2, <3>1, <3>2
  <2>3. CASE ~(promised[n].ip = v /\ ~promised[n].static)
    BY <2>1, <2>3
  <2> QED BY <2>2, <2>3
<1>7. PromisesRun'
  BY <1>1, <1>6 DEF IInv, PromisesRun, Contradicts
<1>8. ASSUME NEW n \in MAC, promised'[n] # NoPromise, ~promised'[n].static
      PROVE  Covered(n, dynamic, declined)' /\ Covered(n, fileLeases, fileDeclined)'
  <2>1. /\ promised[n].until \in Nat /\ promised[n].ip \in Addr
        /\ promised[n].until <= Until /\ promised[n].ip \in DynamicPool(cfg)
        /\ Covered(n, dynamic, declined) /\ Covered(n, fileLeases, fileDeclined)
    BY <1>1, <1>6, <1>8 DEF IInv, PromisesCovered, PromisesRun, PromiseRecord, Contradicts
  <2>2. Covered(n, dynamic, declined)'
    <3>1. CASE promised[n].ip = v
      BY <1>1, <1>2, <1>6, <1>8, <2>1, <3>1 DEF Covered
    <3>2. CASE promised[n].ip # v
      <4>1. CASE dynamic[n].ip = promised[n].ip /\ dynamic[n].expires >= promised[n].until
        <5>1. byIP[v] # n
          BY <3>2, <4>1, MemorySound DEF Sound
        <5> QED BY <1>2, <1>6, <4>1, <5>1 DEF Covered
      <4>2. CASE promised[n].contested /\ declined[promised[n].ip] >= promised[n].until
        BY <1>2, <1>6, <2>1, <3>2, <4>2 DEF Covered
      <4> QED BY <2>1, <4>1, <4>2 DEF Covered
    <3> QED BY <3>1, <3>2
  <2>3. Covered(n, fileLeases, fileDeclined)'
    BY <1>3, <1>6, <2>1, <2>2 DEF Covered
  <2> QED BY <2>2, <2>3
<1>9. PromisesCovered'
  BY <1>8 DEF PromisesCovered
<1>10. HoldsCovered'
  <2>1. ASSUME NEW w \in Addr, held'[w] > 0
        PROVE  now < held'[w] /\ held'[w] <= Until /\ held'[w] <= declined'[w]
               /\ held'[w] <= fileDeclined'[w]
    <3>1. held[w] > 0 => /\ now < held[w] /\ held[w] <= Until
                         /\ held[w] <= declined[w] /\ held[w] <= fileDeclined[w]
      BY <1>1 DEF IInv, HoldsCovered
    <3>2. held[w] \in Nat
      BY <1>1
    <3> QED BY <1>1, <1>2, <1>3, <2>1, <3>1, <3>2
  <2> QED BY <1>1, <2>1 DEF HoldsCovered
<1>11. Exclusive'
  BY <1>6 DEF IInv, Exclusive
<1> QED BY <1>4, <1>5, <1>7, <1>9, <1>10, <1>11, Assembled

(* An empty memory is sound, and an empty file too. *)
LEMMA EmptySound ==
  /\ Sound(NoLeases, NoIndex, NoHolds)
  /\ \A m \in MAC, v \in Addr : NoLeases[m].ip # v
BY LeaseAssumption DEF Sound, NoLeases, NoIndex, NoHolds, NoLease, LeaseRecord

LEMMA ClearInv ==
  ASSUME IInv, TypeOK', ClearDynamic \/ ClearLeaseFile
  PROVE  IInv'
<1>1. /\ cfg' = cfg /\ now' = now /\ held' = NoHolds /\ up' = up
      /\ promised' = Ended(DynamicPromises)
  BY DEF ClearDynamic, ClearLeaseFile
<1>2. ASSUME NEW n \in MAC
      PROVE  /\ promised'[n] \in {promised[n], NoPromise}
             /\ promised'[n] = NoPromise \/ promised'[n].static
  BY <1>1 DEF Ended, DynamicPromises
<1>3. PromisesCovered' /\ HoldsCovered'
  BY <1>1, <1>2 DEF PromisesCovered, HoldsCovered, NoHolds
<1>4. Sound(dynamic, byIP, declined)'
  <2>1. CASE ClearDynamic
    BY <1>1, <2>1, EmptySound DEF ClearDynamic, Sound, IsStatic
  <2>2. CASE ClearLeaseFile
    BY <1>1, <2>2, MemorySound DEF ClearLeaseFile, memory, Sound, IsStatic
  <2> QED BY <2>1, <2>2
<1>5. FileSound'
  <2>1. CASE fileLeases' = NoLeases /\ fileDeclined' = NoHolds
    BY <2>1, EmptySound, SavedSound DEF FileSound
  <2>2. CASE fileLeases' = fileLeases /\ fileDeclined' = fileDeclined
    BY <2>2 DEF IInv, FileSound
  <2> QED BY <2>1, <2>2 DEF ClearDynamic, ClearLeaseFile, Save, SaveFails, file
<1> QED BY <1>1, <1>2, <1>3, <1>4, <1>5, EndedKeeps, Assembled

LEMMA StopInv ==
  ASSUME IInv, TypeOK', Stop
  PROVE  IInv'
<1>1. /\ cfg' = cfg /\ now' = now /\ held' = held /\ ~up' /\ promised' = promised
      /\ fileLeases' = fileLeases /\ fileDeclined' = fileDeclined
      /\ dynamic' = NoLeases /\ byIP' = NoIndex /\ declined' = NoHolds
  BY DEF Stop, file
<1>2. Sound(dynamic, byIP, declined)'
  BY <1>1, EmptySound DEF Sound, IsStatic
<1>3. FileSound' /\ PromisesRun' /\ PromisesCovered' /\ HoldsCovered' /\ Exclusive'
  BY <1>1 DEF IInv, FileSound, PromisesRun, PromisesCovered, HoldsCovered, Exclusive,
              Contradicts, Covered, Until
<1> QED BY <1>2, <1>3, Assembled

LEMMA TickInv ==
  ASSUME IInv, TypeOK', Tick
  PROVE  IInv'
<1> USE LeaseAssumption
<1>1. /\ cfg' = cfg /\ now \in Nat /\ now' = now + 1 /\ up' = up
      /\ dynamic' = dynamic /\ byIP' = byIP /\ declined' = declined
      /\ fileLeases' = fileLeases /\ fileDeclined' = fileDeclined
      /\ promised \in [MAC -> PromiseRecord] /\ held \in [Addr -> Nat]
      /\ Until \in Nat /\ Until' = Until + 1
  BY DEF IInv, TypeOK, Tick, memory, file, Until
<1>2. ASSUME NEW n \in MAC
      PROVE  /\ promised'[n] \in {promised[n], NoPromise}
             /\ promised'[n] # NoPromise => promised[n].until > now'
  BY <1>1 DEF Tick, Ended, PromiseRecord, NoPromise
<1>3. \A w \in Addr : held'[w] = IF held[w] > now' THEN held[w] ELSE 0
  BY DEF Tick
<1>4. ASSUME NEW n \in MAC, promised'[n] # NoPromise
      PROVE  /\ promised'[n] = promised[n] /\ now' < promised'[n].until
             /\ promised'[n].until <= Until /\ ~Contradicts(cfg, n)
             /\ promised'[n].until \in Nat
  BY <1>1, <1>2, <1>4 DEF IInv, PromisesRun, TypeOK, PromiseRecord
<1>5. PromisesRun'
  BY <1>1, <1>4 DEF PromisesRun, Contradicts
<1>6. PromisesCovered'
  BY <1>1, <1>4 DEF IInv, PromisesCovered, Covered
<1>7. HoldsCovered'
  <2>1. ASSUME NEW w \in Addr, held'[w] > 0
        PROVE  now' < held'[w] /\ held'[w] <= Until' /\ (up => held'[w] <= declined[w])
               /\ held'[w] <= fileDeclined[w]
    BY <1>1, <1>3, <2>1 DEF IInv, HoldsCovered
  <2> QED BY <1>1, <2>1 DEF HoldsCovered
<1>8. FileSound' /\ Sound(dynamic, byIP, declined)'
  BY <1>1, MemorySound DEF IInv, FileSound, Sound, IsStatic
<1> QED BY <1>2, <1>5, <1>6, <1>7, <1>8, EndedKeeps, Assembled

LEMMA StartInv ==
  ASSUME IInv, TypeOK', NEW c \in Configs, Start(c)
  PROVE  IInv'
<1> USE LeaseAssumption
<1>1. /\ cfg' = c /\ now \in Nat /\ now' = now /\ up'
      /\ fileLeases' = fileLeases /\ fileDeclined' = fileDeclined
      /\ fileLeases \in [MAC -> LeaseRecord] /\ fileDeclined \in [Addr -> Nat]
      /\ promised \in [MAC -> PromiseRecord] /\ held \in [Addr -> Nat]
      /\ Until' = Until /\ DynamicPool(c) \subseteq Addr
  BY PoolInAddr DEF IInv, TypeOK, Start, file, Until
<1>2. PICK keep \in SUBSET Loadable(c) :
         /\ FirstPerAddress(keep, Loadable(c))
         /\ dynamic' = [m \in MAC |-> IF m \in keep THEN fileLeases[m] ELSE NoLease]
         /\ byIP' = [v \in Addr |-> IF \E k \in keep : fileLeases[k].ip = v
                                    THEN CHOOSE k \in keep : fileLeases[k].ip = v
                                    ELSE NoMAC]
  BY DEF Start
<1>3. /\ \A v \in Addr : declined'[v] = IF v \in DynamicPool(c) /\ fileDeclined[v] > now
                                        THEN fileDeclined[v] ELSE 0
      /\ \A v \in Addr : held'[v] = IF v \in DynamicPool(c) THEN held[v] ELSE 0
      /\ \A m \in MAC : promised'[m] = IF Contradicts(c, m) THEN NoPromise ELSE promised[m]
  BY DEF Start, Ended
<1>4. \A j, k \in MAC : (fileLeases[j] # NoLease /\ fileLeases[j].ip = fileLeases[k].ip) => j = k
  BY DEF IInv, FileSound
(* No two records of the file share an address, so load keeps them all. *)
<1>5. keep = Loadable(c)
  <2>1. ASSUME NEW m \in Loadable(c) PROVE m \in keep
    <3>1. PICK k \in keep : fileLeases[k].ip = fileLeases[m].ip
      BY <1>2 DEF FirstPerAddress
    <3>2. m \in MAC /\ k \in MAC /\ fileLeases[m].ip \in Addr
      BY <1>1, <1>2 DEF Loadable
    <3>3. fileLeases[m] # NoLease
      BY <3>2 DEF NoLease
    <3> QED BY <1>4, <3>1, <3>2, <3>3
  <2> QED BY <1>2, <2>1
<1>6. \A m \in MAC : /\ m \in keep => dynamic'[m] = fileLeases[m]
                     /\ m \notin keep => dynamic'[m] = NoLease
  BY <1>2
<1>7. ASSUME NEW v \in Addr, NEW m \in MAC PROVE byIP'[v] = m <=> dynamic'[m].ip = v
  <2>1. CASE \E k \in keep : fileLeases[k].ip = v
    <3>1. PICK k \in keep : fileLeases[k].ip = v
      BY <2>1
    <3>2. k \in MAC /\ fileLeases[k] # NoLease
      BY <3>1, <1>2 DEF Loadable, NoLease
    <3>3. \A j \in keep : fileLeases[j].ip = v => j = k
      BY <1>2, <1>4, <3>1, <3>2 DEF Loadable
    <3>4. byIP'[v] = k
      BY <1>2, <2>1, <3>1, <3>3
    <3> QED BY <1>6, <3>1, <3>2, <3>3, <3>4 DEF NoLease
  <2>2. CASE ~\E k \in keep : fileLeases[k].ip = v
    <3>1. byIP'[v] = NoMAC
      BY <1>2, <2>2
    <3> QED BY <1>6, <2>2, <3>1 DEF NoLease
  <2> QED BY <2>1, <2>2
<1>8. Sound(dynamic, byIP, declined)'
  <2>1. ASSUME NEW m \in MAC, dynamic'[m] # NoLease
        PROVE  dynamic'[m].ip \in DynamicPool(c) /\ c.static[m] = NoAddr
    BY <1>2, <1>6, <2>1 DEF Loadable
  <2>2. ASSUME NEW v \in Addr, declined'[v] > 0 PROVE byIP'[v] = NoMAC
    <3>1. fileDeclined[v] > 0
      BY <1>1, <1>3, <2>2
    <3>2. \A m \in MAC : dynamic'[m].ip # v
      BY <1>6, <3>1 DEF IInv, FileSound, NoLease
    <3> QED BY <1>7, <3>2 DEF TypeOK
  <2> QED BY <1>1, <1>7, <2>1, <2>2 DEF Sound, TypeOK, IsStatic
<1>9. ASSUME NEW n \in MAC, promised'[n] # NoPromise
      PROVE  /\ promised'[n] = promised[n] /\ ~Contradicts(c, n)
             /\ now < promised[n].until /\ promised[n].until <= Until
             /\ promised[n].until \in Nat /\ promised[n].ip \in Addr
  BY <1>1, <1>3, <1>9 DEF IInv, PromisesRun, PromiseRecord
<1>10. PromisesRun'
  BY <1>1, <1>9 DEF PromisesRun, Contradicts
<1>11. ASSUME NEW n \in MAC, promised'[n] # NoPromise, ~promised'[n].static
       PROVE  Covered(n, dynamic, declined)' /\ Covered(n, fileLeases, fileDeclined)'
  <2>1. promised[n].ip \in DynamicPool(c) /\ c.static[n] = NoAddr
    BY <1>9, <1>11 DEF Contradicts
  <2>2. Covered(n, fileLeases, fileDeclined)
    BY <1>9, <1>11 DEF IInv, PromisesCovered
  <2>3. CASE fileLeases[n].ip = promised[n].ip /\ fileLeases[n].expires >= promised[n].until
    <3>1. fileLeases[n].expires \in Nat
      BY <1>1 DEF LeaseRecord, NoLease
    <3>2. n \in keep
      BY <1>1, <1>5, <1>9, <1>11, <2>1, <2>3, <3>1 DEF Loadable
    <3> QED BY <1>1, <1>6, <1>9, <1>11, <2>3, <3>2 DEF Covered
  <2>4. CASE promised[n].contested /\ fileDeclined[promised[n].ip] >= promised[n].until
    BY <1>1, <1>3, <1>9, <1>11, <2>1, <2>4 DEF Covered
  <2> QED BY <2>2, <2>3, <2>4 DEF Covered
<1>12. PromisesCovered'
  BY <1>11 DEF PromisesCovered
<1>13. HoldsCovered'
  <2>1. ASSUME NEW v \in Addr, held'[v] > 0
        PROVE  now < held'[v] /\ held'[v] <= Until /\ held'[v] <= declined'[v]
               /\ held'[v] <= fileDeclined[v]
    <3>1. v \in DynamicPool(c) /\ held'[v] = held[v]
      BY <1>3, <2>1
    <3>2. now < held[v] /\ held[v] <= Until /\ held[v] <= fileDeclined[v]
      BY <2>1, <3>1 DEF IInv, HoldsCovered
    <3> QED BY <1>1, <1>3, <3>1, <3>2
  <2> QED BY <1>1, <2>1 DEF HoldsCovered
<1>14. FileSound' /\ Exclusive'
  BY <1>1, <1>3, EndedKeeps DEF IInv, FileSound
<1> QED BY <1>8, <1>10, <1>12, <1>13, <1>14, Assembled

LEMMA InitInv == Init => IInv
<1> SUFFICES ASSUME Init PROVE IInv
  OBVIOUS
<1>1. TypeOK
  BY InitType
<1>2. /\ dynamic = NoLeases /\ byIP = NoIndex /\ declined = NoHolds
      /\ fileLeases = NoLeases /\ fileDeclined = NoHolds /\ held = NoHolds
      /\ \A m \in MAC : promised[m] = NoPromise
  BY DEF Init
<1>3. PromisesRun /\ PromisesCovered /\ HoldsCovered /\ Exclusive
  BY <1>2 DEF PromisesRun, PromisesCovered, HoldsCovered, Exclusive, NoHolds
<1>4. FileSound
  BY <1>2, EmptySound, SavedSound DEF FileSound
<1> QED BY <1>1, <1>2, <1>3, <1>4, EmptySound
        DEF IInv, Sound, IndexExact, LeasesAllowed, HoldsUnleased

LEMMA StepInv == IInv /\ [Next]_vars => IInv'
<1> SUFFICES ASSUME IInv, [Next]_vars PROVE IInv'
  OBVIOUS
<1>1. TypeOK'
  BY TypeStep DEF IInv
<1>2. ASSUME NEW m \in MAC, Allocate(m) PROVE IInv'
  <2>1. CASE AllocateStatic(m)
    BY <1>1, <2>1, StaticInv
  <2>2. CASE Renew(m)
    BY <1>1, <2>2, RenewGrants, GrantInv
  <2>3. CASE AllocateFresh(m)
    BY <1>1, <2>3, FreshGrants, GrantInv
  <2>4. CASE AllocateFails(m)
    BY <1>1, <2>4, FailsInv
  <2> QED BY <1>2, <2>1, <2>2, <2>3, <2>4 DEF Allocate
<1>3. ASSUME NEW m \in MAC, NEW ip \in Addr, Release(m, ip) \/ ReleaseIgnored(m, ip)
      PROVE  IInv'
  BY <1>1, <1>3, ReleaseInv, ReleaseIgnoredInv
<1>4. ASSUME NEW v \in Addr, Decline(v) PROVE IInv'
  BY <1>1, <1>4, DeclineInv
<1>5. CASE ClearDynamic \/ ClearLeaseFile
  BY <1>1, <1>5, ClearInv
<1>6. CASE Stop
  BY <1>1, <1>6, StopInv
<1>7. ASSUME NEW c \in Configs, Start(c) PROVE IInv'
  BY <1>1, <1>7, StartInv
<1>8. CASE Tick
  BY <1>1, <1>8, TickInv
<1>9. CASE UNCHANGED vars
  BY <1>9 DEF vars, memory, file, IInv, TypeOK, IndexExact, LeasesAllowed, HoldsUnleased,
          FileSound, PromisesRun, PromisesCovered, HoldsCovered, Exclusive, Covered,
          Contradicts, IsStatic, Until
<1> QED BY <1>2, <1>3, <1>4, <1>5, <1>6, <1>7, <1>8, <1>9 DEF Next

(* The inductive invariant holds in every reachable state. *)
THEOREM Invariant == Spec => []IInv
BY InitInv, StepInv, PTL DEF Spec

-----------------------------------------------------------------------------
(* What follows from it. *)

(* No two running leases name one address, unless the configuration binds  *)
(* both clients to it: for any number of clients and any addresses.        *)
THEOREM ExclusiveAlways == Spec => []Exclusive
<1>1. IInv => Exclusive
  BY DEF IInv
<1> QED BY <1>1, Invariant, PTL

(* No lease is held against the configuration that the process runs with,  *)
(* whatever was edited between two starts.                                 *)
THEOREM LeasesAllowedAlways == Spec => []LeasesAllowed
<1>1. IInv => LeasesAllowed
  BY DEF IInv
<1> QED BY <1>1, Invariant, PTL

(* Every uncontested lease that a client was told of is in the file.       *)
THEOREM DurableAlways == Spec => []Durable
<1>1. IInv => Durable
  <2>1. ASSUME IInv, NEW m \in MAC, Firm(promised[m])
        PROVE  /\ fileLeases[m].ip = promised[m].ip
               /\ fileLeases[m].expires >= promised[m].until
    BY <2>1 DEF IInv, PromisesCovered, Covered, Firm
  <2> QED BY <2>1 DEF Durable
<1> QED BY <1>1, Invariant, PTL

(* A step either grants one lease, or tells no client of a firm lease that *)
(* it was not told of before.                                              *)
LEMMA FirmOnlyByGrant ==
  ASSUME IInv, [Next]_vars
  PROVE  \/ \E m \in MAC, v \in Addr : Grant(m, v)
         \/ \A m \in MAC : Firm(promised'[m]) => promised'[m] = promised[m]
<1> USE DEF Firm
<1>1. ASSUME NEW m \in MAC, Allocate(m)
      PROVE  \/ \E v \in Addr : Grant(m, v)
             \/ \A n \in MAC : Firm(promised'[n]) => promised'[n] = promised[n]
  <2>1. CASE AllocateStatic(m)
    BY <2>1 DEF AllocateStatic, Promise, IInv, TypeOK
  <2>2. CASE Renew(m)
    BY <2>2, RenewGrants
  <2>3. CASE AllocateFresh(m)
    BY <2>3, FreshGrants
  <2>4. CASE AllocateFails(m)
    BY <2>4 DEF AllocateFails
  <2> QED BY <1>1, <2>1, <2>2, <2>3, <2>4 DEF Allocate
<1>2. ASSUME NEW S \in SUBSET MAC, promised' = Ended(S), NEW n \in MAC, Firm(promised'[n])
      PROVE  promised'[n] = promised[n]
  BY <1>2 DEF Ended
<1>3. ASSUME NEW m \in MAC, NEW ip \in Addr, Release(m, ip) \/ ReleaseIgnored(m, ip)
      PROVE  \E S \in SUBSET MAC : promised' = Ended(S)
  BY <1>3 DEF Release, ReleaseIgnored, GiveUp
<1>4. ASSUME NEW v \in Addr, Decline(v), NEW n \in MAC, Firm(promised'[n])
      PROVE  promised'[n] = promised[n]
  <2>1. promised'[n] = IF promised[n].ip = v /\ ~promised[n].static
                       THEN [promised[n] EXCEPT !.contested = TRUE] ELSE promised[n]
    BY <1>4 DEF Decline
  <2>2. promised[n].ip = v => [promised[n] EXCEPT !.contested = TRUE].contested
    <3> SUFFICES ASSUME promised[n].ip = v
                 PROVE  [promised[n] EXCEPT !.contested = TRUE].contested
      OBVIOUS
    <3>1. promised[n] \in [ip : Addr, until : Nat, static : BOOLEAN, contested : BOOLEAN]
      BY LeaseAssumption DEF IInv, TypeOK, PromiseRecord, NoPromise
    <3> QED BY <3>1
  <2> QED BY <1>4, <2>1, <2>2
<1>5. ASSUME ClearDynamic \/ ClearLeaseFile PROVE \E S \in SUBSET MAC : promised' = Ended(S)
  BY <1>5 DEF ClearDynamic, ClearLeaseFile, DynamicPromises
<1>6. ASSUME NEW c \in Configs, Start(c) PROVE \E S \in SUBSET MAC : promised' = Ended(S)
  BY <1>6 DEF Start
<1>7. ASSUME Tick PROVE \E S \in SUBSET MAC : promised' = Ended(S)
  BY <1>7 DEF Tick
<1>8. ASSUME Stop \/ UNCHANGED vars PROVE promised' = promised
  BY <1>8 DEF Stop, vars
<1> QED BY <1>1, <1>2, <1>3, <1>4, <1>5, <1>6, <1>7, <1>8 DEF Next

LEMMA GrantTells ==
  ASSUME IInv, NEW m \in MAC, NEW v \in Addr, Grant(m, v), NEW n \in MAC,
         Firm(promised'[n]), promised'[n] # promised[n]
  PROVE  n = m /\ promised'[n].ip = v
<1>1. promised \in [MAC -> PromiseRecord]
  BY DEF IInv, TypeOK
<1>2. Promise(m, v, FALSE) \/ promised' = promised
  BY DEF Grant, SaveAndPromise
<1>3. promised' = [promised EXCEPT ![m] =
                     [ip |-> v, until |-> Until, static |-> FALSE, contested |-> FALSE]]
  BY <1>2 DEF Promise
<1>4. n = m
  BY <1>1, <1>3
<1> QED BY <1>1, <1>3, <1>4

(* A client whose lease runs is told no other address, whatever happens    *)
(* between: renewals, failed saves, restarts.                              *)
THEOREM StableAddressAlways == Spec => StableAddress
<1> DEFINE Stable == \A m \in MAC : (Firm(promised[m]) /\ Firm(promised'[m]))
                                       => promised'[m].ip = promised[m].ip
<1>1. IInv /\ [Next]_vars => Stable
  <2> SUFFICES ASSUME IInv, [Next]_vars, NEW n \in MAC, Firm(promised[n]), Firm(promised'[n])
               PROVE  promised'[n].ip = promised[n].ip
    OBVIOUS
  <2>1. ASSUME NEW m \in MAC, NEW v \in Addr, Grant(m, v)
        PROVE  promised'[n].ip = promised[n].ip
    BY <2>1, GrantFree, GrantTells
  <2> QED BY <2>1, FirmOnlyByGrant
<1>2. IInv /\ [Next]_vars => [Stable]_vars
  BY <1>1
<1> QED BY <1>2, Invariant, PTL DEF Spec, StableAddress

(* No client is told an address while its acknowledged hold runs.          *)
THEOREM HoldRespectedAlways == Spec => HoldRespected
<1> DEFINE Respected == \A m \in MAC : (promised'[m] # promised[m] /\ Firm(promised'[m]))
                                          => held[promised'[m].ip] = 0
<1>1. IInv /\ [Next]_vars => Respected
  <2> SUFFICES ASSUME IInv, [Next]_vars, NEW n \in MAC, promised'[n] # promised[n],
                      Firm(promised'[n])
               PROVE  held[promised'[n].ip] = 0
    OBVIOUS
  <2>1. ASSUME NEW m \in MAC, NEW v \in Addr, Grant(m, v)
        PROVE  held[promised'[n].ip] = 0
    BY <2>1, GrantFree, GrantTells
  <2> QED BY <2>1, FirmOnlyByGrant
<1>2. IInv /\ [Next]_vars => [Respected]_vars
  BY <1>1
<1> QED BY <1>2, Invariant, PTL DEF Spec, HoldRespected

-----------------------------------------------------------------------------
(* The refinement of the address book, one lemma per kind of step. *)

LEMMA BookEntry ==
  ASSUME TypeOK, NEW m \in MAC
  PROVE  /\ entries[m] = EntryOf(promised[m])
         /\ entries[m].ip = promised[m].ip /\ entries[m].static = promised[m].static
         /\ entries[m].contested = promised[m].contested
         /\ entries[m] = Book!NoEntry <=> promised[m] = NoPromise
<1>1. promised[m] \in PromiseRecord
  BY DEF TypeOK
<1>2. entries[m] = EntryOf(promised[m])
  BY DEF entries
<1>3. entries[m] = Book!NoEntry => promised[m] = NoPromise
  BY <1>1, <1>2, LeaseAssumption DEF EntryOf, Book!NoEntry, PromiseRecord
<1>4. promised[m] = NoPromise => entries[m] = Book!NoEntry
  BY <1>2 DEF EntryOf, Book!NoEntry, NoPromise
<1> QED BY <1>2, <1>3, <1>4 DEF EntryOf

(* A promise entered for m, v: the book changes at m only. *)
LEMMA PromiseEnters ==
  ASSUME TypeOK, NEW m \in MAC, NEW v \in Addr, NEW st \in BOOLEAN, Promise(m, v, st)
  PROVE  entries' = [entries EXCEPT ![m] = [ip |-> v, static |-> st, contested |-> FALSE]]
<1>1. promised \in [MAC -> PromiseRecord]
  BY DEF TypeOK
<1>2. \A n \in MAC : promised'[n] = IF n = m
                        THEN [ip |-> v, until |-> Until, static |-> st, contested |-> FALSE]
                        ELSE promised[n]
  BY <1>1 DEF Promise
<1>3. ASSUME NEW n \in MAC
      PROVE  EntryOf(promised'[n]) = IF n = m
                        THEN [ip |-> v, static |-> st, contested |-> FALSE]
                        ELSE EntryOf(promised[n])
  <2>1. CASE n = m
    <3>1. promised'[n].ip = v /\ promised'[n].static = st /\ promised'[n].contested = FALSE
      BY <1>2, <2>1
    <3> QED BY <2>1, <3>1 DEF EntryOf
  <2>2. CASE n # m
    BY <1>2, <2>2 DEF EntryOf
  <2> QED BY <2>1, <2>2
<1> QED BY <1>3 DEF entries

LEMMA EndedEnds ==
  ASSUME TypeOK, NEW S \in SUBSET MAC, promised' = Ended(S),
         \A v \in Addr : held'[v] \in {held[v], 0}
  PROVE  Book!BookNext
<1> DEFINE R == {v \in Addr : held'[v] # held[v]}
<1>1. \A m \in MAC : promised'[m] = IF m \in S THEN NoPromise ELSE promised[m]
  BY DEF Ended
<1>2. ASSUME NEW m \in MAC
      PROVE  EntryOf(promised'[m]) = IF m \in S THEN Book!NoEntry ELSE EntryOf(promised[m])
  <2>1. CASE m \in S
    <3>1. promised'[m].ip = NoAddr /\ promised'[m].static = FALSE /\ promised'[m].contested = FALSE
      BY <1>1, <2>1 DEF NoPromise
    <3> QED BY <2>1, <3>1 DEF EntryOf, Book!NoEntry
  <2>2. CASE m \notin S
    BY <1>1, <2>2 DEF EntryOf
  <2> QED BY <2>1, <2>2
<1>3. entries' = [m \in MAC |-> IF m \in S THEN Book!NoEntry ELSE entries[m]]
  BY <1>2 DEF entries
<1>4. onHold' = onHold \ R
  BY DEF onHold, TypeOK
<1>5. Book!End(S, R)
  BY <1>3, <1>4 DEF Book!End
<1>6. R \in SUBSET Addr
  OBVIOUS
<1> QED BY <1>5, <1>6 DEF Book!BookNext

LEMMA GrantEnters ==
  ASSUME IInv, NEW m \in MAC, NEW v \in Addr, Grant(m, v)
  PROVE  [Book!BookNext]_Book!bookVars
<1>1. TypeOK /\ held' = held
  BY DEF IInv, Grant
<1>2. onHold' = onHold
  BY <1>1 DEF onHold
<1>3. CASE Promise(m, v, FALSE)
  <2>1. entries' = [entries EXCEPT ![m] = [ip |-> v, static |-> FALSE, contested |-> FALSE]]
    BY <1>1, <1>3, PromiseEnters
  <2>2. \A n \in MAC \ {m} : entries[n].ip # v
    BY <1>1, GrantFree, BookEntry, LeaseAssumption DEF NoPromise
  <2>3. v \notin onHold
    BY GrantFree DEF onHold
  <2>4. (entries[m] # Book!NoEntry /\ ~entries[m].static /\ ~entries[m].contested) => entries[m].ip = v
    BY <1>1, GrantFree, BookEntry DEF Firm
  <2>5. Book!Enter(m, v)
    BY <1>2, <2>1, <2>2, <2>3, <2>4 DEF Book!Enter
  <2> QED BY <2>5 DEF Book!BookNext
<1>4. CASE promised' = promised
  BY <1>2, <1>4 DEF Book!bookVars, entries
<1> QED BY <1>3, <1>4 DEF Grant, SaveAndPromise

LEMMA StaticEnters ==
  ASSUME IInv, NEW m \in MAC, AllocateStatic(m)
  PROVE  Book!BookNext
<1> DEFINE v == cfg.static[m]
<1>1. TypeOK /\ held' = held /\ cfg \in Configs /\ Promise(m, v, TRUE)
  BY DEF IInv, TypeOK, AllocateStatic
<1>2. v \in Addr /\ v \in StaticIPs(cfg)
  BY <1>1, PoolInAddr DEF AllocateStatic, IsStatic
<1>3. ASSUME NEW n \in MAC, promised[n].ip = v PROVE promised[n].static
  BY <1>2, <1>3, LeaseAssumption DEF IInv, PromisesRun, Contradicts, DynamicPool, NoPromise
<1>4. entries' = [entries EXCEPT ![m] = [ip |-> v, static |-> TRUE, contested |-> FALSE]]
  BY <1>1, <1>2, PromiseEnters
<1>5. onHold' = onHold
  BY <1>1 DEF onHold
<1>6. \A n \in MAC \ {m} : entries[n].ip = v => entries[n].static
  BY <1>1, <1>3, BookEntry
<1>7. Book!EnterStatic(m, v)
  BY <1>4, <1>5, <1>6 DEF Book!EnterStatic
<1> QED BY <1>2, <1>7 DEF Book!BookNext

LEMMA DeclineContests ==
  ASSUME IInv, NEW v \in Addr, Decline(v)
  PROVE  Book!BookNext
<1>1. TypeOK /\ held \in [Addr -> Nat] /\ Until > 0
  BY LeaseAssumption DEF IInv, TypeOK, Until
<1>2. ASSUME NEW n \in MAC
      PROVE  EntryOf(promised'[n]) = IF entries[n].ip = v /\ ~entries[n].static
                                     THEN [entries[n] EXCEPT !.contested = TRUE] ELSE entries[n]
  <2>1. promised'[n] = IF promised[n].ip = v /\ ~promised[n].static
                       THEN [promised[n] EXCEPT !.contested = TRUE] ELSE promised[n]
    BY DEF Decline
  <2>2. /\ entries[n] = EntryOf(promised[n])
        /\ entries[n].ip = promised[n].ip /\ entries[n].static = promised[n].static
    BY <1>1, BookEntry
  <2>3. CASE promised[n].ip = v /\ ~promised[n].static
    <3>1. promised[n] \in [ip : Addr, until : Nat, static : BOOLEAN, contested : BOOLEAN]
      BY <1>1, <2>3, LeaseAssumption DEF TypeOK, PromiseRecord, NoPromise
    <3>2. /\ promised'[n].ip = promised[n].ip /\ promised'[n].static = promised[n].static
          /\ promised'[n].contested = TRUE
      BY <2>1, <2>3, <3>1
    <3> QED BY <2>2, <2>3, <3>2 DEF EntryOf
  <2>4. CASE ~(promised[n].ip = v /\ ~promised[n].static)
    BY <2>1, <2>2, <2>4
  <2> QED BY <2>3, <2>4
<1>3. entries' = [n \in MAC |-> IF entries[n].ip = v /\ ~entries[n].static
                             THEN [entries[n] EXCEPT !.contested = TRUE] ELSE entries[n]]
  BY <1>2 DEF entries
<1>4. onHold' \in {onHold, onHold \cup {v}}
  <2>1. CASE held' = [held EXCEPT ![v] = Until]
    BY <1>1, <2>1 DEF onHold
  <2>2. CASE held' = held
    BY <2>2 DEF onHold
  <2> QED BY <2>1, <2>2 DEF Decline
<1>5. Book!Contest(v)
  BY <1>3, <1>4 DEF Book!Contest
<1> QED BY <1>5 DEF Book!BookNext

LEMMA StepRefines == IInv /\ [Next]_vars => [Book!BookNext]_Book!bookVars
<1> SUFFICES ASSUME IInv, [Next]_vars PROVE [Book!BookNext]_Book!bookVars
  OBVIOUS
<1>1. TypeOK
  BY DEF IInv
<1>2. ASSUME promised' = promised, held' = held PROVE UNCHANGED Book!bookVars
  BY <1>2 DEF Book!bookVars, entries, onHold
<1>3. ASSUME NEW m \in MAC, Allocate(m) PROVE [Book!BookNext]_Book!bookVars
  <2>1. CASE AllocateStatic(m)
    BY <2>1, StaticEnters
  <2>2. CASE Renew(m)
    BY <2>2, RenewGrants, GrantEnters
  <2>3. CASE AllocateFresh(m)
    BY <2>3, FreshGrants, GrantEnters
  <2>4. CASE AllocateFails(m)
    BY <1>2, <2>4 DEF AllocateFails
  <2> QED BY <1>3, <2>1, <2>2, <2>3, <2>4 DEF Allocate
<1>4. ASSUME NEW m \in MAC, NEW ip \in Addr, Release(m, ip) \/ ReleaseIgnored(m, ip)
      PROVE  Book!BookNext
  <2>1. /\ held' = held
        /\ promised' = Ended({m} \cap {n \in MAC : promised[n].ip = ip})
    BY <1>4 DEF Release, ReleaseIgnored, GiveUp
  <2>2. {m} \cap {n \in MAC : promised[n].ip = ip} \in SUBSET MAC
    OBVIOUS
  <2> QED BY <1>1, <2>1, <2>2, EndedEnds
<1>5. ASSUME NEW v \in Addr, Decline(v) PROVE Book!BookNext
  BY <1>5, DeclineContests
<1>6. CASE ClearDynamic \/ ClearLeaseFile
  <2>1. promised' = Ended(DynamicPromises) /\ \A v \in Addr : held'[v] = 0
    BY <1>6 DEF ClearDynamic, ClearLeaseFile, NoHolds
  <2>2. DynamicPromises \in SUBSET MAC
    BY DEF DynamicPromises
  <2> QED BY <1>1, <2>1, <2>2, EndedEnds
<1>7. CASE Stop
  BY <1>2, <1>7 DEF Stop
<1>8. ASSUME NEW c \in Configs, Start(c) PROVE Book!BookNext
  <2>1. /\ promised' = Ended({m \in MAC : Contradicts(c, m)})
        /\ \A v \in Addr : held'[v] \in {held[v], 0}
    BY <1>8 DEF Start
  <2>2. {m \in MAC : Contradicts(c, m)} \in SUBSET MAC
    OBVIOUS
  <2> QED BY <1>1, <2>1, <2>2, EndedEnds
<1>9. CASE Tick
  <2>1. /\ promised' = Ended({m \in MAC : promised[m].until <= now'})
        /\ \A v \in Addr : held'[v] \in {held[v], 0}
    BY <1>9 DEF Tick
  <2>2. {m \in MAC : promised[m].until <= now'} \in SUBSET MAC
    OBVIOUS
  <2> QED BY <1>1, <2>1, <2>2, EndedEnds
<1>10. CASE UNCHANGED vars
  BY <1>2, <1>10 DEF vars
<1> QED BY <1>3, <1>4, <1>5, <1>6, <1>7, <1>8, <1>9, <1>10 DEF Next

(* The allocator implements the address book: its memory, its failed       *)
(* saves, its file and its restarts never show in what clients are told.   *)
THEOREM Refinement == Spec => ImplementsBook
<1>1. Init => Book!BookInit
  <2> SUFFICES ASSUME Init PROVE Book!BookInit
    OBVIOUS
  <2>1. \A m \in MAC : EntryOf(promised[m]) = Book!NoEntry
    BY DEF Init, EntryOf, NoPromise, Book!NoEntry
  <2>2. onHold = {}
    BY DEF Init, NoHolds, onHold
  <2> QED BY <2>1, <2>2 DEF Book!BookInit, entries
<1> QED BY <1>1, StepRefines, Invariant, PTL DEF Spec, ImplementsBook, Book!BookSpec
=============================================================================
