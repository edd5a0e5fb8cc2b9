------------------------------ MODULE PoolScan ------------------------------
(***************************************************************************)
(* The loop of Allocate that looks for an address in the pool, at the      *)
(* width of its counter: 2^32 values in the code, Words here.  Lease takes *)
(* its result in one step (AllocateFresh, AllocateFails); this module says *)
(* that the loop computes it, also for a pool that ends at the largest     *)
(* address, where the counter would wrap.  The mutex is held all the way,  *)
(* so that the pool and what is taken do not change meanwhile.             *)
(***************************************************************************)
EXTENDS Integers, TLAPS

CONSTANT Words       \* how many values the counter has

ASSUME PoolScanAssumption == Words \in Nat \ {0}

Addr == 0 .. Words - 1

VARIABLES poolStart, poolEnd,         \* the pool
          byIP, staticIPs, declined,  \* addresses leased, bound, and declined of late
          v,                          \* the loop's counter
          pc                          \* "scan", "found", or "exhausted"

pool == <<poolStart, poolEnd, byIP, staticIPs, declined>>
vars == <<pool, v, pc>>

Init ==
  /\ poolStart \in Addr /\ poolEnd \in Addr /\ poolStart <= poolEnd
  /\ byIP \in SUBSET Addr /\ staticIPs \in SUBSET Addr /\ declined \in SUBSET Addr
  /\ v = poolStart
  /\ pc = "scan"

Taken(a) == a \in byIP \/ a \in staticIPs \/ a \in declined

IncrementByTwo(n) == (n + 2) % Words   \* mutant: an address is skipped
Increment(n) == (n + 1) % Words

(* Mutant: the loop ends when the counter has passed the end of the pool. *)
SkipUntilBeyond ==
  /\ pc = "scan" /\ Taken(v)
  /\ v' = Increment(v)
  /\ pc' = IF v' > poolEnd THEN "exhausted" ELSE "scan"
  /\ UNCHANGED pool

(* A taken address: the last one ends the loop before the counter moves. *)
Skip ==
  /\ pc = "scan" /\ Taken(v)
  /\ IF v = poolEnd THEN pc' = "exhausted" /\ UNCHANGED v
                    ELSE v' = Increment(v) /\ UNCHANGED pc
  /\ UNCHANGED pool

Pick ==
  /\ pc = "scan" /\ ~Taken(v)
  /\ pc' = "found"
  /\ UNCHANGED <<pool, v>>

Next == Skip \/ Pick

(* The loop is sequential code: it runs until it ends. *)
Spec == Init /\ [][Next]_vars /\ WF_vars(Next)

-----------------------------------------------------------------------------

TypeOK ==
  /\ poolStart \in Addr /\ poolEnd \in Addr /\ v \in Addr
  /\ byIP \subseteq Addr /\ staticIPs \subseteq Addr /\ declined \subseteq Addr
  /\ pc \in {"scan", "found", "exhausted"}

(* What Lease assumes of the loop: it finds the least address of the pool  *)
(* that is free, or the pool has none.  Nothing outside of it is found.    *)
ScanRight ==
  /\ pc = "found" => /\ v \in poolStart .. poolEnd /\ ~Taken(v)
                     /\ \A a \in poolStart .. poolEnd : ~Taken(a) => v <= a
  /\ pc = "exhausted" => \A a \in poolStart .. poolEnd : Taken(a)

(* The loop ends, whatever the pool and however full it is: a wrapped      *)
(* counter would let it run for ever, under the allocator's mutex.         *)
Terminates == <>(pc # "scan")

(* Everything below the counter is taken, and it stays in the pool. *)
ScanInv ==
  /\ TypeOK
  /\ poolStart <= v /\ v <= poolEnd
  /\ \A a \in Addr : (poolStart <= a /\ a < v) => Taken(a)
  /\ pc = "found" => ~Taken(v)
  /\ pc = "exhausted" => v = poolEnd /\ Taken(v)

(* What Terminates rests on: each turn of the loop ends it, or leaves fewer *)
(* addresses before it, down to the last.                                  *)
Advances ==
  [][pc' = "scan" => poolEnd - v' < poolEnd - v /\ v' <= poolEnd]_vars

-----------------------------------------------------------------------------
(* Proofs, for counters of any width. *)

(* Within the pool the counter does not wrap. *)
LEMMA NoWrap ==
  ASSUME NEW n \in Addr, NEW m \in Addr, n < m
  PROVE  Increment(n) = n + 1 /\ Increment(n) \in Addr
BY PoolScanAssumption DEF Addr, Increment

(* The loop only leaves taken addresses behind, and never leaves the pool. *)
THEOREM ScanInvariant == Spec => []ScanInv
<1> USE PoolScanAssumption
<1>1. Init => ScanInv
  BY DEF Init, ScanInv, TypeOK, Addr
<1>2. ScanInv /\ [Next]_vars => ScanInv'
  <2> SUFFICES ASSUME ScanInv, [Next]_vars PROVE ScanInv'
    OBVIOUS
  <2>1. CASE Skip
    <3>1. CASE v = poolEnd
      BY <2>1, <3>1 DEF Skip, ScanInv, TypeOK, Taken, pool
    <3>2. CASE v # poolEnd
      <4>1. v \in Addr /\ poolEnd \in Addr /\ v < poolEnd
        BY <3>2 DEF ScanInv, TypeOK, Addr
      <4>2. v' = v + 1 /\ v' \in Addr
        BY <2>1, <3>2, <4>1, NoWrap DEF Skip
      <4> QED BY <2>1, <3>2, <4>1, <4>2 DEF Skip, ScanInv, TypeOK, Taken, Addr, pool
    <3> QED BY <3>1, <3>2
  <2>2. CASE Pick
    BY <2>2 DEF Pick, ScanInv, TypeOK, Taken, pool
  <2>3. CASE UNCHANGED vars
    BY <2>3 DEF vars, pool, ScanInv, TypeOK, Taken
  <2> QED BY <2>1, <2>2, <2>3 DEF Next
<1> QED BY <1>1, <1>2, PTL DEF Spec

(* The loop finds the least free address of the pool, or there is none:    *)
(* what Lease takes for its result.                                        *)
THEOREM ScanRightAlways == Spec => []ScanRight
<1>1. ScanInv => ScanRight
  BY PoolScanAssumption DEF ScanInv, ScanRight, TypeOK, Addr
<1> QED BY <1>1, ScanInvariant, PTL

(* The loop ends within as many turns as the pool has addresses: no pool   *)
(* makes the counter wrap.                                                 *)
THEOREM AdvancesAlways == Spec => Advances
<1> DEFINE Turn == pc' = "scan" => poolEnd - v' < poolEnd - v /\ v' <= poolEnd
<1>1. ASSUME ScanInv, Next, pc' = "scan" PROVE poolEnd - v' < poolEnd - v /\ v' <= poolEnd
  <2>1. Skip /\ v # poolEnd
    BY <1>1 DEF Next, Skip, Pick
  <2>2. v \in Addr /\ poolEnd \in Addr /\ v < poolEnd /\ v' = Increment(v)
    BY <1>1, <2>1, PoolScanAssumption DEF Skip, ScanInv, TypeOK, Addr
  <2>3. v' = v + 1
    BY <2>2, NoWrap
  <2> QED BY <2>2, <2>3, PoolScanAssumption DEF Addr
<1>2. ScanInv /\ [Next]_vars => [Turn]_vars
  BY <1>1
<1> QED BY <1>2, ScanInvariant, PTL DEF Spec, Advances
=============================================================================
