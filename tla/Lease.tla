------------------------------- MODULE Lease -------------------------------
(***************************************************************************)
(* internal/lease: the DHCP address allocator.  One process keeps, under   *)
(* one mutex, the dynamic leases by MAC, an index from address to MAC and  *)
(* the declined addresses, and rewrites the whole lease file at the end of *)
(* every operation that changes them.  A call is one action, because it    *)
(* holds the mutex from its first read to its save; a save may fail, the   *)
(* process may stop between any two calls, and it is started again with a  *)
(* configuration that an operator may have edited.                         *)
(*                                                                         *)
(* `promised' and `held' are history variables, which no other variable    *)
(* depends on: the leases that clients count on, and the holds of declined *)
(* addresses that were acknowledged, from the calls that returned no error *)
(* until they lapse.                                                       *)
(***************************************************************************)
EXTENDS Integers

CONSTANTS MAC,        \* hardware addresses, already canonical
          MaxAddr,    \* the largest address (2^32 - 1 in the code)
          Configs,    \* the configurations the process may be started with
          LeaseTime,  \* dhcp.lease_time, in clock ticks
          MaxNow,     \* bound on the clock
          NoAddr, NoMAC

Addr == 0 .. MaxAddr

(***************************************************************************)
(* config.validate rejects a lease time that is not positive; NewAllocator *)
(* refuses a pool whose start is above its end.  Two static bindings may   *)
(* name the same address: neither of them checks that.                     *)
(***************************************************************************)
ASSUME LeaseAssumption ==
  /\ MaxAddr \in Nat
  /\ LeaseTime \in Nat \ {0}
  /\ MaxNow \in Nat
  /\ NoAddr \notin Addr
  /\ NoMAC \notin MAC
  /\ \A c \in Configs :
       /\ c \in [static : [MAC -> Addr \cup {NoAddr}],
                 hasPool : BOOLEAN, poolStart : Addr, poolEnd : Addr]
       /\ c.poolStart <= c.poolEnd

VARIABLES cfg,           \* configuration of the running (or last) process
          up,            \* whether the process runs
          now,           \* a.now()
          dynamic,       \* MAC -> dynamic lease, or NoLease
          byIP,          \* address -> MAC, or NoMAC
          declined,      \* address -> end of its hold, or 0
          fileLeases,    \* the "leases" of the lease file
          fileDeclined,  \* the "declined" of the lease file
          promised,      \* history: MAC -> the running lease it was told of
          held           \* history: address -> end of its acknowledged hold

memory == <<dynamic, byIP, declined>>
file == <<fileLeases, fileDeclined>>
vars == <<cfg, up, now, memory, file, promised, held>>

-----------------------------------------------------------------------------
(* Leases, promises and the part of the configuration that the code reads. *)

NoLease == [ip |-> NoAddr, expires |-> 0]
LeaseRecord == [ip : Addr, expires : Nat] \cup {NoLease}

NoPromise == [ip |-> NoAddr, until |-> 0, static |-> FALSE, contested |-> FALSE]

(* A promise is contested once some client has declined its address. *)
PromiseRecord ==
  [ip : Addr, until : Nat, static : BOOLEAN, contested : BOOLEAN] \cup {NoPromise}

Pool(c) == IF c.hasPool THEN c.poolStart .. c.poolEnd ELSE {}
StaticIPs(c) == {c.static[m] : m \in MAC}
DynamicPool(c) == Pool(c) \ StaticIPs(c)

IsStatic(m) == cfg.static[m] # NoAddr

Until == now + LeaseTime

(* reapExpiredLocked: what is left of the memory once the lapsed leases    *)
(* and holds are deleted.                                                  *)
LiveLeases == [m \in MAC |-> IF dynamic[m].expires > now THEN dynamic[m] ELSE NoLease]
(* Mutant: the reaped leases stay in the index. *)
LiveIndexStale == byIP
LiveIndex ==
  [v \in Addr |-> IF \E m \in MAC : dynamic[m].ip = v /\ dynamic[m].expires <= now
                  THEN NoMAC ELSE byIP[v]]
LiveDeclined == [v \in Addr |-> IF declined[v] > now THEN declined[v] ELSE 0]

(* Mutants of Free: a taken, a bound or a declined address is handed out. *)
FreeThoughTaken(v) == v \notin StaticIPs(cfg) /\ ~ (LiveDeclined[v] > now)
FreeThoughBound(v) == LiveIndex[v] = NoMAC /\ ~ (LiveDeclined[v] > now)
FreeThoughDeclined(v) == LiveIndex[v] = NoMAC /\ v \notin StaticIPs(cfg)

(* An address that the scan of the pool may hand out. *)
Free(v) == /\ LiveIndex[v] = NoMAC
           /\ v \notin StaticIPs(cfg)
           /\ ~ (LiveDeclined[v] > now)

(* Mutant: the answer is given before the leases are written. *)
SaveLater == UNCHANGED fileLeases /\ fileDeclined' = declined'

(* saveLocked: the file becomes the memory, or the write fails and the old *)
(* file stays.                                                             *)
Save == fileLeases' = dynamic' /\ fileDeclined' = declined'
SaveFails == UNCHANGED file

(* The caller is answered: a lease on v until one lease time from now.     *)
Promise(m, v, static) ==
  promised' = [promised EXCEPT ![m] =
                 [ip |-> v, until |-> Until, static |-> static, contested |-> FALSE]]

(* The promises to the clients of S end: they lapse, or an operator        *)
(* withdraws them.                                                         *)
Ended(S) == [m \in MAC |-> IF m \in S THEN NoPromise ELSE promised[m]]
DynamicPromises == {m \in MAC : ~promised[m].static}

-----------------------------------------------------------------------------
(* Allocate, by its four outcomes. *)

AllocateStatic(m) ==
  /\ up
  /\ IsStatic(m)
  /\ Promise(m, cfg.static[m], TRUE)
  /\ UNCHANGED <<cfg, up, now, memory, file, held>>

SaveAndPromise(m, v) ==
  \/ Save /\ Promise(m, v, FALSE)
  \/ SaveFails /\ UNCHANGED promised

Renew(m) ==
  /\ up
  /\ ~IsStatic(m)
  /\ LiveLeases[m] # NoLease
  /\ dynamic' = [LiveLeases EXCEPT ![m].expires = Until]
  /\ byIP' = LiveIndex
  /\ declined' = LiveDeclined
  /\ SaveAndPromise(m, dynamic[m].ip)
  /\ UNCHANGED <<cfg, up, now, held>>

AllocateFresh(m) ==
  /\ up
  /\ ~IsStatic(m)
  /\ LiveLeases[m] = NoLease
  /\ \E v \in Pool(cfg) :
       /\ Free(v)
       /\ \A w \in Pool(cfg) : Free(w) => v <= w
       /\ dynamic' = [LiveLeases EXCEPT ![m] = [ip |-> v, expires |-> Until]]
       /\ byIP' = [LiveIndex EXCEPT ![v] = m]
       /\ declined' = LiveDeclined
       /\ SaveAndPromise(m, v)
  /\ UNCHANGED <<cfg, up, now, held>>

(* No pool, or nothing free in it: the reaping stays, and is not saved. *)
AllocateFails(m) ==
  /\ up
  /\ ~IsStatic(m)
  /\ LiveLeases[m] = NoLease
  /\ \A v \in Pool(cfg) : ~Free(v)
  /\ dynamic' = LiveLeases
  /\ byIP' = LiveIndex
  /\ declined' = LiveDeclined
  /\ UNCHANGED <<cfg, up, now, file, promised, held>>

-----------------------------------------------------------------------------
(* Release, Decline and the two ways to clear. *)

(* The client gives up the address it names, whatever the server does. *)
GiveUp(m, ip) ==
  promised' = Ended({m} \cap {n \in MAC : promised[n].ip = ip})

Release(m, ip) ==
  /\ up
  /\ dynamic[m].ip = ip
  /\ dynamic' = [dynamic EXCEPT ![m] = NoLease]
  /\ byIP' = [byIP EXCEPT ![ip] = NoMAC]
  /\ UNCHANGED declined
  /\ Save \/ SaveFails
  /\ GiveUp(m, ip)
  /\ UNCHANGED <<cfg, up, now, held>>

ReleaseIgnored(m, ip) ==
  /\ up
  /\ dynamic[m].ip # ip
  /\ GiveUp(m, ip)
  /\ UNCHANGED <<cfg, up, now, memory, file, held>>

(* Any client may decline any address: its owner, if any, loses the lease. *)
Decline(v) ==
  /\ up
  /\ dynamic' = [m \in MAC |-> IF byIP[v] = m THEN NoLease ELSE dynamic[m]]
  /\ byIP' = [byIP EXCEPT ![v] = NoMAC]
  /\ declined' = IF v \in DynamicPool(cfg) THEN [declined EXCEPT ![v] = Until]
                                          ELSE declined
  /\ \/ /\ Save
        /\ held' = IF v \in DynamicPool(cfg) THEN [held EXCEPT ![v] = Until] ELSE held
     \/ SaveFails /\ UNCHANGED held
  /\ promised' = [m \in MAC |-> IF promised[m].ip = v /\ ~promised[m].static
                                THEN [promised[m] EXCEPT !.contested = TRUE]
                                ELSE promised[m]]
  /\ UNCHANGED <<cfg, up, now>>

NoLeases == [m \in MAC |-> NoLease]
NoIndex == [v \in Addr |-> NoMAC]
NoHolds == [v \in Addr |-> 0]

ClearDynamic ==
  /\ up
  /\ dynamic' = NoLeases
  /\ byIP' = NoIndex
  /\ declined' = NoHolds
  /\ Save \/ SaveFails
  /\ promised' = Ended(DynamicPromises)
  /\ held' = NoHolds
  /\ UNCHANGED <<cfg, up, now>>

(* `autopxe -clear-leases' is another process: it rewrites the file whether *)
(* or not the server runs, and the server's memory stays as it is.          *)
ClearLeaseFile ==
  /\ fileLeases' = NoLeases
  /\ fileDeclined' = NoHolds
  /\ promised' = Ended(DynamicPromises)
  /\ held' = NoHolds
  /\ UNCHANGED <<cfg, up, now, memory>>

-----------------------------------------------------------------------------
(* The process stops, the clock runs, the process is started again. *)

Stop ==
  /\ up
  /\ up' = FALSE
  /\ dynamic' = NoLeases
  /\ byIP' = NoIndex
  /\ declined' = NoHolds
  /\ UNCHANGED <<cfg, now, file, promised, held>>

(* Mutants of Loadable: the expiry test is reversed; the static bindings   *)
(* are not looked at.                                                      *)
LoadableLapsed(c) == {m \in MAC : /\ fileLeases[m].expires <= now
                                  /\ c.static[m] = NoAddr
                                  /\ fileLeases[m].ip \in DynamicPool(c)}
LoadableThoughBound(c) == {m \in MAC : /\ fileLeases[m].expires > now
                                       /\ c.static[m] = NoAddr
                                       /\ fileLeases[m].ip \in Pool(c)}

(* The records of the file that load accepts under configuration c. *)
Loadable(c) == {m \in MAC : /\ fileLeases[m].expires > now
                            /\ c.static[m] = NoAddr
                            /\ fileLeases[m].ip \in DynamicPool(c)}

(* load walks the leases in an arbitrary order and keeps the first record  *)
(* it meets for an address.                                                *)
FirstPerAddress(keep, S) ==
  /\ \A m \in S : \E k \in keep : fileLeases[k].ip = fileLeases[m].ip
  /\ \A j, k \in keep : fileLeases[j].ip = fileLeases[k].ip => j = k

Contradicts(c, m) ==
  IF promised[m].static
  THEN c.static[m] # promised[m].ip
  ELSE c.static[m] # NoAddr \/ promised[m].ip \notin DynamicPool(c)

Start(c) ==
  /\ ~up
  /\ up' = TRUE
  /\ cfg' = c
  /\ \E keep \in SUBSET Loadable(c) :
       /\ FirstPerAddress(keep, Loadable(c))
       /\ dynamic' = [m \in MAC |-> IF m \in keep THEN fileLeases[m] ELSE NoLease]
       /\ byIP' = [v \in Addr |->
                     IF \E k \in keep : fileLeases[k].ip = v
                     THEN CHOOSE k \in keep : fileLeases[k].ip = v
                     ELSE NoMAC]
  /\ declined' = [v \in Addr |->
                    IF v \in DynamicPool(c) /\ fileDeclined[v] > now
                    THEN fileDeclined[v] ELSE 0]
  /\ promised' = Ended({m \in MAC : Contradicts(c, m)})
  /\ held' = [v \in Addr |-> IF v \in DynamicPool(c) THEN held[v] ELSE 0]
  /\ UNCHANGED <<now, file>>

Tick ==
  /\ now < MaxNow
  /\ now' = now + 1
  /\ promised' = Ended({m \in MAC : promised[m].until <= now'})
  /\ held' = [v \in Addr |-> IF held[v] > now' THEN held[v] ELSE 0]
  /\ UNCHANGED <<cfg, up, memory, file>>

Init ==
  /\ cfg \in Configs
  /\ up = FALSE
  /\ now = 0
  /\ dynamic = NoLeases /\ byIP = NoIndex /\ declined = NoHolds
  /\ fileLeases = NoLeases /\ fileDeclined = NoHolds
  /\ promised = [m \in MAC |-> NoPromise]
  /\ held = NoHolds

Allocate(m) == AllocateStatic(m) \/ Renew(m) \/ AllocateFresh(m) \/ AllocateFails(m)

Next ==
  \/ \E m \in MAC : Allocate(m)
  \/ \E m \in MAC, ip \in Addr : Release(m, ip) \/ ReleaseIgnored(m, ip)
  \/ \E v \in Addr : Decline(v)
  \/ ClearDynamic
  \/ ClearLeaseFile
  \/ Stop
  \/ \E c \in Configs : Start(c)
  \/ Tick

Spec == Init /\ [][Next]_vars

-----------------------------------------------------------------------------
(* Properties. *)

TypeOK ==
  /\ cfg \in Configs
  /\ up \in BOOLEAN
  /\ now \in Nat
  /\ dynamic \in [MAC -> LeaseRecord]
  /\ byIP \in [Addr -> MAC \cup {NoMAC}]
  /\ declined \in [Addr -> Nat]
  /\ fileLeases \in [MAC -> LeaseRecord]
  /\ fileDeclined \in [Addr -> Nat]
  /\ promised \in [MAC -> PromiseRecord]
  /\ held \in [Addr -> Nat]

(* The collision index is exactly the inverse of the lease table: an entry *)
(* left behind would take its address out of the pool for good, a missing  *)
(* one would let Allocate hand the address to a second client.             *)
IndexExact == \A v \in Addr, m \in MAC : byIP[v] = m <=> dynamic[m].ip = v

(* Every dynamic lease is one the running configuration allows: in the     *)
(* pool, on no statically bound address, of a client without a binding.    *)
LeasesAllowed ==
  \A m \in MAC : dynamic[m] # NoLease => dynamic[m].ip \in DynamicPool(cfg) /\ ~IsStatic(m)

(* An address on hold after a DHCPDECLINE is nobody's lease. *)
HoldsUnleased == \A v \in Addr : declined[v] > 0 => byIP[v] = NoMAC

(* Two clients whose leases still run never hold the same address, through *)
(* expiry, release, decline, failed saves and restarts, unless the         *)
(* configuration itself binds both of them to it.                          *)
Exclusive ==
  \A m1, m2 \in MAC :
    (m1 # m2 /\ promised[m1] # NoPromise /\ promised[m1].ip = promised[m2].ip)
      => promised[m1].static /\ promised[m2].static

(* The dynamic leases that clients count on and nobody has declined. *)
Firm(p) == p # NoPromise /\ ~p.static /\ ~p.contested

(* Such a lease is in the lease file for at least as long: the save comes  *)
(* before the answer, so that a restart cannot forget it.                  *)
Durable ==
  \A m \in MAC : Firm(promised[m]) =>
    /\ fileLeases[m].ip = promised[m].ip
    /\ fileLeases[m].expires >= promised[m].until

(* A client whose lease still runs is told the same address again, also    *)
(* after a restart.                                                        *)
StableAddress ==
  [][\A m \in MAC : (Firm(promised[m]) /\ Firm(promised'[m]))
                       => promised'[m].ip = promised[m].ip]_vars

(* While the acknowledged hold of a declined address runs, no client is    *)
(* told that address from the pool, also after a restart.                  *)
HoldRespected ==
  [][\A m \in MAC : (promised'[m] # promised[m] /\ Firm(promised'[m]))
                       => held[promised'[m].ip] = 0]_vars

-----------------------------------------------------------------------------
(* The allocator implements an address book: its memory, its file and its  *)
(* restarts never show.                                                    *)

EntryOf(p) == [ip |-> p.ip, static |-> p.static, contested |-> p.contested]
entries == [m \in MAC |-> EntryOf(promised[m])]
onHold == {v \in Addr : held[v] > 0}

Book == INSTANCE AddressBook WITH book <- entries, reserved <- onHold

(* Every step of the allocator, failed saves and restarts included, is a   *)
(* step of the address book or leaves the book as it is.                   *)
ImplementsBook == Book!BookSpec

-----------------------------------------------------------------------------
(* The inductive invariant behind them. *)

(* Promises run for at most a lease time, under the present configuration. *)
PromisesRun ==
  \A m \in MAC : promised[m] # NoPromise =>
    /\ now < promised[m].until /\ promised[m].until <= Until
    /\ ~Contradicts(cfg, m)

(* The lease file holds an earlier memory: no address in it twice.         *)
FileSound ==
  /\ \A m, n \in MAC : (fileLeases[m] # NoLease /\ fileLeases[m].ip = fileLeases[n].ip) => m = n
  /\ \A v \in Addr, m \in MAC : fileDeclined[v] > 0 => fileLeases[m].ip # v

(* What a dynamic promise rests on: the lease, or a hold once the promise  *)
(* is contested.                                                           *)
Covered(m, leases, holds) ==
  \/ leases[m].ip = promised[m].ip /\ leases[m].expires >= promised[m].until
  \/ promised[m].contested /\ holds[promised[m].ip] >= promised[m].until

PromisesCovered ==
  \A m \in MAC : (promised[m] # NoPromise /\ ~promised[m].static) =>
    /\ up => Covered(m, dynamic, declined)
    /\ Covered(m, fileLeases, fileDeclined)

HoldsCovered ==
  \A v \in Addr : held[v] > 0 =>
    /\ now < held[v] /\ held[v] <= Until
    /\ up => held[v] <= declined[v]
    /\ held[v] <= fileDeclined[v]

(* Exclusiveness is inductive only together with these: a promise is kept  *)
(* by what the memory holds, and after a crash by what the file holds.     *)
IInv ==
  /\ TypeOK
  /\ IndexExact
  /\ LeasesAllowed
  /\ HoldsUnleased
  /\ FileSound
  /\ PromisesRun
  /\ PromisesCovered
  /\ HoldsCovered
  /\ Exclusive
=============================================================================
