----------------------------- MODULE DnsProofs -----------------------------
(* Theorems about the DNS server, for any configurations, any numbers of   *)
(* queries and any questions.                                              *)
EXTENDS Dns, TLAPS, FiniteSetTheorems, SequenceTheorems, WellFoundedInduction

(* A configuration that is loaded: an address of dhcp.static may be none.  *)
Address == STRING \cup {NoAddress}
Config == [register : {"yes", "no"}, domain : Seq(STRING), upstream : Seq(STRING),
           wildcards : Seq([suffix : Seq(STRING), upstream : Seq(STRING)]),
           static : Seq([name : Seq(STRING), ip : STRING]),
           hosts : Seq([mac : STRING, hostname : Seq(STRING), ip : Address])]

-----------------------------------------------------------------------------
(* The first and the last of a set of positions. *)

LEMMA HasLeast ==
  ASSUME NEW S, S \subseteq Nat, S # {}
  PROVE  \E i \in S : \A j \in S : i <= j
<1>1. PICK i \in S : \A j \in S : ~(<<j, i>> \in OpToRel(<, Nat))
  BY NatLessThanWellFounded, WFMin
<1>2. \A j \in S : (j < i) => <<j, i>> \in OpToRel(<, Nat)
  BY DEF OpToRel
<1>3. ASSUME NEW j \in S PROVE i <= j
  <2>1. ~(j < i) /\ i \in Nat /\ j \in Nat
    BY <1>1, <1>2
  <2> QED BY <2>1
<1> QED BY <1>3

LEMMA HasGreatest ==
  ASSUME NEW n \in Nat, NEW S, S \subseteq 1 .. n, S # {}
  PROVE  \E i \in S : \A j \in S : j <= i
<1> DEFINE T == {k \in 0 .. n : \E i \in S : k = n - i}
<1>1. T \subseteq Nat
  OBVIOUS
<1>2. T # {}
  <2>1. PICK i \in S : i \in 1 .. n
    OBVIOUS
  <2>2. n - i \in T
    BY <2>1
  <2> QED BY <2>2
<1> HIDE DEF T
<1>3. PICK k \in T : \A l \in T : k <= l
  BY <1>1, <1>2, HasLeast
<1>4. PICK i \in S : k = n - i
  BY <1>3 DEF T
<1>5. ASSUME NEW j \in S PROVE j <= i
  <2>1. n - j \in T /\ j \in 1 .. n /\ i \in 1 .. n
    BY DEF T
  <2>2. k <= n - j
    BY <1>3, <2>1
  <2> QED BY <1>4, <2>1, <2>2
<1> QED BY <1>5

LEMMA FirstOfIn ==
  ASSUME NEW S, S \subseteq Nat, S # {}
  PROVE  FirstOf(S) \in S /\ \A j \in S : FirstOf(S) <= j
BY HasLeast DEF FirstOf

LEMMA LastOfIn ==
  ASSUME NEW n \in Nat, NEW S, S \subseteq 1 .. n, S # {}
  PROVE  LastOf(S) \in S /\ \A j \in S : j <= LastOf(S)
BY HasGreatest DEF LastOf

(* A sequence of strings, its first element and the rest. *)
LEMMA HeadAndTail ==
  ASSUME NEW s \in Seq(STRING), s # <<>>
  PROVE  /\ Tail(s) \in Seq(STRING)
         /\ Head(s) \in Range(s)
         /\ Range(s) = {Head(s)} \cup Range(Tail(s))
         /\ Tail(s) = <<>> => Range(Tail(s)) = {}
<1>1. /\ Tail(s) \in Seq(STRING) /\ Head(s) = s[1] /\ Len(s) \in Nat \ {0}
      /\ Len(Tail(s)) = Len(s) - 1
      /\ \A i \in 1 .. Len(s) - 1 : Tail(s)[i] = s[i + 1]
  OBVIOUS
<1>2. DOMAIN s = 1 .. Len(s) /\ DOMAIN Tail(s) = 1 .. Len(s) - 1
  BY <1>1
<1>3. \A i \in 2 .. Len(s) : i - 1 \in 1 .. Len(s) - 1 /\ Tail(s)[i - 1] = s[i]
  BY <1>1
<1>4. Range(s) \subseteq {Head(s)} \cup Range(Tail(s))
  <2>1. \A i \in 2 .. Len(s) : s[i] \in Range(Tail(s))
    BY <1>2, <1>3 DEF Range
  <2>2. 1 .. Len(s) = {1} \cup (2 .. Len(s))
    BY <1>1
  <2> QED BY <1>1, <1>2, <2>1, <2>2 DEF Range
<1>5. {Head(s)} \cup Range(Tail(s)) \subseteq Range(s)
  BY <1>1, <1>2 DEF Range
<1>6. Tail(s) = <<>> => Range(Tail(s)) = {}
  BY DEF Range
<1> QED BY <1>1, <1>4, <1>5, <1>6

-----------------------------------------------------------------------------
(* The upstream servers of a name. *)

LEMMA WildcardType ==
  ASSUME NEW c \in Config, NEW k \in DOMAIN c.wildcards
  PROVE  c.wildcards[k].suffix \in Seq(STRING) /\ c.wildcards[k].upstream \in Seq(STRING)
<1>1. c.wildcards \in Seq([suffix : Seq(STRING), upstream : Seq(STRING)])
  BY DEF Config
<1>2. k \in 1 .. Len(c.wildcards)
  BY <1>1
<1>3. c.wildcards[k] \in [suffix : Seq(STRING), upstream : Seq(STRING)]
  BY <1>1, <1>2, ElementOfSeq, Zenon
<1> QED BY <1>3

(* What New makes of the wildcards: those that are kept, each of them, and *)
(* the longer before the shorter.                                          *)
Sorted(c, ws, n, p) ==
  /\ p \in [1 .. n -> Kept(c.wildcards)]
  /\ ws = [i \in 1 .. n |-> c.wildcards[p[i]]]
  /\ \A k \in Kept(c.wildcards) : \E i \in 1 .. n : p[i] = k
  /\ \A i, j \in 1 .. n : i < j => Len(ws[i].suffix) >= Len(ws[j].suffix)

LEMMA WildcardsSorted ==
  ASSUME NEW c \in Config, NEW ws \in Wildcards(c)
  PROVE  \E n \in Nat : \E p : Sorted(c, ws, n, p)
<1> DEFINE K == Kept(c.wildcards)
           n == Cardinality(K)
<1>1. n \in Nat
  <2>1. Len(c.wildcards) \in Nat /\ K \subseteq 1 .. Len(c.wildcards)
    BY DEF Config, Kept
  <2>2. IsFiniteSet(1 .. Len(c.wildcards))
    BY <2>1, FS_Interval
  <2> QED BY <2>1, <2>2, FS_Subset, FS_CardinalityType
<1>2. /\ ws \in Orders(c.wildcards, K)
      /\ \A i, j \in DOMAIN ws : i < j => Len(ws[i].suffix) >= Len(ws[j].suffix)
  BY DEF Wildcards, LongestFirst
<1>3. PICK p \in Bijection(1 .. n, K) : ws = [i \in 1 .. n |-> c.wildcards[p[i]]]
  BY <1>2 DEF Orders
<1>4. p \in [1 .. n -> K] /\ \A k \in K : \E i \in 1 .. n : p[i] = k
  BY DEF Bijection, Injection, Surjection
<1> HIDE DEF n, K
<1>5. DOMAIN ws = 1 .. n
  BY <1>3
<1>6. Sorted(c, ws, n, p)
  BY <1>2, <1>3, <1>4, <1>5 DEF Sorted, K
<1> QED BY <1>1, <1>4, <1>6 DEF K

(* The servers that handle asks for a name are a list of servers.          *)
LEMMA UpstreamsForType ==
  ASSUME cfg \in Config, wildcards \in Wildcards(cfg), NEW name
  PROVE  UpstreamsFor(name) \in Seq(STRING)
<1> DEFINE S == Matching(name, wildcards)
<1>0. PICK n \in Nat : \E p : Sorted(cfg, wildcards, n, p)
  BY WildcardsSorted
<1>1. PICK p : Sorted(cfg, wildcards, n, p)
  BY <1>0
<1>2. S \subseteq 1 .. n
  BY <1>1 DEF Sorted, Matching
<1>3. CASE S = {}
  BY <1>3 DEF UpstreamsFor, Config
<1>4. CASE S # {}
  <2>1. FirstOf(S) \in 1 .. n
    BY <1>2, <1>4, FirstOfIn
  <2>2. p[FirstOf(S)] \in DOMAIN cfg.wildcards /\ wildcards[FirstOf(S)] = cfg.wildcards[p[FirstOf(S)]]
    BY <1>1, <2>1 DEF Sorted, Kept
  <2>3. cfg.wildcards[p[FirstOf(S)]].upstream \in Seq(STRING)
    BY <2>2, WildcardType
  <2> QED BY <1>4, <2>2, <2>3 DEF UpstreamsFor
<1> QED BY <1>3, <1>4

(* They are those of the longest suffix that the configuration has for the *)
(* name, or the default ones.                                              *)
LEMMA UpstreamsElsewhere ==
  ASSUME cfg \in Config, wildcards \in Wildcards(cfg), NEW name
  PROVE  UpstreamsFor(name) \in Elsewhere(name)
<1> DEFINE S == Matching(name, wildcards)
           all == Matching(name, cfg.wildcards)
<1>0. PICK n \in Nat : \E p : Sorted(cfg, wildcards, n, p)
  BY WildcardsSorted
<1>1. PICK p : Sorted(cfg, wildcards, n, p)
  BY <1>0
<1>2. \A i \in 1 .. n : p[i] \in Kept(cfg.wildcards) /\ wildcards[i] = cfg.wildcards[p[i]]
  BY <1>1 DEF Sorted
<1>3. S = {i \in 1 .. n : EndsIn(name, wildcards[i].suffix)}
  BY <1>1 DEF Sorted, Matching
<1>4. \A i \in 1 .. n : i \in S <=> p[i] \in all
  BY <1>2, <1>3 DEF Matching, Kept
<1>5. CASE all \cap Kept(cfg.wildcards) = {}
  <2>1. S = {}
    BY <1>2, <1>3, <1>4, <1>5
  <2> QED BY <1>5, <2>1 DEF UpstreamsFor, Elsewhere
<1>6. CASE all \cap Kept(cfg.wildcards) # {}
  <2> DEFINE m == FirstOf(S)
  <2>1. PICK i \in 1 .. n : p[i] \in all
    BY <1>1, <1>6 DEF Sorted
  <2>2. S # {} /\ S \subseteq Nat
    BY <1>3, <1>4, <2>1
  <2>3. m \in S /\ (\A j \in S : m <= j) /\ m \in 1 .. n
    BY <1>3, <2>2, FirstOfIn
  <2> HIDE DEF m
  <2>4. p[m] \in all
    BY <1>4, <2>3
  <2>5. ASSUME NEW k \in all
        PROVE  Len(cfg.wildcards[k].suffix) <= Len(cfg.wildcards[p[m]].suffix)
    <3>1. /\ k \in DOMAIN cfg.wildcards /\ p[m] \in DOMAIN cfg.wildcards
          /\ Len(cfg.wildcards[k].suffix) \in Nat /\ Len(cfg.wildcards[p[m]].suffix) \in Nat
      BY <2>4, WildcardType DEF Matching
    <3>2. CASE k \notin Kept(cfg.wildcards)
      <4>1. Len(cfg.wildcards[k].suffix) = 0
        BY <3>1, <3>2 DEF Kept
      <4> QED BY <3>1, <4>1
    <3>3. CASE k \in Kept(cfg.wildcards)
      <4>1. PICK j \in 1 .. n : p[j] = k
        BY <1>1, <3>3 DEF Sorted
      <4>2. m <= j
        BY <1>4, <2>3, <4>1
      <4>3. CASE m = j
        BY <3>1, <4>1, <4>3
      <4>4. CASE m < j
        <5>1. Len(wildcards[m].suffix) >= Len(wildcards[j].suffix)
          BY <1>1, <2>3, <4>4 DEF Sorted
        <5> QED BY <1>2, <2>3, <3>1, <4>1, <5>1
      <4> QED BY <2>3, <4>2, <4>3, <4>4
    <3> QED BY <3>2, <3>3
  <2>6. cfg.wildcards[p[m]].upstream \in Elsewhere(name)
    BY <1>6, <2>4, <2>5 DEF Elsewhere
  <2> QED BY <1>2, <2>2, <2>3, <2>6 DEF UpstreamsFor, m
<1> QED BY <1>5, <1>6

-----------------------------------------------------------------------------
(* The inductive invariant. *)

Steps == {"idle", "static", "hosts", "route", "forward", "failing", "done"}
Fields == {"step", "asked", "known", "at", "left", "failed", "kind", "value"}

(* None of the bindings S is what the handler h was asked for, and known   *)
(* to it.                                                                  *)
Miss(h, S) == \A i \in S : Names(i, h.asked) => cfg.hosts[i].mac \notin h.known

(* The invariant of one handler, with the answers n that it has written. *)
Typed(h) ==
  /\ DOMAIN h = Fields
  /\ h.step \in Steps /\ h.kind \in Kinds
  /\ h.known \subseteq deployed
  /\ h.at \in 1 .. Len(cfg.hosts) + 1
  /\ h.step = "static" => h.at = 1
  /\ h.step = "forward" => h.left # <<>>
  /\ h.step \in {"idle", "static", "hosts", "route"} => h.failed = {}
Counted(h, n) == n \in Nat /\ n <= IF h.step = "done" THEN 1 ELSE 0
Looked(h) ==
  ~TurnedOff =>
    /\ h.step = "hosts" => Miss(h, 1 .. h.at - 1)
    /\ h.step \in {"route", "forward", "failing"} => Miss(h, DOMAIN cfg.hosts)
    /\ h.kind \in {"nxdomain", "upstream", "servfail"} => Miss(h, DOMAIN cfg.hosts)
Routes(h) ==
  LET ups == Range(UpstreamsFor(h.asked.name))
  IN  /\ h.step = "forward" => h.left \in Seq(STRING) /\ h.failed \cup Range(h.left) = ups
      /\ h.step = "failing" => Unwritten \in h.failed \/ h.failed = ups
Answers(kind, asked, value) ==
  LET ups == Range(UpstreamsFor(asked.name))
  IN  /\ kind = "upstream" => value \in ups
      /\ kind = "servfail" => Unwritten \in value \/ value = ups
      /\ kind = "nxdomain" => UpstreamsFor(asked.name) = <<>>
      /\ kind = "local" /\ asked.type = "A" =>
           \E ip \in Addresses : Given(asked.name, ip) /\ value = To4(ip)
      /\ kind = "local" /\ asked.type = "PTR" =>
           \E ip \in Addresses : Given(value, ip) /\ Arpa(ip) = asked.name

Good(h) == Typed(h) /\ Looked(h) /\ Routes(h) /\ Answers(h.kind, h.asked, h.value)

Inv ==
  /\ cfg \in Config /\ wildcards \in Wildcards(cfg)
  /\ deployed \subseteq MACs
  /\ query = [q \in Query |-> query[q]]
  /\ sent \in [Query -> Nat]
  /\ \A q \in Query : Good(query[q]) /\ Counted(query[q], sent[q])

LEMMA InvImplies == Inv => QInv
<1> SUFFICES ASSUME Inv PROVE QInv
  OBVIOUS
<1>1. TypeOK
  BY DEF Inv, Good, Config, Typed, Steps, TypeOK
<1>2. AnsweredOnce
  BY DEF Inv, Counted, AnsweredOnce
<1>3. DeployedResolve
  BY DEF Inv, Good, Looked, Miss, DeployedResolve, Unknown
<1>4. Searched
  BY DEF Inv, Good, Looked, Miss, Searched, Unknown
<1>5. Routed
  BY DEF Inv, Good, Routes, Answers, Routed
<1>6. Sourced
  BY DEF Inv, Good, Answers, Sourced, Is
<1> QED BY <1>1, <1>2, <1>3, <1>4, <1>5, <1>6 DEF QInv

LEMMA InvInit == Init => Inv
<1> SUFFICES ASSUME Init PROVE Inv
  OBVIOUS
<1>1. cfg \in Config
  <2>1. PICK f \in Files : cfg = Parsed(ApplyDefaults(f))
    BY DEF Init
  <2>2. f \in [register : {"unset", "yes", "no"}, domain : Seq(STRING), upstream : Seq(STRING),
               wildcards : Seq([suffix : Seq(STRING), upstream : Seq(STRING)]),
               static : Seq([name : Seq(STRING), ip : STRING]),
               hosts : Seq([mac : STRING, hostname : Seq(STRING), ip : STRING])]
    BY DnsAssumption
  <2> DEFINE g == ApplyDefaults(f)
             hosts == [i \in DOMAIN g.hosts |-> [g.hosts[i] EXCEPT !.ip = To4(g.hosts[i].ip)]]
  <2>3. g \in [register : {"yes", "no"}, domain : Seq(STRING), upstream : Seq(STRING),
               wildcards : Seq([suffix : Seq(STRING), upstream : Seq(STRING)]),
               static : Seq([name : Seq(STRING), ip : STRING]),
               hosts : Seq([mac : STRING, hostname : Seq(STRING), ip : STRING])]
    BY <2>2 DEF ApplyDefaults
  <2>4. hosts \in Seq([mac : STRING, hostname : Seq(STRING), ip : Address])
    <3> HIDE DEF g
    <3>1. g.hosts \in Seq([mac : STRING, hostname : Seq(STRING), ip : STRING])
      BY <2>3
    <3>2. Len(g.hosts) \in Nat /\ DOMAIN g.hosts = 1 .. Len(g.hosts)
      BY <3>1
    <3>3. ASSUME NEW i \in 1 .. Len(g.hosts)
          PROVE  [g.hosts[i] EXCEPT !.ip = To4(g.hosts[i].ip)]
                   \in [mac : STRING, hostname : Seq(STRING), ip : Address]
      <4>1. g.hosts[i] \in [mac : STRING, hostname : Seq(STRING), ip : STRING]
        BY <3>1, ElementOfSeq, Zenon
      <4>2. To4(g.hosts[i].ip) \in Address
        BY <4>1 DEF To4, Address
      <4> QED BY <4>1, <4>2
    <3>4. hosts \in [1 .. Len(g.hosts) -> [mac : STRING, hostname : Seq(STRING), ip : Address]]
      BY <3>2, <3>3
    <3> HIDE DEF hosts
    <3> QED BY <3>2, <3>4, SeqDef
  <2>5. cfg = [g EXCEPT !.hosts = hosts]
    BY <2>1 DEF Parsed
  <2> HIDE DEF g, hosts
  <2> QED BY <2>3, <2>4, <2>5 DEF Config
<1>2. /\ DOMAIN Idle = Fields /\ Idle.step = "idle" /\ Idle.kind = "none"
      /\ Idle.known = {} /\ Idle.at = 1 /\ Idle.failed = {}
  BY DEF Idle, Handler, Fields
<1>3. Len(cfg.hosts) \in Nat
  BY <1>1 DEF Config
<1>4. Good(Idle) /\ Counted(Idle, 0)
  BY <1>2, <1>3 DEF Good, Typed, Counted, Looked, Routes, Answers, Steps, Kinds
<1> QED BY <1>1, <1>4 DEF Init, Inv

(* What is known of a name, and of a handler, does not change while the    *)
(* configuration does not, and no machine is forgotten.                    *)
LEMMA SameConfig ==
  ASSUME UNCHANGED <<cfg, wildcards>>
  PROVE  /\ MACs' = MACs /\ Addresses' = Addresses
         /\ \A name : UpstreamsFor(name)' = UpstreamsFor(name)
         /\ \A name, ip : Given(name, ip)' <=> Given(name, ip)
<1>1. MACs' = MACs
  BY DEF MACs
<1>2. (\A mac : Lookup(mac)' = Lookup(mac)) /\ (\A name : Fqdn(name)' = Fqdn(name))
  BY DEF Lookup, Fqdn
<1>3. Addresses' = Addresses
  BY <1>1, <1>2 DEF Addresses
<1>4. \A name : UpstreamsFor(name)' = UpstreamsFor(name)
  BY DEF UpstreamsFor
<1>5. \A name, ip : Given(name, ip)' <=> Given(name, ip)
  BY <1>2 DEF Given
<1> QED BY <1>1, <1>3, <1>4, <1>5

LEMMA SameHandler ==
  ASSUME UNCHANGED <<cfg, wildcards>>, deployed \subseteq deployed', NEW q, query'[q] = query[q],
         Good(query[q])
  PROVE  Good(query[q])'
<1>1. Typed(query[q])' /\ Looked(query[q])'
  BY DEF Good, Typed, Looked, Miss, Names, Fqdn, TurnedOff
<1>2. Routes(query[q])' /\ Answers(query[q].kind, query[q].asked, query[q].value)'
  BY SameConfig DEF Good, Routes, Answers
<1> QED BY <1>1, <1>2 DEF Good

(* A step of one handler that leaves it well, leaves all well. *)
LEMMA OneHandler ==
  ASSUME Inv, NEW q \in Query, NEW h, NEW n,
         query' = [query EXCEPT ![q] = h], sent' = [sent EXCEPT ![q] = n],
         UNCHANGED <<cfg, wildcards, deployed>>,
         Good(h), Counted(h, n)
  PROVE  Inv'
<1>1. query'[q] = h /\ \A r \in Query \ {q} : query'[r] = query[r]
  BY DEF Inv
<1>2. sent'[q] = n /\ \A r \in Query \ {q} : sent'[r] = sent[r]
  BY DEF Inv
<1>3. sent' \in [Query -> Nat] /\ query' = [r \in Query |-> query'[r]]
  BY DEF Inv, Counted
<1>4. \A r \in Query : Counted(query[r], sent[r])'
  BY <1>1, <1>2 DEF Inv, Counted
<1>5. ASSUME NEW r \in Query \ {q} PROVE Good(query[r])'
  BY <1>1, SameHandler DEF Inv
<1>6. Good(query[q])'
  <2>1. Typed(query[q])' /\ Looked(query[q])'
    BY <1>1 DEF Good, Typed, Looked, Miss, Names, Fqdn, TurnedOff
  <2>2. Routes(query[q])' /\ Answers(query[q].kind, query[q].asked, query[q].value)'
    BY <1>1, SameConfig DEF Good, Routes, Answers
  <2> QED BY <2>1, <2>2 DEF Good
<1>7. \A r \in Query : Good(query[r])'
  BY <1>5, <1>6
<1>8. cfg' \in Config /\ (wildcards \in Wildcards(cfg))' /\ (deployed \subseteq MACs)'
  BY SameConfig DEF Inv
<1> QED BY <1>3, <1>4, <1>7, <1>8 DEF Inv

(* The same for a step that writes nothing, and for one that answers. *)
LEMMA Silent ==
  ASSUME Inv, NEW q \in Query, NEW h, To(q, h), Unsent,
         Good(h), h.step # "done", query[q].step \notin {"idle", "done"}
  PROVE  Inv'
<1>1. Counted(query[q], sent[q])
  BY DEF Inv
<1>2. Counted(h, sent[q])
  BY <1>1 DEF Counted
<1>3. sent' = [sent EXCEPT ![q] = sent[q]]
  BY DEF Unsent, Inv
<1> QED BY <1>2, <1>3, OneHandler DEF To, Unsent

LEMMA Answered ==
  ASSUME Inv, NEW q \in Query, NEW kind \in Kinds, NEW value, Write(q, kind, value),
         query[q].step \notin {"idle", "done"},
         (~TurnedOff /\ kind \in {"nxdomain", "upstream", "servfail"})
            => Miss(query[q], DOMAIN cfg.hosts),
         Answers(kind, query[q].asked, value)
  PROVE  Inv'
<1> DEFINE h == [Handler("done", query[q].asked, query[q].known)
                   EXCEPT !.kind = kind, !.value = value]
<1>1. /\ DOMAIN h = Fields /\ h.step = "done" /\ h.kind = kind /\ h.value = value /\ h.at = 1
      /\ h.known = query[q].known /\ h.asked = query[q].asked
  BY DEF Handler, Fields
<1>2. To(q, h) /\ UNCHANGED <<cfg, wildcards, deployed>>
  BY DEF Write
<1> HIDE DEF h
<1>3. Typed(query[q]) /\ Counted(query[q], sent[q]) /\ cfg \in Config
  BY DEF Inv, Good
<1>4. Typed(h)
  <2>1. Len(cfg.hosts) \in Nat
    BY <1>3 DEF Config
  <2> QED BY <1>1, <1>3, <2>1 DEF Typed, Steps
<1>5. Looked(h)
  BY <1>1 DEF Looked, Miss
<1>9. Good(h)
  BY <1>1, <1>4, <1>5 DEF Good, Routes
<1>6. sent[q] = 0
  BY <1>3 DEF Counted
<1>7. PICK n \in {0, 1} : sent' = [sent EXCEPT ![q] = n]
  <2>1. sent' \in {sent, [sent EXCEPT ![q] = @ + 1]}
    BY DEF Write
  <2>2. sent = [sent EXCEPT ![q] = 0]
    BY <1>6 DEF Inv
  <2>3. [sent EXCEPT ![q] = @ + 1] = [sent EXCEPT ![q] = 1]
    BY <1>6 DEF Inv
  <2> QED BY <2>1, <2>2, <2>3
<1>8. Counted(h, n)
  BY <1>1, <1>7 DEF Counted
<1> QED BY <1>2, <1>7, <1>8, <1>9, OneHandler DEF To

LEMMA StepAsk ==
  ASSUME Inv, NEW q \in Query, NEW question \in Question, Ask(q, question)
  PROVE  Inv'
<1> DEFINE h == Handler("static", question, deployed)
<1>1. /\ DOMAIN h = Fields /\ h.step = "static" /\ h.kind = "none" /\ h.at = 1
      /\ h.known = deployed /\ h.failed = {}
  BY DEF Handler, Fields
<1>2. /\ query' = [query EXCEPT ![q] = h] /\ sent' = [sent EXCEPT ![q] = 0]
      /\ UNCHANGED <<cfg, wildcards, deployed>>
  BY DEF Ask, To
<1> HIDE DEF h
<1>3. Len(cfg.hosts) \in Nat
  BY DEF Inv, Config
<1>4. Good(h) /\ Counted(h, 0)
  BY <1>1, <1>3 DEF Good, Typed, Counted, Looked, Routes, Answers, Steps, Kinds
<1> QED BY <1>2, <1>4, OneHandler

(* What the static names and the bindings give is given. *)
LEMMA StaticAnswers ==
  ASSUME Inv, NEW name
  PROVE  /\ StaticA(name) # {} =>
              LET ip == cfg.static[LastOf(StaticA(name))].ip
              IN  ip \in Addresses /\ Given(name, ip)
         /\ StaticPTR(name) # {} =>
              LET st == cfg.static[LastOf(StaticPTR(name))]
              IN  st.ip \in Addresses /\ Given(Fqdn(st.name), st.ip) /\ Arpa(st.ip) = name
<1>1. Len(cfg.static) \in Nat /\ DOMAIN cfg.static = 1 .. Len(cfg.static)
  BY DEF Inv, Config
<1>2. ASSUME StaticA(name) # {} PROVE LastOf(StaticA(name)) \in StaticA(name)
  BY <1>1, <1>2, LastOfIn DEF StaticA
<1>3. ASSUME StaticPTR(name) # {} PROVE LastOf(StaticPTR(name)) \in StaticPTR(name)
  BY <1>1, <1>3, LastOfIn DEF StaticPTR
<1>4. ASSUME StaticA(name) # {}
      PROVE  LET ip == cfg.static[LastOf(StaticA(name))].ip
             IN  ip \in Addresses /\ Given(name, ip)
  BY <1>2, <1>4 DEF StaticA, Given, Addresses
<1>5. ASSUME StaticPTR(name) # {}
      PROVE  LET st == cfg.static[LastOf(StaticPTR(name))]
             IN  st.ip \in Addresses /\ Given(Fqdn(st.name), st.ip) /\ Arpa(st.ip) = name
  BY <1>3, <1>5 DEF StaticPTR, Given, Addresses
<1> QED BY <1>4, <1>5

LEMMA HostAnswers ==
  ASSUME NEW i \in DOMAIN cfg.hosts, cfg.hosts[i].hostname # <<>>,
         NEW asked, NEW v \in HostAnswer(i, asked)
  PROVE  Answers("local", asked, v)
<1> DEFINE ip == Lookup(cfg.hosts[i].mac)
<1>1. ip \in Addresses
  BY DEF Addresses, MACs
<1> HIDE DEF ip
<1>2. Given(Fqdn(cfg.hosts[i].hostname), ip)
  BY DEF Given, ip
<1>3. CASE asked.type = "A"
  <2>1. v = To4(ip) /\ Fqdn(cfg.hosts[i].hostname) = asked.name
    BY <1>3 DEF HostAnswer, ip
  <2> QED BY <1>1, <1>2, <1>3, <2>1 DEF Answers
<1>4. CASE asked.type # "A"
  <2>1. v = Fqdn(cfg.hosts[i].hostname) /\ Arpa(ip) = asked.name
    BY <1>4 DEF HostAnswer, ip
  <2> QED BY <1>1, <1>2, <1>4, <2>1 DEF Answers
<1> QED BY <1>3, <1>4

LEMMA StepHandleStatic ==
  ASSUME Inv, NEW q \in Query, HandleStatic(q)
  PROVE  Inv'
<1> DEFINE asked == query[q].asked
           next == IF asked.type \in {"A", "PTR"} /\ cfg.register = "yes" THEN "hosts" ELSE "route"
           h == [query[q] EXCEPT !.step = next]
           A == IF asked.type = "A" THEN StaticA(asked.name) ELSE {}
           PTR == IF asked.type = "PTR" THEN StaticPTR(asked.name) ELSE {}
<1>1. query[q].step = "static" /\ Good(query[q]) /\ cfg \in Config
  BY DEF HandleStatic, Inv
<1>2. CASE Write(q, "refused", <<>>)
  <2>1. Answers("refused", asked, <<>>)
    BY DEF Answers
  <2> QED BY <1>1, <1>2, <2>1, Answered DEF Kinds
<1>3. CASE A # {} /\ Write(q, "local", To4(cfg.static[LastOf(A)].ip))
  <2> DEFINE ip == cfg.static[LastOf(A)].ip
  <2>1. asked.type = "A" /\ A = StaticA(asked.name)
    BY <1>3
  <2>2. ip \in Addresses /\ Given(asked.name, ip)
    BY <1>3, <2>1, StaticAnswers
  <2> HIDE DEF ip
  <2>3. Answers("local", asked, To4(ip))
    BY <2>1, <2>2 DEF Answers
  <2> QED BY <1>1, <1>3, <2>3, Answered DEF Kinds, ip
<1>4. CASE PTR # {} /\ Write(q, "local", Fqdn(cfg.static[LastOf(PTR)].name))
  <2> DEFINE st == cfg.static[LastOf(PTR)]
  <2>1. asked.type = "PTR" /\ PTR = StaticPTR(asked.name)
    BY <1>4
  <2>2. st.ip \in Addresses /\ Given(Fqdn(st.name), st.ip) /\ Arpa(st.ip) = asked.name
    BY <1>4, <2>1, StaticAnswers
  <2> HIDE DEF st
  <2>3. Answers("local", asked, Fqdn(st.name))
    BY <2>1, <2>2 DEF Answers
  <2> QED BY <1>1, <1>4, <2>3, Answered DEF Kinds, st
<1>5. CASE To(q, h) /\ Unsent
  <2>1. /\ DOMAIN h = Fields /\ h.step = next /\ h.kind = query[q].kind /\ h.at = 1
        /\ h.known = query[q].known /\ h.asked = asked /\ h.value = query[q].value
        /\ h.failed = query[q].failed
    BY <1>1 DEF Good, Typed, Fields
  <2>2. next \in {"hosts", "route"}
    OBVIOUS
  <2>3. (~TurnedOff /\ next = "route") => asked.type # "A"
    BY <1>1 DEF Config, TurnedOff
  <2> HIDE DEF h, next
  <2>4. Typed(h)
    BY <1>1, <2>1, <2>2 DEF Good, Typed, Steps
  <2>5. Looked(h)
    BY <1>1, <2>1, <2>2, <2>3 DEF Good, Looked, Miss, Names
  <2>6. Good(h)
    BY <1>1, <2>1, <2>2, <2>4, <2>5 DEF Good, Routes
  <2> QED BY <1>1, <1>5, <2>1, <2>2, <2>6, Silent
<1> QED BY <1>2, <1>3, <1>4, <1>5 DEF HandleStatic

(* A binding that has no answer is none that was asked for and known. *)
LEMMA NotFound ==
  ASSUME Inv, NEW q \in Query, NEW i \in DOMAIN cfg.hosts,
         ~ ( /\ cfg.hosts[i].hostname # <<>> /\ cfg.hosts[i].mac \in deployed
             /\ HostAnswer(i, query[q].asked) # {} ),
         Names(i, query[q].asked)
  PROVE  cfg.hosts[i].mac \notin query[q].known
<1>1. HostAnswer(i, query[q].asked) # {}
  BY DEF HostAnswer, Names
<1> QED BY <1>1 DEF Names, Inv, Good, Typed

LEMMA StepNextHost ==
  ASSUME Inv, NEW q \in Query, NextHost(q)
  PROVE  Inv'
<1> DEFINE h == query[q]
           found == IF /\ h.at \in DOMAIN cfg.hosts
                       /\ cfg.hosts[h.at].hostname # <<>>
                       /\ cfg.hosts[h.at].mac \in deployed
                    THEN HostAnswer(h.at, h.asked) ELSE {}
           on == [h EXCEPT !.at = @ + 1]
           off == [h EXCEPT !.step = "route"]
<1>1. h.step = "hosts" /\ Good(h) /\ cfg \in Config
  BY DEF NextHost, Inv
<1>2. Len(cfg.hosts) \in Nat /\ DOMAIN cfg.hosts = 1 .. Len(cfg.hosts)
  BY <1>1 DEF Config
<1>3. CASE \E v \in found : Write(q, "local", v)
  <2>1. PICK v \in found : Write(q, "local", v)
    BY <1>3
  <2>2. h.at \in DOMAIN cfg.hosts /\ cfg.hosts[h.at].hostname # <<>> /\ v \in HostAnswer(h.at, h.asked)
    BY <2>1
  <2>3. Answers("local", h.asked, v)
    BY <2>2, HostAnswers
  <2> QED BY <1>1, <2>1, <2>3, Answered DEF Kinds
<1>4. CASE h.at \in DOMAIN cfg.hosts /\ found = {} /\ To(q, on) /\ Unsent
  <2>1. /\ DOMAIN on = Fields /\ on.step = "hosts" /\ on.kind = h.kind /\ on.at = h.at + 1
        /\ on.known = h.known /\ on.asked = h.asked /\ on.value = h.value
        /\ on.failed = h.failed
    BY <1>1 DEF Good, Typed, Fields
  <2>2. Names(h.at, h.asked) => cfg.hosts[h.at].mac \notin h.known
    BY <1>4, NotFound
  <2> HIDE DEF on
  <2>3. Typed(on)
    BY <1>1, <1>2, <1>4, <2>1 DEF Good, Typed
  <2>4. 1 .. on.at - 1 = (1 .. h.at - 1) \cup {h.at}
    BY <1>2, <1>4, <2>1
  <2>5. Looked(on)
    BY <1>1, <2>1, <2>2, <2>4 DEF Good, Looked, Miss
  <2>6. Good(on)
    BY <1>1, <2>1, <2>3, <2>5 DEF Good, Routes
  <2> QED BY <1>1, <1>4, <2>1, <2>6, Silent
<1>5. CASE h.at \notin DOMAIN cfg.hosts /\ To(q, off) /\ Unsent
  <2>1. /\ DOMAIN off = Fields /\ off.step = "route" /\ off.kind = h.kind /\ off.at = h.at
        /\ off.known = h.known /\ off.asked = h.asked /\ off.value = h.value
        /\ off.failed = h.failed
    BY <1>1 DEF Good, Typed, Fields
  <2> HIDE DEF off
  <2>2. Typed(off)
    BY <1>1, <2>1 DEF Good, Typed, Steps
  <2>3. 1 .. h.at - 1 = DOMAIN cfg.hosts
    BY <1>1, <1>2, <1>5 DEF Good, Typed
  <2>4. Looked(off)
    BY <1>1, <2>1, <2>3 DEF Good, Looked, Miss
  <2>5. Good(off)
    BY <1>1, <2>1, <2>2, <2>4 DEF Good, Routes
  <2> QED BY <1>1, <1>5, <2>1, <2>5, Silent
<1> QED BY <1>3, <1>4, <1>5 DEF NextHost

(* A handler that looks elsewhere goes on doing so. *)
LEMMA Onward ==
  ASSUME Inv, NEW q \in Query, NEW h, To(q, h), Unsent,
         query[q].step \in {"route", "forward", "failing"},
         h.step \in {"forward", "failing"}, DOMAIN h = Fields,
         h.step = "forward" => h.left # <<>>,
         h.asked = query[q].asked, h.known = query[q].known,
         h.kind = query[q].kind, h.value = query[q].value, h.at = query[q].at,
         Routes(h)
  PROVE  Inv'
<1>1. Good(query[q])
  BY DEF Inv
<1>2. Typed(h) /\ Looked(h)
  BY <1>1 DEF Good, Typed, Looked, Miss, Steps
<1>3. Good(h)
  BY <1>1, <1>2 DEF Good
<1> QED BY <1>3, Silent

LEMMA StepRoute ==
  ASSUME Inv, NEW q \in Query, Route(q)
  PROVE  Inv'
<1> DEFINE asked == query[q].asked
           ups == UpstreamsFor(asked.name)
           h == [query[q] EXCEPT !.step = "forward", !.left = ups]
<1>1. query[q].step = "route" /\ Good(query[q])
  BY DEF Route, Inv
<1>2. CASE ups = <<>> /\ Write(q, "nxdomain", <<>>)
  <2>1. Answers("nxdomain", asked, <<>>)
    BY <1>2 DEF Answers
  <2> QED BY <1>1, <1>2, <2>1, Answered DEF Kinds, Good, Looked
<1>3. CASE ups # <<>> /\ To(q, h) /\ Unsent
  <2>1. /\ DOMAIN h = Fields /\ h.step = "forward" /\ h.left = ups /\ h.kind = query[q].kind
        /\ h.at = query[q].at /\ h.known = query[q].known /\ h.asked = asked
        /\ h.value = query[q].value /\ h.failed = query[q].failed
    BY <1>1 DEF Good, Typed, Fields
  <2>2. query[q].failed = {}
    BY <1>1 DEF Good, Typed
  <2>3. ups \in Seq(STRING)
    BY UpstreamsForType DEF Inv
  <2> HIDE DEF h
  <2>4. Routes(h)
    BY <2>1, <2>2, <2>3 DEF Routes
  <2> HIDE DEF ups
  <2> QED BY <1>1, <1>3, <2>1, <2>4, Onward
<1> QED BY <1>2, <1>3 DEF Route

LEMMA StepForward ==
  ASSUME Inv, NEW q \in Query, Forward(q)
  PROVE  Inv'
<1> DEFINE u == [query[q] EXCEPT !.step = "failing", !.failed = @ \cup {Unwritten}]
           f == Failing(query[q])
           left == query[q].left
           ups == Range(UpstreamsFor(query[q].asked.name))
<1>1. query[q].step = "forward" /\ Good(query[q])
  BY DEF Forward, Inv
<1>2. left \in Seq(STRING) /\ left # <<>> /\ query[q].failed \cup Range(left) = ups
  BY <1>1 DEF Good, Typed, Routes
<1>3. CASE Write(q, "upstream", Head(left))
  <2>1. Answers("upstream", query[q].asked, Head(left))
    BY <1>2, HeadAndTail DEF Answers
  <2> QED BY <1>1, <1>3, <2>1, Answered DEF Kinds, Good, Looked
<1>4. CASE To(q, u) /\ Unsent
  <2>1. /\ DOMAIN u = Fields /\ u.step = "failing" /\ u.kind = query[q].kind
        /\ u.at = query[q].at /\ u.known = query[q].known /\ u.asked = query[q].asked
        /\ u.value = query[q].value /\ Unwritten \in u.failed
    BY <1>1 DEF Good, Typed, Fields
  <2> HIDE DEF u
  <2>2. Routes(u)
    BY <2>1 DEF Routes
  <2> QED BY <1>1, <1>4, <2>1, <2>2, Onward
<1>5. CASE To(q, f) /\ Unsent
  <2>1. /\ DOMAIN f = Fields /\ f.step = (IF Tail(left) = <<>> THEN "failing" ELSE "forward")
        /\ f.kind = query[q].kind
        /\ f.at = query[q].at /\ f.known = query[q].known /\ f.asked = query[q].asked
        /\ f.value = query[q].value /\ f.left = Tail(left)
        /\ f.failed = query[q].failed \cup {Head(left)}
    BY <1>1 DEF Good, Failing, Typed, Fields
  <2> HIDE DEF f
  <2>2. f.step \in {"forward", "failing"} /\ (f.step = "forward" => f.left # <<>>)
    BY <2>1
  <2>3. f.failed \cup Range(Tail(left)) = ups /\ Tail(left) \in Seq(STRING)
    BY <1>2, <2>1, HeadAndTail
  <2>4. Tail(left) = <<>> => f.failed = ups
    BY <1>2, <2>3, HeadAndTail
  <2>5. Routes(f)
    BY <2>1, <2>3, <2>4 DEF Routes
  <2> QED BY <1>1, <1>5, <2>1, <2>2, <2>5, Onward
<1> QED BY <1>3, <1>4, <1>5 DEF Forward

LEMMA StepServFail ==
  ASSUME Inv, NEW q \in Query, ServFail(q)
  PROVE  Inv'
<1>1. query[q].step = "failing" /\ Good(query[q])
  BY DEF ServFail, Inv
<1>2. Answers("servfail", query[q].asked, query[q].failed)
  BY <1>1 DEF Good, Routes, Answers
<1> QED BY <1>1, <1>2, Answered DEF ServFail, Kinds, Good, Looked

LEMMA StepRecord ==
  ASSUME Inv, NEW mac \in MACs, Record(mac)
  PROVE  Inv'
<1>1. /\ deployed \subseteq deployed' /\ deployed' \subseteq MACs
      /\ UNCHANGED <<cfg, wildcards, query, sent>>
  BY DEF Record, Inv
<1>2. \A q \in Query : Good(query[q])'
  BY <1>1, SameHandler DEF Inv
<1>3. \A q \in Query : Counted(query[q], sent[q])'
  BY <1>1 DEF Inv, Counted
<1> QED BY <1>1, <1>2, <1>3, SameConfig DEF Inv

LEMMA InvStep == Inv /\ [Next]_vars => Inv'
<1> SUFFICES ASSUME Inv, [Next]_vars PROVE Inv'
  OBVIOUS
<1>1. ASSUME NEW q \in Query, Handle(q) PROVE Inv'
  BY <1>1, StepHandleStatic, StepNextHost, StepRoute, StepForward, StepServFail DEF Handle
<1>2. ASSUME NEW q \in Query, NEW question \in Question, Ask(q, question) PROVE Inv'
  BY <1>2, StepAsk
<1>3. ASSUME NEW mac \in MACs, Record(mac) PROVE Inv'
  BY <1>3, StepRecord
<1>4. CASE UNCHANGED vars
  <2>1. UNCHANGED <<cfg, wildcards, deployed, query, sent>>
    BY <1>4 DEF vars
  <2>2. \A q \in Query : Good(query[q])' /\ Counted(query[q], sent[q])'
    BY <2>1, SameHandler DEF Inv, Counted
  <2> QED BY <2>1, <2>2, SameConfig DEF Inv
<1> QED BY <1>1, <1>2, <1>3, <1>4 DEF Next

-----------------------------------------------------------------------------

LEMMA InvAlways == Spec => []Inv
BY InvInit, InvStep, PTL DEF Spec

(* The inductive invariant of the handlers holds: what the runs check as   *)
(* QInv, for any number of queries and any files.                          *)
THEOREM DnsInvariant == Spec => []QInv
BY InvAlways, InvImplies, PTL

(* Type correctness of the DNS server. *)
THEOREM DnsTypes == Spec => []TypeOK
<1>1. QInv => TypeOK
  BY DEF QInv
<1> QED BY <1>1, DnsInvariant, PTL

(* handle writes at most one answer to a query. *)
THEOREM AnsweredOnceAlways == Spec => []AnsweredOnce
<1>1. QInv => AnsweredOnce
  BY DEF QInv
<1> QED BY <1>1, DnsInvariant, PTL

(* A machine that was recorded when its name was asked is not looked for   *)
(* at other servers, although handle reads the record once per binding.    *)
THEOREM DeployedResolveAlways == Spec => []DeployedResolve
<1>1. QInv => DeployedResolve
  BY DEF QInv
<1> QED BY <1>1, DnsInvariant, PTL

(* A name that the configuration gives once has one address. *)
LEMMA OneAddress ==
  ASSUME Distinct, NEW name, NEW ip, NEW other, Given(name, ip), Given(name, other)
  PROVE  ip = other
<1> DEFINE Static(i, a) == i \in DOMAIN cfg.static /\ Fqdn(cfg.static[i].name) = name /\ cfg.static[i].ip = a
           Host(i, a) == /\ i \in DOMAIN cfg.hosts /\ cfg.hosts[i].hostname # <<>>
                         /\ Fqdn(cfg.hosts[i].hostname) = name /\ Lookup(cfg.hosts[i].mac) = a
<1>1. \A i, j : Static(i, ip) /\ Static(j, other) => ip = other
  BY DEF Distinct
<1>2. \A i, j : Host(i, ip) /\ Host(j, other) => ip = other
  BY DEF Distinct
<1>3. \A i, j, a, b : ~(Static(i, a) /\ Host(j, b))
  BY DEF Distinct, StaticA
<1>4. (\E i : Static(i, ip) \/ Host(i, ip)) /\ (\E j : Static(j, other) \/ Host(j, other))
  BY DEF Given
<1> HIDE DEF Static, Host
<1> QED BY <1>1, <1>2, <1>3, <1>4

(* Where no name is given twice, the forward and the reverse answers agree *)
(* over any two queries: localA, localPTR and deployedA each read the same *)
(* configuration, whatever is recorded in between; of an address of IPv6,  *)
(* which validate keeps in dns.static, the forward answer has nothing.     *)
THEOREM AnswersAgreeAlways == Spec => []AnswersAgree
<1>1. ASSUME QInv PROVE AnswersAgree
  <2> SUFFICES ASSUME Distinct, NEW p \in Query, NEW q \in Query,
                      Is(p, "local", "PTR"), Is(q, "local", "A"),
                      query[p].value = query[q].asked.name
               PROVE  \E ip \in Addresses :
                        Arpa(ip) = query[p].asked.name /\ query[q].value = To4(ip)
    BY DEF AnswersAgree
  <2>1. PICK other \in Addresses :
          Given(query[q].asked.name, other) /\ query[q].value = To4(other)
    BY <1>1 DEF QInv, Sourced
  <2>2. PICK ip \in Addresses : Given(query[p].value, ip) /\ Arpa(ip) = query[p].asked.name
    BY <1>1 DEF QInv, Sourced
  <2>3. ip = other
    BY <2>1, <2>2, OneAddress
  <2> QED BY <2>1, <2>2, <2>3
<1> QED BY <1>1, DnsInvariant, PTL

(* What is answered from elsewhere comes from a server of the longest      *)
(* suffix that matches, although New drops and sorts the wildcards and     *)
(* upstreamsFor takes the first that matches; a failure is answered only   *)
(* after each of its servers has failed, and that there is no such name    *)
(* only where nobody can be asked.                                         *)
THEOREM RightServersAlways == Spec => []RightServers
<1>1. ASSUME Inv PROVE RightServers
  <2>1. QInv /\ cfg \in Config /\ wildcards \in Wildcards(cfg)
    BY <1>1, InvImplies DEF Inv
  <2> SUFFICES ASSUME NEW q \in Query
               PROVE  LET h == query[q] IN
                 /\ h.kind = "upstream" => \E ups \in Elsewhere(h.asked.name) : \E i \in DOMAIN ups : ups[i] = h.value
                 /\ h.kind = "servfail" => Unwritten \in h.value
                       \/ \E ups \in Elsewhere(h.asked.name) : h.value = {ups[i] : i \in DOMAIN ups}
                 /\ h.kind = "nxdomain" => <<>> \in Elsewhere(h.asked.name)
    BY DEF RightServers
  <2> DEFINE h == query[q]
             ups == UpstreamsFor(h.asked.name)
  <2>2. /\ h.kind = "upstream" => h.value \in Range(ups)
        /\ h.kind = "servfail" => Unwritten \in h.value \/ h.value = Range(ups)
        /\ h.kind = "nxdomain" => ups = <<>>
    BY <2>1 DEF QInv, Routed
  <2>3. ups \in Elsewhere(h.asked.name)
    BY <2>1, UpstreamsElsewhere
  <2> HIDE DEF ups
  <2> QED BY <2>2, <2>3 DEF Range
<1> QED BY <1>1, InvAlways, PTL

-----------------------------------------------------------------------------
(* How far a handler is from its answer: its stage, and in a loop what is  *)
(* left to look at.                                                        *)

Stage == [idle |-> 0, done |-> 0, failing |-> 1, forward |-> 2, route |-> 3, hosts |-> 4, static |-> 5]
Todo(h) == CASE h.step = "hosts" -> Len(cfg.hosts) + 1 - h.at
             [] h.step = "forward" -> Len(h.left)
             [] OTHER -> 0
Closer(g, h) ==
  \/ Stage[g.step] < Stage[h.step]
  \/ Stage[g.step] = Stage[h.step] /\ Todo(g) \in Nat /\ Todo(h) \in Nat /\ Todo(g) < Todo(h)

Busy(h) == h.step \notin {"idle", "done"}

ComesCloser ==
  [][\A q \in Query :
       /\ Handle(q) => Closer(query'[q], query[q])
       /\ Busy(query[q]) => Handle(q) \/ query'[q] = query[q]]_vars

LEMMA HandleComesCloser ==
  ASSUME Inv, NEW q \in Query, Handle(q)
  PROVE  Closer(query'[q], query[q])
<1> DEFINE h == query[q]
<1>1. Good(h) /\ Len(cfg.hosts) \in Nat /\ DOMAIN cfg.hosts = 1 .. Len(cfg.hosts)
  BY DEF Inv, Config
<1>2. DOMAIN h = Fields /\ h.at \in 1 .. Len(cfg.hosts) + 1
  BY <1>1 DEF Good, Typed
<1>3. \A g : To(q, g) => query'[q] = g
  BY DEF To, Inv
<1>4. ASSUME NEW kind, NEW value, Write(q, kind, value), Busy(h) PROVE Closer(query'[q], h)
  <2>1. query'[q].step = "done"
    BY <1>3, <1>4 DEF Write, Handler
  <2>2. h.step \in Steps
    BY <1>1 DEF Good, Typed
  <2> QED BY <1>4, <2>1, <2>2 DEF Busy, Closer, Stage, Steps
<1>5. CASE HandleStatic(q)
  <2>1. h.step = "static"
    BY <1>5 DEF HandleStatic
  <2>2. CASE \E kind, value : Write(q, kind, value)
    BY <1>4, <2>1, <2>2 DEF Busy
  <2>3. CASE \E next \in {"hosts", "route"} : To(q, [h EXCEPT !.step = next])
    <3>1. PICK next \in {"hosts", "route"} : To(q, [h EXCEPT !.step = next])
      BY <2>3
    <3>2. query'[q].step = next
      BY <1>2, <1>3, <3>1 DEF Fields
    <3> QED BY <2>1, <3>2 DEF Closer, Stage
  <2> QED BY <1>5, <2>2, <2>3 DEF HandleStatic
<1>6. CASE NextHost(q)
  <2> DEFINE on == [h EXCEPT !.at = @ + 1]
             off == [h EXCEPT !.step = "route"]
  <2>1. h.step = "hosts"
    BY <1>6 DEF NextHost
  <2>2. CASE \E kind, value : Write(q, kind, value)
    BY <1>4, <2>1, <2>2 DEF Busy
  <2>3. CASE h.at \in DOMAIN cfg.hosts /\ To(q, on)
    <3>1. query'[q].step = "hosts" /\ query'[q].at = h.at + 1
      BY <1>2, <1>3, <2>1, <2>3 DEF Fields
    <3>2. Todo(query'[q]) = Len(cfg.hosts) + 1 - (h.at + 1) /\ Todo(h) = Len(cfg.hosts) + 1 - h.at
      BY <2>1, <3>1 DEF Todo
    <3>3. h.at \in 1 .. Len(cfg.hosts)
      BY <1>1, <2>3
    <3> QED BY <1>1, <2>1, <3>1, <3>2, <3>3 DEF Closer
  <2>4. CASE To(q, off)
    <3>1. query'[q].step = "route"
      BY <1>2, <1>3, <2>4 DEF Fields
    <3> QED BY <2>1, <3>1 DEF Closer, Stage
  <2> QED BY <1>6, <2>2, <2>3, <2>4 DEF NextHost
<1>7. CASE Route(q)
  <2>1. h.step = "route"
    BY <1>7 DEF Route
  <2>2. CASE \E kind, value : Write(q, kind, value)
    BY <1>4, <2>1, <2>2 DEF Busy
  <2>3. CASE \E ups : To(q, [h EXCEPT !.step = "forward", !.left = ups])
    <3>1. query'[q].step = "forward"
      BY <1>2, <1>3, <2>3 DEF Fields
    <3> QED BY <2>1, <3>1 DEF Closer, Stage
  <2> QED BY <1>7, <2>2, <2>3 DEF Route
<1>8. CASE Forward(q)
  <2> DEFINE u == [h EXCEPT !.step = "failing", !.failed = @ \cup {Unwritten}]
             f == Failing(h)
  <2>1. h.step = "forward" /\ h.left \in Seq(STRING) /\ h.left # <<>>
    BY <1>1, <1>8 DEF Forward, Good, Typed, Routes
  <2>2. CASE \E kind, value : Write(q, kind, value)
    BY <1>4, <2>1, <2>2 DEF Busy
  <2>3. CASE To(q, u)
    <3>1. query'[q].step = "failing"
      BY <1>2, <1>3, <2>3 DEF Fields
    <3> QED BY <2>1, <3>1 DEF Closer, Stage
  <2>4. CASE To(q, f)
    <3>1. /\ query'[q].step = (IF Tail(h.left) = <<>> THEN "failing" ELSE "forward")
          /\ query'[q].left = Tail(h.left)
      BY <1>2, <1>3, <2>4 DEF Failing, Fields
    <3>2. CASE query'[q].step = "failing"
      BY <2>1, <3>2 DEF Closer, Stage
    <3>3. CASE query'[q].step = "forward"
      <4>1. Todo(query'[q]) = Len(Tail(h.left)) /\ Todo(h) = Len(h.left)
        BY <2>1, <3>1, <3>3 DEF Todo
      <4>2. Len(Tail(h.left)) \in Nat /\ Len(h.left) \in Nat /\ Len(Tail(h.left)) < Len(h.left)
        BY <2>1
      <4> QED BY <2>1, <3>3, <4>1, <4>2 DEF Closer
    <3> QED BY <3>1, <3>2, <3>3
  <2> QED BY <1>8, <2>2, <2>3, <2>4 DEF Forward
<1>9. CASE ServFail(q)
  <2>1. h.step = "failing"
    BY <1>9 DEF ServFail
  <2> QED BY <1>4, <1>9, <2>1 DEF ServFail, Busy
<1> QED BY <1>5, <1>6, <1>7, <1>8, <1>9 DEF Handle

(* Every step of a handler brings it closer to its answer, and no other    *)
(* step disturbs it, however many bindings and upstream servers there are: *)
(* what makes handle terminate once its steps and exchanges do.            *)
THEOREM ComesCloserAlways == Spec => ComesCloser
<1>1. Inv /\ [Next]_vars => [\A q \in Query :
         /\ Handle(q) => Closer(query'[q], query[q])
         /\ Busy(query[q]) => Handle(q) \/ query'[q] = query[q]]_vars
  <2> SUFFICES ASSUME Inv, Next, NEW q \in Query
               PROVE  /\ Handle(q) => Closer(query'[q], query[q])
                      /\ Busy(query[q]) => Handle(q) \/ query'[q] = query[q]
    OBVIOUS
  <2>1. Handle(q) => Closer(query'[q], query[q])
    BY HandleComesCloser
  <2>2. ASSUME NEW r \in Query \ {q}, NEW h, To(r, h) PROVE query'[q] = query[q]
    BY <2>2 DEF To, Inv
  <2>3. ASSUME NEW r \in Query, Handle(r) PROVE \E h : To(r, h)
    BY <2>3 DEF Handle, HandleStatic, NextHost, Route, Forward, ServFail, Write
  <2>4. ASSUME NEW r \in Query, NEW question, Ask(r, question), Busy(query[q])
        PROVE  query'[q] = query[q]
    <3>1. r # q
      BY <2>4 DEF Ask, Busy
    <3> QED BY <2>2, <2>4, <3>1 DEF Ask
  <2>5. Busy(query[q]) => Handle(q) \/ query'[q] = query[q]
    BY <2>2, <2>3, <2>4 DEF Next, Record
  <2> QED BY <2>1, <2>5
<1> QED BY <1>1, InvAlways, PTL DEF Spec, ComesCloser
=============================================================================
