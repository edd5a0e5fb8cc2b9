-------------------------------- MODULE Dns --------------------------------
(***************************************************************************)
(* internal/dns, with what internal/config makes of its settings: a server *)
(* that answers for the static names and for the machines that are         *)
(* recorded as deployed, and asks an upstream server for everything else.  *)
(* Queries are handled side by side, while the deploy driver records       *)
(* machines; a handler looks at one static DHCP binding after the other,   *)
(* and takes the record's lock anew for each.                              *)
(*                                                                         *)
(* A name is a sequence of labels, without the final dot; an address is a  *)
(* value.  What upstream servers answer, and whether an answer can be      *)
(* written, is not in the repository.                                      *)
(***************************************************************************)
EXTENDS Naturals, Sequences, FiniteSets, Functions

CONSTANTS Query,      \* the queries under way at once
          Question,   \* what they ask: [type, name]
          IPv6,       \* the addresses that are no IPv4 addresses
          Files       \* the configuration files, as far as they matter here

(* A file: dns.static, dns.wildcards, dns.upstream, dns.register_deployed  *)
(* and dns.domain, and the bindings of dhcp.static with their hostnames.   *)
ASSUME DnsAssumption ==
  /\ \A x \in Question : x.name \in Seq(STRING)
  /\ \A f \in Files :
       /\ f \in [register : {"unset", "yes", "no"}, domain : Seq(STRING), upstream : Seq(STRING),
                 wildcards : Seq([suffix : Seq(STRING), upstream : Seq(STRING)]),
                 static : Seq([name : Seq(STRING), ip : STRING]),
                 hosts : Seq([mac : STRING, hostname : Seq(STRING), ip : STRING])]

VARIABLES cfg,        \* the configuration the server runs with
          wildcards,  \* its wildcards, longest suffix first
          deployed,   \* the MAC addresses recorded as deployed
          query,      \* query -> where its handler is
          sent        \* query -> the answers that were written

vars == <<cfg, wildcards, deployed, query, sent>>

-----------------------------------------------------------------------------
(* internal/config, and New. *)

(* Mutant: what is not said is not done. *)
ApplyNoDefaults(f) == f

ApplyDefaults(f) == IF f.register = "unset" THEN [f EXCEPT !.register = "yes"] ELSE f

Unparsable == "?"

(* To4 has nothing for an address of IPv6. *)
NoAddress == "<nil>"
To4(ip) == IF ip \in IPv6 THEN NoAddress ELSE ip

Valid(f) ==
  /\ \A i \in DOMAIN f.hosts : f.hosts[i].mac # Unparsable /\ f.hosts[i].ip # Unparsable
  /\ \A i \in DOMAIN f.static : f.static[i].name # <<>> /\ f.static[i].ip # Unparsable
  /\ \A i \in DOMAIN f.wildcards : f.wildcards[i].upstream # <<>>

(* The addresses of dhcp.static are converted, those of dns.static kept.   *)
Parsed(f) ==
  [f EXCEPT !.hosts = [i \in DOMAIN f.hosts |-> [f.hosts[i] EXCEPT !.ip = To4(f.hosts[i].ip)]]]

(* The elements K of a sequence, in any order. *)
Orders(s, K) ==
  LET n == Cardinality(K) IN {[i \in 1 .. n |-> s[p[i]]] : p \in Bijection(1 .. n, K)}

(* Mutant: the wildcards are kept in the order of the file. *)
AsListed(s, K) ==
  LET n == Cardinality(K)
  IN  {[i \in 1 .. n |-> s[p[i]]] :
         p \in {b \in Bijection(1 .. n, K) : \A i, j \in 1 .. n : i < j => b[i] < b[j]}}

(* Longest first, in any order among the equally long; only suffixes of    *)
(* one name compete, and of these the longer has more labels.              *)
LongestFirst(s, K) ==
  {t \in Orders(s, K) :
     \A i, j \in DOMAIN t : i < j => Len(t[i].suffix) >= Len(t[j].suffix)}

(* A suffix of dots only is not kept. *)
Kept(ws) == {i \in DOMAIN ws : ws[i].suffix # <<>>}

Wildcards(c) == LongestFirst(c.wildcards, Kept(c.wildcards))

(* A bare name gets the domain appended. *)
Fqdn(name) == IF Len(name) = 1 THEN name \o cfg.domain ELSE name

(* The name for the reverse of an address, but there is none of no address.*)
Arpa(ip) == <<ip, IF ip \in IPv6 THEN "ip6" ELSE "in-addr", "arpa">>

(* In a map that is filled in order, the last of a key counts. *)
LastOf(S) == CHOOSE i \in S : \A j \in S : j <= i
FirstOf(S) == CHOOSE i \in S : \A j \in S : i <= j

StaticA(name) == {i \in DOMAIN cfg.static : Fqdn(cfg.static[i].name) = name}
StaticPTR(name) == {i \in DOMAIN cfg.static : Arpa(cfg.static[i].ip) = name}

-----------------------------------------------------------------------------
(* The record, and the addresses that the allocator has for statically     *)
(* bound machines: of two bindings of one machine, the last counts.        *)

Lookup(mac) == cfg.hosts[LastOf({i \in DOMAIN cfg.hosts : cfg.hosts[i].mac = mac})].ip

Record(mac) ==
  /\ deployed' = deployed \cup {mac}
  /\ UNCHANGED <<cfg, wildcards, query, sent>>

-----------------------------------------------------------------------------
(* handle, one step at a time. *)

(* A handler: what was asked, and which machines were recorded by then     *)
(* (history); how far it is; the answer that it has tried to write.        *)
Handler(step, asked, known) ==
  [step |-> step, asked |-> asked, known |-> known, at |-> 1, left |-> <<>>, failed |-> {},
   kind |-> "none", value |-> <<>>]

NoQuestion == [type |-> "none", name |-> <<>>]
Idle == Handler("idle", NoQuestion, {})

To(q, h) == query' = [query EXCEPT ![q] = h]
Unsent == UNCHANGED <<cfg, wildcards, deployed, sent>>

(* The answer is written, or cannot be. *)
Write(q, kind, value) ==
  /\ sent' \in {sent, [sent EXCEPT ![q] = @ + 1]}
  /\ To(q, [Handler("done", query[q].asked, query[q].known) EXCEPT !.kind = kind, !.value = value])
  /\ UNCHANGED <<cfg, wildcards, deployed>>

Ask(q, question) ==
  /\ query[q].step \in {"idle", "done"}
  /\ To(q, Handler("static", question, deployed))
  /\ sent' = [sent EXCEPT ![q] = 0]
  /\ UNCHANGED <<cfg, wildcards, deployed>>

HandleStatic(q) ==
  /\ query[q].step = "static"
  /\ LET asked == query[q].asked
         A == IF asked.type = "A" THEN StaticA(asked.name) ELSE {}
         PTR == IF asked.type = "PTR" THEN StaticPTR(asked.name) ELSE {}
         next == IF asked.type \in {"A", "PTR"} /\ cfg.register = "yes" THEN "hosts" ELSE "route"
     IN  \/ asked = NoQuestion /\ Write(q, "refused", <<>>)
         \/ A # {} /\ Write(q, "local", To4(cfg.static[LastOf(A)].ip))
         \/ PTR # {} /\ Write(q, "local", Fqdn(cfg.static[LastOf(PTR)].name))
         \/ asked # NoQuestion /\ A = {} /\ PTR = {}
            /\ To(q, [query[q] EXCEPT !.step = next]) /\ Unsent

(* Mutant: the address of the binding, not that of the lease. *)
HostOfBinding(i, asked) ==
  LET st == cfg.hosts[i]
  IN  IF asked.type = "A" THEN IF Fqdn(st.hostname) = asked.name THEN {To4(st.ip)} ELSE {}
      ELSE IF Lookup(st.mac) # NoAddress /\ Arpa(Lookup(st.mac)) = asked.name
           THEN {Fqdn(st.hostname)} ELSE {}

(* The answer that the i-th binding has to a question, if any. *)
HostAnswer(i, asked) ==
  LET st == cfg.hosts[i]
  IN  IF asked.type = "A" THEN IF Fqdn(st.hostname) = asked.name THEN {To4(Lookup(st.mac))} ELSE {}
      ELSE IF Lookup(st.mac) # NoAddress /\ Arpa(Lookup(st.mac)) = asked.name
           THEN {Fqdn(st.hostname)} ELSE {}

(* deployedA and localPTR: the next binding. *)
NextHost(q) ==
  /\ query[q].step = "hosts"
  /\ LET h == query[q]
         found == IF /\ h.at \in DOMAIN cfg.hosts
                     /\ cfg.hosts[h.at].hostname # <<>>
                     /\ cfg.hosts[h.at].mac \in deployed
                  THEN HostAnswer(h.at, h.asked) ELSE {}
         next == IF h.at \in DOMAIN cfg.hosts THEN [h EXCEPT !.at = @ + 1]
                                             ELSE [h EXCEPT !.step = "route"]
     IN  \/ \E v \in found : Write(q, "local", v)
         \/ found = {} /\ To(q, next) /\ Unsent

EndsIn(name, suffix) ==
  /\ Len(suffix) <= Len(name)
  /\ SubSeq(name, Len(name) - Len(suffix) + 1, Len(name)) = suffix

Matching(name, ws) == {i \in DOMAIN ws : EndsIn(name, ws[i].suffix)}

(* The first wildcard that matches, or the default. *)
UpstreamsFor(name) ==
  LET S == Matching(name, wildcards)
  IN  IF S = {} THEN cfg.upstream ELSE wildcards[FirstOf(S)].upstream

Route(q) ==
  /\ query[q].step = "route"
  /\ LET ups == UpstreamsFor(query[q].asked.name)
     IN  \/ ups = <<>> /\ Write(q, "nxdomain", <<>>)
         \/ ups # <<>> /\ To(q, [query[q] EXCEPT !.step = "forward", !.left = ups]) /\ Unsent

(* The exchange with the first server that is left fails. *)
Failing(h) ==
  [h EXCEPT !.left = Tail(@), !.failed = @ \cup {Head(h.left)},
            !.step = IF Tail(h.left) = <<>> THEN "failing" ELSE "forward"]

Unwritten == "unwritten"

(* Mutants: the first error ends the loop; an answer does not; one that    *)
(* fails is asked again after the others.                                  *)
ForwardOnce(q) ==
  /\ query[q].step = "forward"
  /\ \/ Write(q, "upstream", Head(query[q].left)) /\ sent' # sent
     \/ To(q, [Failing(query[q]) EXCEPT !.step = "failing"]) /\ Unsent

ForwardOn(q) ==
  /\ query[q].step = "forward"
  /\ To(q, Failing(query[q]))
  /\ sent' \in {sent, [sent EXCEPT ![q] = @ + 1]}
  /\ UNCHANGED <<cfg, wildcards, deployed>>

ForwardAgain(q) ==
  /\ query[q].step = "forward"
  /\ \/ Write(q, "upstream", Head(query[q].left)) /\ sent' # sent
     \/ To(q, [query[q] EXCEPT !.left = Append(Tail(@), Head(@))]) /\ Unsent

(* forward: an exchange with the next upstream server.  What it answers is *)
(* written (a truncated answer is asked for once more by TCP, and kept if  *)
(* that fails); if that cannot be written, or all have failed, the failure *)
(* is answered.                                                            *)
Forward(q) ==
  /\ query[q].step = "forward"
  /\ \/ Write(q, "upstream", Head(query[q].left)) /\ sent' # sent
     \/ To(q, [query[q] EXCEPT !.step = "failing", !.failed = @ \cup {Unwritten}]) /\ Unsent
     \/ To(q, Failing(query[q])) /\ Unsent

ServFail(q) ==
  /\ query[q].step = "failing"
  /\ Write(q, "servfail", query[q].failed)

Handle(q) == HandleStatic(q) \/ NextHost(q) \/ Route(q) \/ Forward(q) \/ ServFail(q)

-----------------------------------------------------------------------------

Init ==
  /\ cfg \in {Parsed(ApplyDefaults(f)) : f \in {g \in Files : Valid(g)}}
  /\ wildcards \in Wildcards(cfg)
  /\ deployed = {}
  /\ query = [q \in Query |-> Idle]
  /\ sent = [q \in Query |-> 0]

MACs == {cfg.hosts[i].mac : i \in DOMAIN cfg.hosts}

Next ==
  \/ \E q \in Query : Handle(q) \/ \E question \in Question : Ask(q, question)
  \/ \E mac \in MACs : Record(mac)

Spec == Init /\ [][Next]_vars

(* Handlers run, and exchanges time out. *)
Fairness == \A q \in Query : WF_vars(Handle(q))

FairSpec == Spec /\ Fairness

-----------------------------------------------------------------------------
(* Properties. *)

Kinds == {"none", "refused", "local", "nxdomain", "upstream", "servfail"}

TypeOK ==
  /\ cfg.register \in {"yes", "no"}
  /\ deployed \subseteq MACs
  /\ \A q \in Query :
       /\ query[q].step \in {"idle", "static", "hosts", "route", "forward", "failing", "done"}
       /\ query[q].known \subseteq deployed
       /\ query[q].kind \in Kinds
       /\ query[q].at \in 1 .. Len(cfg.hosts) + 1
       /\ query[q].step = "forward" => query[q].left # <<>>
  /\ sent \in [Query -> Nat]

Is(q, kind, type) == query[q].kind = kind /\ query[q].asked.type = type

(* A query is answered at most once, and a failure to answer is not        *)
(* followed by a second answer to the client.                              *)
AnsweredOnce ==
  \A q \in Query : sent[q] <= IF query[q].step = "done" THEN 1 ELSE 0

(* Every query comes to an end, with as many upstream servers, bindings    *)
(* and errors as there are.                                                *)
ComesToAnswer == \A q \in Query : (query[q].step \notin {"idle", "done"}) ~> query[q].step = "done"

(* Where no name is given twice, whatever addresses are, the forward and   *)
(* the reverse answers of this server agree, over any two queries and      *)
(* whatever is recorded between them: a name that the reverse of an        *)
(* address leads to has that address, or, if it is one of IPv6, none.      *)
Distinct ==
  /\ \A i, j \in DOMAIN cfg.static : i # j =>
       /\ Fqdn(cfg.static[i].name) # Fqdn(cfg.static[j].name)
  /\ \A i, j \in DOMAIN cfg.hosts : (i # j /\ cfg.hosts[i].hostname # <<>>) =>
       Fqdn(cfg.hosts[i].hostname) # Fqdn(cfg.hosts[j].hostname)
  /\ \A i \in DOMAIN cfg.hosts : StaticA(Fqdn(cfg.hosts[i].hostname)) = {}
Addresses == {cfg.static[i].ip : i \in DOMAIN cfg.static} \cup {Lookup(mac) : mac \in MACs}
AnswersAgree ==
  Distinct => \A p, q \in Query :
    (Is(p, "local", "PTR") /\ Is(q, "local", "A") /\ query[p].value = query[q].asked.name)
      => \E ip \in Addresses : Arpa(ip) = query[p].asked.name /\ query[q].value = To4(ip)

(* A machine that was recorded when its name was asked is not looked for   *)
(* elsewhere: this holds unless the operator has turned it off, by default *)
(* too.                                                                    *)
TurnedOff == cfg.register = "no"
Names(i, asked) ==
  /\ cfg.hosts[i].hostname # <<>>
  /\ asked.type = "A" /\ Fqdn(cfg.hosts[i].hostname) = asked.name
Unknown(q, S) ==
  \A i \in S : Names(i, query[q].asked) => cfg.hosts[i].mac \notin query[q].known
DeployedResolve ==
  \A q \in Query :
    query[q].kind \in {"nxdomain", "upstream", "servfail"} =>
      TurnedOff \/ Unknown(q, DOMAIN cfg.hosts)

(* What is answered from elsewhere comes from a server of the longest      *)
(* suffix that the configuration has for the name, or of the default; the  *)
(* failure is answered only after all of them have failed, and that there  *)
(* is no such name only where nobody can be asked.                         *)
Elsewhere(name) ==
  LET S == Matching(name, cfg.wildcards)
      longest == {i \in S : \A j \in S : Len(cfg.wildcards[j].suffix) <= Len(cfg.wildcards[i].suffix)}
  IN  IF S \cap Kept(cfg.wildcards) = {} THEN {cfg.upstream}
      ELSE {cfg.wildcards[i].upstream : i \in longest}
RightServers ==
  \A q \in Query : LET h == query[q] IN
    /\ h.kind = "upstream" => \E ups \in Elsewhere(h.asked.name) : \E i \in DOMAIN ups : ups[i] = h.value
    /\ h.kind = "servfail" => Unwritten \in h.value
                              \/ \E ups \in Elsewhere(h.asked.name) : h.value = {ups[i] : i \in DOMAIN ups}
    /\ h.kind = "nxdomain" => <<>> \in Elsewhere(h.asked.name)

-----------------------------------------------------------------------------
(* The inductive invariant: the bindings that a handler has passed had no  *)
(* answer for it when it was asked, and once it looks elsewhere, none has; *)
(* the upstream servers of a name are those that have failed for it and    *)
(* those that are left; what is answered from here was found in the        *)
(* configuration.                                                          *)

Searched ==
  \A q \in Query : ~TurnedOff =>
    /\ query[q].step = "hosts" => Unknown(q, 1 .. query[q].at - 1)
    /\ query[q].step \in {"route", "forward", "failing"} => Unknown(q, DOMAIN cfg.hosts)

Routed ==
  \A q \in Query :
    LET h == query[q]
        ups == Range(UpstreamsFor(h.asked.name))
    IN  /\ h.step = "forward" => h.failed \cup Range(h.left) = ups
        /\ h.step = "failing" => Unwritten \in h.failed \/ h.failed = ups
        /\ h.kind = "upstream" => h.value \in ups
        /\ h.kind = "servfail" => Unwritten \in h.value \/ h.value = ups
        /\ h.kind = "nxdomain" => UpstreamsFor(h.asked.name) = <<>>

Given(name, ip) ==
  \/ \E i \in DOMAIN cfg.static : Fqdn(cfg.static[i].name) = name /\ cfg.static[i].ip = ip
  \/ \E i \in DOMAIN cfg.hosts :
       /\ cfg.hosts[i].hostname # <<>> /\ Fqdn(cfg.hosts[i].hostname) = name
       /\ Lookup(cfg.hosts[i].mac) = ip
Sourced ==
  \A q \in Query : LET h == query[q] IN
    /\ Is(q, "local", "A") => \E ip \in Addresses : Given(h.asked.name, ip) /\ h.value = To4(ip)
    /\ Is(q, "local", "PTR") =>
         \E ip \in Addresses : Given(h.value, ip) /\ Arpa(ip) = h.asked.name

QInv == TypeOK /\ AnsweredOnce /\ DeployedResolve /\ Searched /\ Routed /\ Sourced
=============================================================================
