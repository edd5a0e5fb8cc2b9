------------------------------- MODULE MCDns -------------------------------
(* Instance of Dns: a configuration with a machine bound twice and nested  *)
(* wildcards listed in the wrong order, one where names clash, suffixes    *)
(* repeat and a machine is bound to an IPv6 address, one that registers    *)
(* nothing and has no upstream, and two that are refused; b1 and b2 are    *)
(* addresses of IPv6.                                                      *)
EXTENDS Dns

CONSTANTS q1, q2

n1 == <<"n1", "lab">>
gw == <<"gw", "lab">>
nas == <<"nas", "lab">>

Usual ==
  [register |-> "unset", domain |-> <<"lab">>, upstream |-> <<"u1", "u2">>,
   wildcards |-> <<[suffix |-> <<"corp">>, upstream |-> <<"w1">>],
                   [suffix |-> <<"eu", "corp">>, upstream |-> <<"w2", "w1">>]>>,
   static |-> <<[name |-> <<"gw">>, ip |-> "a1"], [name |-> <<"nas">>, ip |-> "b1"]>>,
   hosts |-> <<[mac |-> "m1", hostname |-> <<"n1">>, ip |-> "a2"],
               [mac |-> "m2", hostname |-> <<>>, ip |-> "a3"],
               [mac |-> "m1", hostname |-> <<"n2">>, ip |-> "a4"]>>]

Clashing ==
  [Usual EXCEPT
     !.register = "yes", !.upstream = <<"u1">>,
     !.wildcards = <<[suffix |-> <<>>, upstream |-> <<"w1">>],
                     [suffix |-> <<"corp">>, upstream |-> <<"w1">>],
                     [suffix |-> <<"corp">>, upstream |-> <<"w2">>]>>,
     !.static = <<[name |-> <<"gw">>, ip |-> "a1"], [name |-> gw, ip |-> "a2"],
                  [name |-> nas, ip |-> "b1"]>>,
     !.hosts = <<[mac |-> "m1", hostname |-> <<"n1">>, ip |-> "a2"],
                 [mac |-> "m2", hostname |-> <<"n1">>, ip |-> "b2"]>>]

Closed == [Usual EXCEPT !.register = "no", !.upstream = <<>>, !.wildcards = <<>>]

AllFiles ==
  {Usual, Clashing, Closed,
   [Usual EXCEPT !.hosts[1].ip = Unparsable], [Usual EXCEPT !.wildcards[1].upstream = <<>>]}

AllQuestions ==
  [type : {"A"}, name : {n1, gw, nas, <<"eu", "corp">>}]
  \cup [type : {"PTR"}, name : {Arpa("a2"), Arpa("a4"), Arpa("b1")}]
  \cup {[type |-> "AAAA", name |-> n1], NoQuestion}
=============================================================================
