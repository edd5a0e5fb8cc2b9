------------------------------- MODULE MCDhcp -------------------------------
(* Instance of Dhcp: a machine that boots from the network, and a host of  *)
(* the same pool; or both of them statically bound, to one address.        *)
EXTENDS Dhcp

CONSTANTS a, b

Bound(S) == [m \in Client |-> IF m \in S THEN 9 ELSE NoAddr]
SomeBindings == {Bound({}), Bound({a, b})}
OneBoots == [m \in Client |-> IF m = a THEN <<"EFI_BC">> ELSE <<>>]
ByVendorClass == [m \in Client |-> m # a]
=============================================================================
