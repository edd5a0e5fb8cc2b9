------------------------------ MODULE MCLease ------------------------------
(* Small instances of Lease for TLC. *)
EXTENDS Lease, TLC

CONSTANTS a, b, s    \* two pool clients, and one with a static binding

Binding(bound, ip) == [m \in MAC |-> IF m \in bound THEN ip ELSE NoAddr]

(* The operator binds s to the address that a pool client would get first, *)
(* takes the binding away, moves the pool, or leaves no pool at all.       *)
Bound == [static |-> Binding({s}, 0), hasPool |-> TRUE, poolStart |-> 0, poolEnd |-> 1]
Unbound == [static |-> Binding({}, 0), hasPool |-> TRUE, poolStart |-> 0, poolEnd |-> 1]
Moved == [static |-> Binding({s}, 0), hasPool |-> TRUE, poolStart |-> 1, poolEnd |-> 2]
NoPool == [static |-> Binding({s}, 0), hasPool |-> FALSE, poolStart |-> 0, poolEnd |-> 0]

EditedConfigs == {Bound, Unbound, Moved, NoPool}

(* The two pool clients are interchangeable: no configuration names them.  *)
Clients == Permutations({a, b})
=============================================================================
