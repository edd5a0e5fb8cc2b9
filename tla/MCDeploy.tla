------------------------------ MODULE MCDeploy ------------------------------
(* Small instances of Deploy for TLC. *)
EXTENDS Deploy, TLC

CONSTANTS k1, k2,     \* machines
          x, y, z,    \* NICs: two of k1, one of k2
          u, v        \* callback addresses

TwoMachines == k1 :> {x, y} @@ k2 :> {z}
OneMachine == k1 :> {x, y}

(* Every lookup lists all NICs of the machine... *)
Whole == [k \in Machine |-> {Nics[k]}]
(* ... or those whose link is up. *)
Partial == [k \in Machine |-> SUBSET Nics[k] \ {{}}]

(* No definition tells one address from another. *)
Alike == Permutations({u, v})
=============================================================================
