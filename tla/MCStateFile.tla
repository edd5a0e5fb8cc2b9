---------------------------- MODULE MCStateFile ----------------------------
(* Small instances of StateFile for TLC. *)
EXTENDS StateFile, TLC

CONSTANTS x, y, i1, i2, i3, i4

Macs == Permutations({x, y})
Inodes == Permutations({i1, i2, i3, i4})
Symmetric == Macs \cup Inodes
=============================================================================
