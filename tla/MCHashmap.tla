------------------------------ MODULE MCHashmap ------------------------------
(* Hash maps for TLC: a first table of four slots, and keys that share a     *)
(* slot, wrap past the end, and part when the table doubles.                 *)
EXTENDS Hashmap

CONSTANTS k1, k2, k3

MCKeys == {k1, k2, k3}
MCHash == [k \in MCKeys |-> IF k = k3 THEN 4 ELSE 7]
=============================================================================
