------------------------------ MODULE MCRWLock ------------------------------
(* Two readers and two writers; threads of a kind are interchangeable. *)
EXTENDS RWLock, TLC

Symmetry == Permutations(Readers) \cup Permutations(Writers)
=============================================================================
