---------------------------- MODULE MCMemoryPool ----------------------------
(* Memory pools for TLC: first capacities of two and three, growth to four. *)
EXTENDS MemoryPool
=============================================================================
