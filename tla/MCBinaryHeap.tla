----------------------------- MODULE MCBinaryHeap -----------------------------
(* Binary heaps for TLC. *)
EXTENDS BinaryHeap
=============================================================================
