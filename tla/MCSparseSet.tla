----------------------------- MODULE MCSparseSet -----------------------------
(* Sparse sets for TLC; uint32_t is shortened to four bits. *)
EXTENDS SparseSet
=============================================================================
