---------------------------- MODULE MCSequences ----------------------------
(***************************************************************************)
(* The three headers that keep elements in one block of memory, for TLC: a *)
(* behaviour is about one of them, and the other two stay as they are.     *)
(* size_t is shortened to four bits.                                       *)
(***************************************************************************)
EXTENDS Queue, DArray, Sort

CONSTANTS a, b
VARIABLE header

MCOthers == {[capacity |-> 0, items |-> <<>>], [capacity |-> 2, items |-> <<>>],
             [capacity |-> 1, items |-> <<a>>], [capacity |-> 2, items |-> <<a, b>>]}

MCInit == /\ header \in {"vf_queue.h", "vf_darray.h", "sort.h"}
          /\ Init /\ (header # "vf_queue.h" => capacity = 0)
          /\ DaInit /\ (header # "vf_darray.h" => da.capacity = 0)
          /\ SortInit /\ (header # "sort.h" => sort_size = 0)

MCNext == /\ \/ header = "vf_queue.h" /\ Next /\ UNCHANGED <<da_vars, sort_vars>>
             \/ header = "vf_darray.h" /\ DaNext /\ UNCHANGED <<vars, sort_vars>>
             \/ header = "sort.h" /\ SortNext /\ UNCHANGED <<vars, da_vars>>
          /\ UNCHANGED header

MCSpec == MCInit /\ [][MCNext]_<<header, vars, da_vars, sort_vars>>
=============================================================================
