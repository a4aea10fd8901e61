-------------------------------- MODULE Sort --------------------------------
(***************************************************************************)
(* sort.h: quicksort with the last element of a range as its pivot.  An    *)
(* element is named by the position it had at the start, and its key is    *)
(* what the client's cmp compares.  The calls still to be made, by this    *)
(* activation and its callers, are a stack.                                *)
(***************************************************************************)
EXTENDS Integers, Sequences

CONSTANTS SortSizes,   \* lengths of the arrays to sort
          SortKeys     \* what cmp compares

ASSUME SortAssumption == SortSizes \subseteq Nat /\ SortKeys \subseteq Int

VARIABLES sort_size,     \* number of elements
          sort_arr,      \* position -> element
          sort_key,      \* element -> key
          sort_calls,    \* calls of quicksort to be made, the next one first
          sort_pc,       \* "call", or "scan" inside quicksort_partition
          sort_i, sort_j \* its local variables i and j

sort_vars == <<sort_size, sort_arr, sort_key, sort_calls, sort_pc, sort_i, sort_j>>

Positions == 0..(sort_size - 1)

\* The client sorts the whole array; depth counts the activations on the stack.
SortInit == /\ sort_size \in SortSizes
            /\ sort_arr = [k \in Positions |-> k]
            /\ sort_key \in [Positions -> SortKeys]
            /\ sort_calls = <<[low |-> 0, high |-> sort_size - 1, depth |-> 1]>>
            /\ sort_pc = "call" /\ sort_i = 0 /\ sort_j = 0

Low   == Head(sort_calls).low
High  == Head(sort_calls).high
Depth == Head(sort_calls).depth

\* cmp of the elements at two positions is negative.
Less(a, b) == sort_key[sort_arr[a]] < sort_key[sort_arr[b]]

mem_swap(a, b) == sort_arr' = [sort_arr EXCEPT ![a] = sort_arr[b], ![b] = sort_arr[a]]

\* A range of one element, or of none, is sorted.
SortReturns == /\ sort_calls # <<>> /\ sort_pc = "call"
               /\ Low >= High
               /\ sort_calls' = Tail(sort_calls)
               /\ UNCHANGED <<sort_size, sort_arr, sort_key, sort_pc, sort_i, sort_j>>

SortPartitions == /\ sort_calls # <<>> /\ sort_pc = "call"
                  /\ Low < High
                  /\ sort_pc' = "scan"
                  /\ sort_i' = Low - 1 /\ sort_j' = Low
                  /\ UNCHANGED <<sort_size, sort_arr, sort_key, sort_calls>>

\* One round of the loop: a smaller element joins those before position i.
SortScans ==
    /\ sort_pc = "scan" /\ sort_j <= High - 1
    /\ \/ /\ Less(sort_j, High)
          /\ sort_i' = sort_i + 1
          /\ mem_swap(sort_i + 1, sort_j)
       \/ /\ ~Less(sort_j, High)
          /\ UNCHANGED <<sort_i, sort_arr>>
    /\ sort_j' = sort_j + 1
    /\ UNCHANGED <<sort_size, sort_key, sort_calls, sort_pc>>

\* The two calls for the ranges beside the pivot, now at position pi.
HalvesSkipOne(pi) ==                            \* mutant
    <<[low |-> Low, high |-> pi - 1, depth |-> Depth + 1],
      [low |-> pi + 2, high |-> High, depth |-> Depth + 1]>>
HalvesKeepPivot(pi) ==                          \* mutant
    <<[low |-> Low, high |-> pi, depth |-> Depth + 1],
      [low |-> pi + 1, high |-> High, depth |-> Depth + 1]>>
Halves(pi) == <<[low |-> Low, high |-> pi - 1, depth |-> Depth + 1],
                [low |-> pi + 1, high |-> High, depth |-> Depth + 1]>>

SortPlacesPivot == /\ sort_pc = "scan" /\ sort_j > High - 1
                   /\ mem_swap(sort_i + 1, High)
                   /\ sort_calls' = Halves(sort_i + 1) \o Tail(sort_calls)
                   /\ sort_pc' = "call"
                   /\ UNCHANGED <<sort_size, sort_key, sort_i, sort_j>>

SortNext == SortReturns \/ SortPartitions \/ SortScans \/ SortPlacesPivot

SortSpec == SortInit /\ [][SortNext]_sort_vars
-----------------------------------------------------------------------------
(* Properties *)

\* Every variable has its type; i and j stay in the range that is partitioned.
SortTypeOK ==
    /\ sort_size \in SortSizes
    /\ sort_arr \in [Positions -> Positions] /\ sort_key \in [Positions -> SortKeys]
    /\ \A c \in 1..Len(sort_calls) :
          sort_calls[c] \in [low : 0..sort_size, high : -1..(sort_size - 1), depth : Nat]
    /\ sort_pc \in {"call", "scan"}
    /\ sort_pc = "scan" => /\ sort_calls # <<>>
                           /\ sort_j \in Low..High /\ sort_i \in (Low - 1)..(sort_j - 1)

InCall(c, a) == sort_calls[c].low <= a /\ a <= sort_calls[c].high

\* Positions that no pending call has in common hold elements in order, however
\* many keys are equal, so that the array is sorted when the last call returns;
\* no element is lost or doubled.
SortedOutsideCalls ==
    /\ SortTypeOK
    /\ \A a, b \in Positions : a # b => sort_arr[a] # sort_arr[b]
    /\ \A a, b \in Positions :
          a < b /\ (\A c \in 1..Len(sort_calls) : ~(InCall(c, a) /\ InCall(c, b)))
              => ~Less(b, a)

\* Sorted input makes the recursion as deep as the array is long, and no deeper:
\* every call has given up at least one element for each of its callers.
SortDepthBounded ==
    \A c \in 1..Len(sort_calls) :
        /\ sort_calls[c].depth <= sort_size + 1
        /\ sort_calls[c].depth + (sort_calls[c].high - sort_calls[c].low) <= sort_size
=============================================================================
