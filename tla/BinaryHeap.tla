------------------------------ MODULE BinaryHeap ------------------------------
(***************************************************************************)
(* vf_binaryheap.h: a bounded binary heap of items with priorities.  node  *)
(* holds the entries of data and priorities below size; what lies above is *)
(* never read.  One action per call and outcome.  The sifts allocate a     *)
(* buffer and return silently when they get none.  Calls that return early *)
(* (full, empty, no such item) are no steps.                               *)
(***************************************************************************)
EXTENDS Integers, FiniteSets, FiniteSetsExt

CONSTANTS Items, Priorities, Capacities

ASSUME HeapAssumption == Priorities \subseteq Int /\ Capacities \subseteq Nat

VARIABLES node,         \* 0..size-1 -> [item, priority]
          size, capacity, is_min_heap,
          alive,        \* between create and destroy
          unsifted      \* history: a sift found no memory, with more than one
                        \* element in the heap ever since

fields == <<node, size, capacity, is_min_heap>>
vars   == <<fields, alive, unsifted>>

\* vf_bh_create
Init == /\ capacity \in Capacities /\ is_min_heap \in BOOLEAN
        /\ size = 0 /\ node = [k \in {} |-> k]
        /\ alive = TRUE /\ unsifted = FALSE

_parent(i) == (i - 1) \div 2
_left_child(i) == 2 * i + 1

\* b goes above a
_compare(a, b) == IF is_min_heap THEN a > b ELSE a < b

-----------------------------------------------------------------------------
(* Sifting.  h is the heap after the call stored e in slot i. *)

\* The slots on the way from i to the root
Ancestors(i) == LET way[k \in 0..i] == IF k = 0 THEN {0} ELSE {k} \cup way[_parent(k)]
                IN  way[i]

\* The slot where the entry at i comes to rest: the first on the way whose
\* parent need not go below it.
UpTo(h, i) == Max({k \in Ancestors(i) :
                 k = 0 \/ ~_compare(h[_parent(k)].priority, h[i].priority)})

_sift_up(h, i) ==
    LET rest == UpTo(h, i)
    IN  [k \in DOMAIN h |-> IF k = rest THEN h[i]
                            ELSE IF k \in Ancestors(i) /\ k > rest THEN h[_parent(k)]
                            ELSE h[k]]

LeftChild(h, n, i) == _left_child(i)            \* mutant

\* The child that would move up to slot i, in a heap of n entries
UpperChild(h, n, i) ==
    LET left == _left_child(i)
    IN  IF left + 1 < n /\ _compare(h[left].priority, h[left + 1].priority)
        THEN left + 1 ELSE left

\* The slots on the way from i down along upper children
Descent(h, n, i) ==
    LET way[k \in i..(n - 1)] ==
            IF k < n \div 2 THEN {k} \cup way[UpperChild(h, n, k)] ELSE {k}
    IN  way[i]

DownTo(h, n, i) == Min({k \in Descent(h, n, i) :
                      k >= n \div 2
                      \/ ~_compare(h[i].priority, h[UpperChild(h, n, k)].priority)})

_sift_down(h, n, i) ==
    LET rest == DownTo(h, n, i)
    IN  [k \in DOMAIN h |-> IF k = rest THEN h[i]
                            ELSE IF k \in Descent(h, n, i) /\ k < rest
                                 THEN h[UpperChild(h, n, k)]
                            ELSE h[k]]
-----------------------------------------------------------------------------
(* Calls *)

PushUnlimited(e) ==                             \* mutant
    /\ alive
    /\ size <= capacity
    /\ node' = _sift_up([k \in 0..size |-> IF k = size THEN e ELSE node[k]], size)
    /\ size' = size + 1
    /\ UNCHANGED <<capacity, is_min_heap, alive, unsifted>>

\* vf_bh_push: _jump_and_insert moves the same entries as _sift_up would, with
\* the new one at the end, and needs no buffer.
vf_bh_push(e) ==
    /\ alive
    /\ size # capacity
    /\ node' = _sift_up([k \in 0..size |-> IF k = size THEN e ELSE node[k]], size)
    /\ size' = size + 1
    /\ UNCHANGED <<capacity, is_min_heap, alive, unsifted>>

\* Whether the order may be lost from now on
Unsifted(failed, n) == n > 1 /\ (unsifted \/ failed)

PopKeepsFirst(failed) ==                        \* mutant
    /\ alive
    /\ size > 0
    /\ size' = size - 1
    /\ node' = IF size' = 0 THEN [k \in {} |-> k]
               ELSE _sift_down([k \in 0..(size' - 1) |-> node[k]], size', 0)
    /\ unsifted' = Unsifted(failed, size')
    /\ UNCHANGED <<capacity, is_min_heap, alive>>

\* The last entry replaces the first and is sifted down.
vf_bh_pop(failed) ==
    /\ alive
    /\ size > 0
    /\ size' = size - 1
    /\ LET h == [k \in 0..(size' - 1) |-> IF k = 0 THEN node[size - 1] ELSE node[k]]
       IN  node' = IF size' = 0 \/ failed THEN h ELSE _sift_down(h, size', 0)
    /\ unsifted' = Unsifted(failed, size')
    /\ UNCHANGED <<capacity, is_min_heap, alive>>

\* The first slot with the item
Found(x) == Min({k \in 0..(size - 1) : node[k].item = x})

vf_bh_update_priority(x, new_priority, failed) ==
    /\ alive
    /\ \E k \in 0..(size - 1) : node[k].item = x
    /\ LET i == Found(x)
           h == [node EXCEPT ![i].priority = new_priority]
       IN  node' = IF failed THEN h
                   ELSE IF _compare(node[i].priority, new_priority)
                        THEN _sift_up(h, i)
                        ELSE _sift_down(h, size, i)
    /\ unsifted' = Unsifted(failed, size)
    /\ UNCHANGED <<size, capacity, is_min_heap, alive>>

vf_bh_clear == /\ alive
               /\ size' = 0 /\ node' = [k \in {} |-> k]
               /\ unsifted' = FALSE
               /\ UNCHANGED <<capacity, is_min_heap, alive>>

vf_bh_destroy == /\ alive
                 /\ alive' = FALSE
                 /\ UNCHANGED <<fields, unsifted>>

Next == \/ \E e \in [item : Items, priority : Priorities] : vf_bh_push(e)
        \/ \E failed \in BOOLEAN :
              \/ vf_bh_pop(failed)
              \/ \E x \in Items, p \in Priorities : vf_bh_update_priority(x, p, failed)
        \/ vf_bh_clear
        \/ vf_bh_destroy

Spec == Init /\ [][Next]_vars
-----------------------------------------------------------------------------
(* Properties *)

\* Every variable has its type; the heap never outgrows its arrays.
TypeOK == /\ capacity \in Capacities /\ size \in 0..capacity
          /\ node \in [0..(size - 1) -> [item : Items, priority : Priorities]]
          /\ is_min_heap \in BOOLEAN /\ alive \in BOOLEAN /\ unsifted \in BOOLEAN

\* No entry belongs above its parent, unless a sift has found no memory.
HeapOrder == unsifted \/ \A k \in 1..(size - 1) :
                ~_compare(node[_parent(k)].priority, node[k].priority)

\* The elements of the heap, each as often as it occurs.
Contents == LET elements == {node[k] : k \in 0..(size - 1)}
            IN  [e \in elements |-> Cardinality({k \in 0..(size - 1) : node[k] = e})]

Abstract == INSTANCE PriorityQueue WITH
    limit <- capacity, least_first <- is_min_heap, held <- Contents,
    ordered <- ~unsifted, closed <- ~alive

\* The heap is a priority queue: pop takes an element no other goes before,
\* and whatever is pushed, changed or sifted half way, no element is lost or
\* doubled.  A failed allocation costs the order, until one element is left.
ImplementsPriorityQueue == Abstract!Spec
=============================================================================
