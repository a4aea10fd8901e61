------------------------------ MODULE SparseSet ------------------------------
(***************************************************************************)
(* vf_sparseset.h: a map from 32-bit ids to data.  dense and data hold the *)
(* elements without gaps; sparse[id] is the place of id in them, or a      *)
(* tombstone.  One action per call that changes the set or its iterator.   *)
(* Calls that return early (an id that is there already, or not there, a   *)
(* first allocation that fails) change nothing and are no steps.           *)
(***************************************************************************)
EXTENDS Integers, FiniteSets

CONSTANTS Ids,          \* ids a client uses
          Data,         \* what is stored
          NoData,       \* content of memory nobody wrote, and NULL
          Requests,     \* capacities a client asks for
          VF_SPARSESET_INIT_CAPACITY,
          UINT32_MAX,   \* greatest value of uint32_t
          MaxPassed     \* bound: removals behind one iterator

ASSUME SetSizes == /\ UINT32_MAX \in Nat
                   /\ Ids \subseteq 0..UINT32_MAX
                   /\ Requests \subseteq 0..UINT32_MAX
                   /\ VF_SPARSESET_INIT_CAPACITY \in 2..UINT32_MAX
                   /\ NoData \notin Data
                   /\ MaxPassed \in Nat

VF_SPARSESET_TOMBSTONE == UINT32_MAX

VARIABLES sparse, sparse_capacity, dense, data, size, capacity, \* vf_sparse_set_t
          alive,      \* between create and destroy
          overrun,    \* memory past an array was accessed: nothing more is claimed
          index,      \* of the client's iterator
          visited,    \* history: ids it returned that have not been removed since
          passed      \* history: removals of ids it had returned or gone past

arrays   == <<sparse, sparse_capacity, dense, data, size, capacity>>
iterator == <<index, visited, passed>>
vars     == <<arrays, alive, overrun, iterator>>

\* uint32_t arithmetic
U32Wide(n) == n                                 \* mutant
U32(n) == n % (UINT32_MAX + 1)

\* vf_sparse_set_create; the client's iterator starts at the empty set.
Init == /\ \E n \in Requests :
              capacity = IF n <= 1 THEN VF_SPARSESET_INIT_CAPACITY ELSE n
        /\ size = 0
        /\ sparse_capacity = capacity
        /\ sparse = [k \in 0..(capacity - 1) |-> VF_SPARSESET_TOMBSTONE]
        /\ dense = [k \in 0..(capacity - 1) |-> NoData]
        /\ data = [k \in 0..(capacity - 1) |-> NoData]
        /\ alive = TRUE /\ overrun = FALSE
        /\ index = 0 /\ visited = {} /\ passed = 0

Usable == alive /\ ~overrun

vf_sparse_set_has(id) == /\ id < sparse_capacity
                         /\ sparse[id] # VF_SPARSESET_TOMBSTONE

\* What the pointer returned by get and get_mutable refers to.
vf_sparse_set_get(id) ==
    IF vf_sparse_set_has(id) THEN data[sparse[id]] ELSE NoData
-----------------------------------------------------------------------------
(* vf_sparse_set_insert *)

GrownCapacity(id) == IF id >= sparse_capacity THEN U32(id * 2) ELSE sparse_capacity

GrownSparseKeepsGarbage(id) ==                  \* mutant
    [k \in 0..(GrownCapacity(id) - 1) |->
        IF k < sparse_capacity THEN sparse[k] ELSE 0]

GrownSparse(id) ==
    [k \in 0..(GrownCapacity(id) - 1) |->
        IF k < sparse_capacity THEN sparse[k] ELSE VF_SPARSESET_TOMBSTONE]

\* id * 2 wraps: the copy and sparse[id] leave the new array.
InsertOverruns(id) == /\ Usable
                      /\ GrownCapacity(id) <= id
                      /\ overrun' = TRUE
                      /\ UNCHANGED <<arrays, alive, iterator>>

\* The element is new and sparse has, or gets, room for its id.
InsertAccepts(id) == /\ Usable
                     /\ GrownCapacity(id) > id
                     /\ ~vf_sparse_set_has(id)
                     /\ sparse_capacity' = GrownCapacity(id)

\* dense and data are full and cannot be replaced: the grown sparse stays.
InsertOutOfMemory(id) == /\ InsertAccepts(id)
                         /\ size >= capacity
                         /\ sparse' = GrownSparse(id)
                         /\ UNCHANGED <<dense, data, size, capacity, alive,
                                        overrun, iterator>>

\* An array of c slots with the first slots of a, and x in slot i.
Grown(a, c, i, x) == [k \in 0..(c - 1) |-> IF k = i THEN x
                                           ELSE IF k < capacity THEN a[k] ELSE NoData]

InsertStores(id, x) ==
    /\ InsertAccepts(id)
    /\ capacity' = IF size >= capacity THEN capacity * 2 ELSE capacity
    /\ sparse' = [GrownSparse(id) EXCEPT ![id] = size]
    /\ dense' = Grown(dense, capacity', size, id)
    /\ data' = Grown(data, capacity', size, x)
    /\ size' = size + 1
    /\ UNCHANGED <<alive, overrun, iterator>>
-----------------------------------------------------------------------------
\* vf_sparse_set_set, and a store through get_mutable's pointer
SetData(id, x) == /\ Usable
                  /\ vf_sparse_set_has(id)
                  /\ data' = [data EXCEPT ![sparse[id]] = x]
                  /\ UNCHANGED <<sparse, sparse_capacity, dense, size, capacity,
                                 alive, overrun, iterator>>

\* What becomes of sparse when the element at place i, the id's own, goes and
\* the last one takes its place.
SwappedAlways(id, last_id, i) ==                \* mutant
    [sparse EXCEPT ![id] = VF_SPARSESET_TOMBSTONE, ![last_id] = i]

Swapped(id, last_id, i) ==
    IF i # size - 1
    THEN [sparse EXCEPT ![last_id] = i, ![id] = VF_SPARSESET_TOMBSTONE]
    ELSE [sparse EXCEPT ![id] = VF_SPARSESET_TOMBSTONE]

\* The last element of an array over the one in slot i.
Moved(a, i) == [a EXCEPT ![i] = a[size - 1]]

vf_sparse_set_remove(id) ==
    /\ Usable
    /\ vf_sparse_set_has(id)
    /\ LET i == sparse[id]
       IN  /\ sparse' = Swapped(id, dense[size - 1], i)
           /\ dense' = Moved(dense, i)
           /\ data' = Moved(data, i)
           /\ i < index => passed < MaxPassed
           /\ passed' = IF i < index THEN passed + 1 ELSE passed
    /\ size' = size - 1
    /\ visited' = visited \ {id}
    /\ UNCHANGED <<sparse_capacity, capacity, alive, overrun, index>>

vf_sparse_set_destroy == /\ Usable
                         /\ alive' = FALSE
                         /\ UNCHANGED <<arrays, overrun, iterator>>

vf_sparse_set_iterator_second ==                \* mutant
    /\ Usable
    /\ index' = 1 /\ visited' = {} /\ passed' = 0
    /\ UNCHANGED <<arrays, alive, overrun>>

vf_sparse_set_iterator == /\ Usable
                          /\ index' = 0 /\ visited' = {} /\ passed' = 0
                          /\ UNCHANGED <<arrays, alive, overrun>>

\* At the end next returns 0 and changes nothing.
vf_sparse_set_iterator_next == /\ Usable
                               /\ index < size
                               /\ visited' = visited \cup {dense[index]}
                               /\ index' = index + 1
                               /\ UNCHANGED <<arrays, alive, overrun, passed>>

Insert(id) == \/ InsertOverruns(id)
              \/ InsertOutOfMemory(id)
              \/ \E x \in Data : InsertStores(id, x)

Next == \/ \E id \in Ids : \/ Insert(id)
                           \/ \E x \in Data : SetData(id, x)
                           \/ vf_sparse_set_remove(id)
        \/ vf_sparse_set_iterator
        \/ vf_sparse_set_iterator_next
        \/ vf_sparse_set_destroy

Spec == Init /\ [][Next]_vars
-----------------------------------------------------------------------------
(* Properties *)

\* Every variable has its type; the arrays have the lengths the fields say.
TypeOK == /\ sparse_capacity \in 2..UINT32_MAX /\ capacity \in Nat \ {0}
          /\ size \in 0..capacity
          /\ sparse \in [0..(sparse_capacity - 1) -> 0..UINT32_MAX]
          /\ dense \in [0..(capacity - 1) -> Ids \cup {NoData}]
          /\ data \in [0..(capacity - 1) -> Data \cup {NoData}]
          /\ alive \in BOOLEAN /\ overrun \in BOOLEAN
          /\ index \in Nat /\ visited \subseteq Ids /\ passed \in 0..MaxPassed

Members == {id \in 0..(sparse_capacity - 1) : sparse[id] # VF_SPARSESET_TOMBSTONE}

\* sparse and dense are inverse to each other, across growth of either and
\* the move of the last element at a removal: no id leads to another's data,
\* and no element is left that no id leads to.
SparseDenseAgree ==
    /\ \A id \in Members : sparse[id] < size /\ dense[sparse[id]] = id
    /\ \A k \in 0..(size - 1) : dense[k] \in Members /\ sparse[dense[k]] = k

\* An iterator never returns an id twice, unless it was removed and inserted
\* again; and it passes over at most as many elements as were removed from
\* behind it: removing what it has not reached yet, inserting, and growing
\* while iterating make it miss nothing.
IteratorMissesOnlyByRemoval ==
    /\ \A k \in index..(size - 1) : dense[k] \notin visited
    /\ Cardinality({k \in 0..(size - 1) : k < index /\ dense[k] \notin visited})
          <= passed

Dict == INSTANCE Dictionary WITH
            Keys <- Ids, Vals <- Data,
            map <- [id \in Members |-> vf_sparse_set_get(id)], closed <- ~alive

\* The set is a map from ids to data: each call changes one id at most, also
\* when it moves another's data or fails half way.
ImplementsDictionary == Dict!Spec
=============================================================================
