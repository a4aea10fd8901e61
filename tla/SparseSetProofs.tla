--------------------------- MODULE SparseSetProofs ---------------------------
(***************************************************************************)
(* Theorems about SparseSet for every set of ids and every width of the    *)
(* indices.                                                                *)
(***************************************************************************)
EXTENDS SparseSet, TLAPS, FiniteSetTheorems

-----------------------------------------------------------------------------
(* The inductive invariant of the arrays *)

\* The slots in use were written, and the iterator has returned members only.
Filled == /\ \A k \in 0..(size - 1) : dense[k] \in Ids /\ data[k] \in Data
          /\ visited \subseteq Members

Inv == TypeOK /\ SparseDenseAgree /\ Filled

\* A sparse array that grows beyond the id did not wrap: it is longer than
\* before and its length fits uint32_t.
LEMMA GrownFits ==
    ASSUME sparse_capacity \in 2..UINT32_MAX, NEW id \in Ids, GrownCapacity(id) > id
    PROVE  /\ GrownCapacity(id) \in 2..UINT32_MAX
           /\ GrownCapacity(id) >= sparse_capacity
  <1>1. UINT32_MAX \in Nat /\ id \in 0..UINT32_MAX
    BY SetSizes
  <1>2. CASE id >= sparse_capacity
    <2>1. GrownCapacity(id) = (id * 2) % (UINT32_MAX + 1)
      BY <1>2 DEF GrownCapacity, U32
    <2>2. CASE id * 2 <= UINT32_MAX
      <3>1. (id * 2) % (UINT32_MAX + 1) = id * 2
        BY <1>1, <2>2
      <3>2. QED
        BY <1>1, <1>2, <2>1, <2>2, <3>1
    <2>3. CASE id * 2 > UINT32_MAX
      <3>1. (id * 2) % (UINT32_MAX + 1) = id * 2 - (UINT32_MAX + 1)
        BY <1>1, <2>3
      <3>2. QED
        BY <1>1, <2>1, <3>1
    <2>4. QED
      BY <1>1, <2>2, <2>3
  <1>3. CASE id < sparse_capacity
    BY <1>1, <1>3 DEF GrownCapacity
  <1>4. QED
    BY <1>1, <1>2, <1>3

\* There are fewer elements than ids below the length of sparse, so the place
\* of a new one is never taken for a tombstone.
LEMMA PlaceIsNoTombstone ==
    ASSUME TypeOK, SparseDenseAgree, NEW id \in Ids, ~vf_sparse_set_has(id),
           GrownCapacity(id) > id
    PROVE  size \in Nat /\ size < UINT32_MAX
  <1> DEFINE cap == GrownCapacity(id)
             f == [k \in 0..size |-> IF k = size THEN id ELSE dense[k]]
  <1>1. /\ sparse_capacity \in 2..UINT32_MAX /\ size \in Nat
        /\ id \in Nat /\ UINT32_MAX \in Nat
    BY SetSizes DEF TypeOK
  <1>2. cap \in 2..UINT32_MAX /\ cap >= sparse_capacity /\ id < cap
    BY <1>1, GrownFits
  <1>3. id \notin Members
    BY <1>1 DEF Members, vf_sparse_set_has
  <1>4. f \in Injection(0..size, 0..(cap - 1))
    <2>1. \A k \in 0..size : f[k] \in 0..(cap - 1)
      BY <1>1, <1>2 DEF SparseDenseAgree, Members
    <2>2. \A j, k \in 0..size : f[j] = f[k] => j = k
      BY <1>1, <1>3 DEF SparseDenseAgree
    <2>3. QED
      BY <2>1, <2>2 DEF Injection, IsInjective
  <1>5. /\ IsFiniteSet(0..(cap - 1))
        /\ Cardinality(0..(cap - 1)) = cap /\ Cardinality(0..size) = size + 1
    <2>1. 0 \in Int /\ cap - 1 \in Int /\ size \in Int
      BY <1>1, <1>2
    <2>2. /\ IsFiniteSet(0..(cap - 1))
          /\ Cardinality(0..(cap - 1)) = IF 0 > cap - 1 THEN 0 ELSE cap - 1 - 0 + 1
      BY <2>1, FS_Interval
    <2>3. Cardinality(0..size) = IF 0 > size THEN 0 ELSE size - 0 + 1
      BY <2>1, FS_Interval
    <2>4. QED
      BY <1>1, <1>2, <2>2, <2>3
  <1>6. Cardinality(0..size) <= Cardinality(0..(cap - 1))
    BY <1>4, <1>5, FS_Injection
  <1>7. QED
    BY <1>1, <1>2, <1>5, <1>6

\* What a successful insert does, slot by slot.
LEMMA InsertEffect ==
    ASSUME Inv, NEW id \in Ids, NEW x \in Data, InsertStores(id, x)
    PROVE  /\ size \in Nat /\ size < UINT32_MAX /\ size < capacity' /\ size' = size + 1
           /\ capacity' \in Nat \ {0}
           /\ sparse_capacity' \in 2..UINT32_MAX /\ sparse_capacity' >= sparse_capacity
           /\ id \notin Members /\ id \in 0..(sparse_capacity' - 1)
           /\ sparse' \in [0..(sparse_capacity' - 1) -> 0..UINT32_MAX]
           /\ sparse'[id] = size
           /\ \A j \in 0..(sparse_capacity' - 1) \ {id} :
                 sparse'[j] = IF j < sparse_capacity THEN sparse[j]
                              ELSE VF_SPARSESET_TOMBSTONE
           /\ dense' \in [0..(capacity' - 1) -> Ids \cup {NoData}]
           /\ data' \in [0..(capacity' - 1) -> Data \cup {NoData}]
           /\ dense'[size] = id /\ data'[size] = x
           /\ \A k \in 0..(size - 1) : dense'[k] = dense[k] /\ data'[k] = data[k]
  <1>1. /\ TypeOK /\ SparseDenseAgree /\ UINT32_MAX \in Nat /\ id \in Nat
        /\ sparse_capacity \in 2..UINT32_MAX /\ capacity \in Nat \ {0}
        /\ size \in 0..capacity
    BY SetSizes DEF Inv, TypeOK
  <1>2. /\ GrownCapacity(id) > id /\ ~vf_sparse_set_has(id)
        /\ sparse_capacity' = GrownCapacity(id) /\ size' = size + 1
        /\ capacity' = IF size >= capacity THEN capacity * 2 ELSE capacity
        /\ sparse' = [GrownSparse(id) EXCEPT ![id] = size]
        /\ dense' = Grown(dense, capacity', size, id)
        /\ data' = Grown(data, capacity', size, x)
    BY DEF InsertStores, InsertAccepts
  <1>3. /\ GrownCapacity(id) \in 2..UINT32_MAX /\ GrownCapacity(id) >= sparse_capacity
        /\ size < UINT32_MAX
    BY <1>1, <1>2, GrownFits, PlaceIsNoTombstone
  <1>4. capacity' \in Nat \ {0} /\ capacity' >= capacity /\ size < capacity'
    BY <1>1, <1>2
  <1>5. id \notin Members
    BY <1>1, <1>2 DEF Members, vf_sparse_set_has
  <1>6. GrownSparse(id) \in [0..(sparse_capacity' - 1) -> 0..UINT32_MAX]
    BY <1>1, <1>2 DEF GrownSparse, TypeOK, VF_SPARSESET_TOMBSTONE
  <1>7. /\ sparse' \in [0..(sparse_capacity' - 1) -> 0..UINT32_MAX]
        /\ sparse'[id] = size
        /\ \A j \in 0..(sparse_capacity' - 1) \ {id} : sparse'[j] = GrownSparse(id)[j]
    BY <1>1, <1>2, <1>3, <1>6
  <1>8. \A j \in 0..(sparse_capacity' - 1) \ {id} :
           GrownSparse(id)[j] = IF j < sparse_capacity THEN sparse[j]
                                ELSE VF_SPARSESET_TOMBSTONE
    BY <1>2 DEF GrownSparse
  <1>9. /\ dense' \in [0..(capacity' - 1) -> Ids \cup {NoData}]
        /\ dense'[size] = id /\ \A k \in 0..(size - 1) : dense'[k] = dense[k]
    BY <1>1, <1>2, <1>4 DEF Grown, TypeOK
  <1>10. /\ data' \in [0..(capacity' - 1) -> Data \cup {NoData}]
         /\ data'[size] = x /\ \A k \in 0..(size - 1) : data'[k] = data[k]
    BY <1>1, <1>2, <1>4 DEF Grown, TypeOK
  <1>11. QED
    BY <1>1, <1>2, <1>3, <1>4, <1>5, <1>7, <1>8, <1>9, <1>10

\* What a removal does, slot by slot; i is the place of the id.
LEMMA RemoveEffect ==
    ASSUME Inv, NEW id \in Ids, vf_sparse_set_remove(id), NEW i, i = sparse[id]
    PROVE  /\ id \in Members /\ size \in Nat \ {0} /\ size' = size - 1
           /\ i \in 0..(size - 1) /\ dense[i] = id
           /\ sparse' \in [0..(sparse_capacity - 1) -> 0..UINT32_MAX]
           /\ sparse'[id] = VF_SPARSESET_TOMBSTONE
           /\ i # size - 1 => sparse'[dense[size - 1]] = i /\ dense[size - 1] # id
           /\ \A j \in 0..(sparse_capacity - 1) :
                 j # id /\ j # dense[size - 1] => sparse'[j] = sparse[j]
           /\ dense' \in [0..(capacity - 1) -> Ids \cup {NoData}]
           /\ data' \in [0..(capacity - 1) -> Data \cup {NoData}]
           /\ dense'[i] = dense[size - 1] /\ data'[i] = data[size - 1]
           /\ \A k \in 0..(capacity - 1) \ {i} : dense'[k] = dense[k] /\ data'[k] = data[k]
           /\ UNCHANGED <<sparse_capacity, capacity>>
  <1>1. /\ TypeOK /\ SparseDenseAgree /\ UINT32_MAX \in Nat /\ id \in Nat
        /\ sparse_capacity \in 2..UINT32_MAX /\ capacity \in Nat \ {0}
        /\ size \in 0..capacity
        /\ sparse \in [0..(sparse_capacity - 1) -> 0..UINT32_MAX]
        /\ dense \in [0..(capacity - 1) -> Ids \cup {NoData}]
        /\ data \in [0..(capacity - 1) -> Data \cup {NoData}]
    BY SetSizes DEF Inv, TypeOK
  <1>2. /\ sparse' = Swapped(id, dense[size - 1], i)
        /\ dense' = Moved(dense, i) /\ data' = Moved(data, i) /\ size' = size - 1
        /\ vf_sparse_set_has(id) /\ UNCHANGED <<sparse_capacity, capacity>>
    BY DEF vf_sparse_set_remove
  <1>3. id \in Members
    BY <1>1, <1>2 DEF vf_sparse_set_has, Members
  <1>4. i \in 0..(size - 1) /\ dense[i] = id /\ size \in Nat \ {0}
    BY <1>1, <1>3 DEF SparseDenseAgree, Members
  <1>5. /\ dense[size - 1] \in Members /\ sparse[dense[size - 1]] = size - 1
        /\ dense[size - 1] \in 0..(sparse_capacity - 1)
    BY <1>1, <1>4 DEF SparseDenseAgree, Members
  <1>6. /\ sparse' \in [0..(sparse_capacity - 1) -> 0..UINT32_MAX]
        /\ sparse'[id] = VF_SPARSESET_TOMBSTONE
        /\ i # size - 1 => sparse'[dense[size - 1]] = i /\ dense[size - 1] # id
        /\ \A j \in 0..(sparse_capacity - 1) :
              j # id /\ j # dense[size - 1] => sparse'[j] = sparse[j]
    <2>1. id \in 0..(sparse_capacity - 1) /\ i \in 0..UINT32_MAX
          /\ VF_SPARSESET_TOMBSTONE \in 0..UINT32_MAX
      BY <1>1, <1>3 DEF Members, VF_SPARSESET_TOMBSTONE
    <2>2. CASE i = size - 1
      <3>1. sparse' = [sparse EXCEPT ![id] = VF_SPARSESET_TOMBSTONE]
        BY <1>2, <2>2 DEF Swapped
      <3>2. QED
        BY <1>1, <2>1, <2>2, <3>1
    <2>3. CASE i # size - 1
      <3>1. sparse' = [sparse EXCEPT ![dense[size - 1]] = i,
                                     ![id] = VF_SPARSESET_TOMBSTONE]
        BY <1>2, <2>3 DEF Swapped
      <3>2. dense[size - 1] # id
        BY <1>5, <2>3
      <3>3. QED
        BY <1>1, <1>5, <2>1, <3>1, <3>2
    <2>4. QED
      BY <2>2, <2>3
  <1>7. /\ dense' \in [0..(capacity - 1) -> Ids \cup {NoData}]
        /\ dense'[i] = dense[size - 1]
        /\ \A k \in 0..(capacity - 1) \ {i} : dense'[k] = dense[k]
    BY <1>1, <1>2, <1>4 DEF Moved
  <1>8. /\ data' \in [0..(capacity - 1) -> Data \cup {NoData}]
        /\ data'[i] = data[size - 1]
        /\ \A k \in 0..(capacity - 1) \ {i} : data'[k] = data[k]
    BY <1>1, <1>2, <1>4 DEF Moved
  <1>9. QED
    BY <1>2, <1>3, <1>4, <1>6, <1>7, <1>8

-----------------------------------------------------------------------------
(* The invariant holds *)

\* A removal keeps the two arrays inverse to each other: what followed from
\* the last place follows from the one that was freed.
LEMMA RemoveKeepsInv ==
    ASSUME Inv, NEW id \in Ids, vf_sparse_set_remove(id)
    PROVE  Inv'
  <1> DEFINE i == sparse[id]
             last == dense[size - 1]
  <1>1. /\ UINT32_MAX \in Nat /\ TypeOK /\ SparseDenseAgree /\ Filled
        /\ sparse_capacity \in 2..UINT32_MAX /\ capacity \in Nat \ {0}
        /\ size \in 0..capacity /\ index \in Nat /\ passed \in 0..MaxPassed
        /\ visited \subseteq Ids /\ MaxPassed \in Nat
    BY SetSizes DEF Inv, TypeOK
  <1>2. /\ id \in Members /\ size \in Nat \ {0} /\ size' = size - 1
        /\ i \in 0..(size - 1) /\ dense[i] = id
        /\ sparse' \in [0..(sparse_capacity - 1) -> 0..UINT32_MAX]
        /\ sparse'[id] = VF_SPARSESET_TOMBSTONE
        /\ i # size - 1 => sparse'[last] = i /\ last # id
        /\ \A j \in 0..(sparse_capacity - 1) :
              j # id /\ j # last => sparse'[j] = sparse[j]
        /\ dense' \in [0..(capacity - 1) -> Ids \cup {NoData}]
        /\ data' \in [0..(capacity - 1) -> Data \cup {NoData}]
        /\ dense'[i] = last /\ data'[i] = data[size - 1]
        /\ \A k \in 0..(capacity - 1) \ {i} : dense'[k] = dense[k] /\ data'[k] = data[k]
        /\ UNCHANGED <<sparse_capacity, capacity>>
    BY RemoveEffect
  <1>3. /\ alive' \in BOOLEAN /\ overrun' \in BOOLEAN /\ index' \in Nat
        /\ visited' = visited \ {id} /\ passed' \in 0..MaxPassed
    BY <1>1, <1>2 DEF Inv, TypeOK, vf_sparse_set_remove, Usable
  <1>4. /\ last \in Members /\ sparse[last] = size - 1
        /\ last \in 0..(sparse_capacity - 1) /\ id \in 0..(sparse_capacity - 1)
    BY <1>1, <1>2 DEF SparseDenseAgree, Members
  <1>5. TypeOK'
    BY <1>1, <1>2, <1>3 DEF TypeOK
  <1>6. Members' = Members \ {id}
    <2>1. \A j \in 0..(sparse_capacity - 1) : j \in Members' <=> j \in Members /\ j # id
      <3>1. TAKE j \in 0..(sparse_capacity - 1)
      <3>2. CASE j = id
        BY <1>2, <3>2 DEF Members
      <3>3. CASE j # id /\ j # last
        BY <1>2, <3>3 DEF Members
      <3>4. CASE j # id /\ j = last
        <4>1. i # size - 1
          BY <1>2, <3>4
        <4>2. sparse'[j] = i /\ i # VF_SPARSESET_TOMBSTONE
          BY <1>1, <1>2, <1>4, <3>4, <4>1 DEF TypeOK, VF_SPARSESET_TOMBSTONE, Members
        <4>3. QED
          BY <1>2, <1>4, <3>4, <4>2 DEF Members
      <3>5. QED
        BY <3>2, <3>3, <3>4
    <2>2. QED
      BY <1>2, <2>1 DEF Members
  <1>7. \A j \in Members' : sparse'[j] < size' /\ dense'[sparse'[j]] = j
    <2>1. TAKE j \in Members'
    <2>2. /\ j \in Members /\ j # id /\ j \in 0..(sparse_capacity - 1)
          /\ sparse[j] \in 0..(size - 1) /\ dense[sparse[j]] = j
      <3>1. j \in Members /\ j # id
        BY <1>6, <2>1
      <3>2. sparse[j] < size /\ dense[sparse[j]] = j
        BY <1>1, <3>1 DEF SparseDenseAgree
      <3>3. j \in 0..(sparse_capacity - 1)
        BY <3>1 DEF Members
      <3>4. sparse[j] \in 0..UINT32_MAX
        BY <1>1, <3>3 DEF TypeOK
      <3>5. sparse[j] \in 0..(size - 1)
        BY <1>1, <3>2, <3>4
      <3>6. QED
        BY <3>1, <3>2, <3>3, <3>5
    <2>3. CASE j = last
      <3>1. i # size - 1
        BY <1>2, <2>2, <2>3
      <3>2. sparse'[j] = i /\ dense'[i] = last
        BY <1>2, <2>3, <3>1
      <3>3. i < size'
        BY <1>2, <3>1
      <3>4. QED
        BY <2>3, <3>2, <3>3
    <2>4. CASE j # last
      <3>1. sparse'[j] = sparse[j] /\ sparse[j] # size - 1 /\ sparse[j] # i
        BY <1>2, <2>2, <2>4
      <3>2. QED
        BY <1>1, <1>2, <2>2, <3>1
    <2>5. QED
      BY <2>3, <2>4
  <1>8. \A k \in 0..(size' - 1) :
           /\ dense'[k] \in Members' /\ sparse'[dense'[k]] = k
           /\ dense'[k] \in Ids /\ data'[k] \in Data
    <2>1. TAKE k \in 0..(size' - 1)
    <2>2. k \in 0..(size - 1) /\ k # size - 1 /\ k \in 0..(capacity - 1)
      BY <1>1, <1>2, <2>1
    <2>3. /\ dense[k] \in Members /\ sparse[dense[k]] = k
          /\ dense[k] \in Ids /\ data[k] \in Data
          /\ last \in Ids /\ data[size - 1] \in Data
      BY <1>1, <1>2, <2>2 DEF SparseDenseAgree, Filled
    <2>4. CASE k = i
      BY <1>2, <1>4, <1>6, <2>2, <2>3, <2>4
    <2>5. CASE k # i
      <3>1. dense'[k] = dense[k] /\ data'[k] = data[k]
        BY <1>2, <2>2, <2>5
      <3>2. dense[k] # id /\ dense[k] # last /\ dense[k] \in 0..(sparse_capacity - 1)
        BY <1>4, <2>2, <2>3, <2>5 DEF Members
      <3>3. QED
        BY <1>2, <1>6, <2>3, <3>1, <3>2
    <2>6. QED
      BY <2>4, <2>5
  <1>9. visited' \subseteq Members'
    BY <1>1, <1>3, <1>6 DEF Filled
  <1>10. QED
    BY <1>5, <1>7, <1>8, <1>9 DEF Inv, SparseDenseAgree, Filled

\* An insertion adds the id and its place, the first free one, and keeps the
\* others.
LEMMA InsertKeepsInv ==
    ASSUME Inv, NEW id \in Ids, NEW x \in Data, InsertStores(id, x)
    PROVE  Inv' /\ Members' = Members \cup {id}
  <1>1. /\ UINT32_MAX \in Nat /\ TypeOK /\ SparseDenseAgree /\ Filled
        /\ sparse_capacity \in 2..UINT32_MAX /\ size \in Nat
    BY SetSizes DEF Inv, TypeOK
  <1>2. /\ size < UINT32_MAX /\ size < capacity' /\ size' = size + 1
        /\ capacity' \in Nat \ {0}
        /\ sparse_capacity' \in 2..UINT32_MAX /\ sparse_capacity' >= sparse_capacity
        /\ id \notin Members /\ id \in 0..(sparse_capacity' - 1) /\ sparse'[id] = size
    BY InsertEffect
  <1>sparse. \A j \in 0..(sparse_capacity' - 1) \ {id} :
           sparse'[j] = IF j < sparse_capacity THEN sparse[j]
                        ELSE VF_SPARSESET_TOMBSTONE
    BY InsertEffect
  <1>dense. /\ dense'[size] = id /\ data'[size] = x
        /\ \A k \in 0..(size - 1) : dense'[k] = dense[k] /\ data'[k] = data[k]
    BY InsertEffect
  <1>3. /\ alive' \in BOOLEAN /\ overrun' \in BOOLEAN /\ index' \in Nat
        /\ visited' = visited /\ visited \subseteq Ids /\ passed' \in 0..MaxPassed
    BY DEF Inv, TypeOK, InsertStores, iterator
  <1>4. TypeOK'
    <2>1. size' \in 0..capacity'
      BY <1>1, <1>2
    <2>2. /\ sparse' \in [0..(sparse_capacity' - 1) -> 0..UINT32_MAX]
          /\ dense' \in [0..(capacity' - 1) -> Ids \cup {NoData}]
          /\ data' \in [0..(capacity' - 1) -> Data \cup {NoData}]
      BY InsertEffect
    <2>3. QED
      BY <1>2, <1>3, <2>1, <2>2 DEF TypeOK
  <1>5. Members' = Members \cup {id}
    <2>1. \A j \in 0..(sparse_capacity' - 1) : j \in Members' <=> j \in Members \/ j = id
      <3>1. TAKE j \in 0..(sparse_capacity' - 1)
      <3>2. CASE j = id
        <4>1. size # VF_SPARSESET_TOMBSTONE
          BY <1>1, <1>2 DEF VF_SPARSESET_TOMBSTONE
        <4>2. QED
          BY <1>2, <3>2, <4>1 DEF Members
      <3>3. CASE j # id
        <4>1. sparse'[j] = IF j < sparse_capacity THEN sparse[j]
                           ELSE VF_SPARSESET_TOMBSTONE
          BY <1>sparse, <3>3
        <4>2. j \in Members' <=> sparse'[j] # VF_SPARSESET_TOMBSTONE
          BY DEF Members
        <4>3. j \in Members <=> j < sparse_capacity /\ sparse[j] # VF_SPARSESET_TOMBSTONE
          BY <1>1, <1>2 DEF Members
        <4>4. QED
          BY <3>3, <4>1, <4>2, <4>3
      <3>4. QED
        BY <3>2, <3>3
    <2>2. Members \subseteq 0..(sparse_capacity' - 1)
      BY <1>1, <1>2 DEF Members
    <2>3. Members' \subseteq 0..(sparse_capacity' - 1)
      BY DEF Members
    <2>4. QED
      BY <1>2, <2>1, <2>2, <2>3
  <1>others. \A j \in Members : j \in 0..(sparse_capacity - 1) /\ j # id /\ sparse'[j] = sparse[j]
    <2>1. TAKE j \in Members
    <2>2. j \in 0..(sparse_capacity - 1) /\ j # id
      BY <1>2 DEF Members
    <2>3. Members \subseteq 0..(sparse_capacity' - 1)
      BY <1>1, <1>2 DEF Members
    <2>4. j < sparse_capacity
      BY <1>1, <2>2
    <2>5. QED
      BY <1>sparse, <2>2, <2>3, <2>4
  <1>6. \A j \in Members' : sparse'[j] < size' /\ dense'[sparse'[j]] = j
    <2>1. TAKE j \in Members'
    <2>2. CASE j = id
      BY <1>1, <1>2, <1>dense, <2>2
    <2>3. CASE j # id
      <3>1. /\ j \in Members /\ j \in 0..(sparse_capacity - 1)
            /\ sparse[j] \in 0..(size - 1) /\ dense[sparse[j]] = j
        BY <1>1, <1>5, <2>1, <2>3 DEF SparseDenseAgree, Members, TypeOK
      <3>2. sparse'[j] = sparse[j] /\ dense'[sparse[j]] = dense[sparse[j]]
        BY <1>dense, <1>others, <3>1
      <3>3. QED
        BY <1>1, <1>2, <3>1, <3>2
    <2>4. QED
      BY <2>2, <2>3
  <1>7. \A k \in 0..(size' - 1) :
           /\ dense'[k] \in Members' /\ sparse'[dense'[k]] = k
           /\ dense'[k] \in Ids /\ data'[k] \in Data
    <2>1. TAKE k \in 0..(size' - 1)
    <2>2. CASE k = size
      BY <1>1, <1>2, <1>5, <1>dense, <2>2
    <2>3. CASE k # size
      <3>1. k \in 0..(size - 1)
        BY <1>1, <1>2, <2>1, <2>3
      <3>2. /\ dense[k] \in Members /\ sparse[dense[k]] = k
            /\ dense[k] \in Ids /\ data[k] \in Data
            /\ dense'[k] = dense[k] /\ data'[k] = data[k]
        BY <1>1, <1>dense, <3>1 DEF SparseDenseAgree, Filled
      <3>3. sparse'[dense[k]] = sparse[dense[k]]
        BY <1>others, <3>2
      <3>4. QED
        BY <1>5, <3>2, <3>3
    <2>4. QED
      BY <2>2, <2>3
  <1>8. visited' \subseteq Members'
    BY <1>1, <1>3, <1>5 DEF Filled
  <1>9. QED
    BY <1>4, <1>5, <1>6, <1>7, <1>8 DEF Inv, SparseDenseAgree, Filled

\* When dense and data cannot be replaced, the grown sparse has the members it
\* had.
LEMMA GrowthKeepsInv ==
    ASSUME Inv, NEW id \in Ids, InsertOutOfMemory(id)
    PROVE  /\ Inv' /\ Members' = Members
           /\ \A j \in Members : sparse'[j] = sparse[j]
  <1>1. /\ UINT32_MAX \in Nat /\ TypeOK /\ SparseDenseAgree /\ Filled
        /\ sparse_capacity \in 2..UINT32_MAX
        /\ sparse \in [0..(sparse_capacity - 1) -> 0..UINT32_MAX]
    BY SetSizes DEF Inv, TypeOK
  <1>2. /\ sparse_capacity' \in 2..UINT32_MAX /\ sparse_capacity' >= sparse_capacity
        /\ sparse_capacity' = GrownCapacity(id)
    BY <1>1, GrownFits DEF InsertOutOfMemory, InsertAccepts
  <1>3. /\ sparse' = GrownSparse(id)
        /\ UNCHANGED <<dense, data, size, capacity, alive, overrun, index, visited, passed>>
    BY DEF InsertOutOfMemory, iterator
  <1>4. \A j \in 0..(sparse_capacity' - 1) :
           sparse'[j] = IF j < sparse_capacity THEN sparse[j] ELSE VF_SPARSESET_TOMBSTONE
    BY <1>2, <1>3 DEF GrownSparse
  <1>5. sparse' \in [0..(sparse_capacity' - 1) -> 0..UINT32_MAX]
    BY <1>1, <1>2, <1>3 DEF GrownSparse, VF_SPARSESET_TOMBSTONE
  <1>6. TypeOK'
    BY <1>1, <1>2, <1>3, <1>5 DEF TypeOK
  <1>7. /\ Members' = Members
        /\ \A j \in Members : sparse'[j] = sparse[j]
    <2>1. 0..(sparse_capacity - 1) \subseteq 0..(sparse_capacity' - 1)
      BY <1>1, <1>2
    <2>2. \A j \in 0..(sparse_capacity' - 1) :
             j < sparse_capacity <=> j \in 0..(sparse_capacity - 1)
      BY <1>1, <1>2
    <2>3. QED
      BY <1>4, <2>1, <2>2 DEF Members
  <1>8. SparseDenseAgree' /\ Filled'
    <2>1. \A j \in Members' : sparse'[j] < size' /\ dense'[sparse'[j]] = j
      BY <1>1, <1>3, <1>7 DEF SparseDenseAgree
    <2>2. \A k \in 0..(size' - 1) : dense'[k] \in Members' /\ sparse'[dense'[k]] = k
      BY <1>1, <1>3, <1>7 DEF SparseDenseAgree
    <2>3. QED
      BY <1>1, <1>3, <1>7, <2>1, <2>2 DEF SparseDenseAgree, Filled
  <1>9. QED
    BY <1>6, <1>7, <1>8 DEF Inv

\* The arrays of a new set hold tombstones only.
LEMMA InitInv == Init => Inv
  <1>1. SUFFICES ASSUME Init PROVE Inv
    OBVIOUS
  <1>2. PICK n \in Requests :
           capacity = IF n <= 1 THEN VF_SPARSESET_INIT_CAPACITY ELSE n
    BY <1>1 DEF Init
  <1>3. UINT32_MAX \in Nat /\ capacity \in 2..UINT32_MAX /\ MaxPassed \in Nat
    BY <1>2, SetSizes
  <1>fields. /\ size = 0 /\ sparse_capacity = capacity /\ index = 0 /\ visited = {}
        /\ passed = 0 /\ alive \in BOOLEAN /\ overrun \in BOOLEAN
        /\ sparse = [k \in 0..(capacity - 1) |-> UINT32_MAX]
        /\ dense = [k \in 0..(capacity - 1) |-> NoData]
        /\ data = [k \in 0..(capacity - 1) |-> NoData]
    BY <1>1 DEF Init, VF_SPARSESET_TOMBSTONE
  <1>types. TypeOK
    BY <1>3, <1>fields DEF TypeOK
  <1>4. Members = {}
    BY <1>fields DEF Members, VF_SPARSESET_TOMBSTONE
  <1>5. 0..(size - 1) = {}
    BY <1>fields
  <1>6. QED
    BY <1>types, <1>fields, <1>4, <1>5 DEF Inv, SparseDenseAgree, Filled

\* Every call keeps the invariant.
LEMMA StepKeepsInv == Inv /\ [Next]_vars => Inv'
  <1>1. SUFFICES ASSUME Inv, [Next]_vars PROVE Inv'
    OBVIOUS
  <1>2. /\ TypeOK /\ SparseDenseAgree /\ Filled /\ UINT32_MAX \in Nat
        /\ size \in Nat /\ size <= capacity /\ capacity \in Nat /\ index \in Nat
    BY <1>1, SetSizes DEF Inv, TypeOK
  <1>3. ASSUME UNCHANGED arrays, alive' \in BOOLEAN, overrun' \in BOOLEAN,
               index' \in Nat, visited' \subseteq Members, visited' \subseteq Ids,
               passed' \in 0..MaxPassed
        PROVE  Inv'
    <2>1. UNCHANGED <<sparse, sparse_capacity, dense, data, size, capacity>>
      BY <1>3 DEF arrays
    <2>2. Members' = Members
      BY <2>1 DEF Members
    <2>3. TypeOK'
      BY <1>2, <1>3, <2>1 DEF TypeOK
    <2>4. SparseDenseAgree' /\ Filled'
      BY <1>2, <1>3, <2>1, <2>2 DEF SparseDenseAgree, Filled
    <2>5. QED
      BY <2>3, <2>4 DEF Inv
  <1>4. ASSUME NEW id \in Ids, Insert(id) PROVE Inv'
    <2>1. CASE InsertOverruns(id)
      BY <1>2, <1>3, <2>1 DEF InsertOverruns, Usable, iterator, TypeOK, Filled
    <2>2. CASE InsertOutOfMemory(id)
      BY <1>1, <2>2, GrowthKeepsInv
    <2>3. ASSUME NEW x \in Data, InsertStores(id, x) PROVE Inv'
      BY <1>1, <2>3, InsertKeepsInv
    <2>4. QED
      BY <1>4, <2>1, <2>2, <2>3 DEF Insert
  <1>5. ASSUME NEW id \in Ids, NEW x \in Data, SetData(id, x) PROVE Inv'
    <2>1. /\ data' = [data EXCEPT ![sparse[id]] = x]
          /\ UNCHANGED <<sparse, sparse_capacity, dense, size, capacity, alive,
                         overrun, index, visited, passed>>
      BY <1>5 DEF SetData, iterator
    <2>2. Members' = Members
      BY <2>1 DEF Members
    <2>3. data' \in [0..(capacity - 1) -> Data \cup {NoData}]
      BY <1>2, <2>1 DEF TypeOK
    <2>4. \A k \in 0..(size - 1) : data'[k] \in Data
      BY <1>2, <2>1 DEF TypeOK, Filled
    <2>5. TypeOK'
      BY <1>2, <2>1, <2>3 DEF TypeOK
    <2>6. SparseDenseAgree' /\ Filled'
      BY <1>2, <2>1, <2>2, <2>4 DEF SparseDenseAgree, Filled
    <2>7. QED
      BY <2>5, <2>6 DEF Inv
  <1>6. ASSUME NEW id \in Ids, vf_sparse_set_remove(id) PROVE Inv'
    BY <1>1, <1>6, RemoveKeepsInv
  <1>7. CASE vf_sparse_set_iterator
    BY <1>2, <1>3, <1>7, SetSizes DEF vf_sparse_set_iterator, Usable, TypeOK
  <1>8. CASE vf_sparse_set_iterator_next
    <2>1. index \in 0..(size - 1) /\ dense[index] \in Ids /\ dense[index] \in Members
      BY <1>2, <1>8 DEF vf_sparse_set_iterator_next, SparseDenseAgree, Filled
    <2>2. QED
      BY <1>2, <1>3, <1>8, <2>1 DEF vf_sparse_set_iterator_next, Usable, TypeOK, Filled
  <1>9. CASE vf_sparse_set_destroy
    BY <1>2, <1>3, <1>9 DEF vf_sparse_set_destroy, Usable, iterator, TypeOK, Filled
  <1>10. CASE UNCHANGED vars
    BY <1>2, <1>3, <1>10 DEF vars, iterator, TypeOK, Filled
  <1>11. QED
    BY <1>1, <1>4, <1>5, <1>6, <1>7, <1>8, <1>9, <1>10 DEF Next

\* The invariant holds in every reachable state.
LEMMA InvHolds == Spec => []Inv
  BY InitInv, StepKeepsInv, PTL DEF Spec

-----------------------------------------------------------------------------
(* What follows from it *)

\* The arrays always have the lengths their fields say, and no index stored in
\* them lies outside uint32_t, whichever calls grow them.
THEOREM TypeCorrect == Spec => []TypeOK
  <1>1. Inv => TypeOK
    BY DEF Inv
  <1>2. QED
    BY <1>1, InvHolds, PTL

\* sparse and dense stay inverse to each other through every insertion, growth
\* and removal.
THEOREM ArraysAgree == Spec => []SparseDenseAgree
  <1>1. Inv => SparseDenseAgree
    BY DEF Inv
  <1>2. QED
    BY <1>1, InvHolds, PTL

-----------------------------------------------------------------------------
(* Refinement of Dictionary *)

\* Where a member's data is.
LEMMA PlaceOfMember ==
    ASSUME TypeOK, SparseDenseAgree, NEW j \in Members
    PROVE  /\ j \in 0..(sparse_capacity - 1) /\ sparse[j] # VF_SPARSESET_TOMBSTONE
           /\ sparse[j] \in 0..(size - 1) /\ sparse[j] \in 0..(capacity - 1)
           /\ dense[sparse[j]] = j
  <1>1. j \in 0..(sparse_capacity - 1) /\ sparse[j] # VF_SPARSESET_TOMBSTONE
    BY DEF Members
  <1>2. /\ sparse[j] \in Nat /\ size \in Nat /\ capacity \in Nat /\ size <= capacity
    BY <1>1, SetSizes DEF TypeOK
  <1>3. sparse[j] < size /\ dense[sparse[j]] = j
    BY DEF SparseDenseAgree
  <1>4. QED
    BY <1>1, <1>2, <1>3

Map == [id \in Members |-> vf_sparse_set_get(id)]

\* The map a client sees is the data at the places sparse leads to.
LEMMA MapIsData ==
    ASSUME TypeOK
    PROVE  Map = [id \in Members |-> data[sparse[id]]]
  <1>1. ASSUME NEW id \in Members PROVE vf_sparse_set_get(id) = data[sparse[id]]
    <2>1. vf_sparse_set_has(id)
      BY DEF Members, vf_sparse_set_has, TypeOK
    <2>2. QED
      BY <2>1 DEF vf_sparse_set_get
  <1>2. QED
    BY <1>1 DEF Map

\* The new state's map, likewise.
LEMMA NextMapIsData ==
    ASSUME TypeOK'
    PROVE  Map' = [id \in Members' |-> data'[sparse'[id]]]
  <1>1. ASSUME NEW id \in Members' PROVE (vf_sparse_set_get(id))' = data'[sparse'[id]]
    <2>1. (vf_sparse_set_has(id))'
      <3>1. id \in 0..(sparse_capacity' - 1) /\ sparse'[id] # VF_SPARSESET_TOMBSTONE
        BY DEF Members
      <3>2. sparse_capacity' \in Nat
        BY SetSizes DEF TypeOK
      <3>3. \A n \in Nat : \A k \in 0..(n - 1) : k < n
        OBVIOUS
      <3>4. QED
        BY <3>1, <3>2, <3>3 DEF vf_sparse_set_has
    <2>2. QED
      BY <2>1 DEF vf_sparse_set_get
  <1>2. QED
    BY <1>1 DEF Map

\* An insertion maps to the assignment of the new id.
LEMMA InsertAssigns ==
    ASSUME Inv, NEW id \in Ids, NEW x \in Data, InsertStores(id, x)
    PROVE  Dict!Assign(id, x)
  <1>1. /\ Members' = Members \cup {id} /\ TypeOK /\ TypeOK' /\ SparseDenseAgree
        /\ size \in Nat
    <2>1. size \in Nat
      BY DEF Inv, TypeOK
    <2>2. QED
      BY <2>1, InsertKeepsInv DEF Inv
  <1>2. /\ id \notin Members /\ sparse'[id] = size /\ data'[size] = x
        /\ \A k \in 0..(size - 1) : data'[k] = data[k]
    BY InsertEffect
  <1>3. ASSUME NEW j \in Members PROVE data'[sparse'[j]] = data[sparse[j]]
    <2>1. sparse'[j] = sparse[j]
      <3>1. j \in 0..(sparse_capacity - 1) /\ j # id
        BY <1>2 DEF Members
      <3>2. Members \subseteq 0..(sparse_capacity' - 1)
        BY <1>1 DEF Members
      <3>3. j < sparse_capacity
        BY <1>1, <3>1 DEF TypeOK
      <3>4. QED
        BY <3>1, <3>2, <3>3, InsertEffect
    <2>2. sparse[j] \in 0..(size - 1)
      BY <1>1, PlaceOfMember
    <2>3. QED
      BY <1>2, <2>1, <2>2
  <1>4. Map' = [j \in Members \cup {id} |-> IF j = id THEN x ELSE Map[j]]
    BY <1>1, <1>2, <1>3, MapIsData, NextMapIsData
  <1>5. DOMAIN Map = Members /\ alive /\ UNCHANGED alive
    BY DEF Map, InsertStores, InsertAccepts, Usable
  <1>6. QED
    BY <1>4, <1>5 DEF Dict!Assign, Map

\* A store maps to the assignment of a new value to an id that is there.
LEMMA SetAssigns ==
    ASSUME Inv, NEW id \in Ids, NEW x \in Data, SetData(id, x), Inv'
    PROVE  Dict!Assign(id, x)
  <1>1. TypeOK /\ TypeOK' /\ SparseDenseAgree
    BY DEF Inv
  <1>2. /\ data' = [data EXCEPT ![sparse[id]] = x] /\ vf_sparse_set_has(id)
        /\ UNCHANGED <<sparse, sparse_capacity, alive>> /\ alive
    BY DEF SetData, Usable
  <1>3. Members' = Members
    BY <1>2 DEF Members
  <1>4. id \in Members
    BY <1>1, <1>2, SetSizes DEF Members, vf_sparse_set_has, TypeOK
  <1>5. ASSUME NEW j \in Members
        PROVE  data'[sparse'[j]] = IF j = id THEN x ELSE data[sparse[j]]
    <2>1. /\ sparse[j] \in 0..(capacity - 1) /\ dense[sparse[j]] = j
          /\ dense[sparse[id]] = id
      BY <1>1, <1>4, PlaceOfMember
    <2>2. data \in [0..(capacity - 1) -> Data \cup {NoData}]
      BY <1>1 DEF TypeOK
    <2>3. QED
      BY <1>2, <2>1, <2>2
  <1>6. Map' = [j \in Members \cup {id} |-> IF j = id THEN x ELSE Map[j]]
    <2>1. Members \cup {id} = Members
      BY <1>4
    <2>2. QED
      BY <1>1, <1>3, <1>5, <2>1, MapIsData, NextMapIsData
  <1>7. DOMAIN Map = Members
    BY DEF Map
  <1>8. QED
    BY <1>2, <1>6, <1>7 DEF Dict!Assign, Map

\* A removal maps to the deletion of its id alone, although another element's
\* data moves.
LEMMA RemoveDeletes ==
    ASSUME Inv, NEW id \in Ids, vf_sparse_set_remove(id)
    PROVE  Dict!Delete(id)
  <1> DEFINE i == sparse[id]
             last == dense[size - 1]
  <1>1. TypeOK /\ TypeOK' /\ SparseDenseAgree /\ size \in Nat /\ capacity \in Nat
        /\ size <= capacity
    <2>1. TypeOK /\ TypeOK' /\ SparseDenseAgree
      BY RemoveKeepsInv DEF Inv
    <2>2. size \in Nat /\ capacity \in Nat /\ size <= capacity
      BY <2>1 DEF TypeOK
    <2>3. QED
      BY <2>1, <2>2
  <1>2. /\ id \in Members /\ i \in 0..(size - 1) /\ dense[i] = id
        /\ sparse'[id] = VF_SPARSESET_TOMBSTONE
        /\ i # size - 1 => sparse'[last] = i /\ last # id
        /\ \A j \in 0..(sparse_capacity - 1) :
              j # id /\ j # last => sparse'[j] = sparse[j]
        /\ data'[i] = data[size - 1]
        /\ \A k \in 0..(capacity - 1) \ {i} : data'[k] = data[k]
        /\ sparse_capacity' = sparse_capacity
    BY RemoveEffect
  <1>3. ASSUME NEW j \in Members, j # id
        PROVE  data'[sparse'[j]] = data[sparse[j]] /\ j \in Members'
    <2>1. /\ j \in 0..(sparse_capacity - 1) /\ sparse[j] \in 0..(size - 1)
          /\ dense[sparse[j]] = j /\ sparse[j] # VF_SPARSESET_TOMBSTONE
      BY <1>1, PlaceOfMember
    <2>2. CASE j = last
      <3>1. sparse[j] = size - 1
        BY <1>1, <1>2, <2>2 DEF SparseDenseAgree
      <3>2. i # size - 1
        BY <1>2, <1>3, <2>2
      <3>3. i # VF_SPARSESET_TOMBSTONE
        BY <1>2 DEF Members
      <3>4. QED
        BY <1>2, <2>1, <2>2, <3>1, <3>2, <3>3 DEF Members
    <2>3. CASE j # last
      <3>1. sparse'[j] = sparse[j] /\ sparse[j] # i
        BY <1>2, <1>3, <2>1, <2>3
      <3>2. sparse[j] \in 0..(capacity - 1)
        BY <1>1, <2>1
      <3>3. QED
        BY <1>2, <2>1, <3>1, <3>2 DEF Members
    <2>4. QED
      BY <2>2, <2>3
  <1>4. Members' = Members \ {id}
    <2>1. id \notin Members'
      BY <1>2 DEF Members
    <2>2. ASSUME NEW j \in Members', j # id PROVE j \in Members
      <3>1. j \in 0..(sparse_capacity - 1) /\ sparse'[j] # VF_SPARSESET_TOMBSTONE
        BY <1>2 DEF Members
      <3>2. CASE j = last
        BY <1>1, <1>2, <3>2 DEF SparseDenseAgree
      <3>3. CASE j # last
        BY <1>2, <2>2, <3>1, <3>3 DEF Members
      <3>4. QED
        BY <3>2, <3>3
    <2>3. QED
      BY <1>3, <2>1, <2>2
  <1>5. Map' = [j \in Members \ {id} |-> Map[j]]
    BY <1>1, <1>3, <1>4, MapIsData, NextMapIsData
  <1>6. DOMAIN Map = Members /\ alive /\ UNCHANGED alive
    BY DEF Map, vf_sparse_set_remove, Usable
  <1>7. QED
    BY <1>2, <1>5, <1>6 DEF Dict!Delete, Map

\* The set implements a dictionary: growth that fails half way, iteration and
\* calls that overrun the arrays leave the map as it was.
THEOREM RefinesDictionary == Spec => ImplementsDictionary
  <1>1. ASSUME Init PROVE Dict!Init
    <2>1. Members = {}
      BY <1>1 DEF Init, Members
    <2>2. QED
      BY <1>1, <2>1 DEF Dict!Init, Init
  <1>2. ASSUME Inv, Inv', [Next]_vars
        PROVE  [Dict!Next]_<<Map, ~alive>>
    <2>1. ASSUME UNCHANGED <<arrays, alive>> PROVE UNCHANGED <<Map, ~alive>>
      <3>1. UNCHANGED <<sparse, sparse_capacity, data>> /\ UNCHANGED alive
        BY <2>1 DEF arrays
      <3>2. Members' = Members
        BY <3>1 DEF Members
      <3>3. Map' = Map
        BY <1>2, <3>1, <3>2, MapIsData, NextMapIsData DEF Inv
      <3>4. QED
        BY <3>1, <3>3
    <2>2. ASSUME NEW id \in Ids, InsertOverruns(id) PROVE UNCHANGED <<Map, ~alive>>
      BY <2>1, <2>2 DEF InsertOverruns
    <2>3. ASSUME NEW id \in Ids, InsertOutOfMemory(id) PROVE UNCHANGED <<Map, ~alive>>
      <3>1. Members' = Members /\ \A j \in Members : sparse'[j] = sparse[j]
        BY <1>2, <2>3, GrowthKeepsInv
      <3>2. UNCHANGED data /\ UNCHANGED alive
        BY <2>3 DEF InsertOutOfMemory
      <3>3. Map' = Map
        BY <1>2, <3>1, <3>2, MapIsData, NextMapIsData DEF Inv
      <3>4. QED
        BY <3>2, <3>3
    <2>4. ASSUME NEW id \in Ids, NEW x \in Data, InsertStores(id, x) PROVE Dict!Next
      BY <1>2, <2>4, InsertAssigns DEF Dict!Next
    <2>5. ASSUME NEW id \in Ids, NEW x \in Data, SetData(id, x) PROVE Dict!Next
      BY <1>2, <2>5, SetAssigns DEF Dict!Next
    <2>6. ASSUME NEW id \in Ids, vf_sparse_set_remove(id) PROVE Dict!Next
      BY <1>2, <2>6, RemoveDeletes DEF Dict!Next
    <2>7. CASE vf_sparse_set_iterator \/ vf_sparse_set_iterator_next
      BY <2>1, <2>7 DEF vf_sparse_set_iterator, vf_sparse_set_iterator_next
    <2>8. CASE vf_sparse_set_destroy
      <3>1. UNCHANGED <<sparse, sparse_capacity, data>> /\ alive /\ ~alive'
        BY <2>8 DEF vf_sparse_set_destroy, Usable, arrays
      <3>2. Members' = Members
        BY <3>1 DEF Members
      <3>3. Map' = Map
        BY <1>2, <3>1, <3>2, MapIsData, NextMapIsData DEF Inv
      <3>4. QED
        BY <3>1, <3>3 DEF Dict!Next, Dict!Close, Map
    <2>9. CASE UNCHANGED vars
      BY <2>1, <2>9 DEF vars
    <2>10. QED
      BY <1>2, <2>2, <2>3, <2>4, <2>5, <2>6, <2>7, <2>8, <2>9 DEF Next, Insert
  <1>3. ASSUME Inv, Inv', [Next]_vars
        PROVE  [Dict!Next]_<<[id \in Members |-> vf_sparse_set_get(id)], ~alive>>
    BY <1>2, <1>3 DEF Map
  <1>4. QED
    BY <1>1, <1>3, InvHolds, PTL DEF Spec, ImplementsDictionary, Dict!Spec

-----------------------------------------------------------------------------
(* The iterator *)

\* The places behind the iterator whose ids it has not returned, and how far it
\* stands beyond the last place.
Skipped == {k \in 0..(size - 1) : k < index /\ dense[k] \notin visited}
Beyond == IF index > size THEN index - size ELSE 0

AheadIsNew == \A k \in index..(size - 1) : dense[k] \notin visited

\* Both are paid for by removals: an element inserted while the iterator stands
\* beyond the last place is skipped as well.
IterInv == AheadIsNew /\ Cardinality(Skipped) + Beyond <= passed

\* The skipped places are finitely many.
LEMMA SkippedIsFinite ==
    ASSUME TypeOK
    PROVE  IsFiniteSet(Skipped) /\ Cardinality(Skipped) \in Nat
  <1>1. 0 \in Int /\ size - 1 \in Int
    BY DEF TypeOK
  <1>2. IsFiniteSet(0..(size - 1))
    BY <1>1, FS_Interval
  <1>3. Skipped \in SUBSET (0..(size - 1))
    BY DEF Skipped
  <1>4. IsFiniteSet(Skipped)
    BY <1>2, <1>3, FS_Subset
  <1>5. QED
    BY <1>4, FS_CardinalityType

\* A set with one element more at most, and one that also lost another.
LEMMA GainsOne ==
    ASSUME NEW S, IsFiniteSet(S), Cardinality(S) \in Nat, NEW a, NEW T,
           T \subseteq S \cup {a}
    PROVE  /\ Cardinality(T) <= Cardinality(S) + 1 /\ Cardinality(T) \in Nat
           /\ T \subseteq S => Cardinality(T) <= Cardinality(S)
  <1>1. /\ IsFiniteSet(S \cup {a})
        /\ Cardinality(S \cup {a}) = IF a \in S THEN Cardinality(S) ELSE Cardinality(S) + 1
    BY FS_AddElement
  <1>2. T \in SUBSET (S \cup {a})
    OBVIOUS
  <1>3. IsFiniteSet(T) /\ Cardinality(T) <= Cardinality(S \cup {a})
    BY <1>1, <1>2, FS_Subset
  <1>4. Cardinality(T) \in Nat
    BY <1>3, FS_CardinalityType
  <1>5. ASSUME T \subseteq S PROVE Cardinality(T) <= Cardinality(S)
    BY <1>5, FS_Subset
  <1>6. QED
    BY <1>1, <1>3, <1>4, <1>5

\* One element in exchange for another.
LEMMA Exchange ==
    ASSUME NEW S, IsFiniteSet(S), Cardinality(S) \in Nat, NEW a, NEW b \in S,
           NEW T, T \subseteq (S \ {b}) \cup {a}
    PROVE  Cardinality(T) <= Cardinality(S) /\ Cardinality(T) \in Nat
  <1>1. IsFiniteSet(S \ {b}) /\ Cardinality(S \ {b}) = Cardinality(S) - 1
    BY FS_RemoveElement
  <1>2. Cardinality(S \ {b}) \in Nat
    BY <1>1, FS_CardinalityType
  <1>3. Cardinality(T) <= Cardinality(S \ {b}) + 1 /\ Cardinality(T) \in Nat
    BY <1>1, <1>2, GainsOne
  <1>4. QED
    BY <1>1, <1>2, <1>3

\* A new id is ahead of the iterator, or takes up the distance it stands beyond
\* the last place.
LEMMA InsertKeepsIterInv ==
    ASSUME Inv, IterInv, NEW id \in Ids, NEW x \in Data, InsertStores(id, x)
    PROVE  IterInv'
  <1>1. /\ size \in Nat /\ index \in Nat /\ passed \in Nat /\ TypeOK
        /\ visited \subseteq Members
    BY SetSizes DEF Inv, TypeOK, Filled
  <1>2. /\ size' = size + 1 /\ dense'[size] = id /\ id \notin Members
        /\ \A k \in 0..(size - 1) : dense'[k] = dense[k]
    BY InsertEffect
  <1>3. UNCHANGED <<index, visited, passed>>
    BY DEF InsertStores, iterator
  <1>4. AheadIsNew'
    <2>1. ASSUME NEW k \in index..size PROVE dense'[k] \notin visited
      <3>1. CASE k = size
        BY <1>1, <1>2, <3>1
      <3>2. CASE k # size
        <4>1. k \in 0..(size - 1) /\ k \in index..(size - 1)
          BY <1>1, <2>1, <3>2
        <4>2. QED
          BY <1>2, <4>1 DEF IterInv, AheadIsNew
      <3>3. QED
        BY <3>1, <3>2
    <2>2. (size + 1) - 1 = size
      BY <1>1
    <2>3. QED
      BY <1>2, <1>3, <2>1, <2>2 DEF AheadIsNew
  <1>5. \A k \in Skipped' : k \in Skipped \/ (k = size /\ size < index)
    <2>1. TAKE k \in Skipped'
    <2>2. k \in 0..(size' - 1) /\ k < index /\ dense'[k] \notin visited
      BY <1>3 DEF Skipped
    <2>3. CASE k = size
      BY <2>2, <2>3
    <2>4. CASE k # size
      <3>1. k \in 0..(size - 1)
        BY <1>1, <1>2, <2>2, <2>4
      <3>2. QED
        BY <1>2, <2>2, <3>1 DEF Skipped
    <2>5. QED
      BY <2>3, <2>4
  <1>6. IsFiniteSet(Skipped) /\ Cardinality(Skipped) \in Nat
    BY <1>1, SkippedIsFinite
  <1>7. Skipped' \subseteq Skipped \cup {size}
    BY <1>5
  <1>8. /\ Cardinality(Skipped') <= Cardinality(Skipped) + 1
        /\ Cardinality(Skipped') \in Nat
        /\ Skipped' \subseteq Skipped => Cardinality(Skipped') <= Cardinality(Skipped)
    BY <1>6, <1>7, GainsOne
  <1>9. Cardinality(Skipped) + Beyond <= passed
    BY DEF IterInv
  <1>10. Beyond' = IF index > size + 1 THEN index - (size + 1) ELSE 0
    BY <1>2, <1>3 DEF Beyond
  <1>11. CASE size < index
    BY <1>1, <1>3, <1>4, <1>6, <1>8, <1>9, <1>10, <1>11 DEF IterInv, Beyond
  <1>12. CASE ~(size < index)
    <2>1. Skipped' \subseteq Skipped
      BY <1>5, <1>12
    <2>2. QED
      BY <1>1, <1>3, <1>4, <1>6, <1>8, <1>9, <1>10, <1>12, <2>1 DEF IterInv, Beyond
  <1>13. QED
    BY <1>11, <1>12

\* A removal ahead of the iterator moves nothing behind it; one behind it lets
\* it skip the element that moves, or stand one place further beyond the last.
LEMMA RemoveKeepsIterInv ==
    ASSUME Inv, IterInv, NEW id \in Ids, vf_sparse_set_remove(id)
    PROVE  IterInv'
  <1> DEFINE i == sparse[id]
             last == size - 1
  <1>1. /\ size \in Nat /\ index \in Nat /\ passed \in Nat /\ TypeOK
        /\ SparseDenseAgree /\ capacity \in Nat /\ size <= capacity
    BY SetSizes DEF Inv, TypeOK
  <1>2. /\ size \in Nat \ {0} /\ size' = size - 1 /\ i \in 0..(size - 1)
        /\ dense[i] = id /\ dense'[i] = dense[last]
        /\ \A k \in 0..(capacity - 1) \ {i} : dense'[k] = dense[k]
    BY RemoveEffect
  <1>3. /\ index' = index /\ visited' = visited \ {id}
        /\ passed' = IF i < index THEN passed + 1 ELSE passed
    BY DEF vf_sparse_set_remove
  <1>4. ASSUME NEW k \in 0..(size - 1), k # last
        PROVE  IF k = i THEN /\ dense'[k] = dense[last]
                             /\ dense[last] \notin visited' <=> dense[last] \notin visited
               ELSE /\ dense'[k] = dense[k]
                    /\ dense[k] \notin visited' <=> dense[k] \notin visited
    <2>1. \A j \in 0..(size - 1) : j # i => dense[j] # id
      BY <1>1, <1>2 DEF SparseDenseAgree
    <2>2. last \in 0..(size - 1) /\ k \in 0..(capacity - 1)
      BY <1>1, <1>2
    <2>3. CASE k = i
      <3>1. dense[last] # id
        BY <1>4, <2>1, <2>2, <2>3
      <3>2. QED
        BY <1>2, <1>3, <2>3, <3>1
    <2>4. CASE k # i
      <3>1. dense[k] # id
        BY <2>1, <2>4
      <3>2. QED
        BY <1>2, <1>3, <2>2, <2>4, <3>1
    <2>5. QED
      BY <2>3, <2>4
  <1>5. AheadIsNew'
    <2>1. ASSUME NEW k \in index..(size - 2) PROVE dense'[k] \notin visited'
      <3>1. /\ k \in 0..(size - 1) /\ k # last /\ k \in index..(size - 1)
            /\ last \in index..(size - 1)
        BY <1>1, <1>2, <2>1
      <3>2. dense[k] \notin visited /\ dense[last] \notin visited
        BY <3>1 DEF IterInv, AheadIsNew
      <3>3. QED
        BY <1>4, <3>1, <3>2
    <2>2. (size - 1) - 1 = size - 2
      BY <1>1
    <2>3. QED
      BY <1>2, <1>3, <2>1, <2>2 DEF AheadIsNew
  <1>6. ASSUME NEW k \in Skipped'
        PROVE  /\ k \in 0..(size - 1) /\ k # last /\ k < index
               /\ k # i => k \in Skipped
               /\ k = i => dense[last] \notin visited
    <2>1. k \in 0..(size' - 1) /\ k < index /\ dense'[k] \notin visited'
      BY <1>3 DEF Skipped
    <2>2. k \in 0..(size - 1) /\ k # last
      BY <1>1, <1>2, <2>1
    <2>3. QED
      BY <1>4, <2>1, <2>2 DEF Skipped
  <1>7. IsFiniteSet(Skipped) /\ Cardinality(Skipped) \in Nat
    BY <1>1, SkippedIsFinite
  <1>8. Skipped' \subseteq Skipped \cup {i}
    BY <1>6
  <1>9. /\ Cardinality(Skipped') <= Cardinality(Skipped) + 1
        /\ Cardinality(Skipped') \in Nat
        /\ Skipped' \subseteq Skipped => Cardinality(Skipped') <= Cardinality(Skipped)
    BY <1>7, <1>8, GainsOne
  <1>10. Cardinality(Skipped) + Beyond <= passed
    BY DEF IterInv
  <1>11. Beyond' = IF index > size - 1 THEN index - (size - 1) ELSE 0
    BY <1>2, <1>3 DEF Beyond
  <1>12. CASE ~(i < index)
    <2>1. Skipped' \subseteq Skipped
      BY <1>6, <1>12
    <2>2. Beyond' = 0 /\ Beyond = 0
      BY <1>1, <1>2, <1>11, <1>12 DEF Beyond
    <2>3. QED
      BY <1>1, <1>3, <1>5, <1>7, <1>9, <1>10, <1>12, <2>1, <2>2 DEF IterInv
  <1>13. CASE i < index /\ index < size
    <2>1. Beyond' = 0 /\ Beyond = 0
      BY <1>1, <1>11, <1>13 DEF Beyond
    <2>2. QED
      BY <1>1, <1>3, <1>5, <1>7, <1>9, <1>10, <1>13, <2>1 DEF IterInv
  <1>14. CASE i < index /\ ~(index < size)
    <2>1. Beyond' = Beyond + 1 /\ Beyond \in Nat
      BY <1>1, <1>11, <1>14 DEF Beyond
    <2>2. Cardinality(Skipped') <= Cardinality(Skipped)
      <3>1. CASE dense[last] \notin visited
        <4>1. last \in Skipped
          BY <1>1, <1>2, <1>14, <3>1 DEF Skipped
        <4>2. Skipped' \subseteq (Skipped \ {last}) \cup {i}
          BY <1>6
        <4>3. QED
          BY <1>7, <4>1, <4>2, Exchange
      <3>2. CASE dense[last] \in visited
        <4>1. Skipped' \subseteq Skipped
          BY <1>6, <3>2
        <4>2. QED
          BY <1>9, <4>1
      <3>3. QED
        BY <3>1, <3>2
    <2>3. QED
      BY <1>1, <1>3, <1>5, <1>7, <1>9, <1>10, <1>14, <2>1, <2>2 DEF IterInv
  <1>15. QED
    BY <1>12, <1>13, <1>14

\* A step of the iterator returns the id at its place and skips none.
LEMMA NextKeepsIterInv ==
    ASSUME Inv, IterInv, vf_sparse_set_iterator_next
    PROVE  IterInv'
  <1>1. /\ size \in Nat /\ index \in Nat /\ passed \in Nat /\ TypeOK /\ SparseDenseAgree
    BY SetSizes DEF Inv, TypeOK
  <1>2. /\ index < size /\ index' = index + 1 /\ visited' = visited \cup {dense[index]}
        /\ UNCHANGED <<dense, size, passed>>
    BY DEF vf_sparse_set_iterator_next, arrays
  <1>3. \A j, k \in 0..(size - 1) : dense[j] = dense[k] => j = k
    BY <1>1 DEF SparseDenseAgree
  <1>4. index \in 0..(size - 1)
    BY <1>1, <1>2
  <1>5. AheadIsNew'
    <2>1. ASSUME NEW k \in (index + 1)..(size - 1) PROVE dense[k] \notin visited'
      <3>1. k \in 0..(size - 1) /\ k \in index..(size - 1) /\ k # index
        BY <1>1, <2>1
      <3>2. QED
        BY <1>2, <1>3, <1>4, <3>1 DEF IterInv, AheadIsNew
    <2>2. QED
      BY <1>2, <2>1 DEF AheadIsNew
  <1>6. Skipped' \subseteq Skipped
    <2>1. ASSUME NEW k \in Skipped' PROVE k \in Skipped
      <3>1. k \in 0..(size - 1) /\ k < index + 1 /\ dense[k] \notin visited \cup {dense[index]}
        BY <1>2 DEF Skipped
      <3>2. k # index
        BY <3>1
      <3>3. k < index
        BY <1>1, <3>1, <3>2
      <3>4. QED
        BY <3>1, <3>3 DEF Skipped
    <2>2. QED
      BY <2>1
  <1>7. IsFiniteSet(Skipped) /\ Cardinality(Skipped) \in Nat
    BY <1>1, SkippedIsFinite
  <1>8. Cardinality(Skipped') <= Cardinality(Skipped) /\ Cardinality(Skipped') \in Nat
    BY <1>6, <1>7, GainsOne
  <1>9. Beyond = 0 /\ Beyond' = 0
    BY <1>1, <1>2 DEF Beyond
  <1>10. QED
    BY <1>1, <1>2, <1>5, <1>7, <1>8, <1>9 DEF IterInv

\* A new iterator has returned nothing and stands before the first place.
LEMMA StartIterInv ==
    ASSUME size \in Nat, index = 0, visited = {}, passed = 0
    PROVE  IterInv
  <1>1. Skipped = {}
    BY DEF Skipped
  <1>2. Beyond = 0
    BY DEF Beyond
  <1>3. QED
    BY <1>1, <1>2, FS_EmptySet DEF IterInv, AheadIsNew

\* Every call keeps the account of the iterator.
LEMMA StepKeepsIterInv == Inv /\ IterInv /\ [Next]_vars => IterInv'
  <1>1. SUFFICES ASSUME Inv, IterInv, [Next]_vars PROVE IterInv'
    OBVIOUS
  <1>2. ASSUME UNCHANGED <<dense, size, index, visited, passed>> PROVE IterInv'
    <2>1. Skipped' = Skipped /\ Beyond' = Beyond /\ AheadIsNew' = AheadIsNew
      BY <1>2 DEF Skipped, Beyond, AheadIsNew
    <2>2. QED
      BY <1>1, <1>2, <2>1 DEF IterInv
  <1>3. ASSUME NEW id \in Ids, Insert(id) PROVE IterInv'
    <2>1. CASE InsertOverruns(id) \/ InsertOutOfMemory(id)
      BY <1>2, <2>1 DEF InsertOverruns, InsertOutOfMemory, arrays, iterator
    <2>2. ASSUME NEW x \in Data, InsertStores(id, x) PROVE IterInv'
      BY <1>1, <2>2, InsertKeepsIterInv
    <2>3. QED
      BY <1>3, <2>1, <2>2 DEF Insert
  <1>4. ASSUME NEW id \in Ids, NEW x \in Data, SetData(id, x) PROVE IterInv'
    BY <1>2, <1>4 DEF SetData, iterator
  <1>5. ASSUME NEW id \in Ids, vf_sparse_set_remove(id) PROVE IterInv'
    BY <1>1, <1>5, RemoveKeepsIterInv
  <1>6. CASE vf_sparse_set_iterator
    <2>1. /\ size \in Nat /\ size' = size /\ index' = 0 /\ visited' = {}
          /\ passed' = 0
      BY <1>1, <1>6 DEF vf_sparse_set_iterator, arrays, Inv, TypeOK
    <2>2. Skipped' = {}
      BY <2>1 DEF Skipped
    <2>3. Beyond' = 0
      BY <2>1 DEF Beyond
    <2>4. QED
      BY <2>1, <2>2, <2>3, FS_EmptySet DEF IterInv, AheadIsNew
  <1>7. CASE vf_sparse_set_iterator_next
    BY <1>1, <1>7, NextKeepsIterInv
  <1>8. CASE vf_sparse_set_destroy \/ UNCHANGED vars
    BY <1>2, <1>8 DEF vf_sparse_set_destroy, vars, arrays, iterator
  <1>9. QED
    BY <1>1, <1>3, <1>4, <1>5, <1>6, <1>7, <1>8 DEF Next

\* An iterator returns no id twice, and passes over no more elements than were
\* removed behind it, whatever is inserted, removed and grown meanwhile.
THEOREM IteratorMissesLittle == Spec => []IteratorMissesOnlyByRemoval
  <1>1. Init => IterInv
    BY InitInv, StartIterInv DEF Init, Inv, TypeOK
  <1>2. Inv /\ IterInv => IteratorMissesOnlyByRemoval
    <2>1. SUFFICES ASSUME Inv, IterInv PROVE IteratorMissesOnlyByRemoval
      OBVIOUS
    <2>2. TypeOK /\ size \in Nat /\ index \in Nat /\ passed \in Nat
      BY <2>1, SetSizes DEF Inv, TypeOK
    <2>3. Beyond \in Nat /\ Cardinality(Skipped) + Beyond <= passed /\ AheadIsNew
      BY <2>1, <2>2 DEF Beyond, IterInv
    <2>4. Cardinality(Skipped) <= passed
      BY <2>2, <2>3, SkippedIsFinite
    <2>5. QED
      BY <2>3, <2>4 DEF IteratorMissesOnlyByRemoval, AheadIsNew, Skipped
  <1>3. QED
    BY <1>1, <1>2, InvHolds, StepKeepsIterInv, PTL DEF Spec
=============================================================================
