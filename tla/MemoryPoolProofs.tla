-------------------------- MODULE MemoryPoolProofs --------------------------
(***************************************************************************)
(* Theorems about MemoryPool for every first capacity, every bound on the  *)
(* memory and whatever clients write to their blocks.                      *)
(***************************************************************************)
EXTENDS MemoryPool, TLAPS, FiniteSetTheorems, SequenceTheorems

-----------------------------------------------------------------------------
(* The inductive invariant *)

\* The pointers in h that point into the piece of memory m.
Current(h, m) == {p \in h : p.memory = m}

\* What the client holds is finite, and nothing points into memory that the
\* pool has yet to get: the block a growth hands out is a new one.
HeldIsOld == IsFiniteSet(held) /\ \A p \in held : p.memory <= memory

\* EveryBlockHasOneOwner, which is about pools that are alive, in parts.
HeldInPool == \A p \in Current(held, memory) : InPool(p)

FreedInPool == \A k \in 1..Len(freed) : InPool(freed[k]) /\ freed[k] \notin held

FreedOnce == \A j, k \in 1..Len(freed) : freed[j] = freed[k] => j = k

BlocksAddUp == moved + Cardinality(Current(held, memory)) + Len(freed) = used

Owned == HeldIsOld /\ HeldInPool /\ FreedInPool /\ FreedOnce /\ BlocksAddUp

Inv == TypeOK /\ FreeListIsFreed /\ (alive => Owned)

\* The parts say what the property says.
LEMMA OwnedIsProperty == (alive => Owned) => EveryBlockHasOneOwner
  BY DEF Owned, HeldInPool, FreedInPool, FreedOnce, BlocksAddUp, Current,
         EveryBlockHasOneOwner

\* A new pool satisfies the invariant.
LEMMA InvInitially == Init => Inv
  <1> SUFFICES ASSUME Init PROVE Inv
    OBVIOUS
  <1>1. capacity \in Nat \ {0, 1}
    BY PoolAssumption DEF Init
  <1>2. PICK x \in Data : block = [b \in 0..(capacity - 1) |-> x]
    BY DEF Init
  <1>3. TypeOK
    <2>1. block \in [0..(capacity - 1) -> Data \cup {NULL} \cup Pointers]
      BY <1>2
    <2>2. used \in 0..capacity
      BY <1>1 DEF Init
    <2>3. QED
      BY <1>1, <2>1, <2>2 DEF Init, TypeOK
  <1>4. freed = <<>> /\ Len(freed) = 0 /\ held = {} /\ used = 0 /\ moved = 0 /\ free_list = NULL
    BY DEF Init
  <1>5. FreeListIsFreed
    BY <1>4 DEF FreeListIsFreed
  <1>6. Current(held, memory) = {}
    BY <1>4 DEF Current
  <1>7. Owned
    BY <1>4, <1>6, FS_EmptySet DEF Owned, HeldIsOld, HeldInPool, FreedInPool, FreedOnce, BlocksAddUp
  <1>8. QED
    BY <1>3, <1>5, <1>7 DEF Inv

-----------------------------------------------------------------------------
(* Counting and telling blocks apart *)

\* Current pointers are finitely many.
LEMMA CurrentIsFinite ==
    ASSUME NEW h, IsFiniteSet(h), NEW m
    PROVE  IsFiniteSet(Current(h, m)) /\ Cardinality(Current(h, m)) \in Nat
  <1>1. Current(h, m) \in SUBSET h
    BY DEF Current
  <1>2. QED
    BY <1>1, FS_Subset, FS_CardinalityType

\* Handing out a block that the client does not hold makes one more.
LEMMA CurrentGains ==
    ASSUME NEW h, IsFiniteSet(h), NEW p, p \notin h
    PROVE  Cardinality(Current(h \cup {p}, p.memory)) = Cardinality(Current(h, p.memory)) + 1
  <1>1. Current(h \cup {p}, p.memory) = Current(h, p.memory) \cup {p}
    BY DEF Current
  <1>2. p \notin Current(h, p.memory)
    BY DEF Current
  <1>3. IsFiniteSet(Current(h, p.memory))
    BY CurrentIsFinite
  <1>4. QED
    BY <1>1, <1>2, <1>3, FS_AddElement

\* Giving one back leaves one less.
LEMMA CurrentLoses ==
    ASSUME NEW h, IsFiniteSet(h), NEW p \in h
    PROVE  Cardinality(Current(h \ {p}, p.memory)) = Cardinality(Current(h, p.memory)) - 1
  <1>1. Current(h \ {p}, p.memory) = Current(h, p.memory) \ {p}
    BY DEF Current
  <1>2. p \in Current(h, p.memory)
    BY DEF Current
  <1>3. IsFiniteSet(Current(h, p.memory))
    BY CurrentIsFinite
  <1>4. QED
    BY <1>1, <1>2, <1>3, FS_RemoveElement

\* Two pointers into the same piece of memory differ in their blocks.
LEMMA BlocksDiffer ==
    ASSUME NEW p \in Pointers, NEW q \in Pointers, p.memory = q.memory, p # q
    PROVE  p.block # q.block
  BY DEF Pointers

\* A pointer the pool makes is a pointer with these two parts.
LEMMA PointerParts ==
    ASSUME NEW m \in Nat, NEW b \in Nat
    PROVE  /\ Pointer(m, b) \in Pointers
           /\ Pointer(m, b).memory = m /\ Pointer(m, b).block = b
  BY DEF Pointer, Pointers

\* A current pointer is a block of the pool's memory, also one on the free list.
LEMMA PointsInside ==
    ASSUME TypeOK, NEW p \in Pointers, InPool(p)
    PROVE  p.block \in 0..(capacity - 1) /\ p.block < used
  BY DEF TypeOK, InPool, Pointers

-----------------------------------------------------------------------------
(* vf_memory_pool_alloc *)

\* The free list ends exactly when nothing is on it.
LEMMA NothingFreed ==
    ASSUME TypeOK, FreeListIsFreed
    PROVE  /\ free_list = NULL <=> freed = <<>>
           /\ freed # <<>> => free_list = freed[1] /\ Len(freed) >= 1
  <1>1. freed \in Seq(Pointers)
    BY DEF TypeOK
  <1>2. CASE freed = <<>>
    BY <1>2 DEF FreeListIsFreed
  <1>3. CASE freed # <<>>
    <2>1. Len(freed) >= 1 /\ Head(freed) = freed[1] /\ freed[1] \in Pointers
      BY <1>1, <1>3
    <2>2. free_list = freed[1]
      BY <1>3, <2>1 DEF FreeListIsFreed
    <2>3. NULL \notin Pointers
      BY PoolAssumption DEF Pointers
    <2>4. QED
      BY <1>3, <2>1, <2>2, <2>3
  <1>4. QED
    BY <1>2, <1>3

\* What is left of the free list when its head is handed out.
LEMMA Shortened ==
    ASSUME NEW s \in Seq(Pointers), Len(s) >= 1
    PROVE  /\ SubSeq(s, 2, Len(s)) \in Seq(Pointers)
           /\ Len(SubSeq(s, 2, Len(s))) = Len(s) - 1
           /\ \A k \in 1..(Len(s) - 1) : SubSeq(s, 2, Len(s))[k] = s[k + 1]
           /\ SubSeq(s, 2, Len(s)) = <<>> <=> Len(s) = 1
           /\ Len(s) > 1 => Head(SubSeq(s, 2, Len(s))) = s[2]
  <1> DEFINE t == SubSeq(s, 2, Len(s))
  <1> DEFINE n == Len(s)
  <1>n. n \in Nat /\ n >= 1 /\ \A i \in 2..n : s[i] \in Pointers
    OBVIOUS
  <1> HIDE DEF n
  <1>s. /\ SubSeq(s, 2, n) \in Seq(Pointers)
        /\ Len(SubSeq(s, 2, n)) = IF 2 <= n THEN n - 2 + 1 ELSE 0
        /\ \A i \in 1..(n - 2 + 1) : SubSeq(s, 2, n)[i] = s[2 + i - 1]
    BY <1>n, SubSeqProperties
  <1>l. Len(SubSeq(s, 2, n)) = n - 1
    BY <1>n, <1>s
  <1>1. t \in Seq(Pointers) /\ Len(t) = Len(s) - 1
    BY <1>s, <1>l DEF n
  <1>2. \A k \in 1..(Len(s) - 1) : t[k] = s[k + 1]
    BY <1>n, <1>s DEF n
  <1> HIDE DEF t
  <1>3. t = <<>> <=> Len(s) = 1
    BY <1>1
  <1>4. Len(s) > 1 => Head(t) = s[2]
    BY <1>1, <1>2
  <1>5. QED
    BY <1>1, <1>2, <1>3, <1>4 DEF t

\* Handing out the head of the free list: the next freed block is the new head.
LEMMA AllocFreedKeeps == Inv /\ AllocFreed => Inv'
  <1> SUFFICES ASSUME Inv, AllocFreed PROVE Inv'
    OBVIOUS
  <1>1. TypeOK /\ FreeListIsFreed /\ Owned /\ alive
    BY DEF Inv, AllocFreed, Usable
  <1>2. freed \in Seq(Pointers) /\ Len(freed) \in Nat /\ Len(freed) >= 1 /\ free_list = freed[1]
    BY <1>1, NothingFreed DEF AllocFreed, TypeOK
  <1>3. freed[1] \in Pointers /\ InPool(freed[1]) /\ freed[1] \notin held
    BY <1>1, <1>2 DEF Owned, FreedInPool
  <1> DEFINE t == SubSeq(freed, 2, Len(freed))
  <1>4. freed' = t /\ held' = held \cup {freed[1]} /\ free_list' = block[freed[1].block]
    BY <1>2 DEF AllocFreed
  <1>5. /\ t \in Seq(Pointers) /\ Len(t) = Len(freed) - 1
        /\ \A k \in 1..(Len(freed) - 1) : t[k] = freed[k + 1]
        /\ t = <<>> <=> Len(freed) = 1
        /\ Len(freed) > 1 => Head(t) = freed[2]
    BY <1>2, Shortened
  <1> HIDE DEF t
  <1>6. UNCHANGED <<memory, block, capacity, used, alive, undefined, moved>>
    BY DEF AllocFreed
  <1>7. free_list' = IF Len(freed) = 1 THEN NULL ELSE freed[2]
    <2> DEFINE n == Len(freed)
    <2>n. n \in Nat /\ n >= 1
      BY <1>2
    <2> HIDE DEF n
    <2>m. 1 \in 1..n /\ (1 < n <=> n # 1)
      BY <2>n
    <2>1. 1 \in 1..Len(freed) /\ (1 < Len(freed) <=> Len(freed) # 1)
      BY <2>m DEF n
    <2>2. block[freed[1].block] = IF 1 < Len(freed) THEN freed[1 + 1] ELSE NULL
      BY <1>1, <2>1 DEF FreeListIsFreed
    <2>3. QED
      BY <1>4, <2>1, <2>2
  <1>8. free_list' \in {NULL} \cup Pointers
    <2> DEFINE n == Len(freed)
    <2>n. n \in Nat /\ n >= 1
      BY <1>2
    <2> HIDE DEF n
    <2>m. n # 1 => 2 \in 1..n
      BY <2>n
    <2>1. Len(freed) # 1 => 2 \in 1..Len(freed)
      BY <2>m DEF n
    <2>2. QED
      BY <1>2, <1>7, <2>1
  <1>9. TypeOK'
    BY <1>1, <1>3, <1>4, <1>5, <1>6, <1>8 DEF TypeOK
  <1>10. FreeListIsFreed'
    <2>1. free_list' = IF t = <<>> THEN NULL ELSE Head(t)
      BY <1>2, <1>5, <1>7
    <2>2. ASSUME NEW k \in 1..Len(t)
          PROVE  block[t[k].block] = IF k < Len(t) THEN t[k + 1] ELSE NULL
      <3>1. k + 1 \in 1..Len(freed) /\ t[k] = freed[k + 1]
        BY <1>2, <1>5
      <3>2. block[freed[k + 1].block] = IF k + 1 < Len(freed) THEN freed[k + 2] ELSE NULL
        BY <1>1, <1>2, <3>1 DEF FreeListIsFreed
      <3>3. k < Len(t) => t[k + 1] = freed[k + 2]
        BY <1>2, <1>5
      <3>4. k < Len(t) <=> k + 1 < Len(freed)
        BY <1>2, <1>5
      <3>5. QED
        BY <3>1, <3>2, <3>3, <3>4
    <2>3. QED
      BY <1>4, <1>6, <2>1, <2>2 DEF FreeListIsFreed
  <1>11. Owned'
    <2>1. freed[1].memory = memory
      BY <1>3 DEF InPool
    <2>2. HeldIsOld'
      <3>1. IsFiniteSet(held \cup {freed[1]})
        BY <1>1, FS_AddElement DEF Owned, HeldIsOld
      <3>2. memory <= memory
        BY <1>1 DEF TypeOK
      <3>3. QED
        BY <1>1, <1>4, <1>6, <2>1, <3>1, <3>2 DEF Owned, HeldIsOld
    <2>3. HeldInPool'
      BY <1>1, <1>3, <1>4, <1>6 DEF Owned, HeldInPool, InPool, Current
    <2>4. ASSUME NEW k \in 1..Len(t)
          PROVE  InPool(t[k]) /\ t[k] \notin held \cup {freed[1]}
      <3>1. k + 1 \in 1..Len(freed) /\ 1 \in 1..Len(freed) /\ k + 1 # 1 /\ t[k] = freed[k + 1]
        BY <1>2, <1>5
      <3>2. freed[k + 1] # freed[1]
        BY <1>1, <3>1 DEF Owned, FreedOnce
      <3>3. QED
        BY <1>1, <3>1, <3>2 DEF Owned, FreedInPool
    <2>5. FreedInPool'
      BY <1>4, <1>6, <2>4 DEF FreedInPool, InPool
    <2>6. ASSUME NEW j \in 1..Len(t), NEW k \in 1..Len(t), t[j] = t[k]
          PROVE  j = k
      <3>1. j + 1 \in 1..Len(freed) /\ k + 1 \in 1..Len(freed)
        BY <1>2, <1>5
      <3>2. freed[j + 1] = freed[k + 1]
        BY <1>2, <1>5, <2>6
      <3>3. j + 1 = k + 1
        BY <1>1, <3>1, <3>2 DEF Owned, FreedOnce
      <3>4. QED
        BY <3>3
    <2>7. FreedOnce'
      BY <1>4, <2>6 DEF FreedOnce
    <2>8. Cardinality(Current(held \cup {freed[1]}, memory)) = Cardinality(Current(held, memory)) + 1
      BY <1>1, <1>3, <2>1, CurrentGains DEF Owned, HeldIsOld
    <2>9. Cardinality(Current(held, memory)) \in Nat
      BY <1>1, CurrentIsFinite DEF Owned, HeldIsOld
    <2>10. BlocksAddUp'
      BY <1>1, <1>2, <1>4, <1>5, <1>6, <2>8, <2>9 DEF Owned, BlocksAddUp, TypeOK
    <2>11. QED
      BY <2>2, <2>3, <2>5, <2>7, <2>10 DEF Owned
  <1>12. QED
    BY <1>9, <1>10, <1>11 DEF Inv
\* Handing out the next block that was never used.
LEMMA AllocNextKeeps == Inv /\ AllocNext => Inv'
  <1> SUFFICES ASSUME Inv, AllocNext PROVE Inv'
    OBVIOUS
  <1>1. TypeOK /\ FreeListIsFreed /\ Owned /\ alive
    BY DEF Inv, AllocNext, Usable
  <1> DEFINE p == Pointer(memory, used)
  <1>2. used \in Nat /\ memory \in Nat /\ used < capacity
    BY <1>1 DEF TypeOK, AllocNext
  <1>3. p \in Pointers /\ p.memory = memory /\ p.block = used
    BY <1>2, PointerParts
  <1>4. held' = held \cup {p} /\ used' = used + 1
        /\ UNCHANGED <<memory, block, capacity, free_list, alive, undefined, freed, moved>>
    BY DEF AllocNext, history
  <1> HIDE DEF p
  <1>5. freed = <<>> /\ Len(freed) = 0
    BY <1>1, NothingFreed DEF AllocNext
  <1>6. TypeOK'
    <2>1. used' \in 0..capacity'
      BY <1>1, <1>2, <1>4 DEF TypeOK
    <2>2. QED
      BY <1>1, <1>3, <1>4, <2>1 DEF TypeOK
  <1>7. FreeListIsFreed'
    BY <1>1, <1>4 DEF FreeListIsFreed
  <1>8. p \notin held
    BY <1>1, <1>2, <1>3 DEF Owned, HeldInPool, Current, InPool, TypeOK
  <1>9. IsFiniteSet(held)
    BY <1>1 DEF Owned, HeldIsOld
  <1>10. Cardinality(Current(held \cup {p}, memory)) = Cardinality(Current(held, memory)) + 1
    BY <1>3, <1>8, <1>9, CurrentGains
  <1>11. Cardinality(Current(held, memory)) \in Nat
    BY <1>9, CurrentIsFinite
  <1>12. BlocksAddUp'
    BY <1>1, <1>2, <1>4, <1>5, <1>10, <1>11 DEF Owned, BlocksAddUp, TypeOK
  <1>13. moved <= used
    BY <1>1, <1>2, <1>5, <1>11 DEF Owned, BlocksAddUp, TypeOK
  <1>14. HeldInPool'
    <2> SUFFICES ASSUME NEW q \in held \cup {p}, q.memory = memory
                 PROVE  q.block \in moved..((used + 1) - 1)
      BY <1>4 DEF HeldInPool, Current, InPool
    <2>1. CASE q = p
      BY <1>1, <1>2, <1>3, <1>13, <2>1 DEF TypeOK
    <2>2. CASE q \in held
      BY <1>1, <1>2, <2>2 DEF Owned, HeldInPool, Current, InPool, TypeOK
    <2>3. QED
      BY <2>1, <2>2
  <1>15. HeldIsOld'
    <2>1. IsFiniteSet(held')
      BY <1>4, <1>9, FS_AddElement
    <2>2. QED
      BY <1>1, <1>2, <1>3, <1>4, <2>1 DEF Owned, HeldIsOld
  <1>16. FreedInPool' /\ FreedOnce'
    BY <1>4, <1>5 DEF FreedInPool, FreedOnce
  <1>17. QED
    BY <1>6, <1>7, <1>12, <1>14, <1>15, <1>16 DEF Inv, Owned

\* Growth: the blocks move to new memory, where the client holds the new one only.
LEMMA AllocGrowsKeeps == Inv /\ AllocGrows => Inv'
  <1> SUFFICES ASSUME Inv, AllocGrows PROVE Inv'
    OBVIOUS
  <1>1. TypeOK /\ FreeListIsFreed /\ Owned /\ alive
    BY DEF Inv, AllocGrows, Usable
  <1>2. memory \in Nat /\ capacity \in Nat \ {0, 1} /\ used = capacity
    BY <1>1 DEF TypeOK, AllocGrows
  <1>3. Grown \in Nat \ {0, 1} /\ used < Grown
    BY <1>2 DEF Grown
  <1>4. memory' = memory + 1 /\ capacity' = Grown /\ used' = used + 1 /\ moved' = used
        /\ UNCHANGED <<free_list, alive, undefined, freed>>
    BY DEF AllocGrows
  <1> DEFINE p == Pointer(memory', used)
  <1>5. p \in Pointers /\ p.memory = memory' /\ p.block = used
    BY <1>2, <1>4, PointerParts
  <1>6. held' = held \cup {p}
    BY DEF AllocGrows
  <1> HIDE DEF p
  <1>7. freed = <<>> /\ Len(freed) = 0
    BY <1>1, NothingFreed DEF AllocGrows
  <1>8. TypeOK'
    <2>1. PICK x \in Data : block' = [b \in 0..(Grown - 1) |-> IF b < used THEN block[b] ELSE x]
      BY DEF AllocGrows
    <2>2. \A b \in 0..(Grown - 1) : b < used => b \in 0..(capacity - 1)
      BY <1>2, <1>3
    <2>3. \A b \in 0..(capacity - 1) : block[b] \in Data \cup {NULL} \cup Pointers
      BY <1>1 DEF TypeOK
    <2>4. block' \in [0..(Grown - 1) -> Data \cup {NULL} \cup Pointers]
      BY <2>1, <2>2, <2>3
    <2>5. used' \in 0..capacity' /\ memory' \in Nat /\ capacity' \in Nat \ {0, 1} /\ moved' \in Nat
      BY <1>2, <1>3, <1>4
    <2>6. QED
      BY <1>1, <1>4, <1>5, <1>6, <2>4, <2>5 DEF TypeOK
  <1>9. FreeListIsFreed'
    BY <1>1, <1>4, <1>7 DEF FreeListIsFreed
  <1>10. \A q \in held : q.memory < memory'
    BY <1>1, <1>2, <1>4 DEF Owned, HeldIsOld, TypeOK, Pointers
  <1>11. Current(held', memory') = {p}
    BY <1>2, <1>4, <1>5, <1>6, <1>10 DEF Current
  <1>12. Cardinality(Current(held', memory')) = 1
    BY <1>11, FS_Singleton
  <1>13. BlocksAddUp'
    BY <1>2, <1>4, <1>7, <1>12 DEF BlocksAddUp
  <1>14. HeldInPool'
    BY <1>2, <1>4, <1>5, <1>11 DEF HeldInPool, InPool
  <1>15. HeldIsOld'
    <2>1. IsFiniteSet(held')
      BY <1>1, <1>6, FS_AddElement DEF Owned, HeldIsOld
    <2>2. \A q \in held : q.memory <= memory'
      BY <1>1, <1>2, <1>4 DEF Owned, HeldIsOld, TypeOK, Pointers
    <2>3. p.memory <= memory'
      BY <1>2, <1>4, <1>5
    <2>4. QED
      BY <1>6, <2>1, <2>2, <2>3 DEF HeldIsOld
  <1>16. FreedInPool' /\ FreedOnce'
    BY <1>4, <1>7 DEF FreedInPool, FreedOnce
  <1>17. QED
    BY <1>8, <1>9, <1>13, <1>14, <1>15, <1>16 DEF Inv, Owned

-----------------------------------------------------------------------------
(* The client's store, vf_memory_pool_free, _reset and _destroy *)

\* A store to a block the client holds touches no block of the free list.
LEMMA WriteKeeps ==
    ASSUME Inv, NEW p \in held, NEW x \in Data, Write(p, x)
    PROVE  Inv'
  <1>1. TypeOK /\ FreeListIsFreed /\ Owned /\ alive
    BY DEF Inv, Write, Usable
  <1>2. p \in Pointers /\ p.memory = memory /\ InPool(p)
    BY <1>1 DEF Write, TypeOK, Owned, HeldInPool, Current
  <1>3. p.block \in 0..(capacity - 1)
    BY <1>1, <1>2, PointsInside
  <1>4. block' = [block EXCEPT ![p.block] = x]
        /\ UNCHANGED <<memory, capacity, used, free_list, alive, undefined, held, freed, moved>>
    BY DEF Write, history
  <1>5. TypeOK'
    <2>1. block' \in [0..(capacity - 1) -> Data \cup {NULL} \cup Pointers]
      BY <1>1, <1>3, <1>4 DEF TypeOK
    <2>2. QED
      BY <1>1, <1>4, <2>1 DEF TypeOK
  <1>6. FreeListIsFreed'
    <2>1. ASSUME NEW k \in 1..Len(freed)
          PROVE  block'[freed[k].block] = block[freed[k].block]
      <3>1. freed[k] \in Pointers /\ InPool(freed[k]) /\ freed[k] \notin held
        BY <1>1 DEF TypeOK, Owned, FreedInPool
      <3>2. freed[k].memory = p.memory
        BY <1>2, <3>1 DEF InPool
      <3>3. freed[k].block # p.block
        BY <1>2, <3>1, <3>2, BlocksDiffer
      <3>4. freed[k].block \in 0..(capacity - 1)
        BY <1>1, <3>1, PointsInside
      <3>5. QED
        BY <1>1, <1>4, <3>3, <3>4 DEF TypeOK
    <2>2. QED
      BY <1>1, <1>4, <2>1 DEF FreeListIsFreed
  <1>7. Owned'
    BY <1>1, <1>4 DEF Owned, HeldIsOld, HeldInPool, FreedInPool, FreedOnce, BlocksAddUp,
                      InPool, Current
  <1>8. QED
    BY <1>5, <1>6, <1>7 DEF Inv

\* A block put in front of a sequence of pointers.
LEMMA Lengthened ==
    ASSUME NEW s \in Seq(Pointers), NEW p \in Pointers
    PROVE  /\ <<p>> \o s \in Seq(Pointers)
           /\ Len(<<p>> \o s) = Len(s) + 1
           /\ Len(s) \in Nat
           /\ (<<p>> \o s)[1] = p /\ Head(<<p>> \o s) = p /\ <<p>> \o s # <<>>
           /\ \A k \in 2..(Len(s) + 1) : (<<p>> \o s)[k] = s[k - 1]
  <1> DEFINE t == <<p>> \o s
  <1>1. t \in Seq(Pointers) /\ Len(t) = Len(s) + 1 /\ Len(s) \in Nat /\ t[1] = p
    OBVIOUS
  <1>2. \A k \in 2..(Len(s) + 1) : t[k] = s[k - 1]
    OBVIOUS
  <1> HIDE DEF t
  <1>3. Head(t) = p /\ t # <<>>
    BY <1>1
  <1>4. QED
    BY <1>1, <1>2, <1>3 DEF t

\* A freed block becomes the head of the list and points to the old head.
LEMMA FreeKeeps ==
    ASSUME Inv, NEW p \in held, vf_memory_pool_free(p)
    PROVE  Inv'
  <1>1. TypeOK /\ FreeListIsFreed /\ Owned /\ alive
    BY DEF Inv, vf_memory_pool_free, Usable
  <1>2. p \in Pointers /\ p.memory = memory /\ InPool(p)
    BY <1>1 DEF vf_memory_pool_free, TypeOK, Owned, HeldInPool, Current
  <1>3. p.block \in 0..(capacity - 1)
    BY <1>1, <1>2, PointsInside
  <1> DEFINE t == <<p>> \o freed
  <1>4. block' = [block EXCEPT ![p.block] = free_list] /\ free_list' = p
        /\ held' = held \ {p} /\ freed' = t
        /\ UNCHANGED <<memory, capacity, used, alive, undefined, moved>>
    BY DEF vf_memory_pool_free
  <1>5. /\ t \in Seq(Pointers) /\ Len(t) = Len(freed) + 1 /\ Len(freed) \in Nat
        /\ t[1] = p /\ Head(t) = p /\ t # <<>>
        /\ \A k \in 2..(Len(freed) + 1) : t[k] = freed[k - 1]
    BY <1>1, <1>2, Lengthened DEF TypeOK
  <1> HIDE DEF t
  <1>6. free_list \in {NULL} \cup Pointers
    BY <1>1 DEF TypeOK
  <1>7. TypeOK'
    <2>1. block' \in [0..(capacity - 1) -> Data \cup {NULL} \cup Pointers]
      BY <1>1, <1>3, <1>4, <1>6 DEF TypeOK
    <2>2. QED
      BY <1>1, <1>2, <1>4, <1>5, <2>1 DEF TypeOK
  <1>8. \A k \in 1..Len(freed) : block'[freed[k].block] = block[freed[k].block]
    <2> TAKE k \in 1..Len(freed)
    <2>1. freed[k] \in Pointers /\ InPool(freed[k]) /\ freed[k] \notin held
      BY <1>1 DEF TypeOK, Owned, FreedInPool
    <2>2. freed[k].memory = p.memory
      BY <1>2, <2>1 DEF InPool
    <2>3. freed[k].block # p.block
      BY <1>2, <2>1, <2>2, BlocksDiffer
    <2>4. freed[k].block \in 0..(capacity - 1)
      BY <1>1, <2>1, PointsInside
    <2>5. QED
      BY <1>1, <1>4, <2>3, <2>4 DEF TypeOK
  <1>9. FreeListIsFreed'
    <2>1. free_list' = IF t = <<>> THEN NULL ELSE Head(t)
      BY <1>4, <1>5
    <2>2. ASSUME NEW k \in 1..Len(t)
          PROVE  block'[t[k].block] = IF k < Len(t) THEN t[k + 1] ELSE NULL
      <3>1. CASE k = 1
        <4>1. block'[t[k].block] = free_list
          BY <1>1, <1>3, <1>4, <1>5, <3>1 DEF TypeOK
        <4>2. CASE freed = <<>>
          <5>1. free_list = NULL /\ Len(freed) = 0
            BY <1>1, <4>2, NothingFreed
          <5>2. ~(k < Len(t))
            BY <1>5, <3>1, <5>1
          <5>3. QED
            BY <4>1, <5>1, <5>2
        <4>3. CASE freed # <<>>
          <5>1. free_list = freed[1] /\ Len(freed) >= 1
            BY <1>1, <4>3, NothingFreed
          <5>2. k < Len(t) /\ k + 1 = 2 /\ 2 \in 2..(Len(freed) + 1)
            BY <1>5, <3>1, <5>1
          <5>3. t[2] = freed[2 - 1]
            BY <1>5, <5>2
          <5>4. QED
            BY <4>1, <5>1, <5>2, <5>3
        <4>4. QED
          BY <4>2, <4>3
      <3>2. CASE k # 1
        <4>1. k \in 2..(Len(freed) + 1) /\ k - 1 \in 1..Len(freed)
          BY <1>5, <3>2
        <4>2. t[k] = freed[k - 1]
          BY <1>5, <4>1
        <4>3. block[freed[k - 1].block]
                = IF k - 1 < Len(freed) THEN freed[(k - 1) + 1] ELSE NULL
          BY <1>1, <4>1 DEF FreeListIsFreed
        <4>4. k < Len(t) <=> k - 1 < Len(freed)
          BY <1>5, <4>1
        <4>5. k < Len(t) => t[k + 1] = freed[(k - 1) + 1]
          BY <1>5, <4>1
        <4>6. QED
          BY <1>8, <4>1, <4>2, <4>3, <4>4, <4>5
      <3>3. QED
        BY <3>1, <3>2
    <2>3. QED
      BY <1>4, <2>1, <2>2 DEF FreeListIsFreed
  <1>10. HeldIsOld'
    <2>1. IsFiniteSet(held \ {p})
      BY <1>1, FS_RemoveElement DEF Owned, HeldIsOld
    <2>2. QED
      BY <1>1, <1>4, <2>1 DEF Owned, HeldIsOld
  <1>11. HeldInPool'
    BY <1>1, <1>4 DEF Owned, HeldInPool, Current, InPool
  <1>12. \A k \in 1..Len(t) : \/ k = 1 /\ t[k] = p
                              \/ k - 1 \in 1..Len(freed) /\ t[k] = freed[k - 1]
    <2> TAKE k \in 1..Len(t)
    <2>1. k # 1 => k \in 2..(Len(freed) + 1) /\ k - 1 \in 1..Len(freed)
      BY <1>5
    <2>2. QED
      BY <1>5, <2>1
  <1>13. \A k \in 1..Len(freed) : InPool(freed[k]) /\ freed[k] \notin held
    BY <1>1 DEF Owned, FreedInPool
  <1>14. FreedInPool'
    <2>1. \A k \in 1..Len(t) : InPool(t[k]) /\ t[k] \notin held \ {p}
      BY <1>2, <1>12, <1>13
    <2>2. QED
      BY <1>4, <2>1 DEF FreedInPool, InPool
  <1>15. FreedOnce'
    <2>1. ASSUME NEW j \in 1..Len(t), NEW k \in 1..Len(t), t[j] = t[k] PROVE j = k
      <3>1. j = 1 <=> k = 1
        BY <1>12, <1>13, <2>1
      <3>2. CASE j # 1
        <4>1. j - 1 \in 1..Len(freed) /\ k - 1 \in 1..Len(freed) /\ freed[j - 1] = freed[k - 1]
          BY <1>12, <2>1, <3>1, <3>2
        <4>2. j - 1 = k - 1
          BY <1>1, <4>1 DEF Owned, FreedOnce
        <4>3. QED
          BY <4>2
      <3>3. QED
        BY <3>1, <3>2
    <2>2. QED
      BY <1>4, <2>1 DEF FreedOnce
  <1>16. BlocksAddUp'
    <2>1. Cardinality(Current(held \ {p}, memory)) = Cardinality(Current(held, memory)) - 1
      BY <1>1, <1>2, CurrentLoses DEF Owned, HeldIsOld
    <2>2. Cardinality(Current(held, memory)) \in Nat
      BY <1>1, CurrentIsFinite DEF Owned, HeldIsOld
    <2>3. moved + Cardinality(Current(held, memory)) + Len(freed) = used
          /\ moved \in Nat /\ used \in Nat
      BY <1>1 DEF Owned, BlocksAddUp, TypeOK
    <2>4. Len(freed') = Len(freed) + 1 /\ Len(freed) \in Nat
      BY <1>4, <1>5
    <2>5. Cardinality(Current(held', memory')) = Cardinality(Current(held, memory)) - 1
      BY <1>4, <2>1
    <2>6. QED
      BY <1>4, <2>2, <2>3, <2>4, <2>5 DEF BlocksAddUp
  <1>17. QED
    BY <1>7, <1>9, <1>10, <1>11, <1>14, <1>15, <1>16 DEF Inv, Owned

\* Reset gives all blocks back, and the client holds none of them any more.
LEMMA ResetKeeps == Inv /\ vf_memory_pool_reset => Inv'
  <1> SUFFICES ASSUME Inv, vf_memory_pool_reset PROVE Inv'
    OBVIOUS
  <1>1. TypeOK
    BY DEF Inv
  <1>2. used' = 0 /\ free_list' = NULL /\ held' = {} /\ freed' = <<>> /\ moved' = 0
        /\ Len(freed') = 0 /\ UNCHANGED <<memory, block, capacity, alive, undefined>>
    BY DEF vf_memory_pool_reset
  <1>3. TypeOK'
    <2>1. used' \in 0..capacity
      BY <1>1, <1>2 DEF TypeOK
    <2>2. QED
      BY <1>1, <1>2, <2>1 DEF TypeOK
  <1>4. FreeListIsFreed'
    BY <1>2 DEF FreeListIsFreed
  <1>5. Current(held', memory') = {}
    BY <1>2 DEF Current
  <1>6. Owned'
    BY <1>2, <1>5, FS_EmptySet DEF Owned, HeldIsOld, HeldInPool, FreedInPool, FreedOnce, BlocksAddUp
  <1>7. QED
    BY <1>3, <1>4, <1>6 DEF Inv

\* After destroy the pool's fields are as they were, and no more is claimed.
LEMMA DestroyKeeps == Inv /\ vf_memory_pool_destroy => Inv'
  BY DEF Inv, TypeOK, FreeListIsFreed, vf_memory_pool_destroy, fields, history

\* A use of a block in returned memory leaves the pool itself alone.
LEMMA UseStaleKeeps ==
    ASSUME Inv, NEW p \in held, UseStale(p)
    PROVE  Inv'
  BY DEF Inv, TypeOK, FreeListIsFreed, Owned, HeldIsOld, HeldInPool, FreedInPool, FreedOnce,
         BlocksAddUp, InPool, Current, UseStale, fields, history

-----------------------------------------------------------------------------
(* Theorems *)

\* Every step keeps the invariant.
LEMMA InvKept == Inv /\ [Next]_vars => Inv'
  <1> SUFFICES ASSUME Inv, [Next]_vars PROVE Inv'
    OBVIOUS
  <1>1. CASE vf_memory_pool_alloc
    BY <1>1, AllocFreedKeeps, AllocNextKeeps, AllocGrowsKeeps DEF vf_memory_pool_alloc
  <1>2. ASSUME NEW p \in held, NEW x \in Data, Write(p, x) PROVE Inv'
    BY <1>2, WriteKeeps
  <1>3. ASSUME NEW p \in held, vf_memory_pool_free(p) PROVE Inv'
    BY <1>3, FreeKeeps
  <1>4. ASSUME NEW p \in held, UseStale(p) PROVE Inv'
    BY <1>4, UseStaleKeeps
  <1>5. CASE vf_memory_pool_reset
    BY <1>5, ResetKeeps
  <1>6. CASE vf_memory_pool_destroy
    BY <1>6, DestroyKeeps
  <1>7. CASE UNCHANGED vars
    BY <1>7 DEF Inv, TypeOK, FreeListIsFreed, Owned, HeldIsOld, HeldInPool, FreedInPool,
                FreedOnce, BlocksAddUp, InPool, Current, vars, fields, history
  <1>8. QED
    BY <1>1, <1>2, <1>3, <1>4, <1>5, <1>6, <1>7 DEF Next

\* The inductive invariant holds in every reachable state.
THEOREM InvHolds == Spec => []Inv
  BY InvInitially, InvKept, PTL DEF Spec

\* The pool's fields keep their types, and no block past the capacity is ever
\* counted as used, through every growth.
THEOREM TypeCorrect == Spec => []TypeOK
  <1>1. Inv => TypeOK
    BY DEF Inv
  <1>2. QED
    BY <1>1, InvHolds, PTL

\* The list threaded through the blocks by vf_memory_pool_free is exactly the
\* blocks freed and not handed out again, whatever clients write to their own.
THEOREM FreeListCorrect == Spec => []FreeListIsFreed
  <1>1. Inv => FreeListIsFreed
    BY DEF Inv
  <1>2. QED
    BY <1>1, InvHolds, PTL

\* vf_memory_pool_alloc hands out no block twice and loses none: the blocks in
\* use since the last growth are the client's and the free list's, disjointly.
THEOREM OwnersCorrect == Spec => []EveryBlockHasOneOwner
  <1>1. Inv => EveryBlockHasOneOwner
    BY OwnedIsProperty DEF Inv
  <1>2. QED
    BY <1>1, InvHolds, PTL
=============================================================================
