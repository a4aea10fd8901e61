--------------------------- MODULE SequencesProofs ---------------------------
(***************************************************************************)
(* Theorems about Queue for every capacity, every set of values and every  *)
(* width of size_t, about DArray for every set of elements, every capacity *)
(* and every appended array, and about Sort for every array and all keys.  *)
(***************************************************************************)
EXTENDS Queue, DArray, Sort, TLAPS, SequenceTheorems

-----------------------------------------------------------------------------
(* Indices *)

\* The slot k places after f in a ring of c slots, without a remainder.
Slot(c, f, k) == IF f + k < c THEN f + k ELSE f + k - c

\* Conversion to size_t leaves what fits alone, and wraps the sentinel to 0.
LEMMA SizeTFits ==
    /\ \A n \in 0..SIZE_MAX : SizeT(n) = n
    /\ SizeT(-1) = SIZE_MAX
    /\ SizeT(SIZE_MAX + 1) = 0
  <1>1. SIZE_MAX \in Nat
    BY SizeAssumption
  <1>2. \A n \in 0..SIZE_MAX : n % (SIZE_MAX + 1) = n
    BY <1>1
  <1>3. (-1) % (SIZE_MAX + 1) = SIZE_MAX
    BY <1>1
  <1>4. (SIZE_MAX + 1) % (SIZE_MAX + 1) = 0
    BY <1>1
  <1>5. QED
    BY <1>2, <1>3, <1>4 DEF SizeT

\* The ring index after one of the ring, and after the sentinel.
LEMMA NextPosIsSlot ==
    ASSUME TypeOK, capacity # 0
    PROVE  /\ \A n \in 0..(capacity - 1) :
                 NextPos(n) = Slot(capacity, n, 1) /\ NextPos(n) \in 0..(capacity - 1)
           /\ NextPos(SIZE_MAX) = 0
  <1>1. SIZE_MAX \in Nat /\ capacity \in 1..SIZE_MAX
    BY SizeAssumption DEF TypeOK
  <1>2. ASSUME NEW n \in 0..(capacity - 1)
        PROVE  NextPos(n) = Slot(capacity, n, 1) /\ NextPos(n) \in 0..(capacity - 1)
    <2>1. SizeT(n + 1) = n + 1
      BY <1>1, SizeTFits
    <2>2. (n + 1) % capacity = Slot(capacity, n, 1)
      BY <1>1 DEF Slot
    <2>3. QED
      BY <1>1, <2>1, <2>2 DEF NextPos, Slot
  <1>3. NextPos(SIZE_MAX) = 0
    <2>1. 0 % capacity = 0
      BY <1>1
    <2>2. QED
      BY <2>1, SizeTFits DEF NextPos
  <1>4. QED
    BY <1>2, <1>3

\* A remainder of at most one lap.
LEMMA SlotIsRemainder ==
    ASSUME NEW c \in Nat \ {0}, NEW f \in 0..(c - 1), NEW k \in 0..c
    PROVE  (f + k) % c = Slot(c, f, k)
  BY DEF Slot

-----------------------------------------------------------------------------
(* The inductive invariant *)

\* RingAgrees with Slot in place of the remainder.
RingSlots ==
    IF size = 0 THEN front = SIZE_MAX /\ back = SIZE_MAX
    ELSE /\ front \in 0..(capacity - 1) /\ back \in 0..(capacity - 1)
         /\ back = Slot(capacity, front, size - 1)

\* The last slot in use holds what was pushed last, and the slots in use were
\* all written.
Written ==
    /\ size > 0 => data[back] = newest
    /\ size > 0 => \A k \in 0..(size - 1) : data[Slot(capacity, front, k)] \in Values

Inv == TypeOK /\ RingSlots /\ Written

\* RingSlots says the same as RingAgrees.
LEMMA RingSlotsIsRingAgrees ==
    ASSUME TypeOK PROVE RingSlots <=> RingAgrees
  <1>1. capacity \in Nat /\ size \in 0..capacity
    BY SizeAssumption DEF TypeOK
  <1>2. ASSUME size # 0, front \in 0..(capacity - 1)
        PROVE  (front + size - 1) % capacity = Slot(capacity, front, size - 1)
    <2>1. size - 1 \in 0..capacity /\ capacity \in Nat \ {0}
      BY <1>1, <1>2
    <2>2. (front + (size - 1)) % capacity = Slot(capacity, front, size - 1)
      BY <1>2, <2>1, SlotIsRemainder
    <2>3. front + (size - 1) = front + size - 1
      BY <1>1, <1>2
    <2>4. QED
      BY <2>2, <2>3
  <1>3. QED
    BY <1>2 DEF RingSlots, RingAgrees

\* A new queue is empty, with both indices at the sentinel.
LEMMA InvInitially == Init => Inv
  <1> SUFFICES ASSUME Init PROVE Inv
    OBVIOUS
  <1>1. front = SIZE_MAX /\ back = SIZE_MAX
    BY SizeTFits DEF Init
  <1>2. capacity \in Nat /\ SIZE_MAX \in Nat
    BY SizeAssumption DEF Init
  <1>3. data \in [0..(capacity - 1) -> Values \cup {NoValue}]
    BY DEF Init
  <1>4. alive \in BOOLEAN
    BY DEF Init
  <1>5. TypeOK
    BY <1>1, <1>2, <1>3, <1>4 DEF Init, TypeOK
  <1>6. QED
    BY <1>1, <1>5 DEF Init, Inv, RingSlots, Written

\* What a push does, with the arithmetic worked out.
LEMMA PushEffect ==
    ASSUME Inv, NEW x \in Values, vf_queue_push(x)
    PROVE  /\ capacity \in Nat \ {0} /\ size < capacity /\ size \in Nat
           /\ front' \in 0..(capacity - 1) /\ back' \in 0..(capacity - 1)
           /\ back' = Slot(capacity, front', size)
           /\ size > 0 => front' = front
           /\ data' = [data EXCEPT ![back'] = x]
           /\ size' = size + 1 /\ newest' = x
           /\ UNCHANGED <<capacity, alive, out_item>>
  <1>1. capacity \in Nat /\ size \in 0..capacity /\ SIZE_MAX \in Nat /\ TypeOK
    BY SizeAssumption DEF Inv, TypeOK
  <1>2. capacity # 0 /\ size < capacity
    BY <1>1 DEF vf_queue_push, vf_queue_full
  <1>3. CASE size = 0
    <2>1. front' = 0 /\ back' = 0
      BY <1>1, <1>2, <1>3, NextPosIsSlot
         DEF vf_queue_push, vf_queue_empty, Inv, RingSlots
    <2>2. Slot(capacity, front', size) = 0 /\ 0 \in 0..(capacity - 1)
      BY <1>1, <1>2, <1>3, <2>1 DEF Slot
    <2>3. /\ data' = [data EXCEPT ![back'] = x] /\ size' = size + 1 /\ newest' = x
          /\ UNCHANGED <<capacity, alive, out_item>>
      BY DEF vf_queue_push
    <2>4. QED
      BY <1>1, <1>2, <1>3, <2>1, <2>2, <2>3
  <1>4. CASE size # 0
    <2>1. /\ front \in 0..(capacity - 1) /\ back \in 0..(capacity - 1)
          /\ back = Slot(capacity, front, size - 1) /\ front' = front
      BY <1>1, <1>4 DEF vf_queue_push, vf_queue_empty, Inv, RingSlots
    <2>2. back' = Slot(capacity, back, 1) /\ back' \in 0..(capacity - 1)
      BY <1>1, <1>2, <2>1, NextPosIsSlot DEF vf_queue_push
    <2>3. Slot(capacity, back, 1) = Slot(capacity, front, size)
      BY <1>1, <1>2, <1>4, <2>1 DEF Slot
    <2>4. QED
      BY <1>1, <1>2, <2>1, <2>2, <2>3 DEF vf_queue_push
  <1>5. QED
    BY <1>3, <1>4

\* What a pop does, with the arithmetic worked out.
LEMMA PopEffect ==
    ASSUME Inv, vf_queue_pop
    PROVE  /\ capacity \in Nat \ {0} /\ size \in 1..capacity
           /\ front \in 0..(capacity - 1) /\ back = Slot(capacity, front, size - 1)
           /\ out_item' = data[front] /\ size' = size - 1
           /\ size = 1 => front' = SIZE_MAX /\ back' = SIZE_MAX
           /\ size > 1 => /\ front' = Slot(capacity, front, 1)
                          /\ front' \in 0..(capacity - 1)
                          /\ back' = back
           /\ UNCHANGED <<data, capacity, alive, newest>>
  <1>1. capacity \in Nat \ {0} /\ size \in 1..capacity /\ TypeOK
    BY SizeAssumption DEF Inv, TypeOK, vf_queue_pop, vf_queue_empty
  <1>2. /\ front \in 0..(capacity - 1) /\ back \in 0..(capacity - 1)
        /\ back = Slot(capacity, front, size - 1)
    BY <1>1 DEF Inv, RingSlots
  <1>3. front = back <=> size = 1
    BY <1>1, <1>2 DEF Slot
  <1>4. NextPos(front) = Slot(capacity, front, 1) /\ NextPos(front) \in 0..(capacity - 1)
    BY <1>1, <1>2, NextPosIsSlot
  <1>5. QED
    BY <1>1, <1>2, <1>3, <1>4, SizeTFits DEF vf_queue_pop

\* Every call keeps the invariant.
LEMMA StepKeepsInv == Inv /\ [Next]_vars => Inv'
  <1> SUFFICES ASSUME Inv, [Next]_vars PROVE Inv'
    OBVIOUS
  <1>t. /\ TypeOK /\ RingSlots /\ Written /\ capacity \in Nat /\ SIZE_MAX \in Nat
        /\ capacity <= SIZE_MAX
    BY SizeAssumption DEF Inv, TypeOK
  <1>1. ASSUME NEW x \in Values, vf_queue_push(x) PROVE Inv'
    <2>1. /\ capacity \in Nat \ {0} /\ size < capacity /\ size \in Nat
          /\ front' \in 0..(capacity - 1) /\ back' \in 0..(capacity - 1)
          /\ back' = Slot(capacity, front', size)
          /\ size > 0 => front' = front
          /\ data' = [data EXCEPT ![back'] = x]
          /\ size' = size + 1 /\ newest' = x
          /\ UNCHANGED <<capacity, alive, out_item>>
      BY <1>1, PushEffect
    <2>2. data' \in [0..(capacity' - 1) -> Values \cup {NoValue}]
      BY <1>t, <2>1 DEF TypeOK
    <2>3. TypeOK'
      <3>1. size' \in 0..capacity' /\ front' \in 0..SIZE_MAX /\ back' \in 0..SIZE_MAX
        BY <1>t, <2>1
      <3>2. alive' \in BOOLEAN
        BY <1>t, <2>1 DEF TypeOK
      <3>3. QED
        BY <1>t, <2>1, <2>2, <3>1, <3>2 DEF TypeOK
    <2>4. RingSlots'
      <3>1. size' # 0 /\ size' - 1 = size
        BY <2>1
      <3>2. QED
        BY <2>1, <3>1 DEF RingSlots, Slot
    <2>5. \A k \in 0..(size' - 1) : data'[Slot(capacity', front', k)] \in Values
      <3> SUFFICES ASSUME NEW k \in 0..size
                   PROVE  data'[Slot(capacity, front', k)] \in Values
        BY <2>1
      <3>1. CASE k = size
        BY <1>t, <2>1, <3>1 DEF TypeOK
      <3>2. CASE k # size
        <4>0. k \in 0..(size - 1) /\ size > 0 /\ front' = front /\ front \in 0..(capacity - 1)
          BY <2>1, <3>2
        <4>1. /\ Slot(capacity, front, k) # back'
              /\ Slot(capacity, front, k) \in 0..(capacity - 1)
          BY <2>1, <4>0 DEF Slot
        <4>2. data'[Slot(capacity, front, k)] = data[Slot(capacity, front, k)]
          BY <1>t, <2>1, <4>1 DEF TypeOK
        <4>3. QED
          BY <1>t, <4>0, <4>2 DEF Written
      <3>3. QED
        BY <3>1, <3>2
    <2>6. data'[back'] = newest'
      BY <1>t, <2>1 DEF TypeOK
    <2>7. QED
      BY <2>3, <2>4, <2>5, <2>6 DEF Inv, Written
  <1>2. CASE vf_queue_pop
    <2>1. /\ capacity \in Nat \ {0} /\ size \in 1..capacity
          /\ front \in 0..(capacity - 1) /\ back = Slot(capacity, front, size - 1)
          /\ out_item' = data[front] /\ size' = size - 1
          /\ size = 1 => front' = SIZE_MAX /\ back' = SIZE_MAX
          /\ size > 1 => /\ front' = Slot(capacity, front, 1)
                         /\ front' \in 0..(capacity - 1)
                         /\ back' = back
          /\ UNCHANGED <<data, capacity, alive, newest>>
      BY <1>2, PopEffect
    <2>2. data[front] \in Values \cup {NoValue}
      BY <1>t, <2>1 DEF TypeOK
    <2>3. TypeOK'
      <3>1. size' \in 0..capacity' /\ front' \in 0..SIZE_MAX /\ back' \in 0..SIZE_MAX
        BY <1>t, <2>1 DEF TypeOK
      <3>2. alive' \in BOOLEAN
        BY <1>t, <2>1 DEF TypeOK
      <3>3. QED
        BY <1>t, <2>1, <2>2, <3>1, <3>2 DEF TypeOK
    <2>4. CASE size = 1
      <3>1. size' = 0 /\ front' = SIZE_MAX /\ back' = SIZE_MAX
        BY <2>1, <2>4
      <3>2. QED
        BY <2>3, <3>1 DEF Inv, RingSlots, Written
    <2>5. CASE size # 1
      <3>1. /\ size > 1 /\ front' = Slot(capacity, front, 1) /\ back' = back
            /\ front' \in 0..(capacity - 1) /\ size' > 0
        BY <2>1, <2>5
      <3>2. back' = Slot(capacity, front', size' - 1) /\ back' \in 0..(capacity - 1)
        BY <2>1, <3>1 DEF Slot
      <3>3. RingSlots'
        BY <2>1, <3>1, <3>2 DEF RingSlots
      <3>4. \A k \in 0..(size' - 1) :
               Slot(capacity, front', k) = Slot(capacity, front, k + 1)
               /\ k + 1 \in 0..(size - 1)
        BY <2>1, <3>1 DEF Slot
      <3>5. Written'
        BY <1>t, <2>1, <3>1, <3>4 DEF Written
      <3>6. QED
        BY <2>3, <3>3, <3>5 DEF Inv
    <2>6. QED
      BY <2>4, <2>5
  <1>3. CASE vf_queue_free \/ UNCHANGED vars
    <2>1. UNCHANGED <<data, front, back, size, capacity, out_item, newest>>
          /\ alive' \in BOOLEAN
      BY <1>t, <1>3 DEF vf_queue_free, vars, fields, TypeOK
    <2>2. TypeOK'
      BY <1>t, <2>1 DEF TypeOK
    <2>3. QED
      BY <1>t, <2>1, <2>2 DEF Inv, RingSlots, Written, Slot
  <1>4. QED
    BY <1>1, <1>2, <1>3 DEF Next

\* The inductive invariant holds after any sequence of calls.
THEOREM InvHolds == Spec => []Inv
  BY InvInitially, StepKeepsInv, PTL DEF Spec

\* Both indices stay inside size_t and size inside the capacity, for every
\* capacity up to SIZE_MAX.
THEOREM TypeCorrect == Spec => []TypeOK
  <1>1. Inv => TypeOK
    BY DEF Inv
  <1>2. QED
    BY <1>1, InvHolds, PTL

\* size, front and back agree after any sequence of calls, for any capacity
\* up to SIZE_MAX, although the empty queue's indices are out of range.
THEOREM IndicesAgree == Spec => []RingAgrees
  <1>1. Inv => RingAgrees
    BY RingSlotsIsRingAgrees DEF Inv
  <1>2. QED
    BY <1>1, InvHolds, PTL

-----------------------------------------------------------------------------
(* The ring is a bounded queue *)

\* The n items from slot f on of an array d of c slots, read as Contents does.
Window(c, d, f, n) == [k \in 1..n |-> d[(f + k - 1) % c]]

\* A window all slots of which hold values is a sequence of values.
LEMMA WindowIsSequence ==
    ASSUME NEW c \in Nat \ {0}, NEW d, NEW f \in 0..(c - 1), NEW n \in 0..c,
           \A k \in 0..(n - 1) : d[Slot(c, f, k)] \in Values
    PROVE  /\ Window(c, d, f, n) \in Seq(Values)
           /\ Len(Window(c, d, f, n)) = n
           /\ \A k \in 1..n : Window(c, d, f, n)[k] = d[Slot(c, f, k - 1)]
  <1>1. \A k \in 1..n : (f + k - 1) % c = Slot(c, f, k - 1)
    <2> SUFFICES ASSUME NEW k \in 1..n PROVE (f + k - 1) % c = Slot(c, f, k - 1)
      OBVIOUS
    <2>1. k - 1 \in 0..c /\ f + (k - 1) = f + k - 1
      OBVIOUS
    <2>2. QED
      BY <2>1, SlotIsRemainder
  <1>2. \A k \in 1..n : k - 1 \in 0..(n - 1)
    OBVIOUS
  <1>3. Window(c, d, f, n) = [k \in 1..n |-> d[Slot(c, f, k - 1)]]
    BY <1>1 DEF Window
  <1>4. \A k \in 1..n : d[Slot(c, f, k - 1)] \in Values
    BY <1>2
  <1>5. QED
    BY <1>3, <1>4

\* Contents is the sequence of the items held; it is empty when size is 0.
LEMMA ContentsIsSequence ==
    ASSUME Inv
    PROVE  /\ Contents \in Seq(Values) /\ Len(Contents) = size
           /\ \A k \in 1..size : Contents[k] = data[Slot(capacity, front, k - 1)]
  <1>1. capacity \in Nat /\ size \in 0..capacity
    BY SizeAssumption DEF Inv, TypeOK
  <1>2. CASE size = 0
    <2>1. Contents = <<>>
      BY <1>2 DEF Contents
    <2>2. QED
      BY <1>2, <2>1
  <1>3. CASE size # 0
    <2>1. front \in 0..(capacity - 1) /\ capacity \in Nat \ {0}
      BY <1>1, <1>3 DEF Inv, RingSlots
    <2>2. \A k \in 0..(size - 1) : data[Slot(capacity, front, k)] \in Values
      BY <1>1, <1>3 DEF Inv, Written
    <2>3. Contents = Window(capacity, data, front, size)
      BY DEF Contents, Window
    <2>4. QED
      BY <1>1, <2>1, <2>2, <2>3, WindowIsSequence
  <1>4. QED
    BY <1>2, <1>3

\* A push appends to the contents.
LEMMA PushAppends ==
    ASSUME Inv, NEW x \in Values, vf_queue_push(x)
    PROVE  Contents' = Append(Contents, x) /\ Len(Contents) < capacity
  <1>1. /\ capacity \in Nat \ {0} /\ size < capacity /\ size \in Nat
        /\ front' \in 0..(capacity - 1) /\ back' \in 0..(capacity - 1)
        /\ back' = Slot(capacity, front', size)
        /\ size > 0 => front' = front
        /\ data' = [data EXCEPT ![back'] = x]
        /\ size' = size + 1
    BY PushEffect
  <1>2. data \in [0..(capacity - 1) -> Values \cup {NoValue}]
    BY DEF Inv, TypeOK
  <1>3. \A k \in 0..(size - 1) :
           /\ data'[Slot(capacity, front', k)] = data[Slot(capacity, front, k)]
           /\ data[Slot(capacity, front, k)] \in Values
    <2> SUFFICES ASSUME NEW k \in 0..(size - 1)
                 PROVE  /\ data'[Slot(capacity, front', k)] = data[Slot(capacity, front, k)]
                        /\ data[Slot(capacity, front, k)] \in Values
      OBVIOUS
    <2>1. size > 0 /\ front' = front
      BY <1>1
    <2>2. /\ capacity \in Nat \ {0} /\ size < capacity /\ size \in Nat
          /\ front \in 0..(capacity - 1) /\ back' = Slot(capacity, front, size)
      BY <1>1, <2>1
    <2>3. /\ Slot(capacity, front, k) # Slot(capacity, front, size)
          /\ Slot(capacity, front, k) \in 0..(capacity - 1)
      BY <2>2 DEF Slot
    <2>4. Slot(capacity, front', k) # back' /\ Slot(capacity, front', k) \in 0..(capacity - 1)
      BY <2>1, <2>2, <2>3
    <2>5. QED
      BY <1>1, <1>2, <2>1, <2>4 DEF Inv, Written
  <1>4. data'[Slot(capacity, front', size)] = x
    BY <1>1, <1>2
  <1>5. Contents' = Window(capacity, data', front', size')
    BY DEF Contents, Window, vf_queue_push
  <1>6. \A k \in 0..(size' - 1) : data'[Slot(capacity, front', k)] \in Values
    <2>1. \A k \in 0..(size' - 1) : k \in 0..(size - 1) \/ k = size
      BY <1>1
    <2>2. QED
      BY <1>3, <1>4, <2>1
  <1>7. /\ Contents' \in Seq(Values) /\ Len(Contents') = size + 1
        /\ \A k \in 1..(size + 1) : Contents'[k] = data'[Slot(capacity, front', k - 1)]
    <2>1. /\ size' \in 0..capacity /\ capacity \in Nat \ {0}
          /\ front' \in 0..(capacity - 1)
      BY <1>1
    <2>2. /\ Contents' \in Seq(Values) /\ Len(Contents') = size'
          /\ \A k \in 1..size' : Contents'[k] = data'[Slot(capacity, front', k - 1)]
      <3> DEFINE d == data'
                 f == front'
                 n == size'
      <3>1. /\ n \in 0..capacity /\ capacity \in Nat \ {0} /\ f \in 0..(capacity - 1)
            /\ \A k \in 0..(n - 1) : d[Slot(capacity, f, k)] \in Values
        BY <1>6, <2>1
      <3> HIDE DEF d, f, n
      <3>2. /\ Window(capacity, d, f, n) \in Seq(Values)
            /\ Len(Window(capacity, d, f, n)) = n
            /\ \A k \in 1..n : Window(capacity, d, f, n)[k] = d[Slot(capacity, f, k - 1)]
        BY <3>1, WindowIsSequence
      <3>3. QED
        BY <1>1, <1>5, <3>2 DEF d, f, n
    <2>3. QED
      BY <1>1, <2>2
  <1>8. /\ Contents \in Seq(Values) /\ Len(Contents) = size
        /\ \A k \in 1..size : Contents[k] = data[Slot(capacity, front, k - 1)]
    BY ContentsIsSequence
  <1>9. \A k \in 1..size : Contents'[k] = Contents[k]
    <2>1. \A k \in 1..size : k - 1 \in 0..(size - 1) /\ k \in 1..(size + 1)
      BY <1>1
    <2>2. QED
      BY <1>3, <1>7, <1>8, <2>1
  <1>10. Contents'[size + 1] = x
    <2>1. (size + 1) - 1 = size /\ size + 1 \in 1..(size + 1)
      BY <1>1
    <2>2. QED
      BY <1>4, <1>7, <2>1
  <1>11. QED
    BY <1>1, <1>7, <1>8, <1>9, <1>10

\* A pop gives out the head of the contents and leaves the tail.
LEMMA PopTakesHead ==
    ASSUME Inv, vf_queue_pop
    PROVE  Contents # <<>> /\ out_item' = Head(Contents) /\ Contents' = Tail(Contents)
  <1>1. /\ capacity \in Nat \ {0} /\ size \in 1..capacity
        /\ front \in 0..(capacity - 1)
        /\ out_item' = data[front] /\ size' = size - 1
        /\ size > 1 => /\ front' = Slot(capacity, front, 1)
                       /\ front' \in 0..(capacity - 1)
        /\ UNCHANGED <<data, capacity>>
    BY PopEffect
  <1>2. /\ Contents \in Seq(Values) /\ Len(Contents) = size
        /\ \A k \in 1..size : Contents[k] = data[Slot(capacity, front, k - 1)]
    BY ContentsIsSequence
  <1>3. Contents # <<>> /\ out_item' = Head(Contents)
    <2>1. 1 \in 1..size /\ Slot(capacity, front, 1 - 1) = front
      BY <1>1 DEF Slot
    <2>2. Contents[1] = data[front]
      BY <1>2, <2>1
    <2>3. QED
      BY <1>1, <1>2, <2>2
  <1>4. CASE size = 1
    <2>1. Contents' = <<>>
      BY <1>1, <1>4 DEF Contents
    <2>2. Tail(Contents) \in Seq(Values) /\ Len(Tail(Contents)) = 0
      BY <1>2, <1>3, <1>4, HeadTailProperties
    <2>3. Tail(Contents) = <<>>
      BY <2>2, EmptySeq
    <2>4. QED
      BY <1>3, <2>1, <2>3
  <1>5. CASE size # 1
    <2>1. size > 1 /\ front' = Slot(capacity, front, 1) /\ front' \in 0..(capacity - 1)
      BY <1>1, <1>5
    <2>2. Contents' = Window(capacity, data, front', size - 1)
      BY <1>1 DEF Contents, Window
    <2>3. \A k \in 0..(size - 1 - 1) :
             /\ Slot(capacity, front', k) = Slot(capacity, front, k + 1)
             /\ k + 1 \in 0..(size - 1)
      BY <1>1, <2>1 DEF Slot
    <2>4. \A k \in 0..(size - 1 - 1) : data[Slot(capacity, front', k)] \in Values
      BY <1>1, <2>3 DEF Inv, Written
    <2>5. /\ Contents' \in Seq(Values) /\ Len(Contents') = size - 1
          /\ \A k \in 1..(size - 1) : Contents'[k] = data[Slot(capacity, front', k - 1)]
      <3> DEFINE m == size - 1
                 f == front'
      <3>1. capacity \in Nat \ {0} /\ f \in 0..(capacity - 1) /\ m \in 0..capacity
        BY <1>1, <2>1
      <3>2. \A k \in 0..(m - 1) : data[Slot(capacity, f, k)] \in Values
        BY <2>4
      <3> HIDE DEF m, f
      <3>3. /\ Window(capacity, data, f, m) \in Seq(Values)
            /\ Len(Window(capacity, data, f, m)) = m
            /\ \A k \in 1..m : Window(capacity, data, f, m)[k] = data[Slot(capacity, f, k - 1)]
        BY <3>1, <3>2, WindowIsSequence
      <3>4. QED
        BY <2>2, <3>3 DEF m, f
    <2>6. \A k \in 1..(size - 1) : Contents'[k] = Contents[k + 1]
      <3> SUFFICES ASSUME NEW k \in 1..(size - 1) PROVE Contents'[k] = Contents[k + 1]
        OBVIOUS
      <3>1. k - 1 \in 0..(size - 1 - 1) /\ (k - 1) + 1 = (k + 1) - 1 /\ k + 1 \in 1..size
        BY <1>1
      <3>2. Slot(capacity, front', k - 1) = Slot(capacity, front, (k + 1) - 1)
        BY <2>3, <3>1
      <3>3. QED
        BY <1>2, <2>5, <3>1, <3>2
    <2>7. /\ Tail(Contents) \in Seq(Values) /\ Len(Tail(Contents)) = size - 1
          /\ \A k \in 1..(size - 1) : Tail(Contents)[k] = Contents[k + 1]
      BY <1>1, <1>2
    <2>8. Contents' = Tail(Contents)
      <3> DEFINE s == Contents'
                 t == Tail(Contents)
                 n == size - 1
      <3>1. /\ s \in Seq(Values) /\ t \in Seq(Values) /\ Len(s) = n /\ Len(t) = n
            /\ \A k \in 1..n : s[k] = t[k]
        BY <2>5, <2>6, <2>7
      <3> HIDE DEF s, t, n
      <3>2. s = t
        BY <3>1, SeqEqual
      <3>3. QED
        BY <3>2 DEF s, t
    <2>9. QED
      BY <1>3, <2>8
  <1>6. QED
    BY <1>4, <1>5

\* vf_queue_front and vf_queue_back return the oldest and the newest item.
THEOREM EndsAreRight == Spec => []EndsAreOldestAndNewest
  <1>1. Inv => EndsAreOldestAndNewest
    <2> SUFFICES ASSUME Inv, size > 0 PROVE vf_queue_front = Contents[1] /\ vf_queue_back = newest
      BY DEF EndsAreOldestAndNewest
    <2>1. capacity \in Nat \ {0} /\ size \in 1..capacity /\ front \in 0..(capacity - 1)
      BY SizeAssumption DEF Inv, TypeOK, RingSlots
    <2>2. 1 \in 1..size /\ Slot(capacity, front, 1 - 1) = front
      BY <2>1 DEF Slot
    <2>3. Contents[1] = data[front]
      BY <2>2, ContentsIsSequence
    <2>4. QED
      BY <2>1, <2>3 DEF vf_queue_front, vf_queue_back, vf_queue_empty, Inv, Written
  <1>2. QED
    BY <1>1, InvHolds, PTL

\* The ring is a bounded first-in first-out queue, for any capacity.
THEOREM QueueIsFifo == Spec => ImplementsFifo
  <1> DEFINE view == <<Contents, ~alive, out_item>>
             FifoNext == \E c \in Capacities : c = capacity /\ Fifo(c)!Next
  <1>1. Init => Fifo(0)!Init
    BY DEF Init, Fifo!Init, Contents
  <1>2. Inv /\ [Next]_vars => [FifoNext]_view
    <2> SUFFICES ASSUME Inv, [Next]_vars PROVE FifoNext \/ UNCHANGED view
      OBVIOUS
    <2>0. PICK c \in Capacities : c = capacity
      BY DEF Inv, TypeOK
    <2>1. ASSUME NEW x \in Values, vf_queue_push(x) PROVE FifoNext
      <3>1. Fifo(c)!Put(x)
        BY <2>0, <2>1, PushAppends DEF Fifo!Put, vf_queue_push
      <3>2. QED
        BY <2>0, <3>1 DEF Fifo!Next
    <2>2. CASE vf_queue_pop
      <3>1. Fifo(c)!Take
        BY <2>0, <2>2, PopTakesHead DEF Fifo!Take, vf_queue_pop
      <3>2. QED
        BY <2>0, <3>1 DEF Fifo!Next
    <2>3. CASE vf_queue_free
      <3>1. UNCHANGED <<Contents, out_item>>
        BY <2>3 DEF vf_queue_free, fields, Contents
      <3>2. Fifo(c)!Close
        BY <2>3, <3>1 DEF Fifo!Close, vf_queue_free
      <3>3. QED
        BY <2>0, <3>2 DEF Fifo!Next
    <2>4. CASE UNCHANGED vars
      BY <2>4 DEF vars, fields, Contents
    <2>5. QED
      BY <2>1, <2>2, <2>3, <2>4 DEF Next
  <1>3. QED
    BY <1>1, <1>2, InvHolds, PTL DEF Spec, ImplementsFifo

-----------------------------------------------------------------------------
(* The dynamic array: what a block is, and that the helpers make blocks *)

Vals == DaItems \cup {DaGarbage}

\* A header and the elements it speaks of.
Sound(d) ==
    /\ d = [data |-> d.data, count |-> d.count, capacity |-> d.capacity,
            max_capacity |-> d.max_capacity]
    /\ d.count \in Nat /\ d.capacity \in Nat /\ d.max_capacity \in Nat
    /\ d.data \in [0..(d.max_capacity - 1) -> Vals]
    /\ d.max_capacity <= d.capacity
    /\ d.count <= d.capacity

\* A new block is sound, and every slot of it can be used.
LEMMA AllocatedSound ==
    ASSUME NEW n \in Nat
    PROVE  /\ Sound(Allocated(n))
           /\ Allocated(n).count = 0
           /\ Allocated(n).capacity = n /\ Allocated(n).max_capacity = n
  BY DEF Allocated, Sound, Vals

\* The block an array is moved to, field by field.
LEMMA MovedIs ==
    ASSUME NEW d, NEW n, NEW m
    PROVE  Moved(d, n, m) =
               [data |-> [k \in 0..(n - 1) |-> IF k < m /\ k \in DOMAIN d.data
                                               THEN d.data[k] ELSE DaGarbage],
                count |-> 0, capacity |-> n, max_capacity |-> n]
  <1> DEFINE old == [k \in 0..(n - 1) |-> DaGarbage]
             new == [k \in 0..(n - 1) |-> IF k < m /\ k \in DOMAIN d.data
                                          THEN d.data[k] ELSE DaGarbage]
  <1>1. Allocated(n) = [data |-> old, count |-> 0, capacity |-> n, max_capacity |-> n]
    BY DEF Allocated
  <1>2. Moved(d, n, m) = [Allocated(n) EXCEPT !.data = new]
    BY DEF Moved
  <1> HIDE DEF old, new
  <1>3. Moved(d, n, m) = [data |-> new, count |-> 0, capacity |-> n, max_capacity |-> n]
    BY <1>1, <1>2
  <1>4. QED
    BY <1>3 DEF new

\* Moving a block keeps elements, up to the number that is copied.
LEMMA MovedSound ==
    ASSUME NEW d, Sound(d), NEW n \in Nat, NEW m \in Nat
    PROVE  /\ Sound(Moved(d, n, m))
           /\ Moved(d, n, m).count = 0
           /\ Moved(d, n, m).capacity = n /\ Moved(d, n, m).max_capacity = n
  <1> DEFINE new == [k \in 0..(n - 1) |-> IF k < m /\ k \in DOMAIN d.data
                                          THEN d.data[k] ELSE DaGarbage]
  <1>1. new \in [0..(n - 1) -> Vals]
    BY DEF Sound, Vals
  <1>2. Moved(d, n, m) = [data |-> new, count |-> 0, capacity |-> n, max_capacity |-> n]
    BY MovedIs
  <1> HIDE DEF new
  <1>3. QED
    BY <1>1, <1>2 DEF Sound

\* A reserved block is sound and keeps the count; if it had to be moved, its
\* capacity is what was asked for, and all of it is there.
LEMMA ReservedSound ==
    ASSUME NEW d, Sound(d), NEW n \in Nat
    PROVE  /\ Sound(Reserved(d, n))
           /\ Reserved(d, n).count = d.count
           /\ \/ d.capacity >= n /\ Reserved(d, n) = d
              \/ /\ d.capacity < n
                 /\ Reserved(d, n).capacity = n /\ Reserved(d, n).max_capacity = n
  <1>1. CASE d.capacity >= n
    BY <1>1 DEF Reserved, Sound
  <1>2. CASE d.capacity < n
    <2> DEFINE b == Moved(d, n, d.capacity)
    <2>1. Sound(b) /\ b.capacity = n /\ b.max_capacity = n
      BY MovedSound DEF Sound
    <2>2. Reserved(d, n) = [b EXCEPT !.count = d.count]
      BY <1>2 DEF Reserved, Sound
    <2> HIDE DEF b
    <2>3. Reserved(d, n) = [data |-> b.data, count |-> d.count, capacity |-> n,
                            max_capacity |-> n]
      BY <2>1, <2>2 DEF Sound
    <2>4. QED
      BY <1>2, <2>1, <2>3 DEF Sound
  <1>3. QED
    BY <1>1, <1>2 DEF Sound

-----------------------------------------------------------------------------
(* The dynamic array: its invariant *)

DaInv == /\ Sound(da)
         /\ da_alive \in BOOLEAN
         /\ da_lost \in {"none", "resize", "insert", "append"}
         /\ da_undefined \in Calls \cup {"none"}
         /\ DaOverrunsAreKnown

LEMMA DaInitInv == DaInit => DaInv
  <1> SUFFICES ASSUME DaInit PROVE DaInv
    OBVIOUS
  <1>1. PICK n \in DaRequests : da = Allocated(n)
    BY DEF DaInit
  <1>2. n \in Nat
    BY DaAssumption
  <1>3. Sound(da)
    BY <1>1, <1>2, AllocatedSound
  <1>4. QED
    BY <1>3 DEF DaInit, DaInv, DaOverrunsAreKnown, Calls

\* What a call owes: the array it returns is sound, and when it leaves the
\* allocated elements that is one of the known cases.
Excused(op) ==
    \/ op \in {"append_nothing", "pop_back", "clear"}
    \/ Overstated
    \/ op = "push_back" /\ da.capacity = 0
    \/ op \in {"insert", "append"} /\ Full(da)

LEMMA ReturnsInv ==
    ASSUME DaInv, NEW op, NEW inside \in BOOLEAN, NEW d, NEW lost \in BOOLEAN,
           Returns(op, inside, d, lost),
           inside => Sound(d), ~inside => op \in Calls /\ Excused(op),
           lost => op \in {"resize", "insert", "append"}
    PROVE  DaInv'
  <1>1. da_alive' = da_alive /\ da_undefined = "none"
    BY DEF Returns, DaUsable
  <1>2. CASE inside /\ da' = d /\ da_lost' = (IF lost THEN op ELSE "none") /\ UNCHANGED da_undefined
    <2>1. da_undefined' = "none"
      BY <1>1, <1>2
    <2>2. DaOverrunsAreKnown'
      BY <2>1 DEF DaOverrunsAreKnown
    <2>3. Sound(da)'
      BY <1>2 DEF Sound
    <2>4. QED
      BY <1>1, <1>2, <2>1, <2>2, <2>3 DEF DaInv
  <1>3. CASE ~inside /\ da_undefined' = op /\ da_lost' = "none" /\ UNCHANGED da
    <2>1. op \in Calls /\ Excused(op)
      BY <1>3
    <2>2. DaOverrunsAreKnown'
      BY <1>3, <2>1 DEF DaOverrunsAreKnown, Excused, Calls, Overstated, Full
    <2>3. Sound(da)'
      BY <1>3 DEF DaInv, Sound
    <2>4. QED
      BY <1>1, <1>3, <2>1, <2>2, <2>3 DEF DaInv
  <1>4. QED
    BY <1>2, <1>3 DEF Returns

-----------------------------------------------------------------------------
(* The dynamic array: every call keeps the invariant *)

LEMMA InvFacts ==
    ASSUME DaInv
    PROVE  /\ da.count \in Nat /\ da.capacity \in Nat /\ da.max_capacity \in Nat
           /\ da.max_capacity <= da.capacity /\ da.count <= da.capacity
           /\ ~Overstated => da.capacity = da.max_capacity
           /\ Sound(da)
  BY DEF DaInv, Sound, Overstated

LEMMA ReserveInv ==
    ASSUME DaInv, NEW n \in 0..DaMaxCapacity, vf_da_reserve(n)
    PROVE  DaInv'
  <1>1. n \in Nat
    BY DaAssumption
  <1>2. Sound(Reserved(da, n))
    BY <1>1, ReservedSound, InvFacts
  <1>3. ~ReserveInside(da, n) => Excused("reserve")
    BY InvFacts DEF ReserveInside, Excused, Overstated
  <1>4. "reserve" \in Calls /\ ReserveInside(da, n) \in BOOLEAN
    BY DEF Calls, ReserveInside
  <1>5. Returns("reserve", ReserveInside(da, n), Reserved(da, n), FALSE)
    BY DEF vf_da_reserve
  <1> DEFINE inside == ReserveInside(da, n)
             after == Reserved(da, n)
  <1>6. Returns("reserve", inside, after, FALSE)
    BY <1>5
  <1>7. inside \in BOOLEAN /\ "reserve" \in Calls
    BY <1>4
  <1>8. inside => Sound(after)
    BY <1>2
  <1>9. ~inside => Excused("reserve")
    BY <1>3
  <1> HIDE DEF inside, after
  <1>10. QED
    BY <1>6, <1>7, <1>8, <1>9, ReturnsInv

LEMMA ResizeInv ==
    ASSUME DaInv, NEW n \in 0..DaMaxCapacity, vf_da_resize(n)
    PROVE  DaInv'
  <1>1. n \in Nat
    BY DaAssumption
  <1>2. Sound(Moved(da, n, da.count))
    BY <1>1, MovedSound, InvFacts
  <1>3. ~(da.count <= da.max_capacity) => Excused("resize")
    BY InvFacts DEF Excused, Overstated
  <1> DEFINE inside == da.count <= da.max_capacity
             after == Moved(da, n, da.count)
             lost == da.count > 0
  <1>4. Returns("resize", inside, after, lost)
    BY DEF vf_da_resize
  <1>5. inside \in BOOLEAN /\ lost \in BOOLEAN
    OBVIOUS
  <1>6. "resize" \in Calls /\ "resize" \in {"resize", "insert", "append"}
    BY DEF Calls
  <1>7. inside => Sound(after)
    BY <1>2
  <1>8. ~inside => Excused("resize")
    BY <1>3
  <1> HIDE DEF inside, after, lost
  <1>9. QED
    BY <1>4, <1>5, <1>6, <1>7, <1>8, ReturnsInv

\* Writing one element of a sound array and adding to its count.
LEMMA WrittenSound ==
    ASSUME NEW d, Sound(d), NEW elems \in [DOMAIN d.data -> Vals], NEW n \in Nat,
           n <= d.capacity
    PROVE  Sound([d EXCEPT !.data = elems, !.count = n])
  <1>1. [d EXCEPT !.data = elems, !.count = n]
            = [data |-> elems, count |-> n, capacity |-> d.capacity,
               max_capacity |-> d.max_capacity]
    <2> DEFINE e == [d EXCEPT !.data = elems]
    <2>1. [d EXCEPT !.data = elems, !.count = n] = [e EXCEPT !.count = n]
      OBVIOUS
    <2>2. e = [data |-> elems, count |-> d.count, capacity |-> d.capacity,
               max_capacity |-> d.max_capacity]
      BY DEF Sound
    <2> HIDE DEF e
    <2>3. e = [data |-> e.data, count |-> e.count, capacity |-> e.capacity,
               max_capacity |-> e.max_capacity]
      BY <2>2
    <2>4. [e EXCEPT !.count = n] = [data |-> e.data, count |-> n, capacity |-> e.capacity,
                                    max_capacity |-> e.max_capacity]
      BY <2>3
    <2>5. e.data = elems /\ e.capacity = d.capacity /\ e.max_capacity = d.max_capacity
      BY <2>2
    <2>6. QED
      BY <2>1, <2>4, <2>5
  <1>2. elems \in [0..(d.max_capacity - 1) -> Vals]
    BY DEF Sound
  <1>3. QED
    BY <1>1, <1>2 DEF Sound

LEMMA PushBackInv ==
    ASSUME DaInv, NEW x \in DaItems, vf_da_push_back(x)
    PROVE  DaInv'
  <1> DEFINE n == da.capacity * DA_RESIZE_FACTOR
             d == IF Full(da) THEN Reserved(da, n) ELSE da
             inside == (Full(da) => ReserveInside(da, n)) /\ d.count \in DOMAIN d.data
             elems == [d.data EXCEPT ![d.count] = x]
             after == [d EXCEPT !.data = elems, !.count = d.count + 1]
  <1>1. n \in Nat /\ n = 2 * da.capacity
    BY InvFacts DEF DA_RESIZE_FACTOR
  <1>2. Sound(d) /\ d.count = da.count
    BY <1>1, ReservedSound, InvFacts
  <1>3. inside => Sound(after)
    <2>1. SUFFICES ASSUME d.count \in DOMAIN d.data PROVE Sound(after)
      OBVIOUS
    <2>2. elems \in [DOMAIN d.data -> Vals]
      BY <1>2 DEF Sound, Vals
    <2>3. d.count + 1 \in Nat /\ d.count + 1 <= d.capacity
      BY <1>2, <2>1 DEF Sound
    <2> HIDE DEF elems, d
    <2>4. QED
      BY <1>2, <2>2, <2>3, WrittenSound
  <1>4. ~inside => Excused("push_back")
    <2>1. SUFFICES ASSUME ~Overstated, da.capacity # 0 PROVE inside
      BY DEF Excused
    <2>2. da.capacity = da.max_capacity
      BY <2>1, InvFacts
    <2>3. Full(da) => ReserveInside(da, n)
      BY <2>2, InvFacts DEF ReserveInside
    <2>4. d.count < d.max_capacity
      <3>1. CASE Full(da)
        <4>1. da.capacity < n /\ da.count < n
          BY <1>1, <2>1, InvFacts
        <4>2. ~(da.capacity >= n)
          BY <1>1, <4>1, InvFacts
        <4>3. Reserved(da, n).max_capacity = n
          BY <1>1, <4>2, ReservedSound, InvFacts
        <4>4. QED
          BY <1>2, <3>1, <4>1, <4>3
      <3>2. CASE ~Full(da)
        BY <3>2, <2>2, InvFacts DEF Full
      <3>3. QED
        BY <3>1, <3>2
    <2>5. QED
      BY <1>2, <2>3, <2>4 DEF Sound
  <1>5. Returns("push_back", inside, after, FALSE)
    BY DEF vf_da_push_back
  <1>6. inside \in BOOLEAN /\ "push_back" \in Calls
    BY DEF Calls
  <1> HIDE DEF inside, after
  <1>7. QED
    BY <1>3, <1>4, <1>5, <1>6, ReturnsInv

LEMMA PopBackInv ==
    ASSUME DaInv, vf_da_pop_back
    PROVE  DaInv'
  <1> DEFINE after == [da EXCEPT !.count = da.count - 1]
  <1>1. after = [da EXCEPT !.data = da.data, !.count = da.count - 1]
    BY InvFacts DEF Sound
  <1>2. da.count - 1 \in Nat /\ da.count - 1 <= da.capacity
    BY InvFacts DEF vf_da_pop_back, vf_da_is_empty
  <1>3. Sound(after)
    <2>1. da.data \in [DOMAIN da.data -> Vals]
      BY InvFacts DEF Sound
    <2>2. QED
      BY <1>1, <1>2, <2>1, InvFacts, WrittenSound
  <1>4. Returns("pop_back", TRUE, after, FALSE)
    BY DEF vf_da_pop_back
  <1> HIDE DEF after
  <1>5. QED
    BY <1>3, <1>4, ReturnsInv

LEMMA ClearInv ==
    ASSUME DaInv, vf_da_clear
    PROVE  DaInv'
  <1> DEFINE after == [da EXCEPT !.count = 0]
  <1>1. after = [da EXCEPT !.data = da.data, !.count = 0]
    BY InvFacts DEF Sound
  <1>2. Sound(after)
    <2>1. da.data \in [DOMAIN da.data -> Vals]
      BY InvFacts DEF Sound
    <2>2. QED
      <3>1. 0 \in Nat /\ 0 <= da.capacity
        BY InvFacts
      <3> HIDE DEF after
      <3>2. QED
        BY <1>1, <2>1, <3>1, InvFacts, WrittenSound
  <1>3. Returns("clear", TRUE, after, FALSE)
    BY DEF vf_da_clear
  <1> HIDE DEF after
  <1>4. QED
    BY <1>2, <1>3, ReturnsInv

LEMMA SwapInv ==
    ASSUME DaInv, NEW k \in 0..(da.count - 1), NEW l \in 0..(da.count - 1), vf_da_swap(k, l)
    PROVE  DaInv'
  <1> DEFINE inside == {k, l} \subseteq DOMAIN da.data
             elems == [da.data EXCEPT ![k] = da.data[l], ![l] = da.data[k]]
             after == [da EXCEPT !.data = elems]
  <1>1. inside => Sound(after)
    <2>1. SUFFICES ASSUME inside PROVE Sound(after)
      OBVIOUS
    <2>2. elems \in [DOMAIN da.data -> Vals]
      BY <2>1, InvFacts DEF Sound
    <2> HIDE DEF elems
    <2>3. after = [da EXCEPT !.data = elems, !.count = da.count]
      BY InvFacts DEF Sound
    <2>4. QED
      BY <2>2, <2>3, InvFacts, WrittenSound
  <1>2. ~inside => Excused("swap")
    BY InvFacts DEF Sound, Excused, Overstated
  <1>3. Returns("swap", inside, after, FALSE)
    BY DEF vf_da_swap, _vf_memswap
  <1>4. inside \in BOOLEAN /\ "swap" \in Calls
    BY DEF Calls
  <1> HIDE DEF inside, after
  <1>5. QED
    BY <1>1, <1>2, <1>3, <1>4, ReturnsInv

\* The header may promise more.
LEMMA PromisedSound ==
    ASSUME NEW d, Sound(d), NEW n \in Nat, n >= d.capacity
    PROVE  LET h == [d EXCEPT !.capacity = n]
           IN  /\ Sound(h)
               /\ h.count = d.count /\ h.data = d.data /\ h.capacity = n
               /\ h.max_capacity = d.max_capacity
  <1> DEFINE h == [d EXCEPT !.capacity = n]
  <1>1. h = [data |-> d.data, count |-> d.count, capacity |-> n,
             max_capacity |-> d.max_capacity]
    BY DEF Sound
  <1> HIDE DEF h
  <1>2. QED
    BY <1>1 DEF Sound, h

\* Moving elements up by one stays among the values of the block.
LEMMA ShiftedValues ==
    ASSUME NEW d, Sound(d), NEW from \in 0..d.count, NEW chunk \in Nat \ {0},
           d.count \in DOMAIN d.data
    PROVE  Shifted(d, from, chunk) \in [DOMAIN d.data -> Vals]
  <1> DEFINE at(k) == IF k \in (from + 1)..d.count
                      THEN IF chunk = 1 THEN d.data[from]
                           ELSE IF k > from + 1 /\ (k - from - 1) % chunk = 0
                           THEN d.data[k - 2] ELSE d.data[k - 1]
                      ELSE d.data[k]
  <1>1. DOMAIN d.data = 0..(d.max_capacity - 1) /\ \A k \in DOMAIN d.data : d.data[k] \in Vals
    BY DEF Sound
  <1>2. d.count \in Nat /\ d.max_capacity \in Nat
    BY DEF Sound
  <1>3. ASSUME NEW k \in DOMAIN d.data PROVE at(k) \in Vals
    <2>1. CASE k \in (from + 1)..d.count
      <3>1. from \in DOMAIN d.data /\ k - 1 \in DOMAIN d.data
            /\ (k > from + 1 => k - 2 \in DOMAIN d.data)
        BY <1>1, <1>2, <2>1
      <3>2. QED
        BY <1>1, <2>1, <3>1
    <2>2. CASE k \notin (from + 1)..d.count
      BY <1>1, <2>2
    <2>3. QED
      BY <2>1, <2>2
  <1>4. Shifted(d, from, chunk) = [k \in DOMAIN d.data |-> at(k)]
    BY DEF Shifted
  <1> HIDE DEF at
  <1>5. QED
    BY <1>3, <1>4

LEMMA InsertInv ==
    ASSUME DaInv, NEW x \in DaItems, NEW index \in 0..da.count, NEW chunk \in Nat \ {0},
           vf_da_insert(x, index, chunk)
    PROVE  DaInv'
  <1> DEFINE h == IF Full(da) THEN [da EXCEPT !.capacity = da.capacity * DA_RESIZE_FACTOR] ELSE da
             d == IF Full(da) THEN Reserved(h, h.capacity) ELSE h
             inside == d.count \in DOMAIN d.data
             elems == [Shifted(d, index, chunk) EXCEPT ![index] = x]
             after == [d EXCEPT !.data = elems, !.count = d.count + 1]
             lost == chunk < d.count - index
  <1>1. Sound(h) /\ h.count = da.count /\ h.max_capacity = da.max_capacity
    <2>1. CASE Full(da)
      <3> DEFINE n == da.capacity * DA_RESIZE_FACTOR
      <3>1. n \in Nat /\ n >= da.capacity
        BY InvFacts DEF DA_RESIZE_FACTOR
      <3> HIDE DEF n
      <3>2. Sound([da EXCEPT !.capacity = n])
            /\ [da EXCEPT !.capacity = n].count = da.count
            /\ [da EXCEPT !.capacity = n].max_capacity = da.max_capacity
        BY <3>1, InvFacts, PromisedSound
      <3>3. h = [da EXCEPT !.capacity = n]
        BY <2>1 DEF n
      <3> HIDE DEF h
      <3>4. QED
        BY <3>2, <3>3
    <2>2. CASE ~Full(da)
      BY <2>2, InvFacts
    <2>3. QED
      BY <2>1, <2>2
  <1> HIDE DEF h
  <1>2. d = h
    BY <1>1 DEF Reserved, Sound
  <1> HIDE DEF d
  <1>3. inside => Sound(after)
    <2>1. SUFFICES ASSUME d.count \in DOMAIN d.data PROVE Sound(after)
      OBVIOUS
    <2>2. Shifted(d, index, chunk) \in [DOMAIN d.data -> Vals]
      BY <1>1, <1>2, <2>1, ShiftedValues
    <2>3. elems \in [DOMAIN d.data -> Vals]
      BY <2>2 DEF Vals
    <2>4. d.count + 1 \in Nat /\ d.count + 1 <= d.capacity
      BY <1>1, <1>2, <2>1 DEF Sound
    <2> HIDE DEF elems
    <2>5. QED
      BY <1>1, <1>2, <2>3, <2>4, WrittenSound
  <1>4. ~inside => Excused("insert")
    <2>1. SUFFICES ASSUME ~Overstated, ~Full(da) PROVE inside
      BY DEF Excused
    <2>2. da.count < da.max_capacity
      BY <2>1, InvFacts DEF Full
    <2>3. QED
      BY <1>1, <1>2, <2>2 DEF Sound
  <1>5. Returns("insert", inside, after, lost)
    BY DEF vf_da_insert, d, h
  <1>6. "insert" \in Calls /\ "insert" \in {"resize", "insert", "append"}
    BY DEF Calls
  <1>7. inside \in BOOLEAN /\ lost \in BOOLEAN
    OBVIOUS
  <1> HIDE DEF inside, after, lost
  <1>8. QED
    BY <1>3, <1>4, <1>5, <1>6, <1>7, ReturnsInv

LEMMA AppendInv ==
    ASSUME DaInv, NEW b \in DaOthers, vf_da_append(b)
    PROVE  DaInv'
  <1> DEFINE n == da.capacity + b.capacity
             h == [da EXCEPT !.capacity = n]
             d == IF da.capacity < h.capacity THEN Reserved(h, h.capacity) ELSE da
             op == IF b.capacity = 0 THEN "append_nothing" ELSE "append"
             inside == b.capacity > 0 /\ d.count \in DOMAIN d.data
             elems == AppendCopies(d, b)
             after == [d EXCEPT !.data = elems, !.count = d.count + Len(b.items)]
             lost == Len(b.items) > 1
  <1>1. b.capacity \in Nat /\ b.items \in Seq(DaItems) /\ Len(b.items) <= b.capacity
    BY DaAssumption
  <1>2. Len(b.items) \in Nat
    BY <1>1
  <1>3. n \in Nat /\ n >= da.capacity
    BY <1>1, InvFacts
  <1>4. Sound(h) /\ h.count = da.count /\ h.max_capacity = da.max_capacity /\ h.capacity = n
    <2> HIDE DEF n
    <2>1. QED
      BY <1>3, InvFacts, PromisedSound
  <1>5. /\ Sound(d) /\ d.count = da.count /\ d.max_capacity = da.max_capacity
        /\ d.capacity = da.capacity + b.capacity
    <2> HIDE DEF h
    <2>1. CASE da.capacity < h.capacity
      <3>1. Reserved(h, h.capacity) = h
        BY <1>3, <1>4 DEF Reserved
      <3>2. QED
        BY <1>4, <2>1, <3>1
    <2>2. CASE ~(da.capacity < h.capacity)
      <3>1. b.capacity = 0
        BY <1>1, <1>4, <2>2, InvFacts
      <3>2. QED
        BY <2>2, <3>1, InvFacts
    <2>3. QED
      BY <2>1, <2>2
  <1>6. Returns(op, inside, after, lost)
    BY DEF vf_da_append
  <1> HIDE DEF h, d
  <1>7. inside => Sound(after)
    <2>1. SUFFICES ASSUME d.count \in DOMAIN d.data PROVE Sound(after)
      OBVIOUS
    <2>2. elems \in [DOMAIN d.data -> Vals]
      <3>1. (IF b.items = <<>> THEN DaGarbage ELSE b.items[1]) \in Vals
        BY <1>1 DEF Vals
      <3>2. d.data \in [DOMAIN d.data -> Vals]
        BY <1>5 DEF Sound
      <3>3. QED
        BY <2>1, <3>1, <3>2 DEF AppendCopies
    <2>3. d.count + Len(b.items) \in Nat /\ d.count + Len(b.items) <= d.capacity
      BY <1>1, <1>2, <1>5, InvFacts
    <2> HIDE DEF elems
    <2>4. QED
      BY <1>5, <2>2, <2>3, WrittenSound
  <1>8. ~inside => Excused(op)
    <2>1. CASE b.capacity = 0
      BY <2>1 DEF Excused
    <2>2. CASE b.capacity # 0 /\ (Overstated \/ Full(da))
      BY <2>2 DEF Excused
    <2>3. CASE b.capacity # 0 /\ ~Overstated /\ ~Full(da)
      <3>1. da.count < da.max_capacity
        BY <2>3, InvFacts DEF Full
      <3>2. inside
        BY <1>1, <1>5, <2>3, <3>1 DEF Sound
      <3>3. QED
        BY <3>2
    <2>4. QED
      BY <2>1, <2>2, <2>3
  <1>9. op \in Calls
    BY DEF Calls
  <1>10. lost => op \in {"resize", "insert", "append"}
    BY <1>1, <1>2
  <1>11. inside \in BOOLEAN /\ lost \in BOOLEAN
    OBVIOUS
  <1> HIDE DEF inside, after, lost, op
  <1>12. QED
    BY <1>6, <1>7, <1>8, <1>9, <1>10, <1>11, ReturnsInv

LEMMA FreeInv ==
    ASSUME DaInv, vf_da_free
    PROVE  DaInv'
  <1>1. da_undefined = "none" /\ da_undefined' = "none"
    BY DEF vf_da_free, DaUsable
  <1>2. Sound(da)'
    BY AllocatedSound DEF vf_da_free, Sound
  <1>3. DaOverrunsAreKnown'
    BY <1>1 DEF DaOverrunsAreKnown
  <1>4. QED
    BY <1>1, <1>2, <1>3 DEF vf_da_free, DaInv

LEMMA DaInvIsInductive == DaInv /\ [DaNext]_da_vars => DaInv'
  <1> SUFFICES ASSUME DaInv, [DaNext]_da_vars PROVE DaInv'
    OBVIOUS
  <1>1. CASE \E n \in 0..DaMaxCapacity : vf_da_reserve(n) \/ vf_da_resize(n)
    BY <1>1, ReserveInv, ResizeInv
  <1>2. CASE \E x \in DaItems : vf_da_push_back(x)
    BY <1>2, PushBackInv
  <1>3. ASSUME NEW x \in DaItems, NEW index \in 0..da.count,
               NEW chunk \in 1..(da.count - index) \cup {1}, vf_da_insert(x, index, chunk)
        PROVE  DaInv'
    <2>1. chunk \in Nat \ {0}
      BY InvFacts
    <2>2. QED
      BY <1>3, <2>1, InsertInv
  <1>4. CASE \E b \in DaOthers : vf_da_append(b)
    BY <1>4, AppendInv
  <1>5. CASE \E k, l \in 0..(da.count - 1) : vf_da_swap(k, l)
    BY <1>5, SwapInv
  <1>6. CASE vf_da_pop_back \/ vf_da_clear \/ vf_da_free
    BY <1>6, PopBackInv, ClearInv, FreeInv
  <1>7. CASE UNCHANGED da_vars
    BY <1>7 DEF da_vars, DaInv, Sound, DaOverrunsAreKnown, Overstated, Full
  <1>8. QED
    BY <1>1, <1>2, <1>3, <1>4, <1>5, <1>6, <1>7 DEF DaNext

-----------------------------------------------------------------------------
(* The dynamic array: theorems *)

\* The header of a dynamic array never lies about the block it owns: as long as
\* no call has left it, max_capacity is the number of elements malloc gave.
THEOREM DaHeaderCorrect == DaSpec => []DaHeaderTellsMemory
  <1>1. DaInv => DaHeaderTellsMemory
    <2> SUFFICES ASSUME DaInv PROVE DaHeaderTellsMemory
      OBVIOUS
    <2>1. da.data \in [0..(da.max_capacity - 1) -> Vals]
      BY InvFacts DEF Sound
    <2>2. DOMAIN da.data = 0..(da.max_capacity - 1)
      BY <2>1
    <2>3. da.data \in [DOMAIN da.data -> DaItems \cup {DaGarbage}]
      BY <2>1, <2>2 DEF Vals
    <2>4. QED
      BY <2>2, <2>3, InvFacts DEF DaHeaderTellsMemory, DaTypeOK, DaInv
  <1>2. QED
    BY <1>1, DaInitInv, DaInvIsInductive, PTL DEF DaSpec

\* A call of vf_darray.h leaves the elements it was given only in the cases that
\* are known: with an overstated capacity, a full array, no capacity at all, or
\* an appended array that has none.
THEOREM DaOverrunsCorrect == DaSpec => []DaOverrunsAreKnown
  <1>1. DaInv => DaOverrunsAreKnown
    BY DEF DaInv
  <1>2. QED
    BY <1>1, DaInitInv, DaInvIsInductive, PTL DEF DaSpec

-----------------------------------------------------------------------------
(* The dynamic array: what it holds, as a sequence *)

\* The elements the array d holds.
HeldBy(d) == [k \in 1..d.count |-> IF k - 1 \in DOMAIN d.data THEN d.data[k - 1]
                                                             ELSE DaGarbage]

LEMMA HeldIsSequence ==
    ASSUME NEW d, Sound(d)
    PROVE  /\ HeldBy(d) \in Seq(Vals) /\ Len(HeldBy(d)) = d.count
           /\ DOMAIN HeldBy(d) = 1..d.count
           /\ d.count = 0 <=> HeldBy(d) = <<>>
  <1> DEFINE n == d.count
             s == HeldBy(d)
  <1>1. n \in Nat /\ \A k \in DOMAIN d.data : d.data[k] \in Vals
    BY DEF Sound
  <1>2. s \in [1..n -> Vals]
    BY <1>1 DEF HeldBy, Vals
  <1> HIDE DEF n, s
  <1>3. s \in Seq(Vals) /\ Len(s) = n /\ DOMAIN s = 1..n
    BY <1>1, <1>2
  <1>4. n = 0 <=> s = <<>>
    BY <1>1, <1>3, EmptySeq
  <1>5. QED
    BY <1>3, <1>4 DEF n, s

\* InsertAt puts one element between others.
LEMMA InsertAtPutsIn ==
    ASSUME NEW S, NEW s \in Seq(S), NEW x \in S, NEW p \in 1..(Len(s) + 1)
    PROVE  DaSeq!InsertAt(s, p, x)
               = [k \in 1..(Len(s) + 1) |-> IF k < p THEN s[k]
                                            ELSE IF k = p THEN x ELSE s[k - 1]]
  <1> DEFINE n == Len(s)
             a == SubSeq(s, 1, p - 1)
             b == SubSeq(s, p, n)
             w == <<x>>
             c == a \o w
             r == c \o b
  <1>0. n \in Nat /\ p \in Nat /\ p <= n + 1 /\ p >= 1
    OBVIOUS
  <1>1. a \in Seq(S) /\ Len(a) = p - 1 /\ \A k \in 1..(p - 1) : a[k] = s[k]
    OBVIOUS
  <1>2. b \in Seq(S) /\ Len(b) = n + 1 - p /\ \A k \in 1..(n + 1 - p) : b[k] = s[p + k - 1]
    OBVIOUS
  <1>3. w \in Seq(S) /\ Len(w) = 1 /\ w[1] = x
    OBVIOUS
  <1>4. DaSeq!InsertAt(s, p, x) = r
    BY DEF DaSeq!InsertAt
  <1> HIDE DEF a, b, w, n
  <1>5. c \in Seq(S) /\ Len(c) = Len(a) + Len(w)
    BY <1>1, <1>3, ConcatProperties
  <1>6. \A k \in 1..(Len(a) + Len(w)) : c[k] = IF k <= Len(a) THEN a[k] ELSE w[k - Len(a)]
    BY <1>1, <1>3, ConcatProperties
  <1> HIDE DEF c
  <1>7. Len(c) = p
    BY <1>0, <1>1, <1>3, <1>5
  <1>8. \A k \in 1..p : c[k] = IF k <= p - 1 THEN s[k] ELSE x
    <2>1. SUFFICES ASSUME NEW k \in 1..p PROVE c[k] = IF k <= p - 1 THEN s[k] ELSE x
      OBVIOUS
    <2>2. c[k] = IF k <= p - 1 THEN a[k] ELSE w[k - (p - 1)]
      BY <1>0, <1>1, <1>3, <1>6
    <2>3. k <= p - 1 => k \in 1..(p - 1)
      BY <1>0
    <2>4. ~(k <= p - 1) => k - (p - 1) = 1
      BY <1>0
    <2>5. QED
      BY <2>2, <2>3, <2>4, <1>1, <1>3
  <1>9. r \in Seq(S) /\ Len(r) = Len(c) + Len(b)
    BY <1>2, <1>5, ConcatProperties
  <1>10. \A k \in 1..(Len(c) + Len(b)) : r[k] = IF k <= Len(c) THEN c[k] ELSE b[k - Len(c)]
    <2>1. c \in Seq(S) /\ b \in Seq(S)
      BY <1>2, <1>5
    <2>2. QED
      BY <2>1, ConcatProperties
  <1> HIDE DEF r
  <1>11. Len(r) = n + 1
    BY <1>0, <1>2, <1>7, <1>9
  <1>12. \A k \in 1..(n + 1) : r[k] = IF k <= p THEN c[k] ELSE b[k - p]
    BY <1>0, <1>2, <1>7, <1>10
  <1>13. ASSUME NEW k \in 1..(n + 1)
         PROVE  r[k] = IF k < p THEN s[k] ELSE IF k = p THEN x ELSE s[k - 1]
    <2>1. CASE k <= p
      <3>1. k \in 1..p /\ (k <= p - 1 <=> k < p)
        BY <1>0, <2>1
      <3>2. QED
        BY <2>1, <3>1, <1>0, <1>8, <1>12
    <2>2. CASE ~(k <= p)
      <3>1. k - p \in 1..(n + 1 - p) /\ p + (k - p) - 1 = k - 1 /\ ~(k < p) /\ k # p
        BY <1>0, <2>2
      <3>2. b[k - p] = s[k - 1]
        BY <3>1, <1>2
      <3>3. QED
        BY <2>2, <3>1, <3>2, <1>12
    <2>3. QED
      BY <2>1, <2>2
  <1>14. r = [k \in 1..(n + 1) |-> r[k]]
    BY <1>9, <1>11
  <1>15. QED
    BY <1>4, <1>13, <1>14 DEF n

\* Moving the array to a block of the size asked for keeps what it holds.
LEMMA ReservedHolds ==
    ASSUME NEW d, Sound(d), NEW n \in Nat, ReserveInside(d, n)
    PROVE  HeldBy(Reserved(d, n)) = HeldBy(d)
  <1>1. CASE d.capacity >= n
    BY <1>1 DEF Reserved
  <1>2. CASE ~(d.capacity >= n)
    <2> DEFINE b == Moved(d, n, d.capacity)
               new == [k \in 0..(n - 1) |-> IF k < d.capacity /\ k \in DOMAIN d.data
                                            THEN d.data[k] ELSE DaGarbage]
    <2>0. /\ d.count \in Nat /\ d.capacity \in Nat /\ d.count <= d.capacity
          /\ DOMAIN d.data = 0..(d.capacity - 1) /\ d.capacity < n
      BY <1>2 DEF Sound, ReserveInside
    <2>1. b = [data |-> new, count |-> 0, capacity |-> n, max_capacity |-> n]
      BY MovedIs
    <2>2. Reserved(d, n) = [b EXCEPT !.count = d.count]
      BY <1>2 DEF Reserved
    <2> HIDE DEF new, b
    <2>3. Reserved(d, n) = [data |-> new, count |-> d.count, capacity |-> n, max_capacity |-> n]
      BY <2>1, <2>2
    <2>4. ASSUME NEW k \in 1..d.count
          PROVE  /\ k - 1 \in DOMAIN d.data /\ k - 1 \in DOMAIN new
                 /\ new[k - 1] = d.data[k - 1]
      <3>1. k - 1 \in DOMAIN d.data /\ k - 1 \in 0..(n - 1) /\ k - 1 < d.capacity
        BY <2>0
      <3>2. QED
        BY <3>1 DEF new
    <2>5. QED
      BY <2>3, <2>4 DEF HeldBy
  <1>3. QED
    BY <1>1, <1>2

\* Writing one element where the block has room for it puts it into the sequence
\* if what was held from there on has moved up by one.
LEMMA WrittenPutsIn ==
    ASSUME NEW d, Sound(d), NEW x \in DaItems, NEW p \in 0..d.count,
           d.count \in DOMAIN d.data, NEW elems, DOMAIN elems = DOMAIN d.data,
           \A k \in 0..d.count : elems[k] = IF k < p THEN d.data[k]
                                            ELSE IF k = p THEN x ELSE d.data[k - 1]
    PROVE  LET e == [d EXCEPT !.data = elems, !.count = d.count + 1]
           IN  HeldBy(e) = DaSeq!InsertAt(HeldBy(d), p + 1, x)
  <1> DEFINE n == d.count
             e == [d EXCEPT !.data = elems, !.count = n + 1]
             s == HeldBy(d)
  <1>1. n \in Nat /\ DOMAIN d.data = 0..(d.max_capacity - 1) /\ d.max_capacity \in Nat
    BY DEF Sound
  <1>2. e.data = elems /\ e.count = n + 1
    <2> DEFINE d1 == [d EXCEPT !.data = elems]
    <2>1. d1 = [data |-> elems, count |-> d.count, capacity |-> d.capacity,
                max_capacity |-> d.max_capacity]
      BY DEF Sound
    <2>2. e = [d1 EXCEPT !.count = n + 1]
      OBVIOUS
    <2> HIDE DEF d1, e, n
    <2>3. QED
      BY <2>1, <2>2
  <1>3. s \in Seq(Vals) /\ Len(s) = n /\ x \in Vals
    BY HeldIsSequence DEF Vals
  <1>4. \A k \in 1..n : k - 1 \in DOMAIN d.data
    BY <1>1
  <1>5. \A k \in 1..n : s[k] = d.data[k - 1]
    BY <1>4 DEF HeldBy
  <1>6. \A k \in 1..(n + 1) : k - 1 \in DOMAIN elems
    BY <1>1
  <1>7. HeldBy(e) = [k \in 1..(n + 1) |-> elems[k - 1]]
    <2> HIDE DEF e, n
    <2>1. QED
      BY <1>2, <1>6 DEF HeldBy
  <1>8. DaSeq!InsertAt(s, p + 1, x)
            = [k \in 1..(n + 1) |-> IF k < p + 1 THEN s[k]
                                    ELSE IF k = p + 1 THEN x ELSE s[k - 1]]
    <2> DEFINE q == p + 1
    <2>1. q \in 1..(Len(s) + 1)
      BY <1>1, <1>3
    <2>2. s \in Seq(Vals) /\ x \in Vals /\ Len(s) = n
      BY <1>3
    <2> HIDE DEF s, n, q
    <2>3. DaSeq!InsertAt(s, q, x)
              = [k \in 1..(Len(s) + 1) |-> IF k < q THEN s[k]
                                           ELSE IF k = q THEN x ELSE s[k - 1]]
      BY <2>1, <2>2, InsertAtPutsIn
    <2>4. QED
      BY <2>2, <2>3 DEF q
  <1>9. ASSUME NEW k \in 1..(n + 1)
        PROVE  elems[k - 1] = IF k < p + 1 THEN s[k] ELSE IF k = p + 1 THEN x ELSE s[k - 1]
    <2>1. k - 1 \in 0..n /\ (k - 1 < p <=> k < p + 1) /\ (k - 1 = p <=> k = p + 1)
      BY <1>1
    <2>2. elems[k - 1] = IF k - 1 < p THEN d.data[k - 1]
                        ELSE IF k - 1 = p THEN x ELSE d.data[(k - 1) - 1]
      BY <2>1
    <2>3. CASE k < p + 1
      <3>1. k \in 1..n
        BY <1>1, <2>3
      <3>2. QED
        BY <2>1, <2>2, <2>3, <3>1, <1>5
    <2>4. CASE k = p + 1
      BY <2>1, <2>2, <2>4, <1>1
    <2>5. CASE k > p + 1
      <3>1. k - 1 \in 1..n /\ ~(k < p + 1) /\ k # p + 1
        BY <1>1, <2>5
      <3>2. QED
        BY <2>1, <2>2, <3>1, <1>5
    <2>6. QED
      BY <2>3, <2>4, <2>5, <1>1
  <1>10. QED
    <2> HIDE DEF s, n, e
    <2>1. HeldBy(e) = DaSeq!InsertAt(s, p + 1, x)
      BY <1>7, <1>8, <1>9
    <2>2. QED
      BY <2>1 DEF e, s, n

-----------------------------------------------------------------------------
(* The dynamic array: every call edits the sequence *)

\* What DaEditsSequence says of a step.
EditsAsKnown ==
    CASE da_lost' = "resize" -> DaContents' = <<>>
      [] da_lost' = "insert" -> Len(DaContents') = Len(DaContents) + 1
      [] da_lost' = "append" -> SubSeq(DaContents', 1, da.count) = DaContents
      [] da_lost' = "none"   -> DaSeq!Next \/ UNCHANGED <<DaContents, da_alive>>

\* t is s after one edit, or after none.
EditOf(s, t) ==
    \/ \E x \in DaItems, k \in 1..(Len(s) + 1) : t = DaSeq!InsertAt(s, k, x)
    \/ s # <<>> /\ t = DaSeq!Front(s)
    \/ \E k, l \in DOMAIN s : t = [s EXCEPT ![k] = s[l], ![l] = s[k]]
    \/ t = <<>>
    \/ t = s

\* What a call owes: it returns an edited array, or it is one of those known to
\* spoil elements and does so in the known way.
LEMMA ReturnsEdit ==
    ASSUME DaInv, NEW op, NEW inside \in BOOLEAN, NEW d, NEW lost \in BOOLEAN,
           Returns(op, inside, d, lost),
           inside /\ ~lost => EditOf(HeldBy(da), HeldBy(d)),
           inside /\ lost =>
              \/ op = "resize" /\ HeldBy(d) = <<>>
              \/ op = "insert" /\ Len(HeldBy(d)) = Len(HeldBy(da)) + 1
              \/ op = "append" /\ SubSeq(HeldBy(d), 1, da.count) = HeldBy(da)
    PROVE  EditsAsKnown
  <1>1. da_alive /\ da_alive' = da_alive
    BY DEF Returns, DaUsable
  <1>2. DaContents = HeldBy(da) /\ DaContents' = HeldBy(da')
    BY DEF DaContents, HeldBy
  <1>3. CASE inside /\ da' = d /\ da_lost' = (IF lost THEN op ELSE "none")
    <2>1. CASE lost
      <3>1. da_lost' = op /\ DaContents' = HeldBy(d)
        BY <1>2, <1>3, <2>1
      <3>2. QED
        BY <1>2, <1>3, <2>1, <3>1 DEF EditsAsKnown
    <2>2. CASE ~lost
      <3> DEFINE s == DaContents
                 t == DaContents'
      <3>1. da_lost' = "none" /\ EditOf(s, t)
        BY <1>2, <1>3, <2>2
      <3>2. CASE t = s
        BY <1>1, <3>1, <3>2 DEF EditsAsKnown
      <3>3. CASE t # s
        <4>1. ASSUME NEW x \in DaItems, NEW k \in 1..(Len(s) + 1), t = DaSeq!InsertAt(s, k, x)
              PROVE  DaSeq!Next
          <5>1. DaSeq!Put(x, k)
            BY <4>1 DEF DaSeq!Put
          <5>2. QED
            BY <5>1, <1>1 DEF DaSeq!Next, DaSeq!Edit
        <4>2. ASSUME s # <<>>, t = DaSeq!Front(s) PROVE DaSeq!Next
          <5>1. DaSeq!RemoveLast
            BY <4>2 DEF DaSeq!RemoveLast
          <5>2. QED
            BY <5>1, <1>1 DEF DaSeq!Next, DaSeq!Edit
        <4>3. ASSUME NEW k \in DOMAIN s, NEW l \in DOMAIN s,
                     t = [s EXCEPT ![k] = s[l], ![l] = s[k]]
              PROVE  DaSeq!Next
          <5>1. DaSeq!Exchange(k, l)
            BY <4>3 DEF DaSeq!Exchange
          <5>2. QED
            BY <5>1, <1>1 DEF DaSeq!Next, DaSeq!Edit
        <4>4. ASSUME t = <<>> PROVE DaSeq!Next
          <5>1. DaSeq!Clear
            BY <4>4 DEF DaSeq!Clear
          <5>2. QED
            BY <5>1, <1>1 DEF DaSeq!Next, DaSeq!Edit
        <4>5. DaSeq!Next
          <5> HIDE DEF s, t
          <5>1. QED
            BY <3>1, <3>3, <4>1, <4>2, <4>3, <4>4, Zenon DEF EditOf
        <4>6. QED
          BY <3>1, <4>5 DEF EditsAsKnown
      <3>4. QED
        BY <3>2, <3>3
    <2>3. QED
      BY <2>1, <2>2
  <1>4. CASE da_lost' = "none" /\ UNCHANGED da
    <2>1. DaContents' = DaContents
      BY <1>2, <1>4
    <2>2. QED
      BY <1>1, <1>4, <2>1 DEF EditsAsKnown
  <1>5. QED
    BY <1>3, <1>4 DEF Returns

LEMMA ReserveEdits ==
    ASSUME DaInv, NEW n \in 0..DaMaxCapacity, vf_da_reserve(n)
    PROVE  EditsAsKnown
  <1> DEFINE inside == ReserveInside(da, n)
             after == Reserved(da, n)
  <1>1. n \in Nat
    BY DaAssumption
  <1>2. inside => HeldBy(after) = HeldBy(da)
    BY <1>1, ReservedHolds, InvFacts
  <1>3. inside => EditOf(HeldBy(da), HeldBy(after))
    BY <1>2 DEF EditOf
  <1>4. inside \in BOOLEAN
    BY DEF ReserveInside
  <1>5. Returns("reserve", inside, after, FALSE)
    BY DEF vf_da_reserve
  <1> HIDE DEF inside, after
  <1>6. QED
    BY <1>3, <1>4, <1>5, ReturnsEdit

LEMMA ResizeEdits ==
    ASSUME DaInv, NEW n \in 0..DaMaxCapacity, vf_da_resize(n)
    PROVE  EditsAsKnown
  <1> DEFINE inside == da.count <= da.max_capacity
             after == Moved(da, n, da.count)
             lost == da.count > 0
  <1>1. n \in Nat
    BY DaAssumption
  <1>2. Sound(after) /\ after.count = 0
    BY <1>1, MovedSound, InvFacts
  <1> HIDE DEF after
  <1>3. HeldBy(after) = <<>>
    BY <1>2, HeldIsSequence
  <1>4. EditOf(HeldBy(da), HeldBy(after))
    BY <1>3 DEF EditOf
  <1>5. Returns("resize", inside, after, lost)
    BY DEF vf_da_resize, after
  <1>6. inside \in BOOLEAN /\ lost \in BOOLEAN
    OBVIOUS
  <1> HIDE DEF inside, lost
  <1>7. QED
    BY <1>3, <1>4, <1>5, <1>6, ReturnsEdit

LEMMA PushBackEdits ==
    ASSUME DaInv, NEW x \in DaItems, vf_da_push_back(x)
    PROVE  EditsAsKnown
  <1> DEFINE n == da.capacity * DA_RESIZE_FACTOR
             d == IF Full(da) THEN Reserved(da, n) ELSE da
             inside == (Full(da) => ReserveInside(da, n)) /\ d.count \in DOMAIN d.data
             elems == [d.data EXCEPT ![d.count] = x]
             after == [d EXCEPT !.data = elems, !.count = d.count + 1]
  <1>1. n \in Nat
    BY InvFacts DEF DA_RESIZE_FACTOR
  <1>2. Sound(d)
    BY <1>1, ReservedSound, InvFacts
  <1>3. inside => HeldBy(d) = HeldBy(da)
    BY <1>1, ReservedHolds, InvFacts
  <1>4. Returns("push_back", inside, after, FALSE)
    BY DEF vf_da_push_back
  <1>5. inside => d.count \in DOMAIN d.data
    OBVIOUS
  <1>6. inside \in BOOLEAN
    OBVIOUS
  <1> HIDE DEF d, inside
  <1>7. ASSUME inside PROVE EditOf(HeldBy(da), HeldBy(after))
    <2> DEFINE c == d.count
               s == HeldBy(d)
    <2>1. c \in Nat /\ c \in 0..c /\ c \in DOMAIN d.data
          /\ DOMAIN d.data = 0..(d.max_capacity - 1) /\ d.max_capacity \in Nat
      BY <1>2, <1>5, <1>7 DEF Sound
    <2>2. DOMAIN elems = DOMAIN d.data
      OBVIOUS
    <2>3. \A k \in 0..c : elems[k] = IF k < c THEN d.data[k] ELSE IF k = c THEN x ELSE d.data[k - 1]
      BY <2>1
    <2> HIDE DEF elems
    <2>4. HeldBy(after) = DaSeq!InsertAt(s, c + 1, x)
      BY <1>2, <2>1, <2>2, <2>3, WrittenPutsIn
    <2>5. Len(s) = c
      BY <1>2, HeldIsSequence
    <2>6. c + 1 \in 1..(Len(s) + 1)
      BY <2>1, <2>5
    <2> HIDE DEF after, s, c
    <2>7. EditOf(s, HeldBy(after))
      BY <2>4, <2>6 DEF EditOf
    <2>8. QED
      BY <2>7, <1>3, <1>7 DEF s
  <1> HIDE DEF after
  <1>8. QED
    BY <1>4, <1>6, <1>7, ReturnsEdit

LEMMA PopBackEdits ==
    ASSUME DaInv, vf_da_pop_back
    PROVE  EditsAsKnown
  <1> DEFINE after == [da EXCEPT !.count = da.count - 1]
             n == da.count
             s == HeldBy(da)
             t == HeldBy(after)
  <1>1. n \in Nat /\ n # 0
    BY InvFacts DEF vf_da_pop_back, vf_da_is_empty
  <1>2. after.data = da.data /\ after.count = n - 1
    BY InvFacts DEF Sound
  <1>3. Returns("pop_back", TRUE, after, FALSE)
    BY DEF vf_da_pop_back
  <1>4. s \in Seq(Vals) /\ Len(s) = n /\ s # <<>>
    BY <1>1, InvFacts, HeldIsSequence
  <1>5. \A k \in 1..(n - 1) : t[k] = s[k]
    <2> HIDE DEF after
    <2>1. \A k \in 1..(n - 1) : k \in 1..n
      BY <1>1
    <2>2. QED
      BY <1>2, <2>1 DEF HeldBy
  <1>6. t = [k \in 1..(n - 1) |-> t[k]]
    <2> HIDE DEF after, n
    <2>1. QED
      BY <1>2 DEF HeldBy
  <1>7. t = DaSeq!Front(s)
    <2> DEFINE f == SubSeq(s, 1, n - 1)
    <2>1. DaSeq!Front(s) = f
      BY <1>4 DEF DaSeq!Front
    <2> HIDE DEF s, t, n
    <2>2. f \in Seq(Vals) /\ Len(f) = n - 1 /\ \A k \in 1..(n - 1) : f[k] = s[k]
      BY <1>1, <1>4
    <2> HIDE DEF f
    <2>3. f = [k \in 1..(n - 1) |-> f[k]]
      BY <2>2
    <2>4. f = t
      BY <2>2, <2>3, <1>5, <1>6
    <2>5. QED
      BY <2>1, <2>4
  <1>8. EditOf(s, t)
    <2> HIDE DEF s, t
    <2>1. QED
      BY <1>4, <1>7 DEF EditOf
  <1> HIDE DEF after
  <1>9. QED
    BY <1>3, <1>8, ReturnsEdit

LEMMA ClearEdits ==
    ASSUME DaInv, vf_da_clear
    PROVE  EditsAsKnown
  <1> DEFINE after == [da EXCEPT !.count = 0]
  <1>1. after.count = 0
    BY InvFacts DEF Sound
  <1>2. Returns("clear", TRUE, after, FALSE)
    BY DEF vf_da_clear
  <1> HIDE DEF after
  <1>3. HeldBy(after) = <<>>
    BY <1>1 DEF HeldBy
  <1>4. EditOf(HeldBy(da), HeldBy(after))
    BY <1>3 DEF EditOf
  <1>5. QED
    BY <1>2, <1>4, ReturnsEdit

LEMMA SwapEdits ==
    ASSUME DaInv, NEW k \in 0..(da.count - 1), NEW l \in 0..(da.count - 1), vf_da_swap(k, l)
    PROVE  EditsAsKnown
  <1> DEFINE n == da.count
             inside == {k, l} \subseteq DOMAIN da.data
             elems == [da.data EXCEPT ![k] = da.data[l], ![l] = da.data[k]]
             after == [da EXCEPT !.data = elems]
             s == HeldBy(da)
             t == [s EXCEPT ![k + 1] = s[l + 1], ![l + 1] = s[k + 1]]
  <1>1. Returns("swap", inside, after, FALSE)
    BY DEF vf_da_swap, _vf_memswap
  <1>2. inside \in BOOLEAN
    OBVIOUS
  <1>3. after.data = elems /\ after.count = n
    <2> HIDE DEF elems
    <2>1. QED
      BY InvFacts DEF Sound
  <1> HIDE DEF after
  <1>4. ASSUME inside PROVE EditOf(s, HeldBy(after))
    <2>1. n \in Nat /\ k + 1 \in 1..n /\ l + 1 \in 1..n
      BY InvFacts
    <2>2. s = [j \in 1..n |-> IF j - 1 \in DOMAIN da.data THEN da.data[j - 1] ELSE DaGarbage]
      BY DEF HeldBy
    <2>3. DOMAIN elems = DOMAIN da.data
      OBVIOUS
    <2>4. s[k + 1] = da.data[k] /\ s[l + 1] = da.data[l]
      BY <2>1, <2>2, <1>4
    <2>5. HeldBy(after) = [j \in 1..n |-> IF j - 1 \in DOMAIN da.data THEN elems[j - 1] ELSE DaGarbage]
      <3> HIDE DEF elems
      <3>1. QED
        BY <1>3, <2>3 DEF HeldBy
    <2> HIDE DEF s, n
    <2>6. ASSUME NEW j \in 1..n
          PROVE  t[j] = IF j - 1 \in DOMAIN da.data THEN elems[j - 1] ELSE DaGarbage
      <3>1. j - 1 = l <=> j = l + 1
        BY <2>1
      <3>2. j - 1 = k <=> j = k + 1
        BY <2>1
      <3>3. CASE j = l + 1
        <4>1. t[j] = s[k + 1]
          BY <2>1, <2>2, <3>3
        <4>2. elems[j - 1] = da.data[k] /\ j - 1 \in DOMAIN da.data
          BY <1>4, <3>1, <3>3
        <4>3. QED
          BY <4>1, <4>2, <2>4
      <3>4. CASE j # l + 1 /\ j = k + 1
        <4>1. t[j] = s[l + 1]
          BY <2>1, <2>2, <3>4
        <4>2. elems[j - 1] = da.data[l] /\ j - 1 \in DOMAIN da.data
          BY <1>4, <3>1, <3>2, <3>4
        <4>3. QED
          BY <4>1, <4>2, <2>4
      <3>5. CASE j # l + 1 /\ j # k + 1
        <4>1. t[j] = s[j]
          BY <2>2, <3>5
        <4>2. j - 1 \in DOMAIN da.data => elems[j - 1] = da.data[j - 1]
          BY <3>1, <3>2, <3>5
        <4>3. QED
          BY <4>1, <4>2, <2>2
      <3>6. QED
        BY <3>3, <3>4, <3>5
    <2>7. t = [j \in 1..n |-> t[j]] /\ DOMAIN s = 1..n
      <3>1. DOMAIN s = 1..n
        BY <2>2
      <3>2. t = [j \in DOMAIN s |-> t[j]]
        OBVIOUS
      <3>3. QED
        BY <3>1, <3>2
    <2>8. HeldBy(after) = t
      <3> HIDE DEF t, elems
      <3>1. QED
        BY <2>5, <2>6, <2>7
    <2>9. QED
      BY <2>1, <2>7, <2>8 DEF EditOf
  <1> HIDE DEF inside, s
  <1>5. inside => EditOf(HeldBy(da), HeldBy(after))
    BY <1>4 DEF s
  <1>6. QED
    BY <1>1, <1>2, <1>5, ReturnsEdit

\* An insert whose memcpy has no second chunk moves the elements up by one.
LEMMA ShiftedMovesUp ==
    ASSUME NEW d, Sound(d), NEW from \in 0..d.count, NEW chunk \in Nat \ {0},
           d.count \in DOMAIN d.data, ~(chunk < d.count - from)
    PROVE  /\ DOMAIN Shifted(d, from, chunk) = DOMAIN d.data
           /\ \A k \in 0..d.count : k # from =>
                 Shifted(d, from, chunk)[k] = IF k < from THEN d.data[k] ELSE d.data[k - 1]
  <1> DEFINE n == d.count
             first(k) == k > from + 1 /\ (k - from - 1) % chunk = 0
             at(k) == IF k \in (from + 1)..n
                      THEN IF chunk = 1 THEN d.data[from]
                           ELSE IF first(k) THEN d.data[k - 2] ELSE d.data[k - 1]
                      ELSE d.data[k]
  <1>1. n \in Nat /\ DOMAIN d.data = 0..(d.max_capacity - 1) /\ d.max_capacity \in Nat
    BY DEF Sound
  <1>2. Shifted(d, from, chunk) = [k \in DOMAIN d.data |-> at(k)]
    BY DEF Shifted
  <1>3. \A k \in 0..n : k \in DOMAIN d.data
    BY <1>1
  <1>4. ASSUME NEW k \in 0..n, k # from
        PROVE  at(k) = IF k < from THEN d.data[k] ELSE d.data[k - 1]
    <2>1. CASE k < from
      <3>1. k \notin (from + 1)..n
        BY <1>1, <2>1
      <3>2. QED
        BY <2>1, <3>1
    <2>2. CASE k > from
      <3>1. k \in (from + 1)..n /\ ~(k < from)
        BY <1>1, <2>2
      <3>2. CASE chunk = 1
        <4>1. k = from + 1
          BY <1>1, <3>1, <3>2
        <4>2. k - 1 = from
          BY <4>1
        <4>3. QED
          BY <3>1, <3>2, <4>2
      <3>3. CASE chunk # 1
        <4>1. ~first(k)
          <5>1. SUFFICES ASSUME k > from + 1 PROVE (k - from - 1) % chunk # 0
            OBVIOUS
          <5> DEFINE m == k - from - 1
          <5>2. m \in Nat /\ m > 0 /\ m < chunk
            BY <1>1, <3>1, <5>1
          <5> HIDE DEF m
          <5>3. m % chunk = m
            BY <5>2
          <5>4. QED
            BY <5>2, <5>3 DEF m
        <4> HIDE DEF first
        <4>2. QED
          BY <3>1, <3>3, <4>1
      <3>4. QED
        BY <3>2, <3>3
    <2>3. QED
      BY <2>1, <2>2, <1>4, <1>1
  <1> HIDE DEF at, n
  <1>5. DOMAIN Shifted(d, from, chunk) = DOMAIN d.data
    BY <1>2
  <1>6. \A k \in 0..n : k # from =>
           Shifted(d, from, chunk)[k] = IF k < from THEN d.data[k] ELSE d.data[k - 1]
    BY <1>2, <1>3, <1>4
  <1>7. QED
    BY <1>5, <1>6 DEF n

LEMMA InsertEdits ==
    ASSUME DaInv, NEW x \in DaItems, NEW index \in 0..da.count, NEW chunk \in Nat \ {0},
           vf_da_insert(x, index, chunk)
    PROVE  EditsAsKnown
  <1> DEFINE h == IF Full(da) THEN [da EXCEPT !.capacity = da.capacity * DA_RESIZE_FACTOR] ELSE da
             d == IF Full(da) THEN Reserved(h, h.capacity) ELSE h
             c == d.count
             inside == c \in DOMAIN d.data
             elems == [Shifted(d, index, chunk) EXCEPT ![index] = x]
             after == [d EXCEPT !.data = elems, !.count = c + 1]
             lost == chunk < c - index
  <1>1. Sound(h) /\ h.count = da.count /\ h.data = da.data
    <2>1. CASE Full(da)
      <3> DEFINE n == da.capacity * DA_RESIZE_FACTOR
                 g == [da EXCEPT !.capacity = n]
      <3>1. n \in Nat /\ n >= da.capacity
        BY InvFacts DEF DA_RESIZE_FACTOR
      <3>2. h = g
        BY <2>1
      <3> HIDE DEF n, h
      <3>3. Sound(g) /\ g.count = da.count /\ g.data = da.data
        BY <3>1, InvFacts, PromisedSound
      <3> HIDE DEF g
      <3>4. QED
        BY <3>2, <3>3
    <2>2. CASE ~Full(da)
      BY <2>2, InvFacts
    <2>3. QED
      BY <2>1, <2>2
  <1> HIDE DEF h
  <1>2. d = h
    BY <1>1 DEF Reserved, Sound
  <1>3. Returns("insert", inside, after, lost)
    BY DEF vf_da_insert, h
  <1> HIDE DEF d
  <1>4. Sound(d) /\ c = da.count /\ HeldBy(d) = HeldBy(da)
    BY <1>1, <1>2 DEF HeldBy
  <1>5. c \in Nat /\ DOMAIN d.data = 0..(d.max_capacity - 1) /\ d.max_capacity \in Nat
    BY <1>4 DEF Sound
  <1>6. Len(HeldBy(da)) = c
    BY <1>4, HeldIsSequence
  <1>7. inside \in BOOLEAN /\ lost \in BOOLEAN
    OBVIOUS
  <1>8. ASSUME inside, lost PROVE Len(HeldBy(after)) = Len(HeldBy(da)) + 1
    <2>1. after.count = c + 1
      <3> HIDE DEF c, elems
      <3> DEFINE e == [d EXCEPT !.data = elems]
      <3>1. e = [data |-> elems, count |-> d.count, capacity |-> d.capacity,
                 max_capacity |-> d.max_capacity]
        BY <1>4 DEF Sound
      <3>2. after = [e EXCEPT !.count = c + 1]
        OBVIOUS
      <3> HIDE DEF e, after
      <3>3. QED
        BY <3>1, <3>2
    <2>2. Shifted(d, index, chunk) \in [DOMAIN d.data -> Vals]
      BY <1>4, <1>8, ShiftedValues
    <2>3. elems \in [DOMAIN d.data -> Vals]
      BY <2>2 DEF Vals
    <2>4. c + 1 \in Nat /\ c + 1 <= d.capacity
      BY <1>4, <1>8, <1>5 DEF Sound
    <2> DEFINE m == c + 1
    <2>5. Sound([d EXCEPT !.data = elems, !.count = m])
      <3> HIDE DEF elems, m
      <3>0. m \in Nat /\ m <= d.capacity
        BY <2>4 DEF m
      <3>1. QED
        BY <1>4, <2>3, <3>0, WrittenSound
    <2>6. Sound(after)
      BY <2>5
    <2> HIDE DEF after
    <2>7. Len(HeldBy(after)) = after.count
      BY <2>6, HeldIsSequence
    <2>8. QED
      BY <1>6, <2>1, <2>7
  <1>9. ASSUME inside, ~lost PROVE EditOf(HeldBy(da), HeldBy(after))
    <2>1. /\ DOMAIN Shifted(d, index, chunk) = DOMAIN d.data
          /\ \A k \in 0..c : k # index =>
                Shifted(d, index, chunk)[k] = IF k < index THEN d.data[k] ELSE d.data[k - 1]
      BY <1>4, <1>9, ShiftedMovesUp
    <2>2. DOMAIN elems = DOMAIN d.data
      BY <2>1
    <2>3. \A k \in 0..c : k \in DOMAIN d.data
      BY <1>5, <1>9
    <2>4. ASSUME NEW k \in 0..c
          PROVE  elems[k] = IF k < index THEN d.data[k] ELSE IF k = index THEN x ELSE d.data[k - 1]
      BY <2>1, <2>3, <1>4
    <2> HIDE DEF elems
    <2>5. HeldBy(after) = DaSeq!InsertAt(HeldBy(d), index + 1, x)
      <3>1. index \in 0..d.count /\ d.count \in DOMAIN d.data
        BY <1>4, <1>9
      <3>2. \A k \in 0..d.count : elems[k] = IF k < index THEN d.data[k]
                                             ELSE IF k = index THEN x ELSE d.data[k - 1]
        BY <2>4
      <3>3. QED
        BY <1>4, <2>2, <3>1, <3>2, WrittenPutsIn
    <2> DEFINE j == index + 1
    <2>6. j \in 1..(Len(HeldBy(da)) + 1)
      BY <1>4, <1>5, <1>6
    <2> HIDE DEF after, c, j
    <2>7. HeldBy(after) = DaSeq!InsertAt(HeldBy(da), j, x)
      BY <1>4, <2>5 DEF j
    <2>8. QED
      BY <2>6, <2>7 DEF EditOf
  <1> HIDE DEF inside, after, lost
  <1>10. QED
    BY <1>3, <1>7, <1>8, <1>9, ReturnsEdit

LEMMA AppendEdits ==
    ASSUME DaInv, NEW b \in DaOthers, vf_da_append(b)
    PROVE  EditsAsKnown
  <1> DEFINE n == da.capacity + b.capacity
             h == [da EXCEPT !.capacity = n]
             d == IF da.capacity < h.capacity THEN Reserved(h, h.capacity) ELSE da
             op == IF b.capacity = 0 THEN "append_nothing" ELSE "append"
             c == d.count
             more == Len(b.items)
             inside == b.capacity > 0 /\ c \in DOMAIN d.data
             y == IF b.items = <<>> THEN DaGarbage ELSE b.items[1]
             elems == [d.data EXCEPT ![c] = y]
             after == [d EXCEPT !.data = elems, !.count = c + more]
             lost == more > 1
  <1>1. b.capacity \in Nat /\ b.items \in Seq(DaItems) /\ more \in Nat /\ more <= b.capacity
    BY DaAssumption
  <1>2. n \in Nat /\ n >= da.capacity
    BY <1>1, InvFacts
  <1>3. Returns(op, inside, after, lost)
    BY DEF vf_da_append, AppendCopies
  <1>4. Sound(h) /\ h.count = da.count /\ h.data = da.data /\ h.capacity = n
    <2> HIDE DEF n
    <2>1. QED
      BY <1>2, InvFacts, PromisedSound
  <1> HIDE DEF h
  <1>5. Sound(d) /\ c = da.count /\ HeldBy(d) = HeldBy(da)
    <2>1. CASE da.capacity < h.capacity
      <3>1. d = h
        BY <2>1, <1>2, <1>4 DEF Reserved
      <3> HIDE DEF d
      <3>2. QED
        BY <1>4, <3>1 DEF HeldBy
    <2>2. CASE ~(da.capacity < h.capacity)
      BY <2>2, InvFacts
    <2>3. QED
      BY <2>1, <2>2
  <1> HIDE DEF d
  <1>6. c \in Nat /\ DOMAIN d.data = 0..(d.max_capacity - 1) /\ d.max_capacity \in Nat
    BY <1>5 DEF Sound
  <1>7. after.data = elems /\ after.count = c + more
    <2> HIDE DEF c, elems, more
    <2> DEFINE e == [d EXCEPT !.data = elems]
    <2>1. e = [data |-> elems, count |-> d.count, capacity |-> d.capacity,
               max_capacity |-> d.max_capacity]
      BY <1>5 DEF Sound
    <2>2. after = [e EXCEPT !.count = c + more]
      OBVIOUS
    <2> HIDE DEF e, after
    <2>3. QED
      BY <2>1, <2>2
  <1>8. inside \in BOOLEAN /\ lost \in BOOLEAN
    OBVIOUS
  <1> DEFINE s == HeldBy(da)
             t == HeldBy(after)
  <1>9. s \in Seq(Vals) /\ Len(s) = c /\ DOMAIN s = 1..c
    BY <1>5, HeldIsSequence
  <1>10. ASSUME inside PROVE \A k \in 1..c : t[k] = s[k]
    <2>1. DOMAIN elems = DOMAIN d.data
      OBVIOUS
    <2>2. \A k \in 1..c : elems[k - 1] = d.data[k - 1] /\ k \in 1..(c + more)
      BY <1>1, <1>6
    <2>3. s = HeldBy(d)
      BY <1>5
    <2> HIDE DEF elems, after, more
    <2>4. QED
      BY <1>7, <2>1, <2>2, <2>3 DEF HeldBy
  <1>11. DOMAIN t = 1..(c + more)
    <2> HIDE DEF elems, after, more, c
    <2>1. QED
      BY <1>7 DEF HeldBy
  <1>12. ASSUME inside, lost
         PROVE  op = "append" /\ SubSeq(t, 1, da.count) = s
    <2>1. op = "append"
      BY <1>12, <1>1
    <2>2. t \in [1..(c + more) -> Vals]
      <3>1. DOMAIN elems = DOMAIN d.data
        OBVIOUS
      <3>2. b.items # <<>> => b.items[1] \in DaItems
        BY <1>1
      <3>3. y \in Vals
        BY <3>2 DEF Vals
      <3> HIDE DEF y
      <3>4. \A k \in DOMAIN elems : elems[k] \in Vals
        BY <3>3, <1>5 DEF Sound
      <3> HIDE DEF elems, after, more, c
      <3>5. t = [k \in 1..(c + more) |-> IF k - 1 \in DOMAIN elems THEN elems[k - 1] ELSE DaGarbage]
        BY <1>7 DEF HeldBy
      <3> HIDE DEF t
      <3>6. QED
        BY <3>4, <3>5 DEF Vals
    <2>3. c = da.count
      BY <1>5
    <2> HIDE DEF t, s, more, c
    <2>4. c \in Nat /\ more \in Nat
      BY <1>1, <1>6
    <2>5. \A k \in 1..c : t[k] \in Vals
      BY <2>2, <2>4
    <2> DEFINE f == SubSeq(t, 1, c)
    <2>6. f \in Seq(Vals) /\ Len(f) = c /\ \A k \in 1..c : f[k] = t[k]
      <3>1. \A k \in 1..(c - 1 + 1) : f[k] = t[1 + k - 1]
        BY <2>4, <2>5, SubSeqProperties
      <3>2. f \in Seq(Vals) /\ Len(f) = IF 1 <= c THEN c - 1 + 1 ELSE 0
        BY <2>4, <2>5, SubSeqProperties
      <3> HIDE DEF f
      <3>3. QED
        BY <2>4, <3>1, <3>2
    <2> HIDE DEF f
    <2>7. f = [k \in 1..c |-> f[k]] /\ s = [k \in 1..c |-> s[k]]
      BY <1>9, <2>6
    <2>8. f = s
      BY <2>6, <2>7, <1>10, <1>12
    <2>9. QED
      BY <2>1, <2>3, <2>8 DEF f
  <1>13. ASSUME inside, ~lost PROVE EditOf(s, t)
    <2>1. CASE more = 0
      <3>1. DOMAIN t = 1..c
        BY <1>6, <1>11, <2>1
      <3>2. t = [k \in 1..c |-> t[k]] /\ s = [k \in 1..c |-> s[k]]
        <4>1. t = [k \in DOMAIN t |-> t[k]]
          BY DEF HeldBy
        <4>2. s = [k \in DOMAIN s |-> s[k]]
          BY DEF HeldBy
        <4> HIDE DEF s, t, c
        <4>3. QED
          BY <3>1, <4>1, <4>2, <1>9
      <3> HIDE DEF s, t, c
      <3>3. t = s
        BY <3>2, <1>10, <1>13
      <3>4. QED
        BY <3>3 DEF EditOf
    <2>2. CASE more = 1
      <3> DEFINE x == b.items[1]
      <3>1. x \in DaItems /\ y = x
        BY <1>1, <2>2
      <3>2. c \in 0..c /\ c \in DOMAIN d.data
        BY <1>6, <1>13
      <3>3. DOMAIN elems = DOMAIN d.data
        OBVIOUS
      <3>4. \A k \in 0..c : elems[k] = IF k < c THEN d.data[k]
                                      ELSE IF k = c THEN x ELSE d.data[k - 1]
        BY <3>1, <3>2, <1>6
      <3>5. after = [d EXCEPT !.data = elems, !.count = c + 1]
        BY <2>2
      <3> HIDE DEF elems, x, after
      <3>6. HeldBy(after) = DaSeq!InsertAt(HeldBy(d), c + 1, x)
        BY <1>5, <3>1, <3>2, <3>3, <3>4, <3>5, WrittenPutsIn
      <3>7. c + 1 \in 1..(Len(s) + 1)
        BY <1>6, <1>9
      <3>8. HeldBy(d) = s
        BY <1>5
      <3> HIDE DEF s, c
      <3>9. QED
        BY <3>1, <3>6, <3>7, <3>8 DEF EditOf
    <2>3. more = 0 \/ more = 1
      <3> HIDE DEF more
      <3>1. QED
        BY <1>1, <1>13
    <2>4. QED
      BY <2>1, <2>2, <2>3
  <1> HIDE DEF inside, after, lost, op
  <1>14. QED
    BY <1>3, <1>8, <1>12, <1>13, ReturnsEdit

LEMMA FreeEdits ==
    ASSUME DaInv, vf_da_free
    PROVE  EditsAsKnown
  <1>1. da_alive /\ da_alive' = FALSE /\ da_lost' = "none" /\ da' = Allocated(0)
    BY DEF vf_da_free, DaUsable
  <1>2. da'.count = 0
    BY <1>1, AllocatedSound
  <1>3. DaContents' = <<>>
    BY <1>2 DEF DaContents
  <1>4. DaSeq!Close
    BY <1>1, <1>3 DEF DaSeq!Close
  <1>5. QED
    BY <1>1, <1>4 DEF EditsAsKnown, DaSeq!Next

\* Whatever is reserved, pushed, popped, inserted, appended, cleared and
\* exchanged, also across moves to a new block: the elements held are those of a
\* sequence edited in the same way, but for the calls that are known to spoil
\* some, and those spoil no others.
THEOREM DaEditsCorrect == DaSpec => DaEditsSequence
  <1>1. DaInit => DaSeq!Init
    <2> SUFFICES ASSUME DaInit PROVE DaSeq!Init
      OBVIOUS
    <2>1. PICK n \in DaRequests : da = Allocated(n)
      BY DEF DaInit
    <2>2. n \in Nat
      BY DaAssumption
    <2>3. da.count = 0
      BY <2>1, <2>2, AllocatedSound
    <2>4. DaContents = <<>>
      BY <2>3 DEF DaContents
    <2>5. QED
      BY <2>4 DEF DaSeq!Init, DaInit
  <1>2. DaInv /\ [DaNext]_da_vars => [EditsAsKnown]_da_vars
    <2> SUFFICES ASSUME DaInv, DaNext PROVE EditsAsKnown
      OBVIOUS
    <2>1. ASSUME NEW n \in 0..DaMaxCapacity, vf_da_reserve(n) \/ vf_da_resize(n)
          PROVE  EditsAsKnown
      BY <2>1, ReserveEdits, ResizeEdits
    <2>2. ASSUME NEW x \in DaItems, vf_da_push_back(x) PROVE EditsAsKnown
      BY <2>2, PushBackEdits
    <2>3. ASSUME NEW x \in DaItems, NEW index \in 0..da.count,
                 NEW chunk \in 1..(da.count - index) \cup {1}, vf_da_insert(x, index, chunk)
          PROVE  EditsAsKnown
      <3>1. chunk \in Nat \ {0}
        BY InvFacts
      <3>2. QED
        BY <2>3, <3>1, InsertEdits
    <2>4. ASSUME NEW b \in DaOthers, vf_da_append(b) PROVE EditsAsKnown
      BY <2>4, AppendEdits
    <2>5. ASSUME NEW k \in 0..(da.count - 1), NEW l \in 0..(da.count - 1), vf_da_swap(k, l)
          PROVE  EditsAsKnown
      BY <2>5, SwapEdits
    <2>6. CASE vf_da_pop_back \/ vf_da_clear \/ vf_da_free
      BY <2>6, PopBackEdits, ClearEdits, FreeEdits
    <2>7. QED
      BY <2>1, <2>2, <2>3, <2>4, <2>5, <2>6 DEF DaNext
  <1>3. QED
    BY <1>1, <1>2, DaInitInv, DaInvIsInductive, PTL
       DEF DaSpec, DaEditsSequence, EditsAsKnown

-----------------------------------------------------------------------------
(* Quicksort: its invariant *)

CallRecords == [low : Int, high : Int, depth : Nat]

SortTypes == /\ sort_size \in SortSizes /\ sort_size \in Nat
             /\ sort_arr \in [Positions -> Positions]
             /\ sort_key \in [Positions -> SortKeys]
             /\ sort_calls \in Seq(CallRecords)
             /\ sort_pc \in {"call", "scan"}

\* What holds of one pending call: its range, which may be empty, and its depth.
GoodCall(r) == /\ 0 <= r.low /\ r.low <= r.high + 1 /\ r.high <= sort_size - 1
               /\ r.depth <= sort_size + 1 /\ r.depth + (r.high - r.low) <= sort_size

\* The pending calls are for ranges from left to right, with an element between.
GoodCalls(s) ==
    /\ \A c \in 1..Len(s) : GoodCall(s[c])
    /\ \A c, d \in 1..Len(s) : c < d => s[c].high < s[d].low

\* Inside partition: smaller elements up to i, others up to j.
Scanned ==
    sort_pc = "scan" =>
        /\ sort_calls # <<>> /\ Low < High
        /\ sort_j \in Low..High /\ sort_i \in (Low - 1)..(sort_j - 1)
        /\ \A k \in Low..sort_i : Less(k, High)
        /\ \A k \in (sort_i + 1)..(sort_j - 1) : ~Less(k, High)

NoneTwice == \A a, b \in Positions : a # b => sort_arr[a] # sort_arr[b]

Within(r, a) == r.low <= a /\ a <= r.high

Together(s, a, b) == \E c \in 1..Len(s) : Within(s[c], a) /\ Within(s[c], b)

InOrder == \A a, b \in Positions : a < b /\ ~Together(sort_calls, a, b) => ~Less(b, a)

SortInv == SortTypes /\ GoodCalls(sort_calls) /\ Scanned /\ NoneTwice /\ InOrder

\* Two elements change places.
Exchanged(p, q) == [sort_arr EXCEPT ![p] = sort_arr[q], ![q] = sort_arr[p]]

LEMMA ExchangedFacts ==
    ASSUME SortTypes, NoneTwice, NEW p \in Positions, NEW q \in Positions
    PROVE  /\ Exchanged(p, q) \in [Positions -> Positions]
           /\ Exchanged(p, q)[p] = sort_arr[q] /\ Exchanged(p, q)[q] = sort_arr[p]
           /\ \A a \in Positions \ {p, q} : Exchanged(p, q)[a] = sort_arr[a]
           /\ \A a, b \in Positions : a # b => Exchanged(p, q)[a] # Exchanged(p, q)[b]
  <1>1. /\ Exchanged(p, q) \in [Positions -> Positions]
        /\ Exchanged(p, q)[p] = sort_arr[q] /\ Exchanged(p, q)[q] = sort_arr[p]
        /\ \A a \in Positions \ {p, q} : Exchanged(p, q)[a] = sort_arr[a]
    BY DEF SortTypes, Exchanged
  <1> DEFINE x == Exchanged(p, q)
  <1> HIDE DEF x
  <1>2. \A a, b \in Positions : a # b => x[a] # x[b]
    BY <1>1 DEF NoneTwice, x
  <1>3. QED
    BY <1>1, <1>2 DEF x

\* The key of an element is an integer.
LEMMA KeysAreIntegers ==
    ASSUME SortTypes, NEW a \in Positions
    PROVE  sort_arr[a] \in Positions /\ sort_key[sort_arr[a]] \in Int
  BY SortAssumption DEF SortTypes

\* The first call.
LEMMA HeadFacts ==
    ASSUME SortInv, sort_calls # <<>>
    PROVE  /\ Len(sort_calls) \in Nat \ {0}
           /\ sort_calls[1] = Head(sort_calls) /\ sort_calls[1] \in CallRecords
           /\ Low \in Int /\ High \in Int /\ Depth \in Nat
           /\ Low = sort_calls[1].low /\ High = sort_calls[1].high
           /\ 0 <= Low /\ Low <= High + 1 /\ High <= sort_size - 1
           /\ Depth <= sort_size + 1 /\ Depth + (High - Low) <= sort_size
           /\ \A c \in 2..Len(sort_calls) : High < sort_calls[c].low
  <1>1. Len(sort_calls) \in Nat \ {0}
    BY DEF SortInv, SortTypes
  <1>2. sort_calls[1] = Head(sort_calls) /\ sort_calls[1] \in CallRecords
    BY <1>1 DEF SortInv, SortTypes
  <1>3. Low \in Int /\ High \in Int /\ Depth \in Nat
    BY <1>2 DEF CallRecords, Low, High, Depth
  <1>4. Low = sort_calls[1].low /\ High = sort_calls[1].high /\ Depth = sort_calls[1].depth
    BY <1>2 DEF Low, High, Depth
  <1>5. GoodCall(sort_calls[1]) /\ \A c \in 2..Len(sort_calls) : High < sort_calls[c].low
    BY <1>1, <1>4 DEF SortInv, GoodCalls
  <1>6. QED
    BY <1>1, <1>2, <1>3, <1>4, <1>5 DEF GoodCall

\* Exchanging two elements of the first call's range leaves those pairs in order
\* that no call still has to compare.
LEMMA ExchangeKeepsOrder ==
    ASSUME SortInv, sort_calls # <<>>, NEW p \in Low..High, NEW q \in Low..High,
           NEW a \in Positions, NEW b \in Positions, a < b,
           ~Together(sort_calls, a, b)
    PROVE  ~(sort_key[Exchanged(p, q)[b]] < sort_key[Exchanged(p, q)[a]])
  <1>1. p \in Positions /\ q \in Positions
    <2>1. sort_size \in Nat
      BY DEF SortInv, SortTypes
    <2>2. Low \in Int /\ High \in Int /\ 0 <= Low /\ High <= sort_size - 1
      BY HeadFacts
    <2>3. QED
      BY <2>1, <2>2 DEF Positions
  <1> DEFINE x == Exchanged(p, q)
             from(k) == IF k = p THEN q ELSE IF k = q THEN p ELSE k
  <1>2. \A k \in Positions : x[k] = sort_arr[from(k)] /\ from(k) \in Positions
    BY <1>1, ExchangedFacts DEF SortInv
  <1>3. \A k \in Positions : /\ k \in Low..High => from(k) \in Low..High
                             /\ k \notin Low..High => from(k) = k
    BY HeadFacts
  <1> HIDE DEF x, from
  <1>4. a \in Int /\ b \in Int
    BY DEF Positions, SortInv, SortTypes
  <1>5. ~(a \in Low..High /\ b \in Low..High)
    BY <1>4, HeadFacts DEF Together, Within
  <1>6. from(a) < from(b) /\ from(a) \in Int /\ from(b) \in Int
    <2> DEFINE low == Low
               high == High
               fa == from(a)
               fb == from(b)
    <2>1. low \in Int /\ high \in Int
      BY HeadFacts
    <2>2. /\ a \in low..high => fa \in low..high
          /\ a \notin low..high => fa = a
          /\ b \in low..high => fb \in low..high
          /\ b \notin low..high => fb = b
          /\ ~(a \in low..high /\ b \in low..high)
      BY <1>3, <1>5
    <2> HIDE DEF low, high, fa, fb
    <2>3. fa < fb /\ fa \in Int /\ fb \in Int
      BY <1>4, <2>1, <2>2
    <2>4. QED
      BY <2>3 DEF fa, fb
  <1>7. ~Together(sort_calls, from(a), from(b))
    <2>1. SUFFICES ASSUME NEW c \in 1..Len(sort_calls), Within(sort_calls[c], from(a)),
                          Within(sort_calls[c], from(b))
                   PROVE  FALSE
      BY DEF Together
    <2>2. CASE c = 1
      <3>1. from(a) \in Low..High /\ from(b) \in Low..High
        BY <1>6, <2>1, <2>2, HeadFacts DEF Within
      <3>2. QED
        BY <1>3, <1>5, <3>1
    <2>3. CASE c # 1
      <3>1. c \in 2..Len(sort_calls)
        BY <2>3
      <3>2. sort_calls[c] \in CallRecords
        BY DEF SortInv, SortTypes
      <3>3. sort_calls[c].low \in Int /\ High < sort_calls[c].low
        BY <3>1, <3>2, HeadFacts DEF CallRecords
      <3>4. from(a) \notin Low..High /\ from(b) \notin Low..High
        BY <1>6, <2>1, <3>3, HeadFacts DEF Within
      <3>5. from(a) = a /\ from(b) = b
        BY <1>3, <3>4
      <3>6. QED
        BY <2>1, <3>5 DEF Together
    <2>4. QED
      BY <2>2, <2>3
  <1>8. ~Less(from(b), from(a))
    BY <1>2, <1>6, <1>7 DEF SortInv, InOrder
  <1>9. QED
    BY <1>2, <1>8 DEF Less, x

-----------------------------------------------------------------------------
(* Quicksort: the pending calls *)

LEMMA TailCalls ==
    ASSUME SortInv, sort_calls # <<>>
    PROVE  /\ Tail(sort_calls) \in Seq(CallRecords)
           /\ Len(Tail(sort_calls)) = Len(sort_calls) - 1
           /\ \A c \in 1..(Len(sort_calls) - 1) : Tail(sort_calls)[c] = sort_calls[c + 1]
           /\ GoodCalls(Tail(sort_calls))
  <1>1. sort_calls \in Seq(CallRecords)
    BY DEF SortInv, SortTypes
  <1> DEFINE t == Tail(sort_calls)
  <1>2. /\ t \in Seq(CallRecords) /\ Len(t) = Len(sort_calls) - 1
        /\ \A c \in 1..(Len(sort_calls) - 1) : t[c] = sort_calls[c + 1]
    BY <1>1, HeadTailProperties
  <1> HIDE DEF t
  <1>3. Len(sort_calls) \in Nat \ {0}
    BY HeadFacts
  <1>4. GoodCalls(t)
    <2>1. \A c \in 1..Len(t) : c + 1 \in 1..Len(sort_calls) /\ t[c] = sort_calls[c + 1]
      BY <1>2, <1>3
    <2>2. ASSUME NEW c \in 1..Len(t) PROVE GoodCall(t[c])
      BY <2>1 DEF SortInv, GoodCalls
    <2>3. ASSUME NEW c \in 1..Len(t), NEW d \in 1..Len(t), c < d
          PROVE  t[c].high < t[d].low
      <3>1. c + 1 < d + 1
        BY <2>3
      <3>2. QED
        BY <2>1, <3>1 DEF SortInv, GoodCalls
    <2>4. QED
      BY <2>2, <2>3 DEF GoodCalls
  <1>5. QED
    BY <1>2, <1>4 DEF t

\* A call that is no longer pending was only needed by pairs in its own range.
LEMMA TailKeepsTogether ==
    ASSUME SortInv, sort_calls # <<>>, NEW a, NEW b, Together(sort_calls, a, b)
    PROVE  \/ Within(Head(sort_calls), a) /\ Within(Head(sort_calls), b)
           \/ Together(Tail(sort_calls), a, b)
  <1>1. PICK c \in 1..Len(sort_calls) : Within(sort_calls[c], a) /\ Within(sort_calls[c], b)
    BY DEF Together
  <1>2. CASE c = 1
    BY <1>1, <1>2, HeadFacts
  <1>3. CASE c # 1
    <2>1. c - 1 \in 1..(Len(sort_calls) - 1) /\ (c - 1) + 1 = c
      BY <1>3, HeadFacts
    <2>2. Tail(sort_calls)[c - 1] = sort_calls[c] /\ c - 1 \in 1..Len(Tail(sort_calls))
      BY <2>1, TailCalls
    <2>3. QED
      BY <1>1, <2>2 DEF Together
  <1>4. QED
    BY <1>2, <1>3

\* The calls after a partition, by their place in the stack.
LEMMA HalvesCalls ==
    ASSUME SortInv, sort_calls # <<>>, NEW pi \in Low..High
    PROVE  LET s == Halves(pi) \o Tail(sort_calls)
           IN  /\ s \in Seq(CallRecords)
               /\ Len(s) = Len(sort_calls) + 1
               /\ s[1] = [low |-> Low, high |-> pi - 1, depth |-> Depth + 1]
               /\ s[2] = [low |-> pi + 1, high |-> High, depth |-> Depth + 1]
               /\ \A c \in 3..(Len(sort_calls) + 1) : s[c] = sort_calls[c - 1]
  <1> DEFINE t == Tail(sort_calls)
             h == Halves(pi)
             s == h \o t
  <1>1. pi \in Int /\ Low \in Int /\ High \in Int /\ Depth \in Nat
    BY HeadFacts
  <1>2. /\ h \in Seq(CallRecords) /\ Len(h) = 2
        /\ h[1] = [low |-> Low, high |-> pi - 1, depth |-> Depth + 1]
        /\ h[2] = [low |-> pi + 1, high |-> High, depth |-> Depth + 1]
    BY <1>1 DEF Halves, CallRecords
  <1>3. /\ t \in Seq(CallRecords) /\ Len(t) = Len(sort_calls) - 1
        /\ \A c \in 1..(Len(sort_calls) - 1) : t[c] = sort_calls[c + 1]
    BY TailCalls
  <1>4. Len(sort_calls) \in Nat \ {0}
    BY HeadFacts
  <1> HIDE DEF t, h
  <1>5. s \in Seq(CallRecords) /\ Len(s) = Len(h) + Len(t)
    BY <1>2, <1>3, ConcatProperties
  <1>6. \A c \in 1..(Len(h) + Len(t)) : s[c] = IF c <= Len(h) THEN h[c] ELSE t[c - Len(h)]
    BY <1>2, <1>3, ConcatProperties
  <1> HIDE DEF s
  <1>7. Len(s) = Len(sort_calls) + 1
    BY <1>2, <1>3, <1>4, <1>5
  <1>8. s[1] = h[1] /\ s[2] = h[2]
    <2>1. 1 \in 1..(Len(h) + Len(t)) /\ 1 <= Len(h) /\ 2 \in 1..(Len(h) + Len(t)) /\ 2 <= Len(h)
      BY <1>2, <1>3, <1>4
    <2>2. QED
      BY <1>6, <2>1
  <1>9. ASSUME NEW c \in 3..(Len(sort_calls) + 1) PROVE s[c] = sort_calls[c - 1]
    <2>1. c \in 1..(Len(h) + Len(t)) /\ ~(c <= Len(h)) /\ c - Len(h) = c - 2
      BY <1>2, <1>3, <1>4
    <2>2. s[c] = t[c - 2]
      BY <1>6, <2>1
    <2>3. c - 2 \in 1..(Len(sort_calls) - 1) /\ (c - 2) + 1 = c - 1
      BY <1>4
    <2>4. QED
      BY <1>3, <2>2, <2>3
  <1>10. QED
    BY <1>2, <1>5, <1>7, <1>8, <1>9 DEF s, t, h

LEMMA HalvesGood ==
    ASSUME SortInv, sort_calls # <<>>, Low < High, NEW pi \in Low..High
    PROVE  GoodCalls(Halves(pi) \o Tail(sort_calls))
  <1> DEFINE s == Halves(pi) \o Tail(sort_calls)
  <1>1. /\ Len(s) = Len(sort_calls) + 1
        /\ s[1] = [low |-> Low, high |-> pi - 1, depth |-> Depth + 1]
        /\ s[2] = [low |-> pi + 1, high |-> High, depth |-> Depth + 1]
        /\ \A c \in 3..(Len(sort_calls) + 1) : s[c] = sort_calls[c - 1]
    BY HalvesCalls
  <1> HIDE DEF s
  <1>2. sort_size \in Nat /\ Len(sort_calls) \in Nat \ {0}
    BY HeadFacts DEF SortInv, SortTypes
  <1>3. GoodCall(s[1]) /\ GoodCall(s[2])
    <2>1. /\ s[1].low = Low /\ s[1].high = pi - 1 /\ s[1].depth = Depth + 1
          /\ s[2].low = pi + 1 /\ s[2].high = High /\ s[2].depth = Depth + 1
      BY <1>1
    <2>2. /\ pi \in Int /\ Low \in Int /\ High \in Int /\ Depth \in Nat
          /\ 0 <= Low /\ High <= sort_size - 1
          /\ Depth <= sort_size + 1 /\ Depth + (High - Low) <= sort_size
      BY HeadFacts
    <2>3. QED
      BY <1>2, <2>1, <2>2 DEF GoodCall
  <1>4. s[1].high < s[2].low /\ s[1].high <= High /\ s[2].high <= High
        /\ s[1].high \in Int /\ s[2].high \in Int
    BY <1>1, HeadFacts
  <1>5. ASSUME NEW c \in 3..Len(s)
        PROVE  /\ GoodCall(s[c]) /\ s[c].low \in Int /\ High < s[c].low
               /\ s[c] = sort_calls[c - 1] /\ c - 1 \in 2..Len(sort_calls)
    <2>1. s[c] = sort_calls[c - 1] /\ c - 1 \in 2..Len(sort_calls)
      BY <1>1, <1>2
    <2>2. sort_calls[c - 1] \in CallRecords
      BY <1>2, <2>1 DEF SortInv, SortTypes
    <2>3. GoodCall(sort_calls[c - 1]) /\ High < sort_calls[c - 1].low
      <3>1. \A k \in 1..Len(sort_calls) : GoodCall(sort_calls[k])
        BY DEF SortInv, GoodCalls
      <3>2. \A k \in 2..Len(sort_calls) : High < sort_calls[k].low
        BY HeadFacts
      <3>3. c - 1 \in 1..Len(sort_calls)
        BY <2>1
      <3>4. QED
        BY <2>1, <3>1, <3>2, <3>3
    <2>4. QED
      BY <2>1, <2>2, <2>3 DEF CallRecords
  <1>6. ASSUME NEW c \in 1..Len(s), NEW d \in 1..Len(s), c < d
        PROVE  s[c].high < s[d].low
    <2>1. CASE d = 2
      BY <1>4, <1>6, <2>1
    <2>2. CASE d # 2 /\ c <= 2
      <3>1. d \in 3..Len(s) /\ c \in {1, 2}
        BY <1>1, <1>2, <1>6, <2>2
      <3>2. QED
        <4>1. s[c].high \in Int /\ s[c].high <= High
          BY <1>4, <3>1
        <4>2. s[d].low \in Int /\ High < s[d].low
          BY <1>5, <3>1
        <4>3. High \in Int
          BY HeadFacts
        <4>4. QED
          BY <4>1, <4>2, <4>3
    <2>3. CASE c > 2
      <3>1. c \in 3..Len(s) /\ d \in 3..Len(s)
        BY <1>1, <1>2, <1>6, <2>3
      <3>2. c - 1 \in 1..Len(sort_calls) /\ d - 1 \in 1..Len(sort_calls) /\ c - 1 < d - 1
        BY <1>5, <1>6, <3>1
      <3>3. sort_calls[c - 1].high < sort_calls[d - 1].low
        BY <3>2 DEF SortInv, GoodCalls
      <3>4. QED
        BY <1>5, <3>1, <3>3
    <2>4. QED
      BY <1>1, <1>2, <1>6, <2>1, <2>2, <2>3
  <1>7. \A c \in 1..Len(s) : GoodCall(s[c])
    <2>1. \A c \in 1..Len(s) : c = 1 \/ c = 2 \/ c \in 3..Len(s)
      BY <1>1, <1>2
    <2>2. QED
      BY <1>3, <1>5, <2>1
  <1>8. QED
    BY <1>6, <1>7 DEF GoodCalls, s

\* Two elements that no call compares after a partition were not to be compared
\* before either, unless the partition has just compared them.
LEMMA HalvesKeepTogether ==
    ASSUME SortInv, sort_calls # <<>>, NEW pi \in Low..High,
           NEW a \in Int, NEW b \in Int, Together(sort_calls, a, b)
    PROVE  \/ a \in Low..High /\ b \in Low..High
           \/ Together(Halves(pi) \o Tail(sort_calls), a, b)
  <1> DEFINE s == Halves(pi) \o Tail(sort_calls)
  <1>1. /\ Len(s) = Len(sort_calls) + 1
        /\ \A c \in 3..(Len(sort_calls) + 1) : s[c] = sort_calls[c - 1]
    BY HalvesCalls
  <1> HIDE DEF s
  <1>2. PICK c \in 1..Len(sort_calls) : Within(sort_calls[c], a) /\ Within(sort_calls[c], b)
    BY DEF Together
  <1>3. CASE c = 1
    BY <1>2, <1>3, HeadFacts DEF Within
  <1>4. CASE c # 1
    <2>1. c + 1 \in 3..(Len(sort_calls) + 1) /\ (c + 1) - 1 = c
      BY <1>4, HeadFacts
    <2>2. s[c + 1] = sort_calls[c]
      BY <1>1, <2>1
    <2>3. c + 1 \in 1..Len(s)
      BY <1>1, <1>4, HeadFacts
    <2>4. QED
      BY <1>2, <2>2, <2>3 DEF Together, s
  <1>5. QED
    BY <1>3, <1>4

-----------------------------------------------------------------------------
(* Quicksort: every step keeps the invariant *)

LEMMA SortInitInv == SortInit => SortInv
  <1> SUFFICES ASSUME SortInit PROVE SortInv
    OBVIOUS
  <1>1. sort_size \in Nat /\ sort_size \in SortSizes
    BY SortAssumption DEF SortInit
  <1> DEFINE r == [low |-> 0, high |-> sort_size - 1, depth |-> 1]
  <1>2. sort_calls = <<r>> /\ r \in CallRecords
    BY <1>1 DEF SortInit, CallRecords
  <1>3. r.low = 0 /\ r.high = sort_size - 1 /\ r.depth = 1
    OBVIOUS
  <1> HIDE DEF r
  <1>4. SortTypes
    BY <1>1, <1>2 DEF SortInit, SortTypes
  <1>5. Len(sort_calls) = 1 /\ sort_calls[1] = r
    BY <1>2
  <1>6. GoodCall(r)
    BY <1>1, <1>3 DEF GoodCall
  <1>7. GoodCalls(sort_calls)
    BY <1>5, <1>6 DEF GoodCalls
  <1>8. Scanned /\ NoneTwice
    BY DEF SortInit, Scanned, NoneTwice
  <1>9. InOrder
    <2>1. \A a, b \in Positions : Together(sort_calls, a, b)
      BY <1>1, <1>3, <1>5 DEF Positions, Together, Within
    <2>2. QED
      BY <2>1 DEF InOrder
  <1>10. QED
    BY <1>4, <1>7, <1>8, <1>9 DEF SortInv

LEMMA SortReturnsInv ==
    ASSUME SortInv, SortReturns
    PROVE  SortInv'
  <1>1. /\ sort_calls # <<>> /\ Low >= High /\ sort_calls' = Tail(sort_calls)
        /\ sort_pc = "call" /\ sort_pc' = "call"
        /\ UNCHANGED <<sort_size, sort_arr, sort_key>>
    BY DEF SortReturns
  <1>2. SortTypes'
    BY <1>1, TailCalls DEF SortInv, SortTypes, Positions
  <1>3. GoodCalls(sort_calls)'
    <2>1. GoodCalls(Tail(sort_calls))
      BY <1>1, TailCalls
    <2>2. QED
      BY <1>1, <2>1 DEF GoodCalls, GoodCall
  <1>4. Scanned' /\ NoneTwice'
    BY <1>1 DEF SortInv, Scanned, NoneTwice, Positions
  <1>5. ASSUME NEW a \in Positions, NEW b \in Positions, a < b,
               ~Together(Tail(sort_calls), a, b)
        PROVE  ~Less(b, a)
    <2>1. a \in Int /\ b \in Int
      BY DEF SortInv, SortTypes, Positions
    <2>2. ~(Within(Head(sort_calls), a) /\ Within(Head(sort_calls), b))
      <3>1. Low \in Int /\ High \in Int
        BY <1>1, HeadFacts
      <3>2. QED
        BY <1>1, <1>5, <2>1, <3>1 DEF Within, Low, High
    <2>3. ~Together(sort_calls, a, b)
      BY <1>1, <1>5, <2>2, TailKeepsTogether
    <2>4. QED
      BY <1>5, <2>3 DEF SortInv, InOrder
  <1>6. InOrder'
    BY <1>1, <1>5 DEF InOrder, Less, Positions, Together, Within
  <1>7. QED
    BY <1>2, <1>3, <1>4, <1>6 DEF SortInv

LEMMA SortPartitionsInv ==
    ASSUME SortInv, SortPartitions
    PROVE  SortInv'
  <1>1. /\ sort_calls # <<>> /\ Low < High /\ sort_pc' = "scan"
        /\ sort_i' = Low - 1 /\ sort_j' = Low
        /\ UNCHANGED <<sort_size, sort_arr, sort_key, sort_calls>>
    BY DEF SortPartitions
  <1>2. SortTypes' /\ NoneTwice'
    BY <1>1 DEF SortInv, SortTypes, NoneTwice, Positions
  <1>3. GoodCalls(sort_calls)'
    BY <1>1 DEF SortInv, GoodCalls, GoodCall
  <1>4. InOrder'
    BY <1>1 DEF SortInv, InOrder, Less, Positions, Together, Within
  <1>5. Scanned'
    <2>1. Low' = Low /\ High' = High /\ Low \in Int /\ High \in Int
      BY <1>1, HeadFacts DEF Low, High
    <2>2. QED
      BY <1>1, <2>1 DEF Scanned
  <1>6. QED
    BY <1>2, <1>3, <1>4, <1>5 DEF SortInv

\* What is known of i and j while a range is scanned.
LEMMA ScanFacts ==
    ASSUME SortInv, sort_pc = "scan"
    PROVE  /\ sort_calls # <<>> /\ Low < High
           /\ sort_size \in Nat /\ Low \in Int /\ High \in Int
           /\ sort_i \in Int /\ sort_j \in Int
           /\ 0 <= Low /\ High <= sort_size - 1
           /\ Low <= sort_j /\ sort_j <= High /\ Low - 1 <= sort_i /\ sort_i <= sort_j - 1
           /\ Low..High \subseteq Positions
  <1>1. /\ sort_calls # <<>> /\ Low < High
        /\ sort_j \in Low..High /\ sort_i \in (Low - 1)..(sort_j - 1)
    BY DEF SortInv, Scanned
  <1>2. sort_size \in Nat
    BY DEF SortInv, SortTypes
  <1>3. Low \in Int /\ High \in Int /\ 0 <= Low /\ High <= sort_size - 1
    BY <1>1, HeadFacts
  <1>4. QED
    BY <1>1, <1>2, <1>3 DEF Positions

LEMMA SortScansInv ==
    ASSUME SortInv, SortScans
    PROVE  SortInv'
  <1>1. /\ sort_pc = "scan" /\ sort_pc' = "scan" /\ sort_j <= High - 1
        /\ sort_j' = sort_j + 1
        /\ UNCHANGED <<sort_size, sort_key, sort_calls>>
    BY DEF SortScans
  <1>2. GoodCalls(sort_calls)'
    BY <1>1 DEF SortInv, GoodCalls, GoodCall
  <1>3. Low' = Low /\ High' = High
    BY <1>1 DEF Low, High
  <1>4. CASE ~Less(sort_j, High) /\ UNCHANGED <<sort_i, sort_arr>>
    <2>1. SortTypes' /\ NoneTwice'
      BY <1>1, <1>4 DEF SortInv, SortTypes, NoneTwice, Positions
    <2>2. InOrder'
      BY <1>1, <1>4 DEF SortInv, InOrder, Less, Positions, Together, Within
    <2>3. Scanned'
      <3>1. \A k \in Low..sort_i : Less(k, High)
        BY <1>1 DEF SortInv, Scanned
      <3>2. \A k \in (sort_i + 1)..(sort_j - 1) : ~Less(k, High)
        BY <1>1 DEF SortInv, Scanned
      <3>3. \A k \in (sort_i + 1)..sort_j : ~Less(k, High)
        BY <1>1, <1>4, <3>2, ScanFacts
      <3>4. \A k : Less(k, High)' = Less(k, High)
        BY <1>1, <1>3, <1>4 DEF Less
      <3>5. sort_i' = sort_i /\ sort_j' - 1 = sort_j
        BY <1>1, <1>4, ScanFacts
      <3>6. sort_j' \in Low..High /\ sort_i' \in (Low - 1)..(sort_j' - 1)
        BY <1>1, <1>4, ScanFacts
      <3>7. QED
        BY <1>1, <1>3, <3>1, <3>3, <3>4, <3>5, <3>6, ScanFacts DEF Scanned, Less
    <2>4. QED
      BY <1>2, <2>1, <2>2, <2>3 DEF SortInv
  <1>5. CASE Less(sort_j, High) /\ sort_i' = sort_i + 1 /\ mem_swap(sort_i + 1, sort_j)
    <2> DEFINE p == sort_i + 1
               q == sort_j
    <2>1. sort_arr' = Exchanged(p, q)
      BY <1>5 DEF mem_swap, Exchanged
    <2>2. /\ p \in Low..(High - 1) /\ q \in Low..(High - 1) /\ p <= q
          /\ p \in Low..High /\ q \in Low..High
          /\ p \in Positions /\ q \in Positions /\ High \in Positions
      BY <1>1, ScanFacts
    <2>3. /\ Exchanged(p, q) \in [Positions -> Positions]
          /\ Exchanged(p, q)[p] = sort_arr[q] /\ Exchanged(p, q)[q] = sort_arr[p]
          /\ \A a \in Positions \ {p, q} : Exchanged(p, q)[a] = sort_arr[a]
          /\ \A a, b \in Positions : a # b => Exchanged(p, q)[a] # Exchanged(p, q)[b]
      BY <2>2, ExchangedFacts DEF SortInv
    <2>4. SortTypes' /\ NoneTwice'
      BY <1>1, <2>1, <2>3 DEF SortInv, SortTypes, NoneTwice, Positions
    <2>5. InOrder'
      <3>1. \A a, b \in Positions : a < b /\ ~Together(sort_calls, a, b)
               => ~(sort_key[Exchanged(p, q)[b]] < sort_key[Exchanged(p, q)[a]])
        BY <1>1, <2>2, ScanFacts, ExchangeKeepsOrder
      <3> HIDE DEF p, q
      <3>2. QED
        BY <1>1, <2>1, <3>1 DEF InOrder, Less, Positions, Together, Within
    <2>6. Scanned'
      <3>1. \A k \in Low..sort_i : Less(k, High)
        BY <1>1 DEF SortInv, Scanned
      <3>2. \A k \in p..(q - 1) : ~Less(k, High)
        BY <1>1 DEF SortInv, Scanned
      <3>3. \A k \in Positions : Less(k, High)' = IF k = p THEN Less(q, High)
                                                ELSE IF k = q THEN Less(p, High)
                                                ELSE Less(k, High)
        <4>1. sort_arr'[High] = sort_arr[High]
          BY <2>1, <2>2, <2>3, ScanFacts, <1>1
        <4> HIDE DEF p, q
        <4>2. QED
          BY <1>1, <1>3, <2>1, <2>2, <2>3, <4>1 DEF Less
      <3>4. \A k \in Low..p : Less(k, High)'
        <4>1. SUFFICES ASSUME NEW k \in Low..p PROVE Less(k, High)'
          OBVIOUS
        <4>2. k = p \/ (k \in Low..sort_i /\ k # p /\ k # q)
          <5>1. /\ p \in Int /\ q \in Int /\ Low \in Int /\ sort_i \in Int
                /\ p = sort_i + 1 /\ p <= q
            BY <1>1, <2>2, ScanFacts
          <5> HIDE DEF p, q
          <5>2. QED
            BY <4>1, <5>1
        <4>3. k \in Low..High
          BY <1>1, <2>2, ScanFacts
        <4>4. k \in Positions
          BY <1>1, <4>3, ScanFacts
        <4>5. QED
          BY <1>5, <3>1, <3>3, <4>2, <4>4
      <3>5. \A k \in (p + 1)..q : ~Less(k, High)'
        <4>1. SUFFICES ASSUME NEW k \in (p + 1)..q PROVE ~Less(k, High)'
          OBVIOUS
        <4>2. k \in Positions /\ k # p /\ (k = q => p \in p..(q - 1)) /\ (k # q => k \in p..(q - 1))
          <5>1. p \in Int /\ q \in Int /\ Low \in Int /\ High \in Int
            BY <1>1, ScanFacts
          <5>2. p \in Low..High /\ q \in Low..High
            BY <1>1, <2>2, ScanFacts
          <5> HIDE DEF p, q
          <5>3. k \in Low..High /\ k # p
            BY <4>1, <5>1, <5>2
          <5>4. k = q => p \in p..(q - 1)
            BY <4>1, <5>1
          <5>5. k # q => k \in p..(q - 1)
            BY <4>1, <5>1
          <5>6. QED
            BY <5>3, <5>4, <5>5, <1>1, ScanFacts
        <4>3. QED
          BY <3>2, <3>3, <4>2
      <3>6. sort_i' = p /\ sort_j' - 1 = q
        BY <1>1, <1>5, ScanFacts
      <3>7. sort_j' \in Low..High /\ sort_i' \in (Low - 1)..(sort_j' - 1)
        BY <1>1, <1>5, ScanFacts
      <3> HIDE DEF p, q
      <3>8. QED
        BY <1>1, <1>3, <3>4, <3>5, <3>6, <3>7, ScanFacts DEF Scanned, Less
    <2>7. QED
      BY <1>2, <2>4, <2>5, <2>6 DEF SortInv
  <1>6. QED
    BY <1>4, <1>5 DEF SortScans

LEMMA SortPlacesPivotInv ==
    ASSUME SortInv, SortPlacesPivot
    PROVE  SortInv'
  <1> DEFINE pi == sort_i + 1
  <1>1. /\ sort_pc = "scan" /\ sort_pc' = "call" /\ sort_j > High - 1
        /\ sort_calls' = Halves(pi) \o Tail(sort_calls)
        /\ UNCHANGED <<sort_size, sort_key>>
    BY DEF SortPlacesPivot
  <1>2. sort_arr' = Exchanged(pi, High)
    BY DEF SortPlacesPivot, mem_swap, Exchanged
  <1>3. /\ sort_j = High /\ pi \in Low..High /\ High \in Low..High /\ pi \in Int
        /\ pi \in Positions /\ High \in Positions
    BY <1>1, ScanFacts
  <1> HIDE DEF pi
  <1>4. /\ Exchanged(pi, High) \in [Positions -> Positions]
        /\ Exchanged(pi, High)[pi] = sort_arr[High] /\ Exchanged(pi, High)[High] = sort_arr[pi]
        /\ \A a \in Positions \ {pi, High} : Exchanged(pi, High)[a] = sort_arr[a]
        /\ \A a, b \in Positions : a # b => Exchanged(pi, High)[a] # Exchanged(pi, High)[b]
    BY <1>3, ExchangedFacts DEF SortInv
  <1>5. SortTypes'
    <2>1. Halves(pi) \o Tail(sort_calls) \in Seq(CallRecords)
      BY <1>1, <1>3, ScanFacts, HalvesCalls
    <2>2. QED
      BY <1>1, <1>2, <1>4, <2>1 DEF SortInv, SortTypes, Positions
  <1>6. NoneTwice'
    BY <1>1, <1>2, <1>4 DEF NoneTwice, Positions
  <1>7. GoodCalls(sort_calls)'
    <2>1. GoodCalls(Halves(pi) \o Tail(sort_calls))
      BY <1>1, <1>3, ScanFacts, HalvesGood
    <2>2. QED
      BY <1>1, <2>1 DEF GoodCalls, GoodCall
  <1>8. Scanned'
    BY <1>1 DEF Scanned
  <1> DEFINE x == Exchanged(pi, High)
             s == Halves(pi) \o Tail(sort_calls)
             K(k) == sort_key[x[k]]
  <1>9. ASSUME NEW a \in Positions, NEW b \in Positions, a < b, ~Together(s, a, b)
        PROVE  ~(K(b) < K(a))
    <2>1. a \in Int /\ b \in Int
      BY DEF SortInv, SortTypes, Positions
    <2>2. CASE ~(a \in Low..High /\ b \in Low..High)
      <3>1. ~Together(sort_calls, a, b)
        BY <1>1, <1>3, <1>9, <2>1, <2>2, ScanFacts, HalvesKeepTogether
      <3>2. QED
        BY <1>1, <1>3, <1>9, <3>1, ScanFacts, ExchangeKeepsOrder
    <2>3. CASE a \in Low..High /\ b \in Low..High
      <3>1. /\ Len(s) \in Nat /\ Len(s) >= 2
            /\ s[1] = [low |-> Low, high |-> pi - 1, depth |-> Depth + 1]
            /\ s[2] = [low |-> pi + 1, high |-> High, depth |-> Depth + 1]
        <4>1. sort_calls # <<>>
          BY <1>1, ScanFacts
        <4>2. Len(s) = Len(sort_calls) + 1 /\ Len(sort_calls) \in Nat \ {0}
          BY <1>3, <4>1, HeadFacts, HalvesCalls
        <4>3. QED
          BY <1>3, <4>1, <4>2, HalvesCalls
      <3> HIDE DEF s
      <3>2. ~(b <= pi - 1)
        <4>1. SUFFICES ASSUME b <= pi - 1 PROVE Together(s, a, b)
          BY <1>9
        <4>2. Within(s[1], a) /\ Within(s[1], b)
          BY <1>1, <1>3, <1>9, <2>1, <2>3, <3>1, <4>1, ScanFacts DEF Within
        <4>3. QED
          BY <3>1, <4>2 DEF Together
      <3>3. ~(a >= pi + 1)
        <4>1. SUFFICES ASSUME a >= pi + 1 PROVE Together(s, a, b)
          BY <1>9
        <4>2. Within(s[2], a) /\ Within(s[2], b)
          BY <1>1, <1>3, <1>9, <2>1, <2>3, <3>1, <4>1, ScanFacts DEF Within
        <4>3. QED
          BY <3>1, <4>2 DEF Together
      <3> DEFINE pivot == sort_key[sort_arr[High]]
      <3>4. \A k \in Positions : K(k) \in Int
        BY <1>4, SortAssumption DEF SortInv, SortTypes
      <3>5. K(pi) = pivot
        BY <1>4
      <3>6. \A k \in Low..(pi - 1) : K(k) < pivot
        <4>1. SUFFICES ASSUME NEW k \in Low..(pi - 1) PROVE K(k) < pivot
          OBVIOUS
        <4>2. k \in Low..sort_i /\ k # pi /\ k # High
          BY <1>1, <1>3, ScanFacts DEF pi
        <4>3. k \in Positions
          BY <1>1, <1>3, <4>2, ScanFacts
        <4>4. Less(k, High)
          BY <1>1, <4>2 DEF SortInv, Scanned
        <4>5. QED
          BY <1>4, <4>2, <4>3, <4>4 DEF Less
      <3>7. \A k \in (pi + 1)..High : ~(K(k) < pivot)
        <4>1. SUFFICES ASSUME NEW k \in (pi + 1)..High PROVE ~(K(k) < pivot)
          OBVIOUS
        <4>2. k # pi /\ (k # High => k \in (sort_i + 1)..(sort_j - 1))
              /\ pi \in (sort_i + 1)..(sort_j - 1)
          BY <1>1, <1>3, ScanFacts DEF pi
        <4>3. k \in Low..High
          BY <1>1, <1>3, ScanFacts
        <4>4. k \in Positions
          BY <1>1, <4>3, ScanFacts
        <4>5. ~Less(pi, High) /\ (k # High => ~Less(k, High))
          BY <1>1, <4>2 DEF SortInv, Scanned
        <4>6. QED
          BY <1>4, <4>2, <4>4, <4>5 DEF Less
      <3>8. pivot \in Int
        BY <1>3, <3>4, <3>5
      <3> HIDE DEF K, pivot
      <3>9. K(a) \in Int /\ K(b) \in Int
        BY <3>4
      <3>10. CASE a = pi
        <4>1. b \in (pi + 1)..High
          BY <1>1, <1>3, <1>9, <2>1, <2>3, <3>10, ScanFacts
        <4>2. QED
          BY <3>5, <3>7, <3>10, <4>1
      <3>11. CASE a < pi
        <4>1. a \in Low..(pi - 1) /\ b \in pi..High
          BY <1>1, <1>3, <2>1, <2>3, <3>2, <3>11, ScanFacts
        <4>2. b = pi \/ b \in (pi + 1)..High
          BY <1>1, <1>3, <4>1, ScanFacts
        <4>3. K(a) < pivot /\ ~(K(b) < pivot)
          BY <3>5, <3>6, <3>7, <3>8, <4>1, <4>2
        <4>4. QED
          BY <3>8, <3>9, <4>3
      <3>12. QED
        BY <1>3, <2>1, <3>3, <3>10, <3>11
    <2>4. QED
      BY <2>2, <2>3
  <1>10. InOrder'
    BY <1>1, <1>2, <1>9 DEF InOrder, Less, Positions, Together, Within
  <1>11. QED
    BY <1>5, <1>6, <1>7, <1>8, <1>10 DEF SortInv

LEMMA SortInvIsInductive == SortInv /\ [SortNext]_sort_vars => SortInv'
  <1> SUFFICES ASSUME SortInv, [SortNext]_sort_vars PROVE SortInv'
    OBVIOUS
  <1>1. CASE UNCHANGED sort_vars
    BY <1>1 DEF sort_vars, SortInv, SortTypes, GoodCalls, GoodCall, Scanned, NoneTwice, InOrder,
                Together, Within, Less, Positions, Low, High
  <1>2. QED
    BY <1>1, SortReturnsInv, SortPartitionsInv, SortScansInv, SortPlacesPivotInv DEF SortNext

-----------------------------------------------------------------------------
(* Quicksort: theorems *)

\* Whatever the array, its length and its keys, quicksort never loses or doubles
\* an element, and every pair of positions that no pending call spans is in
\* order: when the last call returns the whole array is sorted.
THEOREM SortCorrect == SortSpec => []SortedOutsideCalls
  <1>1. SortInv => SortedOutsideCalls
    <2> SUFFICES ASSUME SortInv PROVE SortedOutsideCalls
      OBVIOUS
    <2>1. ASSUME NEW c \in 1..Len(sort_calls)
          PROVE  sort_calls[c] \in [low : 0..sort_size, high : -1..(sort_size - 1), depth : Nat]
      <3>1. sort_calls[c] \in CallRecords /\ GoodCall(sort_calls[c]) /\ sort_size \in Nat
        BY DEF SortInv, SortTypes, GoodCalls
      <3>2. QED
        BY <3>1 DEF CallRecords, GoodCall
    <2>2. SortTypeOK
      BY <2>1 DEF SortInv, SortTypes, Scanned, SortTypeOK
    <2>3. \A a, b \in Positions :
             a < b /\ (\A c \in 1..Len(sort_calls) : ~(InCall(c, a) /\ InCall(c, b)))
                 => ~Less(b, a)
      BY DEF SortInv, InOrder, Together, Within, InCall
    <2>4. QED
      BY <2>2, <2>3 DEF SortInv, NoneTwice, SortedOutsideCalls
  <1>2. QED
    BY <1>1, SortInitInv, SortInvIsInductive, PTL DEF SortSpec

\* The recursion of quicksort is never deeper than the array is long: each call
\* has left at least one element to its caller.
THEOREM SortDepthCorrect == SortSpec => []SortDepthBounded
  <1>1. SortInv => SortDepthBounded
    BY DEF SortInv, GoodCalls, GoodCall, SortDepthBounded
  <1>2. QED
    BY <1>1, SortInitInv, SortInvIsInductive, PTL DEF SortSpec
==============================================================================
