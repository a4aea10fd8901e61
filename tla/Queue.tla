-------------------------------- MODULE Queue --------------------------------
(***************************************************************************)
(* vf_queue.h: a ring buffer of fixed capacity for one thread.  front and  *)
(* back are size_t indices; the code stores -1 in them, which is SIZE_MAX, *)
(* while the queue is empty.  One action per call that changes the queue.  *)
(***************************************************************************)
EXTENDS Integers, Sequences

CONSTANTS Values,     \* what is stored
          NoValue,    \* content of memory nobody wrote
          SIZE_MAX,   \* greatest value of size_t
          Capacities  \* the capacities a client asks for

ASSUME SizeAssumption == /\ SIZE_MAX \in Nat
                         /\ Capacities \subseteq 0..SIZE_MAX
                         /\ NoValue \notin Values

VARIABLES data, front, back, size, capacity,   \* vf_queue_t
          alive,      \* between vf_queue_create and vf_queue_free
          out_item,   \* what the last successful pop copied out
          newest      \* history: the last value a push stored

fields == <<data, front, back, size, capacity>>
vars   == <<fields, alive, out_item, newest>>

\* size_t arithmetic: the value of n stored in a size_t.
SizeTSigned(n) == n                             \* mutant
SizeT(n) == n % (SIZE_MAX + 1)

\* vf_queue_create; reading a slot before it is written gives NoValue.
Init == /\ capacity \in Capacities
        /\ data = [k \in 0..(capacity - 1) |-> NoValue]
        /\ front = SizeT(-1) /\ back = SizeT(-1)
        /\ size = 0
        /\ alive = TRUE
        /\ out_item = NoValue /\ newest = NoValue

vf_queue_empty_early == size <= 1              \* mutant
vf_queue_empty == size <= 0
vf_queue_full == size >= capacity

\* The slots the returned pointers refer to; NULL is NoValue here.
vf_queue_front == IF vf_queue_empty THEN NoValue ELSE data[front]
vf_queue_back  == data[back]

\* The ring index after n.
NextPos(n) == SizeT(n + 1) % capacity

\* A push into a full queue is dropped: the caller is not told.
vf_queue_push(x) ==
    /\ alive
    /\ ~vf_queue_full
    /\ front' = IF vf_queue_empty THEN 0 ELSE front
    /\ data' = [data EXCEPT ![NextPos(back)] = x]
    /\ back' = NextPos(back)
    /\ size' = size + 1
    /\ newest' = x
    /\ UNCHANGED <<capacity, alive, out_item>>

\* A pop of an empty queue, or without a place to copy to, does nothing.
PopWithoutReset ==                              \* mutant
    /\ alive
    /\ ~vf_queue_empty
    /\ out_item' = data[front]
    /\ front' = IF front = back THEN SizeT(-1) ELSE NextPos(front)
    /\ size' = size - 1
    /\ UNCHANGED <<data, back, capacity, alive, newest>>

PopFromBack ==                                  \* mutant
    /\ alive
    /\ ~vf_queue_empty
    /\ out_item' = data[back]
    /\ IF front = back
       THEN front' = SizeT(-1) /\ back' = SizeT(-1)
       ELSE front' = NextPos(front) /\ UNCHANGED back
    /\ size' = size - 1
    /\ UNCHANGED <<data, capacity, alive, newest>>

vf_queue_pop ==
    /\ alive
    /\ ~vf_queue_empty
    /\ out_item' = data[front]
    /\ IF front = back
       THEN front' = SizeT(-1) /\ back' = SizeT(-1)
       ELSE front' = NextPos(front) /\ UNCHANGED back
    /\ size' = size - 1
    /\ UNCHANGED <<data, capacity, alive, newest>>

vf_queue_free == /\ alive
                 /\ alive' = FALSE
                 /\ UNCHANGED <<fields, out_item, newest>>

Next == \/ \E x \in Values : vf_queue_push(x)
        \/ vf_queue_pop
        \/ vf_queue_free

Spec == Init /\ [][Next]_vars
-----------------------------------------------------------------------------
(* Properties *)

\* Every variable has its type.
TypeOK == /\ capacity \in Capacities
          /\ data \in [0..(capacity - 1) -> Values \cup {NoValue}]
          /\ front \in 0..SIZE_MAX /\ back \in 0..SIZE_MAX
          /\ size \in 0..capacity
          /\ alive \in BOOLEAN
          /\ out_item \in Values \cup {NoValue} /\ newest \in Values \cup {NoValue}

\* size, front and back tell the same story: an empty queue has both indices at
\* the sentinel, and otherwise back is size - 1 slots after front, so neither
\* index is ever the sentinel or past the array when an item is read or stored.
RingAgrees ==
    IF size = 0 THEN front = SIZE_MAX /\ back = SIZE_MAX
    ELSE /\ front \in 0..(capacity - 1) /\ back \in 0..(capacity - 1)
         /\ back = (front + size - 1) % capacity

Contents == [k \in 1..size |-> data[(front + k - 1) % capacity]]

\* vf_queue_front and vf_queue_back give the oldest item and the one pushed
\* last for as long as there is an item, however often the ring has wrapped.
EndsAreOldestAndNewest ==
    size > 0 => vf_queue_front = Contents[1] /\ vf_queue_back = newest

Fifo(c) == INSTANCE BoundedFifo WITH
            Items <- Values, Capacity <- c, NoItem <- NoValue,
            items <- Contents, closed <- ~alive, given <- out_item

\* The ring is a bounded queue: pop copies out the items in the order push
\* took them, none is overwritten and none is given twice.
ImplementsFifo ==
    /\ Fifo(0)!Init
    /\ [][\E c \in Capacities : c = capacity /\ Fifo(c)!Next]_<<Contents, ~alive, out_item>>
=============================================================================
