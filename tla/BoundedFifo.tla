----------------------------- MODULE BoundedFifo -----------------------------
(***************************************************************************)
(* What a bounded queue promises its users: items leave in the order they  *)
(* entered, at most Capacity of them are held, and once the queue is       *)
(* closed nothing enters or leaves.  ThreadPool and Queue implement it.    *)
(***************************************************************************)
EXTENDS Naturals, Sequences

CONSTANTS Items,      \* what may be put in the queue
          Capacity,   \* how many items it holds at most
          NoItem      \* "nothing has been given out yet"

VARIABLES items,      \* the items held, oldest first
          closed,     \* no Put or Take happens any more
          given       \* the item most recently taken

vars == <<items, closed, given>>

Init == /\ items = <<>>
        /\ closed = FALSE
        /\ given = NoItem

Put(x) == /\ ~closed
          /\ Len(items) < Capacity
          /\ items' = Append(items, x)
          /\ UNCHANGED <<closed, given>>

Take == /\ ~closed
        /\ items # <<>>
        /\ given' = Head(items)
        /\ items' = Tail(items)
        /\ UNCHANGED closed

Close == /\ ~closed
         /\ closed' = TRUE
         /\ UNCHANGED <<items, given>>

Next == (\E x \in Items : Put(x)) \/ Take \/ Close

Spec == Init /\ [][Next]_vars
=============================================================================
