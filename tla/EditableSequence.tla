-------------------------- MODULE EditableSequence --------------------------
(* What a dynamic array promises: a sequence that its user edits in place. *)
EXTENDS Integers, SequencesExt

CONSTANT Elems
VARIABLES items, closed

vars == <<items, closed>>

Init == items = <<>> /\ closed = FALSE

Put(x, k) == items' = InsertAt(items, k, x)
RemoveLast == items # <<>> /\ items' = Front(items)
Exchange(k, l) == items' = [items EXCEPT ![k] = items[l], ![l] = items[k]]
Clear == items' = <<>>

Edit == /\ ~closed
        /\ \/ \E x \in Elems, k \in 1..(Len(items) + 1) : Put(x, k)
           \/ RemoveLast
           \/ \E k, l \in DOMAIN items : Exchange(k, l)
           \/ Clear
        /\ UNCHANGED closed

Close == ~closed /\ closed' = TRUE /\ items' = <<>>

Next == Edit \/ Close

Spec == Init /\ [][Next]_vars
=============================================================================
