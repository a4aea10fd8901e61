---------------------------- MODULE PriorityQueue ----------------------------
(***************************************************************************)
(* What a bounded queue of items with priorities promises: it holds what   *)
(* was put in, and gives back one that no other goes before.  ordered may  *)
(* be given up for good at a take or a change, or be won back when at most *)
(* one element is left; nothing is ever lost or doubled.                   *)
(***************************************************************************)
EXTENDS Integers, BagsExt

Bag  == INSTANCE Bags
Sets == INSTANCE FiniteSets

CONSTANTS Items, Priorities

VARIABLES limit,       \* chosen once: how many elements at most, and
          least_first, \* which priorities go first
          held,        \* bag of elements
          ordered,     \* what is taken is the best
          closed

chosen == <<limit, least_first>>
vars   == <<chosen, held, ordered, closed>>

Elements == [item : Items, priority : Priorities]

Init == /\ limit \in Nat /\ least_first \in BOOLEAN
        /\ held = Bag!EmptyBag /\ ordered = TRUE /\ closed = FALSE

\* How many elements a bag has, each counted as often as it is in the bag
Size(bag) == Sets!Cardinality(UNION {{e} \X (1..bag[e]) : e \in DOMAIN bag})

Before(p, q) == IF least_first THEN p < q ELSE p > q

Best(e) == e \in DOMAIN held /\ \A d \in DOMAIN held : ~Before(d.priority, e.priority)

Put(e) == /\ ~closed
          /\ Size(held) < limit
          /\ held' = BagAdd(held, e)
          /\ UNCHANGED <<chosen, ordered, closed>>

MayLoseOrder == ordered' => ordered \/ Size(held') <= 1

Take(e) == /\ ~closed
           /\ e \in DOMAIN held
           /\ ordered => Best(e)
           /\ held' = BagRemove(held, e)
           /\ MayLoseOrder
           /\ UNCHANGED <<chosen, closed>>

\* Another priority for one of the elements with e's item.
Change(e, p) == /\ ~closed
                /\ e \in DOMAIN held
                /\ held' = BagAdd(BagRemove(held, e), [e EXCEPT !.priority = p])
                /\ MayLoseOrder
                /\ UNCHANGED <<chosen, closed>>

Clear == /\ ~closed
         /\ held' = Bag!EmptyBag /\ ordered' = TRUE
         /\ UNCHANGED <<chosen, closed>>

Close == /\ ~closed
         /\ closed' = TRUE
         /\ UNCHANGED <<chosen, held, ordered>>

Next == \/ \E e \in Elements : \/ Put(e)
                               \/ Take(e)
                               \/ \E p \in Priorities : Change(e, p)
        \/ Clear
        \/ Close

Spec == Init /\ [][Next]_vars
=============================================================================
