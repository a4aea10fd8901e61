----------------------------- MODULE Dictionary -----------------------------
(***************************************************************************)
(* What a container addressed by key promises: at any time it maps some    *)
(* keys to values, and one call changes the value of one key at most.      *)
(***************************************************************************)
CONSTANTS Keys, Vals

VARIABLES map,      \* function from the keys held to their values
          closed    \* no further calls

Init == map = [k \in {} |-> k] /\ closed = FALSE

\* A new key, or a new value for a key that is held.
Assign(k, v) == /\ ~closed
                /\ map' = [j \in DOMAIN map \cup {k} |-> IF j = k THEN v ELSE map[j]]
                /\ UNCHANGED closed

Delete(k) == /\ ~closed
             /\ k \in DOMAIN map
             /\ map' = [j \in DOMAIN map \ {k} |-> map[j]]
             /\ UNCHANGED closed

Close == /\ ~closed
         /\ closed' = TRUE
         /\ UNCHANGED map

Next == \/ \E k \in Keys, v \in Vals : Assign(k, v)
        \/ \E k \in Keys : Delete(k)
        \/ Close

Spec == Init /\ [][Next]_<<map, closed>>
=============================================================================
