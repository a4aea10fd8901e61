---------------------------- MODULE MCThreadPool ----------------------------
(***************************************************************************)
(* A small thread pool for TLC: the function of task t1 submits task t5.   *)
(* Tasks t2, t3 and t4 do the same, so clients submit them in this order,  *)
(* and t4 only to a pool with one worker, where both producers can then    *)
(* be asleep on a full ring.                                               *)
(***************************************************************************)
EXTENDS ThreadPool

CONSTANTS t1, t2, t3, t4, t5

MCTasks    == {t1, t2, t3, t4, t5}
MCFollow   == [x \in MCTasks |-> IF x = t1 THEN t5 ELSE NoTask]
MCRequests == {0, 1, 2, 3}

Submitted == {arg[p] : p \in Producers} \cup {accepted[k] : k \in 1..Len(accepted)}

\* Holds of every step the clients take.
MCClient == /\ t3 \in Submitted' => t2 \in Submitted'
            /\ t4 \in Submitted' => t3 \in Submitted' /\ thread_count < 2
=============================================================================
