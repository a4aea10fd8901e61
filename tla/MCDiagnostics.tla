--------------------------- MODULE MCDiagnostics ---------------------------
(***************************************************************************)
(* The two headers with global state that tests and programs report with,  *)
(* for TLC: a behaviour is about one of them, the other stays as it is.    *)
(***************************************************************************)
EXTENDS VfTest, VfLog

VARIABLE header

\* Three tests of two suites are registered, and a fourth is one too many.
MCCases == {[suite |-> 1, name |-> 1], [suite |-> 1, name |-> 3],
            [suite |-> 2, name |-> 2], [suite |-> 2, name |-> 4]}

MCInit == header \in {"vf_test.h", "vf_log.h"} /\ TestInit /\ LogInit

MCNext == /\ \/ header = "vf_test.h" /\ TestNext /\ UNCHANGED log_vars
             \/ header = "vf_log.h" /\ LogNext /\ UNCHANGED test_vars
          /\ UNCHANGED header

MCSpec == MCInit /\ [][MCNext]_<<header, test_vars, log_vars>>
=============================================================================
