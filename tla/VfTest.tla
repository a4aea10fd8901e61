------------------------------- MODULE VfTest -------------------------------
(***************************************************************************)
(* vf_test.h: the registry of tests, filled by constructors before main,   *)
(* and one run of them.  A test may start a helper thread that checks too, *)
(* as tests/test_vf_thread.h does, and may return without joining it.  The *)
(* runner's state is shared without locks, so vf_test_record_failure is    *)
(* several steps; it books a failure on whichever test is running.  Time,  *)
(* messages and printing are left out.                                     *)
(***************************************************************************)
EXTENDS Integers, SequencesExt

CONSTANTS TestCases,            \* the tests of the program: [suite, name], by rank
          VF_TEST_MAX_TESTS,
          FailureSlots,         \* length of vf_test_failures
          MaxChecks             \* bound: failing checks of one test

ASSUME TestAssumption == /\ VF_TEST_MAX_TESTS \in Nat \ {0}
                         /\ FailureSlots \in Nat \ {0}
                         /\ MaxChecks \in Nat
                         /\ TestCases \subseteq [suite : Nat \ {0}, name : Nat]

VARIABLES vf_tests, vf_test_failure_count,
          vf_test_rs,                     \* VFTestRuntimeState; no suite is 0
          test_loaded,                    \* tests whose constructor has run
          test_pc,                        \* the runner's next step
          test_inside,                    \* thread -> its step in record_failure
          test_seen,                      \* thread -> the count it compared there
          test_helper,                    \* the test that started the helper, or 0
          test_checks,                    \* history: failures of the running test
          test_failed, test_skipped,      \* history: tests that recorded so in time
          test_together, test_outlived    \* history: two threads recorded at once;
                                          \* a test returned before its helper

test_threads   == <<test_inside, test_seen, test_helper>>
test_histories == <<test_checks, test_failed, test_skipped, test_together, test_outlived>>
test_vars == <<vf_tests, vf_test_failure_count, vf_test_rs, test_loaded, test_pc,
               test_threads, test_histories>>

Recorders == {"main", "helper"}

\* Tests are numbered from 1.
TestInit ==
    /\ vf_tests = <<>> /\ vf_test_failure_count = 0
    /\ vf_test_rs = [current_test_idx |-> 0, current_suite |-> 0,
                     suites |-> 0, passes |-> 0, fails |-> 0, skips |-> 0]
    /\ test_loaded = {} /\ test_pc = "load"
    /\ test_inside = [t \in Recorders |-> "out"] /\ test_seen = [t \in Recorders |-> 0]
    /\ test_helper = 0 /\ test_checks = 0
    /\ test_failed = {} /\ test_skipped = {}
    /\ test_together = FALSE /\ test_outlived = FALSE

Current == vf_test_rs.current_test_idx
Marked(result) == vf_tests' = [vf_tests EXCEPT ![Current].result = result]

\* A failure was written behind the list: what it overwrote is not known.
TestUsable == vf_test_failure_count <= FailureSlots
-----------------------------------------------------------------------------
(* Registration and sorting *)

\* A test beyond the maximum is dropped with a message.
vf_test_register_one(c) ==
    /\ test_pc = "load" /\ c \notin test_loaded
    /\ test_loaded' = test_loaded \cup {c}
    /\ vf_tests' = IF Len(vf_tests) < VF_TEST_MAX_TESTS
                   THEN Append(vf_tests, [case |-> c, result |-> "NONE"])
                   ELSE vf_tests
    /\ UNCHANGED <<vf_test_failure_count, vf_test_rs, test_pc, test_threads, test_histories>>

CmpNames(x, y) == x.case.name < y.case.name     \* mutant
Cmp(x, y) == \/ x.case.suite < y.case.suite
             \/ (x.case.suite = y.case.suite /\ x.case.name < y.case.name)

\* Insertion sort: each test goes behind the last of those sorted before it that
\* is not greater.
Inserted(sorted, x) ==
    InsertAt(sorted, 1 + Max({0} \cup {k \in DOMAIN sorted : ~Cmp(x, sorted[k])}), x)

_test_sort ==
    LET sorted[n \in 0..Len(vf_tests)] ==
            IF n = 0 THEN <<>> ELSE Inserted(sorted[n - 1], vf_tests[n])
    IN  sorted[Len(vf_tests)]

TestRunSorts == /\ test_pc = "load" /\ test_loaded = TestCases
                /\ vf_tests' = _test_sort
                /\ test_pc' = "next"
                /\ UNCHANGED <<vf_test_failure_count, vf_test_rs, test_loaded,
                               test_threads, test_histories>>
-----------------------------------------------------------------------------
(* vf_test_record_failure and vf_test_record_skip *)

\* A check of thread t fails; the list has a free slot, or it is not recorded there.
CheckFails(t) ==
    /\ TestUsable
    /\ IF t = "main" THEN test_pc = "body" ELSE test_helper # 0
    /\ test_inside[t] = "out" /\ test_checks < MaxChecks
    /\ \/ /\ vf_test_failure_count < FailureSlots
          /\ test_inside' = [test_inside EXCEPT ![t] = "claim"]
          /\ test_seen' = [test_seen EXCEPT ![t] = vf_test_failure_count]
       \/ /\ vf_test_failure_count >= FailureSlots
          /\ test_inside' = [test_inside EXCEPT ![t] = "mark"]
          /\ UNCHANGED test_seen
    /\ test_together' = (test_together \/ \E u \in Recorders \ {t} : test_inside[u] # "out")
    /\ UNCHANGED <<vf_tests, vf_test_failure_count, vf_test_rs, test_loaded, test_pc,
                   test_helper, test_checks, test_failed, test_skipped, test_outlived>>

\* The slot is the count that was compared, or the count read again.
ClaimSlot(t) ==
    /\ TestUsable
    /\ test_inside[t] = "claim"
    /\ \E n \in {test_seen[t], vf_test_failure_count} : vf_test_failure_count' = n + 1
    /\ test_inside' = [test_inside EXCEPT ![t] = "mark"]
    /\ test_seen' = [test_seen EXCEPT ![t] = 0]
    /\ UNCHANGED <<vf_tests, vf_test_rs, test_loaded, test_pc, test_helper, test_histories>>

\* The recording thread belongs to the test that is running.
InTime(t) == t = "main" \/ (test_helper = Current /\ test_pc = "body")

MarkFail(t) ==
    /\ TestUsable
    /\ test_inside[t] = "mark"
    /\ Marked("FAIL")
    /\ test_inside' = [test_inside EXCEPT ![t] = "out"]
    /\ \/ /\ InTime(t)
          /\ test_failed' = test_failed \cup {Current} /\ test_checks' = test_checks + 1
       \/ ~InTime(t) /\ UNCHANGED <<test_failed, test_checks>>
    /\ UNCHANGED <<vf_test_failure_count, vf_test_rs, test_loaded, test_pc, test_seen,
                   test_helper, test_skipped, test_together, test_outlived>>

vf_test_record_failure(t) == CheckFails(t) \/ ClaimSlot(t) \/ MarkFail(t)

MainInBody == TestUsable /\ test_pc = "body" /\ test_inside["main"] = "out"

\* VF_SKIP: the result is overwritten, and the test returns.
vf_test_record_skip ==
    /\ MainInBody
    /\ Marked("SKIP")
    /\ test_skipped' = test_skipped \cup {Current}
    /\ test_pc' = "returned"
    /\ test_outlived' = (test_outlived \/ test_helper # 0)
    /\ UNCHANGED <<vf_test_failure_count, vf_test_rs, test_loaded, test_threads,
                   test_checks, test_failed, test_together>>

HelperStarts == /\ MainInBody
                /\ test_helper = 0
                /\ test_helper' = Current
                /\ UNCHANGED <<vf_tests, vf_test_failure_count, vf_test_rs, test_loaded,
                               test_pc, test_inside, test_seen, test_histories>>

HelperEnds == /\ test_helper # 0 /\ test_inside["helper"] = "out"
              /\ test_helper' = 0
              /\ UNCHANGED <<vf_tests, vf_test_failure_count, vf_test_rs, test_loaded,
                             test_pc, test_inside, test_seen, test_histories>>

\* The test joined its helper before, or leaves it running.
TestReturns == /\ MainInBody
               /\ test_pc' = "returned"
               /\ test_outlived' = (test_outlived \/ test_helper # 0)
               /\ UNCHANGED <<vf_tests, vf_test_failure_count, vf_test_rs, test_loaded,
                              test_threads, test_checks, test_failed, test_skipped,
                              test_together>>
-----------------------------------------------------------------------------
(* vf_test_run: one round of its loop *)

FailuresKept == vf_test_failure_count           \* mutant
FailuresAtStart == 0

TestStarts ==
    /\ TestUsable
    /\ test_pc = "next" /\ Current < Len(vf_tests)
    /\ LET suite == vf_tests[Current + 1].case.suite
       IN  vf_test_rs' = [vf_test_rs EXCEPT
               !.current_test_idx = @ + 1, !.current_suite = suite,
               !.suites = IF vf_test_rs.current_suite # suite THEN @ + 1 ELSE @]
    /\ vf_test_failure_count' = FailuresAtStart
    /\ vf_tests' = [vf_tests EXCEPT ![Current + 1].result = "NONE"]
    /\ test_pc' = "body" /\ test_checks' = 0
    /\ UNCHANGED <<test_loaded, test_threads, test_failed, test_skipped,
                   test_together, test_outlived>>

Finds(result, label) ==
    /\ TestUsable
    /\ vf_tests[Current].result \in result
    /\ test_pc' = label
    /\ UNCHANGED <<vf_test_failure_count, test_loaded, test_threads, test_histories>>

\* The result is compared with NONE, replaced by PASS, and read again.
ResultCompared == /\ test_pc = "returned"
                  /\ \/ Finds({"NONE"}, "pass")
                     \/ Finds({"FAIL", "SKIP", "PASS"}, "count")
                  /\ UNCHANGED <<vf_tests, vf_test_rs>>

ResultPasses == /\ test_pc = "pass"
                /\ Finds({"NONE", "FAIL"}, "count")
                /\ Marked("PASS")
                /\ UNCHANGED vf_test_rs

ResultCounted ==
    /\ test_pc = "count"
    /\ \/ Finds({"SKIP"}, "next") /\ vf_test_rs' = [vf_test_rs EXCEPT !.skips = @ + 1]
       \/ Finds({"FAIL"}, "next") /\ vf_test_rs' = [vf_test_rs EXCEPT !.fails = @ + 1]
       \/ Finds({"PASS"}, "next") /\ vf_test_rs' = [vf_test_rs EXCEPT !.passes = @ + 1]
    /\ UNCHANGED vf_tests

\* The summary is printed; fails decides the exit status.
TestRunReturns == /\ TestUsable
                  /\ test_pc = "next" /\ Current = Len(vf_tests)
                  /\ test_pc' = "done"
                  /\ UNCHANGED <<vf_tests, vf_test_failure_count, vf_test_rs, test_loaded,
                                 test_threads, test_histories>>

vf_test_run == \/ TestRunSorts \/ TestStarts
               \/ ResultCompared \/ ResultPasses \/ ResultCounted
               \/ TestRunReturns

TestNext ==
    \/ \E c \in TestCases : vf_test_register_one(c)
    \/ \E t \in Recorders : vf_test_record_failure(t)
    \/ vf_test_record_skip \/ HelperStarts \/ HelperEnds \/ TestReturns
    \/ vf_test_run

TestSpec == TestInit /\ [][TestNext]_test_vars
-----------------------------------------------------------------------------
(* Properties *)

\* Every variable has its type.
TestTypeOK ==
    /\ Len(vf_tests) <= VF_TEST_MAX_TESTS
    /\ \A k \in DOMAIN vf_tests : /\ vf_tests[k].case \in TestCases
                                  /\ vf_tests[k].result \in {"NONE", "PASS", "FAIL", "SKIP"}
    /\ vf_test_failure_count \in Nat
    /\ Current \in 0..Len(vf_tests)
    /\ test_loaded \subseteq TestCases
    /\ test_pc \in {"load", "next", "body", "returned", "pass", "count", "done"}
    /\ test_inside \in [Recorders -> {"out", "claim", "mark"}]
    /\ test_seen \in [Recorders -> Nat]
    /\ test_helper \in 0..Len(vf_tests)
    /\ test_checks \in Nat
    /\ test_failed \cup test_skipped \subseteq DOMAIN vf_tests
    /\ test_together \in BOOLEAN /\ test_outlived \in BOOLEAN

\* The summary adds up to the tests there was room for, each run once, and has
\* every suite once, whatever the order of registration.  It has every test that
\* failed, but for those that skipped themselves afterwards; also a helper that
\* outlives its test can only add failures to it.
TestSummaryIsRight ==
    /\ TestTypeOK
    /\ test_pc = "done" =>
         /\ Len(vf_tests) = IF Cardinality(TestCases) < VF_TEST_MAX_TESTS
                            THEN Cardinality(TestCases) ELSE VF_TEST_MAX_TESTS
         /\ \A j, k \in DOMAIN vf_tests : j # k => vf_tests[j].case # vf_tests[k].case
         /\ vf_test_rs.suites = Cardinality({vf_tests[k].case.suite : k \in DOMAIN vf_tests})
         /\ vf_test_rs.passes + vf_test_rs.fails + vf_test_rs.skips = Len(vf_tests)
         /\ vf_test_rs.fails >= Cardinality(test_failed \ test_skipped)
         /\ ~test_outlived => /\ vf_test_rs.fails = Cardinality(test_failed \ test_skipped)
                              /\ vf_test_rs.skips = Cardinality(test_skipped)

\* The list printed with a test is that test's failures, as many as fit, and is
\* never written past its end, unless two threads recorded at once or a helper
\* outlived its test.
FailureListIsExact ==
    /\ vf_test_failure_count > FailureSlots => test_together
    /\ /\ test_pc \in {"body", "returned", "pass", "count"}
       /\ \A t \in Recorders : test_inside[t] = "out"
       /\ ~test_together /\ ~test_outlived
       => vf_test_failure_count = IF test_checks < FailureSlots THEN test_checks
                                                                ELSE FailureSlots
=============================================================================
