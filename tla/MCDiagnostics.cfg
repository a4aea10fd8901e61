SPECIFICATION MCSpec
CONSTANTS
    TestCases <- MCCases
    VF_TEST_MAX_TESTS = 3
    FailureSlots = 2
    MaxChecks = 3
    LogThreads = {l1, l2}
    LogFiles = {f1, f2}
    LogNull = NULL
    MaxMessages = 3
INVARIANTS
    TestSummaryIsRight
    FailureListIsExact
    LogLinesWhole
CHECK_DEADLOCK FALSE
