SPECIFICATION Spec
CONSTANTS
    Ids = {0, 2, 5, 12}
    Data = {a, b}
    NoData = NoData
    Requests = {1, 2}
    VF_SPARSESET_INIT_CAPACITY = 3
    UINT32_MAX = 15
    MaxPassed = 2
INVARIANTS
    TypeOK
    SparseDenseAgree
    IteratorMissesOnlyByRemoval
PROPERTIES
    ImplementsDictionary
CHECK_DEADLOCK FALSE
