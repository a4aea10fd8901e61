SPECIFICATION Spec
CONSTANTS
    Data = {a, b}
    NULL = NULL
    Requests = {1, 3}
    VF_MEMORY_POOL_INITIAL_CAPACITY = 2
    MaxCapacity = 4
INVARIANT
    HeldBlocksStayValid
CHECK_DEADLOCK FALSE
