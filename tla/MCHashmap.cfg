SPECIFICATION Spec
CONSTANTS
    k1 = k1
    k2 = k2
    k3 = k3
    Keys <- MCKeys
    Values = {a, b}
    NoKey = NoKey
    NoValue = NoValue
    Freed = Freed
    Hash <- MCHash
    VF_HASH_INITIAL_CAPACITY = 4
    MaxCapacity = 8
    MaxFailures = 1
INVARIANTS
    TypeOK
    ProbesEnd
PROPERTIES
    SetIsRead
    DictionaryUntilImpaired
CHECK_DEADLOCK FALSE
