SPECIFICATION MCSpec
CONSTANTS
    a = a
    b = b
    Values = {a, b}
    NoValue = NoValue
    SIZE_MAX = 15
    Capacities = {0, 1, 2, 3, 4}
    DaItems = {a, b}
    DaGarbage = Garbage
    DaRequests = {0, 2, 3}
    DaOthers <- MCOthers
    DaMaxCapacity = 6
    SortSizes = {0, 1, 2, 3, 4, 5}
    SortKeys = {1, 2, 3, 4}
INVARIANTS
    TypeOK
    RingAgrees
    EndsAreOldestAndNewest
    
    DaOverrunsAreKnown
    SortedOutsideCalls
    SortDepthBounded
PROPERTIES
    ImplementsFifo
    DaEditsSequence
CHECK_DEADLOCK FALSE
