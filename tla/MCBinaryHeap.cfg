SPECIFICATION Spec
CONSTANTS
    Items = {a, b}
    Priorities = {1, 2, 3}
    Capacities = {0, 1, 5}
INVARIANTS
    TypeOK
    HeapOrder
PROPERTIES
    ImplementsPriorityQueue
CHECK_DEADLOCK FALSE
