SPECIFICATION Spec
CONSTANTS
    Readers = {r1, r2}
    Writers = {w1, w2}
    MaxCalls = 3
SYMMETRY Symmetry
INVARIANTS
    TypeOK
    SafeUntilOverlap
    QuiescentClean
    WaitingCountExact
