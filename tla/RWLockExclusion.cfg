SPECIFICATION Spec
CONSTANTS
    Readers = {r1, r2}
    Writers = {w1, w2}
    MaxCalls = 1
INVARIANT ReadersExcludeWriters
