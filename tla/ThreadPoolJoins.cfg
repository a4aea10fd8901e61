SPECIFICATION Spec
ACTION_CONSTRAINT MCClient
CONSTANTS
    NoThread = NoThread
    MAX_THREADS = 2
    MAX_QUEUE = 2
    Requests <- MCRequests
    Producers = {p1, p2}
    Owner = owner
    t1 = t1
    t2 = t2
    t3 = t3
    t4 = t4
    t5 = t5
    Tasks <- MCTasks
    NoTask = NoTask
    Follow <- MCFollow
    MaxSpurious = 1
INVARIANT JoinsOnlyCreatedThreads
