SPECIFICATION Spec
CONSTANTS
    t1 = t1
    t2 = t2
    NoOwner = NoOwner
    Threads <- TwoThreads
    Sidecars <- CountSidecars
    Operations <- CountOperations
    Plan <- ClientPlan
    MaxCalls = 1
INVARIANT
    LockFreeReads
