SPECIFICATION FairSpec
CONSTANTS
    t1 = t1
    t2 = t2
    NoOwner = NoOwner
    Threads <- TwoThreads
    Sidecars <- ProfileSidecars
    Operations <- ProfileOperations
    Plan <- ClientPlan
    MaxCalls = 2
INVARIANTS
    MutexDiscipline
    NoStickyFailure
    PlanOutcome
PROPERTIES
    EveryCallReturns
    ImplementsOnceCells
