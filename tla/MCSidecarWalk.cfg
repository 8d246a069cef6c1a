SPECIFICATION Spec
CONSTANTS
    t1 = t1
    t2 = t2
    NoOwner = NoOwner
    Threads <- OneThread
    Sidecars <- WalkSidecars
    Operations <- WalkOperations
    Plan <- ClientPlan
    MaxCalls = 1
INVARIANT
    PlanOutcome
