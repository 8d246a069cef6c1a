SPECIFICATION Spec
CONSTANTS
    t1 = t1
    t2 = t2
    a1 = a1
    a2 = a2
    a3 = a3
    o1 = o1
    o2 = o2
    g1 = g1
    Thread = {t1, t2}
    Object = {o1, o2}
    Address = {a1, a2, a3}
    Malloc <- FirstFree
    Generator = {g1}
    Programs <- MCPrograms
    Argument <- MCArgument
    Library <- MCLibrary
    Unreadable = Unreadable
    MaxWorldChanges = 1
INVARIANTS
    OneOwner
    NothingLeaks
    ReadsOwnAnswer
    GeneratorsYieldRows
    TooSmallMeansChanged
