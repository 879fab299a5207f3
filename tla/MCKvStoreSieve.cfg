\* No probationary pool: a pooled entry is in the sanctuary from its first SET, and a third
\* one comes from the heap.  A sweep collects up to two victims and yields after each.
\* Without symmetry, for the liveness property.
SPECIFICATION FairSpec
CONSTANTS
    Nil = Nil
    k1 = k1
    k2 = k2
    k3 = k3
    v1 = v1
    v2 = v2
    e1 = e1
    e2 = e2
    e3 = e3
    e4 = e4
    f1 = f1
    f2 = f2
    Keys = {k1, k2}
    Values = {v1}
    Entries = {e1, e2, e3}
    Fibers = {f1, f2}
    TTLs = {0}
    MaxSize = 2
    ProbPercent = 0
    ProbTrigger = 50
    ReaperBudget = 1
    SieveBudget = 2
    SoftPercent = 100
    YieldEvery = 1
    MaxNow = 0
    MaxProbCount = 3
INVARIANTS
    ListsSound
    HandsSound
PROPERTIES
    ImplementsCache
    SetCompletes
CHECK_DEADLOCK FALSE
