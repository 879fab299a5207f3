\* Two SETs at the threshold of the probationary pool, a reaper that never yields
\* inside its loop (hard_budget below 1000, as in the example configuration).
SPECIFICATION Spec
CONSTANTS
    Nil = Nil
    k1 = k1
    k2 = k2
    k3 = k3
    v1 = v1
    v2 = v2
    e1 = e1
    e2 = e2
    e3 = e3
    e4 = e4
    f1 = f1
    f2 = f2
    Keys = {k1, k2}
    Values = {v1}
    Entries = {e1, e2, e3, e4}
    Fibers = {f1, f2}
    TTLs = {0}
    MaxSize = 2
    ProbPercent = 100
    ProbTrigger = 50
    ReaperBudget = 1
    SieveBudget = 2
    SoftPercent = 100
    YieldEvery = 2
    MaxNow = 0
    MaxProbCount = 3
SYMMETRY Sym
INVARIANT
    AcquireFindsObject
CHECK_DEADLOCK FALSE
