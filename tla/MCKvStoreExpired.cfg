\* A plain SET of a key whose deadline has passed.
SPECIFICATION Spec
CONSTANTS
    Nil = Nil
    k1 = k1
    k2 = k2
    k3 = k3
    v1 = v1
    v2 = v2
    e1 = e1
    e2 = e2
    e3 = e3
    e4 = e4
    f1 = f1
    f2 = f2
    Keys = {k1, k2}
    Values = {v1}
    Entries = {e1, e2, e3, e4}
    Fibers = {f1}
    TTLs = {0, 1}
    MaxSize = 2
    ProbPercent = 100
    ProbTrigger = 50
    ReaperBudget = 1
    SieveBudget = 2
    SoftPercent = 100
    YieldEvery = 1
    MaxNow = 1
    MaxProbCount = 3
PROPERTY
    SetIsVisible
CHECK_DEADLOCK FALSE
