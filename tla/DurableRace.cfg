CONSTANTS
    a = a b = b k1 = k1 k2 = k2
    Absent = Absent NoLock = NoLock Torn = Torn
    Keys = {k1, k2}
    Values = {1, 2}
    Batches <- MCBatches
    Instances = {a, b}
    Pids = {1, 2, 3}
    MaxStarting = 2
    LateCommits = FALSE
    MaxLaunches = 3
    MaxLosses = 0
SPECIFICATION Spec
INVARIANTS
    OneOwner
CHECK_DEADLOCK FALSE
