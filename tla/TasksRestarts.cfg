CONSTANTS
    q1 = q1 q2 = q2 t1 = t1 t2 = t2 g1 = g1 g2 = g2 g3 = g3
    NoQueue = NoQueue NoTask = NoTask
    Queues = {q1}
    Names = {t1}
    QueueOf <- OneQueue
    Parents <- OwnQueue
    Ops = {"RunTask", "UpdateQueue"}
    QueueConfigs <- OneOrTwoAttempts
    Target <- AllHTTP
    Procs = {g1, g2}
    TTL = 3
    SweepEvery = 1
    Deadline = 2
    Lead = 0
    DefaultConc = 2
    Interval = 1
    Burst = 1
    MaxMade = 1
    MaxRuns = 2
    MaxTime = 2
    LastCreate = 0
    MaxRestarts = 2
SPECIFICATION Spec
SYMMETRY ProcSymmetry
INVARIANTS
    AttemptsBounded
    OneRunOneDispatch
CHECK_DEADLOCK FALSE
