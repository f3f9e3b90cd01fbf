CONSTANTS
    q1 = q1 q2 = q2 t1 = t1 t2 = t2 g1 = g1 g2 = g2 g3 = g3
    NoQueue = NoQueue NoTask = NoTask
    Queues = {q1}
    Names = {t1}
    QueueOf <- OneQueue
    Parents <- OwnQueue
    Ops = {}
    QueueConfigs <- OneAtATime
    Target <- AllBad
    Procs = {g1, g2}
    TTL = 3
    SweepEvery = 1
    Deadline = 2
    Lead = 0
    DefaultConc = 2
    Interval = 1
    Burst = 1
    MaxMade = 2
    MaxRuns = 0
    MaxTime = 3
    LastCreate = 1
    MaxRestarts = 0
SPECIFICATION Spec
SYMMETRY ProcSymmetry
INVARIANTS
    AttemptsBounded
CHECK_DEADLOCK FALSE
