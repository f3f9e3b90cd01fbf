CONSTANTS
    q1 = q1 q2 = q2 t1 = t1 t2 = t2 g1 = g1 g2 = g2 g3 = g3
    NoQueue = NoQueue NoTask = NoTask
    Queues = {q1}
    Names = {t1, t2}
    QueueOf <- OneQueue
    Parents <- OwnQueue
    Ops = {"DeleteTask", "RunTask", "UpdateQueue", "DeleteQueue"}
    QueueConfigs <- OneOrTwoAtATime
    Target <- BadAndAppEngine
    Procs = {g1, g2, g3}
    TTL = 3
    SweepEvery = 1
    Deadline = 2
    Lead = 0
    DefaultConc = 2
    Interval = 1
    Burst = 3
    MaxMade = 1
    MaxRuns = 1
    MaxTime = 0
    LastCreate = 0
    MaxRestarts = 0
SPECIFICATION Spec
SYMMETRY ProcSymmetry
PROPERTIES
    WithinConcurrency
CHECK_DEADLOCK FALSE
