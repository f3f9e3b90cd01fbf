CONSTANTS
    q1 = q1 q2 = q2 t1 = t1 t2 = t2 g1 = g1 g2 = g2 g3 = g3
    NoQueue = NoQueue NoTask = NoTask
    Queues = {q1}
    Names = {t1}
    QueueOf <- OneQueue
    Parents <- OwnQueue
    Ops = {"UpdateQueue", "PauseQueue", "DeleteQueue", "PurgeQueue", "DeleteTask", "RunTask"}
    QueueConfigs <- TwoAtATime
    Target <- AllHTTP
    Procs = {g1, g2}
    TTL = 2
    SweepEvery = 1
    Deadline = 1
    Lead = 0
    DefaultConc = 2
    Interval = 1
    Burst = 1
    MaxMade = 2
    MaxRuns = 1
    MaxTime = 2
    LastCreate = 2
    MaxRestarts = 0
SPECIFICATION Spec
SYMMETRY ProcSymmetry
INVARIANTS
    OneAttemptPerTask
    MarksExact
    TombstonedStaysGone
PROPERTIES
    AckedNeverResent
CHECK_DEADLOCK FALSE
