CONSTANTS
    q1 = q1 q2 = q2 t1 = t1 t2 = t2 g1 = g1 g2 = g2 g3 = g3
    NoQueue = NoQueue NoTask = NoTask
    Queues = {q1}
    Names = {t1}
    QueueOf <- OneQueue
    Parents <- OwnQueue
    Ops = {"PauseQueue", "RunTask", "DeleteTask"}
    QueueConfigs <- RetryForAWhile
    Target <- AllHTTP
    Procs = {g1}
    TTL = 3
    SweepEvery = 1
    Deadline = 2
    Lead = 0
    DefaultConc = 2
    Interval = 1
    Burst = 4
    MaxMade = 1
    MaxRuns = 1
    MaxTime = 2
    LastCreate = 1
    MaxRestarts = 0
SPECIFICATION FairSpec
PROPERTIES
    RunHonoured
    DueServed
CHECK_DEADLOCK FALSE
