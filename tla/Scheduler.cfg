CONSTANTS
    NoJob = NoJob
    Jobs = {j1}
    Periods = {1, 2}
    Retries <- RetryForAWhile
    Callers = {c1}
    Procs = {g1, g2}
    SlowCalls = FALSE
    MaxCalls = 2
    MaxTime = 2
    MaxRestarts = 1
SPECIFICATION FairSpec
INVARIANTS
    OneDelivery
    SlotsOnce
    MissedNotMadeUp
PROPERTIES
    DeliveriesEnd
    NoneStaysDue
