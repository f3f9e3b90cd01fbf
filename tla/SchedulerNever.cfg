CONSTANTS
    NoJob = NoJob
    Jobs = {j1}
    Periods = {0}
    Retries <- RetryForAWhile
    Callers = {c1}
    Procs = {g1, g2}
    SlowCalls = FALSE
    MaxCalls = 2
    MaxTime = 2
    MaxRestarts = 0
SPECIFICATION Spec
INVARIANTS
    SlotsOnce
