CONSTANTS
    e1 = e1  e2 = e2  w1 = w1  w2 = w2
    Events = {e1, e2}
    Workers = {w1, w2}
    MaxAttempts = 2
    BatchSize = 2
    MaxReplays = 1
    None = None
SPECIFICATION FairSpec
INVARIANTS TypeOK DeliveredWasSent BudgetKept SomeWorkerRuns ClaimsHeld
PROPERTIES DeliveredFinal ResolvedWhileRunning
CHECK_DEADLOCK FALSE
