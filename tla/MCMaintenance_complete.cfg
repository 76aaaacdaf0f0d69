\* One code, looked at by one run after another; every row is intact.
CONSTANTS
    Actors = {a1}
    Sessions = {s1}
    Operations = {o1}
    Workers = {w1}
    FirstOperation = o1
    FirstWorker = w1
    AnyActor = a1
    None = None
    MaxRecoveries = 1
    Codes = {c1}
    Recipients = {a1}
    Cleaners = {n1}
    Nobody = Nobody
    Owner <- MCOwner
    Lifetime = 1
    Day = 1
    Limit = 2
    MaxTime = 2
    MaxRuns = 2
    MaxReturns = 1
SPECIFICATION PartSpec
CONSTRAINT OnlyCleanup
INVARIANT CompleteRunIsDone
CHECK_DEADLOCK FALSE
