\* Two actors are deleted, one before the backup is put in place and one while it is restored.
CONSTANTS
    Actors = {a1, a2}
    Sessions = {}
    Operations = {o1, o2}
    Workers = {w1}
    FirstOperation = o1
    FirstWorker = w1
    AnyActor = a1
    None = None
    MaxRecoveries = 1
    Codes = {c1, c2}
    Recipients = {a1}
    Cleaners = {n1, n2}
    Nobody = Nobody
    Owner <- MCOwner
    Lifetime = 1
    Day = 1
    Limit = 1
    MaxTime = 2
    MaxRuns = 2
    MaxReturns = 1
SPECIFICATION PartSpec
CONSTRAINT OneRestore
INVARIANT NewHeadsAreApplied
CHECK_DEADLOCK FALSE
