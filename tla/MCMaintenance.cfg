\* One actor with a session.  Two workers with two deletions; one worker beside a restore; two codes.
CONSTANTS
    Actors = {a1}
    Sessions = {s1}
    Operations = {o1, o2}
    Workers = {w1, w2}
    FirstOperation = o1
    FirstWorker = w1
    AnyActor = a1
    None = None
    MaxRecoveries = 1
    Codes = {c1, c2}
    Recipients = {a1}
    Cleaners = {n1, n2}
    Nobody = Nobody
    Owner <- MCOwner
    Lifetime = 1
    Day = 1
    Limit = 1
    MaxTime = 2
    MaxRuns = 2
    MaxReturns = 1
SPECIFICATION PartSpec
SYMMETRY MCSymmetry
CONSTRAINT OneWorker
INVARIANTS
    CodeKeysOutliveRows
    DeletionsAreWhole
    DeletionsSurviveRestore
    RowsAreReadableAndFresh
    CleanupAnswersAreTrue
CHECK_DEADLOCK FALSE
