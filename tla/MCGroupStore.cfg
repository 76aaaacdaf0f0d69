\* Commands: two callers of two calls each, two operation ids and two groups; lost replies, crashes,
\* commits that land after their caller sent the command again, and a retry that races the first try
\* on the same node or another while the locator key changes over.
\* Deletion: two groups that may share a close intent, two workers.  Evidence: two bindings.
\* Calendar: three years around 2024 and around 2100, in steps of three hours.
CONSTANTS
    Clients = {w1, w2}
    OperationIds = {x1, x2}
    GroupIds = {y1, y2}
    MaxVersion = 2
    MaxKey = 2
    MaxCalls = 2
    Null = Null
    g1 = g1
    g2 = g2
    i1 = i1
    i2 = i2
    o1 = o1
    o2 = o2
    a = a
    b = b
    c = c
    Groups = {g1, g2}
    CloseIntents = {i1, i2}
    Operations = {o1, o2}
    Versions = {1, 2}
    Receipts = {a, b, c}
    Requests <- MCRequests
    Workers = {w1, w2}
    Year = 1
    MaxTime = 2
    Forged = Forged
    NoGroup = NoGroup
    NoRow = NoRow
    NoReceipt = NoReceipt
    NoRequest = NoRequest
    NoAnswer = NoAnswer
    b1 = b1
    b2 = b2
    Bindings = {b1, b2}
    Unprepared = Unprepared
    KeyWirings <- MCKeyWirings
    ReceiptWirings <- MCReceiptWirings
    Facts <- MCFacts
    FirstYear = 2020
    LastYear = 2106
    UnitsPerDay = 8
    TokyoOffset = 3
    Starts <- MCStarts
    Span = 8800
SYMMETRY Symmetry
SPECIFICATION PartSpec
INVARIANTS
    EveryVersionHasOneOperation
    AnswersHold
    DeletedTogether
    EvidenceIsWhole
    CalendarsAgree
PROPERTIES
    ImplementsGroupOperations
    NoEarlyReuse
CHECK_DEADLOCK FALSE
