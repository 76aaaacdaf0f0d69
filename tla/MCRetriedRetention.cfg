\* A group that was closed, reopened and closed again under another intent.
CONSTANTS
    g1 = g1
    i1 = i1
    i2 = i2
    o1 = o1
    a = a
    Groups = {g1}
    CloseIntents = {i1, i2}
    Operations = {o1}
    Versions = {1}
    Receipts = {a}
    Requests <- MCRequests
    Workers = {w1}
    Year = 1
    MaxTime = 1
    Forged = Forged
    NoGroup = NoGroup
    NoRow = NoRow
    NoReceipt = NoReceipt
    NoRequest = NoRequest
    NoAnswer = NoAnswer
SPECIFICATION RetriedSpec
PROPERTIES
    ArchivedGroupsAreDeleted
