\* Two of everybody; the smallest instances in which each waits for the other.
CONSTANTS
    Two = {w1, w2}
    w1 = w1
    o1 = o1
    o2 = o2
    g1 = g1
    p1 = p1
    p2 = p2
    a1 = a1
    a2 = a2
    k1 = k1
    k2 = k2
    Null = Null
    NoRegistryRow = NoRegistryRow
    NoReceipt = NoReceipt
    NoAnswer = NoAnswer
    Forged = Forged
    Erase = Erase
    Global = Global
SPECIFICATION ProgressSpec
PROPERTIES
    TransactionsEnd
    RetriesEnd
    BusyEnds
CHECK_DEADLOCK FALSE
