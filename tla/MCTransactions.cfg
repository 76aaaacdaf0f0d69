\* Three logins of two accounts with two versions of the search key; two workers with four requests
\* about two codes of two actors; four calls of a callback; three connections with five requests.
CONSTANTS
    Logins = {l1, l2, l3}
    Accounts = {p1, p2}
    Actors = {a1, a2, a3}
    a1 = a1
    a2 = a2
    a3 = a3
    o1 = o1
    o2 = o2
    ActorOrder <- MCActorOrder
    OperationOrder <- MCOperationOrder
    MaxVersion = 2
    Null = Null
    Connections = {l1, l2, l3}
    Unset = Null
    Peers = {p1, p2}
    Keys = {k1, k2}
    Global = Global
    PeerLimit = 1
    GlobalLimit = 2
    Window = 2
    Batch = 2
    MaxTime = 2
    MaxRateTime = 2
    MaxRateRequests = 5
    Codes = {p1, p2}
    CodeActors <- MCCodeActors
    CodeOwner = 2
    Operations = {o1, o2}
    Workers = {k1, k2}
    Caller <- MCCaller
    Lifetime = 1
    MaxRequests = 4
    Nobody = Null
    Bodies = {p1, p2}
    MaxCalls = 4
SPECIFICATION PartSpec
SYMMETRY MCSymmetry
CONSTRAINT UsedInOrder
INVARIANTS
    OneActorPerAccount
    LoginsFindTheirActor
    CodesAreSpentOnce
    AnswersHold
    RateHolds
PROPERTIES
    LeaseImplementsPromise
CHECK_DEADLOCK FALSE
