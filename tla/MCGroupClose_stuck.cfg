\* One closing, cancelled when only one of the two issued fence receipts is on record.
SPECIFICATION CloseFairSpec
CONSTANTS
    Subjects = {s1}
    ParticipantIds = {p1}
    InvitationIds = {i1}
    CloseIntentIds = {c1}
    GroupIds = {g1}
    GroupId = g1
    Instants = {0}
    MaxFenceVersion = 2
    MaxActiveParticipants = 4
    InvitationLifetime = 1
    RetentionEnd <- MCRetentionEnd
    MaxSafeInteger = 20
    Null = Null
PROPERTY CancellationCompletes
CHECK_DEADLOCK FALSE
