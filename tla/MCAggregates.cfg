\* Three subjects, three memberships and two invitations in a group of at most two: the group is
\* full, a member leaves, a subject returns, the owner changes.  The group is closed, reactivated
\* and closed again with two intents, with receipts of another group, of the other intent, with
\* another cutoff, with fence version 0, and in any order of instants.  With its contexts it is
\* closed, cancelled, closed again and archived, with commands of both contexts running meanwhile.
\* The settlement case: two revisions, three payments, two cancellations and ten versions.  The selection: two
\* expenses of three participants.  The derivation: five balances of at most three.
\* The ids of the two contexts share their values: they never meet.
CONSTANTS
    Subjects = {s1, s2, s3}
    ParticipantIds = {p1, p2, p3}
    InvitationIds = {i1, i2}
    CloseIntentIds = {c1, c2}
    GroupIds = {g1, g2}
    GroupId = g1
    Instants = {0, 1, 2, 3}
    MaxFenceVersion = 2
    MaxActiveParticipants = 2
    InvitationLifetime = 2
    RetentionEnd <- MCRetentionEnd
    MaxSafeInteger = 20
    Participants = {1, 2, 3}
    Contents <- MCContents
    SnapshotIds = {i1, i2}
    InstructionIds = {s1, s2, s3}
    AttemptIds = {p1, p2, p3}
    CancellationIds = {c1, c2}
    MaxVersion = 10
    Null = Null
    NoWithdrawal = NoWithdrawal
    MaxShown = 3
    MaxTotal = 2
    MaxExpenses = 2
    MaxParticipants = 5
    MaxAmount = 3
    Nobody = Nobody
SPECIFICATION PartSpec
SYMMETRY Symmetry
CONSTRAINT Bounds
INVARIANTS
    RestoreAccepts
    MembershipProvenance
    FencesFollowTheGroup
    InstructionsArePaidOnce
    CancellationExcludesPayment
    ContentsSettleExpenses
PROPERTIES
    HistoryIsKept
    FrozenOnceClosing
    CancellationIsIrrevocable
    ImplementsSettlementOutcome
    FirstOfTheFewest
CHECK_DEADLOCK FALSE
