\* A receipt of three items with a discount, two bundles, two participants; an expense by hand.  The
\* spread over three items of at most three yen; the split of at most thirteen yen among four.
CONSTANTS
    MaxTotal = 6
    MaxAmount = 6
    MaxParticipants = 4
    MaxVersion = 6
    MaxExpenseVersion = 4
    Bundles = {b1, b2}
    Expenses = {e1, e2, e3}
    Paired = {e1, e2}
    Groups = {g1}
    Uploader = uploader
    Owner = owner
    Actors = {uploader, owner}
    Categories = {food}
    Snapshots = {s1}
    Candidates <- MCCandidates
    Reviews <- MCReviews
    Amounts <- MCAmounts
    Splits <- MCSplits
    Lifecycles <- MCLifecycles
    MaxItems = 3
    MaxItemAmount = 3
    MaxAdjustment = 4
    MaxSplitTotal = 13
SPECIFICATION PartSpec
SYMMETRY MCSymmetry
CONSTRAINT OneStory
INVARIANTS
    BooksAgree
    SettledFactsStand
    CorrectionsAreReflected
    SpreadIsClosest
    BurdensAreFair
CHECK_DEADLOCK FALSE
