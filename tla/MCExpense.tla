----------------------------- MODULE MCExpense -----------------------------
(***************************************************************************)
(* A receipt with its expenses and their cases (ReceiptBundles): from the  *)
(* draft, from a receipt whose items are all in two bundles, or without    *)
(* receipts.  By themselves, the spread of an adjustment                   *)
(* (ReceiptAdjustment) and the split of an expense (GroupExpense) for all  *)
(* small inputs.  Every behaviour is one of the part it starts with.       *)
(***************************************************************************)
EXTENDS ReceiptBundles, TLC

CONSTANTS
    MaxItems, MaxItemAmount, MaxAdjustment,     \* bounds of the spread
    MaxSplitTotal                               \* bound of the split

VARIABLES
    part,
    itemAmounts, adjustment,        \* amounts of items, and what is spread over them
    splitTotal, percentages, payer  \* what is split

inputVars == <<itemAmounts, adjustment, splitTotal, percentages, payer>>

Spreading == INSTANCE ReceiptAdjustment WITH MaxAmount <- MaxItems * MaxItemAmount
Splitting == INSTANCE GroupExpense WITH MaxTotal <- MaxSplitTotal

-----------------------------------------------------------------------------
(* The receipts and their expenses.                                        *)

\* Bounds: three items with one discount of the whole receipt, so that every
\* correction reaches every bundle; two items with a tax of one item.
MCReviews ==
    {[amounts |-> <<2, 1, 1>>,
      adjustments |-> <<[kind |-> "Discount", amount |-> -1, target |-> WholeReceipt]>>]}

MCCandidates ==
    {[status |-> "Draft", declaredTotal |-> -1, amounts |-> <<>>, adjustments |-> <<>>]}

MCAmounts == {0, 1, 3}

MCSplits == {<<50, 50>>, <<70, 30>>}

MCLifecycles == Lifecycle

\* A later start: the receipt is confirmed and all of its items are in two bundles.
BundledInit ==
    /\ \E r \in MCReviews, items \in SUBSET {1, 2, 3}, b \in Bundles :
           LET confirmed == [status |-> "Confirmed", declaredTotal |-> 0, amounts |-> <<>>,
                             adjustments |-> <<>>, adjusted |-> <<>>, allocations |-> <<>>,
                             categories |-> [n \in DOMAIN r.amounts |->
                                                CHOOSE c \in Categories : TRUE],
                             bundles |-> None, selections |-> None]
               expense(c) == CHOOSE e \in Paired : (c = b) = (e = CHOOSE d \in Paired : TRUE)
               group == CHOOSE g \in Groups : TRUE
               itemsOf(c) == IF c = b THEN items ELSE DOMAIN r.amounts \ items
               total(c) == AmountOf(Calculated(confirmed, r.amounts, r.adjustments), itemsOf(c))
           IN  /\ items # {} /\ items # DOMAIN r.amounts
               /\ receipt = [Calculated(confirmed, r.amounts, r.adjustments) EXCEPT !.bundles =
                               [c \in Bundles |-> [items |-> itemsOf(c), expense |-> expense(c),
                                                  group |-> group]]]
               /\ expenses = [e \in Paired |->
                                 Registered(e, group, Uploader,
                                            total(CHOOSE c \in Bundles : expense(c) = e),
                                            1, <<70, 30>>)]
    /\ version = 4
    /\ cases = None
    /\ revisions = None

-----------------------------------------------------------------------------
(* The inputs of the pure calculations.                                    *)

\* The kinds of one sign are treated alike: Tax stands for Shipping, Discount for Point.
Adjustments ==
    [kind: {"Tax", "Discount"}, amount: (- MaxAdjustment) .. MaxAdjustment,
     target: {WholeReceipt}]

AnySpread ==
    /\ \E n \in 1 .. MaxItems : itemAmounts \in [1 .. n -> 0 .. MaxItemAmount]
    /\ adjustment \in Adjustments
    /\ Spreading!CanSpread(itemAmounts, adjustment)

NoSpread == itemAmounts = <<>> /\ adjustment = None

AnySplit ==
    /\ splitTotal \in 0 .. MaxSplitTotal
    /\ \E n \in 1 .. MaxParticipants : percentages \in [1 .. n -> Percentage]
    /\ payer \in DOMAIN percentages
    /\ Splitting!CanSplit(percentages, payer)

NoSplit == splitTotal = 0 /\ percentages = <<>> /\ payer = 0

PartInit ==
    /\ part \in {"draft", "bundled", "hand", "spread", "split"}
    /\ IF part = "bundled" THEN BundledInit ELSE ReceiptBundlesInit
    /\ IF part = "spread" THEN AnySpread ELSE NoSpread
    /\ IF part = "split" THEN AnySplit ELSE NoSplit

PartNext ==
    /\ part \in {"draft", "bundled", "hand"}
    /\ ReceiptBundlesNext
    /\ UNCHANGED <<part, inputVars>>

PartSpec == PartInit /\ [][PartNext]_<<part, vars, inputVars>>

\* Bounds: expenses without a receipt are looked at by themselves; the way from the draft
\* to the bundles without cases; what comes after with one way to be split.
OneStory ==
    /\ part = "hand" => receipt.status = "Draft" /\ version = 1
    /\ part # "hand" =>
           /\ DOMAIN expenses \subseteq Paired
           /\ \A e \in DOMAIN cases :
                  cases[e].lifecycle \in {"AwaitingApproval", "Rejected", "Withdrawn",
                                          "PaymentActive"}
    /\ part = "draft" => version <= 4 /\ cases = None
    /\ part = "bundled" => \A e \in DOMAIN expenses : expenses[e].percentages = <<70, 30>>

MCSymmetry == Permutations(Bundles) \cup Permutations(Paired)

-----------------------------------------------------------------------------
\* A correction of an item or of an adjustment that the receipt accepts, by the uploader or by the
\* group's owner, is accepted by every expense it affects, from the states that are looked at.
CorrectionsAreReflected == (part = "bundled" /\ OneStory) => ReflectionIsNeverRefused

AllocatedTo(n) == Spreading!Allocation(itemAmounts, adjustment)[n]

\* The distance of a spread from the exact shares, times the square of the total.
Deviation(spread) ==
    LET sum == SumFunction(itemAmounts)
        off(n) == spread[n] * sum - Size(adjustment.amount) * itemAmounts[n]
    IN  SumFunction([n \in DOMAIN itemAmounts |-> off(n) * off(n)])

\* An adjustment of the whole receipt is spread to the last yen (the loop over the
\* remainders never runs out of items); items of amount 0 get nothing; no other way
\* to split it into whole yen is closer to the exact shares; and of two equal items
\* the earlier gets the same or one yen more (allocateAdjustment).
SpreadIsClosest ==
    part = "spread" =>
        LET size == Size(adjustment.amount)
            spread == [n \in DOMAIN itemAmounts |-> Size(AllocatedTo(n))]
        IN  /\ SumFunction([n \in DOMAIN itemAmounts |-> AllocatedTo(n)]) = adjustment.amount
            /\ \A n \in DOMAIN itemAmounts : itemAmounts[n] = 0 => spread[n] = 0
            /\ \A other \in [DOMAIN itemAmounts -> 0 .. size] :
                   SumFunction(other) = size => Deviation(spread) <= Deviation(other)
            /\ \A m, n \in DOMAIN itemAmounts :
                   (m < n /\ itemAmounts[m] = itemAmounts[n]) => spread[m] - spread[n] \in {0, 1}

\* The burdens add up to the total; nobody bears a yen of a share of 0 %, or a yen
\* more or less than the exact share; who has a larger share never bears less; and
\* of two with one share the payer, or else who joined earlier, never bears less
\* (GroupExpense.register).
BurdensAreFair ==
    part = "split" =>
        LET burden == Splitting!Burdens(splitTotal, percentages, payer)
        IN  /\ SumFunction(burden) = splitTotal
            /\ \A p \in DOMAIN percentages :
                   /\ percentages[p] = 0 => burden[p] = 0
                   /\ burden[p] * 100 - splitTotal * percentages[p] \in -99 .. 99
            /\ \A p, q \in DOMAIN percentages :
                   \/ percentages[p] > percentages[q]
                   \/ percentages[p] = percentages[q] /\ (p = payer \/ (p < q /\ q # payer))
                   => burden[p] >= burden[q]
=============================================================================
