------------------------------- MODULE Receipt -------------------------------
(***************************************************************************)
(* A receipt: a draft of what was read from it, its manual confirmation,   *)
(* the bundles of its items that became expenses, and the corrections of   *)
(* its items and adjustments                                               *)
(* (apps/api/src/expense-recording/domain/receipt.ts).                     *)
(*                                                                         *)
(* Items are the positions of the receipt.  Names, reasons and dates are   *)
(* left out, and an expected version is the one that the caller has just   *)
(* read.  The changes a receipt carries are one for each version after the *)
(* first.                                                                  *)
(***************************************************************************)
EXTENDS ReceiptAdjustment

CONSTANTS
    MaxVersion,         \* MAX_SAFE_INTEGER
    Bundles, Expenses, Groups,      \* references
    Uploader,           \* the subject that uploaded the receipt
    Categories,         \* references of categories
    Snapshots           \* what can select a bundle: a case with its first snapshot

ASSUME MaxVersionAssumption == MaxVersion \in Nat \ {0}

VARIABLES
    receipt,            \* the current facts
    version

receiptVars == <<receipt, version>>

Adjustment == [kind: Kind, amount: -MaxAmount .. MaxAmount, target: Nat]

Bundle == [items: SUBSET (Nat \ {0}), expense: Expenses, group: Groups]

\* Candidates are unchecked; the facts of a confirmed receipt are checked ones.
ReceiptTypeOK ==
    /\ receipt.status \in {"Draft", "Confirmed"}
    /\ receipt.status = "Confirmed" =>
           /\ IsAmount(receipt.declaredTotal)
           /\ \A n \in DOMAIN receipt.amounts :
                  /\ IsAmount(receipt.amounts[n])
                  /\ IsAmount(receipt.adjusted[n])
                  /\ receipt.categories[n] \in Categories
           /\ \A k \in DOMAIN receipt.adjustments : receipt.adjustments[k] \in Adjustment
           /\ DOMAIN receipt.bundles \subseteq Bundles
           /\ \A b \in DOMAIN receipt.bundles : receipt.bundles[b] \in Bundle
           /\ DOMAIN receipt.selections \subseteq DOMAIN receipt.bundles
           /\ \A b \in DOMAIN receipt.selections : receipt.selections[b] \in Snapshots
    /\ version \in 1 .. MaxVersion

None == [x \in {} |-> x]

IsConfirmed == receipt.status = "Confirmed"

CanAdvance == version + 1 <= MaxVersion

Advance(after) ==
    /\ receipt' = after
    /\ version' = version + 1

\* A change to what is there already returns the same receipt.
AdvanceUnlessSame(after) ==
    \/ after = receipt /\ UNCHANGED receiptVars
    \/ after # receipt /\ CanAdvance /\ Advance(after)

Total(amounts) == SumFunction(amounts)

AmountOf(r, items) == SumFunction([n \in items |-> r.adjusted[n]])

BundlesOf(r) == DOMAIN r.bundles

Selected(b) == b \in DOMAIN receipt.selections

-----------------------------------------------------------------------------
(* Before the confirmation *)

CreateDraft(candidate) ==
    /\ receipt = candidate
    /\ version = 1

EditDraft(actor, candidate) ==
    /\ receipt.status = "Draft"
    /\ actor = Uploader
    /\ AdvanceUnlessSame(candidate)

\* The receipt with these amounts and adjustments, and the total they require.
Calculated(r, amounts, adjustments) ==
    LET adjusted == Adjusted(amounts, adjustments)
    IN  [r EXCEPT !.declaredTotal = Total(adjusted),
                  !.amounts = amounts,
                  !.adjustments = adjustments,
                  !.adjusted = adjusted,
                  !.allocations = Allocations(amounts, adjustments)]

\* A receipt is refused when it declares another total than its adjusted items have.
CanDeclare(declaredTotal, amounts, adjustments) ==
    /\ IsAmount(declaredTotal)
    /\ CanCalculate(amounts, adjustments)
    /\ Total(Adjusted(amounts, adjustments)) = declaredTotal

\* What the uploader has reviewed replaces the draft.
Confirm(actor, declaredTotal, amounts, categories, adjustments) ==
    /\ receipt.status = "Draft"
    /\ actor = Uploader
    /\ CanAdvance
    /\ CanDeclare(declaredTotal, amounts, adjustments)
    /\ Advance([status |-> "Confirmed",
                declaredTotal |-> declaredTotal,
                amounts |-> amounts,
                adjustments |-> adjustments,
                adjusted |-> Adjusted(amounts, adjustments),
                allocations |-> Allocations(amounts, adjustments),
                categories |-> categories,
                bundles |-> None,
                selections |-> None])

-----------------------------------------------------------------------------
(* Bundles *)

\* A bundle of items that no bundle has, paired with a first expense.
RegisterBundle(actor, b, items, expense) ==
    /\ IsConfirmed
    /\ actor = Uploader
    /\ CanAdvance
    /\ b \notin BundlesOf(receipt)
    /\ items # {} /\ items \subseteq DOMAIN receipt.amounts
    /\ \A c \in BundlesOf(receipt) :
           /\ receipt.bundles[c].items \cap items = {}
           /\ receipt.bundles[c].expense # expense.id
           /\ receipt.bundles[c].group = expense.group
    /\ expense.version = 1
    /\ expense.owner = Uploader
    /\ expense.total = AmountOf(receipt, items)
    /\ Advance([receipt EXCEPT !.bundles =
                   [c \in BundlesOf(receipt) \cup {b} |->
                       IF c = b THEN [items |-> items, expense |-> expense.id,
                                      group |-> expense.group]
                       ELSE receipt.bundles[c]]])

\* Mutant: a bundle stays editable.
IsRegistered(actor, b) == IsConfirmed /\ actor = Uploader /\ b \in BundlesOf(receipt)

\* Items, payer and percentages of a bundle can be edited until it is first selected.
IsEditable(actor, b) ==
    /\ IsConfirmed
    /\ actor = Uploader
    /\ b \in BundlesOf(receipt)
    /\ ~ Selected(b)

\* bundleEditingFacts: what an expense is told of its bundle.
BundleEditingFacts(r, v, b) ==
    [bundle |-> b, expense |-> r.bundles[b].expense, group |-> r.bundles[b].group,
     receiptVersion |-> v, uploader |-> Uploader, amount |-> AmountOf(r, r.bundles[b].items)]

MoveBundleItems(actor, from, to, items) ==
    /\ IsEditable(actor, from) /\ IsEditable(actor, to)
    /\ from # to
    /\ CanAdvance
    /\ items # {} /\ items \subseteq receipt.bundles[from].items
    /\ items # receipt.bundles[from].items
    /\ Advance([receipt EXCEPT !.bundles[from].items = @ \ items,
                               !.bundles[to].items = @ \cup items])

\* A settlement has selected the expense of the bundle for the first time.
RecordBundleSnapshotSelection(b, expense, group, snapshot) ==
    /\ IsConfirmed
    /\ b \in BundlesOf(receipt)
    /\ receipt.bundles[b].expense = expense
    /\ receipt.bundles[b].group = group
    /\ Selected(b) => receipt.selections[b] = snapshot
    /\ AdvanceUnlessSame(
           [receipt EXCEPT !.selections =
               [c \in DOMAIN receipt.selections \cup {b} |->
                   IF c = b THEN snapshot ELSE receipt.selections[c]]])

-----------------------------------------------------------------------------
(* Corrections.  cases[b] is the lifecycle of the case that is about the    *)
(* expense of b, or "None"; the caller reads it when it corrects.           *)

IsCorrector(actor, owner) == actor \in {Uploader, owner}

\* A selected bundle can be corrected only while its case is rejected.
CaseAllows(b, lifecycle) ==
    IF Selected(b) THEN lifecycle = "Rejected" ELSE lifecycle = "None"

CorrectItemCategory(actor, owner, group, item, category, lifecycle) ==
    /\ IsConfirmed
    /\ IsCorrector(actor, owner)
    /\ item \in DOMAIN receipt.amounts
    /\ \E b \in BundlesOf(receipt) :
           /\ item \in receipt.bundles[b].items
           /\ group = receipt.bundles[b].group
           /\ CaseAllows(b, lifecycle)
    /\ AdvanceUnlessSame([receipt EXCEPT !.categories[item] = category])

\* Mutant: only the items whose own amount changes are affected.
DirectlyAffectedItems(included, after) ==
    included \cup {n \in DOMAIN receipt.amounts : after.amounts[n] # receipt.amounts[n]}

\* The items of which any figure changes.
AffectedItems(included, after) ==
    included \cup
    {n \in DOMAIN receipt.amounts :
        \/ after.amounts[n] # receipt.amounts[n]
        \/ after.adjusted[n] # receipt.adjusted[n]
        \/ \E k \in DOMAIN receipt.allocations :
               after.allocations[k][n] # receipt.allocations[k][n]}

AffectedBundles(items) ==
    {b \in BundlesOf(receipt) : receipt.bundles[b].items \cap items # {}}

\* financialCorrectionCandidate: the caller has to give the case of every affected
\* bundle and no other, and each of them has to allow the correction.
CanCorrect(group, after, included, cases) ==
    LET affected == AffectedBundles(AffectedItems(included, after))
    IN  /\ affected # {}
        /\ DOMAIN cases = affected
        /\ \A b \in affected :
               /\ receipt.bundles[b].group = group
               /\ CaseAllows(b, cases[b])
        /\ CanDeclare(after.declaredTotal, after.amounts, after.adjustments)

\* What a correction says to the expenses it affects.
ItemAmountCorrected(actor, owner, group, item, after, cases) ==
    [action |-> "ItemAmountCorrected", actor |-> actor, owner |-> owner, group |-> group,
     item |-> item, cases |-> cases, previousVersion |-> version, version |-> version + 1,
     before |-> receipt, after |-> after]

WithItemAmount(item, amount) ==
    Calculated(receipt, [receipt.amounts EXCEPT ![item] = amount], receipt.adjustments)

CanCorrectItemAmount(c) ==
    /\ IsConfirmed
    /\ IsCorrector(c.actor, c.owner)
    /\ \E b \in BundlesOf(receipt) :
           c.item \in receipt.bundles[b].items /\ c.group = receipt.bundles[b].group
    /\ CanCorrect(c.group, c.after, {c.item}, c.cases)

CorrectItemAmount(c) == CanCorrectItemAmount(c) /\ AdvanceUnlessSame(c.after)

\* The items a correction by the same amount would be about.
Footprint(k, amount) ==
    {n \in DOMAIN receipt.amounts :
        amount = receipt.adjustments[k].amount /\ receipt.allocations[k][n] # 0}

AdjustmentAmountCorrected(actor, owner, group, k, after, cases) ==
    [action |-> "AdjustmentAmountCorrected", actor |-> actor, owner |-> owner, group |-> group,
     adjustment |-> k, cases |-> cases, previousVersion |-> version, version |-> version + 1,
     before |-> receipt, after |-> after]

WithAdjustmentAmount(k, amount) ==
    Calculated(receipt, receipt.amounts, [receipt.adjustments EXCEPT ![k].amount = amount])

CanCorrectAdjustmentAmount(c) ==
    /\ IsConfirmed
    /\ IsCorrector(c.actor, c.owner)
    /\ c.adjustment \in DOMAIN receipt.adjustments
    /\ CanCorrect(c.group, c.after,
                  Footprint(c.adjustment, c.after.adjustments[c.adjustment].amount), c.cases)

CorrectAdjustmentAmount(c) == CanCorrectAdjustmentAmount(c) /\ AdvanceUnlessSame(c.after)

-----------------------------------------------------------------------------
=============================================================================
