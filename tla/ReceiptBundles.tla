--------------------------- MODULE ReceiptBundles ---------------------------
(***************************************************************************)
(* A receipt, the expenses of its bundles and expenses typed in by hand,   *)
(* with the settlement cases that select them.                             *)
(*                                                                         *)
(* The three aggregates are separate classes and nothing under src/ calls  *)
(* them together yet.  The contracts of docs/domain say how a caller has   *)
(* to: it reads the receipt, the expenses and the cases at one point,      *)
(* applies the method of the receipt and the reflecting method of every    *)
(* affected expense, and saves all of the results or none.  An action here *)
(* is such a joint step.  The caller of a correction offers the facts of   *)
(* any bundles; the receipt says which ones it wants.                      *)
(***************************************************************************)
EXTENDS Receipt, GroupExpense

CONSTANTS
    Candidates,         \* drafts as they are read from a receipt
    Reviews,            \* what an uploader can confirm: amounts and adjustments
    Amounts,            \* what an item, or the size of an adjustment, is corrected to
    Splits,             \* percentages of the participants
    Actors,             \* subjects, the uploader among them
    Owner,              \* the current owner of the group
    Paired,             \* the expenses that a bundle can be given; the others are typed in
    Lifecycles          \* bound: the lifecycles of a case that are looked at

ASSUME BundlesAssumption ==
    /\ Uploader \in Actors /\ Owner \in Actors
    /\ Paired \subseteq Expenses
    /\ \A candidate \in Candidates : candidate.status = "Draft"
    /\ \A r \in Reviews :
           /\ r.amounts \in Seq(Int)
           /\ r.adjustments \in Seq([kind: Kind, amount: Int, target: Nat])
    /\ Amounts \subseteq Int

VARIABLES
    expenses,           \* the expenses that are registered
    cases,              \* the last case that selected an expense
    revisions           \* what the last snapshot revision of that case says of the expense

vars == <<receiptVars, expenses, cases, revisions>>

Lifecycle == {"AwaitingApproval", "Rejected", "PaymentActive", "CancellationPending",
              "Archived", "Withdrawn", "Cancelled"}

Facts(e) == [total |-> e.total, payer |-> e.payer, percentages |-> e.percentages,
             burdens |-> e.burdens]

ReceiptBundlesTypeOK ==
    /\ ReceiptTypeOK
    /\ DOMAIN expenses \subseteq Expenses
    /\ \A e \in DOMAIN expenses :
           /\ expenses[e].id = e
           /\ expenses[e].group \in Groups
           /\ IsTotal(expenses[e].total)
           /\ CanSplit(expenses[e].percentages, expenses[e].payer)
           /\ expenses[e].version \in 1 .. MaxExpenseVersion + 1
           /\ expenses[e].history \in [History -> SUBSET (2 .. MaxExpenseVersion + 1)]
    /\ DOMAIN cases \subseteq DOMAIN expenses
    /\ \A e \in DOMAIN cases :
           cases[e] \in [lifecycle: Lifecycle, allTargetsReleased: BOOLEAN]
    /\ DOMAIN revisions = DOMAIN cases

ReceiptBundlesInit ==
    /\ \E candidate \in Candidates : CreateDraft(candidate)
    /\ expenses = None
    /\ cases = None
    /\ revisions = None

With(f, x, value) == [y \in DOMAIN f \cup {x} |-> IF y = x THEN value ELSE f[y]]

-----------------------------------------------------------------------------
(* Steps of the receipt alone *)

Edit(actor) ==
    /\ \E candidate \in Candidates : EditDraft(actor, candidate)
    /\ UNCHANGED <<expenses, cases, revisions>>

Review(actor) ==
    /\ \E r \in Reviews, total \in 0 .. MaxTotal, category \in Categories :
           Confirm(actor, total, r.amounts, [n \in DOMAIN r.amounts |-> category], r.adjustments)
    /\ UNCHANGED <<expenses, cases, revisions>>

CaseFact(b) ==
    LET e == receipt.bundles[b].expense
    IN  IF e \in DOMAIN cases THEN cases[e].lifecycle ELSE "None"

Recategorise(actor) ==
    /\ IsConfirmed
    /\ \E b \in BundlesOf(receipt), group \in Groups, category \in Categories :
           \E item \in receipt.bundles[b].items :
               CorrectItemCategory(actor, Owner, group, item, category, CaseFact(b))
    /\ UNCHANGED <<expenses, cases, revisions>>

-----------------------------------------------------------------------------
(* Steps of an expense, and of expenses with the receipt *)

\* An expense without a receipt.
EnterExpense(actor) ==
    /\ \E e \in Expenses \ (Paired \cup DOMAIN expenses), group \in Groups,
          total \in Amounts, percentages \in Splits :
           \E payer \in DOMAIN percentages :
               /\ CanRegister(total, payer, percentages)
               /\ expenses' = With(expenses, e,
                      Registered(e, group, actor, total, payer, percentages))
    /\ UNCHANGED <<receiptVars, cases, revisions>>

CorrectAmount(actor) ==
    /\ \E e \in DOMAIN cases \ Paired, amount \in Amounts :
           /\ CanCorrectAmount(expenses[e], actor, Owner, cases[e], amount)
           /\ expenses' = [expenses EXCEPT ![e] = AmountCorrected(@, amount)]
    /\ UNCHANGED <<receiptVars, cases, revisions>>

Bundle_(actor) ==
    /\ IsConfirmed
    /\ \E b \in Bundles, items \in SUBSET DOMAIN receipt.amounts, group \in Groups,
          e \in Paired \ DOMAIN expenses, percentages \in Splits :
           \E payer \in DOMAIN percentages :
               LET total == AmountOf(receipt, items)
                   expense == Registered(e, group, actor, total, payer, percentages)
               IN  /\ CanRegister(total, payer, percentages)
                   /\ RegisterBundle(actor, b, items, expense)
                   /\ expenses' = With(expenses, e, expense)
    /\ UNCHANGED <<cases, revisions>>

ExpenseOf(b) == receipt.bundles[b].expense

ChangeSplit(actor) ==
    /\ IsConfirmed
    /\ \E b \in BundlesOf(receipt), percentages \in Splits :
           \E payer \in DOMAIN percentages :
               LET fact == BundleEditingFacts(receipt, version, b)
               IN  /\ IsEditable(actor, b)
                   /\ CanChangeSplit(expenses[ExpenseOf(b)], fact, actor, payer, percentages)
                   /\ expenses' = [expenses EXCEPT ![ExpenseOf(b)] =
                                      SplitChanged(@, payer, percentages)]
    /\ UNCHANGED <<receiptVars, cases, revisions>>

\* Both expenses are told what the receipt said before and says after the movement.
Move(actor) ==
    /\ IsConfirmed
    /\ \E from, to \in BundlesOf(receipt) : \E items \in SUBSET receipt.bundles[from].items :
           /\ MoveBundleItems(actor, from, to, items)
           /\ \A b \in {from, to} :
                  CanReflectMovement(expenses[ExpenseOf(b)],
                                     BundleEditingFacts(receipt, version, b),
                                     BundleEditingFacts(receipt', version', b), actor)
           /\ expenses' =
                  [expenses EXCEPT
                      ![ExpenseOf(from)] =
                          MovementReflected(@, BundleEditingFacts(receipt', version', from)),
                      ![ExpenseOf(to)] =
                          MovementReflected(@, BundleEditingFacts(receipt', version', to))]
    /\ UNCHANGED <<cases, revisions>>

\* The expenses of the bundles whose facts the receipt has wanted.
Affected(c) == {c.before.bundles[b].expense : b \in DOMAIN c.cases}

AllReflect(c) == \A e \in Affected(c) : CanReflectCorrection(expenses[e], c)

Reflect(c) ==
    IF c.after = c.before THEN UNCHANGED expenses
    ELSE /\ AllReflect(c)
         /\ expenses' = [e \in DOMAIN expenses |->
                            IF e \in Affected(c) THEN CorrectionReflected(expenses[e], c)
                            ELSE expenses[e]]

\* At the last version only a correction that changes nothing is accepted, which is
\* a stuttering step.
CorrectItem ==
    /\ IsConfirmed /\ CanAdvance
    /\ \E item \in DOMAIN receipt.amounts, amount \in Amounts :
           /\ CanCalculate([receipt.amounts EXCEPT ![item] = amount], receipt.adjustments)
           /\ LET after == WithItemAmount(item, amount)
              IN  \E actor \in Actors, group \in Groups, bundles \in SUBSET BundlesOf(receipt) :
                      LET c == ItemAmountCorrected(actor, Owner, group, item, after,
                                                   [b \in bundles |-> CaseFact(b)])
                      IN  CorrectItemAmount(c) /\ Reflect(c)
    /\ UNCHANGED <<cases, revisions>>

CorrectAdjustment ==
    /\ IsConfirmed /\ CanAdvance
    /\ \E k \in DOMAIN receipt.adjustments, size \in Amounts, sign \in {-1, 1} :
           /\ CanCalculate(receipt.amounts, [receipt.adjustments EXCEPT ![k].amount = sign * size])
           /\ LET after == WithAdjustmentAmount(k, sign * size)
              IN  \E actor \in Actors, group \in Groups, bundles \in SUBSET BundlesOf(receipt) :
                      LET c == AdjustmentAmountCorrected(actor, Owner, group, k, after,
                                                         [b \in bundles |-> CaseFact(b)])
                      IN  CorrectAdjustmentAmount(c) /\ Reflect(c)
    /\ UNCHANGED <<cases, revisions>>

-----------------------------------------------------------------------------
(* Settlement cases: what module SettlementCase does to the lifecycle, for  *)
(* one expense.                                                             *)

IsFree(e) == e \in DOMAIN cases => cases[e].allTargetsReleased

\* A case selects the expense as it is; a receipt learns of the first selection.
Select(e, snapshot) ==
    /\ e \in DOMAIN expenses
    /\ IsFree(e)
    /\ cases' = With(cases, e, [lifecycle |-> "AwaitingApproval", allTargetsReleased |-> FALSE])
    /\ revisions' = With(revisions, e, Facts(expenses[e]))
    /\ IF e \in Paired /\ e \notin DOMAIN cases
       THEN \E b \in BundlesOf(receipt) :
                RecordBundleSnapshotSelection(b, e, expenses[e].group, snapshot)
       ELSE UNCHANGED receiptVars
    /\ UNCHANGED expenses

\* The first selection reaches the receipt once more.
SelectAgain(b) ==
    /\ IsConfirmed
    /\ Selected(b)
    /\ \E snapshot \in Snapshots :
           RecordBundleSnapshotSelection(b, ExpenseOf(b), receipt.bundles[b].group, snapshot)
    /\ UNCHANGED <<expenses, cases, revisions>>

Transitions ==
    {<<"AwaitingApproval", "Rejected">>, <<"AwaitingApproval", "PaymentActive">>,
     <<"AwaitingApproval", "Withdrawn">>, <<"Rejected", "Withdrawn">>,
     <<"PaymentActive", "Archived">>, <<"PaymentActive", "CancellationPending">>,
     <<"CancellationPending", "PaymentActive">>, <<"CancellationPending", "Cancelled">>}

StepOfCase(e) ==
    /\ e \in DOMAIN cases
    /\ \E l \in Lifecycle :
           /\ <<cases[e].lifecycle, l>> \in Transitions /\ l \in Lifecycles
           /\ cases' = [cases EXCEPT ![e].lifecycle = l]
    /\ UNCHANGED <<receiptVars, expenses, revisions>>

Resubmit(e) ==
    /\ e \in DOMAIN cases
    /\ cases[e].lifecycle = "Rejected"
    /\ cases' = [cases EXCEPT ![e].lifecycle = "AwaitingApproval"]
    /\ revisions' = [revisions EXCEPT ![e] = Facts(expenses[e])]
    /\ UNCHANGED <<receiptVars, expenses>>

Release(e) ==
    /\ e \in DOMAIN cases
    /\ cases[e].lifecycle \in {"Withdrawn", "Cancelled"}
    /\ cases' = [cases EXCEPT ![e].allTargetsReleased = TRUE]
    /\ UNCHANGED <<receiptVars, expenses, revisions>>

-----------------------------------------------------------------------------
ReceiptBundlesNext ==
    \/ \E actor \in Actors :
           \/ Edit(actor) \/ Review(actor) \/ Recategorise(actor)
           \/ EnterExpense(actor) \/ CorrectAmount(actor)
           \/ Bundle_(actor) \/ ChangeSplit(actor) \/ Move(actor)
    \/ CorrectItem \/ CorrectAdjustment
    \/ \E e \in Expenses :
           \/ \E snapshot \in Snapshots : Select(e, snapshot)
           \/ StepOfCase(e) \/ Resubmit(e) \/ Release(e)
    \/ \E b \in Bundles : SelectAgain(b)

Spec == ReceiptBundlesInit /\ [][ReceiptBundlesNext]_vars

-----------------------------------------------------------------------------
(* Properties *)

\* No item is in two bundles, no bundle is empty, and no two bundles share an
\* expense (registerBundle, moveBundleItems).
BundlesArePartition ==
    IsConfirmed =>
        \A b, c \in BundlesOf(receipt) :
            /\ receipt.bundles[b].items # {}
            /\ b # c => /\ receipt.bundles[b].items \cap receipt.bundles[c].items = {}
                        /\ ExpenseOf(b) # ExpenseOf(c)

\* Whatever is split, moved or corrected, in whichever order, the expense of a
\* bundle has the adjusted amount of the items of the bundle
\* (financialCorrectionCandidate and the reflecting methods).
BundleMatchesExpense ==
    IsConfirmed =>
        \A b \in BundlesOf(receipt) :
            expenses[ExpenseOf(b)].total = AmountOf(receipt, receipt.bundles[b].items)

\* The burdens are those of the present total, payer and percentages, whichever of
\* them has changed last.
BurdensFollowTheSplit ==
    \A e \in DOMAIN expenses :
        expenses[e].burdens
            = Burdens(expenses[e].total, expenses[e].percentages, expenses[e].payer)

\* The five histories of an expense record every version exactly once: each
\* method carries the other four over.
NoHistoryLost ==
    \A e \in DOMAIN expenses :
        /\ UNION {expenses[e].history[h] : h \in History} = 2 .. expenses[e].version
        /\ \A g, h \in History :
               g # h => expenses[e].history[g] \cap expenses[e].history[h] = {}

\* The receipt and the expenses tell one story, after any series of splits, movements,
\* corrections and selections.
BooksAgree ==
    /\ ReceiptBundlesTypeOK
    /\ BundlesArePartition
    /\ BundleMatchesExpense
    /\ BurdensFollowTheSplit
    /\ NoHistoryLost

\* While a case is awaiting approval, being paid or settled, its expenses are
\* what its last revision says.
SettledFactsStand ==
    \A e \in DOMAIN cases :
        cases[e].lifecycle \in {"AwaitingApproval", "PaymentActive", "CancellationPending",
                                "Archived"}
            => revisions[e] = Facts(expenses[e])

\* The expenses go along with a correction, where it changes something.
IsReflected(c) ==
    c.after = receipt \/
    \A e \in Affected(c) :
        expenses[e].version >= MaxExpenseVersion \/ CanReflectCorrection(expenses[e], c)

\* A correction of an item or of an adjustment that the receipt accepts, whoever makes it and
\* whatever cases it is told of, is accepted by every expense it affects, unless an expense is at
\* its last version: the two classes check the same facts.
ReflectionIsNeverRefused ==
    (IsConfirmed /\ version < MaxVersion) =>
        /\ \A item \in DOMAIN receipt.amounts, amount \in Amounts :
               CanCalculate([receipt.amounts EXCEPT ![item] = amount], receipt.adjustments) =>
               LET after == WithItemAmount(item, amount)
               IN  \A actor \in Actors, group \in Groups, bundles \in SUBSET BundlesOf(receipt) :
                       LET c == ItemAmountCorrected(actor, Owner, group, item, after,
                                                    [b \in bundles |-> CaseFact(b)])
                       IN  CanCorrectItemAmount(c) => IsReflected(c)
        /\ \A k \in DOMAIN receipt.adjustments, size \in Amounts, sign \in {-1, 1} :
               CanCalculate(receipt.amounts, [receipt.adjustments EXCEPT ![k].amount = sign * size]) =>
               LET after == WithAdjustmentAmount(k, sign * size)
               IN  \A actor \in Actors, group \in Groups, bundles \in SUBSET BundlesOf(receipt) :
                       LET c == AdjustmentAmountCorrected(actor, Owner, group, k, after,
                                                          [b \in bundles |-> CaseFact(b)])
                       IN  CanCorrectAdjustmentAmount(c) => IsReflected(c)
=============================================================================
