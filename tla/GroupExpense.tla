---------------------------- MODULE GroupExpense ----------------------------
(***************************************************************************)
(* One expense of a group                                                  *)
(* (apps/api/src/expense-recording/domain/group-expense.ts).               *)
(*                                                                         *)
(* The class is immutable: every method returns a new expense or throws.   *)
(* An operator Can... is the conjunction of the checks of a method, the    *)
(* operator after it the expense the method returns.  Of the five          *)
(* histories an expense carries only the versions they record are kept.    *)
(* Texts, dates and the shape of references are left out, and an expected  *)
(* version is the one that the caller has just read.                       *)
(***************************************************************************)
EXTENDS Integers, Sequences, FiniteSets, Functions

CONSTANTS
    MaxTotal,           \* MAX_SAFE_INTEGER
    MaxParticipants,    \* 4 in the code
    MaxExpenseVersion   \* MAX_SAFE_INTEGER

ASSUME ExpenseAssumption ==
    MaxTotal \in Nat /\ MaxParticipants \in Nat /\ MaxExpenseVersion \in Nat \ {0}

-----------------------------------------------------------------------------
(* The split of a total: percentages in steps of ten, participants by       *)
(* their join orders, which the code requires to differ.                    *)

Percentage == {10 * n : n \in 0 .. 10}

\* The percentages and the payer that register accepts.
CanSplit(percentages, payer) ==
    /\ Cardinality(DOMAIN percentages) \in 1 .. MaxParticipants
    /\ \A p \in DOMAIN percentages : percentages[p] \in Percentage
    /\ SumFunction(percentages) = 100
    /\ payer \in DOMAIN percentages

IsTotal(total) == total \in 0 .. MaxTotal

Quota(total, percentages, p) == (total * percentages[p]) \div 100

Fraction(total, percentages, p) == (total * percentages[p]) % 100

\* Mutant: two participants with one remainder are both served before each other.
NobodyPreferred(total, percentages, payer, p, q) ==
    Fraction(total, percentages, p) >= Fraction(total, percentages, q)

\* The order of the largest remainders: of equal ones the payer's first, then by join order.
Precedes(total, percentages, payer, p, q) ==
    \/ Fraction(total, percentages, p) > Fraction(total, percentages, q)
    \/ /\ Fraction(total, percentages, p) = Fraction(total, percentages, q)
       /\ \/ p = payer /\ q # payer
          \/ q # payer /\ p < q

Undivided(total, percentages) ==
    total - SumFunction([p \in DOMAIN percentages |-> Quota(total, percentages, p)])

\* What each participant has to bear.
Burdens(total, percentages, payer) ==
    LET undivided == Undivided(total, percentages)
        before(p) == {q \in DOMAIN percentages : Precedes(total, percentages, payer, q, p)}
    IN  [p \in DOMAIN percentages |->
            Quota(total, percentages, p) +
                (IF Cardinality(before(p)) < undivided THEN 1 ELSE 0)]

-----------------------------------------------------------------------------
(* The class *)

History == {"corrections", "bundleSplitChanges", "bundleItemMovements",
            "receiptItemAmountCorrections", "receiptAdjustmentAmountCorrections"}

IsSafe(v) == v \in 1 .. MaxExpenseVersion

\* What register accepts and returns.
CanRegister(total, payer, percentages) ==
    IsTotal(total) /\ CanSplit(percentages, payer)

Registered(id, group, owner, total, payer, percentages) ==
    [id |-> id, group |-> group, owner |-> owner, total |-> total, payer |-> payer,
     percentages |-> percentages,
     burdens |-> Burdens(total, percentages, payer),
     version |-> 1, history |-> [h \in History |-> {}]]

\* The next version of an expense, recorded in one of its histories.
Recorded(e, h) ==
    [e EXCEPT !.version = @ + 1, !.history[h] = @ \cup {e.version + 1}]

WithTotal(e, total) ==
    [e EXCEPT !.total = total, !.burdens = Burdens(total, e.percentages, e.payer)]

-----------------------------------------------------------------------------
(* An amount that was typed in. *)

\* correctAmount does not look at the version it is about to give.
CanCorrectAmount(e, actor, owner, case, amount) ==
    /\ IsSafe(e.version)
    /\ \/ case.lifecycle = "Rejected"
       \/ case.lifecycle \in {"Withdrawn", "Cancelled"} /\ case.allTargetsReleased
    /\ actor \in {e.owner, owner}
    /\ CanRegister(amount, e.payer, e.percentages)

AmountCorrected(e, amount) == Recorded(WithTotal(e, amount), "corrections")

-----------------------------------------------------------------------------
(* An expense that is a bundle of a receipt.  A fact is what the receipt    *)
(* says of the bundle at one of its versions.                               *)

IsCurrentBundleFact(e, fact, actor) ==
    /\ fact.expense = e.id
    /\ fact.group = e.group
    /\ fact.uploader = e.owner
    /\ fact.amount = e.total
    /\ actor = fact.uploader

CanChangeSplit(e, fact, actor, payer, percentages) ==
    /\ IsSafe(e.version)
    /\ IsCurrentBundleFact(e, fact, actor)
    /\ DOMAIN percentages = DOMAIN e.percentages
    /\ CanRegister(e.total, payer, percentages)
    /\ (payer # e.payer \/ percentages # e.percentages) => IsSafe(e.version + 1)

SplitChanged(e, payer, percentages) ==
    IF payer = e.payer /\ percentages = e.percentages THEN e
    ELSE Recorded([e EXCEPT !.payer = payer, !.percentages = percentages,
                            !.burdens = Burdens(e.total, percentages, payer)],
                  "bundleSplitChanges")

CanReflectMovement(e, before, after, actor) ==
    /\ IsSafe(e.version) /\ IsSafe(e.version + 1)
    /\ IsCurrentBundleFact(e, before, actor)
    /\ after.receiptVersion = before.receiptVersion + 1
    /\ after = [before EXCEPT !.receiptVersion = after.receiptVersion, !.amount = after.amount]
    /\ CanRegister(after.amount, e.payer, e.percentages)

MovementReflected(e, after) == Recorded(WithTotal(e, after.amount), "bundleItemMovements")

\* What an item or an adjustment is, apart from the amount that changes.
SameShape(c) ==
    CASE c.action = "ItemAmountCorrected" ->
             c.before.amounts[c.item] # c.after.amounts[c.item]
      [] c.action = "AdjustmentAmountCorrected" ->
             /\ Len(c.before.adjustments) = Len(c.after.adjustments)
             /\ \A k \in DOMAIN c.before.adjustments :
                    LET old == c.before.adjustments[k]
                        new == c.after.adjustments[k]
                    IN  /\ old = [new EXCEPT !.amount = old.amount]
                        /\ (old.amount # new.amount) = (k = c.adjustment)
             /\ c.before.amounts = c.after.amounts
             /\ c.before.categories = c.after.categories

PairAmount(receipt, items) ==
    SumFunction([n \in items |-> receipt.adjusted[n]])

\* The bundles of a receipt that are paired with the expense.
PairOf(e, receipt) == {b \in DOMAIN receipt.bundles : receipt.bundles[b].expense = e.id}

\* Mutant: only the owner of the expense can be the actor.
CanReflectOfSourceOwner(e, c) ==
    /\ IsSafe(e.version) /\ IsSafe(e.version + 1)
    /\ c.actor = e.owner
    /\ PairOf(e, c.before) # {}

\* reflectReceiptFinancialCorrection, for a correction c of the receipt.
CanReflectCorrection(e, c) ==
    /\ IsSafe(e.version) /\ IsSafe(e.version + 1)
    /\ c.version = c.previousVersion + 1
    /\ c.group = e.group
    /\ c.actor \in {e.owner, c.owner}
    /\ SameShape(c)
    /\ \E b \in PairOf(e, c.before) \cap PairOf(e, c.after) :
           /\ c.before.bundles[b] = c.after.bundles[b]
           /\ c.before.bundles[b].group = c.group
           /\ PairAmount(c.before, c.before.bundles[b].items) = e.total
           /\ IsTotal(PairAmount(c.after, c.after.bundles[b].items))
           /\ b \in DOMAIN c.cases
           /\ IF b \in DOMAIN c.before.selections
              THEN c.cases[b] = "Rejected" ELSE c.cases[b] = "None"

CorrectionReflected(e, c) ==
    LET items == c.after.bundles[CHOOSE b \in PairOf(e, c.after) : TRUE].items
    IN  Recorded(WithTotal(e, PairAmount(c.after, items)),
                 IF c.action = "ItemAmountCorrected"
                 THEN "receiptItemAmountCorrections"
                 ELSE "receiptAdjustmentAmountCorrections")
=============================================================================
