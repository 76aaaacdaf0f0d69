-------------------------- MODULE SnapshotContent --------------------------
(***************************************************************************)
(* The content of a settlement revision: the balances, the required        *)
(* approvers and the payments that follow from the selected expenses       *)
(* (SettlementSnapshotContent.from in apps/api/src/settlement/domain/      *)
(* value-objects/settlement-snapshot-content.ts).                          *)
(*                                                                         *)
(* An expense is a record [id, groupId, amount, payer, allocations], its   *)
(* allocations a sequence of [participant, joinOrder, percentage, burden]. *)
(* The shape of ids and of integers is left out.                           *)
(***************************************************************************)
EXTENDS PaymentDerivation

Allocations(expense) == ToSet(expense.allocations)

AllAllocations(expenses) == UNION {Allocations(x) : x \in ToSet(expenses)}

\* A participant keeps the join order, and nobody else has it, in all the expenses.
OrdersAgree(expenses) ==
    \A a, b \in AllAllocations(expenses) :
        (a.participant = b.participant) <=> (a.joinOrder = b.joinOrder)

SharesBear(expense) ==
    \A a \in Allocations(expense) :
        /\ a.burden >= 0
        /\ a.percentage = 0 => a.burden = 0

IsWhole(expense) ==
    /\ FoldLeft(LAMBDA sum, a : sum + a.percentage, 0, expense.allocations) = 100
    /\ FoldLeft(LAMBDA sum, a : sum + a.burden, 0, expense.allocations) = expense.amount

IsAllocated(expense) ==
    /\ expense.amount >= 0
    /\ Len(expense.allocations) \in 1 .. 4
    /\ \A i, j \in DOMAIN expense.allocations :
           i # j => /\ expense.allocations[i].participant # expense.allocations[j].participant
                    /\ expense.allocations[i].joinOrder # expense.allocations[j].joinOrder
    /\ \A a \in Allocations(expense) : a.percentage \in {10 * n : n \in 0 .. 10}
    /\ SharesBear(expense)
    /\ IsWhole(expense)
    /\ \E a \in Allocations(expense) : a.participant = expense.payer

\* The selections of expenses that make a content of the group.
CanFix(groupId, expenses) ==
    /\ expenses # <<>>
    /\ \A i, j \in DOMAIN expenses : i # j => expenses[i].id # expenses[j].id
    /\ \A x \in ToSet(expenses) : x.groupId = groupId /\ IsAllocated(x)
    /\ OrdersAgree(expenses)

-----------------------------------------------------------------------------

Paid(expenses, p) ==
    FoldLeft(LAMBDA sum, x : sum + x.amount, 0, SelectSeq(expenses, LAMBDA x : x.payer = p))

Burden(expense, p) ==
    FoldLeft(LAMBDA sum, a : sum + a.burden, 0,
             SelectSeq(expense.allocations, LAMBDA a : a.participant = p))

ByJoinOrder(balances) == SortSeq(balances, LAMBDA b, c : b.joinOrder < c.joinOrder)

\* Everybody an expense names, by join order, with what was paid less what is borne.
Balances(expenses) ==
    LET named == FoldLeft(LAMBDA s, x : s \o x.allocations, <<>>, expenses)
        first == {i \in DOMAIN named :
                     \A j \in 1 .. i - 1 : named[j].participant # named[i].participant}
        balance(a) ==
            [id |-> a.participant,
             joinOrder |-> a.joinOrder,
             amount |-> FoldLeft(LAMBDA sum, x : sum - Burden(x, a.participant),
                                 Paid(expenses, a.participant), expenses)]
        order == SetToSortSeq(first, <)
    IN  ByJoinOrder([i \in DOMAIN order |-> balance(named[order[i]])])

\* Mutant: who has paid and bears nothing need not approve.
SharersApprove(expenses, p) ==
    \E a \in AllAllocations(expenses) : a.participant = p /\ a.percentage > 0

HasToApprove(expenses, p) ==
    \/ \E x \in ToSet(expenses) : x.payer = p
    \/ \E a \in AllAllocations(expenses) : a.participant = p /\ a.percentage > 0

RequiredApproverIds(expenses) ==
    LET approvers == SelectSeq(Balances(expenses), LAMBDA b : HasToApprove(expenses, b.id))
    IN  [i \in DOMAIN approvers |-> approvers[i].id]

ContentFrom(expenses) ==
    [balances |-> Balances(expenses),
     candidates |-> DerivePaymentInstructionCandidates(Balances(expenses)),
     requiredApproverIds |-> RequiredApproverIds(expenses)]
=============================================================================
