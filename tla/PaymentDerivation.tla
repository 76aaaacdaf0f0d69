------------------------- MODULE PaymentDerivation -------------------------
(***************************************************************************)
(* The search for the fewest payments that level balances                  *)
(* (derivePaymentInstructionCandidates in                                  *)
(* apps/api/src/settlement/domain/payment-instruction-derivation.ts).      *)
(*                                                                         *)
(* Balances are sequences of [id, joinOrder, amount]; who owes has a       *)
(* negative amount.  The memo of the search changes its cost alone and is  *)
(* left out.                                                               *)
(***************************************************************************)
EXTENDS Integers, Sequences, FiniteSets, SequencesExt

\* What the function refuses.
CanDerive(balances) ==
    /\ \A i, j \in DOMAIN balances :
           i # j => /\ balances[i].id # balances[j].id
                    /\ balances[i].joinOrder # balances[j].joinOrder
    /\ FoldLeft(LAMBDA sum, b : sum + b.amount, 0, balances) = 0

Ordered(balances) == SortSeq(balances, LAMBDA b, c : b.joinOrder < c.joinOrder)

CompareEdge(e, f) ==
    \/ e.payer < f.payer
    \/ e.payer = f.payer /\ e.payee < f.payee

\* Mutant: of equally many payments the ones found first stay.
ByLength(left, right) == Len(left) < Len(right)

\* The candidate left is preferred: it is shorter, or earlier by payers and payees.
CompareCandidates(left, right) ==
    \/ Len(left) < Len(right)
    \/ /\ Len(left) = Len(right)
       /\ \E i \in DOMAIN left :
              /\ CompareEdge(left[i], right[i])
              /\ \A j \in 1 .. i - 1 :
                     ~ CompareEdge(left[j], right[j]) /\ ~ CompareEdge(right[j], left[j])

SettledAmount(debt, credit) == IF debt < credit THEN debt ELSE credit

\* Every payer and payee whom one payment can bring nearer to zero, in the order of the loops.
Pairs(remaining) ==
    SetToSortSeq({p \in [payer: DOMAIN remaining, payee: DOMAIN remaining] :
                      remaining[p.payer] < 0 /\ remaining[p.payee] > 0},
                 CompareEdge)

Solve[remaining \in Seq(Int)] ==
    LET amount(p) == SettledAmount(-remaining[p.payer], remaining[p.payee])
        after(p) == [remaining EXCEPT ![p.payer] = @ + amount(p),
                                      ![p.payee] = @ - amount(p)]
        edge(p) == [payer |-> p.payer, payee |-> p.payee, amount |-> amount(p)]
        candidate(p) == SortSeq(<<edge(p)>> \o Solve[after(p)], CompareEdge)
        better(best, p) ==
            LET c == candidate(p)
            IN  IF best = <<>> \/ CompareCandidates(c, best) THEN c ELSE best
    IN  FoldLeft(better, <<>>, Pairs(remaining))

\* The payments, by participants.
DerivePaymentInstructionCandidates(balances) ==
    LET ordered == Ordered(balances)
        edges == Solve[[i \in DOMAIN ordered |-> ordered[i].amount]]
    IN  [i \in DOMAIN edges |->
            [payer |-> ordered[edges[i].payer].id,
             payee |-> ordered[edges[i].payee].id,
             amount |-> edges[i].amount]]
=============================================================================
