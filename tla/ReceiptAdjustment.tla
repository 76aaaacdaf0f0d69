------------------------- MODULE ReceiptAdjustment -------------------------
(***************************************************************************)
(* The stateless service that spreads the taxes, shipping costs, discounts *)
(* and points of a receipt over its items                                  *)
(* (apps/api/src/expense-recording/domain/receipt-adjustment.ts).          *)
(*                                                                         *)
(* Items are the positions 1..n of the receipt, given by the function of   *)
(* their amounts; the code refuses repeated references, so a position says *)
(* as much as a reference.                                                 *)
(***************************************************************************)
EXTENDS Integers, Sequences, FiniteSets, Functions

CONSTANT MaxAmount      \* MAX_SAFE_INTEGER

ASSUME MaxAmountAssumption == MaxAmount \in Nat

WholeReceipt == 0       \* the target of an adjustment of all items

Kind == {"Tax", "Shipping", "Discount", "Point"}

Size(amount) == IF amount < 0 THEN - amount ELSE amount

IsAmount(amount) == amount \in 0 .. MaxAmount

SignFits(a) == IF a.kind \in {"Tax", "Shipping"} THEN a.amount > 0 ELSE a.amount < 0

\* An adjustment that the items can take.
CanSpread(amounts, a) ==
    /\ a.kind \in Kind
    /\ Size(a.amount) <= MaxAmount
    /\ SignFits(a)
    /\ \/ a.target = WholeReceipt /\ SumFunction(amounts) > 0
       \/ a.target \in DOMAIN amounts

-----------------------------------------------------------------------------
(* Largest remainders; base is the sum of the amounts. *)

Product(amounts, a, n) == Size(a.amount) * amounts[n]

Floor(amounts, base, a, n) == Product(amounts, a, n) \div base

Remainder(amounts, base, a, n) == Product(amounts, a, n) % base

\* Items are served by descending remainder, equal ones in the order of the receipt.
ServedBefore(amounts, base, a, m, n) ==
    \/ Remainder(amounts, base, a, m) > Remainder(amounts, base, a, n)
    \/ Remainder(amounts, base, a, m) = Remainder(amounts, base, a, n) /\ m < n

\* What the floors leave over.
Remaining(amounts, base, a) ==
    Size(a.amount) - SumFunction([n \in DOMAIN amounts |-> Floor(amounts, base, a, n)])

\* Mutant: the first items of the receipt get one more.
FirstServed(amounts, base, a) == 1 .. Remaining(amounts, base, a)

\* The items that get one more; an item of amount 0 is passed over.
Served(amounts, base, a) ==
    LET remaining == Remaining(amounts, base, a)
        paying == {n \in DOMAIN amounts : amounts[n] # 0}
    IN  {n \in paying :
            Cardinality({m \in paying : ServedBefore(amounts, base, a, m, n)}) < remaining}

Spread(amounts, a) ==
    LET base == SumFunction(amounts)
        served == Served(amounts, base, a)
        share == [n \in DOMAIN amounts |->
                     Floor(amounts, base, a, n) + (IF n \in served THEN 1 ELSE 0)]
    IN  IF a.amount < 0 THEN [n \in DOMAIN amounts |-> - share[n]] ELSE share

\* The signed amounts of one adjustment, item by item.
Allocation(amounts, a) ==
    IF a.target = WholeReceipt THEN Spread(amounts, a)
    ELSE [n \in DOMAIN amounts |-> IF a.target = n THEN a.amount ELSE 0]

-----------------------------------------------------------------------------
Allocations(amounts, adjustments) ==
    [k \in DOMAIN adjustments |-> Allocation(amounts, adjustments[k])]

\* Every adjustment is weighted by the original amounts.
Adjusted(amounts, adjustments) ==
    LET allocations == Allocations(amounts, adjustments)
    IN  [n \in DOMAIN amounts |->
            amounts[n] + SumFunction([k \in DOMAIN adjustments |-> allocations[k][n]])]

\* calculate does not throw.
CanCalculate(amounts, adjustments) ==
    /\ \A n \in DOMAIN amounts : IsAmount(amounts[n])
    /\ \A k \in DOMAIN adjustments : CanSpread(amounts, adjustments[k])
    /\ LET adjusted == Adjusted(amounts, adjustments)
       IN  \A n \in DOMAIN amounts : IsAmount(adjusted[n])
=============================================================================
