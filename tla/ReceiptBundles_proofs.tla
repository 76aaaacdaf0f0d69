------------------------ MODULE ReceiptBundles_proofs ------------------------
(***************************************************************************)
(* Proofs about ReceiptBundles: after any series of steps the receipt and  *)
(* the expenses agree (BooksAgree), and what a running or settled case is  *)
(* about stays what its last revision says (SettledFactsStand), for any    *)
(* receipts, items, adjustments, bundles, expenses and splits.             *)
(*                                                                         *)
(* First what the methods of an expense and of the receipt keep, then one  *)
(* lemma for each action, then the theorems.  What the spread and the      *)
(* split compute is not looked into here: the books agree whatever it is.  *)
(***************************************************************************)
EXTENDS ReceiptBundles, TLAPS

-----------------------------------------------------------------------------
(* The inductive invariant.                                                *)

\* A confirmed receipt with the figures its amounts and adjustments give.
ConfirmedWith(declaredTotal, amounts, adjustments, categories, bundles, selections) ==
    [status |-> "Confirmed", declaredTotal |-> declaredTotal,
     amounts |-> amounts, adjustments |-> adjustments,
     adjusted |-> Adjusted(amounts, adjustments),
     allocations |-> Allocations(amounts, adjustments),
     categories |-> categories, bundles |-> bundles, selections |-> selections]

\* The figures are those it could be confirmed with.
FiguresFit(r) ==
    /\ r = ConfirmedWith(r.declaredTotal, r.amounts, r.adjustments, r.categories, r.bundles,
                         r.selections)
    /\ r.amounts \in Seq(Int)
    /\ r.adjustments \in Seq([kind: Kind, amount: Int, target: Nat])
    /\ CanDeclare(r.declaredTotal, r.amounts, r.adjustments)
    /\ r.categories \in [DOMAIN r.amounts -> Categories]

\* Its bundles hold items it has, and only bundles are selected.
BundlesFit(r) ==
    /\ DOMAIN r.bundles \subseteq Bundles
    /\ \A b \in DOMAIN r.bundles :
           r.bundles[b] \in Bundle /\ r.bundles[b].items \subseteq DOMAIN r.amounts
    /\ DOMAIN r.selections \subseteq DOMAIN r.bundles
    /\ \A b \in DOMAIN r.selections : r.selections[b] \in Snapshots

ReceiptFits ==
    /\ receipt.status = "Draft" \/ (FiguresFit(receipt) /\ BundlesFit(receipt))
    /\ version \in 1 .. MaxVersion

\* An expense in itself.
ExpenseFits(x, e) ==
    /\ x = [id |-> e, group |-> x.group, owner |-> x.owner, total |-> x.total,
            payer |-> x.payer, percentages |-> x.percentages,
            burdens |-> Burdens(x.total, x.percentages, x.payer),
            version |-> x.version, history |-> x.history]
    /\ x.group \in Groups
    /\ CanRegister(x.total, x.payer, x.percentages)
    /\ x.version \in 1 .. MaxExpenseVersion + 1
    /\ x.history \in [History -> SUBSET (2 .. MaxExpenseVersion + 1)]
    /\ UNION {x.history[h] : h \in History} = 2 .. x.version
    /\ \A g, h \in History : g # h => x.history[g] \cap x.history[h] = {}

ExpensesFit ==
    /\ DOMAIN expenses \subseteq Expenses
    /\ \A e \in DOMAIN expenses : ExpenseFits(expenses[e], e)

\* The bundles of r, and the expenses x they are paired with.
BooksFit(r, x) ==
    \A b \in DOMAIN r.bundles :
        /\ r.bundles[b].items # {}
        /\ r.bundles[b].expense \in Paired \cap DOMAIN x
        /\ x[r.bundles[b].expense].total = AmountOf(r, r.bundles[b].items)
        /\ \A c \in DOMAIN r.bundles :
               b # c => /\ r.bundles[b].items \cap r.bundles[c].items = {}
                        /\ r.bundles[b].expense # r.bundles[c].expense

CasesFit ==
    /\ DOMAIN cases \subseteq DOMAIN expenses
    /\ \A e \in DOMAIN cases : cases[e] \in [lifecycle: Lifecycle, allTargetsReleased: BOOLEAN]
    /\ DOMAIN revisions = DOMAIN cases

\* The receipt knows of every case about one of its bundles.
SelectionsFit(r, known) ==
    \A e \in known \cap Paired :
        r.status = "Confirmed" /\ \E b \in DOMAIN r.selections : r.bundles[b].expense = e

IInv ==
    /\ ReceiptFits
    /\ ExpensesFit
    /\ IsConfirmed => BooksFit(receipt, expenses)
    /\ CasesFit
    /\ SelectionsFit(receipt, DOMAIN cases)
    /\ SettledFactsStand

-----------------------------------------------------------------------------
(* What the methods of an expense keep.                                    *)

\* One more version in one history: they still hold each version once.
LEMMA RecordedOnce ==
    ASSUME NEW v \in 1 .. MaxExpenseVersion, NEW h \in History, NEW old, NEW new,
           old \in [History -> SUBSET (2 .. MaxExpenseVersion + 1)],
           UNION {old[g] : g \in History} = 2 .. v,
           \A f, g \in History : f # g => old[f] \cap old[g] = {},
           new = [old EXCEPT ![h] = @ \cup {v + 1}]
    PROVE  /\ new \in [History -> SUBSET (2 .. MaxExpenseVersion + 1)]
           /\ UNION {new[g] : g \in History} = 2 .. v + 1
           /\ \A f, g \in History : f # g => new[f] \cap new[g] = {}
<1>1. MaxExpenseVersion \in Nat \ {0}
  BY ExpenseAssumption
<1>2. \A g \in History : new[g] = IF g = h THEN old[g] \cup {v + 1} ELSE old[g]
  OBVIOUS
<1>3. new \in [History -> SUBSET (2 .. MaxExpenseVersion + 1)]
  BY <1>1
<1>4. UNION {new[g] : g \in History} = 2 .. v + 1
  <2>1. ASSUME NEW n \in 2 .. v + 1 PROVE n \in UNION {new[g] : g \in History}
    <3>1. CASE n = v + 1
      BY <1>2, <3>1
    <3>2. CASE n \in 2 .. v
      <4>1. n \in UNION {old[g] : g \in History}
        BY <3>2
      <4>2. PICK g \in History : n \in old[g]
        BY <4>1
      <4>. QED BY <4>2, <1>2
    <3>. QED BY <3>1, <3>2, <2>1
  <2>2. ASSUME NEW n \in UNION {new[g] : g \in History} PROVE n \in 2 .. v + 1
    <3>1. PICK g \in History : n \in new[g]
      BY <2>2
    <3>2. CASE n \in old[g]
      <4>1. n \in 2 .. v
        BY <3>2
      <4>. QED BY <4>1
    <3>3. CASE n = v + 1
      BY <3>3
    <3>. QED BY <3>1, <3>2, <3>3, <1>2
  <2>. QED BY <2>1, <2>2
<1>5. \A g \in History : v + 1 \notin old[g]
  <2>1. ASSUME NEW g \in History, v + 1 \in old[g] PROVE FALSE
    <3>1. v + 1 \in 2 .. v
      BY <2>1
    <3>. QED BY <3>1
  <2>. QED BY <2>1
<1>6. \A f, g \in History : f # g => new[f] \cap new[g] = {}
  BY <1>2, <1>5
<1>. QED BY <1>3, <1>4, <1>6

\* A new expense.
LEMMA RegisteredFits ==
    ASSUME NEW e, NEW group \in Groups, NEW owner, NEW total, NEW payer, NEW percentages,
           CanRegister(total, payer, percentages)
    PROVE  LET x == Registered(e, group, owner, total, payer, percentages)
           IN  ExpenseFits(x, e) /\ x.total = total /\ x.id = e /\ x.group = group
<1> DEFINE x == Registered(e, group, owner, total, payer, percentages)
<1>1. x = [id |-> e, group |-> group, owner |-> owner, total |-> total, payer |-> payer,
           percentages |-> percentages, burdens |-> Burdens(total, percentages, payer),
           version |-> 1, history |-> [h \in History |-> {}]]
  BY DEF Registered
<1> HIDE DEF x
<1>2. /\ x.id = e /\ x.group = group /\ x.owner = owner /\ x.total = total /\ x.payer = payer
      /\ x.percentages = percentages /\ x.version = 1 /\ x.history = [h \in History |-> {}]
  BY <1>1
<1>3. UNION {x.history[h] : h \in History} = 2 .. x.version
  BY <1>2
<1>4. x.version \in 1 .. MaxExpenseVersion + 1
  BY <1>2, ExpenseAssumption
<1>5. x = [id |-> e, group |-> x.group, owner |-> x.owner, total |-> x.total,
           payer |-> x.payer, percentages |-> x.percentages,
           burdens |-> Burdens(x.total, x.percentages, x.payer),
           version |-> x.version, history |-> x.history]
  BY <1>1, <1>2
<1>6. /\ x.history \in [History -> SUBSET (2 .. MaxExpenseVersion + 1)]
      /\ \A g, h \in History : g # h => x.history[g] \cap x.history[h] = {}
  BY <1>2
<1>7. ExpenseFits(x, e)
  BY <1>2, <1>3, <1>4, <1>5, <1>6 DEF ExpenseFits
<1>. QED BY <1>2, <1>7 DEF x

\* A record with its next version, after a change of its split or of its total.
LEMMA NextVersionFits ==
    ASSUME NEW x, NEW e, NEW total, NEW payer, NEW percentages, NEW h \in History, NEW y,
           ExpenseFits(x, e), IsSafe(x.version), CanRegister(total, payer, percentages),
           y = [id |-> e, group |-> x.group, owner |-> x.owner, total |-> total,
                payer |-> payer, percentages |-> percentages,
                burdens |-> Burdens(total, percentages, payer),
                version |-> x.version + 1,
                history |-> [x.history EXCEPT ![h] = @ \cup {x.version + 1}]]
    PROVE  ExpenseFits(y, e) /\ y.total = total /\ y.group = x.group
<1>1. /\ y.group = x.group /\ y.owner = x.owner /\ y.total = total /\ y.payer = payer
      /\ y.percentages = percentages /\ y.version = x.version + 1
      /\ y.history = [x.history EXCEPT ![h] = @ \cup {x.version + 1}]
  OBVIOUS
<1>2. /\ y.history \in [History -> SUBSET (2 .. MaxExpenseVersion + 1)]
      /\ UNION {y.history[g] : g \in History} = 2 .. y.version
      /\ \A f, g \in History : f # g => y.history[f] \cap y.history[g] = {}
  <2> DEFINE v == x.version
             old == x.history
             new == y.history
  <2>1. /\ v \in 1 .. MaxExpenseVersion
        /\ old \in [History -> SUBSET (2 .. MaxExpenseVersion + 1)]
        /\ UNION {old[g] : g \in History} = 2 .. v
        /\ \A f, g \in History : f # g => old[f] \cap old[g] = {}
        /\ new = [old EXCEPT ![h] = @ \cup {v + 1}]
    BY <1>1 DEF ExpenseFits, IsSafe
  <2> HIDE DEF v, old, new
  <2>2. /\ new \in [History -> SUBSET (2 .. MaxExpenseVersion + 1)]
        /\ UNION {new[g] : g \in History} = 2 .. v + 1
        /\ \A f, g \in History : f # g => new[f] \cap new[g] = {}
    BY <2>1, RecordedOnce
  <2>3. y.version = v + 1
    BY <1>1 DEF v
  <2>. QED BY <2>2, <2>3 DEF new
<1>3. y.version \in 1 .. MaxExpenseVersion + 1
  BY <1>1, ExpenseAssumption DEF IsSafe
<1>4. y.group \in Groups /\ CanRegister(y.total, y.payer, y.percentages)
  BY <1>1 DEF ExpenseFits
<1>5. y = [id |-> e, group |-> y.group, owner |-> y.owner, total |-> y.total,
           payer |-> y.payer, percentages |-> y.percentages,
           burdens |-> Burdens(y.total, y.percentages, y.payer),
           version |-> y.version, history |-> y.history]
  BY <1>1
<1>. QED BY <1>1, <1>2, <1>3, <1>4, <1>5 DEF ExpenseFits

\* Fields of an expense are replaced one after the other.
LEMMA TotalReplaced ==
    ASSUME NEW a, NEW b, NEW c, NEW d, NEW f, NEW g, NEW h, NEW i, NEW j, NEW x,
           NEW total, NEW burdens,
           x = [id |-> a, group |-> b, owner |-> c, total |-> d, payer |-> f,
                percentages |-> g, burdens |-> h, version |-> i, history |-> j]
    PROVE  [x EXCEPT !.total = total, !.burdens = burdens]
                = [id |-> a, group |-> b, owner |-> c, total |-> total, payer |-> f,
                   percentages |-> g, burdens |-> burdens, version |-> i, history |-> j]
<1> DEFINE y == [x EXCEPT !.total = total]
<1>1. y = [id |-> a, group |-> b, owner |-> c, total |-> total, payer |-> f,
           percentages |-> g, burdens |-> h, version |-> i, history |-> j]
  OBVIOUS
<1> HIDE DEF y
<1>2. [y EXCEPT !.burdens = burdens]
          = [id |-> a, group |-> b, owner |-> c, total |-> total, payer |-> f,
             percentages |-> g, burdens |-> burdens, version |-> i, history |-> j]
  BY <1>1
<1>. QED BY <1>2, Zenon DEF y

LEMMA SplitReplaced ==
    ASSUME NEW a, NEW b, NEW c, NEW d, NEW f, NEW g, NEW h, NEW i, NEW j, NEW x,
           NEW payer, NEW percentages, NEW burdens,
           x = [id |-> a, group |-> b, owner |-> c, total |-> d, payer |-> f,
                percentages |-> g, burdens |-> h, version |-> i, history |-> j]
    PROVE  [x EXCEPT !.payer = payer, !.percentages = percentages, !.burdens = burdens]
                = [id |-> a, group |-> b, owner |-> c, total |-> d, payer |-> payer,
                   percentages |-> percentages, burdens |-> burdens, version |-> i, history |-> j]
<1> DEFINE y == [x EXCEPT !.payer = payer]
           z == [y EXCEPT !.percentages = percentages]
<1>1. y = [id |-> a, group |-> b, owner |-> c, total |-> d, payer |-> payer,
           percentages |-> g, burdens |-> h, version |-> i, history |-> j]
  OBVIOUS
<1> HIDE DEF y
<1>2. z = [id |-> a, group |-> b, owner |-> c, total |-> d, payer |-> payer,
           percentages |-> percentages, burdens |-> h, version |-> i, history |-> j]
  BY <1>1
<1> HIDE DEF z
<1>3. [z EXCEPT !.burdens = burdens]
          = [id |-> a, group |-> b, owner |-> c, total |-> d, payer |-> payer,
             percentages |-> percentages, burdens |-> burdens, version |-> i, history |-> j]
  BY <1>2
<1>. QED BY <1>3, Zenon DEF y, z

LEMMA VersionRecorded ==
    ASSUME NEW a, NEW b, NEW c, NEW d, NEW f, NEW g, NEW h, NEW i, NEW j, NEW x,
           NEW k, NEW new, new = [j EXCEPT ![k] = @ \cup {i + 1}],
           x = [id |-> a, group |-> b, owner |-> c, total |-> d, payer |-> f,
                percentages |-> g, burdens |-> h, version |-> i, history |-> j]
    PROVE  Recorded(x, k)
                = [id |-> a, group |-> b, owner |-> c, total |-> d, payer |-> f,
                   percentages |-> g, burdens |-> h, version |-> i + 1, history |-> new]
<1> DEFINE y == [x EXCEPT !.version = @ + 1]
<1>1. y = [id |-> a, group |-> b, owner |-> c, total |-> d, payer |-> f,
           percentages |-> g, burdens |-> h, version |-> i + 1, history |-> j]
  OBVIOUS
<1>2. x.version = i
  OBVIOUS
<1> HIDE DEF y
<1>3. [y EXCEPT !.history[k] = @ \cup {x.version + 1}]
          = [id |-> a, group |-> b, owner |-> c, total |-> d, payer |-> f,
             percentages |-> g, burdens |-> h, version |-> i + 1, history |-> new]
  BY <1>1, <1>2
<1>. QED BY <1>3, Zenon DEF y, Recorded

\* A new total, recorded in any history (correctAmount and the reflecting methods).
LEMMA NewTotalFits ==
    ASSUME NEW x, NEW e, NEW total, NEW h \in History,
           ExpenseFits(x, e), IsSafe(x.version), CanRegister(total, x.payer, x.percentages)
    PROVE  LET y == Recorded(WithTotal(x, total), h)
           IN  ExpenseFits(y, e) /\ y.total = total /\ y.group = x.group
<1> DEFINE y == Recorded(WithTotal(x, total), h)
           z == WithTotal(x, total)
           burdens == Burdens(total, x.percentages, x.payer)
<1>1. PICK group, owner, before, payer, percentages, old, v, history :
          x = [id |-> e, group |-> group, owner |-> owner, total |-> before, payer |-> payer,
               percentages |-> percentages, burdens |-> old, version |-> v,
               history |-> history]
  BY DEF ExpenseFits
<1>2. /\ x.group = group /\ x.owner = owner /\ x.payer = payer /\ x.version = v
      /\ x.percentages = percentages /\ x.history = history
  BY <1>1
<1>3. z = [x EXCEPT !.total = total, !.burdens = burdens]
  BY DEF WithTotal
<1>4. y = Recorded(z, h)
  OBVIOUS
<1> DEFINE new == [history EXCEPT ![h] = @ \cup {v + 1}]
<1> HIDE DEF y, z, burdens
<1>5. z = [id |-> e, group |-> group, owner |-> owner, total |-> total, payer |-> payer,
           percentages |-> percentages, burdens |-> burdens, version |-> v,
           history |-> history]
  BY <1>1, <1>3, TotalReplaced, Zenon
<1>6. new = [history EXCEPT ![h] = @ \cup {v + 1}]
  OBVIOUS
<1> HIDE DEF new
<1>7. y = [id |-> e, group |-> group, owner |-> owner, total |-> total, payer |-> payer,
           percentages |-> percentages, burdens |-> burdens, version |-> v + 1,
           history |-> new]
  <2>1. Recorded(z, h)
          = [id |-> e, group |-> group, owner |-> owner, total |-> total, payer |-> payer,
           percentages |-> percentages, burdens |-> burdens, version |-> v + 1,
           history |-> new]
    BY <1>5, <1>6, VersionRecorded
  <2>. QED BY <1>4, <2>1
<1>8. y = [id |-> e, group |-> x.group, owner |-> x.owner, total |-> total,
           payer |-> x.payer, percentages |-> x.percentages,
           burdens |-> Burdens(total, x.percentages, x.payer),
           version |-> x.version + 1,
           history |-> [x.history EXCEPT ![h] = @ \cup {x.version + 1}]]
  BY <1>2, <1>7, Zenon DEF burdens, new
<1>9. ExpenseFits(y, e) /\ y.total = total /\ y.group = x.group
  BY <1>8, NextVersionFits
<1>. QED BY <1>9 DEF y

\* Another split of the same total (changeBundleSplit).
LEMMA NewSplitFits ==
    ASSUME NEW x, NEW e, NEW payer, NEW percentages,
           ExpenseFits(x, e), IsSafe(x.version), CanRegister(x.total, payer, percentages)
    PROVE  LET y == SplitChanged(x, payer, percentages)
           IN  ExpenseFits(y, e) /\ y.total = x.total /\ y.group = x.group
<1> DEFINE y == SplitChanged(x, payer, percentages)
           burdens == Burdens(x.total, percentages, payer)
           z == [x EXCEPT !.payer = payer, !.percentages = percentages, !.burdens = burdens]
           h == "bundleSplitChanges"
<1>1. CASE y = x
  BY <1>1
<1>2. CASE y # x
  <2>1. PICK group, owner, total, from, before, old, v, history :
            x = [id |-> e, group |-> group, owner |-> owner, total |-> total, payer |-> from,
                 percentages |-> before, burdens |-> old, version |-> v, history |-> history]
    BY DEF ExpenseFits
  <2>2. /\ x.group = group /\ x.owner = owner /\ x.total = total /\ x.version = v
        /\ x.history = history
    BY <2>1
  <2>3. y = Recorded(z, h)
    BY <1>2 DEF SplitChanged
  <2>4. h \in History
    BY DEF History
  <2>5. z = [x EXCEPT !.payer = payer, !.percentages = percentages, !.burdens = burdens]
    OBVIOUS
  <2> HIDE DEF y, z, h, burdens
  <2>6. z = [id |-> e, group |-> group, owner |-> owner, total |-> total, payer |-> payer,
             percentages |-> percentages, burdens |-> burdens, version |-> v,
             history |-> history]
    BY <2>1, <2>5, SplitReplaced, Zenon
  <2> DEFINE new == [history EXCEPT ![h] = @ \cup {v + 1}]
  <2>7. new = [history EXCEPT ![h] = @ \cup {v + 1}]
    OBVIOUS
  <2> HIDE DEF new
  <2>8. y = [id |-> e, group |-> group, owner |-> owner, total |-> total, payer |-> payer,
             percentages |-> percentages, burdens |-> burdens, version |-> v + 1,
             history |-> new]
    <3>1. Recorded(z, h)
            = [id |-> e, group |-> group, owner |-> owner, total |-> total, payer |-> payer,
               percentages |-> percentages, burdens |-> burdens, version |-> v + 1,
               history |-> new]
      BY <2>6, <2>7, VersionRecorded
    <3>. QED BY <2>3, <3>1
  <2>9. y = [id |-> e, group |-> x.group, owner |-> x.owner, total |-> x.total,
             payer |-> payer, percentages |-> percentages,
             burdens |-> Burdens(x.total, percentages, payer),
             version |-> x.version + 1,
             history |-> [x.history EXCEPT ![h] = @ \cup {x.version + 1}]]
    BY <2>2, <2>8, Zenon DEF burdens, new
  <2>10. ExpenseFits(y, e) /\ y.total = x.total /\ y.group = x.group
    BY <2>4, <2>9, NextVersionFits
  <2>. QED BY <2>10 DEF y
<1>. QED BY <1>1, <1>2


-----------------------------------------------------------------------------
(* What the methods of a receipt keep.                                     *)

LEMMA ConfirmedFields ==
    ASSUME NEW d, NEW a, NEW j, NEW c, NEW b, NEW s, NEW r, r = ConfirmedWith(d, a, j, c, b, s)
    PROVE  /\ r.status = "Confirmed" /\ r.declaredTotal = d /\ r.amounts = a
           /\ r.adjustments = j /\ r.adjusted = Adjusted(a, j)
           /\ r.allocations = Allocations(a, j) /\ r.categories = c /\ r.bundles = b
           /\ r.selections = s
  BY DEF ConfirmedWith

\* The five fields of the figures are replaced one after the other.
LEMMA FiguresCalculated ==
    ASSUME NEW d, NEW a, NEW j, NEW c, NEW b, NEW s, NEW r, r = ConfirmedWith(d, a, j, c, b, s),
           NEW amounts, NEW adjustments
    PROVE  Calculated(r, amounts, adjustments)
               = ConfirmedWith(Total(Adjusted(amounts, adjustments)), amounts, adjustments, c, b, s)
<1> DEFINE adjusted == Adjusted(amounts, adjustments)
           allocations == Allocations(amounts, adjustments)
           t == Total(adjusted)
           r1 == [r EXCEPT !.declaredTotal = t]
           r2 == [r1 EXCEPT !.amounts = amounts]
           r3 == [r2 EXCEPT !.adjustments = adjustments]
           r4 == [r3 EXCEPT !.adjusted = adjusted]
           r5 == [r4 EXCEPT !.allocations = allocations]
<1>1. r = [status |-> "Confirmed", declaredTotal |-> d, amounts |-> a, adjustments |-> j,
           adjusted |-> Adjusted(a, j), allocations |-> Allocations(a, j), categories |-> c,
           bundles |-> b, selections |-> s]
  BY DEF ConfirmedWith
<1>2. Calculated(r, amounts, adjustments) = r5
  BY Zenon DEF Calculated
<1> HIDE DEF adjusted, allocations, t
<1>3. r1 = [status |-> "Confirmed", declaredTotal |-> t, amounts |-> a, adjustments |-> j,
            adjusted |-> Adjusted(a, j), allocations |-> Allocations(a, j), categories |-> c,
            bundles |-> b, selections |-> s]
  BY <1>1
<1> HIDE DEF r1
<1>4. r2 = [status |-> "Confirmed", declaredTotal |-> t, amounts |-> amounts, adjustments |-> j,
            adjusted |-> Adjusted(a, j), allocations |-> Allocations(a, j), categories |-> c,
            bundles |-> b, selections |-> s]
  BY <1>3
<1> HIDE DEF r2
<1>5. r3 = [status |-> "Confirmed", declaredTotal |-> t, amounts |-> amounts,
            adjustments |-> adjustments, adjusted |-> Adjusted(a, j),
            allocations |-> Allocations(a, j), categories |-> c, bundles |-> b,
            selections |-> s]
  BY <1>4
<1> HIDE DEF r3
<1>6. r4 = [status |-> "Confirmed", declaredTotal |-> t, amounts |-> amounts,
            adjustments |-> adjustments, adjusted |-> adjusted,
            allocations |-> Allocations(a, j), categories |-> c, bundles |-> b,
            selections |-> s]
  BY <1>5
<1> HIDE DEF r4
<1>7. r5 = [status |-> "Confirmed", declaredTotal |-> t, amounts |-> amounts,
            adjustments |-> adjustments, adjusted |-> adjusted, allocations |-> allocations,
            categories |-> c, bundles |-> b, selections |-> s]
  BY <1>6
<1> HIDE DEF r5
<1>. QED BY <1>2, <1>7, Zenon DEF t, adjusted, allocations, ConfirmedWith

\* A receipt whose figures fit, in parts.
LEMMA FiguresParts ==
    ASSUME NEW r, FiguresFit(r)
    PROVE  /\ r = ConfirmedWith(r.declaredTotal, r.amounts, r.adjustments, r.categories,
                                r.bundles, r.selections)
           /\ r.status = "Confirmed"
           /\ r.adjusted = Adjusted(r.amounts, r.adjustments)
           /\ r.allocations = Allocations(r.amounts, r.adjustments)
           /\ DOMAIN r.adjusted = DOMAIN r.amounts
<1>1. r = ConfirmedWith(r.declaredTotal, r.amounts, r.adjustments, r.categories, r.bundles,
                        r.selections)
  BY DEF FiguresFit
<1>2. /\ r.status = "Confirmed" /\ r.adjusted = Adjusted(r.amounts, r.adjustments)
      /\ r.allocations = Allocations(r.amounts, r.adjustments)
  BY <1>1, ConfirmedFields
<1>3. DOMAIN Adjusted(r.amounts, r.adjustments) = DOMAIN r.amounts
  BY DEF Adjusted
<1>. QED BY <1>1, <1>2, <1>3

\* Its figures fit after a change of its bundles, selections and categories.
LEMMA FiguresKept ==
    ASSUME NEW r, FiguresFit(r), NEW c \in [DOMAIN r.amounts -> Categories], NEW b, NEW s, NEW q,
           q = ConfirmedWith(r.declaredTotal, r.amounts, r.adjustments, c, b, s)
    PROVE  /\ FiguresFit(q)
           /\ q.bundles = b /\ q.selections = s /\ q.categories = c
           /\ q.amounts = r.amounts /\ q.adjusted = r.adjusted
<1>1. /\ q.declaredTotal = r.declaredTotal /\ q.amounts = r.amounts
      /\ q.adjustments = r.adjustments /\ q.adjusted = Adjusted(r.amounts, r.adjustments)
      /\ q.categories = c /\ q.bundles = b /\ q.selections = s
  BY ConfirmedFields
<1>2. r.adjusted = Adjusted(r.amounts, r.adjustments)
  BY FiguresParts
<1>3. q = ConfirmedWith(q.declaredTotal, q.amounts, q.adjustments, q.categories, q.bundles,
                        q.selections)
  BY <1>1
<1>4. FiguresFit(q)
  BY <1>1, <1>3 DEF FiguresFit
<1>. QED BY <1>1, <1>2, <1>4

\* An amount of items depends on their adjusted amounts only.
LEMMA AmountsAgree ==
    ASSUME NEW r, NEW q, NEW items, \A n \in items : q.adjusted[n] = r.adjusted[n]
    PROVE  AmountOf(q, items) = AmountOf(r, items)
<1>1. [n \in items |-> q.adjusted[n]] = [n \in items |-> r.adjusted[n]]
  OBVIOUS
<1>. QED BY <1>1 DEF AmountOf

\* The same bundles, with expenses of the amounts they have now.
LEMMA BooksFollow ==
    ASSUME NEW r, NEW q, NEW x, NEW y, BooksFit(r, x), q.bundles = r.bundles,
           \A b \in DOMAIN r.bundles :
               /\ r.bundles[b].expense \in DOMAIN y
               /\ y[r.bundles[b].expense].total = AmountOf(q, r.bundles[b].items)
    PROVE  BooksFit(q, y)
  BY DEF BooksFit


-----------------------------------------------------------------------------
(* Steps of the receipt alone.                                             *)

LEMMA StutterKeeps == IInv /\ UNCHANGED vars => IInv'
  BY DEF IInv, vars, receiptVars, ReceiptFits, ExpensesFit, IsConfirmed, CasesFit,
         SettledFactsStand

\* A receipt that changes neither its bundles nor the adjusted amounts.
LEMMA ReceiptMoves ==
    ASSUME IInv, IsConfirmed, NEW after, FiguresFit(after), BundlesFit(after),
           after.bundles = receipt.bundles, after.adjusted = receipt.adjusted,
           DOMAIN receipt.selections \subseteq DOMAIN after.selections,
           AdvanceUnlessSame(after)
    PROVE  /\ receipt' = after
           /\ ReceiptFits' /\ IsConfirmed'
           /\ BooksFit(after, expenses)
           /\ SelectionsFit(after, DOMAIN cases)
<1>1. receipt' = after /\ version' \in 1 .. MaxVersion
  BY MaxVersionAssumption DEF IInv, ReceiptFits, AdvanceUnlessSame, Advance, CanAdvance, receiptVars
<1>2. after.status = "Confirmed"
  BY FiguresParts
<1>3. ReceiptFits' /\ IsConfirmed'
  BY <1>1, <1>2 DEF ReceiptFits, IsConfirmed
<1>4. BooksFit(receipt, expenses)
  BY DEF IInv
<1>5. ASSUME NEW b \in DOMAIN receipt.bundles
      PROVE  /\ receipt.bundles[b].expense \in DOMAIN expenses
             /\ expenses[receipt.bundles[b].expense].total
                    = AmountOf(after, receipt.bundles[b].items)
  <2>1. AmountOf(after, receipt.bundles[b].items) = AmountOf(receipt, receipt.bundles[b].items)
    BY AmountsAgree
  <2>. QED BY <1>4, <2>1 DEF BooksFit
<1>6. BooksFit(after, expenses)
  BY <1>4, <1>5, BooksFollow
<1>7. SelectionsFit(after, DOMAIN cases)
  BY <1>2 DEF IInv, SelectionsFit
<1>. QED BY <1>1, <1>3, <1>6, <1>7

LEMMA OthersUnchanged ==
    ASSUME IInv, UNCHANGED <<expenses, cases, revisions>>
    PROVE  ExpensesFit' /\ CasesFit' /\ SettledFactsStand'
  BY DEF IInv, ExpensesFit, CasesFit, SettledFactsStand

\* A draft has no bundles, so no case is about one.
LEMMA DraftHasNoCases ==
    ASSUME IInv, receipt.status = "Draft"
    PROVE  \A r : SelectionsFit(r, DOMAIN cases)
  BY DEF IInv, SelectionsFit

LEMMA EditKeeps ==
    ASSUME IInv, NEW actor, Edit(actor)
    PROVE  IInv'
<1>1. PICK candidate \in Candidates : EditDraft(actor, candidate)
  BY DEF Edit
<1>2. receipt' \in {candidate, receipt} /\ version' \in 1 .. MaxVersion
  BY <1>1, MaxVersionAssumption
  DEF EditDraft, AdvanceUnlessSame, Advance, CanAdvance, receiptVars, IInv, ReceiptFits
<1>3. receipt.status = "Draft" /\ receipt'.status = "Draft"
  BY <1>1, <1>2, BundlesAssumption DEF EditDraft
<1>4. ExpensesFit' /\ CasesFit' /\ SettledFactsStand'
  BY OthersUnchanged DEF Edit
<1>5. SelectionsFit(receipt', DOMAIN cases')
  BY <1>3, DraftHasNoCases DEF Edit
<1>6. ReceiptFits' /\ ~ IsConfirmed'
  BY <1>2, <1>3 DEF ReceiptFits, IsConfirmed
<1>. QED BY <1>4, <1>5, <1>6 DEF IInv

LEMMA ReviewKeeps ==
    ASSUME IInv, NEW actor, Review(actor)
    PROVE  IInv'
<1>1. PICK r \in Reviews, total \in 0 .. MaxTotal, category \in Categories :
          Confirm(actor, total, r.amounts, [n \in DOMAIN r.amounts |-> category], r.adjustments)
  BY DEF Review
<1> DEFINE categories == [n \in DOMAIN r.amounts |-> category]
<1>2. /\ receipt.status = "Draft"
      /\ receipt' = ConfirmedWith(total, r.amounts, r.adjustments, categories, None, None)
      /\ version' \in 1 .. MaxVersion
      /\ CanDeclare(total, r.amounts, r.adjustments)
  BY <1>1, MaxVersionAssumption DEF Confirm, Advance, CanAdvance, ConfirmedWith, IInv, ReceiptFits
<1>3. r.amounts \in Seq(Int) /\ r.adjustments \in Seq([kind: Kind, amount: Int, target: Nat])
  BY BundlesAssumption
<1>4. categories \in [DOMAIN r.amounts -> Categories]
  OBVIOUS
<1> HIDE DEF categories
<1>5. /\ receipt'.status = "Confirmed"
      /\ receipt'.declaredTotal = total /\ receipt'.amounts = r.amounts
      /\ receipt'.adjustments = r.adjustments /\ receipt'.categories = categories
      /\ receipt'.bundles = None /\ receipt'.selections = None
  BY <1>2, ConfirmedFields
<1>6. FiguresFit(receipt')
  BY <1>2, <1>3, <1>4, <1>5 DEF FiguresFit
<1>7. DOMAIN None = {}
  BY DEF None
<1>8. BundlesFit(receipt') /\ BooksFit(receipt', expenses')
  BY <1>5, <1>7 DEF BundlesFit, BooksFit
<1>9. ExpensesFit' /\ CasesFit' /\ SettledFactsStand'
  BY OthersUnchanged DEF Review
<1>10. SelectionsFit(receipt', DOMAIN cases')
  BY <1>2, DraftHasNoCases DEF Review
<1>11. ReceiptFits'
  BY <1>2, <1>6, <1>8 DEF ReceiptFits
<1>. QED BY <1>8, <1>9, <1>10, <1>11 DEF IInv

\* A confirmed receipt fits.
LEMMA ConfirmedFits ==
    ASSUME IInv, IsConfirmed
    PROVE  FiguresFit(receipt) /\ BundlesFit(receipt) /\ BooksFit(receipt, expenses)
  BY DEF IInv, ReceiptFits, IsConfirmed

LEMMA RecategoriseKeeps ==
    ASSUME IInv, NEW actor, Recategorise(actor)
    PROVE  IInv'
<1>1. PICK b \in BundlesOf(receipt), group \in Groups, category \in Categories :
          \E item \in receipt.bundles[b].items :
              CorrectItemCategory(actor, Owner, group, item, category, CaseFact(b))
  BY DEF Recategorise
<1>2. PICK item : CorrectItemCategory(actor, Owner, group, item, category, CaseFact(b))
  BY <1>1
<1> DEFINE after == [receipt EXCEPT !.categories[item] = category]
           c == [receipt.categories EXCEPT ![item] = category]
<1>3. IsConfirmed /\ item \in DOMAIN receipt.amounts /\ AdvanceUnlessSame(after)
  BY <1>2 DEF CorrectItemCategory
<1>4. FiguresFit(receipt) /\ BundlesFit(receipt)
  BY <1>3, ConfirmedFits
<1>5. c \in [DOMAIN receipt.amounts -> Categories]
  BY <1>4 DEF FiguresFit
<1>6. after = ConfirmedWith(receipt.declaredTotal, receipt.amounts, receipt.adjustments, c,
                            receipt.bundles, receipt.selections)
  <2>1. PICK d, a, j, e, bundles, s : receipt = ConfirmedWith(d, a, j, e, bundles, s)
    BY <1>4 DEF FiguresFit
  <2>2. /\ receipt.declaredTotal = d /\ receipt.amounts = a /\ receipt.adjustments = j
        /\ receipt.categories = e /\ receipt.bundles = bundles /\ receipt.selections = s
    BY <2>1, ConfirmedFields
  <2>3. after = ConfirmedWith(d, a, j, c, bundles, s)
    BY <2>1, <2>2 DEF ConfirmedWith
  <2>. QED BY <2>2, <2>3
<1> HIDE DEF after, c
<1>7. /\ FiguresFit(after) /\ after.bundles = receipt.bundles
      /\ after.selections = receipt.selections /\ after.amounts = receipt.amounts
      /\ after.adjusted = receipt.adjusted
  BY <1>4, <1>5, <1>6, FiguresKept
<1>8. BundlesFit(after)
  BY <1>4, <1>7 DEF BundlesFit
<1>9. /\ ReceiptFits' /\ IsConfirmed' /\ receipt' = after
      /\ BooksFit(after, expenses) /\ SelectionsFit(after, DOMAIN cases)
  BY <1>3, <1>7, <1>8, ReceiptMoves
<1>10. ExpensesFit' /\ CasesFit' /\ SettledFactsStand' /\ UNCHANGED <<expenses, cases>>
  BY OthersUnchanged DEF Recategorise
<1>. QED BY <1>9, <1>10 DEF IInv


-----------------------------------------------------------------------------
(* Steps of an expense, and of expenses with bundles.                      *)

LEMMA ReceiptUnchanged ==
    ASSUME IInv, UNCHANGED <<receiptVars, cases, revisions>>
    PROVE  /\ ReceiptFits' /\ SelectionsFit(receipt', DOMAIN cases')
           /\ IsConfirmed' = IsConfirmed
           /\ DOMAIN cases' = DOMAIN cases
  BY DEF IInv, receiptVars, ReceiptFits, IsConfirmed

\* An expense that a bundle has, before its bundle was selected, is in no case.
LEMMA UnselectedIsInNoCase ==
    ASSUME IInv, IsConfirmed, NEW b \in BundlesOf(receipt), ~ Selected(b)
    PROVE  ExpenseOf(b) \notin DOMAIN cases
<1>1. BooksFit(receipt, expenses) /\ BundlesFit(receipt)
  BY ConfirmedFits
<1>2. ExpenseOf(b) \in Paired
  BY <1>1 DEF BooksFit, BundlesOf, ExpenseOf
<1>3. ASSUME ExpenseOf(b) \in DOMAIN cases PROVE FALSE
  <2>1. PICK c \in DOMAIN receipt.selections : receipt.bundles[c].expense = ExpenseOf(b)
    BY <1>2, <1>3 DEF IInv, SelectionsFit
  <2>2. c \in DOMAIN receipt.bundles /\ c # b
    BY <1>1, <2>1 DEF BundlesFit, Selected
  <2>. QED BY <1>1, <2>1, <2>2 DEF BooksFit, BundlesOf, ExpenseOf
<1>. QED BY <1>3

\* Expenses change, and no case that is under way is about one of them.
LEMMA FactsStand ==
    ASSUME IInv, NEW changed,
           \A e \in DOMAIN expenses \ changed : expenses'[e] = expenses[e],
           \A e \in DOMAIN cases \cap changed :
               cases[e].lifecycle \notin {"AwaitingApproval", "PaymentActive",
                                          "CancellationPending", "Archived"},
           DOMAIN expenses \subseteq DOMAIN expenses',
           UNCHANGED <<cases, revisions>>
    PROVE  CasesFit' /\ SettledFactsStand'
  BY DEF IInv, CasesFit, SettledFactsStand

LEMMA EnterExpenseKeeps ==
    ASSUME IInv, NEW actor, EnterExpense(actor)
    PROVE  IInv'
<1>1. PICK e \in Expenses \ (Paired \cup DOMAIN expenses), group \in Groups,
           total \in Amounts, percentages \in Splits :
          \E payer \in DOMAIN percentages :
              /\ CanRegister(total, payer, percentages)
              /\ expenses' = With(expenses, e,
                     Registered(e, group, actor, total, payer, percentages))
  BY DEF EnterExpense
<1>2. PICK payer \in DOMAIN percentages :
          /\ CanRegister(total, payer, percentages)
          /\ expenses' = With(expenses, e,
                 Registered(e, group, actor, total, payer, percentages))
  BY <1>1
<1> DEFINE x == Registered(e, group, actor, total, payer, percentages)
<1>3. ExpenseFits(x, e)
  BY <1>2, RegisteredFits
<1>4. expenses' = With(expenses, e, x)
  BY <1>2
<1> HIDE DEF x
<1>5. /\ DOMAIN expenses' = DOMAIN expenses \cup {e} /\ expenses'[e] = x
      /\ \A d \in DOMAIN expenses : expenses'[d] = expenses[d]
  BY <1>4 DEF With
<1>6. ExpensesFit'
  BY <1>3, <1>5 DEF IInv, ExpensesFit
<1>7. IsConfirmed => BooksFit(receipt, expenses')
  BY <1>5 DEF IInv, BooksFit
<1>8. UNCHANGED <<receipt, cases, revisions>>
  BY DEF EnterExpense, receiptVars
<1>9. CasesFit' /\ SettledFactsStand'
  BY <1>5, <1>8 DEF IInv, CasesFit, SettledFactsStand
<1>10. /\ ReceiptFits' /\ SelectionsFit(receipt', DOMAIN cases')
       /\ IsConfirmed' = IsConfirmed
  BY ReceiptUnchanged DEF EnterExpense
<1>. QED BY <1>6, <1>7, <1>8, <1>9, <1>10 DEF IInv

LEMMA CorrectAmountKeeps ==
    ASSUME IInv, NEW actor, CorrectAmount(actor)
    PROVE  IInv'
<1>1. PICK e \in DOMAIN cases \ Paired, amount \in Amounts :
          /\ CanCorrectAmount(expenses[e], actor, Owner, cases[e], amount)
          /\ expenses' = [expenses EXCEPT ![e] = AmountCorrected(@, amount)]
  BY DEF CorrectAmount
<1> DEFINE x == AmountCorrected(expenses[e], amount)
<1>2. e \in DOMAIN expenses /\ ExpenseFits(expenses[e], e)
  BY <1>1 DEF IInv, CasesFit, ExpensesFit
<1>3. ExpenseFits(x, e)
  <2>1. "corrections" \in History
    BY DEF History
  <2>2. /\ IsSafe(expenses[e].version)
        /\ CanRegister(amount, expenses[e].payer, expenses[e].percentages)
    BY <1>1 DEF CanCorrectAmount
  <2>. QED BY <1>2, <2>1, <2>2, NewTotalFits DEF AmountCorrected
<1>4. expenses' = [expenses EXCEPT ![e] = x]
  BY <1>1
<1> HIDE DEF x
<1>5. /\ DOMAIN expenses' = DOMAIN expenses /\ expenses'[e] = x
      /\ \A d \in DOMAIN expenses \ {e} : expenses'[d] = expenses[d]
  BY <1>2, <1>4
<1>6. ExpensesFit'
  BY <1>3, <1>5 DEF IInv, ExpensesFit
<1>7. IsConfirmed => BooksFit(receipt, expenses')
  BY <1>1, <1>5 DEF IInv, BooksFit
<1>8. UNCHANGED <<receipt, cases, revisions>>
  BY DEF CorrectAmount, receiptVars
<1>9. cases[e].lifecycle \notin {"AwaitingApproval", "PaymentActive", "CancellationPending",
                                 "Archived"}
  BY <1>1 DEF CanCorrectAmount
<1>10. CasesFit' /\ SettledFactsStand'
  <2> DEFINE changed == {e}
  <2>1. /\ \A d \in DOMAIN expenses \ changed : expenses'[d] = expenses[d]
        /\ \A d \in DOMAIN cases \cap changed :
               cases[d].lifecycle \notin {"AwaitingApproval", "PaymentActive",
                                          "CancellationPending", "Archived"}
    BY <1>5, <1>9
  <2> HIDE DEF changed
  <2>. QED BY <1>5, <1>8, <2>1, FactsStand
<1>11. /\ ReceiptFits' /\ SelectionsFit(receipt', DOMAIN cases')
       /\ IsConfirmed' = IsConfirmed
  BY ReceiptUnchanged DEF CorrectAmount
<1>. QED BY <1>6, <1>7, <1>8, <1>10, <1>11 DEF IInv

LEMMA ChangeSplitKeeps ==
    ASSUME IInv, NEW actor, ChangeSplit(actor)
    PROVE  IInv'
<1>1. PICK b \in BundlesOf(receipt), percentages \in Splits :
          \E payer \in DOMAIN percentages :
              LET fact == BundleEditingFacts(receipt, version, b)
              IN  /\ IsEditable(actor, b)
                  /\ CanChangeSplit(expenses[ExpenseOf(b)], fact, actor, payer, percentages)
                  /\ expenses' = [expenses EXCEPT ![ExpenseOf(b)] =
                                     SplitChanged(@, payer, percentages)]
  BY DEF ChangeSplit
<1> DEFINE e == ExpenseOf(b)
<1>2. PICK payer \in DOMAIN percentages :
          /\ IsEditable(actor, b)
          /\ CanChangeSplit(expenses[e], BundleEditingFacts(receipt, version, b), actor, payer,
                            percentages)
          /\ expenses' = [expenses EXCEPT ![e] = SplitChanged(@, payer, percentages)]
  BY <1>1
<1> DEFINE x == SplitChanged(expenses[e], payer, percentages)
<1>3. IsConfirmed /\ ~ Selected(b) /\ BooksFit(receipt, expenses)
  BY <1>2, ConfirmedFits DEF IsEditable
<1>4. e \in DOMAIN expenses /\ ExpenseFits(expenses[e], e)
  BY <1>3 DEF IInv, ExpensesFit, BooksFit, BundlesOf, ExpenseOf
<1>5. e \notin DOMAIN cases
  BY <1>3, UnselectedIsInNoCase
<1>6. ExpenseFits(x, e) /\ x.total = expenses[e].total
  BY <1>2, <1>4, NewSplitFits DEF CanChangeSplit
<1>7. expenses' = [expenses EXCEPT ![e] = x]
  BY <1>2
<1> HIDE DEF x, e
<1>8. /\ DOMAIN expenses' = DOMAIN expenses /\ expenses'[e] = x
      /\ \A d \in DOMAIN expenses \ {e} : expenses'[d] = expenses[d]
  BY <1>4, <1>7
<1>9. ExpensesFit'
  BY <1>6, <1>8 DEF IInv, ExpensesFit
<1>10. BooksFit(receipt, expenses')
  BY <1>3, <1>6, <1>8 DEF BooksFit
<1>11. UNCHANGED <<receipt, cases, revisions>>
  BY DEF ChangeSplit, receiptVars
<1>12. CasesFit' /\ SettledFactsStand'
  BY <1>5, <1>8, <1>11 DEF IInv, CasesFit, SettledFactsStand
<1>13. /\ ReceiptFits' /\ SelectionsFit(receipt', DOMAIN cases')
       /\ IsConfirmed' = IsConfirmed
  BY ReceiptUnchanged DEF ChangeSplit
<1>. QED BY <1>9, <1>10, <1>11, <1>12, <1>13 DEF IInv


LEMMA BundleKeeps ==
    ASSUME IInv, NEW actor, Bundle_(actor)
    PROVE  IInv'
<1>1. PICK b \in Bundles, items \in SUBSET DOMAIN receipt.amounts, group \in Groups,
           e \in Paired \ DOMAIN expenses, percentages \in Splits :
          \E payer \in DOMAIN percentages :
              LET total == AmountOf(receipt, items)
                  expense == Registered(e, group, actor, total, payer, percentages)
              IN  /\ CanRegister(total, payer, percentages)
                  /\ RegisterBundle(actor, b, items, expense)
                  /\ expenses' = With(expenses, e, expense)
  BY DEF Bundle_
<1> DEFINE total == AmountOf(receipt, items)
<1>2. PICK payer \in DOMAIN percentages :
          LET expense == Registered(e, group, actor, total, payer, percentages)
          IN  /\ CanRegister(total, payer, percentages)
              /\ RegisterBundle(actor, b, items, expense)
              /\ expenses' = With(expenses, e, expense)
  BY <1>1
<1> DEFINE x == Registered(e, group, actor, total, payer, percentages)
           new == [items |-> items, expense |-> e, group |-> group]
           bundles == [c \in BundlesOf(receipt) \cup {b} |->
                          IF c = b THEN new ELSE receipt.bundles[c]]
<1>3. ExpenseFits(x, e) /\ x.total = total /\ x.id = e /\ x.group = group
  BY <1>2, RegisteredFits
<1>4. expenses' = With(expenses, e, x) /\ RegisterBundle(actor, b, items, x)
  BY <1>2
<1> HIDE DEF x
<1>5. /\ IsConfirmed /\ b \notin DOMAIN receipt.bundles /\ items # {}
      /\ \A c \in DOMAIN receipt.bundles : receipt.bundles[c].items \cap items = {}
      /\ receipt' = [receipt EXCEPT !.bundles = bundles]
      /\ version' \in 1 .. MaxVersion
  BY <1>3, <1>4, MaxVersionAssumption
  DEF RegisterBundle, BundlesOf, Advance, CanAdvance, IInv, ReceiptFits
<1>6. FiguresFit(receipt) /\ BundlesFit(receipt) /\ BooksFit(receipt, expenses)
  BY <1>5, ConfirmedFits
<1>7. DOMAIN receipt.amounts \subseteq Nat \ {0}
  BY <1>6 DEF FiguresFit
<1>8. new \in Bundle /\ new.items = items /\ new.expense = e
  BY <1>7, BundlesAssumption DEF Bundle
<1> HIDE DEF new
<1>9. /\ DOMAIN bundles = DOMAIN receipt.bundles \cup {b} /\ bundles[b] = new
      /\ \A c \in DOMAIN receipt.bundles : bundles[c] = receipt.bundles[c]
  BY <1>5 DEF BundlesOf
<1> HIDE DEF bundles
<1>10. receipt' = ConfirmedWith(receipt.declaredTotal, receipt.amounts, receipt.adjustments,
                                receipt.categories, bundles, receipt.selections)
  <2>1. PICK d, a, j, c, old, s : receipt = ConfirmedWith(d, a, j, c, old, s)
    BY <1>6 DEF FiguresFit
  <2>2. /\ receipt.declaredTotal = d /\ receipt.amounts = a /\ receipt.adjustments = j
        /\ receipt.categories = c /\ receipt.bundles = old /\ receipt.selections = s
    BY <2>1, ConfirmedFields
  <2>3. receipt' = ConfirmedWith(d, a, j, c, bundles, s)
    BY <1>5, <2>1 DEF ConfirmedWith
  <2>. QED BY <2>2, <2>3
<1>11. /\ FiguresFit(receipt') /\ receipt'.bundles = bundles
       /\ receipt'.selections = receipt.selections /\ receipt'.amounts = receipt.amounts
       /\ receipt'.adjusted = receipt.adjusted
  <2>1. receipt.categories \in [DOMAIN receipt.amounts -> Categories]
    BY <1>6 DEF FiguresFit
  <2>. QED BY <1>6, <1>10, <2>1, FiguresKept
<1>12. BundlesFit(receipt')
  BY <1>6, <1>8, <1>9, <1>11 DEF BundlesFit
<1>13. receipt'.status = "Confirmed"
  BY <1>11, FiguresParts
<1>14. ReceiptFits'
  BY <1>5, <1>11, <1>12 DEF ReceiptFits
<1>15. /\ DOMAIN expenses' = DOMAIN expenses \cup {e} /\ expenses'[e] = x
       /\ \A d \in DOMAIN expenses : expenses'[d] = expenses[d]
  BY <1>4 DEF With
<1>16. ExpensesFit'
  BY <1>3, <1>15, BundlesAssumption DEF IInv, ExpensesFit
<1>17. BooksFit(receipt', expenses')
  <2>1. \A I : AmountOf(receipt', I) = AmountOf(receipt, I)
    BY <1>11, AmountsAgree
  <2>2. \A c \in DOMAIN receipt.bundles :
            /\ receipt.bundles[c].expense \in Paired \cap DOMAIN expenses
            /\ receipt.bundles[c].items # {}
            /\ expenses'[receipt.bundles[c].expense].total
                   = AmountOf(receipt', receipt.bundles[c].items)
    BY <1>6, <1>15, <2>1 DEF BooksFit
  <2>3. expenses'[e].total = AmountOf(receipt', items)
    BY <1>3, <1>15, <2>1 DEF total
  <2>4. ASSUME NEW c \in DOMAIN bundles
        PROVE  /\ bundles[c].items # {}
               /\ bundles[c].expense \in Paired \cap DOMAIN expenses'
               /\ expenses'[bundles[c].expense].total = AmountOf(receipt', bundles[c].items)
    BY <1>5, <1>8, <1>9, <1>15, <2>2, <2>3
  <2>5. ASSUME NEW c \in DOMAIN bundles, NEW d \in DOMAIN bundles, c # d
        PROVE  /\ bundles[c].items \cap bundles[d].items = {}
               /\ bundles[c].expense # bundles[d].expense
    BY <1>5, <1>6, <1>8, <1>9, <2>2, <2>5 DEF BooksFit
  <2>. QED BY <1>11, <2>4, <2>5 DEF BooksFit
<1>18. UNCHANGED <<cases, revisions>>
  BY DEF Bundle_
<1>19. CasesFit' /\ SettledFactsStand'
  BY <1>15, <1>18 DEF IInv, CasesFit, SettledFactsStand
<1>20. SelectionsFit(receipt', DOMAIN cases')
  BY <1>6, <1>9, <1>11, <1>13, <1>18 DEF IInv, SelectionsFit, BundlesFit
<1>. QED BY <1>14, <1>16, <1>17, <1>19, <1>20 DEF IInv

LEMMA MoveKeeps ==
    ASSUME IInv, NEW actor, Move(actor)
    PROVE  IInv'
<1>0. PICK from \in BundlesOf(receipt), to \in BundlesOf(receipt) :
          \E items \in SUBSET receipt.bundles[from].items :
              /\ MoveBundleItems(actor, from, to, items)
              /\ \A b \in {from, to} :
                     CanReflectMovement(expenses[ExpenseOf(b)],
                                        BundleEditingFacts(receipt, version, b),
                                        BundleEditingFacts(receipt', version', b), actor)
              /\ expenses' =
                     [expenses EXCEPT
                         ![ExpenseOf(from)] =
                             MovementReflected(@, BundleEditingFacts(receipt', version', from)),
                         ![ExpenseOf(to)] =
                             MovementReflected(@, BundleEditingFacts(receipt', version', to))]
  BY DEF Move
<1>1. PICK items \in SUBSET receipt.bundles[from].items :
          /\ MoveBundleItems(actor, from, to, items)
          /\ \A b \in {from, to} :
                 CanReflectMovement(expenses[ExpenseOf(b)],
                                    BundleEditingFacts(receipt, version, b),
                                    BundleEditingFacts(receipt', version', b), actor)
          /\ expenses' =
                 [expenses EXCEPT
                     ![ExpenseOf(from)] =
                         MovementReflected(@, BundleEditingFacts(receipt', version', from)),
                     ![ExpenseOf(to)] =
                         MovementReflected(@, BundleEditingFacts(receipt', version', to))]
  BY <1>0
<1>2. /\ IsConfirmed /\ ~ Selected(from) /\ ~ Selected(to) /\ from # to
      /\ items # {} /\ items # receipt.bundles[from].items
      /\ receipt' = [receipt EXCEPT !.bundles[from].items = @ \ items,
                                    !.bundles[to].items = @ \cup items]
      /\ version' \in 1 .. MaxVersion
  BY <1>1, MaxVersionAssumption
  DEF MoveBundleItems, IsEditable, Advance, CanAdvance, IInv, ReceiptFits
<1>3. FiguresFit(receipt) /\ BundlesFit(receipt) /\ BooksFit(receipt, expenses)
  BY <1>2, ConfirmedFits
<1>4. from \in DOMAIN receipt.bundles /\ to \in DOMAIN receipt.bundles
  BY <1>1 DEF BundlesOf
<1> DEFINE bundles == [receipt.bundles EXCEPT ![from].items = @ \ items, ![to].items = @ \cup items]
<1>5. receipt' = ConfirmedWith(receipt.declaredTotal, receipt.amounts, receipt.adjustments,
                               receipt.categories, bundles, receipt.selections)
  <2>1. PICK d, a, j, c, old, s : receipt = ConfirmedWith(d, a, j, c, old, s)
    BY <1>3 DEF FiguresFit
  <2>2. /\ receipt.declaredTotal = d /\ receipt.amounts = a /\ receipt.adjustments = j
        /\ receipt.categories = c /\ receipt.bundles = old /\ receipt.selections = s
    BY <2>1, ConfirmedFields
  <2> DEFINE half == [receipt EXCEPT !.bundles[from].items = @ \ items]
             split == [old EXCEPT ![from].items = @ \ items]
             moved == [split EXCEPT ![to].items = @ \cup items]
  <2>3. half = ConfirmedWith(d, a, j, c, split, s)
    BY <2>1 DEF ConfirmedWith
  <2>4. receipt' = [half EXCEPT !.bundles[to].items = @ \cup items]
    BY <1>2, Zenon
  <2>5. bundles = moved
    BY <2>2, Zenon
  <2> HIDE DEF half, split
  <2>6. receipt' = ConfirmedWith(d, a, j, c, moved, s)
    BY <2>3, <2>4 DEF ConfirmedWith
  <2> HIDE DEF moved, bundles
  <2>. QED BY <2>2, <2>5, <2>6
<1>6. /\ DOMAIN bundles = DOMAIN receipt.bundles
      /\ bundles[from] = [receipt.bundles[from] EXCEPT !.items = @ \ items]
      /\ bundles[to] = [receipt.bundles[to] EXCEPT !.items = @ \cup items]
      /\ \A b \in DOMAIN receipt.bundles \ {from, to} : bundles[b] = receipt.bundles[b]
  BY <1>2, <1>4
<1> HIDE DEF bundles
<1>7. \A b \in DOMAIN receipt.bundles :
          receipt.bundles[b] \in [items: SUBSET (Nat \ {0}), expense: Expenses, group: Groups]
  BY <1>3 DEF BundlesFit, Bundle
<1>8. /\ bundles[from].items = receipt.bundles[from].items \ items
      /\ bundles[to].items = receipt.bundles[to].items \cup items
      /\ bundles[from] \in Bundle /\ bundles[to] \in Bundle
      /\ \A b \in DOMAIN receipt.bundles : bundles[b].expense = receipt.bundles[b].expense
  BY <1>1, <1>4, <1>6, <1>7 DEF Bundle
<1>9. /\ FiguresFit(receipt') /\ receipt'.bundles = bundles
      /\ receipt'.selections = receipt.selections /\ receipt'.amounts = receipt.amounts
      /\ receipt'.adjusted = receipt.adjusted
  <2>1. receipt.categories \in [DOMAIN receipt.amounts -> Categories]
    BY <1>3 DEF FiguresFit
  <2>. QED BY <1>3, <1>5, <2>1, FiguresKept
<1>10. BundlesFit(receipt')
  <2>1. \A b \in DOMAIN bundles : bundles[b] \in Bundle
    BY <1>3, <1>6, <1>8 DEF BundlesFit
  <2>2. \A b \in DOMAIN bundles : bundles[b].items \subseteq DOMAIN receipt.amounts
    BY <1>1, <1>3, <1>4, <1>6, <1>8 DEF BundlesFit
  <2>. QED BY <1>3, <1>6, <1>9, <2>1, <2>2 DEF BundlesFit
<1>11. receipt'.status = "Confirmed" /\ ReceiptFits'
  BY <1>2, <1>9, <1>10, FiguresParts DEF ReceiptFits
<1> DEFINE source == receipt.bundles[from].expense
           target == receipt.bundles[to].expense
           x == MovementReflected(expenses[source], BundleEditingFacts(receipt', version', from))
           y == MovementReflected(expenses[target], BundleEditingFacts(receipt', version', to))
<1>12. source # target /\ source \in DOMAIN expenses /\ target \in DOMAIN expenses
  BY <1>2, <1>3, <1>4 DEF BooksFit
<1>13. expenses' = [expenses EXCEPT ![source] = x, ![target] = y]
  BY <1>1, <1>12 DEF ExpenseOf
<1>14. ASSUME NEW b \in {from, to}
       PROVE  LET e == receipt.bundles[b].expense
                  z == MovementReflected(expenses[e], BundleEditingFacts(receipt', version', b))
              IN  ExpenseFits(z, e) /\ z.total = AmountOf(receipt', bundles[b].items)
  <2> DEFINE e == receipt.bundles[b].expense
             amount == AmountOf(receipt', bundles[b].items)
             h == "bundleItemMovements"
  <2>1. BundleEditingFacts(receipt', version', b).amount = amount
    BY <1>9 DEF BundleEditingFacts
  <2>2. h \in History
    BY DEF History
  <2>3. ExpenseFits(expenses[e], e)
    BY <1>12 DEF IInv, ExpensesFit
  <2>4. /\ IsSafe(expenses[e].version)
        /\ CanRegister(amount, expenses[e].payer, expenses[e].percentages)
    BY <1>1, <2>1 DEF CanReflectMovement, ExpenseOf
  <2>5. MovementReflected(expenses[e], BundleEditingFacts(receipt', version', b))
            = Recorded(WithTotal(expenses[e], amount), h)
    BY <2>1 DEF MovementReflected
  <2> HIDE DEF h, amount, e
  <2>6. LET z == Recorded(WithTotal(expenses[e], amount), h)
        IN  ExpenseFits(z, e) /\ z.total = amount
    BY <2>2, <2>3, <2>4, NewTotalFits
  <2>7. LET z == MovementReflected(expenses[e], BundleEditingFacts(receipt', version', b))
        IN  ExpenseFits(z, e) /\ z.total = amount
    BY <2>5, <2>6
  <2>. QED BY <2>7 DEF e, amount
<1>15. /\ ExpenseFits(x, source) /\ x.total = AmountOf(receipt', bundles[from].items)
       /\ ExpenseFits(y, target) /\ y.total = AmountOf(receipt', bundles[to].items)
  BY <1>14
<1> HIDE DEF x, y, source, target
<1>16. /\ DOMAIN expenses' = DOMAIN expenses /\ expenses'[source] = x /\ expenses'[target] = y
       /\ \A e \in DOMAIN expenses \ {source, target} : expenses'[e] = expenses[e]
  BY <1>12, <1>13
<1>17. ExpensesFit'
  BY <1>15, <1>16 DEF IInv, ExpensesFit
<1>18. BooksFit(receipt', expenses')
  <2>1. \A I : AmountOf(receipt', I) = AmountOf(receipt, I)
    BY <1>9, AmountsAgree
  <2>2. ASSUME NEW b \in DOMAIN bundles
        PROVE  /\ bundles[b].items # {}
               /\ bundles[b].expense \in Paired \cap DOMAIN expenses'
               /\ expenses'[bundles[b].expense].total = AmountOf(receipt', bundles[b].items)
    <3>1. CASE b = from
      BY <1>1, <1>2, <1>3, <1>4, <1>8, <1>15, <1>16, <3>1 DEF BooksFit, source
    <3>2. CASE b = to
      BY <1>1, <1>2, <1>3, <1>4, <1>8, <1>15, <1>16, <3>2 DEF BooksFit, target
    <3>3. CASE b \notin {from, to}
      <4>1. bundles[b] = receipt.bundles[b] /\ b \in DOMAIN receipt.bundles
        BY <1>6, <3>3
      <4>2. receipt.bundles[b].expense \notin {source, target}
        BY <1>3, <1>4, <3>3, <4>1 DEF BooksFit, source, target
      <4>. QED BY <1>3, <1>16, <2>1, <4>1, <4>2 DEF BooksFit
    <3>. QED BY <3>1, <3>2, <3>3
  <2>3. ASSUME NEW b \in DOMAIN bundles, NEW c \in DOMAIN bundles, b # c
        PROVE  /\ bundles[b].items \cap bundles[c].items = {}
               /\ bundles[b].expense # bundles[c].expense
    <3>1. bundles[b].expense # bundles[c].expense
      BY <1>3, <1>6, <1>8, <2>3 DEF BooksFit
    <3>2. \A d \in DOMAIN bundles :
              bundles[d].items = IF d = from THEN receipt.bundles[from].items \ items
                                 ELSE IF d = to THEN receipt.bundles[to].items \cup items
                                 ELSE receipt.bundles[d].items
      BY <1>2, <1>6, <1>8
    <3>3. receipt.bundles[b].items \cap receipt.bundles[c].items = {}
      BY <1>3, <1>6, <2>3 DEF BooksFit
    <3>4. \A d \in DOMAIN bundles \ {from} : receipt.bundles[d].items \cap items = {}
      BY <1>1, <1>3, <1>4, <1>6 DEF BooksFit
    <3>5. bundles[b].items \cap bundles[c].items = {}
      BY <1>2, <1>1, <2>3, <3>2, <3>3, <3>4
    <3>. QED BY <3>1, <3>5
  <2>. QED BY <1>9, <2>2, <2>3 DEF BooksFit
<1>19. source \notin DOMAIN cases /\ target \notin DOMAIN cases
  BY <1>1, <1>2, UnselectedIsInNoCase DEF source, target, ExpenseOf
<1>20. UNCHANGED <<cases, revisions>>
  BY DEF Move
<1>21. CasesFit' /\ SettledFactsStand'
  BY <1>16, <1>19, <1>20 DEF IInv, CasesFit, SettledFactsStand
<1>22. SelectionsFit(receipt', DOMAIN cases')
  BY <1>3, <1>8, <1>9, <1>11, <1>20 DEF IInv, SelectionsFit, BundlesFit
<1>. QED BY <1>11, <1>17, <1>18, <1>21, <1>22 DEF IInv


-----------------------------------------------------------------------------
(* Corrections of the receipt, which every affected expense reflects.      *)

\* A correction of a receipt whose bundles stay as they are.
IsCorrection(c, included) ==
    /\ c.before = receipt
    /\ FiguresFit(c.after)
    /\ c.after.bundles = receipt.bundles /\ c.after.selections = receipt.selections
    /\ DOMAIN c.after.amounts = DOMAIN receipt.amounts
    /\ CanCorrect(c.group, c.after, included, c.cases)
    /\ \A b \in DOMAIN c.cases : c.cases[b] = CaseFact(b)

\* The affected bundles are those the cases are about, and their cases allow it.
LEMMA AffectedAreFree ==
    ASSUME IInv, IsConfirmed, NEW c, NEW included, IsCorrection(c, included)
    PROVE  /\ DOMAIN c.cases \subseteq DOMAIN receipt.bundles
           /\ \A b \in DOMAIN receipt.bundles \ DOMAIN c.cases :
                  \A n \in receipt.bundles[b].items : c.after.adjusted[n] = receipt.adjusted[n]
           /\ \A e \in Affected(c) \cap DOMAIN cases : cases[e].lifecycle = "Rejected"
<1>1. FiguresFit(receipt) /\ BundlesFit(receipt)
  BY ConfirmedFits
<1>2. DOMAIN c.cases = AffectedBundles(AffectedItems(included, c.after))
  BY DEF IsCorrection, CanCorrect
<1>3. DOMAIN c.cases \subseteq DOMAIN receipt.bundles
  BY <1>2 DEF AffectedBundles, BundlesOf
<1>4. ASSUME NEW b \in DOMAIN receipt.bundles \ DOMAIN c.cases,
             NEW n \in receipt.bundles[b].items
      PROVE  c.after.adjusted[n] = receipt.adjusted[n]
  <2>1. n \in DOMAIN receipt.amounts
    BY <1>1 DEF BundlesFit
  <2>2. n \notin AffectedItems(included, c.after)
    BY <1>2 DEF AffectedBundles, BundlesOf
  <2>. QED BY <2>1, <2>2 DEF AffectedItems
<1>5. ASSUME NEW e \in Affected(c) \cap DOMAIN cases
      PROVE  cases[e].lifecycle = "Rejected"
  <2>1. PICK b \in DOMAIN c.cases : e = receipt.bundles[b].expense
    BY DEF Affected, IsCorrection
  <2>2. c.cases[b] = cases[e].lifecycle
    BY <2>1 DEF IsCorrection, CaseFact
  <2>3. c.cases[b] = "Rejected" \/ c.cases[b] = "None"
    BY <1>2 DEF IsCorrection, CanCorrect, CaseAllows
  <2>4. cases[e].lifecycle # "None"
    BY DEF IInv, CasesFit, Lifecycle
  <2>. QED BY <2>2, <2>3, <2>4
<1>. QED BY <1>3, <1>4, <1>5

\* What an affected expense becomes.
LEMMA ReflectionFits ==
    ASSUME IInv, IsConfirmed, NEW c, NEW included, IsCorrection(c, included),
           NEW b \in DOMAIN c.cases, NEW e, e = receipt.bundles[b].expense,
           CanReflectCorrection(expenses[e], c)
    PROVE  LET y == CorrectionReflected(expenses[e], c)
           IN  ExpenseFits(y, e) /\ y.total = AmountOf(c.after, receipt.bundles[b].items)
<1> DEFINE x == expenses[e]
           h == IF c.action = "ItemAmountCorrected"
                THEN "receiptItemAmountCorrections" ELSE "receiptAdjustmentAmountCorrections"
           total == AmountOf(c.after, receipt.bundles[b].items)
<1>1. BooksFit(receipt, expenses) /\ b \in DOMAIN receipt.bundles
  BY ConfirmedFits, AffectedAreFree
<1>2. e \in DOMAIN expenses /\ ExpenseFits(x, e)
  BY <1>1 DEF IInv, ExpensesFit, BooksFit
<1>3. x.id = e
  BY <1>2 DEF ExpenseFits
<1>4. PairOf(x, c.before) = {b} /\ PairOf(x, c.after) = {b}
  BY <1>1, <1>3 DEF PairOf, BooksFit, IsCorrection
<1>5. PairAmount(c.after, c.after.bundles[b].items) = total
  BY DEF PairAmount, AmountOf, IsCorrection
<1>6. IsSafe(x.version) /\ IsTotal(total)
  BY <1>4, <1>5 DEF CanReflectCorrection
<1>7. CanRegister(total, x.payer, x.percentages)
  BY <1>2, <1>6 DEF CanRegister, ExpenseFits
<1>8. h \in History
  BY DEF History
<1>9. CorrectionReflected(x, c) = Recorded(WithTotal(x, total), h)
  <2>1. (CHOOSE d \in PairOf(x, c.after) : TRUE) = b
    BY <1>4
  <2>. QED BY <1>5, <2>1 DEF CorrectionReflected
<1> HIDE DEF h, total, x
<1>10. LET y == Recorded(WithTotal(x, total), h)
       IN  ExpenseFits(y, e) /\ y.total = total
  BY <1>2, <1>6, <1>7, <1>8, NewTotalFits
<1>11. LET y == CorrectionReflected(x, c)
       IN  ExpenseFits(y, e) /\ y.total = total
  BY <1>9, <1>10
<1>. QED BY <1>11 DEF x, total

LEMMA CorrectionKeeps ==
    ASSUME IInv, IsConfirmed, NEW c, NEW included, IsCorrection(c, included),
           AdvanceUnlessSame(c.after), Reflect(c), UNCHANGED <<cases, revisions>>
    PROVE  IInv'
<1>1. CASE c.after = receipt
  <2>1. UNCHANGED vars
    BY <1>1 DEF AdvanceUnlessSame, Reflect, IsCorrection, vars
  <2>. QED BY <2>1, StutterKeeps
<1>2. CASE c.after # receipt
  <2>1. FiguresFit(receipt) /\ BundlesFit(receipt) /\ BooksFit(receipt, expenses)
    BY ConfirmedFits
  <2>2. receipt' = c.after /\ version' \in 1 .. MaxVersion
    BY <1>2, MaxVersionAssumption
    DEF AdvanceUnlessSame, Advance, CanAdvance, IInv, ReceiptFits
  <2>3. /\ \A e \in Affected(c) : CanReflectCorrection(expenses[e], c)
        /\ expenses' = [e \in DOMAIN expenses |->
                           IF e \in Affected(c) THEN CorrectionReflected(expenses[e], c)
                           ELSE expenses[e]]
    BY <1>2 DEF Reflect, AllReflect, IsCorrection
  <2>4. /\ FiguresFit(receipt') /\ receipt'.bundles = receipt.bundles
        /\ receipt'.selections = receipt.selections
        /\ DOMAIN receipt'.amounts = DOMAIN receipt.amounts
    BY <2>2 DEF IsCorrection
  <2>5. BundlesFit(receipt')
    BY <2>1, <2>4 DEF BundlesFit
  <2>6. receipt'.status = "Confirmed" /\ ReceiptFits'
    BY <2>2, <2>4, <2>5, FiguresParts DEF ReceiptFits
  <2>7. Affected(c) = {receipt.bundles[b].expense : b \in DOMAIN c.cases}
    BY DEF Affected, IsCorrection
  <2>8. ASSUME NEW e \in Affected(c)
        PROVE  ExpenseFits(CorrectionReflected(expenses[e], c), e)
    <3>1. PICK b \in DOMAIN c.cases : e = receipt.bundles[b].expense
      BY <2>7
    <3>. QED BY <2>3, <3>1, ReflectionFits
  <2>9. ExpensesFit'
    BY <2>3, <2>8 DEF IInv, ExpensesFit
  <2>10. ASSUME NEW b \in DOMAIN receipt.bundles
         PROVE  /\ receipt.bundles[b].expense \in DOMAIN expenses'
                /\ expenses'[receipt.bundles[b].expense].total
                       = AmountOf(receipt', receipt.bundles[b].items)
    <3> DEFINE e == receipt.bundles[b].expense
    <3>1. e \in DOMAIN expenses /\ expenses[e].total = AmountOf(receipt, receipt.bundles[b].items)
      BY <2>1 DEF BooksFit
    <3>2. CASE b \in DOMAIN c.cases
      <4>1. e \in Affected(c)
        BY <2>7, <3>2
      <4>2. CorrectionReflected(expenses[e], c).total = AmountOf(c.after, receipt.bundles[b].items)
        BY <2>3, <3>2, <4>1, ReflectionFits
      <4>. QED BY <2>2, <2>3, <3>1, <4>1, <4>2
    <3>3. CASE b \notin DOMAIN c.cases
      <4>1. e \notin Affected(c)
        BY <2>1, <2>7, <3>3, AffectedAreFree DEF BooksFit
      <4>2. \A n \in receipt.bundles[b].items : c.after.adjusted[n] = receipt.adjusted[n]
        BY <3>3, AffectedAreFree
      <4>3. AmountOf(c.after, receipt.bundles[b].items)
                = AmountOf(receipt, receipt.bundles[b].items)
        BY <4>2, AmountsAgree
      <4>. QED BY <2>2, <2>3, <3>1, <4>1, <4>3
    <3>. QED BY <3>2, <3>3
  <2>11. BooksFit(receipt', expenses')
    BY <2>1, <2>4, <2>10, BooksFollow
  <2>12. CasesFit' /\ SettledFactsStand'
    <3> DEFINE changed == Affected(c)
    <3>1. /\ \A e \in DOMAIN expenses \ changed : expenses'[e] = expenses[e]
          /\ \A e \in DOMAIN cases \cap changed :
                 cases[e].lifecycle \notin {"AwaitingApproval", "PaymentActive",
                                            "CancellationPending", "Archived"}
          /\ DOMAIN expenses \subseteq DOMAIN expenses'
      BY <2>3, AffectedAreFree
    <3> HIDE DEF changed
    <3>. QED BY <3>1, FactsStand
  <2>13. SelectionsFit(receipt', DOMAIN cases')
    BY <2>1, <2>4, <2>6 DEF IInv, SelectionsFit, BundlesFit
  <2>. QED BY <2>6, <2>9, <2>11, <2>12, <2>13 DEF IInv
<1>. QED BY <1>1, <1>2

\* What a correction makes of the receipt, when it can be declared.
LEMMA CalculatedFits ==
    ASSUME NEW r, FiguresFit(r), NEW amounts \in Seq(Int), DOMAIN amounts = DOMAIN r.amounts,
           NEW adjustments \in Seq([kind: Kind, amount: Int, target: Nat]), NEW after,
           after = Calculated(r, amounts, adjustments),
           CanDeclare(after.declaredTotal, after.amounts, after.adjustments)
    PROVE  /\ FiguresFit(after)
           /\ after.bundles = r.bundles /\ after.selections = r.selections
           /\ DOMAIN after.amounts = DOMAIN r.amounts
<1> DEFINE total == Total(Adjusted(amounts, adjustments))
<1>1. after = ConfirmedWith(total, amounts, adjustments, r.categories, r.bundles, r.selections)
  <2>1. PICK d, a, j, c, b, s : r = ConfirmedWith(d, a, j, c, b, s)
    BY DEF FiguresFit
  <2>2. r.categories = c /\ r.bundles = b /\ r.selections = s
    BY <2>1, ConfirmedFields
  <2>3. after = ConfirmedWith(total, amounts, adjustments, c, b, s)
    BY <2>1, FiguresCalculated
  <2>. QED BY <2>2, <2>3
<1> HIDE DEF total
<1>2. /\ after.declaredTotal = total /\ after.amounts = amounts
      /\ after.adjustments = adjustments /\ after.categories = r.categories
      /\ after.bundles = r.bundles /\ after.selections = r.selections
  BY <1>1, ConfirmedFields
<1>3. r.categories \in [DOMAIN amounts -> Categories]
  BY DEF FiguresFit
<1>4. FiguresFit(after)
  BY <1>1, <1>2, <1>3 DEF FiguresFit
<1>. QED BY <1>2, <1>4

LEMMA CorrectItemKeeps ==
    ASSUME IInv, CorrectItem
    PROVE  IInv'
<1>1. PICK item \in DOMAIN receipt.amounts, amount \in Amounts :
          \E actor \in Actors, group \in Groups, bundles \in SUBSET BundlesOf(receipt) :
              LET c == ItemAmountCorrected(actor, Owner, group, item,
                                           WithItemAmount(item, amount),
                                           [b \in bundles |-> CaseFact(b)])
              IN  CorrectItemAmount(c) /\ Reflect(c)
  BY DEF CorrectItem
<1> DEFINE after == WithItemAmount(item, amount)
           amounts == [receipt.amounts EXCEPT ![item] = amount]
           adjustments == receipt.adjustments
<1>2. PICK actor \in Actors, group \in Groups, bundles \in SUBSET BundlesOf(receipt) :
          LET c == ItemAmountCorrected(actor, Owner, group, item, after,
                                       [b \in bundles |-> CaseFact(b)])
          IN  CorrectItemAmount(c) /\ Reflect(c)
  BY <1>1
<1> DEFINE c == ItemAmountCorrected(actor, Owner, group, item, after,
                                    [b \in bundles |-> CaseFact(b)])
<1>3. /\ IsConfirmed /\ CanCorrect(c.group, c.after, {item}, c.cases)
      /\ AdvanceUnlessSame(c.after) /\ Reflect(c)
  <2>1. CorrectItemAmount(c) /\ Reflect(c)
    BY <1>2
  <2>2. c.item = item
    BY DEF ItemAmountCorrected
  <2>. QED BY <2>1, <2>2 DEF CorrectItemAmount, CanCorrectItemAmount
<1>4. /\ c.before = receipt /\ c.after = after
      /\ \A b \in DOMAIN c.cases : c.cases[b] = CaseFact(b)
  BY DEF ItemAmountCorrected
<1>5. FiguresFit(receipt)
  BY <1>3, ConfirmedFits
<1>6. /\ amounts \in Seq(Int) /\ DOMAIN amounts = DOMAIN receipt.amounts
      /\ adjustments \in Seq([kind: Kind, amount: Int, target: Nat])
  BY <1>5, BundlesAssumption DEF FiguresFit
<1>7. after = Calculated(receipt, amounts, adjustments)
  BY DEF WithItemAmount
<1>8. CanDeclare(after.declaredTotal, after.amounts, after.adjustments)
  BY <1>3, <1>4 DEF CanCorrect
<1> HIDE DEF after, amounts, adjustments, c
<1>9. /\ FiguresFit(after)
      /\ after.bundles = receipt.bundles /\ after.selections = receipt.selections
      /\ DOMAIN after.amounts = DOMAIN receipt.amounts
  BY <1>5, <1>6, <1>7, <1>8, CalculatedFits
<1>10. IsCorrection(c, {item})
  BY <1>3, <1>4, <1>9 DEF IsCorrection
<1>11. UNCHANGED <<cases, revisions>>
  BY DEF CorrectItem
<1>. QED BY <1>3, <1>10, <1>11, CorrectionKeeps

LEMMA CorrectAdjustmentKeeps ==
    ASSUME IInv, CorrectAdjustment
    PROVE  IInv'
<1>1. PICK k \in DOMAIN receipt.adjustments, size \in Amounts, sign \in {-1, 1} :
          \E actor \in Actors, group \in Groups, bundles \in SUBSET BundlesOf(receipt) :
              LET c == AdjustmentAmountCorrected(actor, Owner, group, k,
                                                 WithAdjustmentAmount(k, sign * size),
                                                 [b \in bundles |-> CaseFact(b)])
              IN  CorrectAdjustmentAmount(c) /\ Reflect(c)
  BY DEF CorrectAdjustment
<1> DEFINE amount == sign * size
           after == WithAdjustmentAmount(k, amount)
           adjustments == [receipt.adjustments EXCEPT ![k].amount = amount]
<1>2. PICK actor \in Actors, group \in Groups, bundles \in SUBSET BundlesOf(receipt) :
          LET c == AdjustmentAmountCorrected(actor, Owner, group, k, after,
                                             [b \in bundles |-> CaseFact(b)])
          IN  CorrectAdjustmentAmount(c) /\ Reflect(c)
  BY <1>1
<1>3. amount \in Int
  BY <1>1, BundlesAssumption
<1> HIDE DEF amount
<1> DEFINE c == AdjustmentAmountCorrected(actor, Owner, group, k, after,
                                          [b \in bundles |-> CaseFact(b)])
           included == Footprint(k, c.after.adjustments[k].amount)
<1>4. /\ IsConfirmed /\ CanCorrect(c.group, c.after, included, c.cases)
      /\ AdvanceUnlessSame(c.after) /\ Reflect(c)
  <2>1. CorrectAdjustmentAmount(c) /\ Reflect(c)
    BY <1>2
  <2>2. c.adjustment = k
    BY DEF AdjustmentAmountCorrected
  <2>. QED BY <2>1, <2>2 DEF CorrectAdjustmentAmount, CanCorrectAdjustmentAmount
<1>5. /\ c.before = receipt /\ c.after = after
      /\ \A b \in DOMAIN c.cases : c.cases[b] = CaseFact(b)
  BY DEF AdjustmentAmountCorrected
<1>6. FiguresFit(receipt)
  BY <1>4, ConfirmedFits
<1> DEFINE Item == [kind: Kind, amount: Int, target: Nat]
<1>7. receipt.amounts \in Seq(Int) /\ adjustments \in Seq(Item)
  <2> DEFINE all == receipt.adjustments
             old == all[k]
             new == [old EXCEPT !.amount = amount]
  <2>1. receipt.amounts \in Seq(Int) /\ all \in Seq(Item) /\ k \in DOMAIN all
    BY <1>1, <1>6 DEF FiguresFit
  <2>2. adjustments = [all EXCEPT ![k] = new]
    OBVIOUS
  <2> HIDE DEF all, adjustments, Item
  <2>3. old \in Item
    BY <2>1
  <2> HIDE DEF old
  <2>4. new \in Item
    BY <1>3, <2>3 DEF Item
  <2> HIDE DEF new
  <2>5. adjustments \in Seq(Item)
    BY <2>1, <2>2, <2>4
  <2>. QED BY <2>1, <2>5
<1>8. after = Calculated(receipt, receipt.amounts, adjustments)
  BY DEF WithAdjustmentAmount
<1>9. CanDeclare(after.declaredTotal, after.amounts, after.adjustments)
  BY <1>4, <1>5 DEF CanCorrect
<1> HIDE DEF after, adjustments, c, included
<1>10. /\ FiguresFit(after)
       /\ after.bundles = receipt.bundles /\ after.selections = receipt.selections
       /\ DOMAIN after.amounts = DOMAIN receipt.amounts
  BY <1>6, <1>7, <1>8, <1>9, CalculatedFits
<1>11. IsCorrection(c, included)
  BY <1>4, <1>5, <1>10 DEF IsCorrection
<1>12. UNCHANGED <<cases, revisions>>
  BY DEF CorrectAdjustment
<1>. QED BY <1>4, <1>11, <1>12, CorrectionKeeps


-----------------------------------------------------------------------------
(* Steps of a case.                                                        *)

\* The receipt with one more selection, or the same one again.
LEMMA SelectionRecorded ==
    ASSUME IInv, NEW b, NEW e, NEW group, NEW snapshot \in Snapshots,
           RecordBundleSnapshotSelection(b, e, group, snapshot)
    PROVE  /\ ReceiptFits' /\ IsConfirmed'
           /\ BooksFit(receipt', expenses)
           /\ SelectionsFit(receipt', DOMAIN cases \cup {e})
<1> DEFINE s == [c \in DOMAIN receipt.selections \cup {b} |->
                    IF c = b THEN snapshot ELSE receipt.selections[c]]
           after == [receipt EXCEPT !.selections = s]
<1>1. /\ IsConfirmed /\ b \in DOMAIN receipt.bundles /\ receipt.bundles[b].expense = e
      /\ AdvanceUnlessSame(after)
  BY DEF RecordBundleSnapshotSelection, BundlesOf
<1>2. FiguresFit(receipt) /\ BundlesFit(receipt)
  BY <1>1, ConfirmedFits
<1>3. /\ DOMAIN s = DOMAIN receipt.selections \cup {b}
      /\ \A c \in DOMAIN s : s[c] \in Snapshots
  BY <1>2 DEF BundlesFit
<1> HIDE DEF s
<1>4. after = ConfirmedWith(receipt.declaredTotal, receipt.amounts, receipt.adjustments,
                            receipt.categories, receipt.bundles, s)
  <2>1. PICK d, a, j, c, bundles, old : receipt = ConfirmedWith(d, a, j, c, bundles, old)
    BY <1>2 DEF FiguresFit
  <2>2. /\ receipt.declaredTotal = d /\ receipt.amounts = a /\ receipt.adjustments = j
        /\ receipt.categories = c /\ receipt.bundles = bundles
    BY <2>1, ConfirmedFields
  <2>3. after = ConfirmedWith(d, a, j, c, bundles, s)
    BY <2>1 DEF ConfirmedWith
  <2>. QED BY <2>2, <2>3
<1> HIDE DEF after
<1>5. /\ FiguresFit(after) /\ after.bundles = receipt.bundles /\ after.selections = s
      /\ after.amounts = receipt.amounts /\ after.adjusted = receipt.adjusted
  <2>1. receipt.categories \in [DOMAIN receipt.amounts -> Categories]
    BY <1>2 DEF FiguresFit
  <2>. QED BY <1>2, <1>4, <2>1, FiguresKept
<1>6. BundlesFit(after)
  BY <1>1, <1>2, <1>3, <1>5 DEF BundlesFit
<1>7. /\ receipt' = after /\ ReceiptFits' /\ IsConfirmed'
      /\ BooksFit(after, expenses) /\ SelectionsFit(after, DOMAIN cases)
  BY <1>1, <1>3, <1>5, <1>6, ReceiptMoves
<1>8. SelectionsFit(after, DOMAIN cases \cup {e})
  <2>1. after.status = "Confirmed"
    BY <1>5, FiguresParts
  <2>2. b \in DOMAIN after.selections /\ after.bundles[b].expense = e
    BY <1>1, <1>3, <1>5
  <2>. QED BY <1>7, <2>1, <2>2 DEF SelectionsFit
<1>. QED BY <1>7, <1>8

LEMMA SelectKeeps ==
    ASSUME IInv, NEW e, NEW snapshot \in Snapshots, Select(e, snapshot)
    PROVE  IInv'
<1> DEFINE case == [lifecycle |-> "AwaitingApproval", allTargetsReleased |-> FALSE]
           facts == Facts(expenses[e])
<1>1. /\ e \in DOMAIN expenses /\ cases' = With(cases, e, case)
      /\ revisions' = With(revisions, e, facts) /\ expenses' = expenses
  BY DEF Select
<1>2. case \in [lifecycle: Lifecycle, allTargetsReleased: BOOLEAN]
  BY DEF Lifecycle
<1> HIDE DEF case, facts
<1>3. /\ DOMAIN cases' = DOMAIN cases \cup {e} /\ cases'[e] = case
      /\ DOMAIN revisions' = DOMAIN revisions \cup {e} /\ revisions'[e] = facts
      /\ \A d \in DOMAIN cases \ {e} : cases'[d] = cases[d]
      /\ \A d \in DOMAIN revisions \ {e} : revisions'[d] = revisions[d]
  BY <1>1 DEF With
<1>4. CasesFit'
  BY <1>1, <1>2, <1>3 DEF IInv, CasesFit
<1>5. SettledFactsStand'
  BY <1>1, <1>3 DEF IInv, CasesFit, SettledFactsStand, facts
<1>6. ExpensesFit'
  BY <1>1 DEF IInv, ExpensesFit
<1>7. /\ ReceiptFits' /\ (IsConfirmed' => BooksFit(receipt', expenses))
      /\ SelectionsFit(receipt', DOMAIN cases \cup {e})
  <2>1. CASE e \in Paired /\ e \notin DOMAIN cases
    <3>1. PICK b \in BundlesOf(receipt) :
              RecordBundleSnapshotSelection(b, e, expenses[e].group, snapshot)
      BY <2>1 DEF Select
    <3>. QED BY <3>1, SelectionRecorded
  <2>2. CASE ~ (e \in Paired /\ e \notin DOMAIN cases)
    <3>1. UNCHANGED <<receipt, version>>
      BY <2>2 DEF Select, receiptVars
    <3>2. ReceiptFits' /\ (IsConfirmed' => BooksFit(receipt', expenses))
      BY <3>1 DEF IInv, ReceiptFits, IsConfirmed
    <3>3. SelectionsFit(receipt', DOMAIN cases \cup {e})
      BY <2>2, <3>1 DEF IInv, SelectionsFit
    <3>. QED BY <3>2, <3>3
  <2>. QED BY <2>1, <2>2
<1>. QED BY <1>1, <1>3, <1>4, <1>5, <1>6, <1>7 DEF IInv

LEMMA SelectAgainKeeps ==
    ASSUME IInv, NEW b, SelectAgain(b)
    PROVE  IInv'
<1>1. PICK snapshot \in Snapshots :
          RecordBundleSnapshotSelection(b, ExpenseOf(b), receipt.bundles[b].group, snapshot)
  BY DEF SelectAgain
<1> DEFINE e == ExpenseOf(b)
<1>2. /\ ReceiptFits' /\ BooksFit(receipt', expenses)
      /\ SelectionsFit(receipt', DOMAIN cases \cup {e})
  BY <1>1, SelectionRecorded
<1>3. UNCHANGED <<expenses, cases, revisions>>
  BY DEF SelectAgain
<1>4. ExpensesFit' /\ CasesFit' /\ SettledFactsStand'
  BY <1>3, OthersUnchanged
<1>5. SelectionsFit(receipt', DOMAIN cases)
  BY <1>2 DEF SelectionsFit
<1>. QED BY <1>2, <1>3, <1>4, <1>5 DEF IInv

\* The receipt and the expenses do not change.
LEMMA BooksUnchanged ==
    ASSUME IInv, UNCHANGED <<receiptVars, expenses>>, DOMAIN cases' = DOMAIN cases
    PROVE  /\ ReceiptFits' /\ ExpensesFit' /\ (IsConfirmed' => BooksFit(receipt', expenses'))
           /\ SelectionsFit(receipt', DOMAIN cases')
  BY DEF IInv, receiptVars, ReceiptFits, ExpensesFit, IsConfirmed

\* Only a case that the facts stand for gets to a lifecycle they have to stand for.
LEMMA StepOfCaseKeeps ==
    ASSUME IInv, NEW e, StepOfCase(e)
    PROVE  IInv'
<1>1. PICK l \in Lifecycle :
          /\ <<cases[e].lifecycle, l>> \in Transitions
          /\ cases' = [cases EXCEPT ![e].lifecycle = l]
  BY DEF StepOfCase
<1>2. /\ e \in DOMAIN cases /\ UNCHANGED <<receiptVars, expenses, revisions>>
  BY DEF StepOfCase
<1>3. cases[e] \in [lifecycle: Lifecycle, allTargetsReleased: BOOLEAN]
  BY <1>2 DEF IInv, CasesFit
<1>4. /\ DOMAIN cases' = DOMAIN cases /\ cases'[e].lifecycle = l
      /\ cases'[e] \in [lifecycle: Lifecycle, allTargetsReleased: BOOLEAN]
      /\ \A d \in DOMAIN cases \ {e} : cases'[d] = cases[d]
  BY <1>1, <1>2, <1>3
<1>5. CasesFit'
  BY <1>2, <1>4 DEF IInv, CasesFit
<1>6. SettledFactsStand'
  BY <1>1, <1>2, <1>4 DEF IInv, SettledFactsStand, Transitions
<1>7. /\ ReceiptFits' /\ ExpensesFit' /\ (IsConfirmed' => BooksFit(receipt', expenses'))
      /\ SelectionsFit(receipt', DOMAIN cases')
  BY <1>2, <1>4, BooksUnchanged
<1>. QED BY <1>5, <1>6, <1>7 DEF IInv

\* A resubmission takes the facts as they are.
LEMMA ResubmitKeeps ==
    ASSUME IInv, NEW e, Resubmit(e)
    PROVE  IInv'
<1>1. /\ e \in DOMAIN cases /\ UNCHANGED <<receiptVars, expenses>>
      /\ cases' = [cases EXCEPT ![e].lifecycle = "AwaitingApproval"]
      /\ revisions' = [revisions EXCEPT ![e] = Facts(expenses[e])]
  BY DEF Resubmit
<1>2. /\ cases[e] \in [lifecycle: Lifecycle, allTargetsReleased: BOOLEAN]
      /\ "AwaitingApproval" \in Lifecycle
  BY <1>1 DEF IInv, CasesFit, Lifecycle
<1>3. /\ DOMAIN cases' = DOMAIN cases
      /\ cases'[e] \in [lifecycle: Lifecycle, allTargetsReleased: BOOLEAN]
      /\ \A d \in DOMAIN cases \ {e} : cases'[d] = cases[d]
  BY <1>1, <1>2
<1>4. /\ DOMAIN revisions' = DOMAIN revisions /\ revisions'[e] = Facts(expenses[e])
      /\ \A d \in DOMAIN revisions \ {e} : revisions'[d] = revisions[d]
  BY <1>1 DEF IInv, CasesFit
<1>5. CasesFit'
  BY <1>1, <1>3, <1>4 DEF IInv, CasesFit
<1>6. SettledFactsStand'
  BY <1>1, <1>3, <1>4 DEF IInv, CasesFit, SettledFactsStand
<1>7. /\ ReceiptFits' /\ ExpensesFit' /\ (IsConfirmed' => BooksFit(receipt', expenses'))
      /\ SelectionsFit(receipt', DOMAIN cases')
  BY <1>1, <1>3, BooksUnchanged
<1>. QED BY <1>5, <1>6, <1>7 DEF IInv

LEMMA ReleaseKeeps ==
    ASSUME IInv, NEW e, Release(e)
    PROVE  IInv'
<1>1. /\ e \in DOMAIN cases /\ UNCHANGED <<receiptVars, expenses, revisions>>
      /\ cases' = [cases EXCEPT ![e].allTargetsReleased = TRUE]
  BY DEF Release
<1>2. cases[e] \in [lifecycle: Lifecycle, allTargetsReleased: BOOLEAN]
  BY <1>1 DEF IInv, CasesFit
<1>3. /\ DOMAIN cases' = DOMAIN cases /\ cases'[e].lifecycle = cases[e].lifecycle
      /\ cases'[e] \in [lifecycle: Lifecycle, allTargetsReleased: BOOLEAN]
      /\ \A d \in DOMAIN cases \ {e} : cases'[d] = cases[d]
  BY <1>1, <1>2
<1>4. CasesFit'
  BY <1>1, <1>3 DEF IInv, CasesFit
<1>5. SettledFactsStand'
  BY <1>1, <1>3 DEF IInv, SettledFactsStand
<1>6. /\ ReceiptFits' /\ ExpensesFit' /\ (IsConfirmed' => BooksFit(receipt', expenses'))
      /\ SelectionsFit(receipt', DOMAIN cases')
  BY <1>1, <1>3, BooksUnchanged
<1>. QED BY <1>4, <1>5, <1>6 DEF IInv


-----------------------------------------------------------------------------
(* The theorems.                                                           *)

LEMMA InitHolds == ReceiptBundlesInit => IInv
<1> SUFFICES ASSUME ReceiptBundlesInit
             PROVE  IInv
  OBVIOUS
<1>1. DOMAIN None = {}
  BY DEF None
<1>2. receipt.status = "Draft" /\ version \in 1 .. MaxVersion
  BY BundlesAssumption, MaxVersionAssumption DEF ReceiptBundlesInit, CreateDraft
<1>3. expenses = None /\ cases = None /\ revisions = None
  BY DEF ReceiptBundlesInit
<1>4. ReceiptFits /\ ~ IsConfirmed
  BY <1>2 DEF ReceiptFits, IsConfirmed
<1>5. ExpensesFit /\ CasesFit /\ SelectionsFit(receipt, DOMAIN cases) /\ SettledFactsStand
  BY <1>1, <1>3 DEF ExpensesFit, CasesFit, SelectionsFit, SettledFactsStand
<1>. QED BY <1>4, <1>5 DEF IInv

LEMMA NextKeeps == IInv /\ [ReceiptBundlesNext]_vars => IInv'
<1> SUFFICES ASSUME IInv, [ReceiptBundlesNext]_vars
             PROVE  IInv'
  OBVIOUS
<1>1. ASSUME NEW actor \in Actors, Edit(actor) PROVE IInv'
  BY <1>1, EditKeeps
<1>2. ASSUME NEW actor \in Actors, Review(actor) PROVE IInv'
  BY <1>2, ReviewKeeps
<1>3. ASSUME NEW actor \in Actors, Recategorise(actor) PROVE IInv'
  BY <1>3, RecategoriseKeeps
<1>4. ASSUME NEW actor \in Actors, EnterExpense(actor) PROVE IInv'
  BY <1>4, EnterExpenseKeeps
<1>5. ASSUME NEW actor \in Actors, CorrectAmount(actor) PROVE IInv'
  BY <1>5, CorrectAmountKeeps
<1>6. ASSUME NEW actor \in Actors, Bundle_(actor) PROVE IInv'
  BY <1>6, BundleKeeps
<1>7. ASSUME NEW actor \in Actors, ChangeSplit(actor) PROVE IInv'
  BY <1>7, ChangeSplitKeeps
<1>8. ASSUME NEW actor \in Actors, Move(actor) PROVE IInv'
  BY <1>8, MoveKeeps
<1>9. CASE CorrectItem
  BY <1>9, CorrectItemKeeps
<1>10. CASE CorrectAdjustment
  BY <1>10, CorrectAdjustmentKeeps
<1>11. ASSUME NEW e \in Expenses, NEW snapshot \in Snapshots, Select(e, snapshot) PROVE IInv'
  BY <1>11, SelectKeeps
<1>12. ASSUME NEW e \in Expenses, StepOfCase(e) PROVE IInv'
  BY <1>12, StepOfCaseKeeps
<1>13. ASSUME NEW e \in Expenses, Resubmit(e) PROVE IInv'
  BY <1>13, ResubmitKeeps
<1>14. ASSUME NEW e \in Expenses, Release(e) PROVE IInv'
  BY <1>14, ReleaseKeeps
<1>15. ASSUME NEW b \in Bundles, SelectAgain(b) PROVE IInv'
  BY <1>15, SelectAgainKeeps
<1>16. CASE UNCHANGED vars
  BY <1>16, StutterKeeps
<1>. QED BY <1>1, <1>2, <1>3, <1>4, <1>5, <1>6, <1>7, <1>8, <1>9, <1>10, <1>11, <1>12, <1>13,
            <1>14, <1>15, <1>16 DEF ReceiptBundlesNext

\* A receipt that fits is well typed.
LEMMA ReceiptWellTyped == IInv => ReceiptTypeOK
<1> SUFFICES ASSUME IInv
             PROVE  ReceiptTypeOK
  OBVIOUS
<1>1. receipt.status \in {"Draft", "Confirmed"} /\ version \in 1 .. MaxVersion
  BY FiguresParts DEF IInv, ReceiptFits
<1>2. ASSUME IsConfirmed
      PROVE  /\ IsAmount(receipt.declaredTotal)
             /\ \A n \in DOMAIN receipt.amounts :
                    /\ IsAmount(receipt.amounts[n])
                    /\ IsAmount(receipt.adjusted[n])
                    /\ receipt.categories[n] \in Categories
             /\ \A k \in DOMAIN receipt.adjustments : receipt.adjustments[k] \in Adjustment
  <2>1. FiguresFit(receipt)
    BY <1>2, ConfirmedFits
  <2>2. /\ IsAmount(receipt.declaredTotal) /\ CanCalculate(receipt.amounts, receipt.adjustments)
        /\ receipt.categories \in [DOMAIN receipt.amounts -> Categories]
    BY <2>1 DEF FiguresFit, CanDeclare
  <2>3. receipt.adjusted = Adjusted(receipt.amounts, receipt.adjustments)
    BY <2>1, FiguresParts
  <2>4. ASSUME NEW k \in DOMAIN receipt.adjustments
        PROVE  receipt.adjustments[k] \in Adjustment
    <3> DEFINE all == receipt.adjustments
               a == all[k]
               Unbounded == [kind: Kind, amount: Int, target: Nat]
    <3>1. all \in Seq(Unbounded) /\ k \in DOMAIN all
      BY <2>1 DEF FiguresFit
    <3>2. Size(a.amount) <= MaxAmount
      BY <2>2 DEF CanCalculate, CanSpread
    <3> HIDE DEF all, Unbounded
    <3>3. a \in Unbounded
      BY <3>1
    <3> HIDE DEF a
    <3>4. a \in Adjustment
      BY <3>2, <3>3, MaxAmountAssumption DEF Unbounded, Adjustment, Size
    <3>. QED BY <3>4 DEF a, all
  <2>5. \A n \in DOMAIN receipt.amounts :
            IsAmount(receipt.amounts[n]) /\ IsAmount(receipt.adjusted[n])
    BY <2>2, <2>3 DEF CanCalculate
  <2>. QED BY <2>2, <2>4, <2>5
<1>3. IsConfirmed => BundlesFit(receipt)
  BY ConfirmedFits
<1>. QED BY <1>1, <1>2, <1>3 DEF ReceiptTypeOK, IsConfirmed, BundlesFit

LEMMA BooksAgreeHolds == IInv => BooksAgree
<1> SUFFICES ASSUME IInv
             PROVE  BooksAgree
  OBVIOUS
<1>1. ASSUME NEW e \in DOMAIN expenses
      PROVE  /\ expenses[e].id = e
             /\ expenses[e].group \in Groups
             /\ IsTotal(expenses[e].total)
             /\ CanSplit(expenses[e].percentages, expenses[e].payer)
             /\ expenses[e].version \in 1 .. MaxExpenseVersion + 1
             /\ expenses[e].history \in [History -> SUBSET (2 .. MaxExpenseVersion + 1)]
             /\ expenses[e].burdens
                    = Burdens(expenses[e].total, expenses[e].percentages, expenses[e].payer)
             /\ UNION {expenses[e].history[h] : h \in History} = 2 .. expenses[e].version
             /\ \A g, h \in History :
                    g # h => expenses[e].history[g] \cap expenses[e].history[h] = {}
  <2> DEFINE x == expenses[e]
  <2>1. ExpenseFits(x, e)
    BY DEF IInv, ExpensesFit
  <2> HIDE DEF x
  <2>2. x.id = e /\ x.burdens = Burdens(x.total, x.percentages, x.payer)
    BY <2>1 DEF ExpenseFits
  <2>3. /\ x.group \in Groups /\ IsTotal(x.total) /\ CanSplit(x.percentages, x.payer)
        /\ x.version \in 1 .. MaxExpenseVersion + 1
        /\ x.history \in [History -> SUBSET (2 .. MaxExpenseVersion + 1)]
        /\ UNION {x.history[h] : h \in History} = 2 .. x.version
        /\ \A g, h \in History : g # h => x.history[g] \cap x.history[h] = {}
    BY <2>1, Zenon DEF ExpenseFits, CanRegister
  <2>. QED BY <2>2, <2>3, Zenon DEF x
<1>2. ReceiptBundlesTypeOK
  BY <1>1, ReceiptWellTyped DEF ReceiptBundlesTypeOK, IInv, ExpensesFit, CasesFit
<1>3. BundlesArePartition /\ BundleMatchesExpense
  BY DEF IInv, BooksFit, BundlesArePartition, BundleMatchesExpense, BundlesOf, ExpenseOf
<1>4. BurdensFollowTheSplit /\ NoHistoryLost
  BY <1>1 DEF BurdensFollowTheSplit, NoHistoryLost
<1>. QED BY <1>2, <1>3, <1>4 DEF BooksAgree

\* After any series of confirmations, bundles, splits, movements, corrections and
\* selections, the expense of every bundle of the receipt has the adjusted amount of
\* its items, no item is in two bundles, burdens are those of the present split and no
\* version is missing in a history (registerBundle, moveBundleItems,
\* financialCorrectionCandidate and the reflecting methods of the expense).
THEOREM BooksAlwaysAgree == Spec => []BooksAgree
<1>1. Spec => []IInv
  BY InitHolds, NextKeeps, PTL DEF Spec
<1>2. IInv => BooksAgree
  BY BooksAgreeHolds
<1>. QED BY <1>1, <1>2, PTL

\* While a case is awaiting approval, being paid, being cancelled or archived, no
\* correction, movement or split changes the expense it selected
\* (CaseAllows: financialCorrectionCandidate; correctAmount; requireEditableBundle).
THEOREM SettledFactsAlwaysStand == Spec => []SettledFactsStand
<1>1. Spec => []IInv
  BY InitHolds, NextKeeps, PTL DEF Spec
<1>2. IInv => SettledFactsStand
  BY DEF IInv
<1>. QED BY <1>1, <1>2, PTL
=============================================================================
