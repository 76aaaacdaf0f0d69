---------------------------- MODULE MCAggregates ----------------------------
(***************************************************************************)
(* The aggregates of two contexts.  A group by itself, under any commands  *)
(* and receipts (Group), or closed and reopened together with the contexts *)
(* (GroupClose).  A settlement case (SettlementCase) over contents fixed   *)
(* from expenses (SnapshotContent); by themselves, the fixing of every     *)
(* small selection of expenses, and the derivation of payments             *)
(* (PaymentDerivation) from every small level balance.  Every behaviour is *)
(* one of the part it starts with.  The ids are interchangeable, the       *)
(* instants are not.                                                       *)
(***************************************************************************)
EXTENDS GroupClose, SettlementCase, SnapshotContent, Functions, TLC

CONSTANTS
    MaxShown,           \* bound on the participants of the selected expenses
    MaxTotal,           \* bound on the amount of an expense
    MaxExpenses,        \* bound on the expenses selected
    MaxParticipants,    \* bound on the participants with balances
    MaxAmount,          \* bound on what one of them owes or is owed
    Nobody              \* who stands for the group of the other parts

VARIABLES
    part,
    expenses,           \* the expenses selected
    balances, payments  \* balances, and the payments derived from them

derivationVars == <<balances, payments>>
settlementVars == <<caseVars, expenses, derivationVars>>

-----------------------------------------------------------------------------
(* The contents a case is started with and corrected by: one payment, two  *)
(* payments, level balances, one participant alone, and other expenses.    *)

Share(p, percentage, burden) ==
    [participant |-> p, joinOrder |-> p, percentage |-> percentage, burden |-> burden]

Expense(id, payer, shares) ==
    [id |-> id, groupId |-> "g", payer |-> payer, allocations |-> shares,
     amount |-> FoldLeft(LAMBDA sum, a : sum + a.burden, 0, shares)]

Halves(id, payer) == Expense(id, payer, <<Share(1, 50, 5), Share(2, 50, 5)>>)

Selections ==
    {<<"t", <<Halves(1, 2)>>>>,
     <<"t", <<Expense(1, 3, <<Share(1, 30, 3), Share(2, 30, 3), Share(3, 40, 4)>>)>>>>,
     <<"t", <<Halves(1, 1), Halves(2, 2)>>>>,
     <<"t", <<Expense(1, 3, <<Share(3, 100, 2)>>)>>>>,
     <<"u", <<Halves(3, 2)>>>>}

Content(target, approvers, candidates) ==
    [target |-> target, requiredApprovers |-> approvers, candidates |-> candidates]
Payment(payer, payee) == [payer |-> payer, payee |-> payee]

MCContents ==
    {Content("t", {1, 2}, {Payment(1, 2)}),
     Content("t", {1, 2, 3}, {Payment(1, 3), Payment(2, 3)}),
     Content("t", {1, 2}, {}),
     Content("t", {3}, {}),
     Content("u", {1, 2}, {Payment(1, 2)})}

ContentOf(target, selected) ==
    LET content == ContentFrom(selected)
    IN  Content(target, ToSet(content.requiredApproverIds),
                {Payment(c.payer, c.payee) : c \in ToSet(content.candidates)})

\* They are what becomes of expenses that can be selected.
ASSUME ContentsAreFixed ==
    /\ \A s \in Selections : CanFix("g", s[2])
    /\ MCContents = {ContentOf(s[1], s[2]) : s \in Selections}

-----------------------------------------------------------------------------
(* Every selection of one or two small expenses of up to three             *)
(* participants, some of which say that somebody joined at another's place.*)

Percentages == {0, 50, 100}

\* The participants in their order, or with the places of the last two exchanged.
Places(S) ==
    {[p \in S |-> p], [p \in S |-> IF p = 1 THEN 1 ELSE MaxShown + 2 - p]}

\* What one expense can look like, before it is judged.
ExpensesOf ==
    UNION {{[groupId |-> "g", amount |-> amount, payer |-> payer,
             allocations |->
                 [i \in 1 .. Cardinality(S) |->
                     LET p == SetToSortSeq(S, >)[i]
                     IN  [participant |-> p, joinOrder |-> place[p],
                          percentage |-> share[p], burden |-> burden[p]]]] :
              amount \in 0 .. MaxTotal, payer \in S,
              place \in Places(S), share \in [S -> Percentages],
              burden \in [S -> 0 .. MaxTotal]} :
           S \in (SUBSET (1 .. MaxShown)) \ {{}}}

Allocated == {x \in ExpensesOf : IsAllocated(x)}

\* One more expense is selected.
Select ==
    /\ Len(expenses) < MaxExpenses
    /\ \E x \in Allocated, id \in 1 .. Len(expenses) + 1 :
           LET selected == Append(expenses, [id |-> id] @@ x)
           IN  CanFix("g", selected) /\ expenses' = selected

-----------------------------------------------------------------------------
(* All level balances of up to five participants with small amounts.       *)

\* The participants are named in the order they joined, or in another order.
JoinOrders(n) ==
    {[i \in 1 .. n |-> i], [i \in 1 .. n |-> IF i % 2 = 0 THEN i ELSE 2 * n + 1 - i]}

Derive ==
    /\ payments' = DerivePaymentInstructionCandidates(balances)
    /\ UNCHANGED balances

-----------------------------------------------------------------------------
(* The parts.  Outside of its part the state of a component is left out.    *)

NoCase ==
    /\ caseStatus = "AwaitingApproval" /\ version = 0 /\ revisions = <<>>
    /\ snapshotId = NoWithdrawal /\ approvals = {} /\ attempts = <<>>
    /\ cancellations = <<>> /\ withdrawal = NoWithdrawal

NoGroup ==
    /\ Create(Nobody, Nobody, 0)
    /\ started = {} /\ fence = <<>> /\ fenceReceipts = {} /\ unfenceReceipts = {}
    /\ reservations = {} /\ running = {} /\ openWork = {}

GroupParts == {"group", "contexts"}

PartInit ==
    /\ part \in GroupParts \cup {"case", "selection", "derivation"}
    /\ IF part \in GroupParts THEN CloseInit ELSE NoGroup
    /\ part = "group" => openWork = {}
    /\ IF part = "case" THEN CaseInit ELSE NoCase
    /\ expenses = <<>> /\ payments = <<>>
    /\ IF part = "derivation"
       THEN \E n \in 1 .. MaxParticipants :
                \E amounts \in [1 .. n -> -MaxAmount .. MaxAmount], order \in JoinOrders(n) :
                    /\ balances = [i \in 1 .. n |->
                                      [id |-> i, joinOrder |-> order[i], amount |-> amounts[i]]]
                    /\ CanDerive(balances)
       ELSE balances = <<>>

PartNext ==
    /\ UNCHANGED part
    /\ \/ part = "group" /\ Next
                        /\ UNCHANGED <<started, contextVars, reservations, settlementVars>>
       \/ part = "contexts" /\ CloseNext /\ UNCHANGED settlementVars
       \/ part = "case" /\ CaseNext /\ UNCHANGED <<expenses, derivationVars, closeVars>>
       \/ part = "selection" /\ Select /\ UNCHANGED <<caseVars, derivationVars, closeVars>>
       \/ part = "derivation" /\ Derive /\ UNCHANGED <<caseVars, expenses, closeVars>>

PartSpec == PartInit /\ [][PartNext]_<<part, settlementVars, closeVars>>

Symmetry ==
    Permutations(SnapshotIds) \cup Permutations(InstructionIds)
        \cup Permutations(AttemptIds) \cup Permutations(CancellationIds)
        \cup Permutations(Subjects) \cup Permutations(ParticipantIds)
        \cup Permutations(InvitationIds) \cup Permutations(CloseIntentIds)

-----------------------------------------------------------------------------
\* Like the last days of a February and those of the year after, two instants
\* can have their year end in the same one.
MCRetentionEnd == [t \in Instants |-> 5 + t \div 2]

\* Bounds: by itself the group goes through eight changes; receipts are recorded for
\* a group of one member, over the first two instants, while closings without
\* receipts start in groups of any membership.
GroupIsSmall ==
    /\ accessPolicyVersion <= 9
    /\ closing # Null /\ closing.fenceReceipts # {} =>
           /\ Cardinality(DOMAIN participants) = 1
           /\ DOMAIN invitations = {}
           /\ \A p \in DOMAIN participants : participants[p].joinedAt = 0
           /\ closing.cutoff <= 1
           /\ \A r \in closing.fenceReceipts \cup closing.unfenceReceipts :
                  r.completedAt <= 1

\* With its contexts, everything carries one instant: they put the steps in order.
OneInstant ==
    /\ \A p \in DOMAIN participants : participants[p].joinedAt = 0
    /\ \A s \in started : s.cutoff = 0
    /\ \A r \in fenceReceipts \cup unfenceReceipts : r.completedAt = 0

Bounds ==
    /\ part = "group" => GroupIsSmall
    /\ part = "contexts" => OneInstant

-----------------------------------------------------------------------------
Fixed == ContentFrom(expenses)

\* What p still owes of the expense x, from the expense alone.
Owes(x, p) ==
    LET bears == {a \in ToSet(x.allocations) : a.participant = p}
    IN  (IF bears = {} THEN 0 ELSE (CHOOSE a \in bears : TRUE).burden)
        - (IF x.payer = p THEN x.amount ELSE 0)

Gets(candidates, p) ==
    FoldLeft(LAMBDA sum, c : CASE c.payee = p -> sum + c.amount
                               [] c.payer = p -> sum - c.amount
                               [] OTHER -> sum,
             0, candidates)

EverybodyBearsTheBurden ==
    \A p \in {a.participant : a \in AllAllocations(expenses)} :
        FoldLeft(LAMBDA sum, x : sum + Owes(x, p), 0, expenses) + Gets(Fixed.candidates, p) = 0

PartiesApprove ==
    LET approvers == ToSet(Fixed.requiredApproverIds)
    IN  /\ approvers # {}
        /\ \A c \in ToSet(Fixed.candidates) :
               {c.payer, c.payee} \subseteq approvers /\ c.payer # c.payee

(* Expenses that can be selected together have level balances, so that the *)
(* search for payments accepts them; once its payments are made everybody  *)
(* has borne exactly the burdens, over expenses with different payers; and *)
(* nobody pays or is paid who is not asked to approve                      *)
(* (SettlementSnapshotContent.from).                                       *)
ContentsSettleExpenses ==
    expenses # <<>> =>
        CanDerive(Balances(expenses)) /\ EverybodyBearsTheBurden /\ PartiesApprove

Debtors == {i \in DOMAIN balances : balances[i].amount < 0}
Creditors == {i \in DOMAIN balances : balances[i].amount > 0}
Size(i) == IF i \in Debtors THEN -balances[i].amount ELSE balances[i].amount

\* The payments given by a function from pairs of payer and payee level all balances.
Levels(flow) ==
    /\ \A i \in Debtors :
           SumFunction([j \in {k \in Creditors : <<i, k>> \in DOMAIN flow} |-> flow[<<i, j>>]])
               = Size(i)
    /\ \A j \in Creditors :
           SumFunction([i \in {k \in Debtors : <<k, j>> \in DOMAIN flow} |-> flow[<<i, j>>]])
               = Size(j)

AsFlow(ps) == [pair \in {<<ps[i].payer, ps[i].payee>> : i \in DOMAIN ps} |->
                  ps[CHOOSE i \in DOMAIN ps : <<ps[i].payer, ps[i].payee>> = pair].amount]

\* The pairs of participants that can level the balances with n payments.
Supports(n) ==
    {S \in SUBSET (Debtors \X Creditors) :
        /\ Cardinality(S) = n
        /\ \E flow \in [S -> 1 .. MaxAmount] : Levels(flow)}

\* One set of pairs comes before another when the first pair in which they
\* differ, by the joining of payer and then of payee, is its own.
Earlier(S, T) ==
    LET place(pair) == <<balances[pair[1]].joinOrder, balances[pair[2]].joinOrder>>
        before(p, q) == \/ place(p)[1] < place(q)[1]
                        \/ place(p)[1] = place(q)[1] /\ place(p)[2] < place(q)[2]
    IN  \E p \in S \ T : \A q \in T \ S : before(p, q)

(* The derived payments level the balances, in the fewest steps possible,  *)
(* and of the ways with as few they are the first: every instance derives  *)
(* the same payments, in whatever order it is given the balances           *)
(* (derivePaymentInstructionCandidates).                                   *)
FirstOfTheFewest ==
    [][LET n == Len(payments')
           pairs == DOMAIN AsFlow(payments')
       IN  /\ Levels(AsFlow(payments'))
           /\ \A m \in 0 .. n - 1 : Supports(m) = {}
           /\ \A S \in Supports(n) \ {pairs} : Earlier(pairs, S)
           /\ payments' = DerivePaymentInstructionCandidates(Reverse(balances))]_derivationVars
=============================================================================
