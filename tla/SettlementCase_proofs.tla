------------------------ MODULE SettlementCase_proofs ------------------------
(***************************************************************************)
(* Proofs about the SettlementCase aggregate, for every value of its       *)
(* constants: however often a case is corrected, payments are sent back    *)
(* and reported anew and cancellations are asked for, everybody has agreed *)
(* to what is paid, nothing is paid twice, the payments and a cancellation *)
(* exclude each other, and the case implements SettlementOutcome.          *)
(*                                                                         *)
(* The inductive invariant adds to the properties what the ordinals rest   *)
(* on (they count finite sets) and, for every status, what the history of  *)
(* decisions, payments and requests then looks like.                       *)
(***************************************************************************)
EXTENDS SettlementCase, FiniteSetTheorems, TLAPS

\* The revisions are numbered, each asks somebody, and nothing else was decided on.
HistoryFits ==
    /\ IsFiniteSet(DOMAIN revisions)
    /\ \A r \in DOMAIN revisions :
           /\ revisions[r].ordinal <= Cardinality(DOMAIN revisions)
           /\ revisions[r].requiredApprovers # {}
    /\ \A a \in approvals : a.snapshotId \in DOMAIN revisions

\* A rejection, a withdrawal and payments are found in the statuses they lead to.
StatusFits ==
    /\ caseStatus = "Rejected" =>
           \E a \in approvals : a.snapshotId = snapshotId /\ a.decision = "Rejected"
    /\ caseStatus # "Withdrawn" => withdrawal = NoWithdrawal
    /\ DOMAIN attempts # {} => caseStatus \in {"PaymentActive", "Archived"}

\* The attempts at an instruction are numbered.
AttemptsFit ==
    /\ IsFiniteSet(DOMAIN attempts)
    /\ \A k \in DOMAIN attempts :
           attempts[k].ordinal
               <= Cardinality(AttemptsFor(attempts[k].instructionId, attempts))

Declined(x) == CancellationStatus(cancellations[x]) = "Declined"

\* Every request asks the approvers of the current revision; at most one was not declined,
\* and the status tells which it is.
RequestsFit ==
    /\ IsFiniteSet(DOMAIN cancellations)
    /\ \A x \in DOMAIN cancellations :
           cancellations[x].requiredApprovers = snapshot.requiredApprovers
    /\ \A x, y \in DOMAIN cancellations : Declined(x) \/ Declined(y) \/ x = y
    /\ caseStatus \in {"PaymentActive", "Archived"} => \A x \in DOMAIN cancellations : Declined(x)
    /\ caseStatus = "CancellationPending" =>
           \E x \in DOMAIN cancellations : CancellationStatus(cancellations[x]) = "Pending"
    /\ caseStatus = "Cancelled" =>
           \E x \in DOMAIN cancellations :
               IsLatestCancellation(x) /\ CancellationStatus(cancellations[x]) = "Agreed"
    /\ caseStatus \in {"AwaitingApproval", "Rejected", "Withdrawn"} => DOMAIN cancellations = {}

IInv ==
    /\ CaseTypeOK
    /\ HistoryFits
    /\ StatusFits
    /\ AttemptsFit
    /\ RequestsFit
    /\ PaymentsAreAgreed
    /\ OneAgreedRevision
    /\ NoDoublePayment

-----------------------------------------------------------------------------
(* Partial functions, revisions and decisions *)

LEMMA PutProperties ==
    ASSUME NEW f, NEW k, NEW v
    PROVE  /\ DOMAIN With(f, k, v) = DOMAIN f \cup {k}
           /\ With(f, k, v)[k] = v
           /\ \A x \in DOMAIN f : x # k => With(f, k, v)[x] = f[x]
  BY DEF With

LEMMA PutType ==
    ASSUME NEW S, NEW f, f \in [DOMAIN f -> S], NEW k, NEW v \in S
    PROVE  With(f, k, v) \in [DOMAIN With(f, k, v) -> S]
  BY DEF With

LEMMA NoneType == DOMAIN None = {} /\ \A S : None \in [DOMAIN None -> S]
  BY DEF None

LEMMA EmptyIsNone ==
    ASSUME NEW S, NEW f, f \in [DOMAIN f -> S], DOMAIN f = {}
    PROVE  f = None
  BY DEF None

\* The finite sets the ordinals count.
LEMMA CountProperties ==
    ASSUME NEW S, IsFiniteSet(S), NEW k, k \notin S
    PROVE  /\ Cardinality(S) \in Nat
           /\ IsFiniteSet(S \cup {k})
           /\ Cardinality(S \cup {k}) = Cardinality(S) + 1
  BY FS_AddElement, FS_CardinalityType

LEMMA NewRevisionProperties ==
    ASSUME NEW actor \in Participants, NEW c \in Contents,
           NEW ids \in [c.candidates -> InstructionIds], NEW n \in Nat
    PROVE  LET new == NewRevision(actor, c, ids, n)
           IN  /\ new \in Revision
               /\ new.ordinal = n
               /\ new.applicant = actor
               /\ new.target = c.target
               /\ new.requiredApprovers # {}
<1>1. /\ c.requiredApprovers \in SUBSET Participants /\ c.requiredApprovers # {}
      /\ \A d \in c.candidates : d.payer \in Participants /\ d.payee \in Participants
  BY ContentsAssumption
<1>2. {[id |-> ids[d], payer |-> d.payer, payee |-> d.payee] : d \in c.candidates}
          \subseteq [id: InstructionIds, payer: Participants, payee: Participants]
  BY <1>1
<1>3. c.target \in {b.target : b \in Contents}
  OBVIOUS
<1> QED
  BY <1>1, <1>2, <1>3 DEF NewRevision, Revision

LEMMA SelfApprovalProperties ==
    ASSUME NEW s \in SnapshotIds, NEW r \in Revision
    PROVE  /\ SelfApproval(s, r) \subseteq Approval
           /\ \A a \in SelfApproval(s, r) :
                  a.snapshotId = s /\ a.participant = r.applicant /\ a.decision = "Approved"
  BY DEF SelfApproval, Approval, Revision

\* What the status derived from the decisions on a revision says of them.
LEMMA StatusAfterProperties ==
    ASSUME NEW r \in Revision, NEW s \in SnapshotIds, NEW made, made \subseteq Approval,
           NEW after, after = StatusAfter(r, DecisionsOn(s, made))
    PROVE  /\ after \in {"Rejected", "AwaitingApproval", "Archived", "PaymentActive"}
           /\ after = "Rejected" =>
                  \E a \in made : a.snapshotId = s /\ a.decision = "Rejected"
           /\ after \in {"Archived", "PaymentActive"} =>
                  /\ \A p \in r.requiredApprovers :
                         [snapshotId |-> s, participant |-> p, decision |-> "Approved"] \in made
                  /\ \A a \in made : a.snapshotId = s => a.decision = "Approved"
                  /\ after = "Archived" <=> r.instructions = {}
<1>1. \A a \in made :
          /\ a.decision \in {"Approved", "Rejected"}
          /\ a = [snapshotId |-> a.snapshotId, participant |-> a.participant,
                  decision |-> a.decision]
  BY DEF Approval
<1>2. after \in {"Rejected", "AwaitingApproval", "Archived", "PaymentActive"}
  BY DEF StatusAfter
<1>3. ASSUME after = "Rejected"
      PROVE  \E a \in made : a.snapshotId = s /\ a.decision = "Rejected"
  BY <1>3 DEF StatusAfter, DecisionsOn
<1>4. ASSUME after \in {"Archived", "PaymentActive"}
      PROVE  /\ IsApprovedBy(r, DecisionsOn(s, made))
             /\ ~ \E a \in DecisionsOn(s, made) : a.decision = "Rejected"
             /\ after = "Archived" <=> r.instructions = {}
  BY <1>4 DEF StatusAfter
<1>5. ASSUME after \in {"Archived", "PaymentActive"}, NEW p \in r.requiredApprovers
      PROVE  [snapshotId |-> s, participant |-> p, decision |-> "Approved"] \in made
  BY <1>1, <1>4, <1>5 DEF IsApprovedBy, DecisionsOn
<1>6. ASSUME after \in {"Archived", "PaymentActive"}, NEW a \in made, a.snapshotId = s
      PROVE  a.decision = "Approved"
  BY <1>1, <1>4, <1>6 DEF DecisionsOn
<1> QED
  BY <1>2, <1>3, <1>4, <1>5, <1>6

-----------------------------------------------------------------------------
(* Before the payments: the case starts, is decided on, corrected, withdrawn *)

\* Where nothing was paid and no cancellation was asked for, there is nothing to be at odds.
LEMMA NothingCollected ==
    ASSUME attempts = None, cancellations = None,
           caseStatus \notin {"Cancelled", "CancellationPending"}
    PROVE  AttemptsFit /\ RequestsFit /\ NoDoublePayment
<1>1. DOMAIN attempts = {} /\ DOMAIN cancellations = {}
  BY NoneType
<1> QED
  BY <1>1, FS_EmptySet DEF AttemptsFit, RequestsFit, NoDoublePayment

LEMMA NothingCollectedThen ==
    ASSUME (attempts = None)', (cancellations = None)',
           (caseStatus \notin {"Cancelled", "CancellationPending"})'
    PROVE  AttemptsFit' /\ RequestsFit' /\ NoDoublePayment'
<1>1. (DOMAIN attempts)' = {} /\ (DOMAIN cancellations)' = {}
  BY NoneType
<1> QED
  BY <1>1, FS_EmptySet DEF AttemptsFit, RequestsFit, NoDoublePayment

LEMMA InitFits == CaseInit => IInv
<1> SUFFICES ASSUME NEW actor \in Participants, NEW s \in SnapshotIds, NEW c \in Contents,
                    NEW ids \in [c.candidates -> InstructionIds], StartCase(actor, s, c, ids)
             PROVE  IInv
  BY DEF CaseInit
<1> DEFINE first == NewRevision(actor, c, ids, 1)
<1>1. /\ first \in Revision
      /\ first.ordinal = 1
      /\ first.requiredApprovers # {}
  BY NewRevisionProperties
<1>2. /\ revisions = [t \in {s} |-> first]
      /\ snapshotId = s
      /\ approvals = SelfApproval(s, first)
      /\ caseStatus = StatusAfter(first, approvals)
      /\ version = 1
      /\ attempts = None
      /\ cancellations = None
      /\ withdrawal = NoWithdrawal
  BY DEF StartCase
<1> HIDE DEF first
<1>3. /\ approvals \subseteq Approval
      /\ \A a \in approvals :
             a.snapshotId = s /\ a.participant = first.applicant /\ a.decision = "Approved"
  BY <1>1, <1>2, SelfApprovalProperties
<1>4. caseStatus = StatusAfter(first, DecisionsOn(s, approvals))
  <2>1. DecisionsOn(s, approvals) = approvals
    BY <1>3 DEF DecisionsOn
  <2> QED
    BY <1>2, <2>1
<1>5. /\ caseStatus \in {"AwaitingApproval", "Archived", "PaymentActive"}
      /\ caseStatus \in {"Archived", "PaymentActive"} =>
             /\ \A p \in first.requiredApprovers :
                    [snapshotId |-> s, participant |-> p, decision |-> "Approved"]
                        \in approvals
             /\ \A a \in approvals : a.snapshotId = s => a.decision = "Approved"
  BY <1>1, <1>3, <1>4, StatusAfterProperties
<1>6. DOMAIN revisions = {s} /\ snapshot = first /\ revisions[s] = first
  BY <1>2 DEF snapshot
<1>7. CaseTypeOK
  BY <1>1, <1>2, <1>3, <1>5, <1>6, NoneType, BoundsAssumption DEF CaseTypeOK
<1>8. HistoryFits
  <2>1. IsFiniteSet({s}) /\ Cardinality({s}) = 1
    BY FS_Singleton
  <2> QED
    BY <1>1, <1>3, <1>6, <2>1 DEF HistoryFits
<1>9. StatusFits
  BY <1>2, <1>5, NoneType DEF StatusFits
<1>10. AttemptsFit /\ RequestsFit /\ NoDoublePayment
  BY <1>2, <1>5, NothingCollected
<1>11. PaymentsAreAgreed
  BY <1>2, <1>5, <1>6 DEF PaymentsAreAgreed
<1>12. OneAgreedRevision
  <2>1. \A a, b \in approvals : a = b
    BY <1>3 DEF Approval
  <2> QED
    BY <1>2, <1>6, <2>1 DEF OneAgreedRevision
<1> QED
  BY <1>7, <1>8, <1>9, <1>10, <1>11, <1>12 DEF IInv

LEMMA DecideKeeps ==
    ASSUME IInv, NEW p \in Participants, NEW decision \in {"Approved", "Rejected"},
           NEW v, NEW s, Decide(p, decision, v, s)
    PROVE  IInv'
<1> DEFINE new == [snapshotId |-> snapshotId, participant |-> p, decision |-> decision]
<1>1. /\ snapshotId \in DOMAIN revisions /\ snapshotId \in SnapshotIds
      /\ snapshot \in Revision
      /\ new \in Approval
  BY DEF IInv, CaseTypeOK, snapshot, Approval
<1>2. /\ approvals' = approvals \cup {new}
      /\ caseStatus' = StatusAfter(snapshot, DecisionsOn(snapshotId, approvals'))
      /\ revisions' = revisions /\ snapshotId' = snapshotId /\ snapshot' = snapshot
      /\ attempts' = None /\ cancellations' = None
      /\ withdrawal' = NoWithdrawal
      /\ version' \in 1 .. MaxVersion
  BY BoundsAssumption DEF Decide, IsCurrent, IInv, CaseTypeOK, StatusFits, snapshot
<1>3. approvals' \subseteq Approval
  BY <1>1, <1>2 DEF IInv, CaseTypeOK
<1>4. /\ caseStatus' \in {"Rejected", "AwaitingApproval", "Archived", "PaymentActive"}
      /\ caseStatus' = "Rejected" =>
             \E a \in approvals' : a.snapshotId = snapshotId /\ a.decision = "Rejected"
      /\ caseStatus' \in {"Archived", "PaymentActive"} =>
             /\ \A q \in snapshot.requiredApprovers :
                    [snapshotId |-> snapshotId, participant |-> q, decision |-> "Approved"]
                        \in approvals'
             /\ \A a \in approvals' : a.snapshotId = snapshotId => a.decision = "Approved"
  BY <1>1, <1>2, <1>3, StatusAfterProperties
<1>5. CaseTypeOK'
  BY <1>2, <1>3, <1>4, NoneType DEF IInv, CaseTypeOK
<1>6. HistoryFits'
  BY <1>1, <1>2 DEF IInv, HistoryFits
<1>7. StatusFits'
  BY <1>2, <1>4, NoneType DEF StatusFits
<1>8. AttemptsFit' /\ RequestsFit' /\ NoDoublePayment'
  BY <1>2, <1>4, NothingCollectedThen
<1>9. PaymentsAreAgreed'
  BY <1>2, <1>4 DEF PaymentsAreAgreed
<1>10. OneAgreedRevision'
  <2>1. \A a \in approvals : a.snapshotId = snapshotId => a.participant # p
    BY DEF Decide, HasDecided, DecisionsOn
  <2> QED
    BY <1>2, <2>1 DEF IInv, OneAgreedRevision
<1> QED
  BY <1>5, <1>6, <1>7, <1>8, <1>9, <1>10 DEF IInv

LEMMA WithdrawKeeps ==
    ASSUME IInv, NEW actor, NEW owner, NEW v, NEW s, Withdraw(actor, owner, v, s)
    PROVE  IInv'
<1>1. /\ caseStatus' = "Withdrawn"
      /\ revisions' = revisions /\ snapshotId' = snapshotId /\ snapshot' = snapshot
      /\ approvals' = approvals
      /\ attempts' = None /\ cancellations' = None
      /\ withdrawal' \in SnapshotIds
      /\ version' \in 1 .. MaxVersion
  BY BoundsAssumption DEF Withdraw, IsCurrent, IInv, CaseTypeOK, snapshot
<1>2. CaseTypeOK'
  BY <1>1, NoneType DEF IInv, CaseTypeOK
<1>3. HistoryFits' /\ OneAgreedRevision'
  BY <1>1 DEF IInv, HistoryFits, OneAgreedRevision
<1>4. StatusFits'
  BY <1>1, NoneType DEF StatusFits
<1>5. AttemptsFit' /\ RequestsFit' /\ NoDoublePayment'
  BY <1>1, NothingCollectedThen
<1>6. PaymentsAreAgreed'
  BY <1>1 DEF PaymentsAreAgreed
<1> QED
  BY <1>2, <1>3, <1>4, <1>5, <1>6 DEF IInv

LEMMA ResubmitKeeps ==
    ASSUME IInv, NEW actor \in Participants, NEW owner, NEW v, NEW current,
           NEW s \in SnapshotIds, NEW c \in Contents,
           NEW ids \in [c.candidates -> InstructionIds],
           Resubmit(actor, owner, v, current, s, c, ids)
    PROVE  IInv'
<1> DEFINE n == Cardinality(DOMAIN revisions)
           new == NewRevision(actor, c, ids, n + 1)
<1>1. /\ s \notin DOMAIN revisions /\ s \in SnapshotIds
      /\ n \in Nat
      /\ IsFiniteSet(DOMAIN revisions \cup {s})
      /\ Cardinality(DOMAIN revisions \cup {s}) = n + 1
  BY CountProperties DEF Resubmit, IInv, HistoryFits
<1>2. /\ new \in Revision
      /\ new.ordinal = n + 1
      /\ new.requiredApprovers # {}
  BY <1>1, NewRevisionProperties
<1>3. /\ revisions' = With(revisions, s, new) /\ snapshotId' = s
      /\ approvals' = approvals \cup SelfApproval(s, new)
      /\ caseStatus' = StatusAfter(new, DecisionsOn(s, approvals'))
      /\ attempts' = None /\ cancellations' = None /\ withdrawal' = NoWithdrawal
      /\ version' \in 1 .. MaxVersion
      /\ caseStatus = "Rejected"
  BY BoundsAssumption DEF Resubmit, IsCurrent, IInv, CaseTypeOK
<1> HIDE DEF new
<1>4. /\ DOMAIN revisions' = DOMAIN revisions \cup {s}
      /\ revisions' \in [DOMAIN revisions' -> Revision]
      /\ snapshot' = new /\ revisions'[s] = new
      /\ \A r \in DOMAIN revisions : revisions'[r] = revisions[r]
  <2>1. revisions \in [DOMAIN revisions -> Revision]
    BY DEF IInv, CaseTypeOK
  <2>2. With(revisions, s, new) \in [DOMAIN With(revisions, s, new) -> Revision]
    BY <1>2, <2>1, PutType
  <2>3. /\ DOMAIN With(revisions, s, new) = DOMAIN revisions \cup {s}
        /\ With(revisions, s, new)[s] = new
        /\ \A r \in DOMAIN revisions : With(revisions, s, new)[r] = revisions[r]
    BY <1>1 DEF With
  <2> QED
    BY <1>3, <2>2, <2>3 DEF snapshot
<1>5. /\ approvals' \subseteq Approval
      /\ \A a \in SelfApproval(s, new) :
             a.snapshotId = s /\ a.participant = new.applicant /\ a.decision = "Approved"
  BY <1>1, <1>2, <1>3, SelfApprovalProperties DEF IInv, CaseTypeOK
<1>6. /\ caseStatus' \in {"Rejected", "AwaitingApproval", "Archived", "PaymentActive"}
      /\ caseStatus' = "Rejected" =>
             \E a \in approvals' : a.snapshotId = s /\ a.decision = "Rejected"
      /\ caseStatus' \in {"Archived", "PaymentActive"} =>
             /\ \A q \in new.requiredApprovers :
                    [snapshotId |-> s, participant |-> q, decision |-> "Approved"]
                        \in approvals'
             /\ \A a \in approvals' : a.snapshotId = s => a.decision = "Approved"
  BY <1>1, <1>2, <1>3, <1>5, StatusAfterProperties
<1>7. CaseTypeOK'
  BY <1>1, <1>3, <1>4, <1>5, <1>6, NoneType DEF IInv, CaseTypeOK
<1>8. HistoryFits'
  <2>1. \A r \in DOMAIN revisions :
            revisions[r].ordinal <= n /\ revisions[r].ordinal \in Nat
    BY DEF IInv, HistoryFits, CaseTypeOK, Revision
  <2>2. \A r \in DOMAIN revisions' :
            revisions'[r].ordinal <= n + 1 /\ revisions'[r].requiredApprovers # {}
    BY <1>1, <1>2, <1>4, <2>1 DEF IInv, HistoryFits
  <2>3. \A a \in approvals' : a.snapshotId \in DOMAIN revisions'
    BY <1>3, <1>4, <1>5 DEF IInv, HistoryFits
  <2> QED
    BY <1>1, <1>4, <2>2, <2>3 DEF HistoryFits
<1>9. StatusFits'
  BY <1>3, <1>6, NoneType DEF StatusFits
<1>10. AttemptsFit' /\ RequestsFit' /\ NoDoublePayment'
  BY <1>3, <1>6, NothingCollectedThen
<1>11. PaymentsAreAgreed'
  BY <1>3, <1>4, <1>6 DEF PaymentsAreAgreed
<1>12. OneAgreedRevision'
  <2>1. \A a \in approvals : a.snapshotId # s
    BY <1>1 DEF IInv, HistoryFits
  <2>2. \A a, b \in SelfApproval(s, new) : a = b
    BY <1>1, <1>2, <1>5, SelfApprovalProperties DEF Approval
  <2>3. \A a, b \in approvals' :
            a.snapshotId = b.snapshotId /\ a.participant = b.participant => a = b
    BY <1>3, <1>5, <2>1, <2>2 DEF IInv, OneAgreedRevision
  <2>4. ASSUME NEW r \in DOMAIN revisions
        PROVE  /\ revisions[r].ordinal < n + 1
               /\ \E a \in approvals' : a.snapshotId = r /\ a.decision = "Rejected"
    <3>1. revisions[r].ordinal \in Nat /\ revisions[r].ordinal <= n
      BY DEF IInv, HistoryFits, CaseTypeOK, Revision
    <3>2. \E a \in approvals : a.snapshotId = r /\ a.decision = "Rejected"
      BY <1>3 DEF IInv, StatusFits, OneAgreedRevision
    <3> QED
      BY <1>1, <1>3, <3>1, <3>2
  <2> QED
    BY <1>2, <1>3, <1>4, <2>3, <2>4 DEF OneAgreedRevision
<1> QED
  BY <1>7, <1>8, <1>9, <1>10, <1>11, <1>12 DEF IInv

-----------------------------------------------------------------------------
(* The payments *)

\* What StoreAttempts leaves alone keeps what was agreed on.
LEMMA StoreAttemptsKeepsRest ==
    ASSUME IInv, caseStatus = "PaymentActive", version < MaxVersion,
           NEW made, StoreAttempts(made)
    PROVE  /\ version' \in 1 .. MaxVersion
           /\ revisions' = revisions /\ snapshotId' = snapshotId /\ snapshot' = snapshot
           /\ approvals' = approvals /\ cancellations' = cancellations
           /\ withdrawal' = withdrawal
           /\ attempts' = made
           /\ caseStatus' \in {"PaymentActive", "Archived"}
           /\ HistoryFits'
           /\ StatusFits'
           /\ RequestsFit'
           /\ PaymentsAreAgreed'
           /\ OneAgreedRevision'
<1>1. /\ revisions' = revisions /\ snapshotId' = snapshotId /\ snapshot' = snapshot
      /\ approvals' = approvals /\ cancellations' = cancellations
      /\ withdrawal' = withdrawal
      /\ attempts' = made
      /\ caseStatus' \in {"PaymentActive", "Archived"}
      /\ version' = version + 1
  BY DEF StoreAttempts, snapshot
<1>2. version' \in 1 .. MaxVersion
  BY <1>1, BoundsAssumption DEF IInv, CaseTypeOK
<1>3. HistoryFits' /\ OneAgreedRevision'
  BY <1>1 DEF IInv, HistoryFits, OneAgreedRevision
<1>4. StatusFits' /\ PaymentsAreAgreed'
  BY <1>1 DEF IInv, StatusFits, PaymentsAreAgreed
<1>5. RequestsFit'
  BY <1>1 DEF IInv, RequestsFit, Declined
<1> QED
  BY <1>1, <1>2, <1>3, <1>4, <1>5

\* An instruction that can be reported has no attempt that was not sent back.
LEMMA UnpaidIsReturned ==
    ASSUME IInv, NEW i, IsUnpaid(i), NEW k \in AttemptsFor(i, attempts)
    PROVE  attempts[k].status = "Returned"
  BY DEF IInv, NoDoublePayment, IsUnpaid, AttemptsFor

\* One more attempt k at instruction i, all of whose attempts were sent back.
AttemptsOnceMore(i, k) ==
    LET n == Cardinality(AttemptsFor(i, attempts))
    IN  /\ caseStatus = "PaymentActive" /\ version < MaxVersion /\ k \notin DOMAIN attempts
        /\ StoreAttempts(attempts')
        /\ i \in InstructionIds /\ i \in InstructionIdsOf(snapshot)
        /\ n \in Nat
        /\ Cardinality(AttemptsFor(i, attempts) \cup {k}) = n + 1
        /\ IsFiniteSet(DOMAIN attempts \cup {k})
        /\ DOMAIN attempts' = DOMAIN attempts \cup {k}
        /\ attempts' \in [DOMAIN attempts' -> PaymentAttempt]
        /\ attempts'[k].snapshotId = snapshotId
        /\ attempts'[k].instructionId = i
        /\ attempts'[k].ordinal = n + 1
        /\ attempts'[k].status = "Reported"
        /\ \A j \in DOMAIN attempts : attempts'[j] = attempts[j]
        /\ AttemptsFor(i, attempts') = AttemptsFor(i, attempts) \cup {k}
        /\ \A h : h # i => AttemptsFor(h, attempts') = AttemptsFor(h, attempts)
        /\ \A j \in AttemptsFor(i, attempts) :
               /\ attempts[j].status = "Returned"
               /\ attempts[j].ordinal \in Nat
               /\ attempts[j].ordinal <= n

LEMMA ReportPaymentEffect ==
    ASSUME IInv, NEW p, NEW instruction \in snapshot.instructions, NEW k \in AttemptIds,
           NEW v, NEW s, ReportPayment(p, instruction, k, v, s)
    PROVE  AttemptsOnceMore(instruction.id, k)
<1> DEFINE i == instruction.id
           n == Cardinality(AttemptsFor(i, attempts))
           new == [snapshotId |-> snapshotId, instructionId |-> i, ordinal |-> n + 1,
                   status |-> "Reported"]
<1>1. /\ caseStatus = "PaymentActive" /\ version < MaxVersion
      /\ IsUnpaid(i)
      /\ k \notin DOMAIN attempts
      /\ StoreAttempts(With(attempts, k, new))
  BY DEF ReportPayment, IsPayable, IsCurrent
<1>2. i \in InstructionIds /\ i \in InstructionIdsOf(snapshot) /\ snapshotId \in SnapshotIds
  BY DEF IInv, CaseTypeOK, snapshot, Revision, InstructionIdsOf
<1>3. /\ IsFiniteSet(AttemptsFor(i, attempts)) /\ n \in Nat
      /\ Cardinality(AttemptsFor(i, attempts) \cup {k}) = n + 1
      /\ IsFiniteSet(DOMAIN attempts \cup {k})
  <2>1. IsFiniteSet(DOMAIN attempts) /\ AttemptsFor(i, attempts) \subseteq DOMAIN attempts
    BY DEF IInv, AttemptsFit, AttemptsFor
  <2>2. IsFiniteSet(AttemptsFor(i, attempts))
    BY <2>1, FS_Subset
  <2>3. k \notin AttemptsFor(i, attempts)
    BY <1>1, <2>1
  <2> QED
    BY <1>1, <2>1, <2>2, <2>3, CountProperties
<1>4. attempts' = With(attempts, k, new)
  BY <1>1 DEF StoreAttempts
<1>5. /\ new \in PaymentAttempt
      /\ new.snapshotId = snapshotId /\ new.instructionId = i /\ new.ordinal = n + 1
      /\ new.status = "Reported"
  BY <1>2, <1>3 DEF PaymentAttempt
<1> HIDE DEF new
<1>6. /\ DOMAIN attempts' = DOMAIN attempts \cup {k}
      /\ attempts' \in [DOMAIN attempts' -> PaymentAttempt]
      /\ attempts'[k] = new
      /\ \A j \in DOMAIN attempts : attempts'[j] = attempts[j]
  <2>1. attempts \in [DOMAIN attempts -> PaymentAttempt]
    BY DEF IInv, CaseTypeOK
  <2>2. With(attempts, k, new) \in [DOMAIN With(attempts, k, new) -> PaymentAttempt]
    BY <1>5, <2>1, PutType
  <2>3. /\ DOMAIN With(attempts, k, new) = DOMAIN attempts \cup {k}
        /\ With(attempts, k, new)[k] = new
        /\ \A j \in DOMAIN attempts : With(attempts, k, new)[j] = attempts[j]
    BY <1>1 DEF With
  <2> QED
    BY <1>4, <2>2, <2>3
<1>7. /\ AttemptsFor(i, attempts') = AttemptsFor(i, attempts) \cup {k}
      /\ \A h : h # i => AttemptsFor(h, attempts') = AttemptsFor(h, attempts)
  BY <1>1, <1>5, <1>6 DEF AttemptsFor
<1>8. \A j \in AttemptsFor(i, attempts) :
          attempts[j].status = "Returned" /\ attempts[j].ordinal \in Nat
              /\ attempts[j].ordinal <= n
  BY <1>1, UnpaidIsReturned DEF IInv, AttemptsFit, AttemptsFor, CaseTypeOK, PaymentAttempt
<1> QED
  BY <1>1, <1>2, <1>3, <1>4, <1>5, <1>6, <1>7, <1>8 DEF AttemptsOnceMore

LEMMA ReportPaymentKeeps ==
    ASSUME IInv, NEW p, NEW instruction \in snapshot.instructions, NEW k \in AttemptIds,
           NEW v, NEW s, ReportPayment(p, instruction, k, v, s)
    PROVE  IInv'
<1> DEFINE i == instruction.id
           n == Cardinality(AttemptsFor(i, attempts))
<1>0. AttemptsOnceMore(i, k)
  BY ReportPaymentEffect
<1>1. /\ k \notin DOMAIN attempts
      /\ i \in InstructionIdsOf(snapshot)
      /\ n \in Nat
      /\ Cardinality(AttemptsFor(i, attempts) \cup {k}) = n + 1
      /\ IsFiniteSet(DOMAIN attempts \cup {k})
  BY <1>0 DEF AttemptsOnceMore
<1>2. /\ DOMAIN attempts' = DOMAIN attempts \cup {k}
      /\ attempts' \in [DOMAIN attempts' -> PaymentAttempt]
      /\ \A j \in DOMAIN attempts : attempts'[j] = attempts[j]
  BY <1>0 DEF AttemptsOnceMore
<1>3. /\ attempts'[k].snapshotId = snapshotId
      /\ attempts'[k].instructionId = i
      /\ attempts'[k].ordinal = n + 1
      /\ attempts'[k].status = "Reported"
  BY <1>0 DEF AttemptsOnceMore
<1>4. /\ AttemptsFor(i, attempts') = AttemptsFor(i, attempts) \cup {k}
      /\ \A h : h # i => AttemptsFor(h, attempts') = AttemptsFor(h, attempts)
  BY <1>0 DEF AttemptsOnceMore
<1>5. \A j \in AttemptsFor(i, attempts) :
          /\ attempts[j].status = "Returned"
          /\ attempts[j].ordinal \in Nat
          /\ attempts[j].ordinal <= n
  BY <1>0 DEF AttemptsOnceMore
<1>6. /\ version' \in 1 .. MaxVersion
      /\ revisions' = revisions /\ snapshotId' = snapshotId /\ snapshot' = snapshot
      /\ approvals' = approvals /\ cancellations' = cancellations
      /\ withdrawal' = withdrawal
      /\ caseStatus' \in {"PaymentActive", "Archived"}
      /\ HistoryFits' /\ StatusFits' /\ RequestsFit' /\ PaymentsAreAgreed'
      /\ OneAgreedRevision'
  BY <1>0, StoreAttemptsKeepsRest DEF AttemptsOnceMore
<1>7. CaseTypeOK'
  BY <1>6, <1>2 DEF IInv, CaseTypeOK
<1>8. AttemptsFit'
  <2>1. ASSUME NEW j \in DOMAIN attempts'
        PROVE  attempts'[j].ordinal
                   <= Cardinality(AttemptsFor(attempts'[j].instructionId, attempts'))
    <3>1. CASE j = k
      BY <1>1, <1>3, <1>4, <3>1
    <3>2. CASE j # k /\ attempts[j].instructionId = i
      <4>1. j \in AttemptsFor(i, attempts) /\ attempts'[j] = attempts[j]
        BY <1>2, <3>2 DEF AttemptsFor
      <4>2. attempts'[j].ordinal \in Nat /\ attempts'[j].ordinal <= n
        BY <1>5, <4>1
      <4> QED
        BY <1>1, <1>4, <3>2, <4>1, <4>2
    <3>3. CASE j # k /\ attempts[j].instructionId # i
      BY <1>2, <1>4, <3>3 DEF IInv, AttemptsFit
    <3> QED
      BY <3>1, <3>2, <3>3
  <2> QED
    BY <1>1, <1>2, <2>1 DEF AttemptsFit
<1>9. NoDoublePayment'
  <2> SUFFICES ASSUME NEW j \in DOMAIN attempts'
               PROVE  LET h == attempts'[j].instructionId
                      IN  /\ attempts'[j].snapshotId = snapshotId
                          /\ h \in InstructionIdsOf(snapshot)
                          /\ attempts'[j].status = "Returned" \/ IsLatestAttempt(j, h, attempts')
                          /\ \A l \in AttemptsFor(h, attempts') :
                                 attempts'[l].ordinal = attempts'[j].ordinal => l = j
    BY <1>6 DEF NoDoublePayment
  <2>1. CASE j = k
    <3>1. k \in AttemptsFor(i, attempts')
      BY <1>4
    <3>2. \A l \in AttemptsFor(i, attempts) :
              attempts'[l].ordinal \in Nat /\ attempts'[l].ordinal < n + 1
      BY <1>1, <1>2, <1>5 DEF AttemptsFor
    <3>3. \A l \in AttemptsFor(i, attempts') :
              \/ l = k
              \/ attempts'[l].ordinal \in Nat /\ attempts'[l].ordinal < attempts'[k].ordinal
      BY <1>3, <1>2, <1>4, <3>2
    <3>4. attempts'[k].ordinal \in Nat
      BY <1>1, <1>3, <1>2
    <3>5. IsLatestAttempt(k, i, attempts')
      BY <3>1, <3>3, <3>4 DEF IsLatestAttempt
    <3>6. \A l \in AttemptsFor(i, attempts') :
              attempts'[l].ordinal = attempts'[k].ordinal => l = k
      BY <3>3, <3>4
    <3> QED
      BY <1>1, <1>3, <2>1, <3>5, <3>6
  <2>2. CASE j # k /\ attempts[j].instructionId = i
    <3>1. j \in AttemptsFor(i, attempts) /\ attempts'[j] = attempts[j]
      BY <1>2, <2>2 DEF AttemptsFor
    <3>2. \A l \in AttemptsFor(i, attempts') :
              attempts'[l].ordinal = attempts'[j].ordinal => l = j
      BY <1>1, <1>3, <1>2, <1>4, <1>5, <3>1 DEF IInv, NoDoublePayment, AttemptsFor
    <3> QED
      BY <1>5, <2>2, <3>1, <3>2 DEF IInv, NoDoublePayment, AttemptsFor
  <2>3. CASE j # k /\ attempts[j].instructionId # i
    BY <1>2, <1>4, <2>3 DEF IInv, NoDoublePayment, AttemptsFor, IsLatestAttempt
  <2> QED
    BY <2>1, <2>2, <2>3
<1> QED
  BY <1>6, <1>7, <1>8, <1>9 DEF IInv

\* The last attempt k at instruction i is decided on; the others stay.
AttemptDecided(i, k, decision) ==
    /\ caseStatus = "PaymentActive" /\ version < MaxVersion
    /\ StoreAttempts(attempts')
    /\ k \in DOMAIN attempts /\ k \in AttemptsFor(i, attempts)
    /\ IsLatestAttempt(k, i, attempts)
    /\ attempts[k].status = "Reported"
    /\ i \in InstructionIds /\ i \in InstructionIdsOf(snapshot)
    /\ DOMAIN attempts' = DOMAIN attempts
    /\ attempts' \in [DOMAIN attempts -> PaymentAttempt]
    /\ attempts'[k].status = decision
    /\ \A j \in DOMAIN attempts :
           /\ attempts'[j].snapshotId = attempts[j].snapshotId
           /\ attempts'[j].instructionId = attempts[j].instructionId
           /\ attempts'[j].ordinal = attempts[j].ordinal
           /\ j # k => attempts'[j] = attempts[j]
    /\ \A h : AttemptsFor(h, attempts') = AttemptsFor(h, attempts)
    /\ \A h, j : IsLatestAttempt(j, h, attempts') <=> IsLatestAttempt(j, h, attempts)

LEMMA DecideReceiptEffect ==
    ASSUME IInv, NEW p, NEW instruction \in snapshot.instructions, NEW k \in AttemptIds,
           NEW decision \in {"Received", "Returned"}, NEW v, NEW s,
           DecideReceipt(p, instruction, k, decision, v, s)
    PROVE  AttemptDecided(instruction.id, k, decision)
<1> DEFINE i == instruction.id
<1>1. /\ caseStatus = "PaymentActive" /\ version < MaxVersion
      /\ k \in AttemptsFor(i, attempts) /\ IsLatestAttempt(k, i, attempts)
      /\ attempts[k].status = "Reported"
      /\ attempts' = [attempts EXCEPT ![k].status = decision]
      /\ StoreAttempts(attempts')
  BY DEF DecideReceipt, IsPayable, IsCurrent, StoreAttempts, IsLatestAttempt
<1>2. i \in InstructionIds /\ i \in InstructionIdsOf(snapshot)
  BY DEF IInv, CaseTypeOK, snapshot, Revision, InstructionIdsOf
<1>3. k \in DOMAIN attempts /\ attempts \in [DOMAIN attempts -> PaymentAttempt]
  BY <1>1 DEF AttemptsFor, IInv, CaseTypeOK
<1>4. [attempts[k] EXCEPT !.status = decision] \in PaymentAttempt
  BY <1>3 DEF PaymentAttempt
<1>5. /\ DOMAIN attempts' = DOMAIN attempts
      /\ attempts' \in [DOMAIN attempts -> PaymentAttempt]
      /\ attempts'[k] = [attempts[k] EXCEPT !.status = decision]
      /\ \A j \in DOMAIN attempts : j # k => attempts'[j] = attempts[j]
  BY <1>1, <1>3, <1>4
<1>6. /\ attempts'[k].status = decision
      /\ \A j \in DOMAIN attempts :
             /\ attempts'[j].snapshotId = attempts[j].snapshotId
             /\ attempts'[j].instructionId = attempts[j].instructionId
             /\ attempts'[j].ordinal = attempts[j].ordinal
  BY <1>3, <1>5 DEF PaymentAttempt
<1>7. \A h : AttemptsFor(h, attempts') = AttemptsFor(h, attempts)
  BY <1>5, <1>6 DEF AttemptsFor
<1>8. \A h, j : IsLatestAttempt(j, h, attempts') <=> IsLatestAttempt(j, h, attempts)
  BY <1>6, <1>7 DEF IsLatestAttempt, AttemptsFor
<1> QED
  BY <1>1, <1>2, <1>3, <1>5, <1>6, <1>7, <1>8 DEF AttemptDecided

LEMMA DecideReceiptKeeps ==
    ASSUME IInv, NEW p, NEW instruction \in snapshot.instructions, NEW k \in AttemptIds,
           NEW decision \in {"Received", "Returned"}, NEW v, NEW s,
           DecideReceipt(p, instruction, k, decision, v, s)
    PROVE  IInv'
<1> DEFINE i == instruction.id
<1>1. AttemptDecided(i, k, decision)
  BY DecideReceiptEffect
<1>2. /\ version' \in 1 .. MaxVersion
      /\ revisions' = revisions /\ snapshotId' = snapshotId /\ snapshot' = snapshot
      /\ approvals' = approvals /\ cancellations' = cancellations
      /\ withdrawal' = withdrawal
      /\ caseStatus' \in {"PaymentActive", "Archived"}
      /\ HistoryFits' /\ StatusFits' /\ RequestsFit' /\ PaymentsAreAgreed'
      /\ OneAgreedRevision'
  BY <1>1, StoreAttemptsKeepsRest DEF AttemptDecided
<1>3. CaseTypeOK'
  BY <1>1, <1>2 DEF IInv, CaseTypeOK, AttemptDecided
<1>4. AttemptsFit'
  BY <1>1 DEF IInv, AttemptsFit, AttemptDecided
<1>5. NoDoublePayment'
  <2>1. \A h, j : j \in AttemptsFor(h, attempts) =>
            j \in DOMAIN attempts /\ attempts[j].instructionId = h
    BY DEF AttemptsFor
  <2>2. ASSUME NEW j \in DOMAIN attempts
        PROVE  /\ attempts'[j].status = "Returned"
                      \/ IsLatestAttempt(j, attempts'[j].instructionId, attempts')
               /\ attempts'[j].snapshotId = snapshotId
               /\ attempts'[j].instructionId \in InstructionIdsOf(snapshot)
    <3>1. CASE j = k
      BY <1>1, <2>1, <3>1 DEF AttemptDecided, IInv, NoDoublePayment
    <3>2. CASE j # k
      BY <1>1, <3>2 DEF AttemptDecided, IInv, NoDoublePayment
    <3> QED
      BY <3>1, <3>2
  <2>3. ASSUME NEW j \in DOMAIN attempts,
               NEW l \in AttemptsFor(attempts[j].instructionId, attempts),
               attempts'[l].ordinal = attempts'[j].ordinal
        PROVE  l = j
    BY <1>1, <2>1, <2>3 DEF AttemptDecided, IInv, NoDoublePayment
  <2> QED
    BY <1>1, <1>2, <2>2, <2>3 DEF NoDoublePayment, AttemptDecided
<1> QED
  BY <1>2, <1>3, <1>4, <1>5 DEF IInv

-----------------------------------------------------------------------------
(* The cancellation *)

\* What StoreCancellation leaves alone, where no payment was reported.
LEMMA StoreCancellationKeepsRest ==
    ASSUME IInv, caseStatus \in {"PaymentActive", "CancellationPending"}, attempts = None,
           version < MaxVersion, NEW x, NEW request, StoreCancellation(x, request)
    PROVE  /\ version' \in 1 .. MaxVersion
           /\ revisions' = revisions /\ snapshotId' = snapshotId /\ snapshot' = snapshot
           /\ approvals' = approvals /\ attempts' = attempts
           /\ withdrawal' = withdrawal
           /\ cancellations' = With(cancellations, x, request)
           /\ caseStatus' = CASE CancellationStatus(request) = "Agreed" -> "Cancelled"
                          [] CancellationStatus(request) = "Declined" -> "PaymentActive"
                          [] OTHER -> "CancellationPending"
           /\ caseStatus' \in {"PaymentActive", "CancellationPending", "Cancelled"}
           /\ HistoryFits'
           /\ StatusFits'
           /\ AttemptsFit'
           /\ PaymentsAreAgreed'
           /\ OneAgreedRevision'
           /\ NoDoublePayment'
<1>1. /\ revisions' = revisions /\ snapshotId' = snapshotId /\ snapshot' = snapshot
      /\ approvals' = approvals /\ attempts' = attempts
      /\ withdrawal' = withdrawal
      /\ cancellations' = With(cancellations, x, request)
      /\ caseStatus' = CASE CancellationStatus(request) = "Agreed" -> "Cancelled"
                     [] CancellationStatus(request) = "Declined" -> "PaymentActive"
                     [] OTHER -> "CancellationPending"
      /\ version' = version + 1
  BY DEF StoreCancellation, snapshot
<1>2. caseStatus' \in {"PaymentActive", "CancellationPending", "Cancelled"}
  BY <1>1
<1>3. version' \in 1 .. MaxVersion
  BY <1>1, BoundsAssumption DEF IInv, CaseTypeOK
<1>4. HistoryFits' /\ OneAgreedRevision'
  BY <1>1 DEF IInv, HistoryFits, OneAgreedRevision
<1>5. StatusFits' /\ AttemptsFit' /\ NoDoublePayment'
  <2>1. DOMAIN attempts' = {}
    BY <1>1, NoneType
  <2> QED
    BY <1>1, <1>2, <2>1, FS_EmptySet DEF IInv, StatusFits, AttemptsFit, NoDoublePayment
<1>6. PaymentsAreAgreed'
  BY <1>1 DEF IInv, PaymentsAreAgreed
<1> QED
  BY <1>1, <1>2, <1>3, <1>4, <1>5, <1>6

LEMMA CancellationStatusType ==
    ASSUME NEW request
    PROVE  CancellationStatus(request) \in {"Declined", "Agreed", "Pending"}
  BY DEF CancellationStatus

\* A request is stored next to requests that were declined.
LEMMA StoreCancellationKeeps ==
    ASSUME IInv, caseStatus \in {"PaymentActive", "CancellationPending"}, attempts = None,
           version < MaxVersion,
           NEW x \in CancellationIds, NEW request \in CancellationRequest,
           StoreCancellation(x, request),
           request.requiredApprovers = snapshot.requiredApprovers,
           \A y \in DOMAIN cancellations : y # x => Declined(y),
           CancellationStatus(request) = "Agreed" =>
               IsLatestCancellation(x) /\ request.ordinal = cancellations[x].ordinal
    PROVE  IInv'
<1>1. /\ version' \in 1 .. MaxVersion
      /\ revisions' = revisions /\ snapshotId' = snapshotId /\ snapshot' = snapshot
      /\ approvals' = approvals /\ attempts' = attempts
      /\ withdrawal' = withdrawal
      /\ cancellations' = With(cancellations, x, request)
      /\ caseStatus' = CASE CancellationStatus(request) = "Agreed" -> "Cancelled"
                     [] CancellationStatus(request) = "Declined" -> "PaymentActive"
                     [] OTHER -> "CancellationPending"
      /\ caseStatus' \in {"PaymentActive", "CancellationPending", "Cancelled"}
      /\ HistoryFits' /\ StatusFits' /\ AttemptsFit' /\ PaymentsAreAgreed'
      /\ OneAgreedRevision' /\ NoDoublePayment'
  BY StoreCancellationKeepsRest
<1>2. /\ DOMAIN cancellations' = DOMAIN cancellations \cup {x}
      /\ cancellations'[x] = request
      /\ \A y \in DOMAIN cancellations : y # x => cancellations'[y] = cancellations[y]
  BY <1>1 DEF With
<1>3. cancellations' \in [DOMAIN cancellations' -> CancellationRequest]
  <2>1. cancellations \in [DOMAIN cancellations -> CancellationRequest]
    BY DEF IInv, CaseTypeOK
  <2>2. With(cancellations, x, request)
            \in [DOMAIN With(cancellations, x, request) -> CancellationRequest]
    BY <2>1, PutType
  <2> QED
    BY <1>1, <2>2
<1>4. CaseTypeOK'
  BY <1>1, <1>2, <1>3 DEF IInv, CaseTypeOK
<1>5. RequestsFit'
  <2>1. IsFiniteSet(DOMAIN cancellations')
    BY <1>2, FS_AddElement DEF IInv, RequestsFit
  <2>2. \A y \in DOMAIN cancellations' :
            cancellations'[y].requiredApprovers = snapshot'.requiredApprovers
    BY <1>1, <1>2 DEF IInv, RequestsFit
  <2>3. \A y \in DOMAIN cancellations' :
            y # x => CancellationStatus(cancellations'[y]) = "Declined"
    BY <1>2 DEF Declined
  <2>4. caseStatus' = "PaymentActive" => CancellationStatus(request) = "Declined"
    BY <1>1, CancellationStatusType
  <2>5. caseStatus' = "CancellationPending" => CancellationStatus(request) = "Pending"
    BY <1>1, CancellationStatusType
  <2>6. caseStatus' = "Cancelled" => CancellationStatus(request) = "Agreed"
    BY <1>1, CancellationStatusType
  <2>7. CancellationStatus(request) = "Agreed" => IsLatestCancellation(x)'
    BY <1>2 DEF IsLatestCancellation
  <2> QED
    BY <1>1, <1>2, <2>1, <2>2, <2>3, <2>4, <2>5, <2>6, <2>7 DEF RequestsFit, Declined
<1> QED
  BY <1>1, <1>4, <1>5 DEF IInv

LEMMA RequestCancellationKeeps ==
    ASSUME IInv, NEW actor, NEW owner, NEW x \in CancellationIds, NEW v, NEW s,
           RequestCancellation(actor, owner, x, v, s)
    PROVE  IInv'
<1> DEFINE n == Cardinality(DOMAIN cancellations)
           request == [snapshotId |-> snapshotId, ordinal |-> n + 1,
                       requiredApprovers |-> snapshot.requiredApprovers,
                       agreed |-> {}, declined |-> {}]
<1>1. /\ caseStatus = "PaymentActive" /\ version < MaxVersion /\ attempts = None
      /\ StoreCancellation(x, request)
      /\ x \notin DOMAIN cancellations
  BY DEF RequestCancellation, IsCurrent, NeverPaid
<1>2. n \in Nat
  BY FS_CardinalityType DEF IInv, RequestsFit
<1>3. /\ snapshotId \in SnapshotIds
      /\ snapshot.requiredApprovers \subseteq Participants
      /\ snapshot.requiredApprovers # {}
  BY DEF IInv, CaseTypeOK, HistoryFits, snapshot, Revision
<1>4. /\ request \in CancellationRequest
      /\ request.requiredApprovers = snapshot.requiredApprovers
      /\ CancellationStatus(request) = "Pending"
  BY <1>2, <1>3 DEF CancellationRequest, CancellationStatus
<1>5. \A y \in DOMAIN cancellations : y # x => Declined(y)
  BY <1>1 DEF IInv, RequestsFit
<1> HIDE DEF request
<1> QED
  BY <1>1, <1>4, <1>5, StoreCancellationKeeps

LEMMA DecideCancellationKeeps ==
    ASSUME IInv, NEW p \in Participants, NEW agrees \in BOOLEAN, NEW x \in CancellationIds,
           NEW v, NEW s, DecideCancellation(p, agrees, x, v, s)
    PROVE  IInv'
<1> DEFINE request == IF agrees
                      THEN [cancellations[x] EXCEPT !.agreed = @ \cup {p}]
                      ELSE [cancellations[x] EXCEPT !.declined = @ \cup {p}]
<1>1. /\ caseStatus = "CancellationPending" /\ version < MaxVersion
      /\ IsLatestCancellation(x)
      /\ CancellationStatus(cancellations[x]) = "Pending"
      /\ StoreCancellation(x, request)
  BY DEF DecideCancellation, IsCurrent
<1>2. /\ x \in DOMAIN cancellations
      /\ cancellations[x] \in CancellationRequest
      /\ cancellations[x].requiredApprovers = snapshot.requiredApprovers
  BY <1>1 DEF IInv, CaseTypeOK, RequestsFit, IsLatestCancellation
<1>3. /\ request \in CancellationRequest
      /\ request.requiredApprovers = snapshot.requiredApprovers
      /\ request.ordinal = cancellations[x].ordinal
  BY <1>2 DEF CancellationRequest
<1> HIDE DEF request
<1>4. \A y \in DOMAIN cancellations : y # x => Declined(y)
  BY <1>1, <1>2 DEF IInv, RequestsFit, Declined
<1>5. attempts = None
  BY <1>1, EmptyIsNone DEF IInv, CaseTypeOK, StatusFits
<1> QED
  BY <1>1, <1>3, <1>4, <1>5, StoreCancellationKeeps

-----------------------------------------------------------------------------
(* The invariant *)

LEMMA NextKeeps == IInv /\ [CaseNext]_caseVars => IInv'
<1> SUFFICES ASSUME IInv, [CaseNext]_caseVars PROVE IInv'
  OBVIOUS
<1>1. CASE UNCHANGED caseVars
  <2>1. /\ caseStatus' = caseStatus /\ version' = version /\ revisions' = revisions
        /\ snapshotId' = snapshotId /\ approvals' = approvals /\ attempts' = attempts
        /\ cancellations' = cancellations /\ withdrawal' = withdrawal
    BY <1>1 DEF caseVars
  <2>2. CaseTypeOK' /\ HistoryFits' /\ StatusFits' /\ AttemptsFit'
    BY <2>1 DEF IInv, CaseTypeOK, HistoryFits, StatusFits, AttemptsFit
  <2>3. RequestsFit'
    BY <2>1 DEF IInv, RequestsFit, Declined, IsLatestCancellation, snapshot
  <2>4. PaymentsAreAgreed' /\ OneAgreedRevision' /\ NoDoublePayment'
    BY <2>1 DEF IInv, PaymentsAreAgreed, OneAgreedRevision, NoDoublePayment, snapshot
  <2> QED
    BY <2>2, <2>3, <2>4 DEF IInv
<1>2. ASSUME NEW p \in Participants, NEW v \in 1 .. MaxVersion, NEW s \in SnapshotIds,
             ApprovalStep(p, v, s)
      PROVE  IInv'
  BY <1>2, DecideKeeps, WithdrawKeeps, ResubmitKeeps DEF ApprovalStep
<1>3. ASSUME NEW p \in Participants, NEW v \in 1 .. MaxVersion, NEW s \in SnapshotIds,
             PaymentStep(p, v, s)
      PROVE  IInv'
  BY <1>3, ReportPaymentKeeps, DecideReceiptKeeps DEF PaymentStep
<1>4. ASSUME NEW p \in Participants, NEW v \in 1 .. MaxVersion, NEW s \in SnapshotIds,
             CancellingStep(p, v, s)
      PROVE  IInv'
  BY <1>4, RequestCancellationKeeps, DecideCancellationKeeps DEF CancellingStep
<1> QED
  BY <1>1, <1>2, <1>3, <1>4 DEF CaseNext

LEMMA IInvAlways == CaseSpec => []IInv
  BY InitFits, NextKeeps, PTL DEF CaseSpec

(* The case is well-typed: every status, revision, decision, attempt and   *)
(* request is one the entities of the aggregate allow                      *)
(* (apps/api/src/settlement/domain/entities/).                             *)
THEOREM CaseTypeCorrect == CaseSpec => []CaseTypeOK
<1>1. IInv => CaseTypeOK
  BY DEF IInv
<1> QED
  BY <1>1, IInvAlways, PTL

(* Everybody has agreed to what is paid, each approver has one say on a    *)
(* revision, and no instruction is paid twice, over any corrections,       *)
(* returned payments and stale commands (approve, reject, resubmit,        *)
(* reportPayment, confirmReceipt, returnPayment).                          *)
THEOREM PaidOnce == CaseSpec => []InstructionsArePaidOnce
<1>1. IInv => InstructionsArePaidOnce
  BY DEF IInv, InstructionsArePaidOnce
<1> QED
  BY <1>1, IInvAlways, PTL

(* A case with reported payments is never cancelled, only a request that   *)
(* everybody agreed to cancels one, and a request is open exactly while    *)
(* the case says so (requestCancellation, agreeCancellation,               *)
(* declineCancellation, reportPayment).                                    *)
THEOREM CancelledOrPaid == CaseSpec => []CancellationExcludesPayment
<1>1. ASSUME IInv PROVE CancellationExcludesPayment
  <2>1. attempts # None => DOMAIN attempts # {}
    BY <1>1, EmptyIsNone DEF IInv, CaseTypeOK
  <2>2. attempts # None =>
            /\ caseStatus \in {"PaymentActive", "Archived"}
            /\ \A x \in DOMAIN cancellations : Declined(x)
    BY <1>1, <2>1 DEF IInv, StatusFits, RequestsFit
  <2>3. caseStatus = "Cancelled" =>
            \E x \in DOMAIN cancellations :
                /\ IsLatestCancellation(x)
                /\ snapshot.requiredApprovers \subseteq cancellations[x].agreed
    BY <1>1 DEF IInv, RequestsFit, CancellationStatus
  <2>4. ASSUME NEW x \in DOMAIN cancellations,
               CancellationStatus(cancellations[x]) = "Pending"
        PROVE  caseStatus = "CancellationPending"
    <3>1. ~ Declined(x)
      BY <2>4 DEF Declined
    <3>2. caseStatus # "Cancelled"
      <4>1. \A y \in DOMAIN cancellations :
                CancellationStatus(cancellations[y]) = "Agreed" => ~ Declined(y) /\ y # x
        BY <2>4 DEF Declined
      <4> QED
        BY <1>1, <3>1, <4>1 DEF IInv, RequestsFit
    <3> QED
      BY <1>1, <3>1, <3>2 DEF IInv, RequestsFit, CaseTypeOK
  <2>5. caseStatus = "CancellationPending" =>
            \E x \in DOMAIN cancellations :
                CancellationStatus(cancellations[x]) = "Pending"
    BY <1>1 DEF IInv, RequestsFit
  <2> QED
    BY <2>2, <2>3, <2>4, <2>5 DEF CancellationExcludesPayment, Declined
<1> QED
  BY <1>1, IInvAlways, PTL

-----------------------------------------------------------------------------
(* What was decided stays decided *)

LEMMA ApprovalStepStands ==
    ASSUME IInv, NEW p \in Participants, NEW v, NEW s, ApprovalStep(p, v, s)
    PROVE  DecisionsStand
<1>1. /\ caseStatus \in {"AwaitingApproval", "Rejected"}
      /\ version' = version + 1
      /\ approvals \subseteq approvals'
  BY DEF ApprovalStep, Decide, Withdraw, Resubmit, CanBeWithdrawn
<1>2. \A r \in DOMAIN revisions : r \in DOMAIN revisions' /\ revisions'[r] = revisions[r]
  BY DEF ApprovalStep, Decide, Withdraw, Resubmit, With
<1>3. DOMAIN attempts = {} /\ DOMAIN cancellations = {}
  BY <1>1 DEF IInv, StatusFits, RequestsFit
<1> QED
  BY <1>1, <1>2, <1>3 DEF DecisionsStand

LEMMA PaymentStepStands ==
    ASSUME IInv, NEW p \in Participants, NEW v, NEW s, PaymentStep(p, v, s)
    PROVE  DecisionsStand
<1>1. /\ caseStatus = "PaymentActive"
      /\ version' = version + 1
      /\ revisions' = revisions /\ approvals' = approvals /\ cancellations' = cancellations
  BY DEF PaymentStep, ReportPayment, DecideReceipt, IsPayable, StoreAttempts
<1>2. \A k \in DOMAIN attempts :
          /\ k \in DOMAIN attempts'
          /\ attempts[k].status # "Reported" => attempts'[k] = attempts[k]
  <2>1. PICK i \in snapshot.instructions, k \in AttemptIds :
            \/ ReportPayment(p, i, k, v, s)
            \/ \E decision \in {"Received", "Returned"} : DecideReceipt(p, i, k, decision, v, s)
    BY DEF PaymentStep
  <2>2. CASE ReportPayment(p, i, k, v, s)
    BY <2>1, <2>2, ReportPaymentEffect DEF AttemptsOnceMore
  <2>3. CASE \E decision \in {"Received", "Returned"} : DecideReceipt(p, i, k, decision, v, s)
    <3>1. PICK decision \in {"Received", "Returned"} : DecideReceipt(p, i, k, decision, v, s)
      BY <2>3
    <3>2. AttemptDecided(i.id, k, decision)
      BY <2>1, <3>1, DecideReceiptEffect
    <3> QED
      BY <3>2 DEF AttemptDecided
  <2> QED
    BY <2>1, <2>2, <2>3
<1> QED
  BY <1>1, <1>2 DEF DecisionsStand

LEMMA CancellationStepStands ==
    ASSUME IInv, NEW p \in Participants, NEW v, NEW s, CancellingStep(p, v, s)
    PROVE  DecisionsStand
<1>1. PICK x \in CancellationIds :
          \/ \E owner \in Participants : RequestCancellation(p, owner, x, v, s)
          \/ \E agrees \in BOOLEAN : DecideCancellation(p, agrees, x, v, s)
  BY DEF CancellingStep
<1>2. CASE \E owner \in Participants : RequestCancellation(p, owner, x, v, s)
  BY <1>2 DEF RequestCancellation, StoreCancellation, With, DecisionsStand
<1>3. CASE \E agrees \in BOOLEAN : DecideCancellation(p, agrees, x, v, s)
  <2>1. PICK agrees \in BOOLEAN : DecideCancellation(p, agrees, x, v, s)
    BY <1>3
  <2> DEFINE request == IF agrees
                        THEN [cancellations[x] EXCEPT !.agreed = @ \cup {p}]
                        ELSE [cancellations[x] EXCEPT !.declined = @ \cup {p}]
  <2>2. /\ caseStatus = "CancellationPending" /\ x \in DOMAIN cancellations
        /\ StoreCancellation(x, request)
    BY <2>1 DEF DecideCancellation, IsLatestCancellation
  <2>3. cancellations[x] \in CancellationRequest
    BY <2>2 DEF IInv, CaseTypeOK
  <2>4. /\ cancellations[x].agreed \subseteq request.agreed
        /\ cancellations[x].declined \subseteq request.declined
    BY <2>3 DEF CancellationRequest
  <2> HIDE DEF request
  <2>5. /\ version' = version + 1
        /\ revisions' = revisions /\ approvals' = approvals /\ attempts' = attempts
        /\ cancellations' = With(cancellations, x, request)
    BY <2>2 DEF StoreCancellation
  <2>6. \A y \in DOMAIN cancellations :
            /\ y \in DOMAIN cancellations'
            /\ cancellations[y].agreed \subseteq cancellations'[y].agreed
            /\ cancellations[y].declined \subseteq cancellations'[y].declined
    BY <2>2, <2>4, <2>5 DEF With
  <2> QED
    BY <2>2, <2>5, <2>6 DEF DecisionsStand
<1> QED
  BY <1>1, <1>2, <1>3

(* What was decided stays decided: revisions, approvals, answers to a      *)
(* request and receipts are only ever added, and a case that was archived, *)
(* withdrawn or cancelled never changes (every public method of            *)
(* SettlementCase).                                                        *)
THEOREM DecisionsStayFinal == CaseSpec => DecisionsAreFinal
<1>1. IInv /\ CaseNext => DecisionsStand
  BY ApprovalStepStands, PaymentStepStands, CancellationStepStands DEF CaseNext
<1> QED
  BY <1>1, IInvAlways, PTL DEF CaseSpec, DecisionsAreFinal

-----------------------------------------------------------------------------
(* The case implements SettlementOutcome *)

LEMMA DueType == IInv => InstructionIdsOf(snapshot) \subseteq InstructionIds
  BY DEF IInv, CaseTypeOK, snapshot, Revision, InstructionIdsOf

\* Without an attempt nothing is claimed.
LEMMA NothingClaimed ==
    ASSUME DOMAIN attempts = {}
    PROVE  Claimed = {} /\ Received = {}
  BY DEF Claimed, Received

LEMMA NothingClaimedThen ==
    ASSUME (DOMAIN attempts = {})'
    PROVE  Claimed' = {} /\ Received' = {}
  BY DEF Claimed, Received

LEMMA InitRefines == CaseInit => Outcome!Init
<1> SUFFICES ASSUME NEW actor \in Participants, NEW s \in SnapshotIds, NEW c \in Contents,
                    NEW ids \in [c.candidates -> InstructionIds], StartCase(actor, s, c, ids)
             PROVE  Outcome!Init
  BY DEF CaseInit
<1>1. IInv
  BY InitFits DEF CaseInit
<1>2. /\ DOMAIN attempts = {}
      /\ snapshot = NewRevision(actor, c, ids, 1)
      /\ caseStatus = StatusAfter(snapshot, approvals)
      /\ approvals = SelfApproval(s, snapshot)
  BY NoneType DEF StartCase, snapshot
<1>3. Claimed = {} /\ Received = {}
  BY <1>2, NothingClaimed
<1>4. CASE caseStatus = "Archived"
  <2>1. snapshot.instructions = {}
    BY <1>2, <1>4 DEF StatusAfter
  <2>2. Outcome!Agreed({})
    BY <1>3, <1>4, <2>1 DEF Outcome!Agreed, Phase, Due, InstructionIdsOf
  <2> QED
    BY <2>2 DEF Outcome!Init
<1>5. CASE caseStatus = "PaymentActive"
  <2>1. InstructionIdsOf(snapshot) # {}
    BY <1>2, <1>5 DEF StatusAfter, InstructionIdsOf
  <2>2. Outcome!Agreed(InstructionIdsOf(snapshot))
    BY <1>3, <1>5, <2>1 DEF Outcome!Agreed, Phase, Due
  <2> QED
    BY <1>1, <2>2, DueType DEF Outcome!Init
<1>6. CASE caseStatus \in {"AwaitingApproval", "Rejected"}
  BY <1>3, <1>6 DEF Outcome!Init, Outcome!Open, Phase, Due
<1> QED
  BY <1>2, <1>4, <1>5, <1>6 DEF StatusAfter

\* Deciding on a revision leaves the case open, or settles on its payments.
LEMMA DecidingRefines ==
    ASSUME IInv, IInv', caseStatus \in {"AwaitingApproval", "Rejected"}, attempts' = None,
           caseStatus' \in {"Rejected", "AwaitingApproval", "Archived", "PaymentActive"},
           caseStatus' \in {"Archived", "PaymentActive"} =>
               (caseStatus' = "Archived" <=> snapshot'.instructions = {})
    PROVE  [Outcome!Next]_(Outcome!vars)
<1>1. Claimed = {} /\ Received = {} /\ Claimed' = {} /\ Received' = {}
  BY NoneType, NothingClaimed, NothingClaimedThen DEF IInv, StatusFits
<1>2. Phase = "Open" /\ Due = {}
  BY DEF Phase, Due
<1>3. CASE caseStatus' \in {"AwaitingApproval", "Rejected"}
  <2>1. Phase' = "Open" /\ Due' = {}
    BY <1>3 DEF Phase, Due
  <2> QED
    BY <1>1, <1>2, <2>1 DEF Outcome!vars
<1>4. CASE caseStatus' \in {"Archived", "PaymentActive"}
  <2> DEFINE payments == InstructionIdsOf(snapshot)'
  <2>1. payments \subseteq InstructionIds
    BY DEF IInv, CaseTypeOK, snapshot, Revision, InstructionIdsOf
  <2>2. payments = {} <=> caseStatus' = "Archived"
    BY <1>4 DEF InstructionIdsOf
  <2>3. Due' = payments
    BY <1>4 DEF Due
  <2>4. Phase' = IF payments = {} THEN "Settled" ELSE "Due"
    BY <1>4, <2>2 DEF Phase
  <2> HIDE DEF payments
  <2>5. Outcome!Agree
    BY <1>1, <1>2, <2>1, <2>3, <2>4 DEF Outcome!Agree, Outcome!Agreed
  <2> QED
    BY <2>5 DEF Outcome!Next
<1> QED
  BY <1>3, <1>4

LEMMA ApprovalStepRefines ==
    ASSUME IInv, IInv', NEW p \in Participants, NEW v, NEW s \in SnapshotIds,
           ApprovalStep(p, v, s)
    PROVE  [Outcome!Next]_(Outcome!vars)
<1>1. CASE \E decision \in {"Approved", "Rejected"} : Decide(p, decision, v, s)
  <2>1. /\ caseStatus = "AwaitingApproval" /\ attempts' = None
        /\ snapshot' = snapshot
        /\ caseStatus' = StatusAfter(snapshot', DecisionsOn(snapshotId, approvals'))
    BY <1>1 DEF Decide, snapshot
  <2>2. /\ caseStatus' \in {"Rejected", "AwaitingApproval", "Archived", "PaymentActive"}
        /\ caseStatus' \in {"Archived", "PaymentActive"} =>
               (caseStatus' = "Archived" <=> snapshot'.instructions = {})
    BY <2>1 DEF StatusAfter
  <2> QED
    BY <2>1, <2>2, DecidingRefines
<1>2. CASE \E owner \in Participants, t \in SnapshotIds, c \in Contents :
               \E ids \in [c.candidates -> InstructionIds] :
                   Resubmit(p, owner, v, s, t, c, ids)
  <2>1. PICK owner \in Participants, t \in SnapshotIds, c \in Contents :
            \E ids \in [c.candidates -> InstructionIds] :
                Resubmit(p, owner, v, s, t, c, ids)
    BY <1>2
  <2>2. PICK ids \in [c.candidates -> InstructionIds] :
            Resubmit(p, owner, v, s, t, c, ids)
    BY <2>1
  <2> DEFINE new == NewRevision(p, c, ids, Cardinality(DOMAIN revisions) + 1)
  <2>3. /\ caseStatus = "Rejected" /\ attempts' = None
        /\ revisions' = With(revisions, t, new) /\ snapshotId' = t
        /\ caseStatus' = StatusAfter(new, DecisionsOn(t, approvals'))
    BY <2>2 DEF Resubmit
  <2> HIDE DEF new
  <2>4. snapshot' = new
    BY <2>3 DEF snapshot, With
  <2>5. /\ caseStatus' \in {"Rejected", "AwaitingApproval", "Archived", "PaymentActive"}
        /\ caseStatus' \in {"Archived", "PaymentActive"} =>
               (caseStatus' = "Archived" <=> new.instructions = {})
    BY <2>3 DEF StatusAfter
  <2> QED
    BY <2>3, <2>4, <2>5, DecidingRefines
<1>3. CASE \E owner \in Participants : Withdraw(p, owner, v, s)
  <2>1. /\ caseStatus \in {"AwaitingApproval", "Rejected"} /\ caseStatus' = "Withdrawn"
        /\ attempts' = None
    BY <1>3 DEF Withdraw, CanBeWithdrawn
  <2>2. Claimed = {} /\ Received = {} /\ Claimed' = {} /\ Received' = {}
    BY <2>1, NoneType, NothingClaimed, NothingClaimedThen DEF IInv, StatusFits
  <2>3. Phase = "Open" /\ Phase' = "Released" /\ Due = {} /\ Due' = {}
    BY <2>1 DEF Phase, Due
  <2>4. Outcome!Release
    BY <2>2, <2>3 DEF Outcome!Release
  <2> QED
    BY <2>4 DEF Outcome!Next
<1> QED
  BY <1>1, <1>2, <1>3 DEF ApprovalStep

LEMMA CancellationStepRefines ==
    ASSUME IInv, NEW p \in Participants, NEW v, NEW s, CancellingStep(p, v, s)
    PROVE  [Outcome!Next]_(Outcome!vars)
<1>0. PICK x \in CancellationIds :
          /\ caseStatus \in {"PaymentActive", "CancellationPending"}
          /\ DOMAIN attempts = {}
          /\ \E request : StoreCancellation(x, request)
  <2>1. PICK x \in CancellationIds :
            \/ \E owner \in Participants : RequestCancellation(p, owner, x, v, s)
            \/ \E agrees \in BOOLEAN : DecideCancellation(p, agrees, x, v, s)
    BY DEF CancellingStep
  <2>2. CASE \E owner \in Participants : RequestCancellation(p, owner, x, v, s)
    BY <2>2, NoneType DEF RequestCancellation, NeverPaid
  <2>3. CASE \E agrees \in BOOLEAN : DecideCancellation(p, agrees, x, v, s)
    <3>1. PICK agrees \in BOOLEAN : DecideCancellation(p, agrees, x, v, s)
      BY <2>3
    <3>2. caseStatus = "CancellationPending" /\ \E request : StoreCancellation(x, request)
      BY <3>1 DEF DecideCancellation
    <3>3. DOMAIN attempts = {}
      BY <3>2 DEF IInv, StatusFits
    <3> QED
      BY <3>2, <3>3
  <2> QED
    BY <2>1, <2>2, <2>3
<1>1. PICK request :
          /\ caseStatus \in {"PaymentActive", "CancellationPending"}
          /\ DOMAIN attempts = {}
          /\ StoreCancellation(x, request)
  BY <1>0
<1>2. /\ caseStatus' \in {"PaymentActive", "CancellationPending", "Cancelled"}
      /\ attempts' = attempts /\ snapshot' = snapshot
  BY <1>1, CancellationStatusType DEF StoreCancellation, snapshot
<1>3. Claimed = {} /\ Received = {} /\ Claimed' = {} /\ Received' = {}
  BY <1>1, <1>2, NothingClaimed, NothingClaimedThen
<1>4. Phase = "Due" /\ Due' = Due
  BY <1>1, <1>2 DEF Phase, Due
<1>5. CASE caseStatus' = "Cancelled"
  <2>1. Phase' = "Released"
    BY <1>5 DEF Phase
  <2>2. Outcome!Release
    BY <1>3, <1>4, <2>1 DEF Outcome!Release
  <2> QED
    BY <2>2 DEF Outcome!Next
<1>6. CASE caseStatus' # "Cancelled"
  <2>1. Phase' = "Due"
    BY <1>2, <1>6 DEF Phase
  <2> QED
    BY <1>3, <1>4, <2>1 DEF Outcome!vars
<1> QED
  BY <1>5, <1>6

\* A payment that is received was claimed, for an instruction that is due.
LEMMA ReceivedIsClaimed ==
    /\ \A i : IsReceived(i, attempts) => i \in Claimed
    /\ IInv => Claimed \subseteq InstructionIdsOf(snapshot)
<1>1. ASSUME NEW i, IsReceived(i, attempts)
      PROVE  i \in Claimed
  BY <1>1 DEF IsReceived, IsLatestAttempt, AttemptsFor, Claimed
<1>2. IInv => Claimed \subseteq InstructionIdsOf(snapshot)
  BY DEF IInv, NoDoublePayment, Claimed
<1> QED
  BY <1>1, <1>2

LEMMA ReportPaymentRefines ==
    ASSUME IInv, NEW i, NEW k, AttemptsOnceMore(i, k)
    PROVE  [Outcome!Next]_(Outcome!vars)
<1>1. /\ \A j \in AttemptsFor(i, attempts) :
             attempts'[j] = attempts[j] /\ attempts[j].status = "Returned"
      /\ AttemptsFor(i, attempts') = AttemptsFor(i, attempts) \cup {k}
      /\ attempts'[k].status = "Reported"
  BY DEF AttemptsOnceMore, AttemptsFor
<1>2. ~ IsReceived(i, attempts) /\ ~ IsReceived(i, attempts')
  BY <1>1 DEF IsReceived, IsLatestAttempt
<1>3. ASSUME NEW h, h # i
      PROVE  IsReceived(h, attempts') <=> IsReceived(h, attempts)
  <2>1. /\ AttemptsFor(h, attempts') = AttemptsFor(h, attempts)
        /\ \A j \in AttemptsFor(h, attempts) : attempts'[j] = attempts[j]
    BY <1>3 DEF AttemptsOnceMore, AttemptsFor
  <2> QED
    BY <2>1 DEF IsReceived, IsLatestAttempt
<1>4. Claimed' = Claimed \cup {i}
  BY DEF AttemptsOnceMore, Claimed
<1>5. Received' = Received
  BY <1>2, <1>3, <1>4 DEF Received
<1>6. /\ caseStatus = "PaymentActive" /\ caseStatus' = "PaymentActive"
      /\ snapshot' = snapshot
      /\ i \in InstructionIdsOf(snapshot) /\ i \in InstructionIds
  BY <1>2 DEF AttemptsOnceMore, StoreAttempts, snapshot
<1>7. /\ Phase = "Due" /\ Phase' = "Due"
      /\ Due = InstructionIdsOf(snapshot) /\ Due' = Due
  BY <1>6 DEF Phase, Due
<1>8. CASE i \in Claimed
  <2>1. Claimed' = Claimed
    BY <1>4, <1>8
  <2> QED
    BY <1>5, <1>7, <2>1 DEF Outcome!vars
<1>9. CASE i \notin Claimed
  <2>1. Outcome!Claim(i)
    BY <1>4, <1>5, <1>6, <1>7, <1>9 DEF Outcome!Claim
  <2> QED
    BY <1>6, <2>1 DEF Outcome!Next
<1> QED
  BY <1>8, <1>9

LEMMA DecideReceiptRefines ==
    ASSUME IInv, NEW i, NEW k, NEW decision \in {"Received", "Returned"},
           AttemptDecided(i, k, decision)
    PROVE  [Outcome!Next]_(Outcome!vars)
<1>1. /\ k \in DOMAIN attempts /\ k \in AttemptsFor(i, attempts)
      /\ attempts[k].instructionId = i
      /\ IsLatestAttempt(k, i, attempts)
      /\ attempts[k].status = "Reported" /\ attempts'[k].status = decision
      /\ AttemptsFor(i, attempts') = AttemptsFor(i, attempts)
  BY DEF AttemptDecided, AttemptsFor
<1>2. ASSUME NEW j, IsLatestAttempt(j, i, attempts)
      PROVE  j = k
  <2>1. j \in DOMAIN attempts /\ j \in AttemptsFor(i, attempts)
    BY <1>2 DEF IsLatestAttempt, AttemptsFor
  <2>2. attempts[j].ordinal \in Nat /\ attempts[k].ordinal \in Nat
    BY <1>1, <2>1 DEF IInv, CaseTypeOK, PaymentAttempt
  <2>3. attempts[j].ordinal <= attempts[k].ordinal /\ attempts[k].ordinal <= attempts[j].ordinal
    BY <1>1, <1>2, <2>1 DEF IsLatestAttempt
  <2>4. attempts[j].ordinal = attempts[k].ordinal
    BY <2>2, <2>3
  <2> QED
    BY <1>1, <2>1, <2>4 DEF IInv, NoDoublePayment
<1>3. ~ IsReceived(i, attempts)
  BY <1>1, <1>2 DEF IsReceived
<1>4. IsReceived(i, attempts') <=> decision = "Received"
  <2>1. \A j : IsLatestAttempt(j, i, attempts') <=> IsLatestAttempt(j, i, attempts)
    BY DEF AttemptDecided
  <2> QED
    BY <1>1, <1>2, <2>1 DEF IsReceived
<1>5. ASSUME NEW h, h # i
      PROVE  IsReceived(h, attempts') <=> IsReceived(h, attempts)
  <2>1. /\ AttemptsFor(h, attempts') = AttemptsFor(h, attempts)
        /\ \A j \in AttemptsFor(h, attempts) : attempts'[j] = attempts[j]
        /\ \A j : IsLatestAttempt(j, h, attempts') <=> IsLatestAttempt(j, h, attempts)
    BY <1>1, <1>5 DEF AttemptDecided, AttemptsFor
  <2> QED
    BY <2>1 DEF IsReceived
<1>6. i \in Claimed /\ Claimed' = Claimed
  BY <1>1 DEF AttemptDecided, Claimed
<1>7. /\ caseStatus = "PaymentActive"
      /\ caseStatus' = IF \A h \in InstructionIdsOf(snapshot) : IsReceived(h, attempts')
                   THEN "Archived" ELSE "PaymentActive"
      /\ snapshot' = snapshot
      /\ i \in InstructionIdsOf(snapshot) /\ i \in InstructionIds
  BY DEF AttemptDecided, StoreAttempts, snapshot
<1>8. Phase = "Due" /\ Due = InstructionIdsOf(snapshot) /\ Due' = Due
  BY <1>7 DEF Phase, Due
<1>9. CASE decision = "Returned"
  <2>1. Received' = Received
    BY <1>3, <1>4, <1>5, <1>6, <1>9 DEF Received
  <2>2. caseStatus' = "PaymentActive"
    BY <1>4, <1>7, <1>9
  <2>3. Phase' = "Due"
    BY <2>2 DEF Phase
  <2> QED
    BY <1>6, <1>8, <2>1, <2>3 DEF Outcome!vars
<1>10. CASE decision = "Received"
  <2>1. Received' = Received \cup {i}
    BY <1>3, <1>4, <1>5, <1>6, <1>10 DEF Received
  <2>2. i \notin Received
    BY <1>3 DEF Received
  <2>3. Received' = Due' <=> \A h \in InstructionIdsOf(snapshot) : IsReceived(h, attempts')
    <3>1. \A h : IsReceived(h, attempts') => h \in Claimed
      BY <1>5, <1>6, ReceivedIsClaimed
    <3>2. Claimed \subseteq InstructionIdsOf(snapshot)
      BY ReceivedIsClaimed
    <3>3. Received' = {h \in Claimed : IsReceived(h, attempts')}
      BY <1>6 DEF Received
    <3> QED
      BY <1>8, <3>1, <3>2, <3>3
  <2>4. Phase' = IF Received' = Due THEN "Settled" ELSE "Due"
    <3>1. CASE Received' = Due
      BY <1>7, <1>8, <2>3, <3>1 DEF Phase
    <3>2. CASE Received' # Due
      BY <1>7, <1>8, <2>3, <3>2 DEF Phase
    <3> QED
      BY <3>1, <3>2
  <2>5. Outcome!Receive(i)
    BY <1>6, <1>8, <2>1, <2>2, <2>4 DEF Outcome!Receive
  <2> QED
    BY <1>7, <2>5 DEF Outcome!Next
<1> QED
  BY <1>9, <1>10

LEMMA StepRefines == IInv /\ IInv' /\ [CaseNext]_caseVars => [Outcome!Next]_(Outcome!vars)
<1> SUFFICES ASSUME IInv, IInv', [CaseNext]_caseVars PROVE [Outcome!Next]_(Outcome!vars)
  OBVIOUS
<1>1. CASE UNCHANGED caseVars
  <2>1. caseStatus' = caseStatus /\ snapshot' = snapshot /\ attempts' = attempts
    BY <1>1 DEF caseVars, snapshot
  <2>2. Phase' = Phase /\ Due' = Due /\ Claimed' = Claimed /\ Received' = Received
    BY <2>1 DEF Phase, Due, Claimed, Received
  <2> QED
    BY <2>2 DEF Outcome!vars
<1>2. ASSUME NEW p \in Participants, NEW v \in 1 .. MaxVersion, NEW s \in SnapshotIds,
             PaymentStep(p, v, s)
      PROVE  [Outcome!Next]_(Outcome!vars)
  <2>1. PICK i \in snapshot.instructions, k \in AttemptIds :
            \/ ReportPayment(p, i, k, v, s)
            \/ \E decision \in {"Received", "Returned"} : DecideReceipt(p, i, k, decision, v, s)
    BY <1>2 DEF PaymentStep
  <2>2. CASE ReportPayment(p, i, k, v, s)
    BY <2>1, <2>2, ReportPaymentEffect, ReportPaymentRefines
  <2>3. CASE \E decision \in {"Received", "Returned"} : DecideReceipt(p, i, k, decision, v, s)
    BY <2>1, <2>3, DecideReceiptEffect, DecideReceiptRefines
  <2> QED
    BY <2>1, <2>2, <2>3
<1> QED
  BY <1>1, <1>2, ApprovalStepRefines, CancellationStepRefines DEF CaseNext

(* Seen from the group whose expenses it reserves, a case does what        *)
(* SettlementOutcome says: the participants settle on what is due, every   *)
(* payment is received once, and the expenses are released only while      *)
(* nobody has claimed to have paid.                                        *)
THEOREM CaseImplementsOutcome == CaseSpec => ImplementsSettlementOutcome
  BY InitRefines, StepRefines, IInvAlways, PTL
  DEF CaseSpec, ImplementsSettlementOutcome, Outcome!Spec
=============================================================================
