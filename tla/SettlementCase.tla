--------------------------- MODULE SettlementCase ---------------------------
(***************************************************************************)
(* The SettlementCase aggregate: revisions of a settlement, the approvals  *)
(* of its participants, the payments they report and confirm, and the      *)
(* cancellation of the whole case                                          *)
(* (apps/api/src/settlement/domain/settlement-case.ts and entities/).      *)
(*                                                                         *)
(* One action per public method; a method that throws changes nothing.     *)
(* Every method but start compares the version and the snapshot its caller *)
(* read with the present ones: both are inputs of the actions, so that a   *)
(* command prepared against an older case is among the inputs.             *)
(*                                                                         *)
(* Reasons, instants, amounts and the shape of ids are left out: a command *)
(* with a malformed one, or with an amount that is not the instruction's,  *)
(* throws before it changes anything.                                      *)
(***************************************************************************)
EXTENDS Integers, FiniteSets

CONSTANTS
    Participants,
    Contents,          \* the settlement contents that can be submitted
    SnapshotIds,
    InstructionIds,
    AttemptIds,
    CancellationIds,
    MaxVersion,        \* bound on the commands a case accepts
    NoWithdrawal

\* A content fixes the group and the expenses it settles (target), who has to
\* approve it, and the payments that level the balances.  The payers and payees
\* of the payments are among the required approvers, who are never empty
\* (SettlementSnapshotContent.from, derivePaymentInstructionCandidates).
ASSUME ContentsAssumption ==
    \A c \in Contents :
        /\ c.requiredApprovers \in (SUBSET Participants) \ {{}}
        /\ IsFiniteSet(c.candidates)
        /\ \A d \in c.candidates :
               /\ {d.payer, d.payee} \subseteq c.requiredApprovers
               /\ d.payer # d.payee

ASSUME BoundsAssumption == MaxVersion \in Nat \ {0}

ASSUME WithdrawalAssumption == NoWithdrawal \notin SnapshotIds

VARIABLES
    caseStatus,
    version,
    revisions,       \* function from snapshot ids
    snapshotId,      \* the current revision
    approvals,       \* every decision on every revision
    attempts,        \* function from the ids of the payments reported
    cancellations,   \* function from the ids of the cancellations requested
    withdrawal       \* the snapshot that was withdrawn, or NoWithdrawal

caseVars == <<caseStatus, version, revisions, snapshotId, approvals, attempts,
          cancellations, withdrawal>>

-----------------------------------------------------------------------------
Revision ==
    [ordinal: Nat, applicant: Participants, target: {c.target : c \in Contents},
     requiredApprovers: SUBSET Participants,
     instructions: SUBSET
         [id: InstructionIds, payer: Participants, payee: Participants]]

Approval ==
    [snapshotId: SnapshotIds, participant: Participants,
     decision: {"Approved", "Rejected"}]

PaymentAttempt ==
    [snapshotId: SnapshotIds, instructionId: InstructionIds, ordinal: Nat,
     status: {"Reported", "Received", "Returned"}]

CancellationRequest ==
    [snapshotId: SnapshotIds, ordinal: Nat, requiredApprovers: SUBSET Participants,
     agreed: SUBSET Participants, declined: SUBSET Participants]

CaseTypeOK ==
    /\ caseStatus \in {"AwaitingApproval", "Rejected", "PaymentActive", "Archived",
                   "Withdrawn", "CancellationPending", "Cancelled"}
    /\ version \in 1 .. MaxVersion
    /\ DOMAIN revisions \subseteq SnapshotIds
    /\ revisions \in [DOMAIN revisions -> Revision]
    /\ snapshotId \in DOMAIN revisions
    /\ approvals \subseteq Approval
    /\ DOMAIN attempts \subseteq AttemptIds
    /\ attempts \in [DOMAIN attempts -> PaymentAttempt]
    /\ DOMAIN cancellations \subseteq CancellationIds
    /\ cancellations \in [DOMAIN cancellations -> CancellationRequest]
    /\ withdrawal \in SnapshotIds \cup {NoWithdrawal}

With(f, k, v) == [x \in DOMAIN f \cup {k} |-> IF x = k THEN v ELSE f[x]]

None == [k \in {} |-> k]

snapshot == revisions[snapshotId]

\* requireCurrentRevision, and the bound on the versions explored.
IsCurrent(expectedVersion, s) ==
    /\ expectedVersion = version
    /\ s = snapshotId
    /\ version < MaxVersion

\* requireCaseActor: the participant who applied first, or the group's owner.
IsCaseActor(actor, owner) ==
    \/ actor = owner
    \/ \E s \in DOMAIN revisions :
           revisions[s].ordinal = 1 /\ revisions[s].applicant = actor

DecisionsOn(s, made) == {a \in made : a.snapshotId = s}

\* The participants the current revision waits for have all approved it.
IsApprovedBy(revision, decisions) ==
    \A p \in revision.requiredApprovers :
        \E a \in decisions : a.participant = p /\ a.decision = "Approved"

\* The status withDecisions derives from the decisions on one revision.
StatusAfter(revision, decisions) ==
    IF \E a \in decisions : a.decision = "Rejected" THEN "Rejected"
    ELSE IF ~ IsApprovedBy(revision, decisions) THEN "AwaitingApproval"
    ELSE IF revision.instructions = {} THEN "Archived"
    ELSE "PaymentActive"

-----------------------------------------------------------------------------
\* createRevision: the content under new instruction ids, one per candidate.
NewRevision(actor, content, ids, ordinal) ==
    [ordinal |-> ordinal, applicant |-> actor, target |-> content.target,
     requiredApprovers |-> content.requiredApprovers,
     instructions |-> {[id |-> ids[d], payer |-> d.payer, payee |-> d.payee] :
                           d \in content.candidates}]

AreDistinct(content, ids) ==
    \A d, e \in content.candidates : ids[d] = ids[e] => d = e

\* An applicant whose approval is required approves by applying.
SelfApproval(s, revision) ==
    {[snapshotId |-> s, participant |-> p, decision |-> "Approved"] :
         p \in revision.requiredApprovers \cap {revision.applicant}}

InstructionIdsOf(revision) == {i.id : i \in revision.instructions}

StartCase(actor, s, content, ids) ==
    LET first == NewRevision(actor, content, ids, 1)
    IN  /\ AreDistinct(content, ids)
        /\ revisions = [t \in {s} |-> first]
        /\ snapshotId = s
        /\ approvals = SelfApproval(s, first)
        /\ caseStatus = StatusAfter(first, approvals)
        /\ version = 1
        /\ attempts = None
        /\ cancellations = None
        /\ withdrawal = NoWithdrawal

CaseInit ==
    \E actor \in Participants, s \in SnapshotIds, c \in Contents :
        \E ids \in [c.candidates -> InstructionIds] : StartCase(actor, s, c, ids)

HasDecided(p) == \E a \in DecisionsOn(snapshotId, approvals) : a.participant = p

\* approve and reject: one decision of one required participant, once.
Decide(p, decision, expectedVersion, s) ==
    /\ caseStatus = "AwaitingApproval"
    /\ IsCurrent(expectedVersion, s)
    /\ p \in snapshot.requiredApprovers
    /\ ~ HasDecided(p)
    /\ approvals' = approvals \cup
           {[snapshotId |-> snapshotId, participant |-> p, decision |-> decision]}
    /\ caseStatus' = StatusAfter(snapshot, DecisionsOn(snapshotId, approvals'))
    /\ version' = version + 1
    /\ attempts' = None
    /\ cancellations' = None
    /\ UNCHANGED <<revisions, snapshotId, withdrawal>>

\* A rejected case is submitted again with a corrected content for the same
\* expenses.  Everybody has to decide again.
Resubmit(actor, owner, expectedVersion, current, s, content, ids) ==
    LET next == NewRevision(actor, content, ids, Cardinality(DOMAIN revisions) + 1)
    IN  /\ caseStatus = "Rejected"
        /\ IsCurrent(expectedVersion, current)
        /\ IsCaseActor(actor, owner)
        /\ AreDistinct(content, ids)
        /\ content.target = snapshot.target
        /\ s \notin DOMAIN revisions
        /\ \A r \in DOMAIN revisions :
               InstructionIdsOf(next) \cap InstructionIdsOf(revisions[r]) = {}
        /\ revisions' = With(revisions, s, next)
        /\ snapshotId' = s
        /\ approvals' = approvals \cup SelfApproval(s, next)
        /\ caseStatus' = StatusAfter(next, DecisionsOn(s, approvals'))
        /\ version' = version + 1
        /\ attempts' = None
        /\ cancellations' = None
        /\ withdrawal' = NoWithdrawal

CanBeWithdrawn == caseStatus \in {"AwaitingApproval", "Rejected"}

\* The whole case is withdrawn before it was approved.
Withdraw(actor, owner, expectedVersion, s) ==
    /\ CanBeWithdrawn
    /\ IsCurrent(expectedVersion, s)
    /\ IsCaseActor(actor, owner)
    /\ withdrawal' = snapshotId
    /\ caseStatus' = "Withdrawn"
    /\ version' = version + 1
    /\ attempts' = None
    /\ cancellations' = None
    /\ UNCHANGED <<revisions, snapshotId, approvals>>

-----------------------------------------------------------------------------
AttemptsFor(i, made) == {k \in DOMAIN made : made[k].instructionId = i}

\* k is the last attempt at instruction i.
IsLatestAttempt(k, i, made) ==
    /\ k \in AttemptsFor(i, made)
    /\ \A j \in AttemptsFor(i, made) : made[j].ordinal <= made[k].ordinal

IsReceived(i, made) ==
    \E k \in AttemptsFor(i, made) :
        IsLatestAttempt(k, i, made) /\ made[k].status = "Received"

\* withPaymentAttempt: the case is archived with the last receipt.
StoreAttempts(made) ==
    /\ attempts' = made
    /\ caseStatus' = IF \A i \in InstructionIdsOf(snapshot) : IsReceived(i, made)
                 THEN "Archived" ELSE "PaymentActive"
    /\ version' = version + 1
    /\ UNCHANGED <<revisions, snapshotId, approvals, cancellations, withdrawal>>

\* Mutant: payments go on while a cancellation is pending.
IsPayableUntilEnd(instruction, expectedVersion, s) ==
    /\ caseStatus \in {"PaymentActive", "CancellationPending"}
    /\ IsCurrent(expectedVersion, s)
    /\ instruction \in snapshot.instructions

\* requirePaymentInstruction
IsPayable(instruction, expectedVersion, s) ==
    /\ caseStatus = "PaymentActive"
    /\ IsCurrent(expectedVersion, s)
    /\ instruction \in snapshot.instructions

\* Mutant: whatever is not received can be reported again.
IsNotReceived(i) == ~ IsReceived(i, attempts)

IsUnpaid(i) ==
    \A k \in DOMAIN attempts :
        IsLatestAttempt(k, i, attempts) => attempts[k].status = "Returned"

\* The payer reports the whole amount; again only after it was sent back.
ReportPayment(p, instruction, k, expectedVersion, s) ==
    LET i == instruction.id
    IN  /\ IsPayable(instruction, expectedVersion, s)
        /\ p = instruction.payer
        /\ IsUnpaid(i)
        /\ k \notin DOMAIN attempts
        /\ StoreAttempts(With(attempts, k,
               [snapshotId |-> snapshotId, instructionId |-> i,
                ordinal |-> Cardinality(AttemptsFor(i, attempts)) + 1,
                status |-> "Reported"]))

\* confirmReceipt and returnPayment: the payee decides on the last attempt.
DecideReceipt(p, instruction, k, decision, expectedVersion, s) ==
    /\ IsPayable(instruction, expectedVersion, s)
    /\ IsLatestAttempt(k, instruction.id, attempts)
    /\ attempts[k].status = "Reported"
    /\ p = instruction.payee
    /\ StoreAttempts([attempts EXCEPT ![k].status = decision])

-----------------------------------------------------------------------------
\* SettlementCancellationRequest.status
CancellationStatus(request) ==
    IF request.declined # {} THEN "Declined"
    ELSE IF request.requiredApprovers \subseteq request.agreed THEN "Agreed"
    ELSE "Pending"

IsLatestCancellation(x) ==
    /\ x \in DOMAIN cancellations
    /\ \A y \in DOMAIN cancellations : cancellations[y].ordinal <= cancellations[x].ordinal

\* withCancellation: the case follows the status of the request.
StoreCancellation(x, request) ==
    /\ cancellations' = With(cancellations, x, request)
    /\ caseStatus' = CASE CancellationStatus(request) = "Agreed" -> "Cancelled"
                   [] CancellationStatus(request) = "Declined" -> "PaymentActive"
                   [] OTHER -> "CancellationPending"
    /\ version' = version + 1
    /\ UNCHANGED <<revisions, snapshotId, approvals, attempts, withdrawal>>

\* Mutant: payments that were sent back do not count.
NothingOutstanding == \A k \in DOMAIN attempts : attempts[k].status = "Returned"

NeverPaid == attempts = None

\* The whole case can be cancelled while nobody ever reported a payment.
RequestCancellation(actor, owner, x, expectedVersion, s) ==
    /\ caseStatus = "PaymentActive"
    /\ IsCurrent(expectedVersion, s)
    /\ IsCaseActor(actor, owner)
    /\ NeverPaid
    /\ x \notin DOMAIN cancellations
    /\ StoreCancellation(x,
           [snapshotId |-> snapshotId,
            ordinal |-> Cardinality(DOMAIN cancellations) + 1,
            requiredApprovers |-> snapshot.requiredApprovers,
            agreed |-> {}, declined |-> {}])

\* agreeCancellation and declineCancellation, by each participant once; the
\* requester's agreement is not implied.
DecideCancellation(p, agrees, x, expectedVersion, s) ==
    LET request == cancellations[x]
    IN  /\ caseStatus = "CancellationPending"
        /\ IsCurrent(expectedVersion, s)
        /\ IsLatestCancellation(x)
        /\ CancellationStatus(request) = "Pending"
        /\ request.snapshotId = s
        /\ p \in request.requiredApprovers
        /\ p \notin request.agreed \cup request.declined
        /\ StoreCancellation(x,
               IF agrees THEN [request EXCEPT !.agreed = @ \cup {p}]
                         ELSE [request EXCEPT !.declined = @ \cup {p}])

-----------------------------------------------------------------------------
ApprovalStep(p, v, s) ==
    \/ \E decision \in {"Approved", "Rejected"} : Decide(p, decision, v, s)
    \/ \E owner \in Participants : Withdraw(p, owner, v, s)
    \/ \E owner \in Participants, t \in SnapshotIds, c \in Contents :
           \E ids \in [c.candidates -> InstructionIds] :
               Resubmit(p, owner, v, s, t, c, ids)

PaymentStep(p, v, s) ==
    \E instruction \in snapshot.instructions, k \in AttemptIds :
        \/ ReportPayment(p, instruction, k, v, s)
        \/ \E decision \in {"Received", "Returned"} :
               DecideReceipt(p, instruction, k, decision, v, s)

CancellingStep(p, v, s) ==
    \E x \in CancellationIds :
        \/ \E owner \in Participants : RequestCancellation(p, owner, x, v, s)
        \/ \E agrees \in BOOLEAN : DecideCancellation(p, agrees, x, v, s)

CaseNext ==
    \E p \in Participants, v \in 1 .. MaxVersion, s \in SnapshotIds :
        ApprovalStep(p, v, s) \/ PaymentStep(p, v, s) \/ CancellingStep(p, v, s)

CaseSpec == CaseInit /\ [][CaseNext]_caseVars

-----------------------------------------------------------------------------
\* Past approval, the current revision is the one that was approved, by every
\* participant it names and with no rejection: approvals of an earlier revision
\* never count (approval of a corrected content is asked for again).
PaymentsAreAgreed ==
    caseStatus \in {"PaymentActive", "Archived", "CancellationPending", "Cancelled"} =>
        /\ \A p \in snapshot.requiredApprovers :
               [snapshotId |-> snapshotId, participant |-> p, decision |-> "Approved"]
                   \in approvals
        /\ \A a \in approvals : a.snapshotId = snapshotId => a.decision = "Approved"
        /\ withdrawal = NoWithdrawal

\* A participant has one say on a revision, and every earlier revision was
\* rejected: the history never holds two revisions that were both agreed on.
OneAgreedRevision ==
    /\ \A a, b \in approvals :
           a.snapshotId = b.snapshotId /\ a.participant = b.participant => a = b
    /\ \A r \in DOMAIN revisions \ {snapshotId} :
           /\ revisions[r].ordinal < snapshot.ordinal
           /\ \E a \in approvals : a.snapshotId = r /\ a.decision = "Rejected"

\* No payment is made twice: of the attempts at an instruction every one but the
\* last was returned, and all belong to the revision that was agreed on.
NoDoublePayment ==
    \A k \in DOMAIN attempts :
        LET i == attempts[k].instructionId
        IN  /\ attempts[k].snapshotId = snapshotId
            /\ i \in InstructionIdsOf(snapshot)
            /\ attempts[k].status = "Returned" \/ IsLatestAttempt(k, i, attempts)
            /\ \A j \in AttemptsFor(i, attempts) :
                   attempts[j].ordinal = attempts[k].ordinal => j = k

\* Everybody has agreed to what is paid, each approver has one say on a revision, and no
\* instruction is paid twice, over any corrections, returned payments and stale commands
\* (approve, reject, reportPayment, confirmReceipt, returnPayment).
InstructionsArePaidOnce == PaymentsAreAgreed /\ OneAgreedRevision /\ NoDoublePayment

\* A case that collected payments is never cancelled, and while a cancellation is
\* pending nobody pays: the two outcomes exclude each other.
CancellationExcludesPayment ==
    /\ attempts # None =>
           /\ caseStatus \in {"PaymentActive", "Archived"}
           /\ \A x \in DOMAIN cancellations :
                  CancellationStatus(cancellations[x]) = "Declined"
    /\ caseStatus = "Cancelled" =>
           \E x \in DOMAIN cancellations :
               /\ IsLatestCancellation(x)
               /\ snapshot.requiredApprovers \subseteq cancellations[x].agreed
    /\ caseStatus = "CancellationPending" <=>
           \E x \in DOMAIN cancellations :
               CancellationStatus(cancellations[x]) = "Pending"

\* A step of a case that did not end adds to revisions, approvals, answers to a request and
\* receipts, and takes none back.
DecisionsStand ==
    /\ caseStatus \notin {"Archived", "Withdrawn", "Cancelled"}
    /\ version' = version + 1
    /\ \A r \in DOMAIN revisions :
           r \in DOMAIN revisions' /\ revisions'[r] = revisions[r]
    /\ approvals \subseteq approvals'
    /\ \A k \in DOMAIN attempts :
           /\ k \in DOMAIN attempts'
           /\ attempts[k].status # "Reported" => attempts'[k] = attempts[k]
    /\ \A x \in DOMAIN cancellations :
           /\ x \in DOMAIN cancellations'
           /\ cancellations[x].agreed \subseteq cancellations'[x].agreed
           /\ cancellations[x].declined \subseteq cancellations'[x].declined

\* What was decided stays decided, and a case that ended never changes.
DecisionsAreFinal == [][DecisionsStand]_caseVars

-----------------------------------------------------------------------------
(* The case as the group sees it. *)

Phase ==
    CASE caseStatus \in {"AwaitingApproval", "Rejected"} -> "Open"
      [] caseStatus \in {"PaymentActive", "CancellationPending"} -> "Due"
      [] caseStatus = "Archived" -> "Settled"
      [] caseStatus \in {"Withdrawn", "Cancelled"} -> "Released"

Due ==
    IF caseStatus \in {"AwaitingApproval", "Rejected", "Withdrawn"} THEN {}
    ELSE InstructionIdsOf(snapshot)

Claimed == {attempts[k].instructionId : k \in DOMAIN attempts}

Received == {i \in Claimed : IsReceived(i, attempts)}

Outcome == INSTANCE SettlementOutcome
    WITH phase <- Phase, due <- Due, claimed <- Claimed, received <- Received

\* A settlement ends either with every agreed payment received, or by releasing
\* its expenses while nobody had claimed to pay, and never in both ways.
ImplementsSettlementOutcome == Outcome!Spec
=============================================================================
