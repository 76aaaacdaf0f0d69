------------------------------- MODULE Group -------------------------------
(***************************************************************************)
(* The Group aggregate of the group-management context: memberships,       *)
(* invitations, the owner, and the Active -> Closing -> Archived life      *)
(* cycle (apps/api/src/group-management/domain/group.ts).                  *)
(*                                                                         *)
(* One action per public method.  A method that throws changes nothing, so *)
(* its checks are the guards of the action; a method that returns `this`   *)
(* (a transfer to the present owner, a receipt recorded twice) is a        *)
(* stuttering step.  Every method but transferOwnership builds its result  *)
(* with Group.restore, which re-checks the whole snapshot.  The guards     *)
(* below hold the checks of restore that the method itself does not make;  *)
(* RestoreAccepts, checked and proved, says that the others cannot fail.   *)
(*                                                                         *)
(* The instants are inputs chosen by the caller's clock: nothing makes     *)
(* them grow from one call to the next.                                    *)
(***************************************************************************)
EXTENDS Integers, FiniteSets

CONSTANTS
    Subjects,               \* authenticated actors
    ParticipantIds,         \* ids of memberships, one per join
    InvitationIds,
    CloseIntentIds,
    GroupIds,               \* the groups a receipt can name
    GroupId,                \* this group
    Instants,               \* instants a command can carry
    MaxFenceVersion,        \* bound on the fence versions receipts carry
    MaxActiveParticipants,  \* 4 in the code
    InvitationLifetime,     \* seven days
    RetentionEnd,           \* function of instants: a calendar year later in Tokyo
    MaxSafeInteger,         \* Number.MAX_SAFE_INTEGER
    Null

ASSUME ConstantsAssumption ==
    /\ GroupId \in GroupIds
    /\ Instants \subseteq Nat
    /\ MaxFenceVersion \in Nat
    /\ MaxActiveParticipants \in Nat \ {0}
    /\ InvitationLifetime \in Nat \ {0}
    /\ RetentionEnd \in [Instants -> Nat]
    /\ MaxSafeInteger \in Nat \ {0}
    /\ Null \notin ParticipantIds \cup Nat

VARIABLES
    status,
    ownerParticipantId,
    participants,                  \* function from the ids that ever joined
    invitations,                   \* function from the ids that were issued
    accessPolicyVersion,
    closing,                       \* Null unless status = "Closing"
    ownerAtArchiveParticipantId,
    archivedAt,
    deleteEligibleAt

archiveVars == <<ownerAtArchiveParticipantId, archivedAt, deleteEligibleAt>>
memberVars == <<participants, invitations>>
vars == <<status, ownerParticipantId, memberVars, accessPolicyVersion, closing,
          archiveVars>>

-----------------------------------------------------------------------------
Contexts == {"ExpenseRecording", "Settlement"}

Participant ==
    [subject: Subjects, joinedAt: Nat, joinOrder: Nat,
     status: {"Active", "Left"}, leftAt: Nat \cup {Null}]

Invitation ==
    [targetSubject: Subjects, issuerParticipantId: ParticipantIds,
     createdAt: Nat, expiryAt: Nat,
     status: {"Pending", "Consumed", "Cancelled"},
     resultingParticipantId: ParticipantIds \cup {Null}]

CloseFenceReceipt ==
    [groupId: GroupIds, closeIntentId: CloseIntentIds, context: Contexts,
     cutoff: Nat, fenceVersion: 0 .. MaxFenceVersion, completedAt: Nat,
     eligible: BOOLEAN]

CloseUnfenceReceipt ==
    [groupId: GroupIds, closeIntentId: CloseIntentIds, context: Contexts,
     cutoff: Nat, fenceVersion: 0 .. MaxFenceVersion, completedAt: Nat]

Closing ==
    [closeIntentId: CloseIntentIds, cutoff: Nat,
     phase: {"Fencing", "Canceling"},
     fenceReceipts: SUBSET CloseFenceReceipt,
     unfenceReceipts: SUBSET CloseUnfenceReceipt]

ASSUME NullAssumption == Null \notin Closing

\* f with the value of k set to v, k being a new key or an old one.
Put(f, k, v) == [x \in DOMAIN f \cup {k} |-> IF x = k THEN v ELSE f[x]]

TypeOK ==
    /\ status \in {"Active", "Closing", "Archived"}
    /\ ownerParticipantId \in ParticipantIds \cup {Null}
    /\ DOMAIN participants \subseteq ParticipantIds
    /\ participants \in [DOMAIN participants -> Participant]
    /\ DOMAIN invitations \subseteq InvitationIds
    /\ invitations \in [DOMAIN invitations -> Invitation]
    /\ accessPolicyVersion \in 1 .. MaxSafeInteger
    /\ closing \in Closing \cup {Null}
    /\ ownerAtArchiveParticipantId \in ParticipantIds \cup {Null}
    /\ archivedAt \in Nat \cup {Null}
    /\ deleteEligibleAt \in Nat \cup {Null}

ActiveParticipants ==
    {p \in DOMAIN participants : participants[p].status = "Active"}

HasActiveMembership(s) ==
    \E p \in ActiveParticipants : participants[p].subject = s

ActsAsOwner(actor) ==
    /\ ownerParticipantId \in DOMAIN participants
    /\ participants[ownerParticipantId].subject = actor

\* Mutant: those who left are forgotten.
IsPreviousActiveJoinOrder(n) ==
    LET given == {0} \cup {participants[p].joinOrder : p \in ActiveParticipants}
    IN  n \in given /\ \A o \in given : o <= n

\* The largest join order given out so far; 0 when there is none.
IsPreviousJoinOrder(n) ==
    LET given == {0} \cup {participants[p].joinOrder : p \in DOMAIN participants}
    IN  n \in given /\ \A o \in given : o <= n

\* nextAccessPolicyVersion: throws instead of leaving the safe integers.
NextAccessPolicyVersion ==
    /\ accessPolicyVersion < MaxSafeInteger
    /\ accessPolicyVersion' = accessPolicyVersion + 1

\* Mutant: a closing group still counts as one.
AssertNotArchived == status # "Archived"

\* assertActive
AssertActive == status = "Active"

\* Mutant: any phase will do.
RequireAnyClosing(phase) == status = "Closing" /\ closing # Null

RequireClosing(phase) ==
    /\ status = "Closing"
    /\ closing # Null
    /\ closing.phase = phase

ReceiptMatchesClosing(receipt) ==
    /\ receipt.fenceVersion >= 1
    /\ receipt.groupId = GroupId
    /\ receipt.closeIntentId = closing.closeIntentId
    /\ receipt.cutoff = closing.cutoff

\* The unfence receipt undoes the fence the same context installed.
UndoesFence(receipt, fences) ==
    \E f \in fences :
        /\ f.context = receipt.context
        /\ f.fenceVersion = receipt.fenceVersion
        /\ receipt.completedAt >= f.completedAt

ContextsOf(receipts) == {r.context : r \in receipts}

IsFirstOfContext(receipt, receipts) == receipt.context \notin ContextsOf(receipts)

\* Mutant: one context is enough.
HasReceipt(receipts) == receipts # {}

HasBothReceipts(receipts) == ContextsOf(receipts) = Contexts

-----------------------------------------------------------------------------
\* create: the creator is the only member, the owner, and first in join order.
Create(p, s, t) ==
    /\ status = "Active"
    /\ ownerParticipantId = p
    /\ participants = [q \in {p} |->
           [subject |-> s, joinedAt |-> t, joinOrder |-> 1,
            status |-> "Active", leftAt |-> Null]]
    /\ invitations = [i \in {} |-> Null]
    /\ accessPolicyVersion = 1
    /\ closing = Null
    /\ ownerAtArchiveParticipantId = Null
    /\ archivedAt = Null
    /\ deleteEligibleAt = Null

Init == \E p \in ParticipantIds, s \in Subjects, t \in Instants : Create(p, s, t)

\* The owner hands the group to another active participant.
TransferOwnership(actor, target) ==
    /\ AssertActive
    /\ ActsAsOwner(actor)
    /\ target \in ActiveParticipants
    /\ target # ownerParticipantId
    /\ ownerParticipantId' = target
    /\ NextAccessPolicyVersion
    /\ UNCHANGED <<status, memberVars, closing, archiveVars>>

\* Mutant: an invitation may be as late as the end of its issuer's membership.
InvitationsNotAfter(p, t) ==
    \A i \in DOMAIN invitations :
        invitations[i].issuerParticipantId = p => invitations[i].createdAt <= t

InvitationsBefore(p, t) ==
    \A i \in DOMAIN invitations :
        invitations[i].issuerParticipantId = p => invitations[i].createdAt < t

\* A participant who is not the owner ends their own membership.  restore
\* refuses the result when the participant issued an invitation at or after t.
Leave(actor, p, t) ==
    /\ AssertActive
    /\ p \in ActiveParticipants
    /\ participants[p].subject = actor
    /\ p # ownerParticipantId
    /\ t >= participants[p].joinedAt
    /\ InvitationsBefore(p, t)
    /\ participants' = [participants EXCEPT ![p].status = "Left", ![p].leftAt = t]
    /\ NextAccessPolicyVersion
    /\ UNCHANGED <<status, ownerParticipantId, invitations, closing, archiveVars>>

\* The owner invites a subject without an active membership.  restore refuses
\* an invitation dated before the owner joined.
InviteParticipant(actor, i, target, t) ==
    /\ AssertActive
    /\ ActsAsOwner(actor)
    /\ Cardinality(ActiveParticipants) < MaxActiveParticipants
    /\ ~ HasActiveMembership(target)
    /\ i \notin DOMAIN invitations
    /\ t >= participants[ownerParticipantId].joinedAt
    /\ invitations' = Put(invitations, i,
           [targetSubject |-> target, issuerParticipantId |-> ownerParticipantId,
            createdAt |-> t, expiryAt |-> t + InvitationLifetime,
            status |-> "Pending", resultingParticipantId |-> Null])
    /\ NextAccessPolicyVersion
    /\ UNCHANGED <<status, ownerParticipantId, participants, closing, archiveVars>>

\* Mutant: only a cancelled invitation counts as resolved.
IsNotCancelledAt(i, t) ==
    /\ i \in DOMAIN invitations
    /\ t >= invitations[i].createdAt
    /\ t < invitations[i].expiryAt
    /\ invitations[i].status # "Cancelled"

\* The checks cancelInvitation and acceptInvitation share: the invitation
\* exists, t is in [createdAt, expiryAt), and nobody resolved it before.
IsOpenAt(i, t) ==
    /\ i \in DOMAIN invitations
    /\ t >= invitations[i].createdAt
    /\ t < invitations[i].expiryAt
    /\ invitations[i].status = "Pending"

\* The present owner, not necessarily the issuer, withdraws an invitation.
CancelInvitation(actor, i, t) ==
    /\ AssertActive
    /\ ActsAsOwner(actor)
    /\ IsOpenAt(i, t)
    /\ invitations' = [invitations EXCEPT ![i].status = "Cancelled"]
    /\ NextAccessPolicyVersion
    /\ UNCHANGED <<status, ownerParticipantId, participants, closing, archiveVars>>

\* The invited subject joins under a new participant id, last in join order.
AcceptInvitation(actor, i, p, t) ==
    /\ AssertActive
    /\ IsOpenAt(i, t)
    /\ invitations[i].targetSubject = actor
    /\ Cardinality(ActiveParticipants) < MaxActiveParticipants
    /\ ~ HasActiveMembership(actor)
    /\ p \notin DOMAIN participants
    /\ \E n \in 0 .. MaxSafeInteger - 1 :
           /\ IsPreviousJoinOrder(n)
           /\ participants' = Put(participants, p,
                  [subject |-> actor, joinedAt |-> t, joinOrder |-> n + 1,
                   status |-> "Active", leftAt |-> Null])
    /\ invitations' = [invitations EXCEPT ![i].status = "Consumed",
                                          ![i].resultingParticipantId = p]
    /\ NextAccessPolicyVersion
    /\ UNCHANGED <<status, ownerParticipantId, closing, archiveVars>>

-----------------------------------------------------------------------------
\* The owner opens a close intent; from here on memberships are frozen.
StartClosing(actor, intent, cutoff) ==
    /\ AssertActive
    /\ ActsAsOwner(actor)
    /\ status' = "Closing"
    /\ closing' = [closeIntentId |-> intent, cutoff |-> cutoff,
                   phase |-> "Fencing",
                   fenceReceipts |-> {}, unfenceReceipts |-> {}]
    /\ NextAccessPolicyVersion
    /\ UNCHANGED <<ownerParticipantId, memberVars, archiveVars>>

\* A context reports that its fence for this intent is in place.
RecordCloseFenceReceipt(receipt) ==
    /\ RequireClosing("Fencing")
    /\ ReceiptMatchesClosing(receipt)
    /\ IsFirstOfContext(receipt, closing.fenceReceipts)
    /\ closing' = [closing EXCEPT !.fenceReceipts = @ \cup {receipt}]
    /\ NextAccessPolicyVersion
    /\ UNCHANGED <<status, ownerParticipantId, memberVars, archiveVars>>

\* The owner ends the group once both contexts are fenced and have no open work.
Archive(actor, intent, t) ==
    /\ RequireClosing("Fencing")
    /\ closing.closeIntentId = intent
    /\ ActsAsOwner(actor)
    /\ HasBothReceipts(closing.fenceReceipts)
    /\ \A r \in closing.fenceReceipts : r.eligible
    /\ status' = "Archived"
    /\ ownerParticipantId' = Null
    /\ closing' = Null
    /\ ownerAtArchiveParticipantId' = ownerParticipantId
    /\ archivedAt' = t
    /\ deleteEligibleAt' = RetentionEnd[t]
    /\ NextAccessPolicyVersion
    /\ UNCHANGED memberVars

\* The owner gives up closing: from here on Archive is refused, which is what
\* allows the fences to be removed.
ReserveClosingCancellation(actor, intent) ==
    /\ RequireClosing("Fencing")
    /\ closing.closeIntentId = intent
    /\ ActsAsOwner(actor)
    /\ closing' = [closing EXCEPT !.phase = "Canceling"]
    /\ NextAccessPolicyVersion
    /\ UNCHANGED <<status, ownerParticipantId, memberVars, archiveVars>>

\* A context reports that it removed the fence recorded for it.
RecordCloseUnfenceReceipt(receipt) ==
    /\ RequireClosing("Canceling")
    /\ ReceiptMatchesClosing(receipt)
    /\ UndoesFence(receipt, closing.fenceReceipts)
    /\ IsFirstOfContext(receipt, closing.unfenceReceipts)
    /\ closing' = [closing EXCEPT !.unfenceReceipts = @ \cup {receipt}]
    /\ NextAccessPolicyVersion
    /\ UNCHANGED <<status, ownerParticipantId, memberVars, archiveVars>>

\* The owner reactivates the group once both contexts reported the removal.
CompleteClosingCancellation(actor, intent) ==
    /\ RequireClosing("Canceling")
    /\ closing.closeIntentId = intent
    /\ ActsAsOwner(actor)
    /\ HasBothReceipts(closing.unfenceReceipts)
    /\ status' = "Active"
    /\ closing' = Null
    /\ NextAccessPolicyVersion
    /\ UNCHANGED <<ownerParticipantId, memberVars, archiveVars>>

-----------------------------------------------------------------------------
FenceReceiptInputs ==
    [groupId: GroupIds, closeIntentId: CloseIntentIds, context: Contexts,
     cutoff: Instants, fenceVersion: 0 .. MaxFenceVersion,
     completedAt: Instants, eligible: BOOLEAN]

UnfenceReceiptInputs ==
    [groupId: GroupIds, closeIntentId: CloseIntentIds, context: Contexts,
     cutoff: Instants, fenceVersion: 0 .. MaxFenceVersion,
     completedAt: Instants]

MembershipStep(actor, t) ==
    \/ \E p \in ParticipantIds : TransferOwnership(actor, p) \/ Leave(actor, p, t)
    \/ \E i \in InvitationIds :
           \/ \E s \in Subjects : InviteParticipant(actor, i, s, t)
           \/ CancelInvitation(actor, i, t)
           \/ \E p \in ParticipantIds : AcceptInvitation(actor, i, p, t)

OwnerClosingStep(actor, t) ==
    \E intent \in CloseIntentIds :
        \/ StartClosing(actor, intent, t)
        \/ Archive(actor, intent, t)
        \/ ReserveClosingCancellation(actor, intent)
        \/ CompleteClosingCancellation(actor, intent)

ReceiptStep ==
    \/ \E r \in FenceReceiptInputs : RecordCloseFenceReceipt(r)
    \/ \E r \in UnfenceReceiptInputs : RecordCloseUnfenceReceipt(r)

Next ==
    \/ \E actor \in Subjects, t \in Instants :
           MembershipStep(actor, t) \/ OwnerClosingStep(actor, t)
    \/ ReceiptStep

Spec == Init /\ [][Next]_vars

-----------------------------------------------------------------------------
(* The checks Group.restore makes on a stored snapshot. *)

OwnerLeadsOpenGroup ==
    status \in {"Active", "Closing"} =>
        /\ Cardinality(ActiveParticipants) \in 1 .. MaxActiveParticipants
        /\ ownerParticipantId \in ActiveParticipants

CloseStateValid ==
    /\ (status = "Closing") <=> (closing # Null)
    /\ status # "Archived" =>
           /\ ownerAtArchiveParticipantId = Null
           /\ archivedAt = Null
           /\ deleteEligibleAt = Null

ArchiveStateValid ==
    status = "Archived" =>
        /\ ownerParticipantId = Null
        /\ ownerAtArchiveParticipantId \in ActiveParticipants
        /\ archivedAt \in Nat
        /\ deleteEligibleAt = RetentionEnd[archivedAt]

MembershipValid(p) ==
    LET m == participants[p]
    IN  /\ m.joinOrder >= 1
        /\ m.status = "Active" => m.leftAt = Null
        /\ m.status = "Left" => m.leftAt # Null /\ m.leftAt >= m.joinedAt

JoinOrdersDiffer ==
    \A p, q \in DOMAIN participants :
        participants[p].joinOrder = participants[q].joinOrder => p = q

OneActiveMembershipEach ==
    \A p, q \in ActiveParticipants :
        participants[p].subject = participants[q].subject => p = q

ParticipantsValid ==
    /\ \A p \in DOMAIN participants : MembershipValid(p)
    /\ JoinOrdersDiffer
    /\ OneActiveMembershipEach

IssuedByMember(inv) ==
    LET issuer == participants[inv.issuerParticipantId]
    IN  /\ inv.issuerParticipantId \in DOMAIN participants
        /\ issuer.joinedAt <= inv.createdAt
        /\ issuer.leftAt # Null => inv.createdAt < issuer.leftAt

AdmittedBy(inv) ==
    LET result == participants[inv.resultingParticipantId]
    IN  /\ inv.resultingParticipantId \in DOMAIN participants
        /\ result.subject = inv.targetSubject
        /\ inv.createdAt <= result.joinedAt
        /\ result.joinedAt < inv.expiryAt

InvitationValid(i) ==
    LET inv == invitations[i]
    IN  /\ inv.expiryAt = inv.createdAt + InvitationLifetime
        /\ IssuedByMember(inv)
        /\ (inv.status = "Consumed") <=> (inv.resultingParticipantId # Null)
        /\ inv.status = "Consumed" => AdmittedBy(inv)

InvitationsValid == \A i \in DOMAIN invitations : InvitationValid(i)

OnePerContext(receipts) ==
    \A r1, r2 \in receipts : r1.context = r2.context => r1 = r2

ClosingValid ==
    closing # Null =>
        /\ \A r \in closing.fenceReceipts \cup closing.unfenceReceipts :
               ReceiptMatchesClosing(r)
        /\ OnePerContext(closing.fenceReceipts)
        /\ OnePerContext(closing.unfenceReceipts)
        /\ \A r \in closing.unfenceReceipts : UndoesFence(r, closing.fenceReceipts)
        /\ closing.phase = "Fencing" => closing.unfenceReceipts = {}

\* Whatever a group goes through, restore accepts it when it is loaded again:
\* no legal sequence of commands, in any order of their instants, stores a group
\* that can never be read back.  transferOwnership stores its result without
\* passing it through restore.
RestoreAccepts ==
    /\ OwnerLeadsOpenGroup
    /\ CloseStateValid
    /\ ArchiveStateValid
    /\ ParticipantsValid
    /\ InvitationsValid
    /\ ClosingValid

ConsumedInvitations == {i \in DOMAIN invitations : invitations[i].status = "Consumed"}

\* An invitation admits at most one membership, and every membership but the
\* creator's was admitted by an invitation: acceptInvitation never uses one
\* twice, and a subject who left comes back only with another invitation.
MembershipProvenance ==
    /\ \A i, j \in ConsumedInvitations :
           invitations[i].resultingParticipantId = invitations[j].resultingParticipantId
               => i = j
    /\ \A p \in DOMAIN participants :
           (participants[p].joinOrder > 1) <=>
               \E i \in ConsumedInvitations : invitations[i].resultingParticipantId = p

KeepsHistory ==
    /\ \A p \in DOMAIN participants :
           /\ p \in DOMAIN participants'
           /\ participants[p].status = "Left" => participants'[p] = participants[p]
           /\ participants'[p].joinOrder = participants[p].joinOrder
           /\ participants'[p].subject = participants[p].subject
    /\ \A p \in DOMAIN participants' \ DOMAIN participants, q \in DOMAIN participants :
           participants'[p].joinOrder > participants[q].joinOrder
    /\ \A i \in DOMAIN invitations :
           /\ i \in DOMAIN invitations'
           /\ invitations[i].status # "Pending" => invitations'[i] = invitations[i]

\* What happened stays: a membership is never removed, and one that ended never
\* changes; who joined, when and in which order is fixed; an invitation that was
\* consumed or cancelled is never reopened.
HistoryIsKept == [][KeepsHistory]_vars

IsFrozen ==
    /\ status # "Archived"
    /\ status = "Closing" =>
           /\ UNCHANGED memberVars
           /\ status' = "Archived" => ownerAtArchiveParticipantId' = ownerParticipantId
           /\ status' # "Archived" => UNCHANGED ownerParticipantId

\* Closing freezes who belongs to the group and who owns it, up to the archive
\* itself, and an archived group never changes again (assertActive in every
\* membership method, requireClosing in every closing one).
FrozenOnceClosing == [][IsFrozen]_vars

CancelsOn ==
    closing # Null /\ closing.phase = "Canceling" =>
        IF closing' = Null
          THEN /\ status' = "Active"
               /\ ContextsOf(closing.unfenceReceipts) = ContextsOf(closing.fenceReceipts)
               /\ ContextsOf(closing.fenceReceipts) = Contexts
          ELSE /\ closing'.phase = "Canceling"
               /\ closing'.closeIntentId = closing.closeIntentId
               /\ closing'.cutoff = closing.cutoff
               /\ closing'.fenceReceipts = closing.fenceReceipts
               /\ closing.unfenceReceipts \subseteq closing'.unfenceReceipts

\* Once its cancellation is reserved a closing can only end in reactivation: it
\* is never archived and never fences again, its intent, cutoff and fence
\* receipts stay, and it ends only when both contexts reported the removal.
CancellationIsIrrevocable == [][CancelsOn]_vars

\* Two states of a group that differ never have the same accessPolicyVersion: it
\* is what the compare-and-swap of the repository and the version check of the
\* access policy compare.
EveryChangeBumpsVersion == [][accessPolicyVersion' = accessPolicyVersion + 1]_vars
=============================================================================
