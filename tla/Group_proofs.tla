---------------------------- MODULE Group_proofs ----------------------------
(***************************************************************************)
(* Proofs about the Group aggregate, by itself and closed together with    *)
(* its contexts (GroupClose), for every value of the constants.            *)
(*                                                                         *)
(* The inductive invariant is the type invariant with RestoreAccepts and   *)
(* the finiteness of the set of memberships: without the latter the number *)
(* of active participants that the limits speak of has no meaning.         *)
(***************************************************************************)
EXTENDS GroupClose, FiniteSetTheorems, TLAPS

-----------------------------------------------------------------------------
(* The update of a partial function *)

LEMMA PutProperties ==
    ASSUME NEW f, NEW k, NEW v
    PROVE  /\ DOMAIN Put(f, k, v) = DOMAIN f \cup {k}
           /\ Put(f, k, v)[k] = v
           /\ \A x \in DOMAIN f : x # k => Put(f, k, v)[x] = f[x]
  BY DEF Put

LEMMA PutType ==
    ASSUME NEW S, NEW f, f \in [DOMAIN f -> S], NEW k, NEW v \in S
    PROVE  Put(f, k, v) \in [DOMAIN Put(f, k, v) -> S]
  BY DEF Put

-----------------------------------------------------------------------------
(* Type correctness *)

LEMMA InitType == Init => TypeOK
<1> SUFFICES ASSUME NEW p \in ParticipantIds, NEW s \in Subjects, NEW t \in Instants,
                    Create(p, s, t)
             PROVE  TypeOK
  BY DEF Init
<1>1. participants \in [DOMAIN participants -> Participant] /\ DOMAIN participants = {p}
  BY ConstantsAssumption DEF Create, Participant
<1>2. invitations \in [DOMAIN invitations -> Invitation] /\ DOMAIN invitations = {}
  BY DEF Create
<1> QED
  BY <1>1, <1>2, ConstantsAssumption DEF TypeOK, Create

LEMMA NextAccessPolicyVersionType ==
    ASSUME TypeOK, NextAccessPolicyVersion
    PROVE  accessPolicyVersion' \in 1 .. MaxSafeInteger
  BY ConstantsAssumption DEF TypeOK, NextAccessPolicyVersion

LEMMA TransferOwnershipType ==
    ASSUME TypeOK, NEW actor, NEW p, TransferOwnership(actor, p)
    PROVE  TypeOK'
  BY NextAccessPolicyVersionType
  DEF TypeOK, TransferOwnership, ActiveParticipants, memberVars, archiveVars

LEMMA LeaveType ==
    ASSUME TypeOK, NEW actor, NEW p, NEW t \in Instants, Leave(actor, p, t)
    PROVE  TypeOK'
<1> DEFINE left == [participants EXCEPT ![p].status = "Left", ![p].leftAt = t]
<1>1. p \in DOMAIN participants /\ participants[p] \in Participant
  BY DEF Leave, ActiveParticipants, TypeOK
<1>2. t \in Nat
  BY ConstantsAssumption
<1>3. [participants[p] EXCEPT !.status = "Left", !.leftAt = t] \in Participant
  BY <1>1, <1>2 DEF Participant
<1>4. DOMAIN left = DOMAIN participants /\ left \in [DOMAIN participants -> Participant]
  BY <1>1, <1>3 DEF TypeOK
<1> QED
  BY <1>4, NextAccessPolicyVersionType DEF TypeOK, Leave, archiveVars

LEMMA InviteParticipantType ==
    ASSUME TypeOK, NEW actor, NEW i \in InvitationIds, NEW s \in Subjects,
           NEW t \in Instants, InviteParticipant(actor, i, s, t)
    PROVE  TypeOK'
<1> DEFINE inv == [targetSubject |-> s, issuerParticipantId |-> ownerParticipantId,
                   createdAt |-> t, expiryAt |-> t + InvitationLifetime,
                   status |-> "Pending", resultingParticipantId |-> Null]
<1>1. inv \in Invitation
  BY ConstantsAssumption DEF InviteParticipant, ActsAsOwner, TypeOK, Invitation
<1>2. invitations' = Put(invitations, i, inv)
  BY DEF InviteParticipant
<1>3. DOMAIN invitations' = DOMAIN invitations \cup {i}
  BY <1>2, PutProperties
<1>4. invitations' \in [DOMAIN invitations' -> Invitation]
  BY <1>1, <1>2, PutType DEF TypeOK
<1> QED
  BY <1>3, <1>4, NextAccessPolicyVersionType DEF TypeOK, InviteParticipant, archiveVars

LEMMA CancelInvitationType ==
    ASSUME TypeOK, NEW actor, NEW i, NEW t, CancelInvitation(actor, i, t)
    PROVE  TypeOK'
<1>1. i \in DOMAIN invitations /\ invitations[i] \in Invitation
  BY DEF CancelInvitation, IsOpenAt, TypeOK
<1>2. [invitations[i] EXCEPT !.status = "Cancelled"] \in Invitation
  BY <1>1 DEF Invitation
<1>3. DOMAIN invitations' = DOMAIN invitations
      /\ invitations' \in [DOMAIN invitations -> Invitation]
  BY <1>1, <1>2 DEF CancelInvitation, TypeOK
<1> QED
  BY <1>3, NextAccessPolicyVersionType DEF TypeOK, CancelInvitation, archiveVars

LEMMA AcceptInvitationType ==
    ASSUME TypeOK, NEW actor \in Subjects, NEW i, NEW p \in ParticipantIds,
           NEW t \in Instants, AcceptInvitation(actor, i, p, t)
    PROVE  TypeOK'
<1>1. PICK n \in 0 .. MaxSafeInteger - 1 :
          participants' = Put(participants, p,
              [subject |-> actor, joinedAt |-> t, joinOrder |-> n + 1,
               status |-> "Active", leftAt |-> Null])
  BY DEF AcceptInvitation
<1>2. [subject |-> actor, joinedAt |-> t, joinOrder |-> n + 1,
       status |-> "Active", leftAt |-> Null] \in Participant
  BY ConstantsAssumption DEF Participant
<1>3. DOMAIN participants' = DOMAIN participants \cup {p}
      /\ participants' \in [DOMAIN participants' -> Participant]
  BY <1>1, <1>2, PutProperties, PutType DEF TypeOK
<1>4. i \in DOMAIN invitations /\ invitations[i] \in Invitation
  BY DEF AcceptInvitation, IsOpenAt, TypeOK
<1>5. [invitations[i] EXCEPT !.status = "Consumed", !.resultingParticipantId = p]
          \in Invitation
  BY <1>4 DEF Invitation
<1>6. DOMAIN invitations' = DOMAIN invitations
      /\ invitations' \in [DOMAIN invitations -> Invitation]
  BY <1>4, <1>5 DEF AcceptInvitation, TypeOK
<1> QED
  BY <1>3, <1>6, NextAccessPolicyVersionType DEF TypeOK, AcceptInvitation, archiveVars

LEMMA ClosingStepType ==
    ASSUME TypeOK, NEW actor, NEW intent \in CloseIntentIds, NEW t \in Instants,
           \/ StartClosing(actor, intent, t)
           \/ Archive(actor, intent, t)
           \/ ReserveClosingCancellation(actor, intent)
           \/ CompleteClosingCancellation(actor, intent)
    PROVE  TypeOK'
<1>1. CASE StartClosing(actor, intent, t)
  <2>1. closing' \in Closing
    BY <1>1, ConstantsAssumption DEF StartClosing, Closing
  <2> QED
    BY <1>1, <2>1, NextAccessPolicyVersionType
    DEF TypeOK, StartClosing, memberVars, archiveVars
<1>2. CASE Archive(actor, intent, t)
  BY <1>2, NextAccessPolicyVersionType, ConstantsAssumption
  DEF TypeOK, Archive, memberVars
<1>3. CASE ReserveClosingCancellation(actor, intent)
  <2>1. closing' \in Closing
    BY <1>3 DEF ReserveClosingCancellation, RequireClosing, TypeOK, Closing
  <2> QED
    BY <1>3, <2>1, NextAccessPolicyVersionType
    DEF TypeOK, ReserveClosingCancellation, memberVars, archiveVars
<1>4. CASE CompleteClosingCancellation(actor, intent)
  BY <1>4, NextAccessPolicyVersionType
  DEF TypeOK, CompleteClosingCancellation, memberVars, archiveVars
<1> QED
  BY <1>1, <1>2, <1>3, <1>4

LEMMA ReceiptStepType ==
    ASSUME TypeOK, ReceiptStep
    PROVE  TypeOK'
<1>1. CASE \E r \in FenceReceiptInputs : RecordCloseFenceReceipt(r)
  <2>1. PICK r \in FenceReceiptInputs : RecordCloseFenceReceipt(r)
    BY <1>1
  <2>2. r \in CloseFenceReceipt
    BY ConstantsAssumption DEF FenceReceiptInputs, CloseFenceReceipt
  <2>3. closing' \in Closing
    BY <2>1, <2>2 DEF RecordCloseFenceReceipt, RequireClosing, TypeOK, Closing
  <2> QED
    BY <2>1, <2>3, NextAccessPolicyVersionType
    DEF TypeOK, RecordCloseFenceReceipt, memberVars, archiveVars
<1>2. CASE \E r \in UnfenceReceiptInputs : RecordCloseUnfenceReceipt(r)
  <2>1. PICK r \in UnfenceReceiptInputs : RecordCloseUnfenceReceipt(r)
    BY <1>2
  <2>2. r \in CloseUnfenceReceipt
    BY ConstantsAssumption DEF UnfenceReceiptInputs, CloseUnfenceReceipt
  <2>3. closing' \in Closing
    BY <2>1, <2>2 DEF RecordCloseUnfenceReceipt, RequireClosing, TypeOK, Closing
  <2> QED
    BY <2>1, <2>3, NextAccessPolicyVersionType
    DEF TypeOK, RecordCloseUnfenceReceipt, memberVars, archiveVars
<1> QED
  BY <1>1, <1>2 DEF ReceiptStep

LEMMA NextType == TypeOK /\ [Next]_vars => TypeOK'
<1> SUFFICES ASSUME TypeOK, [Next]_vars
             PROVE  TypeOK'
  OBVIOUS
<1>1. CASE \E actor \in Subjects, t \in Instants : MembershipStep(actor, t)
  BY <1>1, TransferOwnershipType, LeaveType, InviteParticipantType,
     CancelInvitationType, AcceptInvitationType
  DEF MembershipStep
<1>2. CASE \E actor \in Subjects, t \in Instants : OwnerClosingStep(actor, t)
  BY <1>2, ClosingStepType DEF OwnerClosingStep
<1>3. CASE ReceiptStep
  BY <1>3, ReceiptStepType
<1>4. CASE UNCHANGED vars
  BY <1>4 DEF TypeOK, vars, memberVars, archiveVars
<1> QED
  BY <1>1, <1>2, <1>3, <1>4 DEF Next

\* Every state a group reaches has its type: in particular the version stays
\* within the safe integers, because nextAccessPolicyVersion refuses to leave
\* them.
THEOREM TypeCorrect == Spec => []TypeOK
  BY InitType, NextType, PTL DEF Spec

-----------------------------------------------------------------------------
(* What the repository stores can be read back *)

IInv ==
    /\ TypeOK
    /\ IsFiniteSet(DOMAIN participants)
    /\ RestoreAccepts

LEMMA ActiveParticipantsFinite ==
    ASSUME IsFiniteSet(DOMAIN participants)
    PROVE  IsFiniteSet(ActiveParticipants)
  BY FS_Subset DEF ActiveParticipants

LEMMA InitInv == Init => IInv
<1> SUFFICES ASSUME NEW p \in ParticipantIds, NEW s \in Subjects, NEW t \in Instants,
                    Create(p, s, t), TypeOK
             PROVE  IInv
  BY InitType DEF Init
<1>1. DOMAIN participants = {p} /\ ActiveParticipants = {p}
  BY DEF Create, ActiveParticipants
<1>2. Cardinality({p}) = 1 /\ IsFiniteSet({p})
  BY FS_Singleton
<1>3. OwnerLeadsOpenGroup
  BY <1>1, <1>2, ConstantsAssumption DEF OwnerLeadsOpenGroup, Create
<1>4. ParticipantsValid
  BY <1>1 DEF ParticipantsValid, MembershipValid, JoinOrdersDiffer,
              OneActiveMembershipEach, Create
<1>5. CloseStateValid /\ ArchiveStateValid /\ InvitationsValid /\ ClosingValid
  BY DEF CloseStateValid, ArchiveStateValid, InvitationsValid, ClosingValid, Create
<1> QED
  BY <1>1, <1>2, <1>3, <1>4, <1>5 DEF IInv, RestoreAccepts

\* What the membership actions leave alone.
LEMMA OpenStaysOpen ==
    ASSUME status = "Active", CloseStateValid, ClosingValid,
           UNCHANGED <<status, closing, archiveVars>>
    PROVE  CloseStateValid' /\ ArchiveStateValid' /\ ClosingValid'
<1> QED
  BY DEF CloseStateValid, ArchiveStateValid, ClosingValid, archiveVars

LEMMA SameMembersStayValid ==
    ASSUME ParticipantsValid, InvitationsValid, UNCHANGED memberVars
    PROVE  ParticipantsValid' /\ InvitationsValid'
  BY DEF ParticipantsValid, MembershipValid, JoinOrdersDiffer, OneActiveMembershipEach,
         ActiveParticipants, InvitationsValid, InvitationValid, IssuedByMember,
         AdmittedBy, memberVars

LEMMA TransferOwnershipInv ==
    ASSUME IInv, NEW actor, NEW p, TransferOwnership(actor, p)
    PROVE  IsFiniteSet(DOMAIN participants') /\ RestoreAccepts'
<1>1. CloseStateValid' /\ ArchiveStateValid' /\ ClosingValid'
  BY OpenStaysOpen DEF IInv, RestoreAccepts, TransferOwnership, AssertActive
<1>2. OwnerLeadsOpenGroup'
  BY DEF IInv, RestoreAccepts, TransferOwnership, AssertActive, OwnerLeadsOpenGroup,
         ActiveParticipants, memberVars
<1>3. ParticipantsValid' /\ InvitationsValid'
  BY SameMembersStayValid DEF IInv, RestoreAccepts, TransferOwnership
<1> QED
  BY <1>1, <1>2, <1>3 DEF IInv, RestoreAccepts, TransferOwnership, memberVars

LEMMA LeaveInv ==
    ASSUME IInv, NEW actor, NEW p, NEW t \in Instants, Leave(actor, p, t)
    PROVE  IsFiniteSet(DOMAIN participants') /\ RestoreAccepts'
<1>1. CloseStateValid' /\ ArchiveStateValid' /\ ClosingValid'
  BY OpenStaysOpen DEF IInv, RestoreAccepts, Leave, AssertActive
<1>2. /\ p \in DOMAIN participants
      /\ DOMAIN participants' = DOMAIN participants
      /\ participants' \in [DOMAIN participants -> Participant]
      /\ participants'[p] =
             [participants[p] EXCEPT !.status = "Left", !.leftAt = t]
      /\ \A q \in DOMAIN participants : q # p => participants'[q] = participants[q]
  BY LeaveType DEF IInv, TypeOK, Leave, ActiveParticipants
<1>3. /\ participants'[p].status = "Left"
      /\ participants'[p].leftAt = t
      /\ participants'[p].joinOrder = participants[p].joinOrder
      /\ participants'[p].joinedAt = participants[p].joinedAt
      /\ participants'[p].subject = participants[p].subject
  BY <1>2 DEF IInv, TypeOK, Participant
<1>4. ActiveParticipants' = ActiveParticipants \ {p}
  BY <1>2, <1>3 DEF ActiveParticipants
<1>5. OwnerLeadsOpenGroup'
  <2>1. /\ ownerParticipantId \in ActiveParticipants \ {p}
        /\ Cardinality(ActiveParticipants) \in 1 .. MaxActiveParticipants
        /\ p \in ActiveParticipants
    BY DEF IInv, RestoreAccepts, OwnerLeadsOpenGroup, Leave, AssertActive
  <2>2. IsFiniteSet(ActiveParticipants)
    BY ActiveParticipantsFinite DEF IInv
  <2>3. /\ IsFiniteSet(ActiveParticipants \ {p})
        /\ Cardinality(ActiveParticipants \ {p}) = Cardinality(ActiveParticipants) - 1
    BY <2>1, <2>2, FS_RemoveElement
  <2>4. Cardinality(ActiveParticipants \ {p}) # 0
    BY <2>1, <2>3, FS_EmptySet
  <2>5. Cardinality(ActiveParticipants \ {p}) \in 1 .. MaxActiveParticipants
    BY <2>1, <2>3, <2>4, ConstantsAssumption
  <2> QED
    BY <1>4, <2>1, <2>5 DEF OwnerLeadsOpenGroup, Leave
<1>6. ParticipantsValid'
  <2>1. t # Null /\ t >= participants[p].joinedAt
    BY ConstantsAssumption DEF Leave
  <2>2. \A q \in DOMAIN participants : MembershipValid(q)'
    <3> SUFFICES ASSUME NEW q \in DOMAIN participants
                 PROVE  MembershipValid(q)'
      OBVIOUS
    <3>1. MembershipValid(q)
      BY DEF IInv, RestoreAccepts, ParticipantsValid
    <3>2. CASE q = p
      BY <1>3, <2>1, <3>1, <3>2 DEF MembershipValid
    <3>3. CASE q # p
      BY <1>2, <3>1, <3>3 DEF MembershipValid
    <3> QED
      BY <3>2, <3>3
  <2>3. JoinOrdersDiffer'
    <3>1. \A q \in DOMAIN participants :
              participants'[q].joinOrder = participants[q].joinOrder
      BY <1>2, <1>3
    <3>2. JoinOrdersDiffer
      BY DEF IInv, RestoreAccepts, ParticipantsValid
    <3> QED
      BY <1>2, <3>1, <3>2 DEF JoinOrdersDiffer
  <2>4. OneActiveMembershipEach'
    BY <1>2, <1>3, <1>4
    DEF IInv, RestoreAccepts, ParticipantsValid, OneActiveMembershipEach,
        ActiveParticipants
  <2> QED
    BY <1>2, <2>2, <2>3, <2>4 DEF ParticipantsValid
<1>7. InvitationsValid'
  <2> SUFFICES ASSUME NEW i \in DOMAIN invitations
               PROVE  InvitationValid(i)'
    BY DEF InvitationsValid, Leave
  <2>1. InvitationValid(i) /\ invitations'[i] = invitations[i]
    BY DEF IInv, RestoreAccepts, InvitationsValid, Leave
  <2>2. IssuedByMember(invitations[i])'
    BY <1>2, <1>3, <2>1 DEF InvitationValid, IssuedByMember, Leave, InvitationsBefore
  <2>3. AdmittedBy(invitations[i]) => AdmittedBy(invitations[i])'
    BY <1>2, <1>3, <2>1 DEF AdmittedBy
  <2> QED
    BY <2>1, <2>2, <2>3 DEF InvitationValid
<1> QED
  BY <1>1, <1>2, <1>5, <1>6, <1>7 DEF IInv, RestoreAccepts

LEMMA InviteParticipantInv ==
    ASSUME IInv, NEW actor, NEW i \in InvitationIds, NEW s \in Subjects,
           NEW t \in Instants, InviteParticipant(actor, i, s, t)
    PROVE  IsFiniteSet(DOMAIN participants') /\ RestoreAccepts'
<1> DEFINE inv == [targetSubject |-> s, issuerParticipantId |-> ownerParticipantId,
                   createdAt |-> t, expiryAt |-> t + InvitationLifetime,
                   status |-> "Pending", resultingParticipantId |-> Null]
<1>1. CloseStateValid' /\ ArchiveStateValid' /\ ClosingValid'
  BY OpenStaysOpen DEF IInv, RestoreAccepts, InviteParticipant, AssertActive
<1>2. OwnerLeadsOpenGroup' /\ ParticipantsValid'
  BY DEF IInv, RestoreAccepts, InviteParticipant, OwnerLeadsOpenGroup, ActiveParticipants,
         ParticipantsValid, MembershipValid, JoinOrdersDiffer, OneActiveMembershipEach
<1>3. /\ DOMAIN invitations' = DOMAIN invitations \cup {i}
      /\ invitations'[i] = inv
      /\ \A j \in DOMAIN invitations : invitations'[j] = invitations[j]
  <2>1. i \notin DOMAIN invitations /\ invitations' = Put(invitations, i, inv)
    BY DEF InviteParticipant
  <2> QED
    BY <2>1 DEF Put
<1>4. InvitationsValid'
  <2> SUFFICES ASSUME NEW j \in DOMAIN invitations'
               PROVE  InvitationValid(j)'
    BY DEF InvitationsValid
  <2>1. CASE j = i
    <3>1. /\ ownerParticipantId \in DOMAIN participants
          /\ participants[ownerParticipantId].leftAt = Null
      BY DEF IInv, RestoreAccepts, OwnerLeadsOpenGroup, ActiveParticipants,
             ParticipantsValid, MembershipValid, InviteParticipant, AssertActive
    <3>2. participants[ownerParticipantId].joinedAt \in Nat /\ t \in Nat
      BY <3>1, ConstantsAssumption DEF IInv, TypeOK, Participant
    <3>3. IssuedByMember(invitations[i])'
      BY <1>3, <3>1, <3>2 DEF IssuedByMember, InviteParticipant
    <3> QED
      BY <1>3, <2>1, <3>2, <3>3 DEF InvitationValid
  <2>2. CASE j # i
    <3>1. InvitationValid(j) /\ invitations'[j] = invitations[j]
      BY <1>3, <2>2 DEF IInv, RestoreAccepts, InvitationsValid
    <3> QED
      BY <3>1 DEF InvitationValid, IssuedByMember, AdmittedBy, InviteParticipant
  <2> QED
    BY <2>1, <2>2
<1> QED
  BY <1>1, <1>2, <1>4 DEF IInv, RestoreAccepts, InviteParticipant

LEMMA CancelInvitationInv ==
    ASSUME IInv, NEW actor, NEW i, NEW t, CancelInvitation(actor, i, t)
    PROVE  IsFiniteSet(DOMAIN participants') /\ RestoreAccepts'
<1>1. CloseStateValid' /\ ArchiveStateValid' /\ ClosingValid'
  BY OpenStaysOpen DEF IInv, RestoreAccepts, CancelInvitation, AssertActive
<1>2. OwnerLeadsOpenGroup' /\ ParticipantsValid'
  BY DEF IInv, RestoreAccepts, CancelInvitation, OwnerLeadsOpenGroup, ActiveParticipants,
         ParticipantsValid, MembershipValid, JoinOrdersDiffer, OneActiveMembershipEach
<1>3. InvitationsValid'
  <2> SUFFICES ASSUME NEW j \in DOMAIN invitations
               PROVE  InvitationValid(j)'
    BY DEF InvitationsValid, CancelInvitation
  <2>1. InvitationValid(j) /\ invitations[j] \in Invitation
    BY DEF IInv, RestoreAccepts, InvitationsValid, TypeOK
  <2>2. CASE j = i
    <3>1. invitations[i].status = "Pending"
          /\ invitations'[i] = [invitations[i] EXCEPT !.status = "Cancelled"]
      BY <2>2 DEF CancelInvitation, IsOpenAt
    <3>2. /\ invitations'[i].status = "Cancelled"
          /\ invitations'[i].expiryAt = invitations[i].expiryAt
          /\ invitations'[i].createdAt = invitations[i].createdAt
          /\ invitations'[i].issuerParticipantId = invitations[i].issuerParticipantId
          /\ invitations'[i].resultingParticipantId = invitations[i].resultingParticipantId
      BY <2>1, <2>2, <3>1 DEF Invitation
    <3> QED
      BY <2>1, <2>2, <3>1, <3>2 DEF InvitationValid, IssuedByMember, CancelInvitation
  <2>3. CASE j # i
    BY <2>1, <2>3 DEF InvitationValid, IssuedByMember, AdmittedBy, CancelInvitation
  <2> QED
    BY <2>2, <2>3
<1> QED
  BY <1>1, <1>2, <1>3 DEF IInv, RestoreAccepts, CancelInvitation

LEMMA AcceptInvitationInv ==
    ASSUME IInv, NEW actor \in Subjects, NEW i, NEW p \in ParticipantIds,
           NEW t \in Instants, AcceptInvitation(actor, i, p, t)
    PROVE  IsFiniteSet(DOMAIN participants') /\ RestoreAccepts'
<1>1. CloseStateValid' /\ ArchiveStateValid' /\ ClosingValid'
  BY OpenStaysOpen DEF IInv, RestoreAccepts, AcceptInvitation, AssertActive
<1> DEFINE joined(n) == [subject |-> actor, joinedAt |-> t, joinOrder |-> n + 1,
                         status |-> "Active", leftAt |-> Null]
<1>2. PICK n \in 0 .. MaxSafeInteger - 1 :
          IsPreviousJoinOrder(n) /\ participants' = Put(participants, p, joined(n))
  BY DEF AcceptInvitation
<1>3. /\ p \notin DOMAIN participants
      /\ DOMAIN participants' = DOMAIN participants \cup {p}
      /\ participants'[p] = joined(n)
      /\ \A q \in DOMAIN participants : participants'[q] = participants[q]
  <2>1. p \notin DOMAIN participants
    BY DEF AcceptInvitation
  <2> QED
    BY <1>2, <2>1 DEF Put
<1>4. ActiveParticipants' = ActiveParticipants \cup {p}
  BY <1>3 DEF ActiveParticipants
<1>5. n \in Nat /\ \A q \in DOMAIN participants :
          participants[q].joinOrder \in Nat /\ participants[q].joinOrder < n + 1
  <2>1. n \in Nat
    BY ConstantsAssumption
  <2> SUFFICES ASSUME NEW q \in DOMAIN participants
               PROVE  participants[q].joinOrder \in Nat /\ participants[q].joinOrder < n + 1
    BY <2>1
  <2>2. participants[q].joinOrder \in Nat
    BY DEF IInv, TypeOK, Participant
  <2>3. participants[q].joinOrder <= n
    BY <1>2 DEF IsPreviousJoinOrder
  <2> QED
    BY <2>1, <2>2, <2>3
<1>6. OwnerLeadsOpenGroup'
  <2>1. /\ ownerParticipantId \in ActiveParticipants
        /\ Cardinality(ActiveParticipants) \in 1 .. MaxActiveParticipants
        /\ Cardinality(ActiveParticipants) < MaxActiveParticipants
        /\ p \notin ActiveParticipants
    BY <1>3 DEF IInv, RestoreAccepts, OwnerLeadsOpenGroup, AcceptInvitation, AssertActive,
                ActiveParticipants
  <2>2. Cardinality(ActiveParticipants \cup {p}) = Cardinality(ActiveParticipants) + 1
    BY <2>1, ActiveParticipantsFinite, FS_AddElement DEF IInv
  <2> QED
    BY <1>4, <2>1, <2>2, ConstantsAssumption DEF OwnerLeadsOpenGroup, AcceptInvitation
<1>7. ParticipantsValid'
  <2>1. ASSUME NEW q \in DOMAIN participants'
        PROVE  MembershipValid(q)'
    <3>1. CASE q = p
      BY <1>3, <1>5, <3>1 DEF MembershipValid
    <3>2. CASE q # p
      BY <1>3, <3>2
      DEF IInv, RestoreAccepts, ParticipantsValid, MembershipValid
    <3> QED
      BY <3>1, <3>2
  <2>2. JoinOrdersDiffer'
    BY <1>3, <1>5 DEF IInv, RestoreAccepts, ParticipantsValid, JoinOrdersDiffer
  <2>3. OneActiveMembershipEach'
    BY <1>3, <1>4
    DEF IInv, RestoreAccepts, ParticipantsValid, OneActiveMembershipEach,
        AcceptInvitation, HasActiveMembership, ActiveParticipants
  <2> QED
    BY <2>1, <2>2, <2>3 DEF ParticipantsValid
<1>8. InvitationsValid'
  <2> SUFFICES ASSUME NEW j \in DOMAIN invitations
               PROVE  InvitationValid(j)'
    BY DEF InvitationsValid, AcceptInvitation
  <2>1. InvitationValid(j) /\ invitations[j] \in Invitation
    BY DEF IInv, RestoreAccepts, InvitationsValid, TypeOK
  <2>2. IssuedByMember(invitations[j])
    BY <2>1 DEF InvitationValid
  <2>3. CASE j = i
    <3>1. /\ invitations[i].createdAt <= t
          /\ t < invitations[i].expiryAt
          /\ invitations[i].targetSubject = actor
          /\ invitations'[i] = [invitations[i] EXCEPT !.status = "Consumed",
                                                      !.resultingParticipantId = p]
      BY <2>1, <2>3, ConstantsAssumption DEF AcceptInvitation, IsOpenAt, Invitation
    <3>2. /\ invitations'[i].status = "Consumed"
          /\ invitations'[i].resultingParticipantId = p
          /\ invitations'[i].targetSubject = actor
          /\ invitations'[i].expiryAt = invitations[i].expiryAt
          /\ invitations'[i].createdAt = invitations[i].createdAt
          /\ invitations'[i].issuerParticipantId = invitations[i].issuerParticipantId
      BY <2>1, <2>3, <3>1 DEF Invitation
    <3>3. p # Null
      BY ConstantsAssumption
    <3>4. AdmittedBy(invitations[i])'
      BY <1>3, <3>1, <3>2 DEF AdmittedBy
    <3>5. IssuedByMember(invitations[i])'
      BY <1>3, <2>2, <2>3, <3>2 DEF IssuedByMember
    <3> QED
      BY <2>1, <2>3, <3>2, <3>3, <3>4, <3>5 DEF InvitationValid
  <2>4. CASE j # i
    <3>1. invitations'[j] = invitations[j]
      BY <2>4 DEF AcceptInvitation
    <3>2. /\ IssuedByMember(invitations[j])'
          /\ AdmittedBy(invitations[j]) => AdmittedBy(invitations[j])'
      BY <1>3, <2>2, <3>1 DEF IssuedByMember, AdmittedBy
    <3> QED
      BY <2>1, <3>1, <3>2 DEF InvitationValid
  <2> QED
    BY <2>3, <2>4
<1> QED
  BY <1>1, <1>3, <1>6, <1>7, <1>8, FS_AddElement DEF IInv, RestoreAccepts

LEMMA StartClosingInv ==
    ASSUME IInv, NEW actor, NEW intent \in CloseIntentIds, NEW t \in Instants,
           StartClosing(actor, intent, t)
    PROVE  IsFiniteSet(DOMAIN participants') /\ RestoreAccepts'
<1>1. ParticipantsValid' /\ InvitationsValid'
  BY SameMembersStayValid DEF IInv, RestoreAccepts, StartClosing
<1>2. closing' \in Closing
  BY ConstantsAssumption DEF StartClosing, Closing
<1>3. OwnerLeadsOpenGroup'
  BY DEF IInv, RestoreAccepts, StartClosing, AssertActive, OwnerLeadsOpenGroup,
         ActiveParticipants, memberVars
<1>4. CloseStateValid'
  BY <1>2, NullAssumption
  DEF IInv, RestoreAccepts, StartClosing, AssertActive, CloseStateValid, archiveVars
<1>5. ArchiveStateValid' /\ ClosingValid'
  BY DEF StartClosing, ArchiveStateValid, ClosingValid, OnePerContext
<1> QED
  BY <1>1, <1>3, <1>4, <1>5 DEF IInv, RestoreAccepts, StartClosing, memberVars

\* What the steps within a closing leave alone.
LEMMA ClosingGoesOn ==
    ASSUME IInv, status = "Closing", closing' \in Closing,
           UNCHANGED <<status, ownerParticipantId, memberVars, archiveVars>>,
           ClosingValid'
    PROVE  IsFiniteSet(DOMAIN participants') /\ RestoreAccepts'
<1>1. ParticipantsValid' /\ InvitationsValid'
  BY SameMembersStayValid DEF IInv, RestoreAccepts
<1>2. OwnerLeadsOpenGroup'
  BY DEF IInv, RestoreAccepts, OwnerLeadsOpenGroup, ActiveParticipants, memberVars
<1>3. CloseStateValid' /\ ArchiveStateValid'
  BY NullAssumption
  DEF IInv, RestoreAccepts, CloseStateValid, ArchiveStateValid, archiveVars
<1> QED
  BY <1>1, <1>2, <1>3 DEF IInv, RestoreAccepts, memberVars

LEMMA RecordCloseFenceReceiptInv ==
    ASSUME IInv, NEW r \in FenceReceiptInputs, RecordCloseFenceReceipt(r)
    PROVE  IsFiniteSet(DOMAIN participants') /\ RestoreAccepts'
<1>1. /\ closing \in Closing
      /\ closing' = [closing EXCEPT !.fenceReceipts = @ \cup {r}]
      /\ closing.phase = "Fencing"
  BY DEF IInv, TypeOK, RecordCloseFenceReceipt, RequireClosing
<1>2. /\ closing'.fenceReceipts = closing.fenceReceipts \cup {r}
      /\ closing'.unfenceReceipts = closing.unfenceReceipts
      /\ closing'.closeIntentId = closing.closeIntentId
      /\ closing'.cutoff = closing.cutoff
      /\ closing'.phase = "Fencing"
  BY <1>1 DEF Closing
<1>3. r \in CloseFenceReceipt
  BY ConstantsAssumption DEF FenceReceiptInputs, CloseFenceReceipt
<1>4. closing' \in Closing
  BY <1>1, <1>3 DEF Closing
<1>5. closing.unfenceReceipts = {} /\ ClosingValid
  BY <1>1 DEF IInv, RestoreAccepts, ClosingValid, RecordCloseFenceReceipt, RequireClosing
<1>6. ClosingValid'
  <2>1. \A q \in closing'.fenceReceipts \cup closing'.unfenceReceipts :
            ReceiptMatchesClosing(q)'
    BY <1>2, <1>5
    DEF ClosingValid, ReceiptMatchesClosing, RecordCloseFenceReceipt, RequireClosing
  <2>2. OnePerContext(closing'.fenceReceipts)
    BY <1>2, <1>5
    DEF ClosingValid, OnePerContext, RecordCloseFenceReceipt, RequireClosing,
        IsFirstOfContext, ContextsOf
  <2> QED
    BY <1>2, <1>5, <2>1, <2>2 DEF ClosingValid, OnePerContext
<1> QED
  BY <1>4, <1>6, ClosingGoesOn DEF RecordCloseFenceReceipt, RequireClosing

LEMMA RecordCloseUnfenceReceiptInv ==
    ASSUME IInv, NEW r \in UnfenceReceiptInputs, RecordCloseUnfenceReceipt(r)
    PROVE  IsFiniteSet(DOMAIN participants') /\ RestoreAccepts'
<1>1. /\ closing \in Closing
      /\ closing' = [closing EXCEPT !.unfenceReceipts = @ \cup {r}]
      /\ closing.phase = "Canceling"
  BY DEF IInv, TypeOK, RecordCloseUnfenceReceipt, RequireClosing
<1>2. /\ closing'.unfenceReceipts = closing.unfenceReceipts \cup {r}
      /\ closing'.fenceReceipts = closing.fenceReceipts
      /\ closing'.closeIntentId = closing.closeIntentId
      /\ closing'.cutoff = closing.cutoff
      /\ closing'.phase = "Canceling"
  BY <1>1 DEF Closing
<1>3. r \in CloseUnfenceReceipt
  BY ConstantsAssumption DEF UnfenceReceiptInputs, CloseUnfenceReceipt
<1>4. closing' \in Closing
  BY <1>1, <1>3 DEF Closing
<1>5. ClosingValid /\ closing # Null
  BY DEF IInv, RestoreAccepts, RecordCloseUnfenceReceipt, RequireClosing
<1>6. ClosingValid'
  <2>1. \A q \in closing'.fenceReceipts \cup closing'.unfenceReceipts :
            ReceiptMatchesClosing(q)'
    BY <1>2, <1>5
    DEF ClosingValid, ReceiptMatchesClosing, RecordCloseUnfenceReceipt, RequireClosing
  <2>2. OnePerContext(closing'.unfenceReceipts)
    BY <1>2, <1>5
    DEF ClosingValid, OnePerContext, RecordCloseUnfenceReceipt, RequireClosing,
        IsFirstOfContext, ContextsOf
  <2>3. \A q \in closing'.unfenceReceipts : UndoesFence(q, closing'.fenceReceipts)
    BY <1>2, <1>5 DEF ClosingValid, RecordCloseUnfenceReceipt
  <2> QED
    BY <1>2, <1>5, <2>1, <2>2, <2>3 DEF ClosingValid, OnePerContext, UndoesFence
<1> QED
  BY <1>4, <1>6, ClosingGoesOn DEF RecordCloseUnfenceReceipt, RequireClosing

LEMMA ReserveClosingCancellationInv ==
    ASSUME IInv, NEW actor, NEW intent, ReserveClosingCancellation(actor, intent)
    PROVE  IsFiniteSet(DOMAIN participants') /\ RestoreAccepts'
<1>1. /\ closing \in Closing
      /\ closing' = [closing EXCEPT !.phase = "Canceling"]
  BY DEF IInv, TypeOK, ReserveClosingCancellation, RequireClosing
<1>2. /\ closing'.unfenceReceipts = closing.unfenceReceipts
      /\ closing'.fenceReceipts = closing.fenceReceipts
      /\ closing'.closeIntentId = closing.closeIntentId
      /\ closing'.cutoff = closing.cutoff
      /\ closing'.phase = "Canceling"
  BY <1>1 DEF Closing
<1>3. closing' \in Closing
  BY <1>1 DEF Closing
<1>4. ClosingValid /\ closing # Null
  BY DEF IInv, RestoreAccepts, ReserveClosingCancellation, RequireClosing
<1>5. ClosingValid'
  BY <1>2, <1>4 DEF ClosingValid, ReceiptMatchesClosing, OnePerContext, UndoesFence
<1> QED
  BY <1>3, <1>5, ClosingGoesOn DEF ReserveClosingCancellation, RequireClosing

LEMMA CompleteClosingCancellationInv ==
    ASSUME IInv, NEW actor, NEW intent, CompleteClosingCancellation(actor, intent)
    PROVE  IsFiniteSet(DOMAIN participants') /\ RestoreAccepts'
<1>1. ParticipantsValid' /\ InvitationsValid'
  BY SameMembersStayValid DEF IInv, RestoreAccepts, CompleteClosingCancellation
<1>2. OwnerLeadsOpenGroup'
  BY DEF IInv, RestoreAccepts, CompleteClosingCancellation, RequireClosing,
         OwnerLeadsOpenGroup, ActiveParticipants, memberVars
<1>3. CloseStateValid' /\ ArchiveStateValid' /\ ClosingValid'
  BY DEF IInv, RestoreAccepts, CompleteClosingCancellation, RequireClosing,
         CloseStateValid, ArchiveStateValid, ClosingValid, archiveVars
<1> QED
  BY <1>1, <1>2, <1>3 DEF IInv, RestoreAccepts, CompleteClosingCancellation, memberVars

LEMMA ArchiveInv ==
    ASSUME IInv, NEW actor, NEW intent, NEW t \in Instants, Archive(actor, intent, t)
    PROVE  IsFiniteSet(DOMAIN participants') /\ RestoreAccepts'
<1>1. ParticipantsValid' /\ InvitationsValid'
  BY SameMembersStayValid DEF IInv, RestoreAccepts, Archive
<1>2. ArchiveStateValid'
  BY ConstantsAssumption
  DEF IInv, RestoreAccepts, Archive, RequireClosing, OwnerLeadsOpenGroup,
      ArchiveStateValid, ActiveParticipants, memberVars
<1>3. OwnerLeadsOpenGroup' /\ CloseStateValid' /\ ClosingValid'
  BY DEF Archive, OwnerLeadsOpenGroup, CloseStateValid, ClosingValid
<1> QED
  BY <1>1, <1>2, <1>3 DEF IInv, RestoreAccepts, Archive, memberVars

LEMMA StutterInv ==
    ASSUME IInv, UNCHANGED vars
    PROVE  IsFiniteSet(DOMAIN participants') /\ RestoreAccepts'
<1>1. ParticipantsValid' /\ InvitationsValid'
  BY SameMembersStayValid DEF IInv, RestoreAccepts, vars
<1>2. OwnerLeadsOpenGroup' /\ CloseStateValid' /\ ArchiveStateValid'
  BY DEF IInv, RestoreAccepts, OwnerLeadsOpenGroup, CloseStateValid, ArchiveStateValid,
         ActiveParticipants, vars, memberVars, archiveVars
<1>3. ClosingValid'
  BY DEF IInv, RestoreAccepts, ClosingValid, ReceiptMatchesClosing, vars
<1> QED
  BY <1>1, <1>2, <1>3 DEF IInv, RestoreAccepts, vars, memberVars

LEMMA NextInv == IInv /\ [Next]_vars => IInv'
<1> SUFFICES ASSUME IInv, [Next]_vars
             PROVE  IsFiniteSet(DOMAIN participants') /\ RestoreAccepts'
  BY NextType DEF IInv
<1>1. CASE \E actor \in Subjects, t \in Instants : MembershipStep(actor, t)
  BY <1>1, TransferOwnershipInv, LeaveInv, InviteParticipantInv, CancelInvitationInv,
     AcceptInvitationInv
  DEF MembershipStep
<1>2. CASE \E actor \in Subjects, t \in Instants : OwnerClosingStep(actor, t)
  BY <1>2, StartClosingInv, ArchiveInv, ReserveClosingCancellationInv,
     CompleteClosingCancellationInv
  DEF OwnerClosingStep
<1>3. CASE ReceiptStep
  BY <1>3, RecordCloseFenceReceiptInv, RecordCloseUnfenceReceiptInv DEF ReceiptStep
<1>4. CASE UNCHANGED vars
  BY <1>4, StutterInv
<1> QED
  BY <1>1, <1>2, <1>3, <1>4 DEF Next

\* The induction that the theorems below share.
LEMMA Invariance == Spec => []IInv
  BY InitInv, NextInv, PTL DEF Spec

\* Whatever commands a group went through, in whatever order of their instants,
\* Group.restore accepts what was stored: no group is ever lost to a check that
\* the command that wrote it did not make.
THEOREM StoredGroupsCanBeRestored == Spec => []RestoreAccepts
<1>1. IInv => RestoreAccepts
  BY DEF IInv
<1> QED
  BY <1>1, Invariance, PTL

-----------------------------------------------------------------------------
(* Memberships come from invitations *)

ProvenanceInv == IInv /\ MembershipProvenance

LEMMA ProvenanceInit == Init => ProvenanceInv
<1> SUFFICES ASSUME NEW p \in ParticipantIds, NEW s \in Subjects, NEW t \in Instants,
                    Create(p, s, t)
             PROVE  MembershipProvenance
  BY InitInv DEF Init, ProvenanceInv
<1> QED
  BY DEF Create, MembershipProvenance, ConsumedInvitations

\* Invitations that were not consumed can come and go.
LEMMA ProvenanceUndisturbed ==
    ASSUME MembershipProvenance,
           DOMAIN participants' = DOMAIN participants,
           \A p \in DOMAIN participants :
               participants'[p].joinOrder = participants[p].joinOrder,
           ConsumedInvitations' = ConsumedInvitations,
           \A i \in ConsumedInvitations : invitations'[i] = invitations[i]
    PROVE  MembershipProvenance'
  BY DEF MembershipProvenance

LEMMA ProvenanceAccept ==
    ASSUME ProvenanceInv, NEW actor \in Subjects, NEW i, NEW p \in ParticipantIds,
           NEW t \in Instants, AcceptInvitation(actor, i, p, t)
    PROVE  MembershipProvenance'
<1>1. PICK n \in 0 .. MaxSafeInteger - 1 :
          /\ IsPreviousJoinOrder(n)
          /\ participants' = Put(participants, p,
                 [subject |-> actor, joinedAt |-> t, joinOrder |-> n + 1,
                  status |-> "Active", leftAt |-> Null])
  BY DEF AcceptInvitation
<1>2. /\ p \notin DOMAIN participants
      /\ DOMAIN participants' = DOMAIN participants \cup {p}
      /\ participants'[p].joinOrder = n + 1
      /\ \A q \in DOMAIN participants : participants'[q] = participants[q]
  <2>1. p \notin DOMAIN participants
    BY DEF AcceptInvitation
  <2> QED
    BY <1>1, <2>1 DEF Put
<1>3. n >= 1
  <2>1. ownerParticipantId \in DOMAIN participants
    BY DEF ProvenanceInv, IInv, RestoreAccepts, OwnerLeadsOpenGroup, ActiveParticipants,
           AcceptInvitation, AssertActive
  <2>2. participants[ownerParticipantId].joinOrder \in Nat
    BY <2>1 DEF ProvenanceInv, IInv, TypeOK, Participant
  <2>3. participants[ownerParticipantId].joinOrder >= 1
    BY <2>1 DEF ProvenanceInv, IInv, RestoreAccepts, ParticipantsValid, MembershipValid
  <2>4. participants[ownerParticipantId].joinOrder <= n
    BY <1>1, <2>1 DEF IsPreviousJoinOrder
  <2> QED
    BY <2>2, <2>3, <2>4, ConstantsAssumption
<1>4. /\ i \in DOMAIN invitations
      /\ i \notin ConsumedInvitations
      /\ DOMAIN invitations' = DOMAIN invitations
      /\ invitations'[i].status = "Consumed"
      /\ invitations'[i].resultingParticipantId = p
      /\ \A j \in DOMAIN invitations : j # i => invitations'[j] = invitations[j]
  <2>1. i \in DOMAIN invitations /\ invitations[i].status = "Pending"
    BY DEF AcceptInvitation, IsOpenAt
  <2>2. invitations[i] \in Invitation
    BY <2>1 DEF ProvenanceInv, IInv, TypeOK
  <2>3. invitations' = [invitations EXCEPT ![i].status = "Consumed",
                                           ![i].resultingParticipantId = p]
    BY DEF AcceptInvitation
  <2> QED
    BY <2>1, <2>2, <2>3 DEF Invitation, ConsumedInvitations
<1>5. ConsumedInvitations' = ConsumedInvitations \cup {i}
  BY <1>4 DEF ConsumedInvitations
<1>6. \A j \in ConsumedInvitations :
          /\ invitations'[j] = invitations[j]
          /\ invitations[j].resultingParticipantId \in DOMAIN participants
  <2> SUFFICES ASSUME NEW j \in ConsumedInvitations
               PROVE  /\ invitations'[j] = invitations[j]
                      /\ invitations[j].resultingParticipantId \in DOMAIN participants
    OBVIOUS
  <2>1. j \in DOMAIN invitations /\ j # i /\ invitations[j].status = "Consumed"
    BY <1>4 DEF ConsumedInvitations
  <2>2. AdmittedBy(invitations[j])
    BY <2>1 DEF ProvenanceInv, IInv, RestoreAccepts, InvitationsValid, InvitationValid
  <2> QED
    BY <1>4, <2>1, <2>2 DEF AdmittedBy
<1>7. \A j, k \in ConsumedInvitations' :
          invitations'[j].resultingParticipantId = invitations'[k].resultingParticipantId
              => j = k
  BY <1>2, <1>4, <1>5, <1>6 DEF ProvenanceInv, MembershipProvenance
<1>8. ASSUME NEW q \in DOMAIN participants'
      PROVE  (participants'[q].joinOrder > 1) <=>
                 \E j \in ConsumedInvitations' :
                     invitations'[j].resultingParticipantId = q
  <2>1. CASE q = p
    <3>1. participants'[q].joinOrder > 1
      BY <1>2, <1>3, <2>1, ConstantsAssumption
    <3> QED
      BY <1>4, <1>5, <2>1, <3>1
  <2>2. CASE q # p
    <3>1. q \in DOMAIN participants /\ participants'[q] = participants[q]
      BY <1>2, <2>2
    <3>2. (participants[q].joinOrder > 1) <=>
              \E j \in ConsumedInvitations : invitations[j].resultingParticipantId = q
      BY <3>1 DEF ProvenanceInv, MembershipProvenance
    <3> QED
      BY <1>4, <1>5, <1>6, <2>2, <3>1, <3>2
  <2> QED
    BY <2>1, <2>2
<1> QED
  BY <1>7, <1>8 DEF MembershipProvenance

LEMMA ProvenanceLeave ==
    ASSUME ProvenanceInv, NEW actor, NEW p, NEW t \in Instants, Leave(actor, p, t)
    PROVE  MembershipProvenance'
<1>1. /\ DOMAIN participants' = DOMAIN participants
      /\ \A q \in DOMAIN participants :
             participants'[q].joinOrder = participants[q].joinOrder
  BY DEF Leave, ProvenanceInv, IInv, TypeOK, Participant
<1>2. ConsumedInvitations' = ConsumedInvitations /\ UNCHANGED invitations
  BY DEF Leave, ConsumedInvitations
<1> QED
  BY <1>1, <1>2, ProvenanceUndisturbed DEF ProvenanceInv

LEMMA ProvenanceInvite ==
    ASSUME ProvenanceInv, NEW actor, NEW i, NEW s, NEW t,
           InviteParticipant(actor, i, s, t)
    PROVE  MembershipProvenance'
<1> DEFINE inv == [targetSubject |-> s, issuerParticipantId |-> ownerParticipantId,
                   createdAt |-> t, expiryAt |-> t + InvitationLifetime,
                   status |-> "Pending", resultingParticipantId |-> Null]
<1>1. i \notin DOMAIN invitations /\ invitations' = Put(invitations, i, inv)
  BY DEF InviteParticipant
<1>2. /\ DOMAIN invitations' = DOMAIN invitations \cup {i}
      /\ invitations'[i].status = "Pending"
      /\ \A j \in DOMAIN invitations : invitations'[j] = invitations[j]
  BY <1>1 DEF Put
<1>3. /\ ConsumedInvitations' = ConsumedInvitations
      /\ \A j \in ConsumedInvitations : invitations'[j] = invitations[j]
  BY <1>1, <1>2 DEF ConsumedInvitations
<1>4. UNCHANGED participants
  BY DEF InviteParticipant
<1> QED
  BY <1>3, <1>4, ProvenanceUndisturbed DEF ProvenanceInv

LEMMA ProvenanceCancel ==
    ASSUME ProvenanceInv, NEW actor, NEW i, NEW t, CancelInvitation(actor, i, t)
    PROVE  MembershipProvenance'
<1>1. i \in DOMAIN invitations /\ invitations[i].status = "Pending"
  BY DEF CancelInvitation, IsOpenAt
<1>2. invitations[i] \in Invitation
  BY <1>1 DEF ProvenanceInv, IInv, TypeOK
<1>3. /\ DOMAIN invitations' = DOMAIN invitations
      /\ invitations'[i].status = "Cancelled"
      /\ \A j \in DOMAIN invitations : j # i => invitations'[j] = invitations[j]
  BY <1>1, <1>2 DEF CancelInvitation, Invitation
<1>4. /\ ConsumedInvitations' = ConsumedInvitations
      /\ \A j \in ConsumedInvitations : invitations'[j] = invitations[j]
  BY <1>1, <1>3 DEF ConsumedInvitations
<1>5. UNCHANGED participants
  BY DEF CancelInvitation
<1> QED
  BY <1>4, <1>5, ProvenanceUndisturbed DEF ProvenanceInv

LEMMA ProvenanceSameMembers ==
    ASSUME MembershipProvenance, UNCHANGED memberVars
    PROVE  MembershipProvenance'
  BY DEF MembershipProvenance, ConsumedInvitations, memberVars

LEMMA ProvenanceNext == ProvenanceInv /\ [Next]_vars => ProvenanceInv'
<1> SUFFICES ASSUME ProvenanceInv, [Next]_vars
             PROVE  MembershipProvenance'
  BY NextInv DEF ProvenanceInv
<1>1. CASE \E actor \in Subjects, t \in Instants : MembershipStep(actor, t)
  <2>1. ASSUME NEW actor \in Subjects, NEW p \in ParticipantIds, TransferOwnership(actor, p)
        PROVE  MembershipProvenance'
    BY <2>1, ProvenanceSameMembers DEF ProvenanceInv, TransferOwnership
  <2> QED
    BY <1>1, <2>1, ProvenanceLeave, ProvenanceInvite, ProvenanceCancel, ProvenanceAccept
    DEF MembershipStep
<1>2. CASE \E actor \in Subjects, t \in Instants : OwnerClosingStep(actor, t)
  <2>1. UNCHANGED memberVars
    BY <1>2 DEF OwnerClosingStep, StartClosing, Archive, ReserveClosingCancellation,
                CompleteClosingCancellation
  <2> QED
    BY <2>1, ProvenanceSameMembers DEF ProvenanceInv
<1>3. CASE ReceiptStep
  <2>1. UNCHANGED memberVars
    BY <1>3 DEF ReceiptStep, RecordCloseFenceReceipt, RecordCloseUnfenceReceipt
  <2> QED
    BY <2>1, ProvenanceSameMembers DEF ProvenanceInv
<1>4. CASE UNCHANGED vars
  BY <1>4, ProvenanceSameMembers DEF ProvenanceInv, vars
<1> QED
  BY <1>1, <1>2, <1>3, <1>4 DEF Next

\* No invitation admits two memberships, and nobody but the creator is a member
\* without one: a consumed invitation cannot be replayed to rejoin, for groups of
\* any size and any number of departures and returns.
THEOREM MembershipsComeFromInvitations == Spec => []MembershipProvenance
<1>1. ProvenanceInv => MembershipProvenance
  BY DEF ProvenanceInv
<1> QED
  BY <1>1, ProvenanceInit, ProvenanceNext, PTL DEF Spec

-----------------------------------------------------------------------------
(* What a step may never do *)

LEMMA FrozenMembershipStep ==
    ASSUME NEW actor, NEW t, MembershipStep(actor, t)
    PROVE  IsFrozen
  BY DEF MembershipStep, IsFrozen, AssertActive, TransferOwnership, Leave,
         InviteParticipant, CancelInvitation, AcceptInvitation

LEMMA FrozenOwnerStep ==
    ASSUME NEW actor, NEW t, OwnerClosingStep(actor, t)
    PROVE  IsFrozen
  BY DEF OwnerClosingStep, IsFrozen, AssertActive, RequireClosing, StartClosing, Archive,
         ReserveClosingCancellation, CompleteClosingCancellation

LEMMA FrozenReceiptStep ==
    ASSUME ReceiptStep
    PROVE  IsFrozen
  BY DEF ReceiptStep, IsFrozen, RequireClosing, RecordCloseFenceReceipt,
         RecordCloseUnfenceReceipt

\* While a group is closing nobody joins, leaves or takes over, so the owner and
\* the members at the archive are those the close was started with; an archived
\* group is final.
THEOREM MembershipIsFrozenOnceClosing == Spec => FrozenOnceClosing
<1>1. [Next]_vars => [IsFrozen]_vars
  BY FrozenMembershipStep, FrozenOwnerStep, FrozenReceiptStep DEF Next
<1> QED
  BY <1>1, PTL DEF Spec, FrozenOnceClosing

LEMMA CancelsOnOwnerStep ==
    ASSUME IInv, NEW actor, NEW t, OwnerClosingStep(actor, t)
    PROVE  CancelsOn
<1> SUFFICES ASSUME closing # Null, closing.phase = "Canceling"
             PROVE  CancelsOn
  BY DEF CancelsOn
<1>1. PICK intent \in CloseIntentIds : CompleteClosingCancellation(actor, intent)
  BY DEF OwnerClosingStep, IInv, RestoreAccepts, CloseStateValid, AssertActive,
         RequireClosing, StartClosing, Archive, ReserveClosingCancellation
<1>2. \A c \in Contexts : c \in ContextsOf(closing.fenceReceipts)
  <2> SUFFICES ASSUME NEW c \in Contexts
               PROVE  c \in ContextsOf(closing.fenceReceipts)
    OBVIOUS
  <2>1. PICK r \in closing.unfenceReceipts : r.context = c
    BY <1>1 DEF CompleteClosingCancellation, HasBothReceipts, ContextsOf
  <2>2. PICK f \in closing.fenceReceipts : f.context = r.context
    BY <2>1 DEF IInv, RestoreAccepts, ClosingValid, UndoesFence
  <2> QED
    BY <2>1, <2>2 DEF ContextsOf
<1>3. ContextsOf(closing.fenceReceipts) \subseteq Contexts
  BY DEF IInv, TypeOK, Closing, CloseFenceReceipt, ContextsOf
<1> QED
  BY <1>1, <1>2, <1>3 DEF CancelsOn, CompleteClosingCancellation, HasBothReceipts

LEMMA CancelsOnReceiptStep ==
    ASSUME IInv, ReceiptStep
    PROVE  CancelsOn
<1> SUFFICES ASSUME closing # Null, closing.phase = "Canceling"
             PROVE  CancelsOn
  BY DEF CancelsOn
<1>1. PICK r \in UnfenceReceiptInputs : RecordCloseUnfenceReceipt(r)
  BY DEF ReceiptStep, RecordCloseFenceReceipt, RequireClosing
<1>2. closing \in Closing
  BY DEF IInv, TypeOK
<1>3. closing' = [closing EXCEPT !.unfenceReceipts = @ \cup {r}]
  BY <1>1 DEF RecordCloseUnfenceReceipt
<1>4. closing' \in Closing
  <2>1. r \in CloseUnfenceReceipt
    BY ConstantsAssumption DEF UnfenceReceiptInputs, CloseUnfenceReceipt
  <2> QED
    BY <1>2, <1>3, <2>1 DEF Closing
<1>5. closing' # Null
  BY <1>4, NullAssumption
<1> QED
  BY <1>2, <1>3, <1>5 DEF CancelsOn, Closing

\* A reserved cancellation cannot be turned back into an archive: the contexts may
\* take their fences down, and the group is in use again only when both did.
THEOREM ReservedCancellationIsIrrevocable == Spec => CancellationIsIrrevocable
<1>1. IInv /\ [Next]_vars => [CancelsOn]_vars
  <2> SUFFICES ASSUME IInv, Next
               PROVE  CancelsOn
    OBVIOUS
  <2>1. ASSUME NEW actor \in Subjects, NEW t \in Instants, MembershipStep(actor, t)
        PROVE  CancelsOn
    BY <2>1 DEF IInv, RestoreAccepts, CloseStateValid, CancelsOn, MembershipStep,
                AssertActive, TransferOwnership, Leave, InviteParticipant,
                CancelInvitation, AcceptInvitation
  <2> QED
    BY <2>1, CancelsOnOwnerStep, CancelsOnReceiptStep DEF Next
<1> QED
  BY <1>1, Invariance, PTL DEF Spec, CancellationIsIrrevocable

LEMMA VersionChanges == Next => accessPolicyVersion' = accessPolicyVersion + 1
<1> USE DEF NextAccessPolicyVersion
<1>1. ASSUME NEW actor \in Subjects, NEW t \in Instants, MembershipStep(actor, t)
      PROVE  accessPolicyVersion' = accessPolicyVersion + 1
  BY <1>1 DEF MembershipStep, TransferOwnership, Leave, InviteParticipant,
              CancelInvitation, AcceptInvitation
<1>2. ASSUME NEW actor \in Subjects, NEW t \in Instants, OwnerClosingStep(actor, t)
      PROVE  accessPolicyVersion' = accessPolicyVersion + 1
  BY <1>2 DEF OwnerClosingStep, StartClosing, Archive, ReserveClosingCancellation,
              CompleteClosingCancellation
<1>3. ReceiptStep => accessPolicyVersion' = accessPolicyVersion + 1
  BY DEF ReceiptStep, RecordCloseFenceReceipt, RecordCloseUnfenceReceipt
<1> QED
  BY <1>1, <1>2, <1>3 DEF Next

\* No two states of a group share a version, so a compare-and-swap on it that
\* succeeds has replaced the very state that was loaded.
THEOREM VersionsTellStatesApart == Spec => EveryChangeBumpsVersion
<1>1. [Next]_vars => [accessPolicyVersion' = accessPolicyVersion + 1]_vars
  BY VersionChanges
<1> QED
  BY <1>1, PTL DEF Spec, EveryChangeBumpsVersion

LEMMA KeepsHistoryIfSameMembers == UNCHANGED memberVars => KeepsHistory
  BY DEF KeepsHistory, memberVars

LEMMA LeaveKeepsHistory ==
    ASSUME TypeOK, NEW actor, NEW p, NEW t, Leave(actor, p, t)
    PROVE  KeepsHistory
<1>1. p \in DOMAIN participants /\ participants[p].status = "Active"
  BY DEF Leave, ActiveParticipants
<1>2. participants[p] \in Participant
  BY <1>1 DEF TypeOK
<1>3. /\ DOMAIN participants' = DOMAIN participants
      /\ participants'[p].joinOrder = participants[p].joinOrder
      /\ participants'[p].subject = participants[p].subject
      /\ \A q \in DOMAIN participants : q # p => participants'[q] = participants[q]
  BY <1>1, <1>2 DEF Leave, Participant
<1> QED
  BY <1>1, <1>3 DEF KeepsHistory, Leave

LEMMA InviteKeepsHistory ==
    ASSUME NEW actor, NEW i, NEW s, NEW t, InviteParticipant(actor, i, s, t)
    PROVE  KeepsHistory
<1>1. /\ DOMAIN invitations \subseteq DOMAIN invitations'
      /\ \A j \in DOMAIN invitations : invitations'[j] = invitations[j]
  BY DEF InviteParticipant, Put
<1> QED
  BY <1>1 DEF KeepsHistory, InviteParticipant

LEMMA CancelKeepsHistory ==
    ASSUME NEW actor, NEW i, NEW t, CancelInvitation(actor, i, t)
    PROVE  KeepsHistory
<1>1. /\ i \in DOMAIN invitations /\ invitations[i].status = "Pending"
      /\ DOMAIN invitations' = DOMAIN invitations
      /\ \A j \in DOMAIN invitations : j # i => invitations'[j] = invitations[j]
  BY DEF CancelInvitation, IsOpenAt
<1> QED
  BY <1>1 DEF KeepsHistory, CancelInvitation

LEMMA AcceptKeepsHistory ==
    ASSUME TypeOK, NEW actor, NEW i, NEW p, NEW t, AcceptInvitation(actor, i, p, t)
    PROVE  KeepsHistory
<1>1. PICK n \in 0 .. MaxSafeInteger - 1 :
          /\ IsPreviousJoinOrder(n)
          /\ participants' = Put(participants, p,
                 [subject |-> actor, joinedAt |-> t, joinOrder |-> n + 1,
                  status |-> "Active", leftAt |-> Null])
  BY DEF AcceptInvitation
<1>2. /\ p \notin DOMAIN participants
      /\ DOMAIN participants' = DOMAIN participants \cup {p}
      /\ participants'[p].joinOrder = n + 1
      /\ \A q \in DOMAIN participants : participants'[q] = participants[q]
  <2>1. p \notin DOMAIN participants
    BY DEF AcceptInvitation
  <2> QED
    BY <1>1, <2>1 DEF Put
<1>3. \A q \in DOMAIN participants : participants'[p].joinOrder > participants[q].joinOrder
  <2> SUFFICES ASSUME NEW q \in DOMAIN participants
               PROVE  n + 1 > participants[q].joinOrder
    BY <1>2
  <2>1. participants[q].joinOrder \in Nat
    BY DEF TypeOK, Participant
  <2>2. participants[q].joinOrder <= n
    BY <1>1 DEF IsPreviousJoinOrder
  <2> QED
    BY <2>1, <2>2, ConstantsAssumption
<1>4. /\ i \in DOMAIN invitations /\ invitations[i].status = "Pending"
      /\ DOMAIN invitations' = DOMAIN invitations
      /\ \A j \in DOMAIN invitations : j # i => invitations'[j] = invitations[j]
  BY DEF AcceptInvitation, IsOpenAt
<1> QED
  BY <1>2, <1>3, <1>4 DEF KeepsHistory

\* However a group goes on, who belonged to it, in which order they joined and
\* what became of an answered invitation can still be read from it.
THEOREM HistoryIsNeverRewritten == Spec => HistoryIsKept
<1>1. TypeOK /\ [Next]_vars => [KeepsHistory]_vars
  <2> SUFFICES ASSUME TypeOK, Next
               PROVE  KeepsHistory
    OBVIOUS
  <2>1. ASSUME NEW actor \in Subjects, NEW t \in Instants, MembershipStep(actor, t)
        PROVE  KeepsHistory
    <3>1. ASSUME NEW p \in ParticipantIds, TransferOwnership(actor, p)
          PROVE  KeepsHistory
      BY <3>1, KeepsHistoryIfSameMembers DEF TransferOwnership
    <3> QED
      BY <2>1, <3>1, LeaveKeepsHistory, InviteKeepsHistory, CancelKeepsHistory,
         AcceptKeepsHistory DEF MembershipStep
  <2>2. ASSUME NEW actor \in Subjects, NEW t \in Instants, OwnerClosingStep(actor, t)
        PROVE  KeepsHistory
    BY <2>2, KeepsHistoryIfSameMembers
    DEF OwnerClosingStep, StartClosing, Archive, ReserveClosingCancellation,
        CompleteClosingCancellation
  <2>3. ReceiptStep => KeepsHistory
    BY KeepsHistoryIfSameMembers
    DEF ReceiptStep, RecordCloseFenceReceipt, RecordCloseUnfenceReceipt
  <2> QED
    BY <2>1, <2>2, <2>3 DEF Next
<1> QED
  BY <1>1, TypeCorrect, PTL DEF Spec, HistoryIsKept

-----------------------------------------------------------------------------
(* Closed together with its contexts *)

\* The intents a cancellation was reserved for.
ReservedIntents == {r.closeIntentId : r \in reservations}

\* The intent whose closing is under way.
IsCurrentIntent(intent) == closing # Null /\ closing.closeIntentId = intent

\* The context once issued a receipt for a fence of the intent.
WasFenced(c, intent) == \E r \in fenceReceipts : r.context = c /\ r.closeIntentId = intent

\* An intent that is over was fenced by both contexts.
StartedInv ==
    /\ \A s \in started : s.cutoff \in Instants
    /\ closing # Null =>
           [closeIntentId |-> closing.closeIntentId, cutoff |-> closing.cutoff] \in started
    /\ \A s \in started, c \in Contexts :
           IsCurrentIntent(s.closeIntentId) \/ WasFenced(c, s.closeIntentId)

\* A fence is one of the intent under way, or of the archived group.
FenceInv ==
    \A c \in Contexts : fence[c] # Null =>
        /\ [closeIntentId |-> fence[c].closeIntentId, cutoff |-> fence[c].cutoff] \in started
        /\ status = "Archived" \/ IsCurrentIntent(fence[c].closeIntentId)

\* A receipt stands for a fence that is still there, unless its removal was asked for,
\* and behind a fence nothing starts any more.
ReceiptInv ==
    /\ IsFiniteSet(fenceReceipts)
    /\ fenceReceipts \subseteq FenceReceiptInputs
    /\ unfenceReceipts \subseteq UnfenceReceiptInputs
    /\ closing # Null =>
           /\ closing.fenceReceipts \subseteq fenceReceipts
           /\ closing.unfenceReceipts \subseteq unfenceReceipts
    /\ \A r \in fenceReceipts :
           /\ r.closeIntentId \in Intents
           /\ r.closeIntentId \notin ReservedIntents =>
                  fence[r.context] # Null /\ fence[r.context].closeIntentId = r.closeIntentId
           /\ fence[r.context] # Null /\ fence[r.context].closeIntentId = r.closeIntentId =>
                  r.context \notin running /\ (r.eligible => r.context \notin openWork)
    /\ \A r \in unfenceReceipts :
           /\ WasFenced(r.context, r.closeIntentId)
           /\ r.closeIntentId \in ReservedIntents
           /\ fence[r.context] = Null \/ fence[r.context].closeIntentId # r.closeIntentId

\* A reservation is one of an intent that can only be cancelled.
ReservationInv ==
    \A v \in reservations :
        /\ v.receipts \subseteq fenceReceipts
        /\ \A r \in v.receipts : r.closeIntentId = v.closeIntentId
        /\ v.closeIntentId \in Intents
        /\ IsCurrentIntent(v.closeIntentId) => closing.phase = "Canceling"

SettledInv ==
    status = "Archived" =>
        \A c \in Contexts :
            /\ fence[c] # Null
            /\ fence[c].closeIntentId \notin ReservedIntents
            /\ c \notin running
            /\ c \notin openWork

\* The inductive invariant: ArchivedIsSettled and the others say nothing of receipts and
\* requests that are still on their way, on which the next steps depend.
CloseInv ==
    /\ IInv
    /\ CloseTypeOK
    /\ StartedInv
    /\ FenceInv
    /\ ReceiptInv
    /\ ReservationInv
    /\ SettledInv

LEMMA InstantsAreNumbers == Instants \subseteq Nat
  BY ConstantsAssumption

LEMMA CloseInitInv == CloseInit => CloseInv
<1> SUFFICES ASSUME CloseInit
             PROVE  CloseInv
  OBVIOUS
<1>1. IInv
  BY InitInv DEF CloseInit
<1>2. status = "Active" /\ closing = Null
  BY DEF CloseInit, Init, Create
<1>3. CloseTypeOK
  BY <1>1 DEF CloseTypeOK, CloseInit, IInv
<1>4. StartedInv /\ FenceInv /\ ReservationInv /\ SettledInv
  BY <1>2 DEF StartedInv, FenceInv, ReservationInv, SettledInv, CloseInit
<1>5. IsFiniteSet({})
  BY FS_EmptySet
<1>6. ReceiptInv
  BY <1>2, <1>5 DEF ReceiptInv, CloseInit
<1> QED
  BY <1>1, <1>3, <1>4, <1>6 DEF CloseInv


LEMMA ClosingIsStarted ==
    ASSUME CloseInv, closing # Null
    PROVE  closing.closeIntentId \in Intents /\ closing.cutoff \in Instants
  BY DEF CloseInv, StartedInv, Intents

\* What the coordinator and the contexts do is, for the group alone, one of its commands
\* or nothing.
LEMMA CloseStepIsGroupStep ==
    ASSUME CloseInv, [CloseNext]_closeVars
    PROVE  [Next]_vars
<1>1. ASSUME NEW actor \in Subjects, NEW intent \in CloseIntentIds, NEW t \in Instants,
             Start(actor, intent, t) \/ ArchiveGroup(actor, intent, t)
      PROVE  Next
  BY <1>1 DEF Start, ArchiveGroup, Next, OwnerClosingStep
<1>2. ASSUME NEW actor \in Subjects, NEW intent \in CloseIntentIds,
             \/ \E receipts : ReserveCancellation(actor, intent, receipts)
             \/ CompleteCancellation(actor, intent)
      PROVE  Next
  <2>1. closing # Null
    BY <1>2 DEF ReserveCancellation, ReserveClosingCancellation, CompleteCancellation,
                CompleteClosingCancellation, RequireClosing
  <2>2. PICK t \in Instants : TRUE
    BY <2>1, ClosingIsStarted
  <2>3. OwnerClosingStep(actor, t)
    BY <1>2 DEF ReserveCancellation, CompleteCancellation, OwnerClosingStep
  <2> QED
    BY <2>3 DEF Next
<1>3. ASSUME NEW r \in fenceReceipts, RecordFence(r)
      PROVE  Next
  BY <1>3 DEF CloseInv, ReceiptInv, RecordFence, Next, ReceiptStep
<1>4. ASSUME NEW r \in unfenceReceipts, RecordUnfence(r)
      PROVE  Next
  BY <1>4 DEF CloseInv, ReceiptInv, RecordUnfence, Next, ReceiptStep
<1>5. ASSUME NEW v, NEW r, RemoveFence(v, r)
      PROVE  UNCHANGED vars
  BY <1>5 DEF RemoveFence
<1>6. ASSUME NEW c \in Contexts,
             \/ \E s \in started : InstallFence(c, s)
             \/ \E t \in Instants : IssueFenceReceipt(c, t)
             \/ StartCommand(c)
             \/ EndCommand(c)
      PROVE  UNCHANGED vars
  BY <1>6 DEF InstallFence, IssueFenceReceipt, StartCommand, EndCommand
<1>7. UNCHANGED closeVars => UNCHANGED vars
  BY DEF closeVars
<1> QED
  BY <1>1, <1>2, <1>3, <1>4, <1>5, <1>6, <1>7 DEF CloseNext, CancellationStep


\* CloseInv without what the group keeps of itself.
CloseFacts ==
    /\ CloseTypeOK
    /\ StartedInv
    /\ FenceInv
    /\ ReceiptInv
    /\ ReservationInv
    /\ SettledInv

LEMMA StartInv ==
    ASSUME CloseInv, IInv', NEW actor \in Subjects, NEW intent \in CloseIntentIds,
           NEW t \in Instants, Start(actor, intent, t)
    PROVE  CloseFacts'
<1> DEFINE new == [closeIntentId |-> intent, cutoff |-> t]
<1>1. /\ status = "Active" /\ status' = "Closing" /\ closing = Null /\ closing' # Null
      /\ closing'.closeIntentId = intent /\ closing'.cutoff = t
      /\ closing'.phase = "Fencing"
      /\ closing'.fenceReceipts = {} /\ closing'.unfenceReceipts = {}
  BY DEF Start, StartClosing, AssertActive, CloseInv, IInv, RestoreAccepts, CloseStateValid
<1>2. /\ intent \notin Intents
      /\ started' = started \cup {new}
      /\ UNCHANGED <<fence, fenceReceipts, unfenceReceipts, running, openWork, reservations>>
  BY DEF Start, contextVars
<1>3. CloseTypeOK'
  BY <1>2, InstantsAreNumbers DEF CloseInv, CloseTypeOK, IInv
<1>4. StartedInv'
  BY <1>1, <1>2 DEF CloseInv, StartedInv, IsCurrentIntent, WasFenced
<1>5. \A c \in Contexts : fence'[c] = Null
  BY <1>1, <1>2 DEF CloseInv, FenceInv, IsCurrentIntent
<1>6. FenceInv'
  BY <1>5 DEF FenceInv
<1>7. Intents \subseteq Intents'
  BY <1>2 DEF Intents
<1>8. ReceiptInv'
  BY <1>1, <1>2, <1>7 DEF CloseInv, ReceiptInv, ReservedIntents, WasFenced
<1>9. ReservationInv'
  BY <1>1, <1>2, <1>7 DEF CloseInv, ReservationInv, IsCurrentIntent
<1> QED
  BY <1>1, <1>3, <1>4, <1>6, <1>8, <1>9 DEF CloseFacts, SettledInv

LEMMA RecordFenceInv ==
    ASSUME CloseInv, IInv', NEW r \in fenceReceipts, RecordFence(r)
    PROVE  CloseFacts'
<1>1. /\ status = "Closing" /\ status' = "Closing" /\ closing # Null /\ closing' # Null
      /\ closing'.closeIntentId = closing.closeIntentId /\ closing'.cutoff = closing.cutoff
      /\ closing'.phase = closing.phase
      /\ closing'.fenceReceipts = closing.fenceReceipts \cup {r}
      /\ closing'.unfenceReceipts = closing.unfenceReceipts
  BY DEF RecordFence, RecordCloseFenceReceipt, RequireClosing, CloseInv, IInv, TypeOK, Closing,
         RestoreAccepts, CloseStateValid
<1>2. UNCHANGED <<started, fence, fenceReceipts, unfenceReceipts, running, openWork, reservations>>
  BY DEF RecordFence, contextVars
<1>3. CloseTypeOK'
  BY <1>2 DEF CloseInv, CloseTypeOK, IInv
<1>4. StartedInv' /\ FenceInv' /\ ReservationInv' /\ SettledInv'
  BY <1>1, <1>2
  DEF CloseInv, StartedInv, IsCurrentIntent, WasFenced, FenceInv, ReservationInv, SettledInv, Intents
<1>5. ReceiptInv'
  BY <1>1, <1>2 DEF CloseInv, ReceiptInv, ReservedIntents, WasFenced, Intents
<1> QED
  BY <1>3, <1>4, <1>5 DEF CloseFacts

LEMMA RecordUnfenceInv ==
    ASSUME CloseInv, IInv', NEW r \in unfenceReceipts, RecordUnfence(r)
    PROVE  CloseFacts'
<1>1. /\ status = "Closing" /\ status' = "Closing" /\ closing # Null /\ closing' # Null
      /\ closing'.closeIntentId = closing.closeIntentId /\ closing'.cutoff = closing.cutoff
      /\ closing'.phase = closing.phase
      /\ closing'.fenceReceipts = closing.fenceReceipts
      /\ closing'.unfenceReceipts = closing.unfenceReceipts \cup {r}
  BY DEF RecordUnfence, RecordCloseUnfenceReceipt, RequireClosing, CloseInv, IInv, TypeOK, Closing,
         RestoreAccepts, CloseStateValid
<1>2. UNCHANGED <<started, fence, fenceReceipts, unfenceReceipts, running, openWork, reservations>>
  BY DEF RecordUnfence, contextVars
<1>3. CloseTypeOK'
  BY <1>2 DEF CloseInv, CloseTypeOK, IInv
<1>4. StartedInv' /\ FenceInv' /\ ReservationInv' /\ SettledInv'
  BY <1>1, <1>2
  DEF CloseInv, StartedInv, IsCurrentIntent, WasFenced, FenceInv, ReservationInv, SettledInv, Intents
<1>5. ReceiptInv'
  BY <1>1, <1>2 DEF CloseInv, ReceiptInv, ReservedIntents, WasFenced, Intents
<1> QED
  BY <1>3, <1>4, <1>5 DEF CloseFacts

LEMMA ReserveCancellationInv ==
    ASSUME CloseInv, IInv', NEW actor \in Subjects, NEW intent \in CloseIntentIds,
           NEW r1 \in fenceReceipts, NEW r2 \in fenceReceipts,
           ReserveCancellation(actor, intent, {r1, r2})
    PROVE  CloseFacts'
<1> DEFINE new == [closeIntentId |-> intent, receipts |-> {r1, r2}]
<1>1. /\ status = "Closing" /\ status' = "Closing" /\ closing # Null /\ closing' # Null
      /\ closing'.closeIntentId = closing.closeIntentId /\ closing'.cutoff = closing.cutoff
      /\ closing.closeIntentId = intent
      /\ closing'.phase = "Canceling"
      /\ closing'.fenceReceipts = closing.fenceReceipts
      /\ closing'.unfenceReceipts = closing.unfenceReceipts
  BY DEF ReserveCancellation, ReserveClosingCancellation, RequireClosing, CloseInv, IInv, TypeOK,
         Closing, RestoreAccepts, CloseStateValid
<1>2. /\ UNCHANGED <<started, fence, fenceReceipts, unfenceReceipts, running, openWork>>
      /\ reservations' = reservations \cup {new}
      /\ r1.closeIntentId = intent /\ r2.closeIntentId = intent
  BY DEF ReserveCancellation, contextVars, ValidFenceReceipts
<1>3. ReservedIntents \subseteq ReservedIntents'
  BY <1>2 DEF ReservedIntents
<1>4. CloseTypeOK'
  BY <1>2 DEF CloseInv, CloseTypeOK, IInv
<1>5. StartedInv' /\ FenceInv' /\ SettledInv'
  BY <1>1, <1>2
  DEF CloseInv, StartedInv, IsCurrentIntent, WasFenced, FenceInv, SettledInv, Intents
<1>6. ReservationInv'
  BY <1>1, <1>2, ClosingIsStarted DEF CloseInv, ReservationInv, IsCurrentIntent, Intents
<1>7. ReceiptInv'
  BY <1>1, <1>2, <1>3 DEF CloseInv, ReceiptInv, WasFenced, Intents
<1> QED
  BY <1>4, <1>5, <1>6, <1>7 DEF CloseFacts

LEMMA ArchiveGroupInv ==
    ASSUME CloseInv, IInv', NEW actor \in Subjects, NEW intent \in CloseIntentIds,
           NEW t \in Instants, ArchiveGroup(actor, intent, t)
    PROVE  CloseFacts'
<1>1. /\ status' = "Archived" /\ closing # Null /\ closing' = Null
      /\ closing.closeIntentId = intent /\ closing.phase = "Fencing"
      /\ HasBothReceipts(closing.fenceReceipts)
      /\ \A r \in closing.fenceReceipts : r.eligible
  BY DEF ArchiveGroup, Archive, RequireClosing
<1>2. UNCHANGED <<started, fence, fenceReceipts, unfenceReceipts, running, openWork, reservations>>
  BY DEF ArchiveGroup, contextVars
<1>3. CloseTypeOK'
  BY <1>2 DEF CloseInv, CloseTypeOK, IInv
<1>4. intent \notin ReservedIntents
  BY <1>1 DEF CloseInv, ReservationInv, IsCurrentIntent, ReservedIntents
<1>5. ASSUME NEW c \in Contexts
      PROVE  \E r \in closing.fenceReceipts :
                 r \in fenceReceipts /\ r.context = c /\ r.closeIntentId = intent /\ r.eligible
  BY <1>1 DEF HasBothReceipts, ContextsOf, CloseInv, IInv, RestoreAccepts, ClosingValid,
              ReceiptMatchesClosing, ReceiptInv
<1>6. \A c \in Contexts :
          fence[c] # Null /\ fence[c].closeIntentId = intent /\ c \notin running /\ c \notin openWork
  BY <1>4, <1>5 DEF CloseInv, ReceiptInv
<1>7. SettledInv'
  BY <1>2, <1>4, <1>6 DEF SettledInv, ReservedIntents
<1>8. StartedInv'
  BY <1>1, <1>2, <1>5 DEF CloseInv, StartedInv, IsCurrentIntent, WasFenced
<1>9. FenceInv'
  BY <1>1, <1>2 DEF CloseInv, FenceInv
<1>10. ReservationInv' /\ ReceiptInv'
  BY <1>1, <1>2 DEF CloseInv, ReservationInv, IsCurrentIntent, ReceiptInv, ReservedIntents, WasFenced, Intents
<1> QED
  BY <1>3, <1>7, <1>8, <1>9, <1>10 DEF CloseFacts

LEMMA CompleteCancellationInv ==
    ASSUME CloseInv, IInv', NEW actor \in Subjects, NEW intent \in CloseIntentIds,
           CompleteCancellation(actor, intent)
    PROVE  CloseFacts'
<1>1. /\ status' = "Active" /\ closing # Null /\ closing' = Null
      /\ status = "Closing" /\ closing.closeIntentId = intent
      /\ HasBothReceipts(closing.unfenceReceipts)
  BY DEF CompleteCancellation, CompleteClosingCancellation, RequireClosing
<1>2. UNCHANGED <<started, fence, fenceReceipts, unfenceReceipts, running, openWork, reservations>>
  BY DEF CompleteCancellation, contextVars
<1>3. CloseTypeOK'
  BY <1>2 DEF CloseInv, CloseTypeOK, IInv
<1>4. ASSUME NEW c \in Contexts
      PROVE  \E r \in unfenceReceipts : r.context = c /\ r.closeIntentId = intent
  BY <1>1 DEF HasBothReceipts, ContextsOf, CloseInv, IInv, RestoreAccepts, ClosingValid,
              ReceiptMatchesClosing, ReceiptInv
<1>5. \A c \in Contexts : WasFenced(c, intent) /\ fence[c] = Null
  <2> TAKE c \in Contexts
  <2>1. PICK r \in unfenceReceipts : r.context = c /\ r.closeIntentId = intent
    BY <1>4
  <2>2. WasFenced(c, intent) /\ (fence[c] = Null \/ fence[c].closeIntentId # intent)
    BY <2>1 DEF CloseInv, ReceiptInv
  <2>3. fence[c] # Null => fence[c].closeIntentId = intent
    BY <1>1 DEF CloseInv, FenceInv, IsCurrentIntent
  <2> QED
    BY <2>2, <2>3
<1>6. StartedInv'
  BY <1>1, <1>2, <1>5 DEF CloseInv, StartedInv, IsCurrentIntent, WasFenced
<1>7. FenceInv' /\ SettledInv'
  BY <1>1, <1>2, <1>5 DEF FenceInv, SettledInv
<1>8. ReservationInv' /\ ReceiptInv'
  BY <1>1, <1>2 DEF CloseInv, ReservationInv, IsCurrentIntent, ReceiptInv, ReservedIntents, WasFenced, Intents
<1> QED
  BY <1>3, <1>6, <1>7, <1>8 DEF CloseFacts

\* What a step of the contexts keeps of the group.
LEMMA ContextStepKeeps ==
    ASSUME CloseInv, UNCHANGED <<vars, started>>
    PROVE  /\ TypeOK' /\ closing' = closing /\ status' = status
           /\ Intents' = Intents
           /\ \A i : IsCurrentIntent(i)' = IsCurrentIntent(i)
<1>1. TypeOK'
  BY NextType DEF CloseInv, IInv
<1> QED
  BY <1>1 DEF vars, Intents, IsCurrentIntent

LEMMA RemoveFenceInv ==
    ASSUME CloseInv, NEW v \in reservations, NEW receipt \in v.receipts, RemoveFence(v, receipt)
    PROVE  CloseFacts'
<1> DEFINE c == receipt.context
<1>1. /\ UNCHANGED <<vars, started, fenceReceipts, reservations, running, openWork>>
      /\ fence[c] # Null /\ fence[c].closeIntentId = receipt.closeIntentId
      /\ fence' = [fence EXCEPT ![c] = Null]
  BY DEF RemoveFence
<1>2. PICK t \in Instants : unfenceReceipts' = unfenceReceipts \cup
          {[groupId |-> receipt.groupId, context |-> c, closeIntentId |-> receipt.closeIntentId,
            cutoff |-> receipt.cutoff, fenceVersion |-> receipt.fenceVersion, completedAt |-> t]}
  BY DEF RemoveFence
<1>3. /\ receipt \in fenceReceipts /\ receipt \in FenceReceiptInputs
      /\ receipt.closeIntentId = v.closeIntentId /\ receipt.closeIntentId \in ReservedIntents
  BY DEF CloseInv, ReservationInv, ReceiptInv, ReservedIntents
<1>4. c \in Contexts
  BY <1>3 DEF FenceReceiptInputs
<1>5. /\ fence'[c] = Null
      /\ \A d \in Contexts \ {c} : fence'[d] = fence[d]
  BY <1>1, <1>4 DEF CloseInv, CloseTypeOK
<1>6. TypeOK' /\ closing' = closing /\ status' = status
      /\ Intents' = Intents /\ \A i : IsCurrentIntent(i)' = IsCurrentIntent(i)
  BY <1>1, ContextStepKeeps
<1>7. unfenceReceipts' \subseteq UnfenceReceiptInputs
  BY <1>2, <1>3 DEF CloseInv, ReceiptInv, FenceReceiptInputs, UnfenceReceiptInputs
<1>8. unfenceReceipts' \subseteq CloseUnfenceReceipt
  BY <1>7, InstantsAreNumbers DEF UnfenceReceiptInputs, CloseUnfenceReceipt
<1>9. fence' \in [Contexts -> [closeIntentId: CloseIntentIds, cutoff: Nat,
                               fenceVersion: 1 .. MaxFenceVersion] \cup {Null}]
  BY <1>1 DEF CloseInv, CloseTypeOK
<1>10. CloseTypeOK'
  BY <1>1, <1>6, <1>8, <1>9 DEF CloseInv, CloseTypeOK
<1>11. StartedInv'
  BY <1>1, <1>6 DEF CloseInv, StartedInv, WasFenced
<1>12. FenceInv'
  BY <1>1, <1>5, <1>6 DEF CloseInv, FenceInv
<1>13. ReservationInv'
  BY <1>1, <1>6 DEF CloseInv, ReservationInv
<1>14. SettledInv'
  BY <1>1, <1>3, <1>4, <1>6 DEF CloseInv, SettledInv
<1>15. ReservedIntents' = ReservedIntents
  BY <1>1 DEF ReservedIntents
<1>16. \A r \in fenceReceipts' :
           /\ r.closeIntentId \in Intents'
           /\ r.closeIntentId \notin ReservedIntents' =>
                  fence'[r.context] # Null /\ fence'[r.context].closeIntentId = r.closeIntentId
           /\ fence'[r.context] # Null /\ fence'[r.context].closeIntentId = r.closeIntentId =>
                  r.context \notin running' /\ (r.eligible => r.context \notin openWork')
  <2> TAKE r \in fenceReceipts'
  <2>1. r \in fenceReceipts /\ r.context \in Contexts
    BY <1>1 DEF CloseInv, ReceiptInv, FenceReceiptInputs
  <2> QED
    BY <2>1, <1>1, <1>3, <1>5, <1>6, <1>15 DEF CloseInv, ReceiptInv
<1>17. \A r \in unfenceReceipts' :
           /\ WasFenced(r.context, r.closeIntentId)'
           /\ r.closeIntentId \in ReservedIntents'
           /\ fence'[r.context] = Null \/ fence'[r.context].closeIntentId # r.closeIntentId
  <2> TAKE r \in unfenceReceipts'
  <2>1. CASE r \in unfenceReceipts
    <3>1. r.context \in Contexts
      BY <2>1 DEF CloseInv, ReceiptInv, UnfenceReceiptInputs
    <3> QED
      BY <2>1, <3>1, <1>1, <1>5, <1>15 DEF CloseInv, ReceiptInv, WasFenced
  <2>2. CASE r.context = c /\ r.closeIntentId = receipt.closeIntentId
    BY <2>2, <1>1, <1>3, <1>5, <1>15 DEF WasFenced
  <2> QED
    BY <1>2, <2>1, <2>2
<1>18. ReceiptInv'
  BY <1>1, <1>2, <1>6, <1>7, <1>16, <1>17 DEF CloseInv, ReceiptInv
<1> QED
  BY <1>10, <1>11, <1>12, <1>13, <1>14, <1>18 DEF CloseFacts

LEMMA InstallFenceInv ==
    ASSUME CloseInv, NEW c \in Contexts, NEW s \in started, InstallFence(c, s)
    PROVE  CloseFacts'
<1> DEFINE n == NextFenceVersion(c)
           new == [closeIntentId |-> s.closeIntentId, cutoff |-> s.cutoff, fenceVersion |-> n]
<1>1. /\ UNCHANGED <<vars, started, fenceReceipts, unfenceReceipts, reservations, running, openWork>>
      /\ fence[c] = Null /\ ~ WasFenced(c, s.closeIntentId)
      /\ n <= MaxFenceVersion
      /\ fence' = [fence EXCEPT ![c] = new]
  BY DEF InstallFence, WasFenced
<1>2. n \in 1 .. MaxFenceVersion
  <2>1. IsFiniteSet({r \in fenceReceipts : r.context = c})
    BY FS_Subset DEF CloseInv, ReceiptInv
  <2>2. Cardinality({r \in fenceReceipts : r.context = c}) \in Nat
    BY <2>1, FS_CardinalityType
  <2> QED
    BY <2>2, <1>1, ConstantsAssumption DEF NextFenceVersion
<1>3. s \in [closeIntentId: CloseIntentIds, cutoff: Nat]
  BY DEF CloseInv, CloseTypeOK
<1>4. new \in [closeIntentId: CloseIntentIds, cutoff: Nat, fenceVersion: 1 .. MaxFenceVersion]
  BY <1>2, <1>3
<1>5. TypeOK' /\ closing' = closing /\ status' = status
      /\ Intents' = Intents /\ \A i : IsCurrentIntent(i)' = IsCurrentIntent(i)
  BY <1>1, ContextStepKeeps
<1>6. CloseTypeOK'
  BY <1>1, <1>4, <1>5 DEF CloseInv, CloseTypeOK
<1>7. /\ fence'[c] = new
      /\ \A d \in Contexts \ {c} : fence'[d] = fence[d]
  BY <1>1 DEF CloseInv, CloseTypeOK
<1>8. IsCurrentIntent(s.closeIntentId)
  BY <1>1 DEF CloseInv, StartedInv
<1>9. s = [closeIntentId |-> s.closeIntentId, cutoff |-> s.cutoff]
  BY <1>3
<1>10. StartedInv' /\ ReservationInv'
  BY <1>1, <1>5 DEF CloseInv, StartedInv, WasFenced, ReservationInv
<1>11. FenceInv'
  BY <1>1, <1>5, <1>7, <1>8, <1>9 DEF CloseInv, FenceInv
<1>12. status # "Archived"
  BY <1>1 DEF CloseInv, SettledInv
<1>13. SettledInv'
  BY <1>5, <1>12 DEF SettledInv
<1>14. ReservedIntents' = ReservedIntents
  BY <1>1 DEF ReservedIntents
<1>15. \A r \in fenceReceipts' :
           /\ r.closeIntentId \in Intents'
           /\ r.closeIntentId \notin ReservedIntents' =>
                  fence'[r.context] # Null /\ fence'[r.context].closeIntentId = r.closeIntentId
           /\ fence'[r.context] # Null /\ fence'[r.context].closeIntentId = r.closeIntentId =>
                  r.context \notin running' /\ (r.eligible => r.context \notin openWork')
  <2> TAKE r \in fenceReceipts'
  <2>1. r \in fenceReceipts /\ r.context \in Contexts
    BY <1>1 DEF CloseInv, ReceiptInv, FenceReceiptInputs
  <2>2. CASE r.context = c
    BY <2>1, <2>2, <1>1, <1>5, <1>7, <1>14 DEF CloseInv, ReceiptInv, WasFenced
  <2>3. CASE r.context # c
    BY <2>1, <2>3, <1>1, <1>5, <1>7, <1>14 DEF CloseInv, ReceiptInv
  <2> QED
    BY <2>2, <2>3
<1>16. \A r \in unfenceReceipts' :
           /\ WasFenced(r.context, r.closeIntentId)'
           /\ r.closeIntentId \in ReservedIntents'
           /\ fence'[r.context] = Null \/ fence'[r.context].closeIntentId # r.closeIntentId
  <2> TAKE r \in unfenceReceipts'
  <2>1. r \in unfenceReceipts /\ r.context \in Contexts /\ WasFenced(r.context, r.closeIntentId)
    BY <1>1 DEF CloseInv, ReceiptInv, UnfenceReceiptInputs
  <2> QED
    BY <2>1, <1>1, <1>7, <1>14 DEF CloseInv, ReceiptInv, WasFenced
<1>17. ReceiptInv'
  BY <1>1, <1>5, <1>15, <1>16 DEF CloseInv, ReceiptInv
<1> QED
  BY <1>6, <1>10, <1>11, <1>13, <1>17 DEF CloseFacts

LEMMA IssueFenceReceiptInv ==
    ASSUME CloseInv, NEW c \in Contexts, NEW t \in Instants, IssueFenceReceipt(c, t)
    PROVE  CloseFacts'
<1> DEFINE new == [groupId |-> GroupId, context |-> c, closeIntentId |-> fence[c].closeIntentId,
                   cutoff |-> fence[c].cutoff, fenceVersion |-> fence[c].fenceVersion,
                   completedAt |-> t, eligible |-> c \notin openWork]
<1>1. /\ UNCHANGED <<vars, started, fence, unfenceReceipts, reservations, running, openWork>>
      /\ fence[c] # Null /\ c \notin running
      /\ fenceReceipts' = fenceReceipts \cup {new}
  BY DEF IssueFenceReceipt
<1>2. fence[c] \in [closeIntentId: CloseIntentIds, cutoff: Nat, fenceVersion: 1 .. MaxFenceVersion]
  BY <1>1 DEF CloseInv, CloseTypeOK
<1>3. fence[c].closeIntentId \in Intents /\ fence[c].cutoff \in Instants
  <2> DEFINE s == [closeIntentId |-> fence[c].closeIntentId, cutoff |-> fence[c].cutoff]
  <2>1. s \in started
    BY <1>1 DEF CloseInv, FenceInv
  <2>2. s.closeIntentId \in Intents
    BY <2>1 DEF Intents
  <2>3. s.cutoff \in Instants
    BY <2>1 DEF CloseInv, StartedInv
  <2> QED
    BY <2>2, <2>3
<1>4. new \in FenceReceiptInputs
  BY <1>2, <1>3, ConstantsAssumption DEF FenceReceiptInputs
<1>5. new \in CloseFenceReceipt
  BY <1>4, InstantsAreNumbers DEF FenceReceiptInputs, CloseFenceReceipt
<1>6. TypeOK' /\ closing' = closing /\ status' = status
      /\ Intents' = Intents /\ \A i : IsCurrentIntent(i)' = IsCurrentIntent(i)
  BY <1>1, ContextStepKeeps
<1>7. CloseTypeOK'
  BY <1>1, <1>5, <1>6 DEF CloseInv, CloseTypeOK
<1>8. \A d, i : WasFenced(d, i) => WasFenced(d, i)'
  BY <1>1 DEF WasFenced
<1>9. StartedInv' /\ FenceInv' /\ ReservationInv'
  BY <1>1, <1>6, <1>8 DEF CloseInv, StartedInv, FenceInv, ReservationInv
<1>10. ReservedIntents' = ReservedIntents
  BY <1>1 DEF ReservedIntents
<1>11. SettledInv'
  BY <1>1, <1>6, <1>10 DEF CloseInv, SettledInv
<1>12. IsFiniteSet(fenceReceipts')
  BY <1>1, FS_AddElement DEF CloseInv, ReceiptInv
<1>13. /\ fenceReceipts' \subseteq FenceReceiptInputs
       /\ closing' # Null => closing'.fenceReceipts \subseteq fenceReceipts'
  BY <1>1, <1>4, <1>6 DEF CloseInv, ReceiptInv
<1>14. \A r \in fenceReceipts' :
           /\ r.closeIntentId \in Intents
           /\ r.closeIntentId \notin ReservedIntents =>
                  fence[r.context] # Null /\ fence[r.context].closeIntentId = r.closeIntentId
           /\ fence[r.context] # Null /\ fence[r.context].closeIntentId = r.closeIntentId =>
                  r.context \notin running /\ (r.eligible => r.context \notin openWork)
  <2> TAKE r \in fenceReceipts'
  <2>1. CASE r = new
    BY <2>1, <1>1, <1>3
  <2>2. CASE r \in fenceReceipts
    BY <2>2 DEF CloseInv, ReceiptInv
  <2> QED
    BY <1>1, <2>1, <2>2
<1>15. ReceiptInv'
  BY <1>1, <1>6, <1>8, <1>10, <1>12, <1>13, <1>14 DEF CloseInv, ReceiptInv
<1> QED
  BY <1>7, <1>9, <1>11, <1>15 DEF CloseFacts

\* A context runs a command only while it is not fenced or since before it was.
LEMMA CommandInv ==
    ASSUME CloseInv, NEW c \in Contexts, StartCommand(c) \/ EndCommand(c)
    PROVE  CloseFacts'
<1>1. UNCHANGED <<vars, started, fence, fenceReceipts, unfenceReceipts, reservations>>
  BY DEF StartCommand, EndCommand
<1>2. /\ \A d \in Contexts \ {c} : /\ d \in running' <=> d \in running
                                   /\ d \in openWork' <=> d \in openWork
      /\ running' \subseteq Contexts /\ openWork' \subseteq Contexts
      /\ fence[c] = Null \/ c \in running
  BY DEF StartCommand, EndCommand, CloseInv, CloseTypeOK
<1>3. TypeOK' /\ closing' = closing /\ status' = status
      /\ Intents' = Intents /\ \A i : IsCurrentIntent(i)' = IsCurrentIntent(i)
  BY <1>1, ContextStepKeeps
<1>4. CloseTypeOK'
  BY <1>1, <1>2, <1>3 DEF CloseInv, CloseTypeOK
<1>5. ReservedIntents' = ReservedIntents /\ \A d, i : WasFenced(d, i)' = WasFenced(d, i)
  BY <1>1 DEF ReservedIntents, WasFenced
<1>6. StartedInv' /\ FenceInv' /\ ReservationInv'
  BY <1>1, <1>3, <1>5 DEF CloseInv, StartedInv, FenceInv, ReservationInv
<1>7. SettledInv'
  BY <1>1, <1>2, <1>3, <1>5 DEF CloseInv, SettledInv
<1>8. \A r \in fenceReceipts :
          fence[r.context] # Null /\ fence[r.context].closeIntentId = r.closeIntentId =>
              r.context \notin running' /\ (r.eligible => r.context \notin openWork')
  <2> TAKE r \in fenceReceipts
  <2>1. r.context \in Contexts
    BY DEF CloseInv, ReceiptInv, FenceReceiptInputs
  <2> QED
    BY <1>2, <2>1 DEF CloseInv, ReceiptInv
<1>9. ReceiptInv'
  BY <1>1, <1>3, <1>5, <1>8 DEF CloseInv, ReceiptInv
<1> QED
  BY <1>4, <1>6, <1>7, <1>9 DEF CloseFacts

LEMMA CloseNextInv == CloseInv /\ [CloseNext]_closeVars => CloseInv'
<1> SUFFICES ASSUME CloseInv, [CloseNext]_closeVars
             PROVE  CloseInv'
  OBVIOUS
<1>1. IInv'
  BY CloseStepIsGroupStep, NextInv DEF CloseInv
<1>2. CASE UNCHANGED closeVars
  <2>1. UNCHANGED vars
    BY <1>2 DEF closeVars
  <2>2. TypeOK' /\ closing' = closing /\ status' = status
      /\ Intents' = Intents /\ \A i : IsCurrentIntent(i)' = IsCurrentIntent(i)
    BY <1>2, <2>1, ContextStepKeeps DEF closeVars
  <2>3. ReservedIntents' = ReservedIntents /\ \A d, i : WasFenced(d, i)' = WasFenced(d, i)
    BY <1>2 DEF ReservedIntents, WasFenced, closeVars
  <2>4. CloseTypeOK' /\ StartedInv' /\ FenceInv' /\ ReservationInv' /\ SettledInv' /\ ReceiptInv'
    BY <1>2, <2>2, <2>3
    DEF closeVars, CloseInv, CloseTypeOK, StartedInv, FenceInv, ReservationInv, SettledInv, ReceiptInv
  <2> QED
    BY <1>1, <2>4 DEF CloseInv
<1>3. ASSUME CloseNext
      PROVE  CloseFacts'
  <2>1. ASSUME NEW actor \in Subjects, NEW intent \in CloseIntentIds,
               \/ \E t \in Instants : Start(actor, intent, t) \/ ArchiveGroup(actor, intent, t)
               \/ \E r1, r2 \in fenceReceipts : ReserveCancellation(actor, intent, {r1, r2})
        PROVE  CloseFacts'
    BY <1>1, <2>1, StartInv, ArchiveGroupInv, ReserveCancellationInv
  <2>2. ASSUME NEW r \in fenceReceipts, RecordFence(r)
        PROVE  CloseFacts'
    BY <1>1, <2>2, RecordFenceInv
  <2>3. CancellationStep => CloseFacts'
    BY <1>1, RemoveFenceInv, RecordUnfenceInv, CompleteCancellationInv DEF CancellationStep
  <2>4. ASSUME NEW c \in Contexts,
               \/ \E s \in started : InstallFence(c, s)
               \/ \E t \in Instants : IssueFenceReceipt(c, t)
               \/ StartCommand(c)
               \/ EndCommand(c)
        PROVE  CloseFacts'
    BY <2>4, InstallFenceInv, IssueFenceReceiptInv, CommandInv
  <2> QED
    BY <1>3, <2>1, <2>2, <2>3, <2>4 DEF CloseNext
<1> QED
  BY <1>1, <1>2, <1>3 DEF CloseInv, CloseFacts

LEMMA CloseInvariance == CloseSpec => []CloseInv
  BY CloseInitInv, CloseNextInv, PTL DEF CloseSpec

\* However late, repeated or reordered the requests of coordinators and the receipts
\* of the contexts are: a group is archived only behind both fences with nothing left
\* to settle, no context refuses the commands of a group in use, and no fence falls
\* before its group is committed to cancelling.
THEOREM FencesAlwaysFollowTheGroup == CloseSpec => []FencesFollowTheGroup
<1>1. ASSUME CloseInv
      PROVE  FencesFollowTheGroup
  <2>1. ArchivedIsSettled
    BY <1>1 DEF CloseInv, SettledInv, ArchivedIsSettled, CloseTypeOK
  <2>2. ActiveIsUnfenced
    BY <1>1 DEF CloseInv, FenceInv, IsCurrentIntent, ActiveIsUnfenced, IInv, RestoreAccepts,
                CloseStateValid
  <2>3. UnfencedOnlyAfterReservation
    BY <1>1 DEF CloseInv, ReceiptInv, ReservationInv, ReservedIntents, IsCurrentIntent,
                UnfencedOnlyAfterReservation
  <2> QED
    BY <1>1, <2>1, <2>2, <2>3 DEF FencesFollowTheGroup, CloseInv
<1> QED
  BY <1>1, CloseInvariance, PTL

\* For the group alone, being closed together with its contexts is nothing but some of
\* the commands it accepts anyway: all that holds of the aggregate holds here too.
THEOREM CloseImplementsGroup == CloseSpec => Spec
<1>1. CloseInit => Init
  BY DEF CloseInit
<1>2. CloseInv /\ [CloseNext]_closeVars => [Next]_vars
  BY CloseStepIsGroupStep
<1> QED
  BY <1>1, <1>2, CloseInvariance, PTL DEF CloseSpec, Spec
=============================================================================
