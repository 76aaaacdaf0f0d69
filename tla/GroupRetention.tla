--------------------------- MODULE GroupRetention ---------------------------
(***************************************************************************)
(* The deletion of a group whose retention is over, and the registry of    *)
(* close intents (apps/api/src/group-management: infrastructure/postgres/  *)
(* group-management-retention-adapter.ts and application/use-cases/        *)
(* delete-group-management-data-for-retention.ts).                         *)
(*                                                                         *)
(* The registry holds one row per close intent: live while it names its    *)
(* group, retired once the group is deleted, until a purge removes it a    *)
(* year later; an id can be registered again only then.  Deletions and     *)
(* purges run in transactions of several statements: what a transaction    *)
(* has written is in its job until it commits, and a step that needs a row *)
(* another transaction has locked waits.  The other commands of a group    *)
(* (group-commit-kernel.ts) commit in one step, when its row is free.      *)
(***************************************************************************)
EXTENDS Integers, FiniteSets

CONSTANTS
    Groups,
    CloseIntents,
    Operations,         \* operation ids of deletions
    Versions,           \* intent versions
    Receipts,           \* canonical receipts
    Requests,           \* what the caller of a deletion may ask
    Workers,            \* transactions that may be open at once
    Year,               \* a calendar year in Tokyo (TokyoCalendar)
    MaxTime,            \* bound of the clock
    Forged,             \* an evidence this module's verification did not issue
    NoGroup, NoRow, NoReceipt, NoRequest, NoAnswer

Binding == [operationId: Operations, intentVersion: Versions]
ReceiptRecord ==
    [operationId: Operations, intentVersion: Versions, canonicalReceipt: Receipts]
Request ==
    [groupId: Groups, closeIntentId: CloseIntents,
     evidence: Binding \cup {Forged}, receipt: ReceiptRecord]

NotYet == -1
RegistryRow == [groupId: Groups \cup {NoGroup}, retainUntil: Nat \cup {NotYet}]

(* A canonical receipt is about one group (ADR 55): two requests with the  *)
(* same receipt are about the same group.  An operation id, in contrast,   *)
(* may be used twice.                                                      *)
ASSUME RequestsAssumption ==
    /\ Requests \subseteq Request
    /\ \A r, s \in Requests :
          r.receipt = s.receipt => r.groupId = s.groupId

ASSUME BoundsAssumption ==
    /\ Year \in Nat \ {0}
    /\ MaxTime \in Nat
    /\ Versions \subseteq Nat \ {0}

ASSUME NullsAssumption ==
    /\ Forged \notin Binding
    /\ NoGroup \notin Groups
    /\ NoRow \notin RegistryRow
    /\ NoReceipt \notin ReceiptRecord
    /\ NoRequest \notin Requests

VARIABLES
    now,
    group,      \* the life of each group
    registry,   \* group_close_intent_registry
    receipts,   \* group_management_deletion_receipt_record
    jobs,       \* the transaction of each worker
    answer,     \* what the last step answered to a caller, if it did
    history     \* what happened to each close intent: a history variable

dbVars == <<group, registry, receipts>>
vars == <<now, dbVars, jobs, answer, history>>

Live(g) == [groupId |-> g, retainUntil |-> NotYet]
Retired(until) == [groupId |-> NoGroup, retainUntil |-> until]
IsLive(row) == row # NoRow /\ row.groupId # NoGroup
IsRetired(row) == row # NoRow /\ row.groupId = NoGroup

(* Where a transaction is.  From "group" on it holds the lock of its       *)
(* registry row, from "write" on the lock of its group row, at "commit"    *)
(* its receipt is inserted; at "purged" it has deleted rows of the         *)
(* registry.                                                               *)
DeletionSteps == {"receipt", "registry", "group", "write", "store", "commit"}
PurgeSteps == {"purge", "purged"}
Idle == [at |-> "idle", request |-> NoRequest, txNow |-> 0, rows |-> {}]

Locks(w, i) ==
    \/ /\ jobs[w].at \in {"group", "write", "store", "commit"}
       /\ jobs[w].request.closeIntentId = i
    \/ jobs[w].at = "purged" /\ i \in jobs[w].rows
LocksGroup(w, g) ==
    jobs[w].at \in {"write", "store", "commit"} /\ jobs[w].request.groupId = g
RowIsFree(w, i) == \A v \in Workers \ {w} : ~Locks(v, i)
GroupIsFree(g) == \A v \in Workers : ~LocksGroup(v, g)

Init ==
    /\ now = 0
    /\ group = [g \in Groups |-> "Active"]
    /\ registry = [i \in CloseIntents |-> NoRow]
    /\ receipts = [o \in Operations |-> NoReceipt]
    /\ jobs = [w \in Workers |-> Idle]
    /\ answer = NoAnswer
    /\ history = [i \in CloseIntents |-> [used |-> FALSE, deletedAt |-> NotYet]]

-----------------------------------------------------------------------------
(* The group's own commands                                                *)

(* A closing starts: its intent is registered, unless the registry has it. *)
StartClosing(g, i) ==
    /\ group[g] = "Active" /\ GroupIsFree(g)
    /\ registry[i] = NoRow
    /\ group' = [group EXCEPT ![g] = "Closing"]
    /\ registry' = [registry EXCEPT ![i] = Live(g)]
    /\ history' = [history EXCEPT ![i] = [used |-> TRUE, deletedAt |-> NotYet]]
    /\ answer' = NoAnswer
    /\ UNCHANGED <<now, receipts, jobs>>

(* A closing is cancelled or ends; the registry keeps its row either way.  *)
EndClosing(g) ==
    /\ group[g] = "Closing" /\ GroupIsFree(g)
    /\ \E end \in {"Active", "Archived"} : group' = [group EXCEPT ![g] = end]
    /\ answer' = NoAnswer
    /\ UNCHANGED <<now, registry, receipts, jobs, history>>

-----------------------------------------------------------------------------
(* The deletion                                                            *)

Goto(w, at) ==
    jobs' = [jobs EXCEPT ![w].at = at] /\ answer' = NoAnswer
Answer(w, kind) ==
    /\ answer' = [kind |-> kind, request |-> jobs[w].request]
    /\ jobs' = [jobs EXCEPT ![w] = Idle]

IsBoundByEvidence(r) ==
    /\ r.evidence # Forged
    /\ r.evidence.operationId = r.receipt.operationId
    /\ r.evidence.intentVersion = r.receipt.intentVersion

(* The use case checks the evidence and the receipt, and opens the         *)
(* transaction.                                                            *)
Delete(w, r) ==
    /\ jobs[w].at = "idle"
    /\ IF IsBoundByEvidence(r)
       THEN /\ jobs' = [jobs EXCEPT ![w] = [Idle EXCEPT !.at = "receipt", !.request = r]]
            /\ answer' = NoAnswer
       ELSE /\ answer' = [kind |-> IF r.evidence = Forged THEN "InvalidEvidence"
                                  ELSE "BindingMismatch",
                          request |-> r]
            /\ UNCHANGED jobs
    /\ UNCHANGED <<now, dbVars, history>>

(* What a stored receipt answers to a repeated request.                    *)
\* Mutant: only the versions are compared.
MutReplayOf(stored, receipt) ==
    IF stored.intentVersion # receipt.intentVersion THEN "BindingMismatch"
    ELSE "AlreadyDeleted"
ReplayOf(stored, receipt) ==
    IF stored.intentVersion > receipt.intentVersion THEN "StaleEvidence"
    ELSE IF stored # receipt THEN "BindingMismatch"
    ELSE "AlreadyDeleted"

(* A stored receipt of the operation answers; otherwise deletedAt is the   *)
(* clock of now, before any lock.                                          *)
ReadReceipt(w) ==
    LET r == jobs[w].request
        stored == receipts[r.receipt.operationId]
    IN  /\ jobs[w].at = "receipt"
        /\ IF stored # NoReceipt
           THEN Answer(w, ReplayOf(stored, r.receipt))
           ELSE /\ jobs' = [jobs EXCEPT ![w].at = "registry", ![w].txNow = now]
                /\ answer' = NoAnswer
        /\ UNCHANGED <<now, dbVars, history>>

RegistryRefusal(row) ==
    IF row = NoRow THEN "RegistryNotFound"
    ELSE IF IsRetired(row) THEN "RegistryNotLive"
    ELSE "RegistryBindingMismatch"

LockRegistry(w) ==
    LET r == jobs[w].request
        row == registry[r.closeIntentId]
    IN  /\ jobs[w].at = "registry"
        /\ RowIsFree(w, r.closeIntentId)
        /\ IF IsLive(row) /\ row.groupId = r.groupId
           THEN Goto(w, "group")
           ELSE Answer(w, RegistryRefusal(row))
        /\ UNCHANGED <<now, dbVars, history>>

LockGroup(w) ==
    LET g == jobs[w].request.groupId
    IN  /\ jobs[w].at = "group"
        /\ GroupIsFree(g)
        /\ IF group[g] # "Deleted" THEN Goto(w, "write")
           ELSE Answer(w, "GroupNotFound")
        /\ UNCHANGED <<now, dbVars, history>>

(* The registry row is retired and the group deleted.  The foreign key     *)
(* restricts the deletion while another row of the registry names it.      *)
\* Mutant: the foreign key does not restrict the deletion.
MutRetireAndDelete(w) ==
    /\ jobs[w].at = "write"
    /\ Goto(w, "store")
    /\ UNCHANGED <<now, dbVars, history>>
RetireAndDelete(w) ==
    LET r == jobs[w].request
        others == {i \in CloseIntents \ {r.closeIntentId} :
                      IsLive(registry[i]) /\ registry[i].groupId = r.groupId}
    IN  /\ jobs[w].at = "write"
        /\ IF others = {} THEN Goto(w, "store") ELSE Answer(w, "Unavailable")
        /\ UNCHANGED <<now, dbVars, history>>

StoreReceipt(w) ==
    LET o == jobs[w].request.receipt.operationId
    IN  /\ jobs[w].at = "store"
        /\ \A v \in Workers : jobs[v].at = "commit" => jobs[v].request.receipt.operationId # o
        /\ IF receipts[o] = NoReceipt THEN Goto(w, "commit") ELSE Answer(w, "Unavailable")
        /\ UNCHANGED <<now, dbVars, history>>

Write(r, deletedAt) ==
    /\ registry' = [registry EXCEPT ![r.closeIntentId] = Retired(deletedAt + Year)]
    /\ group' = [group EXCEPT ![r.groupId] = "Deleted"]
    /\ receipts' = [receipts EXCEPT ![r.receipt.operationId] = r.receipt]
    /\ history' = [history EXCEPT ![r.closeIntentId].deletedAt = deletedAt]

(* The commit; its answer may be lost on the way.                          *)
Commit(w, kind) ==
    /\ jobs[w].at = "commit"
    /\ Write(jobs[w].request, jobs[w].txNow)
    /\ Answer(w, kind)
    /\ UNCHANGED now

(* The receipt of an operation is read back, outside of any transaction.   *)
FindReceipt(w, r) ==
    LET stored == receipts[r.receipt.operationId]
    IN  /\ jobs[w].at = "idle"
        /\ answer' =
              [kind |-> IF stored = NoReceipt THEN "NotFound"
                        ELSE IF stored.intentVersion > r.receipt.intentVersion
                        THEN "StaleEvidence"
                        ELSE IF stored.intentVersion # r.receipt.intentVersion
                        THEN "BindingMismatch"
                        ELSE "Found",
               request |-> r]
        /\ UNCHANGED <<now, dbVars, jobs, history>>

-----------------------------------------------------------------------------
(* The purge of the registry                                               *)

BeginPurge(w) ==
    /\ jobs[w].at = "idle"
    /\ jobs' = [jobs EXCEPT ![w] = [Idle EXCEPT !.at = "purge", !.txNow = now]]
    /\ answer' = NoAnswer
    /\ UNCHANGED <<now, dbVars, history>>

\* Mutant: every retired row is purged.
MutExpired(txNow) == {i \in CloseIntents : IsRetired(registry[i])}
Expired(txNow) ==
    {i \in CloseIntents : IsRetired(registry[i]) /\ registry[i].retainUntil <= txNow}

DeleteExpired(w) ==
    LET rows == Expired(jobs[w].txNow)
    IN  /\ jobs[w].at = "purge"
        /\ \A i \in rows : RowIsFree(w, i)
        /\ jobs' = [jobs EXCEPT ![w].at = "purged", ![w].rows = rows]
        /\ answer' = NoAnswer
        /\ UNCHANGED <<now, dbVars, history>>

CommitPurge(w, kind) ==
    /\ jobs[w].at = "purged"
    /\ registry' = [i \in CloseIntents |-> IF i \in jobs[w].rows THEN NoRow ELSE registry[i]]
    /\ Answer(w, kind)
    /\ UNCHANGED <<now, group, receipts, history>>

-----------------------------------------------------------------------------
(* A statement fails or the process stops: the transaction is rolled back. *)
Fail(w) ==
    /\ jobs[w].at # "idle"
    /\ Answer(w, "Unavailable")
    /\ UNCHANGED <<now, dbVars, history>>

Tick ==
    /\ now < MaxTime
    /\ now' = now + 1
    /\ answer' = NoAnswer
    /\ UNCHANGED <<dbVars, jobs, history>>

(* One statement of an open transaction, without a fault.                  *)
Step(w) ==
    \/ ReadReceipt(w)
    \/ LockRegistry(w)
    \/ LockGroup(w)
    \/ RetireAndDelete(w)
    \/ StoreReceipt(w)
    \/ Commit(w, "Deleted")
    \/ DeleteExpired(w)
    \/ CommitPurge(w, "Purged")

Fault(w) ==
    \/ Fail(w)
    \/ Commit(w, "Unavailable")
    \/ CommitPurge(w, "Unavailable")

Start(w) ==
    \/ \E r \in Requests : Delete(w, r)
    \/ \E r \in Requests : FindReceipt(w, r)
    \/ BeginPurge(w)

Lifecycle ==
    \/ \E g \in Groups, i \in CloseIntents : StartClosing(g, i)
    \/ \E g \in Groups : EndClosing(g)

Next ==
    \/ Lifecycle
    \/ \E w \in Workers : Start(w) \/ Step(w) \/ Fault(w)
    \/ Tick

Spec == Init /\ [][Next]_vars

-----------------------------------------------------------------------------
Job ==
    [at: {"idle"} \cup DeletionSteps \cup PurgeSteps,
     request: Requests \cup {NoRequest}, txNow: Nat, rows: SUBSET CloseIntents]
AnswerKinds ==
    {"Deleted", "AlreadyDeleted", "InvalidEvidence", "BindingMismatch",
     "StaleEvidence", "RegistryNotFound", "RegistryNotLive",
     "RegistryBindingMismatch", "GroupNotFound", "NotFound", "Found", "Purged",
     "Unavailable"}

(* Every variable has its type, and a transaction of a deletion has the    *)
(* request it serves.                                                      *)
RetentionTypeOK ==
    /\ now \in Nat
    /\ group \in [Groups -> {"Active", "Closing", "Archived", "Deleted"}]
    /\ registry \in [CloseIntents -> RegistryRow \cup {NoRow}]
    /\ \A i \in CloseIntents :
          registry[i] # NoRow =>
             (registry[i].groupId = NoGroup <=> registry[i].retainUntil # NotYet)
    /\ receipts \in [Operations -> ReceiptRecord \cup {NoReceipt}]
    /\ jobs \in [Workers -> Job]
    /\ \A w \in Workers : jobs[w].at \in DeletionSteps => jobs[w].request \in Requests
    /\ answer \in {NoAnswer} \cup [kind: AnswerKinds, request: Requests \cup {NoRequest}]
    /\ history \in [CloseIntents -> [used: BOOLEAN, deletedAt: Nat \cup {NotYet}]]

(* What the transaction of a deletion has read under its locks still holds *)
(* when it writes: its registry row is live and names its group, and the   *)
(* group is there, however the commands of the group, the purges and the   *)
(* other deletions interleave.  The errors "lost its live row" and "lost   *)
(* its locked aggregate row" of the adapter cannot happen.                 *)
LockedRowsStand ==
    \A w \in Workers :
        /\ jobs[w].at \in {"group", "write", "store", "commit"} =>
              registry[jobs[w].request.closeIntentId] = Live(jobs[w].request.groupId)
        /\ jobs[w].at \in {"write", "store", "commit"} =>
              group[jobs[w].request.groupId] # "Deleted"

(* The registry's retirement, the group's removal and the receipt are      *)
(* committed together or not at all: a group is gone exactly when one      *)
(* operation has its receipt, and no live row names a group that is gone.  *)
DeletionsOf(g) ==
    {o \in Operations :
        \E r \in Requests : r.groupId = g /\ r.receipt = receipts[o]}
GoneWithReceipt ==
    \A g \in Groups :
        /\ group[g] = "Deleted" => Cardinality(DeletionsOf(g)) = 1
        /\ group[g] # "Deleted" => DeletionsOf(g) = {}
        /\ group[g] = "Deleted" => \A i \in CloseIntents : registry[i] # Live(g)

(* A group is deleted only on evidence that was issued for the operation   *)
(* and the version of its receipt.                                         *)
DeletedOnEvidence ==
    \A o \in Operations : receipts[o] # NoReceipt =>
        \E r \in Requests :
            /\ r.receipt = receipts[o]
            /\ r.evidence = [operationId |-> o, intentVersion |-> receipts[o].intentVersion]

(* A deletion is committed with its receipt or not at all, on evidence,    *)
(* and what it has read under its locks holds until then                   *)
(* (deleteGroupManagementDataForRetention of the adapter).                 *)
DeletedTogether ==
    RetentionTypeOK /\ LockedRowsStand /\ GoneWithReceipt /\ DeletedOnEvidence

(* An answer that a deletion is done is true when it is given, whether it  *)
(* is the first answer, a repeated one or a receipt read back: the receipt *)
(* answered is the one stored, and the group of the request is gone.       *)
AnswersHold ==
    answer # NoAnswer =>
        LET r == answer.request IN
        /\ answer.kind \in {"Deleted", "AlreadyDeleted"} =>
              receipts[r.receipt.operationId] = r.receipt /\ group[r.groupId] = "Deleted"
        /\ answer.kind = "Found" =>
              /\ receipts[r.receipt.operationId].intentVersion = r.receipt.intentVersion
              /\ \E s \in Requests : /\ s.receipt = receipts[r.receipt.operationId]
                                     /\ group[s.groupId] = "Deleted"

(* And it stays true: no later deletion replaces the receipt of an         *)
(* operation, whatever its version, and no group comes back.               *)
DeletionStands ==
    /\ \A o \in Operations : receipts[o] # NoReceipt => receipts'[o] = receipts[o]
    /\ \A g \in Groups : group[g] = "Deleted" => group'[g] = "Deleted"
DeletionIsFinal == [][DeletionStands]_vars

(* An id of a close intent names at most one closing from its registration *)
(* to a year after the deletion of its group: it is not registered again   *)
(* while its group stands, nor in the year that follows, whatever purges   *)
(* run meanwhile.                                                          *)
RegisteredInTime ==
    \A i \in CloseIntents :
        (registry[i] = NoRow /\ registry'[i] # NoRow /\ history[i].used) =>
            history[i].deletedAt # NotYet /\ now >= history[i].deletedAt + Year
NoEarlyReuse == [][RegisteredInTime]_vars
=============================================================================
