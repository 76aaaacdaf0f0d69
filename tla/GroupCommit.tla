---------------------------- MODULE GroupCommit ----------------------------
(***************************************************************************)
(* A command of the group-management context on its way to PostgreSQL:     *)
(* GroupCommandService (replay lookup, load, domain operation, commit,     *)
(* recovery), PostgresGroupRepository.commit (the transaction and its      *)
(* unknown COMMIT), PostgresGroupCommitKernel (locator key state, replay,  *)
(* locator) and PostgresGroupStateWriter (row lock, compare-and-swap).     *)
(*                                                                         *)
(* Several callers run at once, on nodes whose key provider may be older   *)
(* or newer than the locator key state in the database; connections break, *)
(* processes stop, and a COMMIT whose reply is lost may be applied later,  *)
(* after its caller gave up and sent the command again.                    *)
(*                                                                         *)
(* The aggregate itself is abstracted to its version: whether the domain   *)
(* refuses a command, or finds nothing to change, is a free choice here    *)
(* and is what module Group is about.                                      *)
(***************************************************************************)
EXTENDS Integers, FiniteSets

CONSTANTS
    Clients,        \* concurrent callers, each on a node of its own
    OperationIds,   \* <actor, operation id>
    GroupIds,
    MaxVersion,     \* bound: no command expects a version above it
    MaxKey,         \* bound on the locator key versions 1 .. MaxKey
    MaxCalls,       \* bound on the calls of each client
    Null

ASSUME ConstantsAssumption ==
    /\ MaxVersion \in Nat \ {0}
    /\ MaxKey \in Nat \ {0}
    /\ MaxCalls \in Nat

VARIABLES
    version,        \* group_aggregate_record: committed version, 0 if no row
    locators,       \* group_operation_locator_v2 joined with its result record
    keyState,       \* group_operation_locator_key_state, 0 for NULL
    nodeKey,        \* the current key of the provider of each client's node
    pc,
    request,        \* the command each client is running
    tx,             \* the open transaction of each client, or Null
    inDoubt,        \* transactions whose COMMIT was sent and not answered
    calls,
    replies         \* successes reported to callers (history variable)

storeVars == <<version, locators, keyState>>
callVars == <<pc, request, tx, inDoubt>>
commitVars == <<storeVars, nodeKey, callVars, calls, replies>>

-----------------------------------------------------------------------------
Keys == 1 .. MaxKey
GroupVersions == 0 .. MaxVersion + 1

\* The fingerprint of a command: its group and the version it expects.
\* CreateGroup has neither: the group id is generated inside the call.
Commands ==
    [kind: {"Update"}, group: GroupIds, expected: 1 .. MaxVersion]
        \cup [kind: {"CreateGroup"}, group: {Null}, expected: {0}]

CommandRequests == [operation: OperationIds, command: Commands]

\* The writes and the locks of a transaction.  It holds the key-state row in
\* share mode from its start; row and locator say which other rows it has
\* locked, changed whether version is a new version of the group.
Transactions ==
    [operation: OperationIds, command: Commands, group: GroupIds, key: 0 .. MaxKey,
     version: GroupVersions, changed: BOOLEAN, row: BOOLEAN, locator: BOOLEAN]

Locators ==
    [operation: OperationIds, key: Keys, command: Commands, group: GroupIds,
     base: GroupVersions, version: GroupVersions]

\* What a caller is told of a stored operation.
Results == [group: GroupIds, command: Commands, base: GroupVersions, version: GroupVersions]

ASSUME NullAssumption ==
    /\ Null \notin GroupIds
    /\ Null \notin CommandRequests
    /\ Null \notin Transactions
    /\ Null \notin Results

InTransaction == {"stage", "persist", "insertLocator", "commit"}
PCs == {"idle", "findReplay", "load", "begin", "resolveRace", "recover"}
           \cup InTransaction

TypeOK ==
    /\ version \in [GroupIds -> GroupVersions]
    /\ locators \subseteq Locators
    /\ keyState \in 0 .. MaxKey
    /\ nodeKey \in [Clients -> Keys]
    /\ pc \in [Clients -> PCs]
    /\ request \in [Clients -> CommandRequests \cup {Null}]
    /\ tx \in [Clients -> Transactions \cup {Null}]
    /\ inDoubt \subseteq Transactions
    /\ calls \in [Clients -> 0 .. MaxCalls]
    /\ replies \subseteq [operation: OperationIds, command: Commands, result: Results]

CommitInit ==
    /\ version = [g \in GroupIds |-> 0]
    /\ locators = {}
    /\ keyState = 0
    /\ nodeKey = [c \in Clients |-> 1]
    /\ pc = [c \in Clients |-> "idle"]
    /\ request = [c \in Clients |-> Null]
    /\ tx = [c \in Clients |-> Null]
    /\ inDoubt = {}
    /\ calls = [c \in Clients |-> 0]
    /\ replies = {}

\* The transactions other than c's own that hold locks.
OtherTransactions(c) ==
    {tx[d] : d \in {d \in Clients \ {c} : tx[d] # Null}} \cup inDoubt

\* The rows findStoredOperation sees on c's node: committed ones, under one of
\* the keys its provider still has, which are those up to the current one.
Visible(c) ==
    {l \in locators : /\ l.operation = request[c].operation
                      /\ l.key <= nodeKey[c]}

ResultOf(l) ==
    [group |-> l.group, command |-> l.command, base |-> l.base, version |-> l.version]

\* The call of c ends; an error tells the caller nothing about the effect.
Finish(c) ==
    /\ pc' = [pc EXCEPT ![c] = "idle"]
    /\ request' = [request EXCEPT ![c] = Null]

\* The caller of c is told that the command it sent succeeded, with this result.
Report(c, result) ==
    replies' = replies \cup {[operation |-> request[c].operation,
                              command |-> request[c].command, result |-> result]}

\* Mutant: the stored fingerprint is not compared.
OfSameOperation(c, l) == l.operation = request[c].operation

HasFingerprintOf(c, l) == l.command = request[c].command

\* findOperation and the fingerprint comparison, as the service and the
\* repository share them: exactly one row whose fingerprint is the command's is
\* the answer; one of another command is OPERATION_MISMATCH; two are UNAVAILABLE.
AnswerFrom(c, rows) ==
    /\ rows # {}
    /\ Finish(c)
    /\ IF \E l \in rows : rows = {l} /\ HasFingerprintOf(c, l)
         THEN \E l \in rows : Report(c, ResultOf(l))
         ELSE UNCHANGED replies

GoTo(c, label) == pc' = [pc EXCEPT ![c] = label]

-----------------------------------------------------------------------------
(* GroupCommandService *)

\* A caller sends a command, for the first time or again.
Call(c, r) ==
    /\ pc[c] = "idle"
    /\ calls[c] < MaxCalls
    /\ calls' = [calls EXCEPT ![c] = @ + 1]
    /\ request' = [request EXCEPT ![c] = r]
    /\ GoTo(c, "findReplay")
    /\ UNCHANGED <<storeVars, nodeKey, tx, inDoubt, replies>>

\* findReplay, before anything else is read.  A failed read ends the call like
\* Crash does.
FindReplay(c) ==
    /\ pc[c] = "findReplay"
    /\ \/ AnswerFrom(c, Visible(c))
       \/ /\ Visible(c) = {}
          /\ GoTo(c, IF request[c].command.kind = "CreateGroup" THEN "begin" ELSE "load")
          /\ UNCHANGED <<request, replies>>
    /\ UNCHANGED <<storeVars, nodeKey, tx, inDoubt, calls>>

\* loadExpectedVersion, and the domain operation on the loaded group: not found,
\* another version, or refused by the aggregate end the call.
Load(c) ==
    LET cmd == request[c].command
    IN  /\ pc[c] = "load"
        /\ \/ Finish(c)
           \/ /\ version[cmd.group] = cmd.expected
              /\ GoTo(c, "begin")
              /\ UNCHANGED request
        /\ UNCHANGED <<storeVars, nodeKey, tx, inDoubt, calls, replies>>

-----------------------------------------------------------------------------
(* PostgresGroupRepository.commit and the kernel *)

\* BEGIN and prepare: the key state is read and held FOR SHARE.  A create has
\* drawn its group id; a change says whether the aggregate changed.
Begin(c) ==
    LET cmd == request[c].command
    IN  /\ pc[c] = "begin"
        /\ \E g \in GroupIds, changed \in BOOLEAN :
               /\ cmd.kind = "Update" => g = cmd.group
               /\ cmd.kind = "CreateGroup" => changed
               /\ tx' = [tx EXCEPT ![c] =
                      [operation |-> request[c].operation, command |-> cmd,
                       group |-> g, key |-> keyState,
                       version |-> cmd.expected + (IF changed THEN 1 ELSE 0),
                       changed |-> changed, row |-> FALSE, locator |-> FALSE]]
        /\ GoTo(c, "stage")
        /\ UNCHANGED <<storeVars, nodeKey, request, inDoubt, calls, replies>>

\* ROLLBACK, COMMIT, or the loss of the connection: c holds no locks any more.
EndTransaction(c) == tx' = [tx EXCEPT ![c] = Null]

HoldsCurrentKey(c) == tx[c].key # 0 /\ tx[c].key = nodeKey[c]

\* stage, up to the replay lookup: refused unless the provider's current key is
\* the one held; a stored result under any key the node knows is the answer.
Stage(c) ==
    /\ pc[c] = "stage"
    /\ IF ~ HoldsCurrentKey(c)
         THEN EndTransaction(c) /\ GoTo(c, "recover") /\ UNCHANGED <<request, replies>>
         ELSE \/ AnswerFrom(c, Visible(c)) /\ EndTransaction(c)
              \/ /\ Visible(c) = {}
                 /\ GoTo(c, "persist")
                 /\ UNCHANGED <<request, tx, replies>>
    /\ UNCHANGED <<storeVars, nodeKey, inDoubt, calls>>

\* Mutant: a transaction whose caller is gone holds no row.
RowIsFreeOfCallers(c) ==
    \A d \in Clients \ {c} :
        tx[d] # Null => ~ (tx[d].row /\ tx[d].group = tx[c].group)

GroupRowIsFree(c) == \A t \in OtherTransactions(c) : ~ (t.row /\ t.group = tx[c].group)

\* persist: SELECT ... FOR UPDATE (or the insert of the group's row) waits for
\* whoever holds the row, then compares the committed version.
Persist(c) ==
    /\ pc[c] = "persist"
    /\ GroupRowIsFree(c)
    /\ IF version[tx[c].group] = request[c].command.expected
         THEN /\ tx' = [tx EXCEPT ![c].row = TRUE]
              /\ GoTo(c, "insertLocator")
              /\ UNCHANGED request
         ELSE EndTransaction(c) /\ Finish(c)
    /\ UNCHANGED <<storeVars, nodeKey, inDoubt, calls, replies>>

\* Mutant: no ROLLBACK before the winner is read.
InsertLocatorWithoutRollback(c) ==
    /\ pc[c] = "insertLocator"
    /\ \A t \in OtherTransactions(c) :
           ~ (t.locator /\ t.operation = tx[c].operation /\ t.key = tx[c].key)
    /\ IF \E l \in locators : l.operation = tx[c].operation /\ l.key = tx[c].key
         THEN UNCHANGED tx /\ GoTo(c, "resolveRace")
         ELSE tx' = [tx EXCEPT ![c].locator = TRUE] /\ GoTo(c, "commit")
    /\ UNCHANGED <<storeVars, nodeKey, request, inDoubt, calls, replies>>

\* The insert of the locator row waits for an uncommitted row of the same key;
\* when a committed one exists everything is rolled back and the winner read.
InsertLocator(c) ==
    /\ pc[c] = "insertLocator"
    /\ \A t \in OtherTransactions(c) :
           ~ (t.locator /\ t.operation = tx[c].operation /\ t.key = tx[c].key)
    /\ IF \E l \in locators : l.operation = tx[c].operation /\ l.key = tx[c].key
         THEN EndTransaction(c) /\ GoTo(c, "resolveRace")
         ELSE tx' = [tx EXCEPT ![c].locator = TRUE] /\ GoTo(c, "commit")
    /\ UNCHANGED <<storeVars, nodeKey, request, inDoubt, calls, replies>>

\* What the COMMIT of t makes visible: the version and the stored operation.
Apply(t) ==
    /\ version' = [version EXCEPT ![t.group] = t.version]
    /\ locators' = locators \cup
           {[operation |-> t.operation, key |-> t.key, command |-> t.command,
             group |-> t.group, base |-> t.command.expected, version |-> t.version]}

\* COMMIT answered.
CommitAnswered(c) ==
    /\ pc[c] = "commit"
    /\ Apply(tx[c])
    /\ EndTransaction(c)
    /\ Report(c, [group |-> tx[c].group, command |-> tx[c].command,
                  base |-> tx[c].command.expected, version |-> tx[c].version])
    /\ Finish(c)
    /\ UNCHANGED <<keyState, nodeKey, inDoubt, calls>>

\* COMMIT sent, the reply lost: no rollback, the connection is thrown away, and
\* the service asks for the outcome.
LoseCommit(c) ==
    /\ pc[c] = "commit"
    /\ inDoubt' = inDoubt \cup {tx[c]}
    /\ EndTransaction(c)
    /\ GoTo(c, "recover")
    /\ UNCHANGED <<storeVars, nodeKey, request, calls, replies>>

\* The database completes a transaction nobody listens to any more, or drops it.
SettleInDoubt(t) ==
    /\ t \in inDoubt
    /\ inDoubt' = inDoubt \ {t}
    /\ Apply(t) \/ UNCHANGED <<version, locators>>
    /\ UNCHANGED <<keyState, nodeKey, pc, request, tx, calls, replies>>

\* The connection fails or the database refuses a statement before COMMIT.
FailBeforeCommit(c) ==
    /\ pc[c] \in {"begin"} \cup InTransaction
    /\ EndTransaction(c)
    /\ GoTo(c, "recover")
    /\ UNCHANGED <<storeVars, nodeKey, request, inDoubt, calls, replies>>

\* resolveLocatorRace: the winner's result, or Unavailable and one more lookup.
ResolveRace(c) ==
    /\ pc[c] = "resolveRace"
    /\ \/ AnswerFrom(c, Visible(c))
       \/ /\ GoTo(c, "recover")
          /\ UNCHANGED <<request, replies>>
    /\ UNCHANGED <<storeVars, nodeKey, tx, inDoubt, calls>>

\* recoverUnavailable: a stored result is the answer, otherwise UNAVAILABLE,
\* which is also what a failed lookup ends in.
Recover(c) ==
    /\ pc[c] = "recover"
    /\ \/ AnswerFrom(c, Visible(c))
       \/ Finish(c) /\ UNCHANGED replies
    /\ UNCHANGED <<storeVars, nodeKey, tx, inDoubt, calls>>

-----------------------------------------------------------------------------
(* The environment *)

\* The process stops: the database rolls back its open transaction, and the
\* caller gets no answer.
Crash(c) ==
    /\ pc[c] # "idle"
    /\ EndTransaction(c)
    /\ Finish(c)
    /\ UNCHANGED <<storeVars, nodeKey, inDoubt, calls, replies>>

\* The node is given the next key, before or after the database changes over.
DeployKey(c) ==
    /\ nodeKey[c] < MaxKey
    /\ nodeKey' = [nodeKey EXCEPT ![c] = @ + 1]
    /\ UNCHANGED <<storeVars, callVars, calls, replies>>

KeyStateIsFree == (\A c \in Clients : tx[c] = Null) /\ inDoubt = {}

\* The key state changes over, under FOR UPDATE: no transaction holds it.
Rotate ==
    /\ keyState < MaxKey
    /\ KeyStateIsFree
    /\ keyState' = keyState + 1
    /\ UNCHANGED <<version, locators, nodeKey, callVars, calls, replies>>

ClientStep(c) ==
    \/ FindReplay(c) \/ Load(c) \/ Begin(c) \/ Stage(c) \/ Persist(c)
    \/ InsertLocator(c) \/ CommitAnswered(c) \/ ResolveRace(c) \/ Recover(c)

CommitNext ==
    \/ \E c \in Clients :
           \/ \E r \in CommandRequests : Call(c, r)
           \/ ClientStep(c)
           \/ LoseCommit(c) \/ FailBeforeCommit(c) \/ Crash(c) \/ DeployKey(c)
    \/ \E t \in inDoubt : SettleInDoubt(t)
    \/ Rotate

CommitSpec == CommitInit /\ [][CommitNext]_commitVars

\* A process that runs takes its next step, and the database gets to the end of
\* every transaction it holds; neither has to fail.
Fairness ==
    /\ \A c \in Clients : WF_commitVars(ClientStep(c))
    /\ WF_commitVars(\E t \in inDoubt : SettleInDoubt(t))

FairSpec == CommitSpec /\ Fairness

-----------------------------------------------------------------------------
\* The stored result of an operation is unique over all keys: a rotation does not
\* let the same operation be stored under the old and the new key.
OneLocatorPerOperation ==
    \A l1, l2 \in locators : l1.operation = l2.operation => l1 = l2

\* Every version a group went through was made by exactly one stored operation,
\* which read the version before it: no update is lost, none is applied twice,
\* and none is applied without its result being stored.
EveryVersionHasOneOperation ==
    /\ \A g \in GroupIds : \A v \in 1 .. version[g] :
           Cardinality({l \in locators :
               l.group = g /\ l.version = v /\ l.base = v - 1}) = 1
    /\ \A l \in locators : l.version <= version[l.group]

\* The results a caller can learn are those of one atomic object.
Outcome(o) ==
    IF \E l \in locators : l.operation = o
      THEN ResultOf(CHOOSE l \in locators : l.operation = o)
      ELSE Null

Abstract ==
    INSTANCE GroupOperations
        WITH Operations <- OperationIds, Groups <- GroupIds, Versions <- GroupVersions,
             outcome <- [o \in OperationIds |-> Outcome(o)]

\* Seen from its callers the machinery above is GroupOperations: whatever is
\* retried, lost, raced or rotated, an operation takes effect at most once and
\* every success that is reported is the stored one.
ImplementsGroupOperations == Abstract!Spec
=============================================================================
