--------------------------- MODULE GroupStore_proofs ---------------------------
(***************************************************************************)
(* Proofs about what the group context keeps in PostgreSQL: GroupCommit,   *)
(* GroupRetention, the evidence it asks for (RetentionEvidence) and the    *)
(* calendar it counts by (TokyoCalendar).                                  *)
(*                                                                         *)
(* GroupCommit, for any number of callers, operation ids, groups, calls,   *)
(* versions and locator keys: no version is made twice or lost, an         *)
(* operation is stored once whatever the key state does, and the whole     *)
(* machinery implements GroupOperations.  The inductive invariant says of  *)
(* a transaction what it may rely on: the key state it holds in share mode *)
(* is the present one, the row it has locked is still at the version it    *)
(* compared, and since its lookup no result of its operation can have come *)
(* but under the same key.                                                 *)
(*                                                                         *)
(* GroupRetention, for any number of groups, close intents, requests and   *)
(* workers, any year and any time: a group, its registry row and its       *)
(* receipt go together, answers are true, deletions are final and a close  *)
(* intent is not registered again too early.  The inductive invariant says *)
(* of every open transaction what it may rely on (what it has read under   *)
(* its locks, and that nobody else has them), of every receipt that it     *)
(* came from a request on evidence, and of every close intent how its row  *)
(* follows from the deletion of its group.                                 *)
(*                                                                         *)
(* The two calendars agree, and evidence is only issued for what all       *)
(* contexts did.                                                           *)
(***************************************************************************)
EXTENDS GroupCommit, GroupRetention, RetentionEvidence, TokyoCalendar, FiniteSetTheorems, TLAPS

-----------------------------------------------------------------------------
(* GroupCommit: the inductive invariant                                    *)

\* A call that runs has its request, and exactly the calls in a transaction have one open,
\* for that request.
CallHasRequest(c) ==
    /\ pc[c] # "idle" => request[c] # Null
    /\ tx[c] # Null <=> pc[c] \in InTransaction
    /\ tx[c] # Null =>
           tx[c].operation = request[c].operation /\ tx[c].command = request[c].command

\* What c has locked so far follows from where it is.
LocksFit(c) ==
    tx[c] # Null =>
        /\ tx[c].row <=> pc[c] \in {"insertLocator", "commit"}
        /\ tx[c].locator <=> pc[c] = "commit"

CallsFit == \A c \in Clients : CallHasRequest(c) /\ LocksFit(c)

\* c has found no stored result of its operation.
HasLooked(c) == pc[c] \in {"persist", "insertLocator", "commit"}

\* A transaction holds the present key; whose row it has locked is at the version it expects.
TransactionFits(t) ==
    /\ t.key = keyState
    /\ t.version = t.command.expected + (IF t.changed THEN 1 ELSE 0)
    /\ t.version # 0
    /\ t.row => version[t.group] = t.command.expected

\* After its lookup a result of the same operation can only have come under the same key,
\* and none has come once its locator is inserted.
Looked(t) ==
    /\ t.key # 0
    /\ \A l \in locators : l.operation = t.operation => l.key = t.key /\ ~ t.locator

TransactionsFit ==
    /\ \A c \in Clients : tx[c] # Null => TransactionFits(tx[c]) /\ (HasLooked(c) => Looked(tx[c]))
    /\ \A t \in inDoubt : TransactionFits(t) /\ Looked(t) /\ t.row /\ t.locator

\* Two transactions cannot both go on.
CommitsApart(t, u) ==
    /\ t.row /\ u.row => t.group # u.group
    /\ t.locator /\ u.locator => t.operation # u.operation

CommitLocksExclude ==
    /\ \A c, d \in Clients : c # d /\ tx[c] # Null /\ tx[d] # Null => CommitsApart(tx[c], tx[d])
    /\ \A c \in Clients, t \in inDoubt : tx[c] # Null => CommitsApart(tx[c], t)
    /\ \A t, u \in inDoubt : t # u => CommitsApart(t, u)

KeysAreHeld == \A l \in locators : l.key <= keyState

\* The stored operations that made version v of g from the one before.
Made(g, v) == {l \in locators : l.group = g /\ l.version = v /\ l.base = v - 1}

VersionsAreMade ==
    /\ \A g \in GroupIds : \A v \in 1 .. version[g] : \E l \in locators : Made(g, v) = {l}
    /\ \A l \in locators : l.version <= version[l.group]

CommitInv ==
    /\ TypeOK /\ CallsFit /\ TransactionsFit /\ CommitLocksExclude
    /\ KeysAreHeld /\ OneLocatorPerOperation /\ VersionsAreMade

-----------------------------------------------------------------------------
(* Steps that take no lock and store nothing *)

LEMMA InitInvariant == CommitInit => CommitInv
<1> SUFFICES ASSUME CommitInit PROVE CommitInv
  OBVIOUS
<1>1. TypeOK
  BY ConstantsAssumption DEF CommitInit, TypeOK, Keys, GroupVersions, PCs
<1>2. CallsFit
  BY DEF CommitInit, CallsFit, CallHasRequest, LocksFit, InTransaction
<1>3. TransactionsFit /\ CommitLocksExclude
  BY DEF CommitInit, TransactionsFit, CommitLocksExclude
<1>4. KeysAreHeld /\ OneLocatorPerOperation
  BY DEF CommitInit, KeysAreHeld, OneLocatorPerOperation
<1>5. VersionsAreMade
  BY DEF CommitInit, VersionsAreMade
<1> QED
  BY <1>1, <1>2, <1>3, <1>4, <1>5 DEF CommitInv

\* Where no transaction begins, locks or commits, what the transactions rely on stays.
LEMMA NothingIsTaken ==
    ASSUME CommitInv, UNCHANGED storeVars, UNCHANGED inDoubt,
           \A d \in Clients :
               \/ tx'[d] = Null
               \/ tx'[d] = tx[d] /\ (HasLooked(d)' => HasLooked(d))
    PROVE  /\ TransactionsFit' /\ CommitLocksExclude' /\ KeysAreHeld'
           /\ OneLocatorPerOperation' /\ VersionsAreMade'
<1> USE DEF CommitInv, storeVars
<1>1. TransactionsFit'
  <2>1. ASSUME NEW d \in Clients, tx'[d] # Null
        PROVE  (TransactionFits(tx[d]) /\ (HasLooked(d) => Looked(tx[d])))'
    BY <2>1 DEF TransactionsFit, TransactionFits, Looked
  <2>2. ASSUME NEW t \in inDoubt
        PROVE  (TransactionFits(t) /\ Looked(t) /\ t.row /\ t.locator)'
    BY <2>2 DEF TransactionsFit, TransactionFits, Looked
  <2> QED
    BY <2>1, <2>2 DEF TransactionsFit
<1>2. CommitLocksExclude'
  BY DEF CommitLocksExclude, CommitsApart
<1>3. KeysAreHeld' /\ OneLocatorPerOperation'
  BY DEF KeysAreHeld, OneLocatorPerOperation
<1>4. VersionsAreMade'
  BY DEF VersionsAreMade, Made
<1> QED
  BY <1>1, <1>2, <1>3, <1>4

-----------------------------------------------------------------------------
(* Calls outside of a transaction *)

LEMMA CommandFacts ==
    ASSUME NEW r \in CommandRequests
    PROVE  /\ r.operation \in OperationIds /\ r.command \in Commands
           /\ r.command.kind \in {"Update", "CreateGroup"}
           /\ r.command.kind = "Update" =>
                  r.command.group \in GroupIds /\ r.command.expected \in 1 .. MaxVersion
           /\ r.command.kind = "CreateGroup" => r.command.expected = 0
           /\ r.command.expected \in 0 .. MaxVersion
  BY ConstantsAssumption DEF CommandRequests, Commands

LEMMA FinishType ==
    ASSUME TypeOK, NEW c \in Clients, Finish(c)
    PROVE  /\ pc' \in [Clients -> PCs] /\ pc'[c] = "idle"
           /\ request' \in [Clients -> CommandRequests \cup {Null}]
           /\ \A d \in Clients \ {c} : pc'[d] = pc[d] /\ request'[d] = request[d]
  BY DEF TypeOK, Finish, PCs

LEMMA AnswerType ==
    ASSUME TypeOK, NEW c \in Clients, request[c] \in CommandRequests, AnswerFrom(c, Visible(c))
    PROVE  replies' \subseteq [operation: OperationIds, command: Commands, result: Results]
<1>1. CASE UNCHANGED replies
  BY <1>1 DEF TypeOK
<1>2. CASE \E l \in Visible(c) : Report(c, ResultOf(l))
  <2>1. PICK l \in Visible(c) : Report(c, ResultOf(l))
    BY <1>2
  <2>2. l \in Locators
    BY DEF Visible, TypeOK
  <2>3. ResultOf(l) \in Results
    BY <2>2 DEF ResultOf, Locators, Results
  <2> QED
    BY <2>1, <2>3, CommandFacts DEF Report, TypeOK
<1> QED
  BY <1>1, <1>2 DEF AnswerFrom

\* The steps of a call that has no transaction, and of callers and nodes.
LEMMA OutsideStepKeepsInvariant ==
    ASSUME CommitInv, NEW c \in Clients,
           \/ \E r \in CommandRequests : Call(c, r)
           \/ FindReplay(c) \/ Load(c) \/ ResolveRace(c) \/ Recover(c) \/ DeployKey(c)
    PROVE  CommitInv'
<1> USE DEF CommitInv
<1>1. UNCHANGED <<storeVars, tx, inDoubt>>
  BY DEF Call, FindReplay, Load, ResolveRace, Recover, DeployKey, callVars
<1>2. \A d \in Clients : HasLooked(d)' => HasLooked(d)
  BY DEF TypeOK, HasLooked, GoTo, Finish, AnswerFrom,
         Call, FindReplay, Load, ResolveRace, Recover, DeployKey, callVars
<1>3. TransactionsFit' /\ CommitLocksExclude' /\ KeysAreHeld' /\ OneLocatorPerOperation'
      /\ VersionsAreMade'
  BY <1>1, <1>2, NothingIsTaken
<1>4. CallsFit'
  <2>1. pc[c] \notin InTransaction \/ UNCHANGED <<pc, request>>
    BY DEF InTransaction, Call, FindReplay, Load, ResolveRace, Recover, DeployKey, callVars
  <2>2. CASE UNCHANGED <<pc, request>>
    BY <1>1, <2>2 DEF CallsFit, CallHasRequest, LocksFit
  <2>3. CASE pc[c] \notin InTransaction
    <3>1. tx[c] = Null
      BY <2>3 DEF CallsFit, CallHasRequest
    <3>2. \A d \in Clients \ {c} : pc'[d] = pc[d] /\ request'[d] = request[d]
      BY DEF TypeOK, GoTo, Finish, AnswerFrom,
             Call, FindReplay, Load, ResolveRace, Recover, DeployKey, callVars
    <3>3. pc'[c] \notin InTransaction /\ (pc'[c] # "idle" => request'[c] # Null)
      BY <2>3, NullAssumption DEF InTransaction, TypeOK, GoTo, Finish, AnswerFrom, CallsFit, CallHasRequest,
             Call, FindReplay, Load, ResolveRace, Recover, DeployKey, callVars
    <3> QED
      BY <1>1, <3>1, <3>2, <3>3 DEF CallsFit, CallHasRequest, LocksFit
  <2> QED
    BY <2>1, <2>2, <2>3
<1>5. TypeOK'
  <2>1. CASE \E r \in CommandRequests : Call(c, r)
    <3>1. calls' \in [Clients -> 0 .. MaxCalls]
      BY <2>1, ConstantsAssumption DEF TypeOK, Call
    <3> QED
      BY <1>1, <2>1, <3>1 DEF TypeOK, Call, GoTo, PCs, storeVars
  <2>2. CASE DeployKey(c)
    BY <1>1, <2>2, ConstantsAssumption DEF TypeOK, DeployKey, Keys, callVars, storeVars
  <2>3. CASE FindReplay(c) \/ Load(c) \/ ResolveRace(c) \/ Recover(c)
    <3>1. request[c] \in CommandRequests
      BY <2>3 DEF TypeOK, CallsFit, CallHasRequest, FindReplay, Load, ResolveRace, Recover
    <3>2. replies' \subseteq [operation: OperationIds, command: Commands, result: Results]
      BY <2>3, <3>1, AnswerType DEF TypeOK, FindReplay, Load, ResolveRace, Recover
    <3>3. pc' \in [Clients -> PCs] /\ request' \in [Clients -> CommandRequests \cup {Null}]
      BY <2>3 DEF TypeOK, PCs, GoTo, Finish, AnswerFrom, FindReplay, Load, ResolveRace, Recover
    <3>4. UNCHANGED <<nodeKey, calls>>
      BY <2>3 DEF FindReplay, Load, ResolveRace, Recover
    <3> QED
      BY <1>1, <3>2, <3>3, <3>4 DEF TypeOK, storeVars
  <2> QED
    BY <2>1, <2>2, <2>3
<1> QED
  BY <1>3, <1>4, <1>5

-----------------------------------------------------------------------------
(* Steps within a transaction, up to its COMMIT *)

LEMMA BeginKeepsInvariant ==
    ASSUME CommitInv, NEW c \in Clients, Begin(c)
    PROVE  CommitInv'
<1> USE DEF CommitInv
<1> DEFINE cmd == request[c].command
<1>1. PICK g \in GroupIds, changed \in BOOLEAN :
          /\ cmd.kind = "Update" => g = cmd.group
          /\ cmd.kind = "CreateGroup" => changed
          /\ tx' = [tx EXCEPT ![c] =
                 [operation |-> request[c].operation, command |-> cmd,
                  group |-> g, key |-> keyState,
                  version |-> cmd.expected + (IF changed THEN 1 ELSE 0),
                  changed |-> changed, row |-> FALSE, locator |-> FALSE]]
  BY DEF Begin
<1>2. /\ pc[c] = "begin" /\ pc' = [pc EXCEPT ![c] = "stage"]
      /\ UNCHANGED <<version, locators, keyState, nodeKey, request, inDoubt, calls, replies>>
  BY DEF Begin, GoTo, storeVars
<1>3. request[c] \in CommandRequests
  BY <1>2 DEF TypeOK, CallsFit, CallHasRequest
<1>4. cmd \in Commands /\ cmd.expected \in 0 .. MaxVersion
      /\ (cmd.kind = "Update" => cmd.expected \in 1 .. MaxVersion)
      /\ cmd.kind \in {"Update", "CreateGroup"}
  BY <1>3, CommandFacts
<1>5. tx'[c] \in Transactions /\ tx'[c] # Null /\ ~ tx'[c].row /\ ~ tx'[c].locator
  <2> DEFINE v == cmd.expected + (IF changed THEN 1 ELSE 0)
             t == [operation |-> request[c].operation, command |-> cmd, group |-> g,
                   key |-> keyState, version |-> v, changed |-> changed,
                   row |-> FALSE, locator |-> FALSE]
  <2>1. v \in GroupVersions
    BY <1>4, ConstantsAssumption DEF GroupVersions
  <2>2. request[c].operation \in OperationIds /\ keyState \in 0 .. MaxKey
    BY <1>3, CommandFacts DEF TypeOK
  <2> HIDE DEF v, cmd
  <2>3. t \in Transactions
    BY <1>1, <1>4, <2>1, <2>2 DEF Transactions
  <2>4. tx'[c] = t
    BY <1>1 DEF TypeOK, v, cmd
  <2>5. tx'[c].row = FALSE /\ tx'[c].locator = FALSE
    BY <2>4
  <2> HIDE DEF t
  <2> QED
    BY <2>3, <2>4, <2>5, NullAssumption
<1>6. \A d \in Clients \ {c} : tx'[d] = tx[d] /\ pc'[d] = pc[d]
  BY <1>1, <1>2 DEF TypeOK
<1>7. pc'[c] = "stage"
  BY <1>2 DEF TypeOK
<1>8. TypeOK'
  BY <1>2, <1>5, <1>1 DEF TypeOK, PCs, InTransaction
<1>9. CallsFit'
  BY <1>1, <1>2, <1>3, <1>5, <1>6, <1>7, NullAssumption
  DEF TypeOK, CallsFit, CallHasRequest, LocksFit, InTransaction
<1>10. TransactionsFit'
  <2>1. TransactionFits(tx[c])'
    BY <1>1, <1>2, <1>4, ConstantsAssumption DEF TypeOK, TransactionFits
  <2>2. ASSUME NEW d \in Clients, tx'[d] # Null
        PROVE  (TransactionFits(tx[d]) /\ (HasLooked(d) => Looked(tx[d])))'
    BY <1>2, <1>6, <1>7, <2>1, <2>2 DEF TransactionsFit, TransactionFits, Looked, HasLooked
  <2>3. ASSUME NEW t \in inDoubt
        PROVE  (TransactionFits(t) /\ Looked(t) /\ t.row /\ t.locator)'
    BY <1>2, <2>3 DEF TransactionsFit, TransactionFits, Looked
  <2> QED
    BY <1>2, <2>2, <2>3 DEF TransactionsFit
<1>11. CommitLocksExclude'
  BY <1>2, <1>5, <1>6 DEF CommitLocksExclude, CommitsApart
<1>12. KeysAreHeld' /\ OneLocatorPerOperation' /\ VersionsAreMade'
  BY <1>2 DEF KeysAreHeld, OneLocatorPerOperation, VersionsAreMade, Made
<1> QED
  BY <1>8, <1>9, <1>10, <1>11, <1>12

\* The steps in which c gives up its transaction, or the process stops.
LEMMA EndKeepsInvariant ==
    ASSUME CommitInv, NEW c \in Clients, EndTransaction(c),
           UNCHANGED <<storeVars, nodeKey, inDoubt, calls>>,
           replies' \subseteq [operation: OperationIds, command: Commands, result: Results],
           \/ pc[c] # "idle" /\ (GoTo(c, "recover") \/ GoTo(c, "resolveRace"))
                  /\ UNCHANGED request
           \/ Finish(c)
    PROVE  CommitInv'
<1> USE DEF CommitInv
<1>1. tx' \in [Clients -> Transactions \cup {Null}] /\ tx'[c] = Null
      /\ \A d \in Clients \ {c} : tx'[d] = tx[d]
  BY DEF TypeOK, EndTransaction
<1>2. /\ pc' \in [Clients -> PCs] /\ request' \in [Clients -> CommandRequests \cup {Null}]
      /\ pc'[c] \in {"idle", "recover", "resolveRace"}
      /\ pc'[c] # "idle" => request'[c] # Null
      /\ \A d \in Clients \ {c} : pc'[d] = pc[d] /\ request'[d] = request[d]
  BY DEF TypeOK, PCs, GoTo, Finish, CallsFit, CallHasRequest
<1>3. TypeOK'
  BY <1>1, <1>2 DEF TypeOK, storeVars
<1>4. CallsFit'
  BY <1>1, <1>2 DEF CallsFit, CallHasRequest, LocksFit, InTransaction
<1>5. \A d \in Clients :
          \/ tx'[d] = Null
          \/ tx'[d] = tx[d] /\ (HasLooked(d)' => HasLooked(d))
  BY <1>1, <1>2 DEF HasLooked
<1>6. TransactionsFit' /\ CommitLocksExclude' /\ KeysAreHeld' /\ OneLocatorPerOperation'
      /\ VersionsAreMade'
  BY <1>5, NothingIsTaken
<1> QED
  BY <1>3, <1>4, <1>6

LEMMA StopKeepsInvariant ==
    ASSUME CommitInv, NEW c \in Clients, FailBeforeCommit(c) \/ Crash(c)
    PROVE  CommitInv'
<1>1. /\ EndTransaction(c) /\ UNCHANGED <<storeVars, nodeKey, inDoubt, calls, replies>>
      /\ \/ pc[c] # "idle" /\ GoTo(c, "recover") /\ UNCHANGED request
         \/ Finish(c)
  BY DEF FailBeforeCommit, Crash, InTransaction
<1> QED
  BY <1>1, EndKeepsInvariant DEF CommitInv, TypeOK

\* A lookup under the present key finds every result of the operation.
LEMMA LookupIsWhole ==
    ASSUME CommitInv, NEW c \in Clients, pc[c] = "stage", HoldsCurrentKey(c), Visible(c) = {}
    PROVE  Looked(tx[c])
<1>1. tx[c] # Null /\ tx[c].operation = request[c].operation /\ tx[c].key = keyState
  BY DEF CommitInv, CallsFit, CallHasRequest, InTransaction, TransactionsFit, TransactionFits
<1>2. \A l \in locators : l.operation # tx[c].operation
  BY <1>1 DEF CommitInv, KeysAreHeld, HoldsCurrentKey, Visible
<1> QED
  BY <1>2 DEF Looked, HoldsCurrentKey

LEMMA StageKeepsInvariant ==
    ASSUME CommitInv, NEW c \in Clients, Stage(c)
    PROVE  CommitInv'
<1> USE DEF CommitInv
<1>1. pc[c] = "stage" /\ UNCHANGED <<storeVars, nodeKey, inDoubt, calls>>
  BY DEF Stage
<1>2. CASE ~ HoldsCurrentKey(c)
  BY <1>1, <1>2, EndKeepsInvariant DEF Stage, TypeOK
<1>3. CASE AnswerFrom(c, Visible(c)) /\ EndTransaction(c)
  <2>1. request[c] \in CommandRequests
    BY <1>1 DEF TypeOK, CallsFit, CallHasRequest
  <2> QED
    BY <1>1, <1>3, <2>1, AnswerType, EndKeepsInvariant DEF AnswerFrom
<1>4. CASE /\ HoldsCurrentKey(c) /\ Visible(c) = {} /\ GoTo(c, "persist")
           /\ UNCHANGED <<request, tx, replies>>
  <2>1. TypeOK'
    BY <1>1, <1>4 DEF TypeOK, GoTo, PCs, InTransaction, storeVars
  <2>2. CallsFit'
    BY <1>1, <1>4 DEF TypeOK, GoTo, CallsFit, CallHasRequest, LocksFit, InTransaction
  <2>3. TransactionsFit'
    <3>1. Looked(tx[c])
      BY <1>1, <1>4, LookupIsWhole
    <3>2. ASSUME NEW d \in Clients, tx'[d] # Null
          PROVE  (TransactionFits(tx[d]) /\ (HasLooked(d) => Looked(tx[d])))'
      BY <1>1, <1>4, <3>1, <3>2
      DEF TypeOK, TransactionsFit, TransactionFits, Looked, HasLooked, GoTo, storeVars
    <3>3. ASSUME NEW t \in inDoubt
          PROVE  (TransactionFits(t) /\ Looked(t) /\ t.row /\ t.locator)'
      BY <1>1, <3>3 DEF TransactionsFit, TransactionFits, Looked, storeVars
    <3> QED
      BY <1>1, <3>2, <3>3 DEF TransactionsFit
  <2>4. CommitLocksExclude'
    BY <1>1, <1>4 DEF CommitLocksExclude, CommitsApart
  <2>5. KeysAreHeld' /\ OneLocatorPerOperation' /\ VersionsAreMade'
    BY <1>1 DEF KeysAreHeld, OneLocatorPerOperation, VersionsAreMade, Made, storeVars
  <2> QED
    BY <2>1, <2>2, <2>3, <2>4, <2>5
<1> QED
  BY <1>2, <1>3, <1>4 DEF Stage

LEMMA RotateKeepsInvariant == ASSUME CommitInv, Rotate PROVE CommitInv'
<1> USE DEF CommitInv
<1>1. keyState' = keyState + 1 /\ keyState < MaxKey /\ UNCHANGED <<version, locators>>
      /\ UNCHANGED <<nodeKey, pc, request, tx, inDoubt, calls, replies>>
      /\ (\A c \in Clients : tx[c] = Null) /\ inDoubt = {}
  BY DEF Rotate, KeyStateIsFree, callVars
<1>2. TypeOK'
  BY <1>1, ConstantsAssumption DEF TypeOK
<1>3. CallsFit'
  BY <1>1 DEF CallsFit, CallHasRequest, LocksFit
<1>4. TransactionsFit' /\ CommitLocksExclude'
  BY <1>1 DEF TransactionsFit, CommitLocksExclude
<1>5. KeysAreHeld'
  <2>1. \A l \in locators : l.key \in Nat
    BY ConstantsAssumption DEF TypeOK, Locators, Keys
  <2> QED
    BY <1>1, <2>1 DEF KeysAreHeld, TypeOK
<1>6. OneLocatorPerOperation' /\ VersionsAreMade'
  BY <1>1 DEF OneLocatorPerOperation, VersionsAreMade, Made
<1> QED
  BY <1>2, <1>3, <1>4, <1>5, <1>6

\* The steps in which c takes one more lock: what it holds then is t.
LEMMA TakingKeepsInvariant ==
    ASSUME CommitInv, NEW c \in Clients, pc[c] \in {"persist", "insertLocator"},
           NEW t \in Transactions, tx' = [tx EXCEPT ![c] = t],
           t.operation = tx[c].operation, t.command = tx[c].command, t.group = tx[c].group,
           t.key = tx[c].key, t.version = tx[c].version, t.changed = tx[c].changed,
           NEW label \in {"insertLocator", "commit"}, GoTo(c, label),
           t.row, t.locator <=> label = "commit",
           version[t.group] = t.command.expected,
           t.locator => \A l \in locators : l.operation # t.operation,
           \A u \in OtherTransactions(c) : CommitsApart(t, u),
           UNCHANGED <<storeVars, nodeKey, request, inDoubt, calls, replies>>
    PROVE  CommitInv'
<1> USE DEF CommitInv
<1>1. tx[c] # Null /\ TransactionFits(tx[c]) /\ Looked(tx[c])
  BY DEF CallsFit, CallHasRequest, InTransaction, TransactionsFit, HasLooked
<1>2. /\ tx'[c] = t /\ \A d \in Clients \ {c} : tx'[d] = tx[d] /\ pc'[d] = pc[d]
      /\ pc'[c] = label
  BY DEF TypeOK, GoTo
<1>3. TypeOK'
  BY DEF TypeOK, GoTo, PCs, InTransaction, storeVars
<1>4. CallsFit'
  BY <1>2, <1>1, NullAssumption DEF CallsFit, CallHasRequest, LocksFit, InTransaction
<1>5. TransactionsFit'
  <2>1. (TransactionFits(t) /\ Looked(t))'
    BY <1>1 DEF TransactionFits, Looked, storeVars
  <2>2. ASSUME NEW d \in Clients, tx'[d] # Null
        PROVE  (TransactionFits(tx[d]) /\ (HasLooked(d) => Looked(tx[d])))'
    BY <1>2, <2>1, <2>2 DEF TransactionsFit, TransactionFits, Looked, HasLooked, storeVars
  <2>3. ASSUME NEW u \in inDoubt
        PROVE  (TransactionFits(u) /\ Looked(u) /\ u.row /\ u.locator)'
    BY <2>3 DEF TransactionsFit, TransactionFits, Looked, storeVars
  <2> QED
    BY <2>2, <2>3 DEF TransactionsFit
<1>6. CommitLocksExclude'
  <2>1. \A d \in Clients \ {c} : tx[d] # Null => CommitsApart(t, tx[d]) /\ CommitsApart(tx[d], t)
    BY DEF OtherTransactions, CommitsApart
  <2>2. \A u \in inDoubt : CommitsApart(t, u)
    BY DEF OtherTransactions
  <2> QED
    BY <1>2, <2>1, <2>2 DEF CommitLocksExclude
<1>7. KeysAreHeld' /\ OneLocatorPerOperation' /\ VersionsAreMade'
  BY DEF KeysAreHeld, OneLocatorPerOperation, VersionsAreMade, Made, storeVars
<1> QED
  BY <1>3, <1>4, <1>5, <1>6, <1>7

LEMMA PersistKeepsInvariant ==
    ASSUME CommitInv, NEW c \in Clients, Persist(c)
    PROVE  CommitInv'
<1> USE DEF CommitInv
<1>1. pc[c] = "persist" /\ UNCHANGED <<storeVars, nodeKey, inDoubt, calls, replies>>
  BY DEF Persist
<1>2. CASE EndTransaction(c) /\ Finish(c)
  BY <1>1, <1>2, EndKeepsInvariant DEF TypeOK
<1>3. CASE /\ version[tx[c].group] = request[c].command.expected
           /\ tx' = [tx EXCEPT ![c].row = TRUE]
           /\ GoTo(c, "insertLocator") /\ UNCHANGED request
  <2> DEFINE t == [tx[c] EXCEPT !.row = TRUE]
  <2>1. /\ tx[c] \in Transactions /\ tx[c].command = request[c].command
        /\ ~ tx[c].locator
    BY <1>1 DEF TypeOK, CallsFit, CallHasRequest, LocksFit, InTransaction
  <2>2. /\ t \in Transactions /\ t.row = TRUE
        /\ t.operation = tx[c].operation /\ t.command = tx[c].command
        /\ t.group = tx[c].group /\ t.key = tx[c].key /\ t.version = tx[c].version
        /\ t.changed = tx[c].changed /\ t.locator = tx[c].locator
    BY <2>1 DEF Transactions
  <2>3. tx' = [tx EXCEPT ![c] = t]
    BY <1>3
  <2> HIDE DEF t
  <2>4. \A u \in OtherTransactions(c) : CommitsApart(t, u)
    BY <2>1, <2>2 DEF Persist, GroupRowIsFree, CommitsApart
  <2> QED
    BY <1>1, <1>3, <2>1, <2>2, <2>3, <2>4, TakingKeepsInvariant
<1> QED
  BY <1>2, <1>3 DEF Persist

LEMMA InsertLocatorKeepsInvariant ==
    ASSUME CommitInv, NEW c \in Clients, InsertLocator(c)
    PROVE  CommitInv'
<1> USE DEF CommitInv
<1>1. /\ pc[c] = "insertLocator"
      /\ UNCHANGED <<storeVars, nodeKey, request, inDoubt, calls, replies>>
  BY DEF InsertLocator
<1>2. CASE EndTransaction(c) /\ GoTo(c, "resolveRace")
  BY <1>1, <1>2, EndKeepsInvariant DEF TypeOK
<1>3. CASE /\ ~ \E l \in locators : l.operation = tx[c].operation /\ l.key = tx[c].key
           /\ tx' = [tx EXCEPT ![c].locator = TRUE] /\ GoTo(c, "commit")
  <2> DEFINE t == [tx[c] EXCEPT !.locator = TRUE]
  <2>1. /\ tx[c] # Null /\ tx[c] \in Transactions /\ tx[c].row
        /\ TransactionFits(tx[c]) /\ Looked(tx[c])
    BY <1>1
    DEF TypeOK, CallsFit, CallHasRequest, LocksFit, InTransaction, TransactionsFit, HasLooked
  <2>2. /\ t \in Transactions /\ t.locator = TRUE
        /\ t.operation = tx[c].operation /\ t.command = tx[c].command
        /\ t.group = tx[c].group /\ t.key = tx[c].key /\ t.version = tx[c].version
        /\ t.changed = tx[c].changed /\ t.row = tx[c].row
    BY <2>1 DEF Transactions
  <2>3. tx' = [tx EXCEPT ![c] = t]
    BY <1>3
  <2> HIDE DEF t
  <2>4. \A l \in locators : l.operation # t.operation
    BY <1>3, <2>1, <2>2 DEF Looked
  <2>5. ASSUME NEW u \in OtherTransactions(c)
        PROVE  CommitsApart(t, u)
    <3>1. u.key = tx[c].key
      BY <2>1, <2>5 DEF OtherTransactions, TransactionsFit, TransactionFits
    <3>2. CommitsApart(tx[c], u)
      BY <2>1, <2>5 DEF OtherTransactions, CommitLocksExclude
    <3>3. ~ (u.locator /\ u.operation = tx[c].operation)
      BY <3>1, <2>5 DEF InsertLocator
    <3> QED
      BY <2>2, <3>2, <3>3 DEF CommitsApart
  <2>6. version[t.group] = t.command.expected
    BY <2>1, <2>2 DEF TransactionFits
  <2> QED
    BY <1>1, <1>3, <2>1, <2>2, <2>3, <2>4, <2>5, <2>6, TakingKeepsInvariant
<1> QED
  BY <1>2, <1>3 DEF InsertLocator

LEMMA LoseCommitKeepsInvariant ==
    ASSUME CommitInv, NEW c \in Clients, LoseCommit(c)
    PROVE  CommitInv'
<1> USE DEF CommitInv
<1>1. /\ pc[c] = "commit" /\ GoTo(c, "recover") /\ inDoubt' = inDoubt \cup {tx[c]}
      /\ UNCHANGED <<version, locators, keyState, nodeKey, request, calls, replies>>
  BY DEF LoseCommit, storeVars
<1>2. /\ tx[c] # Null /\ tx[c] \in Transactions /\ tx[c].row /\ tx[c].locator
      /\ TransactionFits(tx[c]) /\ Looked(tx[c])
  BY <1>1
  DEF TypeOK, CallsFit, CallHasRequest, LocksFit, InTransaction, TransactionsFit, HasLooked
<1>3. /\ tx' \in [Clients -> Transactions \cup {Null}] /\ tx'[c] = Null
      /\ \A d \in Clients \ {c} : tx'[d] = tx[d] /\ pc'[d] = pc[d]
      /\ pc' \in [Clients -> PCs] /\ pc'[c] = "recover"
  BY <1>1 DEF TypeOK, LoseCommit, EndTransaction, GoTo, PCs
<1>4. TypeOK'
  BY <1>1, <1>2, <1>3 DEF TypeOK
<1>5. CallsFit'
  BY <1>1, <1>3 DEF CallsFit, CallHasRequest, LocksFit, InTransaction
<1>6. TransactionsFit'
  <2>1. ASSUME NEW d \in Clients, tx'[d] # Null
        PROVE  (TransactionFits(tx[d]) /\ (HasLooked(d) => Looked(tx[d])))'
    BY <1>1, <1>3, <2>1 DEF TransactionsFit, TransactionFits, Looked, HasLooked
  <2>2. ASSUME NEW u \in inDoubt'
        PROVE  (TransactionFits(u) /\ Looked(u) /\ u.row /\ u.locator)'
    BY <1>1, <1>2, <2>2 DEF TransactionsFit, TransactionFits, Looked
  <2> QED
    BY <2>1, <2>2 DEF TransactionsFit
<1>7. CommitLocksExclude'
  BY <1>1, <1>2, <1>3 DEF CommitLocksExclude, CommitsApart
<1>8. KeysAreHeld' /\ OneLocatorPerOperation' /\ VersionsAreMade'
  BY <1>1 DEF KeysAreHeld, OneLocatorPerOperation, VersionsAreMade, Made
<1> QED
  BY <1>4, <1>5, <1>6, <1>7, <1>8

-----------------------------------------------------------------------------
(* What a COMMIT makes visible *)

\* The row that the COMMIT of t adds to the stored results.
Stored(t) ==
    [operation |-> t.operation, key |-> t.key, command |-> t.command,
     group |-> t.group, base |-> t.command.expected, version |-> t.version]

\* t may take effect: it holds its row and its locator, and nothing is stored under its
\* operation.
CanApply(t) ==
    t \in Transactions /\ TransactionFits(t) /\ Looked(t) /\ t.row /\ t.locator

LEMMA StoredType ==
    ASSUME TypeOK, NEW t, CanApply(t)
    PROVE  /\ Stored(t) \in Locators /\ t.version \in GroupVersions /\ t.group \in GroupIds
           /\ t.command.expected \in Nat
<1>1. t.key \in Keys
  BY DEF CanApply, Transactions, Looked, Keys
<1>2. t.command.expected \in 0 .. MaxVersion
  BY ConstantsAssumption DEF CanApply, Transactions, Commands
<1>3. t.command.expected \in GroupVersions
  BY <1>2, ConstantsAssumption DEF GroupVersions
<1> QED
  BY <1>1, <1>2, <1>3 DEF Stored, Locators, CanApply, Transactions

LEMMA ApplyKeepsType ==
    ASSUME TypeOK, NEW t, CanApply(t), Apply(t)
    PROVE  version' \in [GroupIds -> GroupVersions] /\ locators' \subseteq Locators
  BY StoredType DEF Apply, Stored, TypeOK

\* Another transaction can rely on the store as before.
LEMMA ApplyKeepsOthers ==
    ASSUME TypeOK, NEW t, CanApply(t), Apply(t), UNCHANGED keyState,
           NEW u \in Transactions, TransactionFits(u), CommitsApart(t, u)
    PROVE  TransactionFits(u)' /\ (Looked(u) => Looked(u)')
<1>1. locators' = locators \cup {Stored(t)}
  BY DEF Apply, Stored
<1>2. u.row => version'[u.group] = version[u.group]
  BY DEF Apply, CommitsApart, CanApply, TypeOK, Transactions
<1>3. Stored(t).operation = t.operation /\ Stored(t).key = t.key /\ t.key = u.key
  BY DEF Stored, CanApply, TransactionFits
<1>4. Looked(u) => Looked(u)'
  BY <1>1, <1>3 DEF Looked, CommitsApart, CanApply
<1> QED
  BY <1>2, <1>4 DEF TransactionFits

\* The store stays whole: t makes the next version of its group, or none.
LEMMA ApplyKeepsStore ==
    ASSUME CommitInv, NEW t, CanApply(t), Apply(t), UNCHANGED keyState
    PROVE  KeysAreHeld' /\ OneLocatorPerOperation' /\ VersionsAreMade'
<1> USE DEF CommitInv
<1> DEFINE new == Stored(t)
<1>1. locators' = locators \cup {new} /\ version' = [version EXCEPT ![t.group] = t.version]
  BY DEF Apply, Stored
<1>2. /\ new.operation = t.operation /\ new.key = t.key /\ new.group = t.group
      /\ new.version = t.version /\ new.base = t.command.expected
  BY DEF Stored
<1>3. /\ t.group \in GroupIds /\ t.command.expected \in Nat /\ t.version \in GroupVersions
      /\ version \in [GroupIds -> GroupVersions] /\ locators \subseteq Locators
  BY StoredType DEF TypeOK
<1>4. /\ version[t.group] = t.command.expected
      /\ t.version = t.command.expected + (IF t.changed THEN 1 ELSE 0)
      /\ \A l \in locators : l.operation # t.operation
      /\ t.key = keyState
  BY DEF CanApply, TransactionFits, Looked
<1>5. version' [t.group] = t.version /\ \A g \in GroupIds \ {t.group} : version'[g] = version[g]
  BY <1>1, <1>3
<1> HIDE DEF new
<1>6. KeysAreHeld'
  BY <1>1, <1>2, <1>4 DEF KeysAreHeld, TypeOK
<1>7. OneLocatorPerOperation'
  BY <1>1, <1>2, <1>4 DEF OneLocatorPerOperation
<1>8. \A l \in locators' : l.version <= version'[l.group]
  <2>1. \A l \in locators : l.version \in Nat /\ l.group \in GroupIds /\ l.version <= version[l.group]
    BY <1>3, ConstantsAssumption DEF VersionsAreMade, Locators, GroupVersions
  <2>2. t.version >= version[t.group] /\ t.version \in Nat /\ version[t.group] \in Nat
    BY <1>3, <1>4
  <2> QED
    BY <1>1, <1>2, <1>5, <2>1, <2>2
<1>9. ASSUME NEW g \in GroupIds, NEW v \in 1 .. version'[g]
      PROVE  \E l \in locators' : Made(g, v)' = {l}
  <2>1. v \in Nat /\ version[g] \in Nat /\ version'[g] \in Nat
    BY <1>3, <1>5, ConstantsAssumption DEF GroupVersions
  <2>2. CASE v <= version[g]
    <3>1. PICK l \in locators : Made(g, v) = {l}
      BY <2>1, <2>2 DEF VersionsAreMade
    <3>2. ~ (new.group = g /\ new.version = v /\ new.base = v - 1)
      BY <1>2, <1>3, <1>4, <2>1, <2>2
    <3>3. Made(g, v)' = Made(g, v)
      BY <1>1, <3>2 DEF Made
    <3> QED
      BY <1>1, <3>1, <3>3
  <2>3. CASE v > version[g]
    <3>1. g = t.group /\ v = version[g] + 1 /\ t.version = v /\ t.command.expected = v - 1
      BY <1>3, <1>4, <1>5, <2>1, <2>3
    <3>2. \A l \in locators : ~ (l.group = g /\ l.version = v)
      BY <2>1, <2>3 DEF VersionsAreMade
    <3>3. Made(g, v)' = {new}
      BY <1>1, <1>2, <3>1, <3>2 DEF Made
    <3> QED
      BY <1>1, <3>3
  <2> QED
    BY <2>1, <2>2, <2>3
<1> QED
  BY <1>6, <1>7, <1>8, <1>9 DEF VersionsAreMade

LEMMA CommitKeepsInvariant ==
    ASSUME CommitInv, NEW c \in Clients, CommitAnswered(c)
    PROVE  CommitInv'
<1> USE DEF CommitInv
<1>1. /\ pc[c] = "commit" /\ Apply(tx[c]) /\ EndTransaction(c) /\ Finish(c)
      /\ Report(c, [group |-> tx[c].group, command |-> tx[c].command,
                    base |-> tx[c].command.expected, version |-> tx[c].version])
      /\ UNCHANGED <<keyState, nodeKey, inDoubt, calls>>
  BY DEF CommitAnswered
<1>2. tx[c] # Null /\ request[c] \in CommandRequests /\ CanApply(tx[c])
  BY <1>1 DEF TypeOK, CallsFit, CallHasRequest, LocksFit, InTransaction, TransactionsFit, HasLooked,
              CanApply
<1>3. /\ tx' \in [Clients -> Transactions \cup {Null}] /\ tx'[c] = Null
      /\ \A d \in Clients \ {c} : tx'[d] = tx[d]
  BY <1>1 DEF TypeOK, EndTransaction
<1>4. /\ pc' \in [Clients -> PCs] /\ pc'[c] = "idle"
      /\ request' \in [Clients -> CommandRequests \cup {Null}]
      /\ \A d \in Clients \ {c} : pc'[d] = pc[d] /\ request'[d] = request[d]
  BY <1>1, FinishType
<1>5. TypeOK'
  <2>1. [group |-> tx[c].group, command |-> tx[c].command,
         base |-> tx[c].command.expected, version |-> tx[c].version] \in Results
    BY <1>2, StoredType DEF Results, CanApply, Transactions, Stored, Locators
  <2>2. replies' \subseteq [operation: OperationIds, command: Commands, result: Results]
    BY <1>1, <1>2, <2>1, CommandFacts DEF Report, TypeOK
  <2> QED
    BY <1>1, <1>2, <1>3, <1>4, <2>2, ApplyKeepsType DEF TypeOK
<1>6. CallsFit'
  BY <1>3, <1>4 DEF CallsFit, CallHasRequest, LocksFit, InTransaction
<1>7. TransactionsFit'
  <2>1. ASSUME NEW d \in Clients, tx'[d] # Null
        PROVE  (TransactionFits(tx[d]) /\ (HasLooked(d) => Looked(tx[d])))'
    <3>1. d # c /\ tx[d] \in Transactions /\ tx'[d] = tx[d] /\ pc'[d] = pc[d]
      BY <1>3, <1>4, <2>1 DEF TypeOK
    <3>2. TransactionFits(tx[d]) /\ (HasLooked(d) => Looked(tx[d])) /\ CommitsApart(tx[c], tx[d])
      BY <1>2, <2>1, <3>1 DEF TransactionsFit, CommitLocksExclude
    <3>3. ASSUME NEW u \in Transactions, TransactionFits(u), CommitsApart(tx[c], u)
          PROVE  TransactionFits(u)' /\ (Looked(u) => Looked(u)')
      BY <1>1, <1>2, <3>3, ApplyKeepsOthers
    <3> QED
      BY <3>1, <3>2, <3>3 DEF HasLooked, TransactionFits, Looked
  <2>2. ASSUME NEW u \in inDoubt
        PROVE  (TransactionFits(u) /\ Looked(u) /\ u.row /\ u.locator)'
    <3>1. u \in Transactions /\ TransactionFits(u) /\ Looked(u) /\ u.row /\ u.locator /\ CommitsApart(tx[c], u)
      BY <1>2, <2>2 DEF TypeOK, TransactionsFit, CommitLocksExclude
    <3> QED
      BY <1>1, <1>2, <3>1, ApplyKeepsOthers
  <2> QED
    BY <1>1, <2>1, <2>2 DEF TransactionsFit
<1>8. CommitLocksExclude'
  BY <1>1, <1>3 DEF CommitLocksExclude, CommitsApart
<1>9. KeysAreHeld' /\ OneLocatorPerOperation' /\ VersionsAreMade'
  BY <1>1, <1>2, ApplyKeepsStore
<1> QED
  BY <1>5, <1>6, <1>7, <1>8, <1>9

LEMMA SettleKeepsInvariant ==
    ASSUME CommitInv, NEW t \in inDoubt, SettleInDoubt(t)
    PROVE  CommitInv'
<1> USE DEF CommitInv
<1>1. /\ inDoubt' = inDoubt \ {t}
      /\ Apply(t) \/ UNCHANGED <<version, locators>>
      /\ UNCHANGED <<keyState, nodeKey, pc, request, tx, calls, replies>>
  BY DEF SettleInDoubt
<1>2. CanApply(t)
  BY DEF TypeOK, TransactionsFit, CanApply
<1>3. TypeOK'
  BY <1>1, <1>2, ApplyKeepsType DEF TypeOK
<1>4. CallsFit'
  BY <1>1 DEF CallsFit, CallHasRequest, LocksFit
<1>5. ASSUME NEW u \in Transactions, TransactionFits(u), CommitsApart(t, u)
      PROVE  TransactionFits(u)' /\ (Looked(u) => Looked(u)')
  BY <1>1, <1>2, <1>5, ApplyKeepsOthers DEF TransactionFits, Looked
<1>6. TransactionsFit'
  <2>1. ASSUME NEW d \in Clients, tx'[d] # Null
        PROVE  (TransactionFits(tx[d]) /\ (HasLooked(d) => Looked(tx[d])))'
    <3>1. /\ tx[d] \in Transactions /\ tx'[d] = tx[d] /\ pc'[d] = pc[d]
          /\ TransactionFits(tx[d]) /\ (HasLooked(d) => Looked(tx[d])) /\ CommitsApart(t, tx[d])
      BY <1>1, <2>1 DEF TypeOK, TransactionsFit, CommitLocksExclude, CommitsApart
    <3> QED
      BY <1>5, <3>1 DEF HasLooked, TransactionFits, Looked
  <2>2. ASSUME NEW u \in inDoubt'
        PROVE  (TransactionFits(u) /\ Looked(u) /\ u.row /\ u.locator)'
    <3>1. u \in Transactions /\ TransactionFits(u) /\ Looked(u) /\ u.row /\ u.locator /\ CommitsApart(t, u)
      BY <1>1, <2>2 DEF TypeOK, TransactionsFit, CommitLocksExclude
    <3> QED
      BY <1>5, <3>1
  <2> QED
    BY <2>1, <2>2 DEF TransactionsFit
<1>7. CommitLocksExclude'
  BY <1>1 DEF CommitLocksExclude, CommitsApart
<1>8. KeysAreHeld' /\ OneLocatorPerOperation' /\ VersionsAreMade'
  BY <1>1, <1>2, ApplyKeepsStore
  DEF KeysAreHeld, OneLocatorPerOperation, VersionsAreMade, Made
<1> QED
  BY <1>3, <1>4, <1>6, <1>7, <1>8

-----------------------------------------------------------------------------
(* The invariant, and what it says *)

LEMMA NextKeepsInvariant == CommitInv /\ [CommitNext]_commitVars => CommitInv'
<1> SUFFICES ASSUME CommitInv, [CommitNext]_commitVars PROVE CommitInv'
  OBVIOUS
<1>1. CASE UNCHANGED commitVars
  <2>1. UNCHANGED <<storeVars, nodeKey, pc, request, tx, inDoubt, calls, replies>>
    BY <1>1 DEF commitVars, storeVars, callVars
  <2>2. TypeOK' /\ CallsFit'
    BY <2>1 DEF CommitInv, TypeOK, CallsFit, CallHasRequest, LocksFit, storeVars
  <2>3. \A d \in Clients : tx'[d] = tx[d] /\ (HasLooked(d)' => HasLooked(d))
    BY <2>1 DEF HasLooked
  <2> QED
    BY <2>1, <2>2, <2>3, NothingIsTaken DEF CommitInv
<1>2. CASE \E c \in Clients :
               \/ \E r \in CommandRequests : Call(c, r)
               \/ FindReplay(c) \/ Load(c) \/ ResolveRace(c) \/ Recover(c) \/ DeployKey(c)
  BY <1>2, OutsideStepKeepsInvariant
<1>3. CASE \E c \in Clients : Begin(c)
  BY <1>3, BeginKeepsInvariant
<1>4. CASE \E c \in Clients : Stage(c)
  BY <1>4, StageKeepsInvariant
<1>5. CASE \E c \in Clients : Persist(c)
  BY <1>5, PersistKeepsInvariant
<1>6. CASE \E c \in Clients : InsertLocator(c)
  BY <1>6, InsertLocatorKeepsInvariant
<1>7. CASE \E c \in Clients : CommitAnswered(c)
  BY <1>7, CommitKeepsInvariant
<1>8. CASE \E c \in Clients : LoseCommit(c)
  BY <1>8, LoseCommitKeepsInvariant
<1>9. CASE \E c \in Clients : FailBeforeCommit(c) \/ Crash(c)
  BY <1>9, StopKeepsInvariant
<1>10. CASE \E t \in inDoubt : SettleInDoubt(t)
  BY <1>10, SettleKeepsInvariant
<1>11. CASE Rotate
  BY <1>11, RotateKeepsInvariant
<1> QED
  BY <1>1, <1>2, <1>3, <1>4, <1>5, <1>6, <1>7, <1>8, <1>9, <1>10, <1>11 DEF CommitNext, ClientStep

LEMMA InvariantHolds == CommitSpec => []CommitInv
<1>1. CommitInit => CommitInv
  BY InitInvariant
<1>2. CommitInv /\ [CommitNext]_commitVars => CommitInv'
  BY NextKeepsInvariant
<1> QED
  BY <1>1, <1>2, PTL DEF CommitSpec

\* The variables of calls, transactions and stored operations keep their types.
THEOREM CommitTypeCorrect == CommitSpec => []TypeOK
<1>1. CommitInv => TypeOK
  BY DEF CommitInv
<1> QED
  BY <1>1, InvariantHolds, PTL

\* However a command is retried, and whenever the locator key changes over between two
\* tries, its operation id is stored once (PostgresGroupCommitKernel.stage,
\* insertLocator).
THEOREM OperationsAreStoredOnce == CommitSpec => []OneLocatorPerOperation
<1>1. CommitInv => OneLocatorPerOperation
  BY DEF CommitInv
<1> QED
  BY <1>1, InvariantHolds, PTL

\* Every version of a group was made by exactly one stored operation, which read the one
\* before it, although a COMMIT whose answer was lost may still be applied
\* (PostgresGroupStateWriter.persist, PostgresGroupRepository.commit).
THEOREM VersionsAreMadeOnce == CommitSpec => []EveryVersionHasOneOperation
<1>1. CommitInv => EveryVersionHasOneOperation
  <2> SUFFICES ASSUME VersionsAreMade PROVE EveryVersionHasOneOperation
    BY DEF CommitInv
  <2>1. ASSUME NEW g \in GroupIds, NEW v \in 1 .. version[g]
        PROVE  Cardinality(Made(g, v)) = 1
    <3>1. PICK l \in locators : Made(g, v) = {l}
      BY <2>1 DEF VersionsAreMade
    <3> QED
      BY <3>1, FS_Singleton
  <2> QED
    BY <2>1 DEF VersionsAreMade, EveryVersionHasOneOperation, Made
<1> QED
  BY <1>1, InvariantHolds, PTL

-----------------------------------------------------------------------------
(* The refinement of GroupOperations *)

LEMMA OutcomeIsStored ==
    ASSUME OneLocatorPerOperation, NEW l \in locators
    PROVE  Outcome(l.operation) = ResultOf(l)
<1>1. (CHOOSE k \in locators : k.operation = l.operation) = l
  BY DEF OneLocatorPerOperation
<1> QED
  BY <1>1 DEF Outcome

LEMMA ResultsAreNotNull ==
    ASSUME TypeOK, NEW l \in locators
    PROVE  ResultOf(l) \in Results /\ ResultOf(l) # Null
<1>1. ResultOf(l) \in Results
  BY DEF TypeOK, Locators, ResultOf, Results
<1> QED
  BY <1>1, NullAssumption

LEMMA InitRefines == CommitInit => Abstract!Init
<1> SUFFICES ASSUME CommitInit PROVE Abstract!Init
  OBVIOUS
<1>1. \A o \in OperationIds : Outcome(o) = Null
  BY DEF CommitInit, Outcome
<1> QED
  BY <1>1 DEF CommitInit, Abstract!Init

LEMMA StutterRefines ==
    ASSUME UNCHANGED <<version, locators, replies>>
    PROVE  UNCHANGED Abstract!vars
<1>1. \A o \in OperationIds : Outcome(o)' = Outcome(o)
  BY DEF Outcome, ResultOf
<1> QED
  BY <1>1 DEF Abstract!vars

\* Who finds the stored result of the very command it sent is told it.
LEMMA AnswerRefines ==
    ASSUME CommitInv, NEW c \in Clients, request[c] \in CommandRequests, AnswerFrom(c, Visible(c)),
           UNCHANGED <<version, locators>>
    PROVE  [Abstract!Next]_(Abstract!vars)
<1>1. CASE UNCHANGED replies
  BY <1>1, StutterRefines
<1>2. CASE \E l \in Visible(c) : HasFingerprintOf(c, l) /\ Report(c, ResultOf(l))
  <2>1. PICK l \in Visible(c) : HasFingerprintOf(c, l) /\ Report(c, ResultOf(l))
    BY <1>2
  <2> DEFINE o == request[c].operation
  <2>2. l \in locators /\ l.operation = o /\ l.command = request[c].command
    BY <2>1 DEF Visible, HasFingerprintOf
  <2>3. o \in OperationIds /\ Outcome(o) = ResultOf(l) /\ Outcome(o) # Null
    BY <2>2, OutcomeIsStored, ResultsAreNotNull, CommandFacts DEF CommitInv
  <2>4. Outcome(o).command = request[c].command
    BY <2>2, <2>3 DEF ResultOf
  <2>5. replies' = replies \cup {Abstract!Told(o, Outcome(o))}
    BY <2>1, <2>3, <2>4 DEF Report, Abstract!Told
  <2>6. \A p \in OperationIds : Outcome(p)' = Outcome(p)
    BY DEF Outcome, ResultOf
  <2>7. Abstract!Answer(o)
    BY <2>3, <2>5, <2>6 DEF Abstract!Answer
  <2> QED
    BY <2>3, <2>7 DEF Abstract!Next
<1> QED
  BY <1>1, <1>2 DEF AnswerFrom

\* A COMMIT that is applied is the one time its operation takes effect.
LEMMA ApplyRefines ==
    ASSUME CommitInv, NEW t, CanApply(t), Apply(t), UNCHANGED keyState,
           replies' \in {replies, replies \cup
               {[operation |-> t.operation, command |-> t.command, result |-> ResultOf(Stored(t))]}}
    PROVE  Abstract!Next
<1> DEFINE o == t.operation
           r == ResultOf(Stored(t))
<1>1. /\ o \in OperationIds /\ t.group \in GroupIds /\ t.command \in Commands
      /\ t.version \in GroupVersions \ {0} /\ t.command.expected \in Nat
      /\ version \in [GroupIds -> GroupVersions] /\ version[t.group] = t.command.expected
      /\ t.version \in {version[t.group], version[t.group] + 1}
      /\ \A l \in locators : l.operation # o
  BY StoredType DEF CommitInv, TypeOK, CanApply, Transactions, TransactionFits, Looked
<1>2. r = [group |-> t.group, command |-> t.command, base |-> version[t.group],
           version |-> t.version]
  BY <1>1 DEF ResultOf, Stored
<1>3. locators' = locators \cup {Stored(t)} /\ version' = [version EXCEPT ![t.group] = t.version]
  BY DEF Apply, Stored
<1>4. OneLocatorPerOperation /\ OneLocatorPerOperation'
  BY ApplyKeepsStore DEF CommitInv
<1>5. Outcome(o) = Null
  BY <1>1 DEF Outcome
<1>6. Outcome(o)' = r
  <2>1. (CHOOSE k \in locators' : k.operation = o) = Stored(t)
    BY <1>3, <1>4 DEF OneLocatorPerOperation, Stored
  <2>2. Stored(t) \in locators' /\ Stored(t).operation = o
    BY <1>3 DEF Stored
  <2>3. Outcome(o)' = ResultOf(CHOOSE k \in locators' : k.operation = o)
    BY <2>2 DEF Outcome, ResultOf
  <2> QED
    BY <2>1, <2>3
<1>7. ASSUME NEW p \in OperationIds, p # o
      PROVE  Outcome(p)' = Outcome(p)
  <2>1. Stored(t).operation # p
    BY <1>7 DEF Stored
  <2>2. CASE \E l \in locators : l.operation = p
    <3>1. PICK l \in locators : l.operation = p
      BY <2>2
    <3>2. /\ (CHOOSE k \in locators : k.operation = p) = l
          /\ (CHOOSE k \in locators' : k.operation = p) = l
      BY <1>3, <1>4, <3>1 DEF OneLocatorPerOperation
    <3> QED
      BY <1>3, <3>1, <3>2 DEF Outcome, ResultOf
  <2>3. CASE ~ \E l \in locators : l.operation = p
    BY <1>3, <2>1, <2>3 DEF Outcome
  <2> QED
    BY <2>2, <2>3
<1>8. [p \in OperationIds |-> Outcome(p)]' = [[p \in OperationIds |-> Outcome(p)] EXCEPT ![o] = r]
  BY <1>1, <1>6, <1>7
<1>9. replies' \in {replies, replies \cup {Abstract!Told(o, r)}}
  BY <1>2 DEF Abstract!Told
<1> HIDE DEF r
<1>10. Abstract!Execute(o, t.group, t.command)
  BY <1>1, <1>2, <1>3, <1>5, <1>8, <1>9 DEF Abstract!Execute
<1> QED
  BY <1>1, <1>10 DEF Abstract!Next

LEMMA StepRefines == CommitInv /\ [CommitNext]_commitVars => [Abstract!Next]_(Abstract!vars)
<1> SUFFICES ASSUME CommitInv, [CommitNext]_commitVars PROVE [Abstract!Next]_(Abstract!vars)
  OBVIOUS
<1>1. CASE UNCHANGED <<version, locators, replies>>
  BY <1>1, StutterRefines
<1>2. ASSUME NEW c \in Clients, AnswerFrom(c, Visible(c)), UNCHANGED storeVars,
             pc[c] # "idle"
      PROVE  [Abstract!Next]_(Abstract!vars)
  <2>1. request[c] \in CommandRequests
    BY <1>2 DEF CommitInv, TypeOK, CallsFit, CallHasRequest
  <2> QED
    BY <1>2, <2>1, AnswerRefines DEF storeVars
<1>3. ASSUME NEW c \in Clients, FindReplay(c) \/ Stage(c) \/ ResolveRace(c) \/ Recover(c)
      PROVE  [Abstract!Next]_(Abstract!vars)
  <2>1. UNCHANGED storeVars /\ pc[c] # "idle"
        /\ (AnswerFrom(c, Visible(c)) \/ UNCHANGED replies)
    BY <1>3 DEF FindReplay, Stage, ResolveRace, Recover
  <2> QED
    BY <1>1, <1>2, <2>1 DEF storeVars
<1>4. ASSUME NEW c \in Clients, CommitAnswered(c)
      PROVE  Abstract!Next
  <2>1. /\ CanApply(tx[c]) /\ tx[c].operation = request[c].operation
        /\ tx[c].command = request[c].command
    BY <1>4 DEF CommitAnswered, CommitInv, TypeOK, CallsFit, CallHasRequest, LocksFit, InTransaction,
                TransactionsFit, HasLooked, CanApply
  <2>2. Apply(tx[c]) /\ UNCHANGED keyState
    BY <1>4 DEF CommitAnswered
  <2>3. replies' = replies \cup
            {[operation |-> tx[c].operation, command |-> tx[c].command,
              result |-> ResultOf(Stored(tx[c]))]}
    BY <1>4, <2>1 DEF CommitAnswered, Report, ResultOf, Stored
  <2> QED
    BY <2>1, <2>2, <2>3, ApplyRefines
<1>5. ASSUME NEW t \in inDoubt, SettleInDoubt(t)
      PROVE  [Abstract!Next]_(Abstract!vars)
  <2>1. CanApply(t)
    BY DEF CommitInv, TypeOK, TransactionsFit, CanApply
  <2>2. UNCHANGED <<keyState, replies>> /\ (Apply(t) \/ UNCHANGED <<version, locators>>)
    BY <1>5 DEF SettleInDoubt
  <2> QED
    BY <1>1, <2>1, <2>2, ApplyRefines
<1>6. ASSUME NEW c \in Clients,
             \/ \E r \in CommandRequests : Call(c, r)
             \/ Load(c) \/ Begin(c) \/ Persist(c) \/ InsertLocator(c)
             \/ LoseCommit(c) \/ FailBeforeCommit(c) \/ Crash(c) \/ DeployKey(c)
      PROVE  UNCHANGED <<version, locators, replies>>
  BY <1>6 DEF Call, Load, Begin, Persist, InsertLocator, LoseCommit, FailBeforeCommit, Crash, DeployKey,
              storeVars
<1>7. ASSUME Rotate
      PROVE  UNCHANGED <<version, locators, replies>>
  BY <1>7 DEF Rotate
<1>8. ASSUME UNCHANGED commitVars
      PROVE  UNCHANGED <<version, locators, replies>>
  BY <1>8 DEF commitVars, storeVars
<1> QED
  BY <1>1, <1>3, <1>4, <1>5, <1>6, <1>7, <1>8 DEF CommitNext, ClientStep

\* Whatever is retried, lost, raced or rotated, callers see the atomic object: an operation
\* takes effect at most once, on the version it expects, and everybody who is told of its
\* success is told the stored result (GroupCommandService, GroupRepository.commit).
THEOREM CommitImplementsOperations == CommitSpec => ImplementsGroupOperations
<1>1. CommitInit => Abstract!Init
  BY InitRefines
<1>2. CommitInv /\ [CommitNext]_commitVars => [Abstract!Next]_(Abstract!vars)
  BY StepRefines
<1> QED
  BY <1>1, <1>2, InvariantHolds, PTL DEF CommitSpec, ImplementsGroupOperations, Abstract!Spec

-----------------------------------------------------------------------------
(* GroupRetention: the inductive invariant                                 *)

Holding == {"group", "write", "store", "commit"}
HoldingGroup == {"write", "store", "commit"}

(* What the transaction in job j has locked: rows of the registry, groups  *)
(* and the operation of an inserted receipt.                               *)
RowsOf(j) ==
    IF j.at \in Holding THEN {j.request.closeIntentId}
    ELSE IF j.at = "purged" THEN j.rows ELSE {}
GroupsOf(j) == IF j.at \in HoldingGroup THEN {j.request.groupId} ELSE {}
OperationsOf(j) == IF j.at = "commit" THEN {j.request.receipt.operationId} ELSE {}

Apart(j, k) ==
    /\ RowsOf(j) \cap RowsOf(k) = {}
    /\ GroupsOf(j) \cap GroupsOf(k) = {}
    /\ OperationsOf(j) \cap OperationsOf(k) = {}

LocksExclude == \A v, w \in Workers : v # w => Apart(jobs[v], jobs[w])

(* What the transaction in job j has read still holds.                     *)
Fits(j) ==
    /\ j.at \in DeletionSteps => j.request \in Requests /\ IsBoundByEvidence(j.request)
    /\ j.at \in Holding => registry[j.request.closeIntentId] = Live(j.request.groupId)
    /\ j.at \in HoldingGroup => group[j.request.groupId] # "Deleted"
    /\ j.at \in {"store", "commit"} =>
          \A i \in CloseIntents \ {j.request.closeIntentId} :
              registry[i] # Live(j.request.groupId)
    /\ j.at = "commit" => receipts[j.request.receipt.operationId] = NoReceipt
    /\ j.at = "purged" =>
          \A i \in j.rows : IsRetired(registry[i]) /\ registry[i].retainUntil <= j.txNow
    /\ j.txNow <= now

JobsFit == \A w \in Workers : Fits(jobs[w])

(* A receipt is of its operation, came from a request on evidence, and the *)
(* group of that request is gone; a group that is gone has a receipt, and  *)
(* no row that is live.                                                    *)
CameFrom(o, r) ==
    /\ r.receipt = receipts[o]
    /\ r.evidence = [operationId |-> o, intentVersion |-> receipts[o].intentVersion]
    /\ group[r.groupId] = "Deleted"
ReceiptsFit ==
    /\ \A o \in Operations : receipts[o] # NoReceipt =>
          receipts[o].operationId = o /\ \E r \in Requests : CameFrom(o, r)
    /\ \A g \in Groups : group[g] = "Deleted" =>
          /\ \E o \in Operations : DeletionsOf(g) = {o}
          /\ \A i \in CloseIntents : registry[i] # Live(g)

(* A retired row is kept for a year from the deletion; where a used intent *)
(* has no row any more, that year is over.                                 *)
RowsFit ==
    \A i \in CloseIntents :
        /\ IsRetired(registry[i]) =>
              /\ history[i].deletedAt # NotYet
              /\ registry[i].retainUntil = history[i].deletedAt + Year
        /\ registry[i] = NoRow /\ history[i].used =>
              history[i].deletedAt # NotYet /\ now >= history[i].deletedAt + Year

IInv ==
    /\ RetentionTypeOK
    /\ JobsFit
    /\ LocksExclude
    /\ ReceiptsFit
    /\ RowsFit
    /\ AnswersHold

-----------------------------------------------------------------------------
(* Requests, rows and jobs                                                 *)

LEMMA RequestType ==
    ASSUME NEW r \in Requests
    PROVE  /\ r.groupId \in Groups /\ r.closeIntentId \in CloseIntents
           /\ r.receipt \in ReceiptRecord /\ r.receipt.operationId \in Operations
           /\ r.receipt.intentVersion \in Versions
           /\ r.evidence \in Binding \cup {Forged}
           /\ r.receipt # NoReceipt /\ r # NoRequest
  BY RequestsAssumption, NullsAssumption DEF Request, ReceiptRecord

LEMMA LiveRow ==
    ASSUME NEW g \in Groups
    PROVE  /\ Live(g) \in RegistryRow /\ Live(g) # NoRow
           /\ Live(g).groupId = g /\ Live(g).retainUntil = NotYet
           /\ IsLive(Live(g)) /\ ~ IsRetired(Live(g))
  BY NullsAssumption DEF Live, RegistryRow, IsLive, IsRetired

LEMMA RetiredRow ==
    ASSUME NEW until \in Nat
    PROVE  /\ Retired(until) \in RegistryRow /\ Retired(until) # NoRow
           /\ Retired(until).groupId = NoGroup /\ Retired(until).retainUntil = until
           /\ IsRetired(Retired(until))
           /\ \A g \in Groups : Retired(until) # Live(g)
  BY NullsAssumption DEF Retired, Live, RegistryRow, IsRetired, NotYet

LEMMA NoRowIsNeither == ~ IsRetired(NoRow) /\ ~ IsLive(NoRow)
  BY DEF IsRetired, IsLive

LEMMA EvidenceBinds ==
    ASSUME NEW r \in Requests, IsBoundByEvidence(r)
    PROVE  r.evidence = [operationId |-> r.receipt.operationId,
                         intentVersion |-> r.receipt.intentVersion]
<1>1. r.evidence \in Binding
  BY RequestType DEF IsBoundByEvidence
<1> QED
  BY <1>1 DEF IsBoundByEvidence, Binding

LEMMA IdleJob ==
    /\ Idle \in Job /\ Idle.at = "idle" /\ Idle.txNow = 0
    /\ \A j : Apart(j, Idle) /\ Apart(Idle, j)
    /\ RetentionTypeOK => Fits(Idle)
<1>1. Idle \in Job
  BY DEF Idle, Job
<1>2. Idle.at = "idle" /\ Idle.txNow = 0
  BY DEF Idle
<1>3. RowsOf(Idle) = {} /\ GroupsOf(Idle) = {} /\ OperationsOf(Idle) = {}
  BY <1>2 DEF RowsOf, GroupsOf, OperationsOf, Holding, HoldingGroup
<1>4. \A j : Apart(j, Idle) /\ Apart(Idle, j)
  BY <1>3 DEF Apart
<1>5. RetentionTypeOK => Fits(Idle)
  BY <1>2 DEF Fits, DeletionSteps, Holding, HoldingGroup, RetentionTypeOK
<1> QED
  BY <1>1, <1>2, <1>4, <1>5

LEMMA ApartIsSymmetric == \A j, k : Apart(j, k) <=> Apart(k, j)
  BY DEF Apart

LEMMA InitFits == Init => IInv
<1> SUFFICES ASSUME Init PROVE IInv
  OBVIOUS
<1>1. RetentionTypeOK
  BY IdleJob DEF Init, RetentionTypeOK, Idle, DeletionSteps
<1>2. \A w \in Workers : jobs[w] = Idle
  BY DEF Init
<1>3. JobsFit
  BY <1>1, <1>2, IdleJob DEF JobsFit
<1>4. LocksExclude
  BY <1>2, IdleJob DEF LocksExclude
<1>5. ReceiptsFit
  BY DEF Init, ReceiptsFit
<1>6. RowsFit
  BY NoRowIsNeither DEF Init, RowsFit
<1>7. AnswersHold
  BY DEF Init, AnswersHold
<1> QED
  BY <1>1, <1>3, <1>4, <1>5, <1>6, <1>7 DEF IInv

-----------------------------------------------------------------------------
(* Steps of one transaction that change nothing in the database            *)

(* Such a step keeps the invariant when the transaction may rely on what   *)
(* it has read, shares no lock and gives a true answer.                    *)
LEMMA LocalStep ==
    ASSUME IInv, NEW w \in Workers, UNCHANGED <<now, dbVars, history>>,
           jobs' \in [Workers -> Job],
           \A v \in Workers : v # w => jobs'[v] = jobs[v],
           Fits(jobs[w])',
           \A v \in Workers : v # w => Apart(jobs[v], jobs'[w]),
           answer' \in {NoAnswer} \cup [kind: AnswerKinds, request: Requests \cup {NoRequest}],
           AnswersHold'
    PROVE  IInv'
<1>1. now' = now /\ group' = group /\ registry' = registry /\ receipts' = receipts
      /\ history' = history
  BY DEF dbVars
<1>2. ASSUME NEW v \in Workers
      PROVE  Fits(jobs[v])'
  <2>1. CASE v = w
    BY <2>1
  <2>2. CASE v # w
    <3>1. Fits(jobs[v]) /\ jobs'[v] = jobs[v]
      BY <2>2 DEF IInv, JobsFit
    <3> QED
      BY <1>1, <3>1 DEF Fits
  <2> QED
    BY <2>1, <2>2
<1>3. JobsFit'
  BY <1>2 DEF JobsFit
<1>4. LocksExclude'
  BY ApartIsSymmetric DEF IInv, LocksExclude
<1>5. \A v \in Workers : jobs'[v].at \in DeletionSteps => jobs'[v].request \in Requests
  BY <1>2 DEF Fits
<1>6. RetentionTypeOK'
  BY <1>1, <1>5 DEF IInv, RetentionTypeOK
<1>7. ReceiptsFit'
  BY <1>1 DEF IInv, ReceiptsFit, CameFrom, DeletionsOf
<1>8. RowsFit'
  BY <1>1 DEF IInv, RowsFit
<1> QED
  BY <1>3, <1>4, <1>6, <1>7, <1>8 DEF IInv

(* A transaction ends without having changed anything.                     *)
LEMMA EndsHere ==
    ASSUME IInv, NEW w \in Workers, UNCHANGED <<now, dbVars, history>>,
           NEW kind \in AnswerKinds, Answer(w, kind), AnswersHold'
    PROVE  IInv'
<1>1. /\ jobs' \in [Workers -> Job] /\ jobs'[w] = Idle
      /\ \A v \in Workers : v # w => jobs'[v] = jobs[v]
  BY IdleJob DEF Answer, IInv, RetentionTypeOK
<1>2. answer' \in [kind: AnswerKinds, request: Requests \cup {NoRequest}]
  <2>1. jobs[w].request \in Requests \cup {NoRequest}
    BY DEF IInv, RetentionTypeOK, Job
  <2> QED
    BY <2>1 DEF Answer
<1>3. Fits(jobs[w])'
  <2>1. now' = now /\ now \in Nat
    BY DEF IInv, RetentionTypeOK
  <2> QED
    BY <1>1, <2>1, IdleJob DEF Fits, DeletionSteps, Holding, HoldingGroup
<1>4. \A v \in Workers : v # w => Apart(jobs[v], jobs'[w])
  BY <1>1, IdleJob
<1> QED
  BY <1>1, <1>2, <1>3, <1>4, LocalStep

(* An answer that promises nothing.                                        *)
LEMMA EndsWithoutPromise ==
    ASSUME IInv, NEW w \in Workers, UNCHANGED <<now, dbVars, history>>,
           NEW kind \in AnswerKinds \ {"Deleted", "AlreadyDeleted", "Found"}, Answer(w, kind)
    PROVE  IInv'
<1>1. AnswersHold'
  BY DEF Answer, AnswersHold
<1> QED
  BY <1>1, EndsHere

(* A transaction goes on to the next statement.                            *)
LEMMA GoesOn ==
    ASSUME IInv, NEW w \in Workers, UNCHANGED <<now, dbVars, history>>,
           NEW at \in DeletionSteps, jobs[w].at \in DeletionSteps, Goto(w, at),
           NEW j, j = [jobs[w] EXCEPT !.at = at],
           Fits(j), \A v \in Workers : v # w => Apart(jobs[v], j)
    PROVE  IInv'
<1>1. jobs \in [Workers -> Job] /\ j \in Job
  BY DEF IInv, RetentionTypeOK, Job
<1>2. /\ jobs' \in [Workers -> Job] /\ jobs'[w] = j
      /\ \A v \in Workers : v # w => jobs'[v] = jobs[v]
  BY <1>1 DEF Goto
<1>3. Fits(jobs[w])'
  <2>1. now' = now /\ group' = group /\ registry' = registry /\ receipts' = receipts
    BY DEF dbVars
  <2> QED
    BY <1>2, <2>1 DEF Fits
<1>4. answer' = NoAnswer /\ AnswersHold'
  BY DEF Goto, AnswersHold
<1> QED
  BY <1>2, <1>3, <1>4, LocalStep

LEMMA DeleteKeeps ==
    ASSUME IInv, NEW w \in Workers, NEW r \in Requests, Delete(w, r)
    PROVE  IInv'
<1>1. jobs \in [Workers -> Job] /\ now \in Nat
  BY DEF IInv, RetentionTypeOK
<1>2. CASE IsBoundByEvidence(r)
  <2> DEFINE j == [Idle EXCEPT !.at = "receipt", !.request = r]
  <2>1. /\ j \in Job /\ j.at = "receipt" /\ j.request = r /\ j.txNow = 0
        /\ RowsOf(j) = {} /\ GroupsOf(j) = {} /\ OperationsOf(j) = {}
    BY DEF Idle, Job, DeletionSteps, RowsOf, GroupsOf, OperationsOf, Holding, HoldingGroup
  <2>2. jobs' = [jobs EXCEPT ![w] = j] /\ answer' = NoAnswer
    BY <1>2 DEF Delete
  <2> HIDE DEF j
  <2>3. /\ jobs' \in [Workers -> Job] /\ jobs'[w] = j
        /\ \A v \in Workers : v # w => jobs'[v] = jobs[v]
    BY <1>1, <2>1, <2>2
  <2>4. Fits(jobs[w])'
    BY <1>1, <1>2, <2>1, <2>3 DEF Delete, Fits, Holding, HoldingGroup
  <2>5. \A v \in Workers : v # w => Apart(jobs[v], jobs'[w])
    BY <2>1, <2>3 DEF Apart
  <2>6. AnswersHold'
    BY <2>2 DEF AnswersHold
  <2> QED
    BY <2>2, <2>3, <2>4, <2>5, <2>6, LocalStep DEF Delete
<1>3. CASE ~ IsBoundByEvidence(r)
  <2>1. jobs' = jobs /\ answer'.kind \in {"InvalidEvidence", "BindingMismatch"}
        /\ answer' \in [kind: AnswerKinds, request: Requests \cup {NoRequest}]
    BY <1>3 DEF Delete, AnswerKinds
  <2>2. Fits(jobs[w])'
    BY <2>1 DEF Delete, dbVars, IInv, JobsFit, Fits
  <2>3. \A v \in Workers : v # w => Apart(jobs[v], jobs'[w])
    BY <2>1 DEF IInv, LocksExclude
  <2>4. AnswersHold'
    BY <2>1 DEF AnswersHold
  <2> QED
    BY <1>1, <2>1, <2>2, <2>3, <2>4, LocalStep DEF Delete
<1> QED
  BY <1>2, <1>3

(* A stored receipt that is the one asked for is that of a deleted group.  *)
LEMMA StoredIsDeleted ==
    ASSUME IInv, NEW r \in Requests, receipts[r.receipt.operationId] = r.receipt
    PROVE  group[r.groupId] = "Deleted"
<1>1. PICK s \in Requests : CameFrom(r.receipt.operationId, s)
  BY RequestType DEF IInv, ReceiptsFit
<1>2. s.receipt = r.receipt /\ group[s.groupId] = "Deleted"
  BY <1>1 DEF CameFrom
<1> QED
  BY <1>2, RequestsAssumption

LEMMA ReadReceiptKeeps ==
    ASSUME IInv, NEW w \in Workers, ReadReceipt(w)
    PROVE  IInv'
<1> DEFINE r == jobs[w].request
           o == r.receipt.operationId
<1>1. /\ jobs[w].at = "receipt" /\ jobs[w] \in Job /\ r \in Requests /\ IsBoundByEvidence(r)
      /\ jobs \in [Workers -> Job] /\ now \in Nat
      /\ UNCHANGED <<now, dbVars, history>>
  BY DEF ReadReceipt, IInv, RetentionTypeOK, JobsFit, Fits, DeletionSteps
<1>2. CASE receipts[o] # NoReceipt
  <2>1. Answer(w, ReplayOf(receipts[o], r.receipt))
    BY <1>2 DEF ReadReceipt
  <2>2. /\ ReplayOf(receipts[o], r.receipt)
               \in {"StaleEvidence", "BindingMismatch", "AlreadyDeleted"}
        /\ ReplayOf(receipts[o], r.receipt) = "AlreadyDeleted" => receipts[o] = r.receipt
    BY DEF ReplayOf
  <2>3. answer' = [kind |-> ReplayOf(receipts[o], r.receipt), request |-> r]
    BY <2>1 DEF Answer
  <2>4. receipts[o] = r.receipt => group[r.groupId] = "Deleted"
    BY <1>1, StoredIsDeleted
  <2>5. AnswersHold'
    <3>1. receipts' = receipts /\ group' = group
      BY <1>1 DEF dbVars
    <3> QED
      BY <2>2, <2>3, <2>4, <3>1 DEF AnswersHold
  <2> QED
    BY <1>1, <2>1, <2>2, <2>5, EndsHere DEF AnswerKinds
<1>3. CASE receipts[o] = NoReceipt
  <2> DEFINE j == [jobs[w] EXCEPT !.at = "registry", !.txNow = now]
  <2>1. /\ j \in Job /\ j.at = "registry" /\ j.request = r /\ j.txNow = now
        /\ RowsOf(j) = {} /\ GroupsOf(j) = {} /\ OperationsOf(j) = {}
    BY <1>1 DEF Job, DeletionSteps, RowsOf, GroupsOf, OperationsOf, Holding, HoldingGroup
  <2>2. jobs' = [jobs EXCEPT ![w] = j] /\ answer' = NoAnswer
    BY <1>1, <1>3 DEF ReadReceipt
  <2> HIDE DEF j
  <2>3. /\ jobs' \in [Workers -> Job] /\ jobs'[w] = j
        /\ \A v \in Workers : v # w => jobs'[v] = jobs[v]
    BY <1>1, <2>1, <2>2
  <2>4. Fits(jobs[w])'
    BY <1>1, <2>1, <2>3 DEF Fits, Holding, HoldingGroup
  <2>5. \A v \in Workers : v # w => Apart(jobs[v], jobs'[w])
    BY <2>1, <2>3 DEF Apart
  <2>6. AnswersHold'
    BY <2>2 DEF AnswersHold
  <2> QED
    BY <1>1, <2>2, <2>3, <2>4, <2>5, <2>6, LocalStep
<1> QED
  BY <1>2, <1>3

LEMMA LockRegistryKeeps ==
    ASSUME IInv, NEW w \in Workers, LockRegistry(w)
    PROVE  IInv'
<1> DEFINE r == jobs[w].request
           i == r.closeIntentId
           j == [jobs[w] EXCEPT !.at = "group"]
<1>1. /\ jobs[w].at = "registry" /\ jobs[w] \in Job /\ r \in Requests /\ IsBoundByEvidence(r)
      /\ jobs[w].txNow <= now
      /\ UNCHANGED <<now, dbVars, history>>
      /\ i \in CloseIntents /\ r.groupId \in Groups
      /\ registry[i] \in RegistryRow \cup {NoRow}
      /\ registry[i] # NoRow =>
             (registry[i].groupId = NoGroup <=> registry[i].retainUntil # NotYet)
  BY RequestType DEF LockRegistry, IInv, RetentionTypeOK, JobsFit, Fits, DeletionSteps
<1>2. CASE IsLive(registry[i]) /\ registry[i].groupId = r.groupId
  <2>1. registry[i] = Live(r.groupId)
    BY <1>1, <1>2, NullsAssumption DEF IsLive, RegistryRow, Live
  <2>2. /\ j.at = "group" /\ j.request = r /\ j.txNow = jobs[w].txNow
        /\ RowsOf(j) = {i} /\ GroupsOf(j) = {} /\ OperationsOf(j) = {}
    BY <1>1 DEF Job, RowsOf, GroupsOf, OperationsOf, Holding, HoldingGroup
  <2>3. Goto(w, "group")
    BY <1>2 DEF LockRegistry
  <2> HIDE DEF j
  <2>4. Fits(j)
    BY <1>1, <2>1, <2>2 DEF Fits, Holding, HoldingGroup
  <2>5. ASSUME NEW v \in Workers, v # w
        PROVE  Apart(jobs[v], j)
    <3>1. ~ Locks(v, i)
      BY <2>5 DEF LockRegistry, RowIsFree
    <3>2. i \notin RowsOf(jobs[v])
      BY <3>1 DEF Locks, RowsOf, Holding
    <3> QED
      BY <2>2, <3>2 DEF Apart
  <2> QED
    BY <1>1, <2>3, <2>4, <2>5, GoesOn DEF DeletionSteps, j
<1>3. CASE ~ (IsLive(registry[i]) /\ registry[i].groupId = r.groupId)
  <2>1. Answer(w, RegistryRefusal(registry[i]))
    BY <1>3 DEF LockRegistry
  <2>2. RegistryRefusal(registry[i]) \in AnswerKinds \ {"Deleted", "AlreadyDeleted", "Found"}
    BY DEF RegistryRefusal, AnswerKinds
  <2> QED
    BY <1>1, <2>1, <2>2, EndsWithoutPromise
<1> QED
  BY <1>2, <1>3

LEMMA LockGroupKeeps ==
    ASSUME IInv, NEW w \in Workers, LockGroup(w)
    PROVE  IInv'
<1> DEFINE r == jobs[w].request
           j == [jobs[w] EXCEPT !.at = "write"]
<1>1. /\ jobs[w].at = "group" /\ jobs[w] \in Job /\ r \in Requests /\ IsBoundByEvidence(r)
      /\ registry[r.closeIntentId] = Live(r.groupId)
      /\ jobs[w].txNow <= now
      /\ UNCHANGED <<now, dbVars, history>>
  BY DEF LockGroup, IInv, RetentionTypeOK, JobsFit, Fits, DeletionSteps, Holding
<1>2. CASE group[r.groupId] # "Deleted"
  <2>1. /\ j.at = "write" /\ j.request = r /\ j.txNow = jobs[w].txNow
        /\ RowsOf(j) = RowsOf(jobs[w]) /\ GroupsOf(j) = {r.groupId} /\ OperationsOf(j) = {}
    BY <1>1 DEF Job, RowsOf, GroupsOf, OperationsOf, Holding, HoldingGroup
  <2>2. Goto(w, "write")
    BY <1>2 DEF LockGroup
  <2> HIDE DEF j
  <2>3. Fits(j)
    BY <1>1, <1>2, <2>1 DEF Fits, Holding, HoldingGroup
  <2>4. ASSUME NEW v \in Workers, v # w
        PROVE  Apart(jobs[v], j)
    <3>1. ~ LocksGroup(v, r.groupId)
      BY DEF LockGroup, GroupIsFree
    <3>2. r.groupId \notin GroupsOf(jobs[v])
      BY <3>1 DEF LocksGroup, GroupsOf, HoldingGroup
    <3>3. Apart(jobs[v], jobs[w])
      BY <2>4 DEF IInv, LocksExclude
    <3> QED
      BY <2>1, <3>2, <3>3 DEF Apart
  <2> QED
    BY <1>1, <2>2, <2>3, <2>4, GoesOn DEF DeletionSteps, j
<1>3. CASE group[r.groupId] = "Deleted"
  BY <1>1, <1>3, EndsWithoutPromise DEF LockGroup, AnswerKinds
<1> QED
  BY <1>2, <1>3

LEMMA RetireAndDeleteKeeps ==
    ASSUME IInv, NEW w \in Workers, RetireAndDelete(w)
    PROVE  IInv'
<1> DEFINE r == jobs[w].request
           j == [jobs[w] EXCEPT !.at = "store"]
           others == {i \in CloseIntents \ {r.closeIntentId} :
                         IsLive(registry[i]) /\ registry[i].groupId = r.groupId}
<1>1. /\ jobs[w].at = "write" /\ jobs[w] \in Job /\ r \in Requests /\ IsBoundByEvidence(r)
      /\ registry[r.closeIntentId] = Live(r.groupId) /\ group[r.groupId] # "Deleted"
      /\ jobs[w].txNow <= now
      /\ UNCHANGED <<now, dbVars, history>>
  BY DEF RetireAndDelete, IInv, RetentionTypeOK, JobsFit, Fits, DeletionSteps, Holding,
         HoldingGroup
<1>2. CASE others = {}
  <2>1. /\ j.at = "store" /\ j.request = r /\ j.txNow = jobs[w].txNow
        /\ RowsOf(j) = RowsOf(jobs[w]) /\ GroupsOf(j) = GroupsOf(jobs[w])
        /\ OperationsOf(j) = {}
    BY <1>1 DEF Job, RowsOf, GroupsOf, OperationsOf, Holding, HoldingGroup
  <2>2. Goto(w, "store")
    BY <1>2 DEF RetireAndDelete
  <2>3. \A i \in CloseIntents \ {r.closeIntentId} : registry[i] # Live(r.groupId)
    BY <1>1, <1>2, RequestType, LiveRow
  <2> HIDE DEF j
  <2>4. Fits(j)
    BY <1>1, <2>1, <2>3 DEF Fits, Holding, HoldingGroup
  <2>5. \A v \in Workers : v # w => Apart(jobs[v], j)
    BY <2>1 DEF IInv, LocksExclude, Apart
  <2> QED
    BY <1>1, <2>2, <2>4, <2>5, GoesOn DEF DeletionSteps, j
<1>3. CASE others # {}
  BY <1>1, <1>3, EndsWithoutPromise DEF RetireAndDelete, AnswerKinds
<1> QED
  BY <1>2, <1>3

LEMMA StoreReceiptKeeps ==
    ASSUME IInv, NEW w \in Workers, StoreReceipt(w)
    PROVE  IInv'
<1> DEFINE r == jobs[w].request
           o == r.receipt.operationId
           j == [jobs[w] EXCEPT !.at = "commit"]
<1>1. /\ jobs[w].at = "store" /\ jobs[w] \in Job /\ r \in Requests /\ IsBoundByEvidence(r)
      /\ registry[r.closeIntentId] = Live(r.groupId) /\ group[r.groupId] # "Deleted"
      /\ \A i \in CloseIntents \ {r.closeIntentId} : registry[i] # Live(r.groupId)
      /\ jobs[w].txNow <= now
      /\ UNCHANGED <<now, dbVars, history>>
  BY DEF StoreReceipt, IInv, RetentionTypeOK, JobsFit, Fits, DeletionSteps, Holding,
         HoldingGroup
<1>2. CASE receipts[o] = NoReceipt
  <2>1. /\ j.at = "commit" /\ j.request = r /\ j.txNow = jobs[w].txNow
        /\ RowsOf(j) = RowsOf(jobs[w]) /\ GroupsOf(j) = GroupsOf(jobs[w])
        /\ OperationsOf(j) = {o}
    BY <1>1 DEF Job, RowsOf, GroupsOf, OperationsOf, Holding, HoldingGroup
  <2>2. Goto(w, "commit")
    BY <1>2 DEF StoreReceipt
  <2> HIDE DEF j
  <2>3. Fits(j)
    BY <1>1, <1>2, <2>1 DEF Fits, Holding, HoldingGroup
  <2>4. \A v \in Workers : v # w => Apart(jobs[v], j)
    BY <2>1 DEF StoreReceipt, IInv, LocksExclude, Apart, OperationsOf
  <2> QED
    BY <1>1, <2>2, <2>3, <2>4, GoesOn DEF DeletionSteps, j
<1>3. CASE receipts[o] # NoReceipt
  BY <1>1, <1>3, EndsWithoutPromise DEF StoreReceipt, AnswerKinds
<1> QED
  BY <1>2, <1>3

LEMMA FindReceiptKeeps ==
    ASSUME IInv, NEW w \in Workers, NEW r \in Requests, FindReceipt(w, r)
    PROVE  IInv'
<1> DEFINE o == r.receipt.operationId
<1>1. /\ jobs' = jobs /\ UNCHANGED <<now, dbVars, history>>
      /\ jobs \in [Workers -> Job]
  BY DEF FindReceipt, IInv, RetentionTypeOK
<1>2. /\ answer' \in [kind: AnswerKinds, request: Requests \cup {NoRequest}]
      /\ answer'.kind \in {"NotFound", "StaleEvidence", "BindingMismatch", "Found"}
      /\ answer'.request = r
      /\ answer'.kind = "Found" =>
             receipts[o] # NoReceipt /\ receipts[o].intentVersion = r.receipt.intentVersion
  BY DEF FindReceipt, AnswerKinds
<1>3. AnswersHold'
  <2>1. receipts' = receipts /\ group' = group
    BY <1>1 DEF dbVars
  <2>2. CASE answer'.kind = "Found"
    <3>1. PICK s \in Requests : CameFrom(o, s)
      BY <1>2, <2>2, RequestType DEF IInv, ReceiptsFit
    <3> QED
      BY <1>2, <2>1, <2>2, <3>1 DEF AnswersHold, CameFrom
  <2>3. CASE answer'.kind # "Found"
    BY <1>2, <2>3 DEF AnswersHold
  <2> QED
    BY <2>2, <2>3
<1>4. Fits(jobs[w])'
  BY <1>1 DEF dbVars, IInv, JobsFit, Fits
<1>5. \A v \in Workers : v # w => Apart(jobs[v], jobs'[w])
  BY <1>1 DEF IInv, LocksExclude
<1> QED
  BY <1>1, <1>2, <1>3, <1>4, <1>5, LocalStep

LEMMA BeginPurgeKeeps ==
    ASSUME IInv, NEW w \in Workers, BeginPurge(w)
    PROVE  IInv'
<1> DEFINE j == [Idle EXCEPT !.at = "purge", !.txNow = now]
<1>1. jobs \in [Workers -> Job] /\ now \in Nat
  BY DEF IInv, RetentionTypeOK
<1>2. /\ j \in Job /\ j.at = "purge" /\ j.txNow = now
      /\ RowsOf(j) = {} /\ GroupsOf(j) = {} /\ OperationsOf(j) = {}
  BY <1>1 DEF Idle, Job, PurgeSteps, RowsOf, GroupsOf, OperationsOf, Holding, HoldingGroup
<1>3. jobs' = [jobs EXCEPT ![w] = j] /\ answer' = NoAnswer
      /\ UNCHANGED <<now, dbVars, history>>
  BY DEF BeginPurge
<1> HIDE DEF j
<1>4. /\ jobs' \in [Workers -> Job] /\ jobs'[w] = j
      /\ \A v \in Workers : v # w => jobs'[v] = jobs[v]
  BY <1>1, <1>2, <1>3
<1>5. Fits(jobs[w])'
  BY <1>1, <1>2, <1>3, <1>4 DEF Fits, Holding, HoldingGroup, DeletionSteps
<1>6. \A v \in Workers : v # w => Apart(jobs[v], jobs'[w])
  BY <1>2, <1>4 DEF Apart
<1>7. AnswersHold'
  BY <1>3 DEF AnswersHold
<1> QED
  BY <1>3, <1>4, <1>5, <1>6, <1>7, LocalStep

LEMMA DeleteExpiredKeeps ==
    ASSUME IInv, NEW w \in Workers, DeleteExpired(w)
    PROVE  IInv'
<1> DEFINE rows == Expired(jobs[w].txNow)
           j == [jobs[w] EXCEPT !.at = "purged", !.rows = rows]
<1>1. /\ jobs \in [Workers -> Job] /\ jobs[w] \in Job
      /\ jobs[w].txNow <= now
      /\ UNCHANGED <<now, dbVars, history>>
      /\ rows \subseteq CloseIntents
  BY DEF DeleteExpired, IInv, RetentionTypeOK, JobsFit, Fits, Expired
<1>2. /\ j \in Job /\ j.at = "purged" /\ j.rows = rows /\ j.txNow = jobs[w].txNow
      /\ RowsOf(j) = rows /\ GroupsOf(j) = {} /\ OperationsOf(j) = {}
  BY <1>1 DEF Job, PurgeSteps, RowsOf, GroupsOf, OperationsOf, Holding, HoldingGroup
<1>3. jobs' = [jobs EXCEPT ![w] = j] /\ answer' = NoAnswer
  BY <1>1 DEF DeleteExpired
<1> HIDE DEF j
<1>4. /\ jobs' \in [Workers -> Job] /\ jobs'[w] = j
      /\ \A v \in Workers : v # w => jobs'[v] = jobs[v]
  BY <1>1, <1>2, <1>3
<1>5. Fits(jobs[w])'
  <2>1. \A i \in rows : IsRetired(registry[i]) /\ registry[i].retainUntil <= j.txNow
    BY <1>2 DEF Expired
  <2>2. now' = now /\ registry' = registry
    BY <1>1 DEF dbVars
  <2> QED
    BY <1>1, <1>2, <1>4, <2>1, <2>2 DEF Fits, Holding, HoldingGroup, DeletionSteps
<1>6. ASSUME NEW v \in Workers, v # w
      PROVE  Apart(jobs[v], jobs'[w])
  <2>1. \A i \in rows : ~ Locks(v, i)
    BY <1>6 DEF DeleteExpired, RowIsFree
  <2>2. \A i \in rows : i \notin RowsOf(jobs[v])
    BY <2>1 DEF Locks, RowsOf, Holding
  <2> QED
    BY <1>2, <1>4, <2>2 DEF Apart
<1>7. AnswersHold'
  BY <1>3 DEF AnswersHold
<1> QED
  BY <1>1, <1>3, <1>4, <1>5, <1>6, <1>7, LocalStep

-----------------------------------------------------------------------------
(* Steps that change the database                                          *)

(* A closing starts or ends: the group was not deleted, nor is it now.     *)
LEMMA LifecycleKeeps ==
    ASSUME IInv, Lifecycle
    PROVE  IInv'
<1>1. PICK g \in Groups :
          /\ group[g] # "Deleted" /\ GroupIsFree(g)
          /\ \E to \in {"Active", "Closing", "Archived"} : group' = [group EXCEPT ![g] = to]
          /\ \/ registry' = registry /\ history' = history
             \/ \E i \in CloseIntents :
                    /\ registry[i] = NoRow
                    /\ registry' = [registry EXCEPT ![i] = Live(g)]
                    /\ history' = [history EXCEPT ![i] = [used |-> TRUE, deletedAt |-> NotYet]]
          /\ answer' = NoAnswer
          /\ UNCHANGED <<now, receipts, jobs>>
  BY DEF Lifecycle, StartClosing, EndClosing
<1>2. /\ group \in [Groups -> {"Active", "Closing", "Archived", "Deleted"}]
      /\ group' \in [Groups -> {"Active", "Closing", "Archived", "Deleted"}]
      /\ \A h \in Groups : group'[h] = "Deleted" <=> group[h] = "Deleted"
  BY <1>1 DEF IInv, RetentionTypeOK
<1>3. \A i \in CloseIntents :
          \/ registry'[i] = registry[i] /\ history'[i] = history[i]
          \/ /\ registry[i] = NoRow /\ registry'[i] = Live(g)
             /\ history'[i] = [used |-> TRUE, deletedAt |-> NotYet]
  BY <1>1 DEF IInv, RetentionTypeOK
<1>4. RetentionTypeOK'
  <2>1. /\ registry' \in [CloseIntents -> RegistryRow \cup {NoRow}]
        /\ history' \in [CloseIntents -> [used: BOOLEAN, deletedAt: Nat \cup {NotYet}]]
    <3>1. [used |-> TRUE, deletedAt |-> NotYet]
              \in [used: BOOLEAN, deletedAt: Nat \cup {NotYet}]
      OBVIOUS
    <3>2. Live(g) \in RegistryRow
      BY LiveRow
    <3>3. /\ registry \in [CloseIntents -> RegistryRow \cup {NoRow}]
          /\ history \in [CloseIntents -> [used: BOOLEAN, deletedAt: Nat \cup {NotYet}]]
      BY DEF IInv, RetentionTypeOK
    <3>4. CASE registry' = registry /\ history' = history
      BY <3>3, <3>4
    <3>5. ASSUME NEW i \in CloseIntents,
                 registry' = [registry EXCEPT ![i] = Live(g)],
                 history' = [history EXCEPT ![i] = [used |-> TRUE, deletedAt |-> NotYet]]
          PROVE  /\ registry' \in [CloseIntents -> RegistryRow \cup {NoRow}]
                 /\ history' \in [CloseIntents -> [used: BOOLEAN, deletedAt: Nat \cup {NotYet}]]
      <4>1. registry' \in [CloseIntents -> RegistryRow \cup {NoRow}]
        BY <3>2, <3>3, <3>5
      <4>2. history' \in [CloseIntents -> [used: BOOLEAN, deletedAt: Nat \cup {NotYet}]]
        BY <3>1, <3>3, <3>5
      <4> QED
        BY <4>1, <4>2
    <3> QED
      BY <1>1, <3>4, <3>5
  <2>2. \A i \in CloseIntents :
            registry'[i] # NoRow =>
                (registry'[i].groupId = NoGroup <=> registry'[i].retainUntil # NotYet)
    BY <1>1, <1>3, LiveRow, NullsAssumption DEF IInv, RetentionTypeOK
  <2> QED
    BY <1>1, <1>2, <2>1, <2>2 DEF IInv, RetentionTypeOK
<1>5. JobsFit'
  <2> SUFFICES ASSUME NEW w \in Workers PROVE Fits(jobs[w])'
    BY DEF JobsFit
  <2> DEFINE r == jobs[w].request
  <2>1. Fits(jobs[w]) /\ jobs'[w] = jobs[w] /\ now' = now /\ receipts' = receipts
    BY <1>1 DEF IInv, JobsFit
  <2>2. jobs[w].at \in DeletionSteps => r.groupId \in Groups /\ r.closeIntentId \in CloseIntents
    BY <2>1, RequestType DEF Fits
  <2>3. jobs[w].at \in HoldingGroup => r.groupId # g
    BY <1>1 DEF GroupIsFree, LocksGroup, HoldingGroup
  <2>4. jobs[w].at \in Holding => registry'[r.closeIntentId] = Live(r.groupId)
    BY <1>3, <2>1, <2>2, LiveRow DEF Fits, Holding, DeletionSteps
  <2>5. jobs[w].at \in {"store", "commit"} =>
            \A i \in CloseIntents \ {r.closeIntentId} : registry'[i] # Live(r.groupId)
    BY <1>1, <1>3, <2>1, <2>2, <2>3, LiveRow DEF Fits, HoldingGroup, DeletionSteps
  <2>6. jobs[w].at = "purged" =>
            \A i \in jobs[w].rows :
                IsRetired(registry'[i]) /\ registry'[i].retainUntil <= jobs[w].txNow
    <3>1. jobs[w].rows \subseteq CloseIntents
      BY DEF IInv, RetentionTypeOK, Job
    <3> QED
      BY <1>3, <2>1, <3>1, NoRowIsNeither DEF Fits
  <2>7. jobs[w].at \in HoldingGroup => group'[r.groupId] # "Deleted"
    BY <1>2, <2>1, <2>2 DEF Fits, HoldingGroup, DeletionSteps
  <2> QED
    BY <2>1, <2>4, <2>5, <2>6, <2>7 DEF Fits
<1>6. LocksExclude'
  BY <1>1 DEF IInv, LocksExclude
<1>7. ReceiptsFit'
  <2>1. receipts' = receipts
    BY <1>1
  <2>2. \A o \in Operations, r \in Requests : CameFrom(o, r) => CameFrom(o, r)'
    BY <1>2, <2>1, RequestType DEF CameFrom
  <2>3. \A h : DeletionsOf(h)' = DeletionsOf(h)
    BY <2>1 DEF DeletionsOf
  <2>4. ASSUME NEW h \in Groups, group'[h] = "Deleted", NEW i \in CloseIntents
        PROVE  registry'[i] # Live(h)
    BY <1>1, <1>2, <1>3, <2>4, LiveRow DEF IInv, ReceiptsFit
  <2> QED
    BY <1>2, <2>1, <2>2, <2>3, <2>4 DEF IInv, ReceiptsFit
<1>8. RowsFit'
  BY <1>1, <1>3, LiveRow DEF IInv, RowsFit
<1>9. AnswersHold'
  BY <1>1 DEF AnswersHold
<1> QED
  BY <1>4, <1>5, <1>6, <1>7, <1>8, <1>9 DEF IInv

LEMMA TickKeeps ==
    ASSUME IInv, Tick
    PROVE  IInv'
<1>1. /\ now \in Nat /\ now' = now + 1 /\ answer' = NoAnswer
      /\ group' = group /\ registry' = registry /\ receipts' = receipts
      /\ jobs' = jobs /\ history' = history
  BY DEF Tick, dbVars, IInv, RetentionTypeOK
<1>2. RetentionTypeOK'
  BY <1>1 DEF IInv, RetentionTypeOK
<1>3. JobsFit'
  <2>1. \A w \in Workers : jobs[w].txNow \in Nat
    BY DEF IInv, RetentionTypeOK, Job
  <2>2. ASSUME NEW w \in Workers PROVE Fits(jobs[w])'
    <3>1. Fits(jobs[w]) /\ jobs[w].txNow \in Nat
      BY <2>1 DEF IInv, JobsFit
    <3>2. jobs[w].txNow <= now + 1
      BY <1>1, <3>1 DEF Fits
    <3> QED
      BY <1>1, <3>1, <3>2 DEF Fits
  <2> QED
    BY <2>2 DEF JobsFit
<1>4. LocksExclude'
  BY <1>1 DEF IInv, LocksExclude
<1>5. ReceiptsFit'
  BY <1>1 DEF IInv, ReceiptsFit, CameFrom, DeletionsOf
<1>6. RowsFit'
  <2>1. \A i \in CloseIntents : history[i].deletedAt \in Nat \cup {NotYet}
    BY DEF IInv, RetentionTypeOK
  <2>2. ASSUME NEW i \in CloseIntents, registry[i] = NoRow, history[i].used
        PROVE  history[i].deletedAt # NotYet /\ now + 1 >= history[i].deletedAt + Year
    BY <1>1, <2>1, <2>2, BoundsAssumption DEF IInv, RowsFit, NotYet
  <2> QED
    BY <1>1, <2>2 DEF IInv, RowsFit
<1>7. AnswersHold'
  BY <1>1 DEF AnswersHold
<1> QED
  BY <1>2, <1>3, <1>4, <1>5, <1>6, <1>7 DEF IInv

(* The commit of a deletion, whatever its caller is told.                  *)
LEMMA CommitKeeps ==
    ASSUME IInv, NEW w \in Workers, NEW kind \in {"Deleted", "Unavailable"}, Commit(w, kind)
    PROVE  IInv'
<1>0. PICK r \in Requests : r = jobs[w].request
  BY DEF Commit, IInv, RetentionTypeOK, DeletionSteps
<1> DEFINE i == r.closeIntentId
           o == r.receipt.operationId
           t == jobs[w].txNow
<1>1. /\ jobs[w].at = "commit" /\ jobs \in [Workers -> Job] /\ t \in Nat /\ t <= now
      /\ r \in Requests /\ IsBoundByEvidence(r)
      /\ registry[i] = Live(r.groupId) /\ group[r.groupId] # "Deleted"
      /\ \A k \in CloseIntents \ {i} : registry[k] # Live(r.groupId)
      /\ receipts[o] = NoReceipt
      /\ now \in Nat /\ now' = now
  BY <1>0 DEF Commit, IInv, RetentionTypeOK, JobsFit, Fits, DeletionSteps, Holding,
              HoldingGroup, Job
<1>2. /\ r.groupId \in Groups /\ i \in CloseIntents /\ o \in Operations
      /\ r.receipt \in ReceiptRecord /\ r.receipt # NoReceipt
  BY <1>1, RequestType
<1>3. /\ registry' = [registry EXCEPT ![i] = Retired(t + Year)]
      /\ group' = [group EXCEPT ![r.groupId] = "Deleted"]
      /\ receipts' = [receipts EXCEPT ![o] = r.receipt]
      /\ history' = [history EXCEPT ![i].deletedAt = t]
      /\ answer' = [kind |-> kind, request |-> r]
      /\ jobs' = [jobs EXCEPT ![w] = Idle]
  BY <1>0 DEF Commit, Write, Answer
<1>4. /\ group \in [Groups -> {"Active", "Closing", "Archived", "Deleted"}]
      /\ registry \in [CloseIntents -> RegistryRow \cup {NoRow}]
      /\ receipts \in [Operations -> ReceiptRecord \cup {NoReceipt}]
      /\ history \in [CloseIntents -> [used: BOOLEAN, deletedAt: Nat \cup {NotYet}]]
  BY DEF IInv, RetentionTypeOK
<1>5. /\ t + Year \in Nat /\ Retired(t + Year) \in RegistryRow
      /\ Retired(t + Year) # NoRow /\ IsRetired(Retired(t + Year))
      /\ Retired(t + Year).groupId = NoGroup /\ Retired(t + Year).retainUntil = t + Year
      /\ \A g \in Groups : Retired(t + Year) # Live(g)
  BY <1>1, BoundsAssumption, RetiredRow
<1>6. /\ registry'[i] = Retired(t + Year)
      /\ \A k \in CloseIntents : k # i => registry'[k] = registry[k]
      /\ group'[r.groupId] = "Deleted"
      /\ \A g \in Groups : g # r.groupId => group'[g] = group[g]
      /\ receipts'[o] = r.receipt
      /\ \A p \in Operations : p # o => receipts'[p] = receipts[p]
      /\ history'[i].deletedAt = t
      /\ \A k \in CloseIntents : k # i => history'[k] = history[k]
  BY <1>2, <1>3, <1>4
<1>7. /\ jobs' \in [Workers -> Job] /\ jobs'[w] = Idle
      /\ \A v \in Workers : v # w => jobs'[v] = jobs[v]
  BY <1>1, <1>3, IdleJob
<1>8. RetentionTypeOK'
  <2>1. group' \in [Groups -> {"Active", "Closing", "Archived", "Deleted"}]
    BY <1>3, <1>4
  <2>2. registry' \in [CloseIntents -> RegistryRow \cup {NoRow}]
    BY <1>3, <1>4, <1>5
  <2>3. receipts' \in [Operations -> ReceiptRecord \cup {NoReceipt}]
    BY <1>2, <1>3, <1>4
  <2>4. history' \in [CloseIntents -> [used: BOOLEAN, deletedAt: Nat \cup {NotYet}]]
    BY <1>1, <1>2, <1>3, <1>4
  <2>5. \A k \in CloseIntents :
            registry'[k] # NoRow =>
                (registry'[k].groupId = NoGroup <=> registry'[k].retainUntil # NotYet)
    BY <1>5, <1>6 DEF IInv, RetentionTypeOK, NotYet
  <2>6. \A v \in Workers : jobs'[v].at \in DeletionSteps => jobs'[v].request \in Requests
    BY <1>7, IdleJob DEF IInv, RetentionTypeOK, DeletionSteps
  <2>7. answer' \in [kind: AnswerKinds, request: Requests \cup {NoRequest}]
    BY <1>1, <1>3 DEF AnswerKinds
  <2> QED
    BY <1>1, <1>7, <2>1, <2>2, <2>3, <2>4, <2>5, <2>6, <2>7 DEF RetentionTypeOK
<1>9. JobsFit'
  <2> SUFFICES ASSUME NEW v \in Workers PROVE Fits(jobs[v])'
    BY DEF JobsFit
  <2>1. CASE v = w
    BY <1>1, <1>7, <2>1, IdleJob DEF Fits, DeletionSteps, Holding, HoldingGroup
  <2>2. CASE v # w
    <3> DEFINE s == jobs[v].request
    <3>1. Fits(jobs[v]) /\ jobs'[v] = jobs[v] /\ Apart(jobs[v], jobs[w])
      BY <1>7, <2>2 DEF IInv, JobsFit, LocksExclude
    <3>2. /\ jobs[v].at \in DeletionSteps =>
                 /\ s \in Requests /\ s.groupId \in Groups /\ s.closeIntentId \in CloseIntents
                 /\ s.receipt.operationId \in Operations
          /\ jobs[v].rows \subseteq CloseIntents
      BY <3>1, RequestType DEF Fits, IInv, RetentionTypeOK, Job
    <3>3. RowsOf(jobs[w]) = {i} /\ GroupsOf(jobs[w]) = {r.groupId} /\ OperationsOf(jobs[w]) = {o}
      BY <1>0, <1>1 DEF RowsOf, GroupsOf, OperationsOf, Holding, HoldingGroup
    <3>4. /\ jobs[v].at \in Holding => s.closeIntentId # i
          /\ jobs[v].at \in HoldingGroup => s.groupId # r.groupId
          /\ jobs[v].at = "commit" => s.receipt.operationId # o
          /\ jobs[v].at = "purged" => i \notin jobs[v].rows
      BY <3>1, <3>3 DEF Apart, RowsOf, GroupsOf, OperationsOf, Holding, HoldingGroup
    <3>5. jobs[v].at \in Holding => registry'[s.closeIntentId] = Live(s.groupId)
      BY <1>6, <3>1, <3>2, <3>4 DEF Fits, Holding, DeletionSteps
    <3>6. jobs[v].at \in HoldingGroup => group'[s.groupId] # "Deleted"
      BY <1>6, <3>1, <3>2, <3>4 DEF Fits, HoldingGroup, DeletionSteps
    <3>7. jobs[v].at \in {"store", "commit"} =>
              \A k \in CloseIntents \ {s.closeIntentId} : registry'[k] # Live(s.groupId)
      BY <1>5, <1>6, <3>1, <3>2 DEF Fits, DeletionSteps
    <3>8. jobs[v].at = "commit" => receipts'[s.receipt.operationId] = NoReceipt
      BY <1>6, <3>1, <3>2, <3>4 DEF Fits, DeletionSteps
    <3>9. jobs[v].at = "purged" =>
              \A k \in jobs[v].rows :
                  IsRetired(registry'[k]) /\ registry'[k].retainUntil <= jobs[v].txNow
      BY <1>6, <3>1, <3>2, <3>4 DEF Fits
    <3> QED
      BY <1>1, <3>1, <3>5, <3>6, <3>7, <3>8, <3>9 DEF Fits
  <2> QED
    BY <2>1, <2>2
<1>10. LocksExclude'
  BY <1>7, IdleJob DEF IInv, LocksExclude
<1>11. ReceiptsFit'
  <2>1. CameFrom(o, r)'
    <3>1. r.evidence = [operationId |-> o, intentVersion |-> r.receipt.intentVersion]
      BY <1>1, EvidenceBinds
    <3>2. /\ r.receipt = receipts'[o] /\ group'[r.groupId] = "Deleted"
          /\ r.evidence = [operationId |-> o, intentVersion |-> receipts'[o].intentVersion]
      BY <1>6, <3>1
    <3> QED
      BY <3>2 DEF CameFrom
  <2>2. ASSUME NEW p \in Operations, receipts'[p] # NoReceipt
        PROVE  receipts'[p].operationId = p /\ \E s \in Requests : CameFrom(p, s)'
    <3>1. CASE p = o
      BY <1>1, <1>6, <2>1, <3>1
    <3>2. CASE p # o
      <4>1. receipts'[p] = receipts[p] /\ receipts[p] # NoReceipt
        BY <1>6, <2>2, <3>2
      <4>2. PICK s \in Requests : CameFrom(p, s)
        BY <4>1 DEF IInv, ReceiptsFit
      <4>3. s.groupId \in Groups
        BY RequestType
      <4>4. CameFrom(p, s)'
        BY <1>6, <4>1, <4>2, <4>3 DEF CameFrom
      <4> QED
        BY <4>1, <4>4 DEF IInv, ReceiptsFit
    <3> QED
      BY <3>1, <3>2
  <2>3. DeletionsOf(r.groupId)' = {o}
    <3>1. \A p \in Operations :
              p # o /\ (\E s \in Requests : s.groupId = r.groupId /\ s.receipt = receipts[p])
                  => FALSE
      <4> SUFFICES ASSUME NEW p \in Operations, NEW s \in Requests,
                          s.groupId = r.groupId, s.receipt = receipts[p]
                   PROVE  FALSE
        OBVIOUS
      <4>1. receipts[p] # NoReceipt
        BY RequestType
      <4>2. PICK q \in Requests : CameFrom(p, q)
        BY <4>1 DEF IInv, ReceiptsFit
      <4>3. q.receipt = s.receipt /\ group[q.groupId] = "Deleted"
        BY <4>2 DEF CameFrom
      <4>4. q.groupId = s.groupId
        BY <4>3, RequestsAssumption
      <4> QED
        BY <1>1, <4>3, <4>4
    <3>2. o \in DeletionsOf(r.groupId)'
      BY <1>1, <1>2, <1>6 DEF DeletionsOf
    <3>3. \A p \in DeletionsOf(r.groupId)' : p = o
      BY <1>6, <3>1 DEF DeletionsOf
    <3> QED
      BY <3>2, <3>3
  <2>4. ASSUME NEW g \in Groups, g # r.groupId
        PROVE  DeletionsOf(g)' = DeletionsOf(g)
    <3>1. \A s \in Requests : s.receipt = r.receipt => s.groupId = r.groupId
      BY <1>1, RequestsAssumption
    <3>2. \A s \in Requests : s.receipt # NoReceipt
      BY RequestType
    <3>3. ASSUME NEW p \in Operations
          PROVE  (\E s \in Requests : s.groupId = g /\ s.receipt = receipts'[p])
                     <=> (\E s \in Requests : s.groupId = g /\ s.receipt = receipts[p])
      <4>1. CASE p = o
        BY <1>1, <1>6, <2>4, <3>1, <3>2, <4>1
      <4>2. CASE p # o
        BY <1>6, <4>2
      <4> QED
        BY <4>1, <4>2
    <3> QED
      BY <3>3 DEF DeletionsOf
  <2>5. ASSUME NEW g \in Groups, group'[g] = "Deleted"
        PROVE  /\ \E p \in Operations : DeletionsOf(g)' = {p}
               /\ \A k \in CloseIntents : registry'[k] # Live(g)
    <3>1. CASE g = r.groupId
      BY <1>1, <1>2, <1>5, <1>6, <2>3, <3>1
    <3>2. CASE g # r.groupId
      <4>1. group[g] = "Deleted"
        BY <1>6, <2>5, <3>2
      <4>2. /\ \E p \in Operations : DeletionsOf(g) = {p}
            /\ \A k \in CloseIntents : registry[k] # Live(g)
        BY <4>1 DEF IInv, ReceiptsFit
      <4> QED
        BY <1>5, <1>6, <2>4, <3>2, <4>2
    <3> QED
      BY <3>1, <3>2
  <2> QED
    BY <2>2, <2>5 DEF ReceiptsFit
<1>12. RowsFit'
  <2>1. t # NotYet
    BY <1>1 DEF NotYet
  <2> QED
    BY <1>1, <1>5, <1>6, <2>1 DEF IInv, RowsFit
<1>13. AnswersHold'
  BY <1>3, <1>6 DEF AnswersHold
<1> QED
  BY <1>8, <1>9, <1>10, <1>11, <1>12, <1>13 DEF IInv

(* The commit of a purge: the rows it removes are retired, and their year  *)
(* was over when the purge began.                                          *)
LEMMA CommitPurgeKeeps ==
    ASSUME IInv, NEW w \in Workers, NEW kind \in {"Purged", "Unavailable"},
           CommitPurge(w, kind)
    PROVE  IInv'
<1>1. /\ jobs[w].at = "purged" /\ jobs[w] \in Job
      /\ jobs[w].rows \subseteq CloseIntents /\ jobs[w].txNow \in Nat /\ jobs[w].txNow <= now
      /\ \A i \in jobs[w].rows :
             IsRetired(registry[i]) /\ registry[i].retainUntil <= jobs[w].txNow
      /\ RowsOf(jobs[w]) = jobs[w].rows
      /\ now' = now /\ group' = group /\ receipts' = receipts /\ history' = history
  BY DEF CommitPurge, IInv, RetentionTypeOK, Job, JobsFit, Fits, RowsOf, Holding
<1>2. PICK rows \in SUBSET CloseIntents : rows = jobs[w].rows
  BY <1>1
<1>3. /\ \A i \in rows : registry'[i] = NoRow
      /\ \A i \in CloseIntents \ rows : registry'[i] = registry[i]
      /\ registry' \in [CloseIntents -> RegistryRow \cup {NoRow}]
  BY <1>2 DEF CommitPurge, IInv, RetentionTypeOK
<1>4. /\ jobs' \in [Workers -> Job] /\ jobs'[w] = Idle
      /\ \A v \in Workers : v # w => jobs'[v] = jobs[v]
  BY IdleJob DEF CommitPurge, Answer, IInv, RetentionTypeOK
<1>5. answer' \in [kind: AnswerKinds, request: Requests \cup {NoRequest}] /\ answer'.kind = kind
  <2>1. jobs[w].request \in Requests \cup {NoRequest}
    BY <1>1 DEF Job
  <2> QED
    BY <2>1 DEF CommitPurge, Answer, AnswerKinds
<1>6. RetentionTypeOK'
  <2>1. \A i \in CloseIntents :
            registry'[i] # NoRow =>
                (registry'[i].groupId = NoGroup <=> registry'[i].retainUntil # NotYet)
    BY <1>3 DEF IInv, RetentionTypeOK
  <2>2. \A v \in Workers : jobs'[v].at \in DeletionSteps => jobs'[v].request \in Requests
    BY <1>4, IdleJob DEF IInv, RetentionTypeOK, DeletionSteps
  <2> QED
    BY <1>1, <1>3, <1>4, <1>5, <2>1, <2>2 DEF IInv, RetentionTypeOK
<1>7. JobsFit'
  <2> SUFFICES ASSUME NEW v \in Workers PROVE Fits(jobs[v])'
    BY DEF JobsFit
  <2>1. CASE v = w
    BY <1>1, <1>4, <2>1, IdleJob DEF Fits, DeletionSteps, Holding, HoldingGroup,
                                     IInv, RetentionTypeOK
  <2>2. CASE v # w
    <3> DEFINE s == jobs[v].request
    <3>1. Fits(jobs[v]) /\ jobs'[v] = jobs[v] /\ RowsOf(jobs[v]) \cap rows = {}
      BY <1>1, <1>2, <1>4, <2>2 DEF IInv, JobsFit, LocksExclude, Apart
    <3>2. /\ jobs[v].at \in DeletionSteps => s.groupId \in Groups /\ s.closeIntentId \in CloseIntents
          /\ jobs[v].rows \subseteq CloseIntents
      BY <3>1, RequestType DEF Fits, IInv, RetentionTypeOK, Job
    <3>3. jobs[v].at \in Holding => registry'[s.closeIntentId] = Live(s.groupId)
      <4>1. jobs[v].at \in Holding => s.closeIntentId \in CloseIntents \ rows
        BY <3>1, <3>2 DEF RowsOf, Holding, DeletionSteps
      <4> QED
        BY <1>3, <3>1, <4>1 DEF Fits
    <3>4. jobs[v].at \in {"store", "commit"} =>
              \A k \in CloseIntents \ {s.closeIntentId} : registry'[k] # Live(s.groupId)
      BY <1>3, <3>1, <3>2, LiveRow DEF Fits, DeletionSteps
    <3>5. jobs[v].at = "purged" =>
              \A k \in jobs[v].rows :
                  IsRetired(registry'[k]) /\ registry'[k].retainUntil <= jobs[v].txNow
      <4>1. jobs[v].at = "purged" => jobs[v].rows \subseteq CloseIntents \ rows
        BY <3>1, <3>2 DEF RowsOf, Holding
      <4> QED
        BY <1>3, <3>1, <4>1 DEF Fits
    <3> QED
      BY <1>1, <3>1, <3>3, <3>4, <3>5 DEF Fits
  <2> QED
    BY <2>1, <2>2
<1>8. LocksExclude'
  BY <1>4, IdleJob DEF IInv, LocksExclude
<1>9. ReceiptsFit'
  <2>1. \A o \in Operations, r \in Requests : CameFrom(o, r) => CameFrom(o, r)'
    BY <1>1 DEF CameFrom
  <2>2. \A g : DeletionsOf(g)' = DeletionsOf(g)
    BY <1>1 DEF DeletionsOf
  <2>3. \A g \in Groups, i \in CloseIntents : registry'[i] = Live(g) => registry[i] = Live(g)
    BY <1>3, LiveRow
  <2> QED
    BY <1>1, <2>1, <2>2, <2>3 DEF IInv, ReceiptsFit
<1>10. RowsFit'
  <2> SUFFICES ASSUME NEW i \in CloseIntents
               PROVE  /\ IsRetired(registry'[i]) =>
                            /\ history[i].deletedAt # NotYet
                            /\ registry'[i].retainUntil = history[i].deletedAt + Year
                      /\ registry'[i] = NoRow /\ history[i].used =>
                            history[i].deletedAt # NotYet /\ now >= history[i].deletedAt + Year
    BY <1>1 DEF RowsFit
  <2>1. CASE i \in rows
    <3>1. /\ IsRetired(registry[i]) /\ registry[i].retainUntil <= jobs[w].txNow
          /\ history[i].deletedAt # NotYet
          /\ registry[i].retainUntil = history[i].deletedAt + Year
      BY <1>1, <1>2, <2>1 DEF IInv, RowsFit
    <3>2. history[i].deletedAt \in Nat
      BY <3>1 DEF IInv, RetentionTypeOK
    <3>3. now \in Nat /\ Year \in Nat
      BY BoundsAssumption DEF IInv, RetentionTypeOK
    <3>4. now >= history[i].deletedAt + Year
      BY <1>1, <3>1, <3>2, <3>3
    <3> QED
      BY <1>3, <2>1, <3>1, <3>4, NoRowIsNeither
  <2>2. CASE i \notin rows
    BY <1>3, <2>2 DEF IInv, RowsFit
  <2> QED
    BY <2>1, <2>2
<1>11. AnswersHold'
  BY <1>5 DEF AnswersHold
<1> QED
  BY <1>6, <1>7, <1>8, <1>9, <1>10, <1>11 DEF IInv

LEMMA FailKeeps ==
    ASSUME IInv, NEW w \in Workers, Fail(w)
    PROVE  IInv'
  BY EndsWithoutPromise DEF Fail, AnswerKinds

-----------------------------------------------------------------------------
(* The theorems                                                            *)

LEMMA StutterKeeps ==
    ASSUME IInv, UNCHANGED vars
    PROVE  IInv'
<1>1. /\ now' = now /\ group' = group /\ registry' = registry /\ receipts' = receipts
      /\ jobs' = jobs /\ answer' = answer /\ history' = history
  BY DEF vars, dbVars
<1>2. RetentionTypeOK'
  BY <1>1 DEF IInv, RetentionTypeOK
<1>3. JobsFit'
  BY <1>1 DEF IInv, JobsFit, Fits
<1>4. LocksExclude'
  BY <1>1 DEF IInv, LocksExclude
<1>5. ReceiptsFit'
  BY <1>1 DEF IInv, ReceiptsFit, CameFrom, DeletionsOf
<1>6. RowsFit' /\ AnswersHold'
  BY <1>1 DEF IInv, RowsFit, AnswersHold
<1> QED
  BY <1>2, <1>3, <1>4, <1>5, <1>6 DEF IInv

LEMMA NextKeeps ==
    ASSUME IInv, [Next]_vars
    PROVE  IInv'
<1>1. CASE Lifecycle
  BY <1>1, LifecycleKeeps
<1>2. ASSUME NEW w \in Workers, Start(w) PROVE IInv'
  BY <1>2, DeleteKeeps, FindReceiptKeeps, BeginPurgeKeeps DEF Start
<1>3. ASSUME NEW w \in Workers, Step(w) PROVE IInv'
  <2>1. CASE ReadReceipt(w) \/ LockRegistry(w) \/ LockGroup(w)
    BY <2>1, ReadReceiptKeeps, LockRegistryKeeps, LockGroupKeeps
  <2>2. CASE RetireAndDelete(w) \/ StoreReceipt(w) \/ Commit(w, "Deleted")
    BY <2>2, RetireAndDeleteKeeps, StoreReceiptKeeps, CommitKeeps
  <2>3. CASE DeleteExpired(w) \/ CommitPurge(w, "Purged")
    BY <2>3, DeleteExpiredKeeps, CommitPurgeKeeps
  <2> QED
    BY <1>3, <2>1, <2>2, <2>3 DEF Step
<1>4. ASSUME NEW w \in Workers, Fault(w) PROVE IInv'
  BY <1>4, FailKeeps, CommitKeeps, CommitPurgeKeeps DEF Fault
<1>5. CASE Tick
  BY <1>5, TickKeeps
<1>6. CASE UNCHANGED vars
  BY <1>6, StutterKeeps
<1> QED
  BY <1>1, <1>2, <1>3, <1>4, <1>5, <1>6 DEF Next

LEMMA IInvAlways == Spec => []IInv
<1>1. IInv /\ [Next]_vars => IInv'
  BY NextKeeps
<1> QED
  BY <1>1, InitFits, PTL DEF Spec

(* Every variable has its type, and a transaction of a deletion has the    *)
(* request it serves.                                                      *)
THEOREM RetentionTypeCorrect == Spec => []RetentionTypeOK
<1>1. IInv => RetentionTypeOK
  BY DEF IInv
<1> QED
  BY <1>1, IInvAlways, PTL

LEMMA ReceiptsTellDeletion ==
    ASSUME IInv
    PROVE  GoneWithReceipt
<1>1. ASSUME NEW g \in Groups, group[g] = "Deleted"
      PROVE  /\ Cardinality(DeletionsOf(g)) = 1
             /\ \A i \in CloseIntents : registry[i] # Live(g)
  <2>1. PICK o \in Operations : DeletionsOf(g) = {o}
    BY <1>1 DEF IInv, ReceiptsFit
  <2>2. \A i \in CloseIntents : registry[i] # Live(g)
    BY <1>1 DEF IInv, ReceiptsFit
  <2> QED
    BY <2>1, <2>2, FS_Singleton
<1>2. ASSUME NEW g \in Groups, group[g] # "Deleted", NEW o \in DeletionsOf(g)
      PROVE  FALSE
  <2>1. PICK r \in Requests : r.groupId = g /\ r.receipt = receipts[o] /\ o \in Operations
    BY <1>2 DEF DeletionsOf
  <2>2. receipts[o] # NoReceipt
    BY <2>1, RequestType
  <2>3. PICK s \in Requests : CameFrom(o, s)
    BY <2>1, <2>2 DEF IInv, ReceiptsFit
  <2>4. s.groupId = g
    BY <2>1, <2>3, RequestsAssumption DEF CameFrom
  <2> QED
    BY <1>2, <2>3, <2>4 DEF CameFrom
<1>3. \A g \in Groups : group[g] # "Deleted" => DeletionsOf(g) = {}
  BY <1>2
<1> QED
  BY <1>1, <1>3 DEF GoneWithReceipt

(* The registry's retirement, the group's removal and the receipt are      *)
(* committed together or not at all and on evidence; what a deletion has   *)
(* read under its locks holds until then, however transactions interleave  *)
(* and wherever they fail.                                                 *)
THEOREM DeletionsAreTogether == Spec => []DeletedTogether
<1>1. ASSUME IInv PROVE LockedRowsStand
  <2>1. \A w \in Workers : Fits(jobs[w])
    BY <1>1 DEF IInv, JobsFit
  <2> QED
    BY <2>1 DEF LockedRowsStand, Fits, Holding, HoldingGroup
<1>2. ASSUME IInv PROVE DeletedOnEvidence
  BY <1>2 DEF IInv, ReceiptsFit, CameFrom, DeletedOnEvidence
<1>3. IInv => DeletedTogether
  BY <1>1, <1>2, ReceiptsTellDeletion DEF DeletedTogether, IInv
<1> QED
  BY <1>3, IInvAlways, PTL

(* An answer that a deletion is done is true when it is given.             *)
THEOREM AnswersAreTrue == Spec => []AnswersHold
<1>1. IInv => AnswersHold
  BY DEF IInv
<1> QED
  BY <1>1, IInvAlways, PTL

(* No step replaces a stored receipt or brings a group back.               *)
THEOREM DeletionsAreFinal == Spec => DeletionIsFinal
<1>1. ASSUME IInv, [Next]_vars PROVE DeletionStands
  <2>1. /\ group \in [Groups -> {"Active", "Closing", "Archived", "Deleted"}]
        /\ receipts \in [Operations -> ReceiptRecord \cup {NoReceipt}]
    BY <1>1 DEF IInv, RetentionTypeOK
  <2>2. CASE group' = group /\ receipts' = receipts
    BY <2>2 DEF DeletionStands
  <2>3. CASE Lifecycle
    BY <2>1, <2>3 DEF Lifecycle, StartClosing, EndClosing, DeletionStands
  <2>4. ASSUME NEW w \in Workers, NEW kind, Commit(w, kind) PROVE DeletionStands
    <3>1. receipts[jobs[w].request.receipt.operationId] = NoReceipt
      BY <1>1, <2>4 DEF Commit, IInv, JobsFit, Fits
    <3> QED
      BY <2>1, <2>4, <3>1 DEF Commit, Write, DeletionStands
  <2>5. ASSUME NEW w \in Workers, Start(w) PROVE group' = group /\ receipts' = receipts
    BY <2>5 DEF Start, Delete, FindReceipt, BeginPurge, dbVars
  <2>6. ASSUME NEW w \in Workers, Step(w), ~ Commit(w, "Deleted")
        PROVE  group' = group /\ receipts' = receipts
    BY <2>6 DEF Step, ReadReceipt, LockRegistry, LockGroup, RetireAndDelete, StoreReceipt,
                DeleteExpired, CommitPurge, dbVars
  <2>7. ASSUME NEW w \in Workers, Fault(w), ~ Commit(w, "Unavailable")
        PROVE  group' = group /\ receipts' = receipts
    BY <2>7 DEF Fault, Fail, CommitPurge, dbVars
  <2>8. CASE Tick \/ UNCHANGED vars
    BY <2>2, <2>8 DEF Tick, vars, dbVars
  <2> QED
    BY <1>1, <2>2, <2>3, <2>4, <2>5, <2>6, <2>7, <2>8 DEF Next
<1> QED
  BY <1>1, IInvAlways, PTL DEF Spec, DeletionIsFinal

(* An id of a close intent that was used is registered again only when its *)
(* group was deleted and a year has passed since.                          *)
THEOREM IntentsAreNotReusedEarly == Spec => NoEarlyReuse
<1>1. ASSUME IInv PROVE RegisteredInTime
  BY <1>1 DEF IInv, RowsFit, RegisteredInTime
<1> QED
  BY <1>1, IInvAlways, PTL DEF NoEarlyReuse

-----------------------------------------------------------------------------
(* The calendar by which the retention is counted.                         *)

Dates == [year: Nat, month: 1 .. 12, day: 1 .. 31, time: Nat]
IsDate(local) == local \in Dates /\ local.day <= DaysIn(local.year, local.month)

(* The clamps of the two computations are the same on every date of every  *)
(* year.                                                                   *)
LEMMA ClampsAgree ==
    ASSUME NEW local, IsDate(local)
    PROVE  DomainDay(local) = AdapterDay(local)
  <1>1. CASE local.month = 2
    BY <1>1 DEF IsDate, Dates, DomainDay, AdapterDay, LesserOf, DaysIn
  <1>2. CASE local.month # 2
    BY <1>2 DEF IsDate, Dates, DomainDay, AdapterDay, LesserOf, DaysIn
  <1> QED BY <1>1, <1>2

(* So they agree at every instant that has a date in Tokyo, in every       *)
(* calendar and with any unit of time.                                     *)
THEOREM CalendarsAlwaysAgree ==
    ASSUME IsDate(InTokyo(instant))
    PROVE  CalendarsAgree
  <1>1. DomainDay(InTokyo(instant)) = AdapterDay(InTokyo(instant))
    BY ClampsAgree
  <1> QED
    BY <1>1 DEF CalendarsAgree, PlusCalendarYearInTokyo, AddTokyoCalendarYear

-----------------------------------------------------------------------------
(* Evidence                                                                *)

(* What a call under way can rely on: its ports are one of each context,   *)
(* and both receipts were issued before the keys are asked for.            *)
CallFits ==
    /\ attempt.at \in {"receipts", "keys"} =>
          /\ attempt.binding \in Bindings
          /\ attempt.keyPorts \in KeyWirings
          /\ KeyPortsRefusal(attempt.keyPorts) = "none"
    /\ attempt.at = "keys" =>
          \A x \in Contexts \ {"GroupManagement"} :
              [kind |-> "Receipt", context |-> x, binding |-> attempt.binding] \in done

AttemptIsRecord ==
    attempt = [at |-> attempt.at, binding |-> attempt.binding,
               keyPorts |-> attempt.keyPorts, answer |-> attempt.answer]

EvidenceInv ==
    /\ AttemptIsRecord
    /\ EvidenceTypeOK
    /\ CallFits
    /\ IssuedIsWhole

LEMMA EvidenceInitInv == EvidenceInit => EvidenceInv
  BY DEF EvidenceInit, EvidenceInv, AttemptIsRecord, EvidenceTypeOK, CallFits, IssuedIsWhole,
         IsVerifiedEvidence, Answers

LEMMA DoInv ==
    ASSUME EvidenceInv, NEW fact \in Facts, Do(fact)
    PROVE  EvidenceInv'
  BY DEF Do, EvidenceInv, AttemptIsRecord, EvidenceTypeOK, CallFits, IssuedIsWhole, IsVerifiedEvidence

LEMMA VerifyInv ==
    ASSUME EvidenceInv, NEW b \in Bindings \cup {Unprepared}, NEW r \in ReceiptWirings,
           NEW k \in KeyWirings, Verify(b, r, k)
    PROVE  EvidenceInv'
<1>1. AttemptIsRecord' /\ IssuedIsWhole'
  BY DEF Verify, EvidenceInv, AttemptIsRecord, IssuedIsWhole, IsVerifiedEvidence
<1>2. CallFits'
  BY DEF Verify, CallFits
<1>3. EvidenceTypeOK'
  BY DEF Verify, EvidenceInv, EvidenceTypeOK, Answers, ReceiptPortsRefusal, KeyPortsRefusal
<1> QED
  BY <1>1, <1>2, <1>3 DEF EvidenceInv

(* Key ports that pass the wiring check are exactly one of each context.   *)
LEMMA OnePortPerContext ==
    ASSUME NEW k \in KeyWirings, KeyPortsRefusal(k) = "none"
    PROVE  /\ Len(k) = 3
           /\ \A x \in Contexts : \E i \in 1 .. 3 : k[i] = x
           /\ \A i \in 1 .. 3 : k[i] \in Contexts
<1>1. k \in Seq(Contexts \cup {"Other"})
  BY WiringAssumption
<1>2. Len(k) \in Nat /\ DOMAIN k = 1 .. Len(k)
  BY <1>1
<1>3. /\ \A i, j \in DOMAIN k : k[i] = k[j] => i = j
      /\ \A i \in DOMAIN k : k[i] \in Contexts
      /\ \A x \in Contexts : \E i \in DOMAIN k : k[i] = x
  BY DEF KeyPortsRefusal, NoPortTwice, Declared
<1>4. Len(k) <= 3
  <2> SUFFICES ASSUME Len(k) > 3
               PROVE  FALSE
    BY <1>2
  <2>1. 1 \in DOMAIN k /\ 2 \in DOMAIN k /\ 3 \in DOMAIN k /\ 4 \in DOMAIN k
    BY <1>2
  <2> QED
    BY <2>1, <1>3 DEF Contexts
<1>5. Len(k) >= 3
  <2>1. PICK i \in DOMAIN k : k[i] = "GroupManagement"
    BY <1>3 DEF Contexts
  <2>2. PICK j \in DOMAIN k : k[j] = "ExpenseRecording"
    BY <1>3 DEF Contexts
  <2>3. PICK l \in DOMAIN k : k[l] = "Settlement"
    BY <1>3 DEF Contexts
  <2> QED
    BY <1>2, <2>1, <2>2, <2>3
<1> QED
  BY <1>2, <1>3, <1>4, <1>5


(* Of a few replies one is the first that is not in order.                 *)
LEMMA FirstOfFew ==
    ASSUME NEW n \in {2, 3}, NEW S \in SUBSET (1 .. n), S # {}
    PROVE  \E i \in S : \A j \in 1 .. i - 1 : j \notin S
<1>1. CASE 1 \in S
  BY <1>1
<1>2. CASE 1 \notin S /\ 2 \in S
  BY <1>2
<1>3. CASE 1 \notin S /\ 2 \notin S
  <2>1. 3 \in S
    <3>1. PICK i \in S : TRUE
      OBVIOUS
    <3>2. i \in 1 .. n /\ i # 1 /\ i # 2
      BY <1>3
    <3> QED
      BY <3>2
  <2>2. \A j \in 1 .. 2 : j \notin S
    BY <1>3
  <2> QED
    BY <2>1, <2>2
<1> QED
  BY <1>1, <1>2, <1>3

(* A reply that is in order is a fact the context really did.              *)
LEMMA InOrderIsVerified ==
    ASSUME NEW reply, NEW malformed, malformed # "none",
           reply \in ReceiptReplies \cup KeyReplies, reply.kind # "Threw",
           FailureOf(reply, malformed) = "none"
    PROVE  /\ reply.kind = "Verified" /\ reply.fact \in done
           /\ reply \in ReceiptReplies => reply.fact.kind = "Receipt"
           /\ reply \in KeyReplies => reply.fact.kind = "Keys"
<1>1. CASE reply.kind = "Rejected"
  BY <1>1 DEF FailureOf, MapRejection, ReceiptReplies, KeyReplies, Failures, Reply, Verified
<1>2. CASE reply.kind # "Rejected"
  BY <1>2 DEF FailureOf, ReceiptReplies, KeyReplies, Failures, Reply, Verified
<1> QED
  BY <1>1, <1>2

(* The receipts are accepted only if both are of the right context and of  *)
(* this binding.                                                           *)
LEMMA ReceiptsAccepted ==
    ASSUME EvidenceTypeOK, NEW first \in ReceiptReplies, NEW second \in ReceiptReplies,
           ~ Threw(<<first, second>>), NEW b,
           ReceiptRefusal(<<first, second>>, b) = "none"
    PROVE  \A x \in Contexts \ {"GroupManagement"} :
               [kind |-> "Receipt", context |-> x, binding |-> b] \in done
<1> DEFINE rs == <<first, second>>
           W == <<"ExpenseRecording", "Settlement">>
           J(i) == IF FailureOf(rs[i], "InvalidEvidence") # "none"
                   THEN FailureOf(rs[i], "InvalidEvidence")
                   ELSE IF rs[i].fact.binding # b THEN "BindingMismatch"
                   ELSE "none"
           K(i) == IF rs[i].fact.context = W[i] THEN "none" ELSE "UnexpectedContext"
<1>1. FirstRefusal(2, J) = "none" /\ FirstRefusal(2, K) = "none"
  BY DEF ReceiptRefusal
<1>2. \A i \in 1 .. 2 : J(i) = "none"
  <2> SUFFICES ASSUME NEW k \in 1 .. 2, J(k) # "none"
               PROVE  FALSE
    OBVIOUS
  <2> HIDE DEF J
  <2>1. \E i \in {m \in 1 .. 2 : J(m) # "none"} : \A j \in 1 .. i - 1 : j \notin {m \in 1 .. 2 : J(m) # "none"}
    BY FirstOfFew
  <2>2. \E i \in 1 .. 2 : J(i) # "none" /\ \A j \in 1 .. i - 1 : J(j) = "none"
    BY <2>1
  <2> QED
    BY <1>1, <2>2 DEF FirstRefusal
<1>3. \A i \in 1 .. 2 : K(i) = "none"
  <2> SUFFICES ASSUME NEW k \in 1 .. 2, K(k) # "none"
               PROVE  FALSE
    OBVIOUS
  <2> HIDE DEF K
  <2>1. \E i \in {m \in 1 .. 2 : K(m) # "none"} : \A j \in 1 .. i - 1 : j \notin {m \in 1 .. 2 : K(m) # "none"}
    BY FirstOfFew
  <2>2. \E i \in 1 .. 2 : K(i) # "none" /\ \A j \in 1 .. i - 1 : K(j) = "none"
    BY <2>1
  <2> QED
    BY <1>1, <2>2 DEF FirstRefusal
<1>4. \A i \in 1 .. 2 : rs[i].fact \in done /\ rs[i].fact.kind = "Receipt"
  BY <1>2, InOrderIsVerified DEF Threw
<1>5. \A i \in 1 .. 2 : rs[i].fact \in ReceiptFact
  BY <1>4, WiringAssumption DEF EvidenceTypeOK, ReceiptFact, KeyFact
<1>6. \A i \in 1 .. 2 :
          rs[i].fact = [kind |-> "Receipt", context |-> W[i], binding |-> b]
  BY <1>2, <1>3, <1>5 DEF ReceiptFact
<1>7. \A i \in 1 .. 2 : [kind |-> "Receipt", context |-> W[i], binding |-> b] \in done
  BY <1>4, <1>6
<1> QED
  BY <1>7 DEF Contexts

(* The keys are accepted only if all are of this binding and of the        *)
(* group's data.                                                           *)
LEMMA KeysAccepted ==
    ASSUME EvidenceTypeOK, NEW k \in KeyWirings, KeyPortsRefusal(k) = "none",
           NEW rs \in [1 .. Len(k) -> KeyReplies], ~ Threw(rs), NEW b,
           KeyRefusal(rs, k, b) = "none"
    PROVE  \A x \in Contexts :
               [kind |-> "Keys", context |-> x, binding |-> b, keyNamespace |-> "GroupData"] \in done
<1> DEFINE J(i) == IF FailureOf(rs[i], "IncompleteEvidence") # "none"
                   THEN FailureOf(rs[i], "IncompleteEvidence")
                   ELSE IF rs[i].fact.keyNamespace # "GroupData" THEN "KeyNamespaceMismatch"
                   ELSE IF rs[i].fact.context # k[i] THEN "UnexpectedContext"
                   ELSE IF rs[i].fact.binding # b THEN "BindingMismatch"
                   ELSE "none"
<1>1. FirstRefusal(3, J) = "none"
  BY OnePortPerContext DEF KeyRefusal
<1>2. \A i \in 1 .. 3 : J(i) = "none"
  <2> SUFFICES ASSUME NEW m \in 1 .. 3, J(m) # "none"
               PROVE  FALSE
    OBVIOUS
  <2> HIDE DEF J
  <2>1. \E i \in {l \in 1 .. 3 : J(l) # "none"} :
            \A j \in 1 .. i - 1 : j \notin {l \in 1 .. 3 : J(l) # "none"}
    BY FirstOfFew
  <2>2. \E i \in 1 .. 3 : J(i) # "none" /\ \A j \in 1 .. i - 1 : J(j) = "none"
    BY <2>1
  <2> QED
    BY <1>1, <2>2 DEF FirstRefusal
<1>3. \A i \in 1 .. 3 : rs[i] \in KeyReplies /\ rs[i].kind # "Threw"
  BY OnePortPerContext DEF Threw
<1>4. \A i \in 1 .. 3 : rs[i].fact \in done /\ rs[i].fact.kind = "Keys"
  BY <1>2, <1>3, InOrderIsVerified
<1>5. \A i \in 1 .. 3 : rs[i].fact \in KeyFact
  BY <1>4, WiringAssumption DEF EvidenceTypeOK, ReceiptFact, KeyFact
<1>6. \A i \in 1 .. 3 :
          rs[i].fact = [kind |-> "Keys", context |-> k[i], binding |-> b, keyNamespace |-> "GroupData"]
  BY <1>2, <1>5 DEF KeyFact
<1> QED
  BY <1>4, <1>6, OnePortPerContext

(* Every refusal is one of the declared answers.                           *)
LEMMA RefusalsAreAnswers ==
    ASSUME NEW reply \in ReceiptReplies \cup KeyReplies,
           NEW malformed \in {"InvalidEvidence", "IncompleteEvidence"}
    PROVE  FailureOf(reply, malformed) \in Answers
  BY DEF FailureOf, MapRejection, ReceiptReplies, KeyReplies, Failures, Reply, Verified, Answers

LEMMA ReceiptRefusalIsAnswer ==
    ASSUME NEW first \in ReceiptReplies, NEW second \in ReceiptReplies, NEW b
    PROVE  ReceiptRefusal(<<first, second>>, b) \in Answers
<1> DEFINE rs == <<first, second>>
           J(i) == IF FailureOf(rs[i], "InvalidEvidence") # "none"
                   THEN FailureOf(rs[i], "InvalidEvidence")
                   ELSE IF rs[i].fact.binding # b THEN "BindingMismatch"
                   ELSE "none"
           K(i) == IF rs[i].fact.context = <<"ExpenseRecording", "Settlement">>[i]
                   THEN "none" ELSE "UnexpectedContext"
<1>1. \A i \in 1 .. 2 : J(i) \in Answers /\ K(i) \in Answers
  <2>1. \A i \in 1 .. 2 : rs[i] \in ReceiptReplies
    OBVIOUS
  <2> QED
    BY <2>1, RefusalsAreAnswers DEF Answers
<1>2. ReceiptRefusal(<<first, second>>, b) \in {FirstRefusal(2, J), FirstRefusal(2, K)}
  BY DEF ReceiptRefusal
<1> HIDE DEF J, K
<1>3. FirstRefusal(2, J) \in Answers
  <2> SUFFICES ASSUME NEW m \in 1 .. 2, J(m) # "none"
               PROVE  FirstRefusal(2, J) \in Answers
    BY DEF FirstRefusal, Answers
  <2>1. \E i \in {l \in 1 .. 2 : J(l) # "none"} :
            \A j \in 1 .. i - 1 : j \notin {l \in 1 .. 2 : J(l) # "none"}
    BY FirstOfFew
  <2>2. \E i \in 1 .. 2 : J(i) # "none" /\ \A j \in 1 .. i - 1 : J(j) = "none"
    BY <2>1
  <2> QED
    BY <1>1, <2>2 DEF FirstRefusal
<1>4. FirstRefusal(2, K) \in Answers
  <2> SUFFICES ASSUME NEW m \in 1 .. 2, K(m) # "none"
               PROVE  FirstRefusal(2, K) \in Answers
    BY DEF FirstRefusal, Answers
  <2>1. \E i \in {l \in 1 .. 2 : K(l) # "none"} :
            \A j \in 1 .. i - 1 : j \notin {l \in 1 .. 2 : K(l) # "none"}
    BY FirstOfFew
  <2>2. \E i \in 1 .. 2 : K(i) # "none" /\ \A j \in 1 .. i - 1 : K(j) = "none"
    BY <2>1
  <2> QED
    BY <1>1, <2>2 DEF FirstRefusal
<1> QED
  BY <1>2, <1>3, <1>4

LEMMA KeyRefusalIsAnswer ==
    ASSUME NEW k \in KeyWirings, KeyPortsRefusal(k) = "none",
           NEW rs \in [1 .. Len(k) -> KeyReplies], NEW b
    PROVE  KeyRefusal(rs, k, b) \in Answers
<1> DEFINE J(i) == IF FailureOf(rs[i], "IncompleteEvidence") # "none"
                   THEN FailureOf(rs[i], "IncompleteEvidence")
                   ELSE IF rs[i].fact.keyNamespace # "GroupData" THEN "KeyNamespaceMismatch"
                   ELSE IF rs[i].fact.context # k[i] THEN "UnexpectedContext"
                   ELSE IF rs[i].fact.binding # b THEN "BindingMismatch"
                   ELSE "none"
<1>1. \A i \in 1 .. 3 : J(i) \in Answers
  BY OnePortPerContext, RefusalsAreAnswers DEF Answers
<1>2. KeyRefusal(rs, k, b) = FirstRefusal(3, J)
  BY OnePortPerContext DEF KeyRefusal
<1> HIDE DEF J
<1>3. FirstRefusal(3, J) \in Answers
  <2> SUFFICES ASSUME NEW m \in 1 .. 3, J(m) # "none"
               PROVE  FirstRefusal(3, J) \in Answers
    BY DEF FirstRefusal, Answers
  <2>1. \E i \in {l \in 1 .. 3 : J(l) # "none"} :
            \A j \in 1 .. i - 1 : j \notin {l \in 1 .. 3 : J(l) # "none"}
    BY FirstOfFew
  <2>2. \E i \in 1 .. 3 : J(i) # "none" /\ \A j \in 1 .. i - 1 : J(j) = "none"
    BY <2>1
  <2> QED
    BY <1>1, <2>2 DEF FirstRefusal
<1> QED
  BY <1>2, <1>3

LEMMA AnswerReceiptsInv ==
    ASSUME EvidenceInv, AnswerReceipts
    PROVE  EvidenceInv'
<1>1. PICK first \in ReceiptReplies, second \in ReceiptReplies :
          LET refusal == IF Threw(<<first, second>>) THEN "Unavailable"
                         ELSE ReceiptRefusal(<<first, second>>, attempt.binding)
          IN  attempt' = [attempt EXCEPT
                    !.at = IF refusal = "none" THEN "keys" ELSE "answered",
                    !.answer = refusal]
  BY DEF AnswerReceipts
<1> DEFINE refusal == IF Threw(<<first, second>>) THEN "Unavailable"
                      ELSE ReceiptRefusal(<<first, second>>, attempt.binding)
<1>2. /\ attempt.at = "receipts" /\ UNCHANGED <<done, issued>>
      /\ attempt'.at = (IF refusal = "none" THEN "keys" ELSE "answered")
      /\ attempt'.answer = refusal
      /\ attempt'.binding = attempt.binding /\ attempt'.keyPorts = attempt.keyPorts
      /\ AttemptIsRecord'
  BY <1>1 DEF AnswerReceipts, EvidenceInv, AttemptIsRecord
<1>3. refusal \in Answers
  BY ReceiptRefusalIsAnswer DEF Answers
<1>4. refusal = "none" =>
          \A x \in Contexts \ {"GroupManagement"} :
              [kind |-> "Receipt", context |-> x, binding |-> attempt.binding] \in done
  BY ReceiptsAccepted DEF EvidenceInv
<1> HIDE DEF refusal
<1>5. EvidenceTypeOK' /\ IssuedIsWhole'
  BY <1>2, <1>3 DEF EvidenceInv, EvidenceTypeOK, IssuedIsWhole, IsVerifiedEvidence
<1>6. CallFits'
  BY <1>2, <1>4 DEF EvidenceInv, CallFits
<1> QED
  BY <1>2, <1>5, <1>6 DEF EvidenceInv

LEMMA AnswerKeysInv ==
    ASSUME EvidenceInv, AnswerKeys
    PROVE  EvidenceInv'
<1>1. PICK rs \in [1 .. Len(attempt.keyPorts) -> KeyReplies] :
          LET refusal == IF Threw(rs) THEN "Unavailable"
                         ELSE KeyRefusal(rs, attempt.keyPorts, attempt.binding)
          IN  /\ attempt' = [attempt EXCEPT
                    !.at = "answered",
                    !.answer = IF refusal = "none" THEN "Verified" ELSE refusal]
              /\ issued' = IF refusal = "none" THEN issued \cup {attempt.binding} ELSE issued
  BY DEF AnswerKeys
<1> DEFINE refusal == IF Threw(rs) THEN "Unavailable"
                      ELSE KeyRefusal(rs, attempt.keyPorts, attempt.binding)
<1>2. /\ attempt.at = "keys" /\ UNCHANGED done
      /\ attempt'.at = "answered"
      /\ attempt'.answer = (IF refusal = "none" THEN "Verified" ELSE refusal)
      /\ attempt'.binding = attempt.binding
      /\ issued' = (IF refusal = "none" THEN issued \cup {attempt.binding} ELSE issued)
      /\ AttemptIsRecord'
  BY <1>1 DEF AnswerKeys, EvidenceInv, AttemptIsRecord
<1>3. /\ attempt.binding \in Bindings /\ attempt.keyPorts \in KeyWirings
      /\ KeyPortsRefusal(attempt.keyPorts) = "none"
      /\ \A x \in Contexts \ {"GroupManagement"} :
              [kind |-> "Receipt", context |-> x, binding |-> attempt.binding] \in done
  BY <1>2 DEF EvidenceInv, CallFits
<1>4. refusal \in Answers
  BY <1>3, KeyRefusalIsAnswer DEF Answers
<1>5. refusal = "none" =>
          \A x \in Contexts : [kind |-> "Keys", context |-> x, binding |-> attempt.binding,
                               keyNamespace |-> "GroupData"] \in done
  BY <1>3, KeysAccepted DEF EvidenceInv
<1> HIDE DEF refusal
<1>6. EvidenceTypeOK'
  BY <1>2, <1>3, <1>4 DEF EvidenceInv, EvidenceTypeOK, Answers
<1>7. IssuedIsWhole'
  BY <1>2, <1>3, <1>5 DEF EvidenceInv, IssuedIsWhole, IsVerifiedEvidence
<1>8. CallFits'
  BY <1>2 DEF CallFits
<1> QED
  BY <1>2, <1>6, <1>7, <1>8 DEF EvidenceInv

LEMMA EvidenceNextInv == EvidenceInv /\ [EvidenceNext]_evidenceVars => EvidenceInv'
<1> SUFFICES ASSUME EvidenceInv, [EvidenceNext]_evidenceVars
             PROVE  EvidenceInv'
  OBVIOUS
<1>1. CASE UNCHANGED evidenceVars
  BY <1>1 DEF evidenceVars, EvidenceInv, AttemptIsRecord, EvidenceTypeOK, CallFits, IssuedIsWhole,
              IsVerifiedEvidence
<1>2. CASE EvidenceNext
  BY <1>2, DoInv, VerifyInv, AnswerReceiptsInv, AnswerKeysInv DEF EvidenceNext
<1> QED
  BY <1>1, <1>2

(* Evidence is only ever issued for a binding all three contexts have done *)
(* their part for, whatever ports are wired in which order and however     *)
(* their replies are mixed up; and what a caller is told is one of the     *)
(* declared answers (verifyRetentionDeletionEvidence).                     *)
THEOREM EvidenceAlwaysWhole == EvidenceSpec => []EvidenceIsWhole
<1>1. EvidenceInv => EvidenceIsWhole
  BY DEF EvidenceInv, EvidenceIsWhole
<1> QED
  BY <1>1, EvidenceInitInv, EvidenceNextInv, PTL DEF EvidenceSpec
=============================================================================
