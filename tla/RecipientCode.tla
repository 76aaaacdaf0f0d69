----------------------------- MODULE RecipientCode -----------------------------
(***************************************************************************)
(* Recipient codes: an actor issues a code to himself, tells it to a group *)
(* owner, and the owner's invitation consumes it.                          *)
(*                                                                         *)
(* Every request is a worker's transaction in PostgreSQL (READ COMMITTED). *)
(* Managing locks the actor's row FOR UPDATE, inspecting and using lock    *)
(* the rows of the actors involved FOR SHARE, in the order of their ids,   *)
(* and the code's row comes after them.  A use looks for a stored          *)
(* operation three times, since the same command may run twice at once.    *)
(* What one transaction does with its scope is InvitationLease.            *)
(***************************************************************************)
EXTENDS Integers, FiniteSets

CONSTANTS
    CodeActors,     \* numbers: actors are locked in their order
    Codes, Operations, Workers,
    Caller,         \* the actor who sends an operation
    Lifetime,       \* ten minutes
    MaxTime,        \* bound of the clock
    MaxRequests,    \* bound: requests in all
    Nobody          \* no code, operation or actor
ASSUME CodeAssumption ==
    /\ Caller \in [Operations -> CodeActors]
    /\ CodeActors \subseteq Nat /\ Lifetime \in Nat \ {0} /\ MaxTime \in Nat
    /\ Nobody \notin Codes

VARIABLES
    now,        \* the clock all processes share
    active,     \* the actors not disabled
    row,        \* table recipient_code
    saved,      \* the code consumed by a stored operation, or Nobody
    tx,         \* the transaction of each worker
    told,       \* codes an actor was given
    answers,    \* what callers were told of their invitations
    requests    \* requests so far

codeVars == <<now, active, row, saved, tx, told, answers, requests>>

Row(state, actor, created, terminal, version) ==
    [state |-> state, actor |-> actor, created |-> created, terminal |-> terminal, version |-> version]
NoRow == Row("absent", Nobody, 0, 0, 0)
IdleRequest ==
    [kind |-> "none", at |-> "idle", actor |-> Nobody, op |-> Nobody, code |-> Nobody, hint |-> Nobody,
     wanted |-> {}, seen |-> NoRow, share |-> {}, excl |-> {}, group |-> FALSE, edit |-> {}, save |-> FALSE,
     from |-> 0, until |-> MaxTime + 1, reply |-> "none"]

CodeInit ==
    /\ now = 0 /\ active = CodeActors
    /\ row = [c \in Codes |-> NoRow]
    /\ saved = [o \in Operations |-> Nobody]
    /\ tx = [w \in Workers |-> IdleRequest]
    /\ told = {} /\ answers = {} /\ requests = 0

\* Every variable stays in its type.
CodeTypeOK ==
    /\ now \in 0..MaxTime /\ active \subseteq CodeActors /\ told \subseteq Codes
    /\ \A c \in Codes :
         /\ row[c].state \in {"absent", "issued", "consumed", "revoked", "replaced"}
         /\ row[c].version \in 0..2
         /\ row[c].actor \in CodeActors \cup {Nobody}
    /\ saved \in [Operations -> Codes \cup {Nobody}]
    /\ \A w \in Workers : tx[w].share \cup tx[w].excl \subseteq CodeActors \cup Codes

-----------------------------------------------------------------------------
(* The policy of codes.                                                     *)

Expiry(r) == r.created + Lifetime
\* The state of a code for the actor it belongs to, as read under its lock.
StateOf(r) ==
    IF r.actor \notin active \/ now < r.created THEN "unavailable"
    ELSE IF r.state = "issued" /\ now >= Expiry(r) THEN "expired" ELSE r.state
Ended(r, state) == [r EXCEPT !.state = state, !.terminal = now, !.version = @ + 1]
IssuedOf(a) == {c \in Codes : row[c].actor = a /\ row[c].state = "issued"}

-----------------------------------------------------------------------------
(* Transactions, locks, and what becomes of a transaction.                  *)

FreeToShare(w, r) == \A v \in Workers \ {w} : r \notin tx[v].excl
FreeToLock(w, r) == \A v \in Workers \ {w} : r \notin tx[v].excl \cup tx[v].share
Goes(w, to) == tx' = [tx EXCEPT ![w] = to]
Moves(w, at) == Goes(w, [tx[w] EXCEPT !.at = at])
Data == <<active, row, saved>>
Rest == <<now, told, requests>>

Request(w, kind, at, actor, op, code) ==
    /\ tx[w].at = "idle" /\ requests < MaxRequests
    /\ requests' = requests + 1
    /\ Goes(w, [IdleRequest EXCEPT !.kind = kind, !.at = at, !.actor = actor, !.op = op, !.code = code])
    /\ UNCHANGED <<now, Data, told, answers>>

\* A reply that needs no write: the transaction commits nothing but its audit.
Replies(w, reply) == Goes(w, [tx[w] EXCEPT !.at = "commit", !.reply = reply])
\* The transaction is rolled back; an uncertain use looks once whether it succeeded.
AfterFailure(w) ==
    IF tx[w].kind = "use" /\ tx[w].at \notin {"preflight", "recover"}
    THEN [IdleRequest EXCEPT !.kind = "use", !.at = "recover", !.actor = tx[w].actor, !.op = tx[w].op, !.code = tx[w].code]
    ELSE IdleRequest
FailRequest(w) ==
    /\ tx[w].at \notin {"idle", "sent"}
    /\ Goes(w, AfterFailure(w))
    /\ UNCHANGED <<Rest, Data, answers>>

Replayed(w) == saved[tx[w].op] = tx[w].code
Mismatch(w) == saved[tx[w].op] \notin {Nobody, tx[w].code}
Tells(w, reply) == answers' = answers \cup {<<reply, tx[w].op, tx[w].code>>}

-----------------------------------------------------------------------------
(* Using a code.                                                            *)

Use(w, o, c) == c \in told /\ Request(w, "use", "preflight", Caller[o], o, c)

\* First look, in a transaction of its own: an operation that succeeded before needs no code.
Preflight(w) ==
    /\ tx[w].at = "preflight" /\ FreeToShare(w, tx[w].actor)
    /\ IF Replayed(w) THEN Goes(w, IdleRequest) /\ Tells(w, "created")
       ELSE /\ Goes(w, IF Mismatch(w) \/ tx[w].actor \notin active THEN IdleRequest ELSE [tx[w] EXCEPT !.at = "hint"])
            /\ UNCHANGED answers
    /\ UNCHANGED <<Rest, Data>>

\* The code is looked up unlocked, only to know which actors to lock.
Hint(w) ==
    /\ tx[w].at = "hint"
    /\ LET found == row[tx[w].code].state # "absent"
           ids == {tx[w].actor} \cup (IF found THEN {row[tx[w].code].actor} ELSE {})
       IN Goes(w, [tx[w] EXCEPT !.at = "actors", !.hint = IF found THEN tx[w].code ELSE Nobody,
                                !.wanted = ids])
    /\ UNCHANGED <<Rest, Data, answers>>

\* The actors are locked in the order of their ids.
LockActor(w) ==
    /\ tx[w].at = "actors"
    /\ \E a \in tx[w].wanted :
         /\ \A b \in tx[w].wanted : a <= b
         /\ FreeToShare(w, a)
         /\ Goes(w, [tx[w] EXCEPT !.share = @ \cup {a}, !.wanted = @ \ {a}])
    /\ UNCHANGED <<Rest, Data, answers>>

\* Second look, once the actors are locked and the caller's session was judged.
Replay(w) ==
    /\ tx[w].at = "actors" /\ tx[w].wanted = {}
    /\ IF tx[w].actor \notin active THEN Goes(w, IdleRequest)
       ELSE IF Replayed(w) THEN Replies(w, "created")
       ELSE IF Mismatch(w) THEN Goes(w, AfterFailure(w))
       ELSE Moves(w, IF tx[w].hint = Nobody THEN "deny" ELSE "code")
    /\ UNCHANGED <<Rest, Data, answers>>

\* The code is judged again under its lock.
LockCode(w) ==
    /\ tx[w].at = "code" /\ FreeToLock(w, tx[w].code)
    /\ Goes(w, [tx[w] EXCEPT !.excl = @ \cup {tx[w].code}, !.seen = row[tx[w].code],
                             !.from = row[tx[w].code].created,
                             !.at = IF StateOf(row[tx[w].code]) = "issued" THEN "bound" ELSE "deny"])
    /\ UNCHANGED <<Rest, Data, answers>>

\* Mutant: a code that cannot be used is denied at once.
DenyAtOnce(w) ==
    /\ tx[w].at = "deny"
    /\ Replies(w, "denied")
    /\ UNCHANGED <<Rest, Data, answers>>
\* Third look: the same operation may have succeeded while this one waited for the code.
Deny(w) ==
    /\ tx[w].at = "deny"
    /\ IF Mismatch(w) THEN Goes(w, AfterFailure(w)) ELSE Replies(w, IF Replayed(w) THEN "created" ELSE "denied")
    /\ UNCHANGED <<Rest, Data, answers>>

\* The group's row is locked and the invitation staged; another invitation in between is a conflict.
Stage(w) ==
    /\ tx[w].at = "bound" /\ \A v \in Workers \ {w} : ~tx[v].group
    /\ Goes(w, IF saved[tx[w].op] # Nobody THEN AfterFailure(w)
               ELSE [tx[w] EXCEPT !.at = "staged", !.group = TRUE, !.save = TRUE])
    /\ UNCHANGED <<Rest, Data, answers>>

\* The row read under the lock is judged at this time and written back if its version still stands.
Consume(w) ==
    /\ tx[w].at = "staged"
    /\ LET r == tx[w].seen
       IN Goes(w, IF StateOf(r) # "issued" \/ row[tx[w].code].version # r.version THEN AfterFailure(w)
                  ELSE [tx[w] EXCEPT !.edit = {<<tx[w].code, Ended(r, "consumed")>>}, !.until = Expiry(r),
                                     !.at = "commit", !.reply = "created"])
    /\ UNCHANGED <<Rest, Data, answers>>

Recover(w) ==
    /\ tx[w].at = "recover" /\ FreeToShare(w, tx[w].actor)
    /\ Goes(w, IdleRequest)
    /\ IF Replayed(w) /\ tx[w].actor \in active THEN Tells(w, "created") ELSE UNCHANGED answers
    /\ UNCHANGED <<Rest, Data>>

-----------------------------------------------------------------------------
(* Managing and inspecting one's codes.                                     *)

\* Bound: an issue starts only when a code is left for it.
CodesLeft ==
    Cardinality({c \in Codes : row[c].state = "absent"}) > Cardinality({v \in Workers : tx[v].kind = "issue"})
Manage(w, kind, a, c) == (kind = "issue" => CodesLeft) /\ Request(w, kind, "manage", a, Nobody, c)
\* Mutant: managing shares the actor's row.
ManageLockShared(w) ==
    /\ tx[w].at = "manage" /\ tx[w].kind # "inspect" /\ FreeToShare(w, tx[w].actor)
    /\ Goes(w, IF tx[w].actor \in active THEN [tx[w] EXCEPT !.at = "read", !.share = {tx[w].actor}] ELSE IdleRequest)
    /\ UNCHANGED <<Rest, Data, answers>>
ManageLock(w) ==
    /\ tx[w].at = "manage" /\ tx[w].kind # "inspect" /\ FreeToLock(w, tx[w].actor)
    /\ Goes(w, IF tx[w].actor \in active THEN [tx[w] EXCEPT !.at = "read", !.excl = {tx[w].actor}] ELSE IdleRequest)
    /\ UNCHANGED <<Rest, Data, answers>>
InspectLock(w) ==
    /\ tx[w].at = "manage" /\ tx[w].kind = "inspect" /\ FreeToShare(w, tx[w].actor)
    /\ Goes(w, IF tx[w].actor \in active THEN [tx[w] EXCEPT !.at = "read", !.share = {tx[w].actor}] ELSE IdleRequest)
    /\ UNCHANGED <<Rest, Data, answers>>

\* A new code replaces the one the actor has, expired or not; both are in one transaction.
Issue(w, c) ==
    /\ tx[w].at = "read" /\ tx[w].kind = "issue"
    /\ row[c].state = "absent" /\ \A v \in Workers : tx[v].kind = "issue" => tx[v].code # c
    /\ \A p \in IssuedOf(tx[w].actor) : FreeToLock(w, p)
    /\ LET new == Row("issued", tx[w].actor, now, 0, 1)
           old == IssuedOf(tx[w].actor)
       IN Goes(w, [tx[w] EXCEPT !.code = c, !.excl = @ \cup old, !.from = now, !.until = Expiry(new), !.at = "commit",
                                !.edit = {<<c, new>>} \cup {<<p, Ended(row[p], "replaced")>> : p \in old}])
    /\ UNCHANGED <<Rest, Data, answers>>

\* Only an issued code in its time is revoked; one that is over already is no error.
Revoke(w) ==
    /\ tx[w].at = "read" /\ tx[w].kind = "revoke" /\ FreeToLock(w, tx[w].code)
    /\ LET r == row[tx[w].code]
       IN Goes(w, IF r.actor = tx[w].actor /\ StateOf(r) = "issued"
                  THEN [tx[w] EXCEPT !.excl = @ \cup {tx[w].code}, !.from = now, !.until = Expiry(r), !.at = "commit",
                                     !.edit = {<<tx[w].code, Ended(r, "revoked")>>}]
                  ELSE [tx[w] EXCEPT !.at = "commit"])
    /\ UNCHANGED <<Rest, Data, answers>>

\* The actor's codes are read under shared locks; the one reported as issued must be so at the end.
Inspect(w) ==
    /\ tx[w].at = "read" /\ tx[w].kind = "inspect"
    /\ LET mine == {c \in Codes : row[c].actor = tx[w].actor}
           good == {c \in mine : StateOf(row[c]) = "issued"}
       IN /\ \A c \in mine : FreeToShare(w, c)
          /\ Goes(w, IF good = {} THEN [tx[w] EXCEPT !.at = "commit", !.share = @ \cup mine]
                     ELSE LET c == CHOOSE c \in good : TRUE
                          IN [tx[w] EXCEPT !.at = "commit", !.share = @ \cup mine, !.code = c, !.from = now,
                                           !.until = Expiry(row[c]), !.reply = "issued"])
    /\ UNCHANGED <<Rest, Data, answers>>

-----------------------------------------------------------------------------
(* The end of a transaction, and what happens beside it.                    *)

\* The guards judge the time once more before COMMIT.
SendCommit(w) ==
    /\ tx[w].at = "commit"
    /\ Goes(w, IF tx[w].from <= now /\ now < tx[w].until THEN [tx[w] EXCEPT !.at = "sent"] ELSE AfterFailure(w))
    /\ UNCHANGED <<Rest, Data, answers>>

Edited(w) ==
    [c \in Codes |-> IF \E e \in tx[w].edit : e[1] = c THEN (CHOOSE e \in tx[w].edit : e[1] = c)[2] ELSE row[c]]
Applies(w) ==
    /\ row' = Edited(w)
    /\ saved' = IF tx[w].save THEN [saved EXCEPT ![tx[w].op] = tx[w].code] ELSE saved
Committed(w) ==
    /\ tx[w].at = "sent"
    /\ Applies(w)
    /\ Goes(w, IdleRequest)
    /\ told' = IF tx[w].kind = "issue" THEN told \cup {tx[w].code} ELSE told
    /\ IF tx[w].kind = "use" THEN Tells(w, tx[w].reply) ELSE UNCHANGED answers
    /\ UNCHANGED <<now, active, requests>>
\* The answer of COMMIT is lost: it was carried out or it was not.
Lost(w) ==
    /\ tx[w].at = "sent"
    /\ Applies(w) \/ UNCHANGED <<row, saved>>
    /\ Goes(w, AfterFailure(w))
    /\ UNCHANGED <<Rest, active, answers>>

\* The deletion of an actor locks its row like a manager.
Disable(a) ==
    /\ a \in active /\ \A w \in Workers : a \notin tx[w].excl \cup tx[w].share
    /\ active' = active \ {a}
    /\ UNCHANGED <<Rest, row, saved, tx, answers>>
Tick == now < MaxTime /\ now' = now + 1 /\ UNCHANGED <<Data, tx, told, answers, requests>>

\* What a worker does of itself; a code is chosen for an issue.
CodeStep(w) ==
    \/ Preflight(w) \/ Hint(w) \/ LockActor(w) \/ Replay(w) \/ LockCode(w) \/ Deny(w)
    \/ Stage(w) \/ Consume(w) \/ Recover(w)
    \/ ManageLock(w) \/ InspectLock(w) \/ Revoke(w) \/ Inspect(w)
    \/ \E c \in Codes : Issue(w, c)
    \/ SendCommit(w) \/ Committed(w)
CodeNext ==
    \/ \E w \in Workers :
         \/ CodeStep(w) \/ FailRequest(w) \/ Lost(w)
         \/ \E o \in Operations, c \in Codes : Use(w, o, c)
         \/ \E a \in CodeActors : Manage(w, "issue", a, Nobody) \/ Manage(w, "inspect", a, Nobody)
         \/ \E a \in CodeActors, c \in told : Manage(w, "revoke", a, c)
    \/ \E a \in CodeActors : Disable(a)
    \/ Tick

CodeSpec == CodeInit /\ [][CodeNext]_codeVars
\* A worker goes on when its locks are free: requests are served until they end.
CodeFairSpec == CodeSpec /\ \A w \in Workers : WF_codeVars(CodeStep(w))

-----------------------------------------------------------------------------

\* An actor never has two issued codes, however many of his requests run at once.
OneIssuedPerActor == \A a \in CodeActors : Cardinality(IssuedOf(a)) <= 1

\* A code is consumed exactly when one stored invitation used it: never for two, never without one.
ConsumedOnce ==
    \A c \in Codes : Cardinality({o \in Operations : saved[o] = c}) = IF row[c].state = "consumed" THEN 1 ELSE 0

\* A code is consumed or revoked within its ten minutes, whatever time the transaction took.
EndsInTime ==
    \A c \in Codes : row[c].state \in {"consumed", "revoked"} =>
        row[c].created <= row[c].terminal /\ row[c].terminal < Expiry(row[c])

\* What a caller is told stays true: an invitation told as created is stored, and one that was denied
\* is not and never will be, even when the same command ran twice at once.
AnswersHold ==
    \A told_ \in answers :
        IF told_[1] = "created" THEN saved[told_[2]] = told_[3] ELSE saved[told_[2]] # told_[3]

\* A code reported as issued is still issued when the report is committed.
InspectIsCurrent ==
    \A w \in Workers : tx[w].at = "sent" /\ tx[w].reply = "issued" => row[tx[w].code].state = "issued"

\* An actor never has two issued codes, a code is consumed by exactly one stored invitation and
\* within its ten minutes, and an inspection reports what is so when it commits.
CodesAreSpentOnce == CodeTypeOK /\ OneIssuedPerActor /\ ConsumedOnce /\ EndsInTime /\ InspectIsCurrent
=============================================================================
