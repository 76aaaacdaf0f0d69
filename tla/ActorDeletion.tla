----------------------------- MODULE ActorDeletion -----------------------------
(***************************************************************************)
(* The deletion of an actor and the cleanup of ended sessions.             *)
(*                                                                         *)
(* A deletion is a chain of calls to three services that share no          *)
(* transaction: the ledger first records the intent, then the database     *)
(* disables the actor and removes the rows, then the registry destroys the *)
(* keys, and only then is the deletion complete in the ledger and in the   *)
(* database.  Each call is a step here; a worker may fail or stop between  *)
(* any two of them, also after a call took effect and before its answer    *)
(* was seen, and a later call of resume takes the deletion up again.       *)
(***************************************************************************)
EXTENDS AuthenticationRecords

CONSTANT Workers

VARIABLES
    job,      \* the call of begin or resume a worker is in, with its local variables
    deadline, \* whether the 24 hours of a deletion are over
    told      \* the deletions reported complete

deletionVars == <<job, deadline, told>>
vars == <<recordVars, deletionVars>>

Idle == [at |-> "idle", op |-> None, actor |-> None, head |-> 0, tries |-> 0,
         applies |-> FALSE, missed |-> FALSE, scopes |-> {}]
Steps == {"idle", "head", "reconcile", "match", "plan", "prepare", "append", "lookup", "disable",
          "remove", "absent", "destroy", "verify", "latest", "finish", "complete", "report"}

DeletionInit ==
    /\ Init
    /\ job = [w \in Workers |-> Idle]
    /\ deadline = [o \in Operations |-> "ahead"]
    /\ told = {}

DeletionTypeOK ==
    /\ TypeOK
    /\ \A w \in Workers :
         /\ job[w].at \in Steps
         /\ job[w].op \in Operations \cup {None}
         /\ job[w].actor \in Actors \cup {None}
         /\ job[w].head \in 0..Len(ledger)
         /\ job[w].tries \in 0..2
         /\ job[w].scopes \subseteq Actors \cup Sessions
    /\ deadline \in [Operations -> {"ahead", "passed"}]
    /\ told \subseteq Operations

At(w, step) == job[w].at = step
Goto(w, step) == job' = [job EXCEPT ![w].at = step]
Return(w) == job' = [job EXCEPT ![w] = Idle]
QuarantineAndReturn(w) == db' = Quarantined(db) /\ Return(w)
Late(o) == deadline[o] # "ahead"
Overdue(w) == job[w].missed \/ (job[w].applies /\ Late(job[w].op))
\* A failed call: a missed deadline is still enforced, then the answer is "unavailable".
Fails(w) ==
    /\ db' = IF Overdue(w) THEN Quarantined(db) ELSE db
    /\ Return(w)
    /\ UNCHANGED <<issued, ticket, credential, dead, ledger, deadline, told>>
UnchangedButDb == UNCHANGED <<issued, ticket, credential, dead, ledger, deadline, told>>
UnchangedRecords == UNCHANGED <<recordVars, deadline, told>>

Begin(w, a) ==
    /\ At(w, "idle") /\ a \in issued
    /\ job' = [job EXCEPT ![w] = [Idle EXCEPT !.at = "head", !.actor = a]]
    /\ UnchangedRecords
Resume(w, o) ==
    /\ At(w, "idle") /\ ticket[o] # None
    /\ job' = [job EXCEPT ![w] = [Idle EXCEPT !.at = "head", !.op = o]]
    /\ UnchangedRecords

ReadHead(w) ==
    /\ At(w, "head")
    /\ job' = [job EXCEPT ![w].at = "reconcile", ![w].head = Len(ledger), ![w].tries = 0]
    /\ UnchangedRecords
Reconcile(w) ==
    /\ At(w, "reconcile")
    /\ IF Reconciled(job[w].head)
       THEN Goto(w, IF job[w].op = None THEN "match" ELSE "lookup") /\ UnchangedRecords
       ELSE IF job[w].head = Len(ledger)
       THEN QuarantineAndReturn(w) /\ UnchangedButDb
       ELSE IF job[w].tries < 2
       THEN job' = [job EXCEPT ![w].head = Len(ledger), ![w].tries = @ + 1] /\ UnchangedRecords
       ELSE Fails(w)

-----------------------------------------------------------------------------
(* begin: at most one deletion of an actor reaches the ledger.              *)

Match(w) ==
    LET matches == {o \in Intents(job[w].head) : Target(o) = job[w].actor}
        pending == PendingTickets(job[w].actor)
    IN  /\ At(w, "match")
        /\ IF Cardinality(matches) > 1 \/ ~(pending \subseteq matches)
           THEN QuarantineAndReturn(w) /\ UnchangedButDb
           ELSE IF matches = {} THEN Goto(w, "plan") /\ UnchangedRecords
           ELSE /\ job' = [job EXCEPT ![w] = [Idle EXCEPT !.at = "head", !.op = CHOOSE o \in matches : TRUE]]
                /\ UnchangedRecords
Plan(w) ==
    /\ At(w, "plan")
    /\ IF MaintenanceOpen /\ db.actor[job[w].actor] = "active"
       THEN /\ \E o \in Operations :
                 /\ ticket[o] = None /\ \A v \in Workers : job[v].op # o
                 /\ job' = [job EXCEPT ![w].at = "prepare", ![w].op = o, ![w].applies = TRUE]
            /\ UnchangedRecords
       ELSE Fails(w)
Prepare(w) ==
    /\ At(w, "prepare")
    /\ PrepareTicket(job[w].op, {job[w].actor})
    /\ Goto(w, "append")
    /\ UNCHANGED <<db, issued, credential, dead, ledger, deadline, told>>
AppendPrepared(w) ==
    LET entry == [kind |-> "deletion", op |-> job[w].op, actor |-> job[w].actor, state |-> "prepared"]
    IN  /\ At(w, "append")
        /\ IF MayAppend(job[w].head, entry)
           THEN /\ ledger' = Append(ledger, entry)
                /\ job' = [job EXCEPT ![w] = [Idle EXCEPT !.at = "head", !.op = job[w].op]]
                /\ UNCHANGED <<db, issued, ticket, credential, dead, deadline, told>>
           ELSE Fails(w)

-----------------------------------------------------------------------------
(* resume: from the intent in the ledger to the completed deletion.         *)

Lookup(w) ==
    LET o == job[w].op
        known == o \in Intents(job[w].head)
        prepared == StateAt(job[w].head, o) = "prepared"
        overdue == prepared /\ Late(o)
        intact == Target(o) \in ticket[o].scopes /\ PendingTickets(Target(o)) \subseteq {o}
    IN  /\ At(w, "lookup")
        /\ UnchangedButDb
        /\ IF known /\ intact
           THEN /\ db' = IF overdue THEN Quarantined(db) ELSE db
                /\ job' = [job EXCEPT ![w].at = "disable", ![w].applies = prepared, ![w].missed = overdue]
           ELSE /\ db' = IF known \/ ~ticket[o].done THEN Quarantined(db) ELSE db
                /\ Return(w)

State(w) == StateAt(job[w].head, job[w].op)
Disable(w) ==
    LET o == job[w].op
        scopes == ticket[o].scopes \cup SessionsOf(Target(o))
    IN  /\ At(w, "disable")
        /\ IF MayDisable(o, State(w))
           THEN /\ PrepareTicket(o, scopes)
                /\ db' = Disabled(o)
                /\ job' = [job EXCEPT ![w].at = "remove", ![w].scopes = scopes]
                /\ UNCHANGED <<issued, credential, dead, ledger, deadline, told>>
           ELSE Fails(w)
\* The registry has the new scopes, but the transaction did not commit.
DisableRolledBack(w) ==
    LET o == job[w].op
    IN  /\ At(w, "disable") /\ MayDisable(o, State(w))
        /\ PrepareTicket(o, ticket[o].scopes \cup SessionsOf(Target(o)))
        /\ db' = IF Overdue(w) THEN Quarantined(db) ELSE db
        /\ Return(w)
        /\ UNCHANGED <<issued, credential, dead, ledger, deadline, told>>
Remove(w) ==
    /\ At(w, "remove")
    /\ IF MayRemove(job[w].op, State(w), job[w].scopes)
       THEN db' = Removed(job[w].op) /\ Goto(w, "absent") /\ UnchangedButDb
       ELSE Fails(w)
\* Mutant: the absence of the rows is taken for the end, the keys are never destroyed.
AbsentIsEnough(w) ==
    /\ At(w, "absent")
    /\ IF AbsentRows(job[w].scopes) THEN Goto(w, "latest") /\ UnchangedRecords ELSE Fails(w)
Absent(w) ==
    /\ At(w, "absent")
    /\ IF AbsentRows(job[w].scopes) THEN Goto(w, "destroy") /\ UnchangedRecords ELSE Fails(w)
Destroy(w) ==
    /\ At(w, "destroy")
    /\ IF ticket[job[w].op].scopes = job[w].scopes
       THEN /\ DestroyTicket(job[w].op)
            /\ Goto(w, "verify")
            /\ UNCHANGED <<db, issued, credential, ledger, deadline, told>>
       ELSE Fails(w)
Verify(w) ==
    /\ At(w, "verify")
    /\ IF ticket[job[w].op] = [scopes |-> job[w].scopes, done |-> TRUE] /\ AbsentRows(job[w].scopes)
       THEN Goto(w, "latest") /\ UnchangedRecords
       ELSE Fails(w)
Latest(w) ==
    /\ At(w, "latest")
    /\ job' = [job EXCEPT ![w].at = "finish", ![w].head = Len(ledger)]
    /\ UnchangedRecords
Finish(w) ==
    LET entry == [kind |-> "deletion", op |-> job[w].op, actor |-> Target(job[w].op), state |-> "complete"]
    IN  /\ At(w, "finish")
        /\ IF State(w) = "complete" THEN Goto(w, "complete") /\ UnchangedRecords
           ELSE IF MayAppend(job[w].head, entry)
           THEN /\ ledger' = Append(ledger, entry)
                /\ Goto(w, "complete")
                /\ UNCHANGED <<db, issued, ticket, credential, dead, deadline, told>>
           ELSE Fails(w)
Complete(w) ==
    /\ At(w, "complete")
    /\ IF MayComplete(job[w].op)
       THEN db' = Completed(job[w].op) /\ Goto(w, "report") /\ UnchangedButDb
       ELSE Fails(w)
Report(w) ==
    /\ At(w, "report")
    /\ IF Overdue(w) THEN QuarantineAndReturn(w) /\ UNCHANGED told
       ELSE told' = told \cup {job[w].op} /\ Return(w) /\ UNCHANGED db
    /\ UNCHANGED <<issued, ticket, credential, dead, ledger, deadline>>

\* The process dies, or a service does not answer; a call may have taken effect before.
Stop(w) == ~At(w, "idle") /\ Fails(w)
Crash(w) == ~At(w, "idle") /\ Return(w) /\ UnchangedRecords

Advance(w) ==
    \/ ReadHead(w) \/ Reconcile(w) \/ Match(w) \/ Plan(w) \/ Prepare(w) \/ AppendPrepared(w)
    \/ Lookup(w) \/ Disable(w) \/ Remove(w) \/ Absent(w) \/ Destroy(w) \/ Verify(w)
    \/ Latest(w) \/ Finish(w) \/ Complete(w) \/ Report(w)

-----------------------------------------------------------------------------
(* The cleanup of sessions that ended, and the users.                       *)

DbOnly == UNCHANGED <<ticket, credential, dead, ledger, deletionVars>>
\* The ticket is durable before the row goes; the transaction may still roll back.
DeleteExpired(s) ==
    /\ MaintenanceOpen
    /\ db.session[s] # None /\ db.session[s].state \in {"due", "revoked"} /\ s \notin dead
    /\ credential' = [credential EXCEPT ![s] = IF @ = "none" THEN "pending" ELSE @]
    /\ db' \in {WithoutSessions(db, {s}), db}
    /\ UNCHANGED <<issued, ticket, dead, ledger, deletionVars>>
\* Mutant: the ticket left by a rolled-back transaction is taken without asking for the rows.
CheckNothing(s) ==
    /\ credential[s] = "pending"
    /\ credential' = [credential EXCEPT ![s] = "checked"]
    /\ UNCHANGED <<db, issued, ticket, dead, ledger, deletionVars>>
CheckAbsent(s) ==
    /\ credential[s] = "pending" /\ AbsentRows({s})
    /\ credential' = [credential EXCEPT ![s] = "checked"]
    /\ UNCHANGED <<db, issued, ticket, dead, ledger, deletionVars>>
DestroyCredential(s) ==
    /\ credential[s] = "checked"
    /\ credential' = [credential EXCEPT ![s] = "destroyed"]
    /\ dead' = dead \cup {s}
    /\ UNCHANGED <<db, issued, ticket, ledger, deletionVars>>
\* A row that outlived its day, or a key that outlived its row's, seals the authentication off.
SealOverdue(s) ==
    /\ (db.session[s] # None /\ db.session[s].state # "active") \/ credential[s] \in {"pending", "checked"}
    /\ db' = Quarantined(db)
    /\ UNCHANGED <<issued, ticket, credential, dead, ledger, deletionVars>>
CleanupNext == \E s \in Sessions : DeleteExpired(s) \/ CheckAbsent(s) \/ DestroyCredential(s) \/ SealOverdue(s)

FirstLogin(a) ==
    /\ db.status = "active" /\ a \notin issued
    /\ issued' = issued \cup {a}
    /\ db' = [db EXCEPT !.actor[a] = "active", !.identity = @ \cup {a}]
    /\ DbOnly
Login(a, s) ==
    /\ db.status = "active" /\ db.actor[a] = "active" /\ a \in db.identity /\ s \notin issued
    /\ issued' = issued \cup {s}
    /\ db' = [db EXCEPT !.session[s] = [owner |-> a, state |-> "active"]]
    /\ DbOnly
EndSession(s) ==
    /\ db.session[s] # None /\ db.session[s].state = "active"
    /\ \/ db' = [db EXCEPT !.session[s].state = "due"]
       \/ db.status = "active" /\ db' = [db EXCEPT !.session[s].state = "revoked"]
    /\ issued' = issued /\ DbOnly
UserNext ==
    \/ \E a \in Actors : FirstLogin(a) \/ \E s \in Sessions : Login(a, s)
    \/ \E s \in Sessions : EndSession(s)

PassDeadline(o) ==
    /\ ticket[o] # None /\ ~Late(o)
    /\ deadline' = [deadline EXCEPT ![o] = "passed"]
    /\ UNCHANGED <<recordVars, job, told>>

WorkerNext ==
    \E w \in Workers :
        \/ Advance(w)
        \/ DisableRolledBack(w) \/ Stop(w) \/ Crash(w)
        \/ \E a \in Actors : Begin(w, a)
        \/ \E o \in Operations : Resume(w, o)
DeletionNext == UserNext \/ CleanupNext \/ WorkerNext \/ \E o \in Operations : PassDeadline(o)
DeletionSpec == DeletionInit /\ [][DeletionNext]_vars

-----------------------------------------------------------------------------
(* What the deletion promises.                                              *)

CompleteInLedger(o) == o \in Intents(Len(ledger)) /\ StateAt(Len(ledger), o) = "complete"

\* A key is destroyed only when no row sealed by it is left: no deletion, cleanup or failure
\* between them leaves a row nobody can read.
KeysOutliveRows == dead \cap Rows = {}

\* Two calls of begin for one actor, at the same time or after failures, never put two
\* deletions of that actor into the ledger.
OneDeletionPerActor ==
    \A o1, o2 \in Intents(Len(ledger)) : Target(o1) = Target(o2) => o1 = o2

\* A deletion complete in the ledger is one whose actor is disabled, whose rows are gone and
\* whose keys are destroyed, whichever worker or attempt did each of these.
CompleteMeansGone ==
    \A o \in Intents(Len(ledger)) : CompleteInLedger(o) =>
        /\ db.actor[Target(o)] = "disabled"
        /\ Target(o) \notin db.identity /\ SessionsOf(Target(o)) = {}
        /\ ticket[o].done /\ ticket[o].scopes \subseteq dead

\* The database never records a deletion the ledger does not know, and is never ahead of it.
LedgerLeads == Reconciled(Len(ledger))

\* The actor is disabled only under an intent of the ledger that the database has recorded, and
\* then no session of the actor is usable, whatever logins ran beside the deletion.
DisabledActorIsOut ==
    \A a \in Actors : db.actor[a] = "disabled" =>
        /\ \E o \in Intents(Len(ledger)) : Target(o) = a /\ db.intent[o] # "none"
        /\ \A s \in SessionsOf(a) : db.session[s].state = "revoked"

\* "Complete" is reported only when the ledger and the database both record it.
ReportIsTrue == \A o \in told : CompleteInLedger(o) /\ db.intent[o] = "complete"
=============================================================================
