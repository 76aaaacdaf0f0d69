------------------------- MODULE AuthenticationRestore -------------------------
(***************************************************************************)
(* The restore of the authentication database from a backup.               *)
(*                                                                         *)
(* The backup brings rows back that were deleted after it was taken, rows  *)
(* whose keys are destroyed among them.  The ledger and the registry of    *)
(* keys are not rolled back: the restore applies every deletion of the     *)
(* ledger again, throws every session away, seals the identities under new *)
(* keys, and opens the traffic only if no deletion reached the ledger      *)
(* meanwhile.  Deletions and cleanups that were under way when the         *)
(* operator closed the traffic are not assumed to have stopped.            *)
(***************************************************************************)
EXTENDS ActorDeletion

CONSTANT MaxRecoveries   \* bound: recoveries recorded in the ledger

VARIABLES
    backup,     \* the backup of the database, with the ledger's head at that time
    traffic,    \* outside the database: may users reach the service
    openedAt,   \* outside the database: the head the opening was bound to
    appliedAt,  \* the head whose deletions were applied before that (history variable)
    stale,      \* what was issued before the operator put the backup in place
    run         \* the restore: its step and its local variables

restoreVars == <<backup, traffic, openedAt, appliedAt, stale, run>>
allVars == <<vars, restoreVars>>

NoRun == [at |-> "idle", head |-> 0, initial |-> 0, todo |-> {}, op |-> None, state |-> "prepared",
          attempt |-> 1, seal |-> None]
RunSteps == {"idle", "isolate", "latest", "tickets", "reconcile", "apply", "destroy", "reread", "append",
             "discard", "credentials", "recheck", "migrate", "compare", "record", "confirm", "activate",
             "open", "opened"}

RestoreInit ==
    /\ DeletionInit
    /\ backup = None /\ traffic = "open" /\ openedAt = 0 /\ appliedAt = 0 /\ stale = {}
    /\ run = NoRun

RestoreTypeOK ==
    /\ DeletionTypeOK
    /\ traffic \in {"open", "closed"}
    /\ openedAt \in 0..Len(ledger) /\ appliedAt \in 0..openedAt
    /\ stale \subseteq issued
    /\ run.at \in RunSteps /\ run.head \in 0..Len(ledger) /\ run.initial \in 0..run.head
    /\ run.todo \subseteq Operations
    /\ run.attempt \in 1..3

Step(from, to) == run.at = from /\ run' = [run EXCEPT !.at = to]
RunOnly == UNCHANGED <<vars, backup, traffic, openedAt, appliedAt, stale>>
DbAnd(rest) ==
    UNCHANGED <<issued, dead, ledger, deletionVars, backup, traffic, openedAt, appliedAt, stale, rest>>
\* Mutant: a failed run gives the traffic back.
FailsOpen ==
    /\ traffic' = "open"
    /\ db' = Quarantined(db)
    /\ run' = NoRun
    /\ UNCHANGED <<issued, ticket, credential, dead, ledger, deletionVars, backup, openedAt, appliedAt,
                   stale>>
\* A failed run closes the traffic again and seals the database off.
RunFails ==
    /\ traffic' = "closed"
    /\ db' = Quarantined(db)
    /\ run' = NoRun
    /\ UNCHANGED <<issued, ticket, credential, dead, ledger, deletionVars, backup, openedAt, appliedAt,
                   stale>>

-----------------------------------------------------------------------------
(* The operator.                                                            *)

TakeBackup ==
    /\ backup = None /\ db.status = "active"
    /\ backup' = [db |-> db, head |-> Len(ledger)]
    /\ UNCHANGED <<vars, traffic, openedAt, appliedAt, stale, run>>
PutBackup ==
    /\ backup # None /\ stale = {} /\ traffic = "open" /\ issued # {}
    /\ traffic' = "closed"
    /\ db' = backup.db
    /\ stale' = issued
    /\ UNCHANGED <<issued, ticket, credential, dead, ledger, deletionVars, backup, openedAt, appliedAt, run>>
Start ==
    /\ traffic = "closed" /\ Step("idle", "isolate")
    /\ RunOnly

-----------------------------------------------------------------------------
(* The run.                                                                 *)

Isolate ==
    /\ Step("isolate", "latest")
    /\ db' = [db EXCEPT !.status = "restoring"]
    /\ DbAnd(<<ticket, credential>>)
LatestHead ==
    /\ run.at = "latest"
    /\ IF backup.head <= Len(ledger)
       THEN run' = [run EXCEPT !.at = "tickets", !.head = Len(ledger)] /\ RunOnly
       ELSE RunFails

TicketsKnown ==
    \A o \in Operations :
        (ticket[o] # None => ticket[o].done \/ ticket[o].scopes \cap Actors = {}) \/ o \in Intents(run.head)
CheckActorTickets ==
    \/ /\ run.at = "tickets"
       /\ IF TicketsKnown THEN Step("tickets", "reconcile") /\ RunOnly ELSE RunFails
    \/ /\ run.at = "recheck"
       /\ IF TicketsKnown THEN Step("recheck", "migrate") /\ RunOnly ELSE RunFails
\* Mutant: only the deletions that the ledger records as complete are applied again.
ReconcileCompleteOnly ==
    /\ run.at = "reconcile"
    /\ IF Reconciled(run.head)
       THEN run' = [run EXCEPT !.at = "apply", !.initial = run.head,
                               !.todo = {o \in Intents(run.head) : StateAt(run.head, o) = "complete"},
                               !.op = None] /\ RunOnly
       ELSE RunFails
ReconcileIntents ==
    /\ run.at = "reconcile"
    /\ IF Reconciled(run.head)
       THEN run' = [run EXCEPT !.at = "apply", !.initial = run.head, !.todo = Intents(run.head),
                               !.op = None] /\ RunOnly
       ELSE RunFails
\* The deletions are applied again in the order of the ledger, as the head given to the pass has them.
PreparedAt(o) == CHOOSE i \in Deletions(run.initial) : ledger[i].op = o /\ ledger[i].state = "prepared"
IsNextIntent(o) == \A other \in run.todo : PreparedAt(o) <= PreparedAt(other)
TakeIntent ==
    /\ run.at = "apply" /\ run.op = None
    /\ \/ run.todo = {} /\ Step("apply", "discard")
       \/ \E o \in run.todo :
             /\ IsNextIntent(o)
             /\ run' = [run EXCEPT !.op = o, !.state = StateAt(run.initial, o)]
    /\ RunOnly
Reapplied(o, state) ==
    [WithoutSessions(db, SessionsOf(Target(o))) EXCEPT
        !.actor[Target(o)] = IF @ = "active" THEN "disabled" ELSE @,
        !.identity = @ \ {Target(o)},
        !.intent[o] = IF state = "complete" \/ @ = "complete" THEN "complete" ELSE "prepared"]
ReapplyDeletion ==
    /\ run.at = "apply" /\ run.op # None
    /\ IF db.status = "restoring" /\ IntentFits(run.op, run.state)
       THEN /\ PrepareTicket(run.op, ticket[run.op].scopes \cup SessionsOf(Target(run.op)))
            /\ db' = Reapplied(run.op, run.state)
            /\ Step("apply", "destroy")
            /\ DbAnd(<<credential>>)
       ELSE RunFails
DestroyReapplied ==
    /\ run.at = "destroy"
    /\ IF AbsentRows(ticket[run.op].scopes)
       THEN /\ DestroyTicket(run.op)
            /\ run' = IF run.state = "prepared" THEN [run EXCEPT !.at = "reread"]
                      ELSE [run EXCEPT !.at = "apply", !.todo = @ \ {run.op}, !.op = None]
            /\ UNCHANGED <<db, issued, credential, ledger, deletionVars, backup, traffic, openedAt, appliedAt, stale>>
       ELSE RunFails
Reread ==
    /\ run.at = "reread"
    /\ run' = [run EXCEPT !.at = "append", !.head = Len(ledger)]
    /\ RunOnly
AppendComplete ==
    LET entry == [kind |-> "deletion", op |-> run.op, actor |-> Target(run.op), state |-> "complete"]
        completed == [run EXCEPT !.at = "apply", !.state = "complete"]
    IN  /\ run.at = "append"
        /\ IF StateAt(run.head, run.op) = "complete" THEN run' = completed /\ RunOnly
           ELSE IF MayAppend(run.head, entry)
           THEN /\ ledger' = Append(ledger, entry)
                /\ run' = [completed EXCEPT !.head = Len(ledger')]
                /\ UNCHANGED <<db, issued, ticket, credential, dead, deletionVars, backup, traffic, openedAt, appliedAt, stale>>
           ELSE RunFails

DiscardCredentials ==
    /\ run.at = "discard"
    /\ IF db.status = "restoring"
       THEN /\ credential' = [s \in Sessions |-> IF db.session[s] # None THEN "pending" ELSE credential[s]]
            /\ db' = WithoutSessions(db, Sessions)
            /\ Step("discard", "credentials")
            /\ DbAnd(<<ticket>>)
       ELSE RunFails
PendingCredentials == {s \in Sessions : credential[s] \in {"pending", "checked"}}
DestroyCredentials ==
    /\ run.at = "credentials"
    /\ IF AbsentRows(PendingCredentials)
       THEN /\ credential' = [s \in Sessions |-> IF s \in PendingCredentials THEN "destroyed" ELSE credential[s]]
            /\ dead' = dead \cup PendingCredentials
            /\ Step("credentials", "recheck")
            /\ UNCHANGED <<db, issued, ticket, ledger, deletionVars, backup, traffic, openedAt, appliedAt, stale>>
       ELSE RunFails
SessionsAbsent == \A s \in Sessions : db.session[s] = None
MigrateIdentity ==
    /\ run.at = "migrate"
    /\ IF db.status = "restoring" /\ SessionsAbsent
          /\ \A a \in db.identity : db.actor[a] = "active" /\ a \notin dead
       THEN run' = [run EXCEPT !.at = "compare", !.seal = db] /\ RunOnly
       ELSE RunFails

Again == IF run.attempt < 3
         THEN run' = [run EXCEPT !.at = "tickets", !.head = Len(ledger), !.attempt = @ + 1] /\ RunOnly
         ELSE RunFails
Compare ==
    /\ run.at = "compare"
    /\ IF run.head = Len(ledger) THEN Step("compare", "record") /\ RunOnly ELSE Again
RecordRecovery ==
    /\ run.at = "record"
    /\ Cardinality((1..Len(ledger)) \ Deletions(Len(ledger))) < MaxRecoveries
    /\ IF MayAppend(run.head, [kind |-> "recovery"])
       THEN /\ ledger' = Append(ledger, [kind |-> "recovery"])
            /\ Step("record", "confirm")
            /\ UNCHANGED <<db, issued, ticket, credential, dead, deletionVars, backup, traffic, openedAt, appliedAt, stale>>
       ELSE RunFails
Confirm ==
    /\ run.at = "confirm"
    /\ IF Len(ledger) = run.head + 1
       THEN run' = [run EXCEPT !.at = "activate", !.head = Len(ledger)] /\ RunOnly
       ELSE Again
Activate ==
    /\ run.at = "activate"
    /\ IF db = run.seal /\ SessionsAbsent /\ \A o \in Operations : db.intent[o] # "prepared"
       THEN /\ db' = [db EXCEPT !.status = "active"]
            /\ Step("activate", "open")
            /\ DbAnd(<<ticket, credential>>)
       ELSE RunFails
Open ==
    /\ run.at = "open"
    /\ IF run.head = Len(ledger)
       THEN /\ traffic' = "open" /\ openedAt' = run.head /\ appliedAt' = run.initial
            /\ Step("open", "opened")
            /\ UNCHANGED <<vars, backup, stale>>
       ELSE RunFails
Finished == run.at = "opened" /\ run' = NoRun /\ RunOnly

RunStep ==
    \/ Isolate \/ LatestHead \/ CheckActorTickets \/ ReconcileIntents \/ TakeIntent \/ ReapplyDeletion
    \/ DestroyReapplied \/ Reread \/ AppendComplete \/ DiscardCredentials \/ DestroyCredentials
    \/ MigrateIdentity \/ Compare \/ RecordRecovery \/ Confirm \/ Activate \/ Open \/ Finished
RunStops == run.at # "idle" /\ RunFails
RunCrashes == run.at # "idle" /\ run' = NoRun /\ RunOnly

RestoreStep ==
    \/ TakeBackup \/ PutBackup \/ Start
    \/ RunStep \/ RunStops \/ RunCrashes
    \/ traffic = "open" /\ UserNext /\ UNCHANGED restoreVars
    \/ WorkerNext /\ UNCHANGED restoreVars
    \/ CleanupNext /\ UNCHANGED restoreVars
RestoreNext == RestoreStep \/ ((\E o \in Operations : PassDeadline(o)) /\ UNCHANGED restoreVars)
RestoreSpec == RestoreInit /\ [][RestoreNext]_allVars

-----------------------------------------------------------------------------
(* What the restore promises.                                               *)

IsGone(o) ==
    /\ db.actor[Target(o)] # "active"
    /\ Target(o) \notin db.identity /\ SessionsOf(Target(o)) = {}
    /\ ticket[o].done /\ ticket[o].scopes \subseteq dead
    /\ db.intent[o] = "complete"

\* While users can reach the service, no deletion the restore applied again is undone: its actor
\* is out, its rows are gone and its keys are destroyed, even if the backup had brought them back.
DeletionsSurviveRestore == traffic = "open" => \A o \in Intents(appliedAt) : IsGone(o)

\* The restore opens the traffic under a head of which it applied every deletion: a head that
\* arrives while it applies the deletions of another is one it applies too.
NewHeadsAreApplied == traffic = "open" => \A o \in Intents(openedAt) : IsGone(o)

\* While users can reach the service, no row is sealed by a destroyed key.
OpenRowsAreReadable == traffic = "open" => dead \cap Rows = {}

\* No session from before the backup was put in place is a session afterwards.
OldSessionsAreOver == traffic = "open" => \A s \in stale \cap Sessions : db.session[s] = None

\* A key is destroyed only when no row sealed by it is left, no failure and no other worker between
\* two calls leaves a row nobody can read (AuthenticationDeletionService.resume,
\* AuthenticationCleanupService), and once a restore has opened the database again its rows are
\* readable too and none of its sessions is an old one (AuthenticationRestoreService.restore).
RowsAreReadableAndFresh == OpenRowsAreReadable /\ OldSessionsAreOver

\* A deletion is one story in the ledger, the database and the registry, whichever worker, attempt
\* or restore told each piece: at most one per actor, the ledger ahead of the database, an actor
\* disabled only under an intent.  Until a backup is put in place a deletion that is complete in
\* the ledger is complete, and what was reported complete is (AuthenticationDeletionService).
DeletionsAreWhole ==
    /\ OneDeletionPerActor
    /\ LedgerLeads
    /\ DisabledActorIsOut
    /\ stale = {} => CompleteMeansGone /\ ReportIsTrue
=============================================================================
