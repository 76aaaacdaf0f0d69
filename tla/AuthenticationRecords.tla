------------------------- MODULE AuthenticationRecords -------------------------
(***************************************************************************)
(* What the maintenance services of the authentication context share: the  *)
(* authentication database, the registry of the keys that seal its rows,   *)
(* and the ledger of deletions, which no backup of the database rolls      *)
(* back.  Every operator that reads or changes the database is one         *)
(* transaction; the registry and the ledger are outside services, seen     *)
(* through the calls the code makes of them.                               *)
(***************************************************************************)
EXTENDS Integers, Sequences, FiniteSets

CONSTANTS
    Actors,       \* the identities; the key scope of an identity is its actor
    Sessions,     \* the sessions, each a key scope of its own
    Operations,   \* the identifiers of the deletions
    None

VARIABLES
    db,           \* the rows of the authentication schema
    issued,       \* the identifiers already given out, never given again
    ticket,       \* registry: the ticket of a deletion
    credential,   \* registry: the ticket of a session that is cleaned up
    dead,         \* registry: the scopes whose keys are destroyed
    ledger        \* the entries of the deletion ledger, oldest first

recordVars == <<db, issued, ticket, credential, dead, ledger>>

Statuses == {"active", "quarantined", "restoring"}
ActorStates == {"none", "active", "disabled"}
SessionRows == [owner : Actors, state : {"active", "due", "revoked"}]
Tickets == [scopes : SUBSET (Actors \cup Sessions), done : BOOLEAN]

ASSUME NoneAssumption == None \notin SessionRows \cup Tickets \cup Operations
ASSUME ScopesAssumption == Actors \cap Sessions = {}

Entries == [kind : {"deletion"}, op : Operations, actor : Actors, state : {"prepared", "complete"}]
             \cup [kind : {"recovery"}]

Init ==
    /\ db = [status |-> "active", actor |-> [a \in Actors |-> "none"], identity |-> {},
             session |-> [s \in Sessions |-> None], intent |-> [o \in Operations |-> "none"]]
    /\ issued = {}
    /\ ticket = [o \in Operations |-> None]
    /\ credential = [s \in Sessions |-> "none"]
    /\ dead = {}
    /\ ledger = <<>>

TypeOK ==
    /\ db.status \in Statuses
    /\ db.actor \in [Actors -> ActorStates]
    /\ db.identity \subseteq Actors
    /\ db.session \in [Sessions -> SessionRows \cup {None}]
    /\ db.intent \in [Operations -> {"none", "prepared", "complete"}]
    /\ issued \subseteq Actors \cup Sessions
    /\ ticket \in [Operations -> Tickets \cup {None}]
    /\ credential \in [Sessions -> {"none", "pending", "checked", "destroyed"}]
    /\ dead \subseteq Actors \cup Sessions
    /\ ledger \in Seq(Entries)

-----------------------------------------------------------------------------
(* The ledger, read up to a verified head h.                                *)

Deletions(h) == {i \in 1..h : ledger[i].kind = "deletion"}
Intents(h) == {ledger[i].op : i \in Deletions(h)}
StateAt(h, o) ==
    IF \E i \in Deletions(h) : ledger[i].op = o /\ ledger[i].state = "complete"
    THEN "complete" ELSE "prepared"
Target(o) == LET i == CHOOSE i \in Deletions(Len(ledger)) : ledger[i].op = o IN ledger[i].actor
Transition(h, entry) ==
    entry.kind = "deletion" =>
        IF entry.state = "prepared" THEN entry.op \notin Intents(h)
        ELSE entry.op \in Intents(h) /\ StateAt(h, entry.op) = "prepared"
\* A conditional append: refused unless the head read before is still the head.
MayAppend(h, entry) == h = Len(ledger) /\ Transition(h, entry)

(* The registry.                                                            *)

PendingTickets(a) == {o \in Operations : ticket[o] # None /\ ~ticket[o].done /\ a \in ticket[o].scopes}
\* Adding scopes to the ticket of a deletion changes its version.
PrepareTicket(o, scopes) ==
    ticket' = [ticket EXCEPT ![o] =
        IF @ = None THEN [scopes |-> scopes, done |-> FALSE]
        ELSE [scopes |-> @.scopes \cup scopes, done |-> @.done /\ scopes \subseteq @.scopes]]
DestroyTicket(o) ==
    /\ ticket' = [ticket EXCEPT ![o].done = TRUE]
    /\ dead' = dead \cup ticket[o].scopes

(* The database.                                                            *)

MaintenanceOpen == db.status \in {"active", "quarantined"}
Quarantined(d) == [d EXCEPT !.status = IF @ = "restoring" THEN @ ELSE "quarantined"]
SessionsOf(a) == {s \in Sessions : db.session[s] # None /\ db.session[s].owner = a}
Rows == db.identity \cup {s \in Sessions : db.session[s] # None}
AbsentRows(scopes) == scopes \cap Rows = {}
\* Every row of a deletion in the database is one the ledger knows, and is never ahead of it.
Reconciled(h) ==
    \A o \in Operations :
        /\ db.intent[o] # "none" => o \in Intents(h)
        /\ db.intent[o] = "complete" => StateAt(h, o) = "complete"
\* At most one row of a deletion for an actor, and it agrees with the ledger's record.
IntentFits(o, state) ==
    /\ \A other \in Operations \ {o} : db.intent[other] # "none" => Target(other) # Target(o)
    /\ db.intent[o] = "complete" => state = "complete"
Ensured(intents, o) == [intents EXCEPT ![o] = IF @ = "none" THEN "prepared" ELSE @]
WithoutSessions(d, gone) == [d EXCEPT !.session = [s \in Sessions |-> IF s \in gone THEN None ELSE @[s]]]

\* The actor and every session end, in the transaction that records the intent.
Disabled(o) ==
    [db EXCEPT
        !.actor[Target(o)] = "disabled",
        !.session = [s \in Sessions |->
            IF s \in SessionsOf(Target(o)) THEN [@[s] EXCEPT !.state = "revoked"] ELSE @[s]],
        !.intent = Ensured(@, o)]
\* Mutant: only an active actor may be disabled, so an interrupted deletion cannot be resumed.
MayDisableOnce(o, state) == MaintenanceOpen /\ db.actor[Target(o)] = "active" /\ IntentFits(o, state)
MayDisable(o, state) ==
    /\ MaintenanceOpen
    /\ db.actor[Target(o)] # "none"
    /\ SessionsOf(Target(o)) \cap dead = {}
    /\ IntentFits(o, state)

Removed(o) ==
    [WithoutSessions(db, SessionsOf(Target(o))) EXCEPT
        !.identity = @ \ {Target(o)}, !.intent = Ensured(@, o)]
MayRemove(o, state, scopes) ==
    /\ MaintenanceOpen
    /\ ticket[o].scopes = scopes
    /\ db.actor[Target(o)] = "disabled"
    /\ \A s \in SessionsOf(Target(o)) : db.session[s].state = "revoked" /\ s \in scopes
    /\ (SessionsOf(Target(o)) \cup (db.identity \cap {Target(o)})) \cap dead = {}
    /\ IntentFits(o, state)

MayComplete(o) ==
    /\ MaintenanceOpen
    /\ db.actor[Target(o)] = "disabled"
    /\ Target(o) \notin db.identity
    /\ SessionsOf(Target(o)) = {}
    /\ db.intent[o] # "none"
Completed(o) == [db EXCEPT !.intent[o] = "complete"]
=============================================================================
