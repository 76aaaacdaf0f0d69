---------------------------- MODULE InvitationLease ----------------------------
(***************************************************************************)
(* One transaction that uses a recipient code.                             *)
(*                                                                         *)
(* The owner of the transaction lends a scope to an application callback.  *)
(* The callback may call the repository, serialize bodies and consume the  *)
(* code, in any order, with or without awaiting what it calls; it may      *)
(* return while calls are pending, or return another body than the one it  *)
(* saved.  The scope notices what is wrong and the owner then rolls back.  *)
(* The callback here is any callback, not only the invitation service.     *)
(***************************************************************************)
EXTENDS Integers, Sequences

CONSTANTS
    Bodies,     \* the replies of an invitation
    None,       \* stands for no reply
    MaxCalls    \* bound: calls of one callback

NoneAssumption == None \notin Bodies /\ "denied" \notin Bodies /\ "unavailable" \notin Bodies

VARIABLES
    owner,      \* where the owner of the transaction is
    frame,      \* the scope's private record of the transaction
    calls,      \* the calls the scope admitted, in order
    tx,         \* the database transaction
    db,         \* what is committed
    fresh,      \* are the session and the code still good
    result,     \* what the callback returned
    answer      \* what the caller is told

vars == <<owner, frame, calls, tx, db, fresh, result, answer>>

Kinds == {"find", "load", "stage", "consume"}
Open == owner \in {"prepare", "judge", "callback"}
Init ==
    /\ owner = "prepare"
    /\ frame = [failed |-> FALSE, prepared |-> FALSE, bound |-> FALSE, loaded |-> FALSE, bodies |-> {},
                plan |-> None, witness |-> None, value |-> None, writes |-> 0, consumed |-> FALSE]
    /\ calls = <<>>
    /\ tx = [state |-> "open", aborted |-> FALSE, saved |-> None, consumed |-> FALSE]
    /\ db = [saved |-> None, consumed |-> FALSE]
    /\ fresh = TRUE
    /\ result = None
    /\ answer = "none"

\* Every variable stays in its type.
LeaseTypeOK ==
    /\ owner \in {"prepare", "judge", "callback", "saving", "judged", "commit", "draining", "closed"}
    /\ frame.bodies \subseteq Bodies
    /\ {frame.plan, frame.witness, frame.value, tx.saved, db.saved} \subseteq Bodies \cup {None}
    /\ frame.writes \in 0..2
    /\ \A i \in 1..Len(calls) :
         /\ calls[i].kind \in Kinds /\ calls[i].observed \in BOOLEAN
         /\ calls[i].at \in {"ready", "sent", "done", "failed"} /\ calls[i].left \in 0..2
    /\ tx.state \in {"open", "ended", "destroyed"}
    /\ result \in Bodies \cup {None, "denied"}
    /\ answer \in Bodies \cup {"none", "denied", "unavailable"}

-----------------------------------------------------------------------------
(* The calls of the callback.                                               *)

Settled(c) == c.at \in {"done", "failed"}
AllReceived == \A i \in 1..Len(calls) : calls[i].observed /\ Settled(calls[i])
\* A call that is refused spoils the transaction.
Refuse == frame' = [frame EXCEPT !.failed = TRUE] /\ UNCHANGED calls
Admit(kind, statements) ==
    calls' = Append(calls, [kind |-> kind, at |-> "ready", left |-> statements, observed |-> FALSE])
Calling ==
    /\ owner \notin {"prepare", "judge"} /\ Len(calls) < MaxCalls
    /\ UNCHANGED <<owner, tx, db, fresh, result, answer>>

\* The repository runs one operation at a time: the one before must have been awaited.
MayRun ==
    /\ Open /\ frame.prepared /\ ~frame.failed
    /\ \A i \in 1..Len(calls) : calls[i].kind # "consume" => calls[i].observed /\ Settled(calls[i])
CallRead(kind) ==
    /\ Calling
    /\ IF MayRun THEN Admit(kind, 1) /\ UNCHANGED frame ELSE Refuse

\* The body of a save is fixed before its first statement, and only once.
MayPlan(body) ==
    /\ frame.bound /\ frame.loaded
    /\ frame.value = None /\ frame.plan = None
    /\ AllReceived
    /\ body \in frame.bodies
CallStage(body) ==
    /\ Calling
    /\ IF MayRun /\ MayPlan(body)
       THEN Admit("stage", 2) /\ frame' = [frame EXCEPT !.plan = body]
       ELSE Refuse

Serialize(body) ==
    /\ owner = "callback"
    /\ frame' = IF fresh THEN [frame EXCEPT !.bodies = @ \cup {body}] ELSE [frame EXCEPT !.failed = TRUE]
    /\ UNCHANGED <<owner, calls, tx, db, fresh, result, answer>>

\* The evidence of the save is good for one consumption.
CallConsume ==
    /\ Calling
    /\ IF Open /\ frame.bound /\ frame.value = None /\ frame.witness # None /\ ~frame.failed
       THEN frame' = [frame EXCEPT !.value = frame.witness, !.witness = None] /\ Admit("consume", 1)
       ELSE Refuse

Observe(i) ==
    /\ ~calls[i].observed
    /\ calls' = [calls EXCEPT ![i].observed = TRUE]
    /\ UNCHANGED <<owner, frame, tx, db, fresh, result, answer>>

-----------------------------------------------------------------------------
(* The statements of a call, one at a time.                                 *)

CallFails(i) ==
    /\ calls' = [calls EXCEPT ![i].at = "failed"]
    /\ frame' = [frame EXCEPT !.failed = TRUE]

\* A statement is sent only while the scope is open; a consumption judges the code and session again.
Send(i) ==
    /\ calls[i].at = "ready"
    /\ IF Open /\ (calls[i].kind = "consume" => fresh)
       THEN calls' = [calls EXCEPT ![i].at = "sent"] /\ UNCHANGED frame
       ELSE CallFails(i)
    /\ UNCHANGED <<owner, tx, db, fresh, result, answer>>

\* What the last statement of a call, once answered, leaves in the frame.
Finished(kind) ==
    CASE kind = "load"    -> [frame EXCEPT !.loaded = TRUE]
      [] kind = "stage"   -> [frame EXCEPT !.writes = @ + 1, !.witness = frame.plan]
      [] kind = "consume" -> [frame EXCEPT !.consumed = TRUE]
      [] kind = "find"    -> frame
\* What a statement writes.
Written(c) ==
    CASE c.kind = "stage" /\ c.left = 2 -> [tx EXCEPT !.saved = frame.plan]
      [] c.kind = "consume"             -> [tx EXCEPT !.consumed = TRUE]
      [] OTHER                          -> tx
\* The database refuses every statement of a transaction in which one failed.
Execute(i) ==
    /\ calls[i].at = "sent"
    /\ \/ /\ tx.state = "open" /\ ~tx.aborted
          /\ tx' = Written(calls[i])
          /\ IF calls[i].left > 1
             THEN /\ calls' = [calls EXCEPT ![i].at = "ready", ![i].left = @ - 1]
                  /\ frame' = [frame EXCEPT !.writes = @ + 1]
             ELSE /\ calls' = [calls EXCEPT ![i].at = "done", ![i].left = 0]
                  /\ frame' = Finished(calls[i].kind)
       \/ /\ tx' = [tx EXCEPT !.aborted = TRUE]
          /\ CallFails(i)
    /\ UNCHANGED <<owner, db, fresh, result, answer>>

-----------------------------------------------------------------------------
(* The owner of the transaction.                                            *)

\* Sealing counts every call that was not awaited as a failure.
Seal == frame' = [frame EXCEPT !.failed = @ \/ ~AllReceived]
Fails == owner' = "draining" /\ Seal

Prepare ==
    /\ owner = "prepare"
    /\ \/ owner' = "judge" /\ frame' = [frame EXCEPT !.prepared = TRUE]
       \/ Fails
    /\ UNCHANGED <<calls, tx, db, fresh, result, answer>>

\* A usable code is bound to the scope and lent to the callback; an unusable one is denied.
Judge ==
    /\ owner = "judge"
    /\ \/ /\ fresh /\ owner' = "callback"
          /\ frame' = [frame EXCEPT !.bound = TRUE] /\ UNCHANGED result
       \/ /\ owner' = "saving" /\ result' = "denied" /\ Seal
       \/ Fails /\ UNCHANGED result
    /\ UNCHANGED <<calls, tx, db, fresh, answer>>

\* Mutant: any body of the scope will do as the result.
OwnsAny(body) == body \in frame.bodies
\* The body returned must be the one that was saved and consumed with.
OwnsResult(body) == body \in frame.bodies /\ frame.value = body
Committable == ~frame.failed /\ AllReceived /\ (frame.bound => frame.consumed) /\ fresh

Return(body) ==
    /\ owner = "callback"
    /\ result' = body
    /\ Seal
    /\ owner' = IF OwnsResult(body) /\ Committable THEN "saving" ELSE "draining"
    /\ UNCHANGED <<calls, tx, db, fresh, answer>>
Throw ==
    /\ owner = "callback"
    /\ Fails
    /\ UNCHANGED <<calls, tx, db, fresh, result, answer>>

\* The owner's own rows: the session and the audit.
SaveSession ==
    /\ owner = "saving"
    /\ \/ ~tx.aborted /\ owner' = "judged" /\ UNCHANGED <<tx, frame>>
       \/ Fails /\ tx' = [tx EXCEPT !.aborted = TRUE]
    /\ UNCHANGED <<calls, db, fresh, result, answer>>

\* Everything is judged once more right before the commit.
SendCommit ==
    /\ owner = "judged"
    /\ owner' = IF Committable THEN "commit" ELSE "draining"
    /\ UNCHANGED <<frame, calls, tx, db, fresh, result, answer>>

Commits == db' = [db EXCEPT !.saved = tx.saved, !.consumed = tx.consumed]
Commit ==
    /\ owner = "commit" /\ tx.state = "open"
    /\ owner' = "closed"
    /\ tx' = [tx EXCEPT !.state = "ended"]
    /\ answer' = result
    /\ IF tx.aborted THEN UNCHANGED db ELSE Commits
    /\ UNCHANGED <<frame, calls, fresh, result>>
\* Once COMMIT was sent the database may still carry it out when its answer is no longer awaited.
LostCommit ==
    /\ owner = "commit"
    /\ owner' = "closed" /\ answer' = "unavailable"
    /\ tx' = [tx EXCEPT !.state = "destroyed"]
    /\ IF tx.aborted THEN UNCHANGED db ELSE Commits \/ UNCHANGED db
    /\ UNCHANGED <<frame, calls, fresh, result>>

\* A rollback waits for the statements on the way, then gives the connection back.
Rollback ==
    /\ owner = "draining"
    /\ \A i \in 1..Len(calls) : calls[i].at # "sent"
    /\ owner' = "closed" /\ answer' = "unavailable"
    /\ tx' = [tx EXCEPT !.state = "ended"]
    /\ UNCHANGED <<frame, calls, db, fresh, result>>

\* A timeout, a cancellation or a broken connection ends the transaction wherever it is.
Interrupt ==
    /\ owner \notin {"commit", "closed"}
    /\ owner' = "closed" /\ answer' = "unavailable"
    /\ Seal
    /\ tx' = [tx EXCEPT !.state = "destroyed"]
    /\ UNCHANGED <<calls, db, fresh, result>>

TurnStale ==
    /\ fresh /\ fresh' = FALSE
    /\ UNCHANGED <<owner, frame, calls, tx, db, result, answer>>

Next ==
    \/ Prepare \/ Judge \/ Throw \/ SaveSession \/ SendCommit
    \/ Commit \/ LostCommit \/ Rollback \/ Interrupt \/ TurnStale
    \/ \E kind \in {"find", "load"} : CallRead(kind)
    \/ \E body \in Bodies : CallStage(body) \/ Serialize(body) \/ Return(body)
    \/ CallConsume
    \/ \E i \in 1..Len(calls) : Observe(i) \/ Send(i) \/ Execute(i)

Spec == Init /\ [][Next]_vars

-----------------------------------------------------------------------------

\* No statement of a callback runs on a connection that was given back: it would join the
\* transaction of another user of the pool.
NoStrayStatement == \A i \in 1..Len(calls) : calls[i].at = "sent" => tx.state # "ended"

Promise == INSTANCE AtomicInvitation WITH saved <- db.saved, consumed <- db.consumed
\* A transaction of a recipient code does what AtomicInvitation promises: what is answered as saved
\* is saved, and a denial leaves nothing behind.
ImplementsPromise == Promise!Spec
=============================================================================
