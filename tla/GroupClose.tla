----------------------------- MODULE GroupClose -----------------------------
(***************************************************************************)
(* Closing a group together with the two contexts that must agree to it    *)
(* (group-close-coordinator.ts, group-close-context-port.ts), on top of    *)
(* module Group.                                                           *)
(*                                                                         *)
(* Group actions are atomic here: each is one compare-and-swap commit,     *)
(* which module GroupCommit is about.  Requests to the ports and receipts  *)
(* may be late, repeated or reordered: a request can be served whenever    *)
(* the intent it names was once started, and a receipt that was issued can *)
(* be recorded at any later time.  A coordinator that stops between the    *)
(* reservation and the two removals is one that does not take its next     *)
(* step; run again with the same operation id, it replays the reservation  *)
(* and calls the ports again.                                              *)
(*                                                                         *)
(* The contexts themselves are not in the repository: they are modelled    *)
(* from what the port says they answer.                                    *)
(***************************************************************************)
EXTENDS Group

VARIABLES
    started,        \* the close intents ever registered, with their cutoff
    fence,          \* the fence each context holds, or Null
    fenceReceipts,      \* receipts the contexts issued for installed fences
    unfenceReceipts,    \* receipts the contexts issued for removed fences
    reservations,   \* cancellations the coordinator reserved, with its receipts
    running,        \* contexts that are executing a business command
    openWork        \* contexts with unsettled expenses or open settlements

closeVars == <<vars, started, fence, fenceReceipts, unfenceReceipts, reservations,
               running, openWork>>
contextVars == <<fence, fenceReceipts, unfenceReceipts, running, openWork>>

Intents == {s.closeIntentId : s \in started}

CloseTypeOK ==
    /\ TypeOK
    /\ started \subseteq [closeIntentId: CloseIntentIds, cutoff: Nat]
    /\ fence \in [Contexts -> [closeIntentId: CloseIntentIds, cutoff: Nat,
                               fenceVersion: 1 .. MaxFenceVersion] \cup {Null}]
    /\ fenceReceipts \subseteq CloseFenceReceipt
    /\ unfenceReceipts \subseteq CloseUnfenceReceipt
    /\ reservations \subseteq
           [closeIntentId: CloseIntentIds, receipts: SUBSET CloseFenceReceipt]
    /\ running \subseteq Contexts
    /\ openWork \subseteq Contexts

CloseInit ==
    /\ Init
    /\ started = {}
    /\ fence = [c \in Contexts |-> Null]
    /\ fenceReceipts = {}
    /\ unfenceReceipts = {}
    /\ reservations = {}
    /\ running = {}
    /\ openWork \in SUBSET Contexts

-----------------------------------------------------------------------------
(* Group commands *)

\* startGroupClosing: the intent is new, which the registry enforces.
Start(actor, intent, cutoff) ==
    /\ intent \notin Intents
    /\ StartClosing(actor, intent, cutoff)
    /\ started' = started \cup {[closeIntentId |-> intent, cutoff |-> cutoff]}
    /\ UNCHANGED <<contextVars, reservations>>

RecordFence(receipt) ==
    /\ receipt \in fenceReceipts
    /\ RecordCloseFenceReceipt(receipt)
    /\ UNCHANGED <<started, contextVars, reservations>>

ArchiveGroup(actor, intent, t) ==
    /\ Archive(actor, intent, t)
    /\ UNCHANGED <<started, contextVars, reservations>>

RecordUnfence(receipt) ==
    /\ receipt \in unfenceReceipts
    /\ RecordCloseUnfenceReceipt(receipt)
    /\ UNCHANGED <<started, contextVars, reservations>>

CompleteCancellation(actor, intent) ==
    /\ CompleteClosingCancellation(actor, intent)
    /\ UNCHANGED <<started, contextVars, reservations>>

-----------------------------------------------------------------------------
(* GroupCloseCoordinator.reserveAndRemoveFences *)

\* validateFenceReceipts: one receipt of each context, all of this intent, with
\* one cutoff.  Whether the group has recorded them is not asked.
ValidFenceReceipts(receipts, intent) ==
    /\ Cardinality(receipts) = 2
    /\ ContextsOf(receipts) = Contexts
    /\ \A r \in receipts : r.closeIntentId = intent /\ r.groupId = GroupId
    /\ \A r1, r2 \in receipts : r1.cutoff = r2.cutoff

\* The receipts are validated and the reservation is committed, before any port
\* is called.
ReserveCancellation(actor, intent, receipts) ==
    /\ ValidFenceReceipts(receipts, intent)
    /\ ReserveClosingCancellation(actor, intent)
    /\ reservations' = reservations \cup
           {[closeIntentId |-> intent, receipts |-> receipts]}
    /\ UNCHANGED <<started, contextVars>>

\* port.removeFence of one context, called once its reservation is committed;
\* a context that holds no such fence any more changes nothing.
RemoveFence(reservation, receipt) ==
    LET c == receipt.context
    IN  /\ reservation \in reservations
        /\ receipt \in reservation.receipts
        /\ fence[c] # Null
        /\ fence[c].closeIntentId = receipt.closeIntentId
        /\ fence[c].cutoff = receipt.cutoff
        /\ fence[c].fenceVersion = receipt.fenceVersion
        /\ fence' = [fence EXCEPT ![c] = Null]
        /\ \E t \in Instants :
               /\ t >= receipt.completedAt
               /\ unfenceReceipts' = unfenceReceipts \cup
                      {[groupId |-> receipt.groupId, context |-> c,
                        closeIntentId |-> receipt.closeIntentId,
                        cutoff |-> receipt.cutoff,
                        fenceVersion |-> receipt.fenceVersion, completedAt |-> t]}
        /\ UNCHANGED <<vars, started, fenceReceipts, reservations, running, openWork>>

-----------------------------------------------------------------------------
(* The contexts *)

\* Each installation in a context takes the next version, from 1.
NextFenceVersion(c) == Cardinality({r \in fenceReceipts : r.context = c}) + 1

\* installFence, first half: from here on the context accepts no new command.
\* An intent whose fence the context once had is not fenced again.
InstallFence(c, s) ==
    /\ s \in started
    /\ fence[c] = Null
    /\ \A r \in fenceReceipts : r.context = c => r.closeIntentId # s.closeIntentId
    /\ NextFenceVersion(c) <= MaxFenceVersion
    /\ fence' = [fence EXCEPT ![c] =
           [closeIntentId |-> s.closeIntentId, cutoff |-> s.cutoff,
            fenceVersion |-> NextFenceVersion(c)]]
    /\ UNCHANGED <<vars, started, fenceReceipts, unfenceReceipts, reservations,
                   running, openWork>>

\* installFence, second half: the receipt is issued when every command accepted
\* before the fence has committed or rolled back.
IssueFenceReceipt(c, t) ==
    /\ fence[c] # Null
    /\ c \notin running
    /\ \A r \in fenceReceipts : r.context = c => r.closeIntentId # fence[c].closeIntentId
    /\ fenceReceipts' = fenceReceipts \cup
           {[groupId |-> GroupId, context |-> c,
             closeIntentId |-> fence[c].closeIntentId, cutoff |-> fence[c].cutoff,
             fenceVersion |-> fence[c].fenceVersion, completedAt |-> t,
             eligible |-> c \notin openWork]}
    /\ UNCHANGED <<vars, started, fence, unfenceReceipts, reservations, running, openWork>>

\* A business command of a context begins, which a fence refuses, and ends,
\* leaving work open or not.
StartCommand(c) ==
    /\ fence[c] = Null
    /\ c \notin running
    /\ running' = running \cup {c}
    /\ UNCHANGED <<vars, started, fence, fenceReceipts, unfenceReceipts,
                   reservations, openWork>>

EndCommand(c) ==
    /\ c \in running
    /\ running' = running \ {c}
    /\ openWork' \in {openWork \cup {c}, openWork \ {c}}
    /\ UNCHANGED <<vars, started, fence, fenceReceipts, unfenceReceipts, reservations>>

-----------------------------------------------------------------------------
CancellationStep ==
    \/ \E reservation \in reservations : \E receipt \in reservation.receipts :
           RemoveFence(reservation, receipt)
    \/ \E receipt \in unfenceReceipts : RecordUnfence(receipt)
    \/ \E actor \in Subjects, intent \in CloseIntentIds :
           CompleteCancellation(actor, intent)

CloseNext ==
    \/ \E actor \in Subjects, intent \in CloseIntentIds :
           \/ \E t \in Instants : Start(actor, intent, t) \/ ArchiveGroup(actor, intent, t)
           \/ \E r1, r2 \in fenceReceipts : ReserveCancellation(actor, intent, {r1, r2})
    \/ \E receipt \in fenceReceipts : RecordFence(receipt)
    \/ CancellationStep
    \/ \E c \in Contexts :
           \/ \E s \in started : InstallFence(c, s)
           \/ \E t \in Instants : IssueFenceReceipt(c, t)
           \/ StartCommand(c)
           \/ EndCommand(c)

CloseSpec == CloseInit /\ [][CloseNext]_closeVars

\* A reserved cancellation is retried until it is through: the ports are called
\* again, their receipts recorded again, and the owner completes it.
CloseFairSpec == CloseSpec /\ WF_closeVars(CancellationStep)

-----------------------------------------------------------------------------
\* An archived group has both fences in place, nothing running behind them and
\* nothing left to settle, and stays so: no removal was ever asked for, however
\* late a coordinator's call or a receipt comes.
ArchivedIsSettled ==
    status = "Archived" =>
        /\ \A c \in Contexts : fence[c] # Null
        /\ running = {}
        /\ openWork = {}

\* A group that is in use is not fenced: a cancelled closing leaves no context
\* refusing commands, and no request of an earlier intent fences it again.
ActiveIsUnfenced ==
    status = "Active" => \A c \in Contexts : fence[c] = Null

\* A fence is only taken down once the group is committed to cancelling the
\* intent the fence was for: no intent that can still be archived loses a fence.
UnfencedOnlyAfterReservation ==
    \A r \in unfenceReceipts :
        closing # Null /\ closing.closeIntentId = r.closeIntentId
            => closing.phase = "Canceling"

\* Once a closing was asked for, the fences follow the group: an archived group
\* is settled and fenced, one in use is not fenced, and no intent that can still
\* be archived loses a fence (GroupCloseCoordinator).
FencesFollowTheGroup ==
    started # {} =>
        /\ CloseTypeOK
        /\ ArchivedIsSettled
        /\ ActiveIsUnfenced
        /\ UnfencedOnlyAfterReservation

Canceling == closing # Null /\ closing.phase = "Canceling"

\* Every reserved cancellation ends: unfencing and collecting the receipts is
\* retried under the same intent until the group is in use again.
CancellationCompletes == Canceling ~> status = "Active"
=============================================================================
