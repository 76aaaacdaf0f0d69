------------------------------- MODULE MCProgress -------------------------------
(***************************************************************************)
(* What must come to an end: commands of the group context (GroupCommit),  *)
(* logins while the search key rotates (FirstLogin), budgets of requests   *)
(* (HttpRate), requests about recipient codes (RecipientCode), repeated    *)
(* deletions of groups and of actors (RetriedRetention, RetriedDeletion),  *)
(* what the login page is busy with (WebLogin) and cancelled closings      *)
(* (GroupClose).  Every behaviour is one of the part it starts with, and   *)
(* each condition of fairness is the one the part's module names.          *)
(***************************************************************************)
EXTENDS Integers, Sequences

CONSTANTS
    Two,                    \* clients, connections, workers, requests
    o1, o2, g1, p1, p2, a1, a2, k1, k2, w1,
    Null, NoRegistryRow, NoReceipt, NoAnswer, Forged, Erase, Global

VARIABLES
    part, now, requests, tx, told, calls, calm,
    version, locators, keyState, nodeKey, pc, request, inDoubt, replies,
    versions, actor, identity, aliases, login,
    policy, rows, worker, writes, counted, allowed, late,
    active, row, saved, answers, codeTx,
    group, registry, receipts, jobs, answer, history,
    db, issued, ticket, credential, dead, ledger, job, deadline, complete,
    attempts, expired, sessions, webCalls, jar, tabs, bound, spent, signedOut,
    status, ownerParticipantId, participants, invitations, accessPolicyVersion, closing,
    ownerAtArchiveParticipantId, archivedAt, deleteEligibleAt, started, fence,
    fenceReceipts, unfenceReceipts, reservations, running, openWork

commitVars == <<version, locators, keyState, nodeKey, pc, request, tx, inDoubt, calls, replies>>
loginVars == <<versions, actor, identity, aliases, login>>
rateVars == <<policy, rows, worker, writes, counted, allowed, late>>
codeVars == <<active, row, saved, codeTx, told, answers>>
retentionVars == <<group, registry, receipts, jobs, answer, history>>
deletionVars == <<db, issued, ticket, credential, dead, ledger, job, deadline, complete>>
tabVars == <<jar, tabs, bound, spent, signedOut>>
webVars == <<attempts, expired, sessions, webCalls, tabVars>>
closeVars ==
    <<status, ownerParticipantId, participants, invitations, accessPolicyVersion, closing,
      ownerAtArchiveParticipantId, archivedAt, deleteEligibleAt, started, fence,
      fenceReceipts, unfenceReceipts, reservations, running, openWork>>
allVars ==
    <<part, now, requests, calm, commitVars, loginVars, rateVars, codeVars, retentionVars,
      deletionVars, webVars, closeVars>>

\* Each of Two asks for the deletion of the group under a close intent of its own.
AskFor(x) ==
    [groupId |-> g1, closeIntentId |-> x,
     receipt |-> [operationId |-> o1, intentVersion |-> 1, canonicalReceipt |-> Null],
     evidence |-> [operationId |-> o1, intentVersion |-> 1]]

CommitPart ==
    INSTANCE GroupCommit
        WITH Clients <- Two, OperationIds <- {o1, o2}, GroupIds <- {g1}, MaxVersion <- 1,
             MaxKey <- 1, MaxCalls <- 2
LoginPart ==
    INSTANCE FirstLogin
        WITH Logins <- Two, Accounts <- {p1}, Actors <- {a1, a2}, MaxVersion <- 2
RatePart ==
    INSTANCE HttpRate
        WITH Connections <- Two, Keys <- {k1, k2}, Peers <- {p1, p2}, PeerLimit <- 1,
             GlobalLimit <- 1, Window <- 2, Batch <- 2, MaxRateTime <- 2, MaxRateRequests <- 3,
             Unset <- Null, rateNow <- now, begun <- requests
CodePart ==
    INSTANCE RecipientCode
        WITH CodeActors <- {1, 2}, Codes <- {p1, p2}, Operations <- {o1}, Workers <- Two,
             Caller <- [o \in {o1} |-> 2], Lifetime <- 1, MaxTime <- 0, MaxRequests <- 3,
             Nobody <- Null, tx <- codeTx
RetentionPart ==
    INSTANCE RetriedRetention
        WITH Groups <- {g1}, CloseIntents <- Two, Operations <- {o1}, Versions <- {1},
             Receipts <- {Null}, Requests <- {AskFor(x) : x \in Two}, Workers <- Two,
             Year <- 1, MaxTime <- 1, NoGroup <- Null, NoRow <- NoRegistryRow,
             NoRequest <- Null
DeletionPart ==
    INSTANCE RetriedDeletion
        WITH Actors <- {a1}, Sessions <- {k1}, Operations <- Two, Workers <- {w1},
             None <- Null, told <- complete
WebPart ==
    INSTANCE WebLogin
        WITH Attempts <- {a1}, Sessions <- {k1}, Calls <- Two, Tabs <- {p1}, calls <- webCalls
ClosePart ==
    INSTANCE GroupClose
        WITH Subjects <- {a1}, ParticipantIds <- {p1}, InvitationIds <- {o1},
             CloseIntentIds <- {k1, k2}, GroupIds <- {g1}, GroupId <- g1, Instants <- {0},
             MaxFenceVersion <- 2, MaxActiveParticipants <- 4, InvitationLifetime <- 1,
             RetentionEnd <- [t \in {0} |-> t + 1], MaxSafeInteger <- 20

\* Outside of its part the state of a component is left out.
NoCommit ==
    /\ version = <<>> /\ locators = <<>> /\ keyState = <<>> /\ nodeKey = <<>> /\ pc = <<>>
    /\ request = <<>> /\ tx = <<>> /\ inDoubt = <<>> /\ calls = <<>> /\ replies = <<>>
NoLogin ==
    /\ versions = <<>> /\ actor = <<>> /\ identity = <<>> /\ aliases = <<>> /\ login = <<>>
NoRate ==
    /\ policy = <<>> /\ rows = <<>> /\ worker = <<>> /\ writes = <<>> /\ counted = <<>>
    /\ allowed = <<>> /\ late = <<>>
NoCode ==
    /\ active = <<>> /\ row = <<>> /\ saved = <<>> /\ codeTx = <<>> /\ told = <<>>
    /\ answers = <<>>
NoRetention ==
    /\ group = <<>> /\ registry = <<>> /\ receipts = <<>> /\ jobs = <<>> /\ answer = <<>>
    /\ history = <<>>
NoDeletion ==
    /\ db = <<>> /\ issued = <<>> /\ ticket = <<>> /\ credential = <<>> /\ dead = <<>>
    /\ ledger = <<>> /\ job = <<>> /\ deadline = <<>> /\ complete = <<>>
NoWeb ==
    /\ attempts = <<>> /\ expired = <<>> /\ sessions = <<>> /\ webCalls = <<>> /\ jar = <<>>
    /\ tabs = <<>> /\ bound = <<>> /\ spent = <<>> /\ signedOut = <<>>
NoClose ==
    /\ status = <<>> /\ ownerParticipantId = <<>> /\ participants = <<>>
    /\ invitations = <<>> /\ accessPolicyVersion = <<>> /\ closing = <<>>
    /\ ownerAtArchiveParticipantId = <<>> /\ archivedAt = <<>> /\ deleteEligibleAt = <<>>
    /\ started = <<>> /\ fence = <<>> /\ fenceReceipts = <<>> /\ unfenceReceipts = <<>>
    /\ reservations = <<>> /\ running = <<>> /\ openWork = <<>>

ProgressInit ==
    /\ part \in {"commit", "login", "rate", "code", "retention", "deletion", "web", "close"}
    /\ now = 0 /\ requests = 0 /\ calm = FALSE
    /\ IF part = "commit" THEN CommitPart!CommitInit ELSE NoCommit
    /\ IF part = "login" THEN LoginPart!Init ELSE NoLogin
    /\ IF part = "rate" THEN RatePart!RateInit ELSE NoRate
    /\ IF part = "code" THEN CodePart!CodeInit ELSE NoCode
    /\ IF part = "retention" THEN RetentionPart!RetriedInit ELSE NoRetention
    /\ IF part = "deletion" THEN DeletionPart!RetriedInit ELSE NoDeletion
    /\ IF part = "web" THEN WebPart!Init ELSE NoWeb
    /\ IF part = "close" THEN ClosePart!CloseInit ELSE NoClose

\* A step of one part leaves the others as they are.
ButCommit == UNCHANGED <<part, now, requests, calm, loginVars, rateVars, codeVars,
                         retentionVars, deletionVars, webVars, closeVars>>
ButLogin == UNCHANGED <<part, now, requests, calm, commitVars, rateVars, codeVars,
                        retentionVars, deletionVars, webVars, closeVars>>
ButRate == UNCHANGED <<part, calm, commitVars, loginVars, codeVars, retentionVars,
                       deletionVars, webVars, closeVars>>
ButCode == UNCHANGED <<part, calm, commitVars, loginVars, rateVars, retentionVars,
                       deletionVars, webVars, closeVars>>
ButRetention == UNCHANGED <<part, requests, commitVars, loginVars, rateVars, codeVars,
                            deletionVars, webVars, closeVars>>
ButDeletion == UNCHANGED <<part, now, requests, commitVars, loginVars, rateVars, codeVars,
                           retentionVars, webVars, closeVars>>
ButWeb == UNCHANGED <<part, now, requests, calm, commitVars, loginVars, rateVars, codeVars,
                      retentionVars, deletionVars, closeVars>>
ButClose == UNCHANGED <<part, now, requests, calm, commitVars, loginVars, rateVars,
                        codeVars, retentionVars, deletionVars, webVars>>

\* Bound: the attempt of the login page does not expire.
NothingExpires == expired' = {}

ProgressNext ==
    \/ part = "commit" /\ CommitPart!CommitNext /\ ButCommit
    \/ part = "login" /\ LoginPart!Next /\ ButLogin
    \/ part = "rate" /\ RatePart!RateNext /\ ButRate
    \/ part = "code" /\ CodePart!CodeNext /\ ButCode
    \/ part = "retention" /\ RetentionPart!RetriedNext /\ RetentionPart!NoneReopens /\ ButRetention
    \/ part = "deletion" /\ DeletionPart!RetriedNext /\ ButDeletion
    \/ part = "web" /\ WebPart!Next /\ NothingExpires /\ ButWeb
    \/ part = "close" /\ ClosePart!CloseNext /\ ButClose

\* What each of Two goes on with whenever it waits for nothing.
Goes(x) ==
    \/ part = "commit" /\ CommitPart!ClientStep(x) /\ ButCommit
    \/ part = "code" /\ CodePart!CodeStep(x) /\ ButCode
    \/ part = "retention" /\ RetentionPart!Progress(x) /\ ButRetention
    \/ part = "deletion" /\ x = w1 /\ DeletionPart!Progress(x) /\ ButDeletion
    \/ part = "web" /\ WebPart!Serve(x) /\ UNCHANGED tabVars /\ ButWeb
    \/ part = "web" /\ WebPart!Return(x) /\ ButWeb

\* What each of Two gets a turn with when it could again and again: a lock that others
\* hold now and then, a deletion that is asked for again.
GetsItsTurn(x) ==
    \/ part = "login" /\ LoginPart!Step(x) /\ ButLogin
    \/ part = "rate" /\ RatePart!RateStep(x) /\ ButRate
    \/ part = "retention" /\ RetentionPart!Retry(AskFor(x)) /\ ButRetention
    \/ part = "deletion" /\ DeletionPart!Retry(x) /\ ButDeletion

\* What is not done by one of Two.
Others ==
    \/ part = "commit" /\ (\E t \in inDoubt : CommitPart!SettleInDoubt(t)) /\ ButCommit
    \/ part = "retention" /\ RetentionPart!BecomesCalm /\ ButRetention
    \/ part = "deletion" /\ DeletionPart!BecomesCalm /\ ButDeletion
    \/ part = "close" /\ ClosePart!CancellationStep /\ ButClose

ProgressSpec ==
    /\ ProgressInit /\ [][ProgressNext]_allVars
    /\ WF_allVars(Others)
    /\ \A x \in Two :
           WF_allVars(Goes(x)) /\ SF_allVars(GetsItsTurn(x))

-----------------------------------------------------------------------------
(* As the two are alike, what holds for one holds for both.                *)

Busy(x) ==
    CASE part = "commit" -> pc[x] # "idle"
      [] part = "login" -> login[x].pc # "idle"
      [] part = "rate" -> worker[x].pc # "idle"
      [] part = "code" -> codeTx[x].at # "idle"
      [] part = "retention" -> jobs[x].at # "idle"
      [] OTHER -> FALSE

\* No command, login, request or transaction waits for ever, whoever holds the locks it
\* needs and whatever fails: nothing waits for another in a circle
\* (GroupCommandService, completeLogin, reserve, withRecipientCodeLease, withGroupRegistry).
TransactionsEnd == Busy(w1) ~> ~ Busy(w1)

Unfinished(x) ==
    CASE part = "retention" -> group[g1] = "Archived"
      [] part = "deletion" ->
            /\ x \in DeletionPart!Intents(Len(ledger))
            /\ ~ (DeletionPart!CompleteInLedger(x) /\ db.intent[x] = "complete")
            /\ db.status = "active"
      [] part = "close" ->
            ClosePart!Canceling /\ ClosePart!ContextsOf(closing.fenceReceipts) = ClosePart!Contexts
      [] OTHER -> FALSE

\* What is asked for again and again is done in the end, whatever an earlier attempt left
\* behind: an archived group is deleted, an actor whose deletion is in the ledger is gone
\* or the authentication sealed off, and a cancellation reserved with both fence receipts
\* on record has the group in use again (GroupRetentionDeletion,
\* AuthenticationDeletionService.resume, GroupCloseCoordinator).
RetriesEnd == Unfinished(w1) ~> ~ Unfinished(w1)

Waits(T) == T.active /\ T.phase \in {"checking", "preparing", "completing", "logout"}

\* Whatever the login page is busy with comes to an end once the user stops returning to
\* the window, whichever calls and answers are lost (AuthenticationController).
BusyEnds ==
    <>[][part = "web" => ~ WebPart!Focus]_allVars =>
        ((part = "web" /\ Waits(tabs[p1])) ~> (part = "web" => ~ Waits(tabs[p1])))
=============================================================================
