-------------------------- MODULE RecipientCodeCleanup --------------------------
(***************************************************************************)
(* The cleanup of recipient codes.                                         *)
(*                                                                         *)
(* A code has a row in the database and a key at an external provider; the *)
(* key exists before the row and survives a rollback.  When a code is over *)
(* (expired, ended or its actor disabled) a worker registers a ticket at   *)
(* the provider, removes the row, destroys the key, checks that the row is *)
(* gone and completes the ticket.  What is not over within a day after     *)
(* that seals the authentication off.  The database works on committed     *)
(* rows under the actor's lock, the provider is called without one.        *)
(***************************************************************************)
EXTENDS Integers, FiniteSets, FiniteSetsExt

CONSTANTS
    Codes, Recipients, Cleaners, Nobody,
    Owner,      \* the actor a code is bound to
    Lifetime,   \* ten minutes
    Day,        \* the time a removal may take
    Limit,      \* codes of one run
    MaxTime,    \* bound of the clock
    MaxRuns,    \* bound: runs
    MaxReturns  \* bound: rows that return from a backup
ASSUME CleanupAssumption ==
    /\ IsFiniteSet(Codes) /\ Nobody \notin Codes /\ Owner \in [Codes -> Recipients]
    /\ Lifetime \in Nat /\ Day \in Nat \ {0} /\ Limit \in Nat \ {0} /\ MaxTime \in Nat

VARIABLES
    now,
    disabled,   \* when an actor was disabled, or Never
    row,        \* the committed row: when it ended
    key,        \* the provider's key of a code and when the code expires
    damaged,    \* codes and actors whose row has a wrong MAC
    codeTicket, \* the provider's ticket of a code
    using,      \* the transaction that holds an actor's lock to issue or to end a code
    sealedOff,  \* is the authentication sealed off
    sweep,      \* the run of each worker
    returned,   \* rows that came back from a backup
    runs, returns

cleanupVars == <<now, disabled, row, key, damaged, codeTicket, using, sealedOff, sweep, returned, runs, returns>>

Never == MaxTime + Lifetime + Day + 1
NoRow == [there |-> FALSE, ended |-> Never]
NoKey == [state |-> "none", expires |-> Never]
NoTicket == [state |-> "none", due |-> Never]
Unused == [code |-> Nobody, does |-> "none", at |-> Never, sent |-> FALSE]
Resting == [at |-> "idle", now |-> 0, todo |-> {}, attempts |-> 0, failed |-> FALSE, left |-> FALSE, seals |-> FALSE,
            code |-> Nobody, due |-> Never, claims |-> {}, late |-> {}, blind |-> {}]

CodesInit ==
    /\ now = 0
    /\ disabled = [a \in Recipients |-> Never]
    /\ row = [c \in Codes |-> NoRow] /\ key = [c \in Codes |-> NoKey]
    /\ damaged = {} /\ returned = {}
    /\ codeTicket = [c \in Codes |-> NoTicket]
    /\ using = [a \in Recipients |-> Unused]
    /\ sealedOff = FALSE
    /\ sweep = [w \in Cleaners |-> Resting]
    /\ runs = 0 /\ returns = 0

\* Every variable stays in its type, and a code that was never given a key has no row and no ticket.
CleanupTypeOK ==
    /\ now \in 0..MaxTime /\ damaged \subseteq Codes \cup Recipients /\ returned \subseteq Codes
    /\ \A c \in Codes :
         /\ key[c].state \in {"none", "live", "destroyed"} /\ codeTicket[c].state \in {"none", "pending", "complete"}
         /\ key[c].state = "none" => ~row[c].there /\ codeTicket[c].state = "none"
    /\ \A w \in Cleaners : sweep[w].attempts \in 0..Limit

-----------------------------------------------------------------------------
(* When a code is over.                                                     *)

Earliest(S) == Min(S)
\* Mutant: a window ends with the code's own time only.
WindowOfExpiry(expires, ended, cutoff) == expires
Window(expires, ended, cutoff) == Earliest({expires, ended, cutoff})
IsDue(due) == now >= due
IsOverdue(due) == now >= due + Day
\* When a code was over, by what the database and the provider hold, damaged or not.
OverSince(c) == Earliest({key[c].expires, row[c].ended, disabled[Owner[c]]})

-----------------------------------------------------------------------------
(* The transactions of the other components, under the actor's lock.        *)

Users == <<disabled, damaged, codeTicket, sealedOff, sweep, returned, runs, returns>>
Free(a) == using[a] = Unused
\* A transaction of a user goes on only with an actor whose row is verified and not disabled.
IsActive(a) == disabled[a] = Never /\ a \notin damaged

\* The key is allocated before the row is written; the provider refuses a code that has a ticket.
Allocate(c) ==
    /\ Free(Owner[c]) /\ IsActive(Owner[c]) /\ ~sealedOff
    /\ key[c].state = "none"
    /\ key' = [key EXCEPT ![c] = [state |-> "live", expires |-> now + Lifetime]]
    /\ using' = [using EXCEPT ![Owner[c]] = [code |-> c, does |-> "issue", at |-> Never, sent |-> FALSE]]
    /\ UNCHANGED <<now, row, Users>>
End(c) ==
    /\ Free(Owner[c]) /\ IsActive(Owner[c]) /\ ~sealedOff
    /\ row[c].there /\ row[c].ended = Never /\ key[c].state = "live" /\ c \notin damaged
    /\ using' = [using EXCEPT ![Owner[c]] = [code |-> c, does |-> "end", at |-> now, sent |-> FALSE]]
    /\ UNCHANGED <<now, row, key, Users>>
\* The guard judges the code's time; the COMMIT may take longer.
UserCommits(a) ==
    /\ ~Free(a) /\ ~using[a].sent
    /\ using' = [using EXCEPT ![a] = IF now < key[using[a].code].expires THEN [@ EXCEPT !.sent = TRUE] ELSE Unused]
    /\ UNCHANGED <<now, row, key, Users>>
UserCommitted(a) ==
    /\ using[a].sent
    /\ row' = [row EXCEPT ![using[a].code] = [there |-> TRUE, ended |-> using[a].at]]
    /\ using' = [using EXCEPT ![a] = Unused]
    /\ UNCHANGED <<now, key, Users>>
UserAborts(a) ==
    /\ ~Free(a)
    /\ using' = [using EXCEPT ![a] = Unused]
    /\ UNCHANGED <<now, row, key, Users>>
DisableRecipient(a) ==
    /\ Free(a) /\ IsActive(a)
    /\ disabled' = [disabled EXCEPT ![a] = now]
    /\ UNCHANGED <<now, row, key, damaged, codeTicket, using, sealedOff, sweep, returned, runs, returns>>
Damage(x) ==
    /\ x \in (Recipients \cup {c \in Codes : row[c].there}) \ damaged
    /\ damaged' = damaged \cup {x}
    /\ UNCHANGED <<now, disabled, row, key, codeTicket, using, sealedOff, sweep, returned, runs, returns>>
\* A restored backup brings back the row of a code whose key is gone.
RowReturns(c) ==
    /\ codeTicket[c].state = "complete" /\ ~row[c].there /\ returns < MaxReturns
    /\ row' = [row EXCEPT ![c] = [there |-> TRUE, ended |-> Never]]
    /\ returned' = returned \cup {c} /\ returns' = returns + 1
    /\ UNCHANGED <<now, disabled, key, damaged, codeTicket, using, sealedOff, sweep, runs>>
Tick ==
    /\ now < MaxTime /\ now' = now + 1
    /\ UNCHANGED <<disabled, row, key, damaged, codeTicket, using, sealedOff, sweep, returned, runs, returns>>

-----------------------------------------------------------------------------
(* A run: first what may be over is collected without a lock.               *)

World == <<now, disabled, key, damaged, using, returns, runs>>
Goes(w, to) == sweep' = [sweep EXCEPT ![w] = to]
Seal(w, needed) == sealedOff' = (sealedOff \/ needed)
\* The members of S with the earliest times, at most Limit of them.
FirstOf(S, time) ==
    {T \in SUBSET S : /\ Cardinality(T) = Earliest({Limit, Cardinality(S)})
                      /\ \A x \in T, y \in S \ T : time[x] <= time[y]}

Candidate(c, due, there) == [code |-> c, due |-> due, row |-> there]
Run(w) ==
    /\ sweep[w].at = "idle" /\ runs < MaxRuns
    /\ runs' = runs + 1
    /\ LET over == {c \in Codes : row[c].there /\ now >= OverSince(c)}
       IN \E hints \in FirstOf(over, [c \in Codes |-> OverSince(c)]) :
            Goes(w, [Resting EXCEPT !.at = "tickets", !.now = now, !.left = hints # over,
                                    !.todo = {Candidate(c, OverSince(c), TRUE) : c \in hints},
                                    !.claims = {c \in Codes : key[c].state = "live" /\ now >= OverSince(c)},
                                    !.late = {c \in Codes : key[c].state = "live" /\ IsOverdue(OverSince(c))}])
    /\ UNCHANGED <<now, disabled, row, key, damaged, codeTicket, using, sealedOff, returned, returns>>
\* The provider lists every code it gave a key, page by page.
Listed == {c \in Codes : key[c].state # "none"}
CleanOne(w, c) ==
    /\ sweep[w].at = "idle" /\ runs < MaxRuns /\ c \in Listed
    /\ runs' = runs + 1
    /\ Goes(w, [Resting EXCEPT !.at = "next", !.todo = {Candidate(c, 0, TRUE)}])
    /\ UNCHANGED <<now, disabled, row, key, damaged, codeTicket, using, sealedOff, returned, returns>>

\* The earliest time known so far is judged before anything can fail.
Merged(c, hints) ==
    LET same == {h \in hints : h.code = c}
    IN Candidate(c, Earliest({codeTicket[c].due} \cup {h.due : h \in same}), same # {})
ReadTickets(w) ==
    /\ sweep[w].at = "tickets"
    /\ LET pending == {c \in Codes : codeTicket[c].state = "pending"}
       IN \E first \in FirstOf(pending, [c \in Codes |-> codeTicket[c].due]) :
            LET todo == {t \in sweep[w].todo : t.code \notin first} \cup {Merged(c, sweep[w].todo) : c \in first}
                late == \E t \in todo : IsOverdue(t.due)
            IN /\ Goes(w, [sweep[w] EXCEPT !.at = "candidates", !.todo = todo,
                                           !.left = @ \/ Cardinality(first) >= Limit, !.seals = late])
               /\ Seal(w, late)
    /\ UNCHANGED <<World, row, codeTicket, returned>>

\* The provider's own list adds the codes without a row, those of disabled actors too.
Candidates(w) ==
    /\ sweep[w].at = "candidates"
    /\ LET known == Listed \ {t.code : t \in sweep[w].todo}
           due(c) == Window(key[c].expires, Never, disabled[Owner[c]])
       IN Goes(w, [sweep[w] EXCEPT !.at = "next",
                                 !.todo = @ \cup {Candidate(c, due(c), FALSE) : c \in {k \in known : due(k) <= sweep[w].now}}])
    /\ UNCHANGED <<World, row, codeTicket, sealedOff, returned>>

-----------------------------------------------------------------------------
(* Then one code after the other, the earliest first.                       *)

Done(j) == [j EXCEPT !.at = "next", !.code = Nobody, !.due = Never]
Failed(j) == [Done(j) EXCEPT !.failed = TRUE]
\* A step that took effect may still fail for the caller.
GoesOn(w, to) == Goes(w, to) \/ Goes(w, Failed(sweep[w]))

\* What is known to be late seals the authentication off before a lock can hide it.
JudgedLate(c) ==
    \/ codeTicket[c].state = "none" /\ IsOverdue(key[c].expires)
    \/ codeTicket[c].state = "pending" /\ IsOverdue(codeTicket[c].due)

Take(w) ==
    /\ sweep[w].at = "next"
    /\ IF sweep[w].todo = {} THEN Goes(w, [sweep[w] EXCEPT !.at = "report"]) /\ UNCHANGED sealedOff
       ELSE \E t \in sweep[w].todo :
              /\ \A u \in sweep[w].todo : t.due <= u.due
              /\ LET rest == [sweep[w] EXCEPT !.todo = @ \ {t}]
                     c == t.code
                 IN IF codeTicket[c].state = "complete" /\ ~t.row THEN Goes(w, rest) /\ UNCHANGED sealedOff
                    ELSE IF sweep[w].attempts >= Limit
                    THEN Goes(w, [sweep[w] EXCEPT !.left = TRUE, !.todo = {}]) /\ UNCHANGED sealedOff
                    ELSE /\ Goes(w, [rest EXCEPT !.attempts = @ + 1, !.code = c, !.seals = @ \/ JudgedLate(c),
                                                 !.due = codeTicket[c].due,
                                                 !.at = CASE codeTicket[c].state = "none" -> "inspect"
                                                          [] codeTicket[c].state = "complete" -> "recheck"
                                                          [] codeTicket[c].state = "pending" -> "remove"])
                         /\ Seal(w, JudgedLate(c))
    /\ UNCHANGED <<World, row, codeTicket, returned>>

\* What the check of a row's MAC may say: its key may be out of reach, that of a code is gone once
\* the provider destroyed it.
Readings(isDamaged, hasKey) ==
    {"unverifiable"} \cup (IF isDamaged THEN {"mismatch"} ELSE IF hasKey THEN {"valid"} ELSE {})
ActorReadings(a) == Readings(a \in damaged, TRUE)
CodeReadings(c) == IF row[c].there THEN Readings(c \in damaged, key[c].state = "live") ELSE {"valid"}
Worse(a, b) ==
    IF "mismatch" \in {a, b} THEN "mismatch" ELSE IF "unverifiable" \in {a, b} THEN "unverifiable" ELSE "valid"
\* Under the actor's lock.  Only a time that a row's MAC vouches for counts; what cannot be verified,
\* the actor's row or the code's, is reported and does not count; a wrong MAC seals off.
Inspect(w) ==
    /\ sweep[w].at = "inspect"
    /\ LET c == sweep[w].code
       IN /\ Free(Owner[c])
          /\ \E actorRead \in ActorReadings(Owner[c]), codeRead \in CodeReadings(c) :
               LET integrity == Worse(actorRead, codeRead)
                   due == Window(key[c].expires, IF codeRead = "valid" THEN row[c].ended ELSE Never,
                                 IF actorRead = "valid" THEN disabled[Owner[c]] ELSE Never)
                   late == integrity = "mismatch" \/ IsOverdue(due)
                   judged == [sweep[w] EXCEPT !.seals = @ \/ late,
                                              !.blind = IF integrity = "unverifiable" THEN @ \cup {c} ELSE @]
               IN /\ Seal(w, late)
                  /\ Goes(w, IF IsDue(due) THEN [judged EXCEPT !.at = "prepare", !.due = due] ELSE Done(judged))
    /\ UNCHANGED <<World, row, codeTicket, returned>>
\* Mutant: a row that is locked by someone else counts as removed.
SkipAsRemoved(w) ==
    /\ sweep[w].at = "remove" /\ row[sweep[w].code].there
    /\ Goes(w, [sweep[w] EXCEPT !.at = "close"])
    /\ UNCHANGED <<World, row, codeTicket, sealedOff, returned>>
\* The code's row is locked by someone else: the code is left for another run.
Skip(w) ==
    /\ sweep[w].at \in {"inspect", "remove", "recheck"} /\ row[sweep[w].code].there
    /\ Goes(w, [Done(sweep[w]) EXCEPT !.left = TRUE])
    /\ UNCHANGED <<World, row, codeTicket, sealedOff, returned>>

\* The ticket is registered only if nobody did so since.
RegisterTicket(w) ==
    /\ sweep[w].at = "prepare"
    /\ IF codeTicket[sweep[w].code].state # "none" THEN Goes(w, Failed(sweep[w])) /\ UNCHANGED codeTicket
       ELSE /\ codeTicket' = [codeTicket EXCEPT ![sweep[w].code] = [state |-> "pending", due |-> sweep[w].due]]
            /\ GoesOn(w, [sweep[w] EXCEPT !.at = "remove"])
    /\ UNCHANGED <<World, row, sealedOff, returned>>

\* The time is judged again under the lock; the row goes whatever its MAC says.
RemoveRow(w) ==
    /\ sweep[w].at = "remove" /\ Free(Owner[sweep[w].code])
    /\ IF IsDue(sweep[w].due)
       THEN /\ row' = [row EXCEPT ![sweep[w].code] = NoRow]
            /\ returned' = returned \ {sweep[w].code}
            /\ GoesOn(w, [sweep[w] EXCEPT !.at = "close"])
       ELSE Goes(w, Done(sweep[w])) /\ UNCHANGED <<row, returned>>
    /\ UNCHANGED <<World, codeTicket, sealedOff>>
Close(w) ==
    /\ sweep[w].at = "close" /\ codeTicket[sweep[w].code].state = "pending"
    /\ key' = [key EXCEPT ![sweep[w].code].state = "destroyed"]
    /\ GoesOn(w, [sweep[w] EXCEPT !.at = "absent"])
    /\ UNCHANGED <<now, disabled, row, damaged, codeTicket, using, sealedOff, returned, runs, returns>>
CloseRefused(w) ==
    /\ sweep[w].at = "close" /\ codeTicket[sweep[w].code].state # "pending"
    /\ Goes(w, Failed(sweep[w]))
    /\ UNCHANGED <<World, row, codeTicket, sealedOff, returned>>
CheckRowGone(w) ==
    /\ sweep[w].at = "absent"
    /\ Goes(w, IF row[sweep[w].code].there THEN Failed(sweep[w]) ELSE [sweep[w] EXCEPT !.at = "complete"])
    /\ UNCHANGED <<World, row, codeTicket, sealedOff, returned>>
CompleteTicket(w) ==
    /\ sweep[w].at = "complete"
    /\ IF codeTicket[sweep[w].code].state = "pending"
       THEN /\ codeTicket' = [codeTicket EXCEPT ![sweep[w].code].state = "complete"]
            /\ GoesOn(w, Done(sweep[w]))
       ELSE Goes(w, Failed(sweep[w])) /\ UNCHANGED codeTicket
    /\ UNCHANGED <<World, row, sealedOff, returned>>
\* A row that came back is removed again; the ticket stays complete.
Recheck(w) ==
    /\ sweep[w].at = "recheck" /\ Free(Owner[sweep[w].code])
    /\ row' = [row EXCEPT ![sweep[w].code] = NoRow]
    /\ returned' = returned \ {sweep[w].code}
    /\ GoesOn(w, Done(sweep[w]))
    /\ UNCHANGED <<World, codeTicket, sealedOff>>

\* A failure before the loop ends the run; one within it ends the code's turn.
Fault(w) ==
    /\ sweep[w].at \notin {"idle", "report", "next"}
    /\ Goes(w, IF sweep[w].at \in {"tickets", "candidates"} THEN Resting ELSE Failed(sweep[w]))
    /\ UNCHANGED <<World, row, codeTicket, sealedOff, returned>>
CleanupCrash(w) ==
    /\ sweep[w].at # "idle" /\ Goes(w, Resting)
    /\ UNCHANGED <<World, row, codeTicket, sealedOff, returned>>

Answer(j) ==
    IF j.seals THEN "quarantined" ELSE IF j.failed THEN "unavailable" ELSE IF j.left THEN "pending" ELSE "complete"
ReportRun(w) ==
    /\ sweep[w].at = "report" /\ Goes(w, Resting)
    /\ UNCHANGED <<World, row, codeTicket, sealedOff, returned>>

Work(w) ==
    \/ ReadTickets(w) \/ Candidates(w) \/ Take(w) \/ Inspect(w) \/ RegisterTicket(w) \/ RemoveRow(w)
    \/ Close(w) \/ CloseRefused(w) \/ CheckRowGone(w) \/ CompleteTicket(w) \/ Recheck(w) \/ ReportRun(w)
UserStep(a) == UserCommits(a) \/ UserCommitted(a) \/ UserAborts(a)
CodesNext ==
    \/ \E c \in Codes : Allocate(c) \/ End(c) \/ RowReturns(c)
    \/ \E x \in Codes \cup Recipients : Damage(x)
    \/ \E a \in Recipients : UserStep(a) \/ DisableRecipient(a)
    \/ Tick
    \/ \E w \in Cleaners : Run(w) \/ Work(w) \/ Skip(w) \/ Fault(w) \/ CleanupCrash(w) \/ \E c \in Codes : CleanOne(w, c)

CodesSpec == CodesInit /\ [][CodesNext]_cleanupVars

-----------------------------------------------------------------------------

\* The row of a code never outlives its key, except one that came back from a backup: nobody could
\* tell it from a forged one; and a ticket is complete only when the key is destroyed and the row
\* gone (RecipientCodeCleanupService, finish).
CodeKeysOutliveRows ==
    /\ CleanupTypeOK
    /\ \A c \in Codes : row[c].there /\ key[c].state # "live" => c \in returned
    /\ \A c \in Codes :
         codeTicket[c].state = "complete" => key[c].state = "destroyed" /\ (row[c].there => c \in returned)

Answers(w, status) == sweep[w].at = "report" /\ Answer(sweep[w]) = status

\* The codes of S that a run answers for: of one it could not verify it knows only the provider's
\* expiry, which says that the code was over for this long when the run began.
Accountable(j, S, time) == {c \in S : c \in j.blind => j.now >= key[c].expires + time}
\* The time of every registered destruction counts when the actor was disabled.
TicketsCountActors == \A c \in Codes : codeTicket[c].state # "none" => codeTicket[c].due <= disabled[Owner[c]]

\* What a run tells is true, whatever other runs do beside it (RecipientCodeCleanupService.run).
\*  - After "complete" no code that was over when the run began has its row, and the destruction of
\*    each is registered; the key of each that was a day late is destroyed.  Exempt is a code whose
\*    row, or whose actor's row, the run could not verify, unless the provider's expiry alone says
\*    that it was over, or a day late.
\*  - A run that could verify all it looked at does not say "pending" over a code that was a day late
\*    when it began, unless another run has destroyed its key or a backup's row came back; and unless
\*    some run that could not verify an actor's row registered a destruction with a later time.
CleanupAnswersAreTrue ==
    \A w \in Cleaners :
      LET j == sweep[w]
      IN /\ Answers(w, "complete") =>
              /\ \A c \in Accountable(j, j.claims, 0) : codeTicket[c].state # "none" /\ (row[c].there => c \in returned)
              /\ \A c \in Accountable(j, j.late, Day) : key[c].state = "destroyed"
         /\ Answers(w, "pending") /\ j.blind = {} /\ TicketsCountActors =>
              \A c \in j.late : key[c].state = "destroyed" \/ returns > 0

\* What the result is documented to say (recipient-code-cleanup-service.ts:113): "complete" stands
\* for every code that was over, with nothing unreached and nothing failed; so the key of each that
\* was over when the run began is destroyed.
CompleteRunIsDone ==
    \A w \in Cleaners : Answers(w, "complete") => \A c \in sweep[w].claims : key[c].state = "destroyed"
=============================================================================
