------------------------------ MODULE HttpRate ------------------------------
(***************************************************************************)
(* The budgets of HTTP requests that all instances share in the database   *)
(* (apps/api/src/shared/infrastructure/authentication/postgres/            *)
(* postgres-authentication-http-rate.ts): initialize, reserve and cleanup, *)
(* each one transaction under READ COMMITTED.                              *)
(*                                                                         *)
(* A connection belongs to some instance.  What it has written is          *)
(* invisible, and locked, until it commits.  One operation stands for all: *)
(* the rows of different operations have different keys.  A key stands for *)
(* the namespace, the key version, the limits and the secret together,     *)
(* which the policy row and every digest depend on.                        *)
(***************************************************************************)
EXTENDS Integers, FiniteSets

CONSTANTS
    Connections,
    Keys,               \* what an instance can be configured with
    Peers,
    Global,             \* the subject of the budget of all peers
    PeerLimit,
    GlobalLimit,
    Window,             \* the length of a window
    Batch,              \* the most rows one cleanup deletes
    MaxRateTime,        \* bound on the clock
    MaxRateRequests,    \* bound on the transactions
    Unset

ASSUME RateAssumption ==
    /\ {PeerLimit, GlobalLimit, Window, Batch} \subseteq Nat \ {0}
    /\ {MaxRateTime, MaxRateRequests} \subseteq Nat
    /\ Global \notin Peers
    /\ Unset \notin Keys \cup Peers

VARIABLES
    rateNow,        \* the clock of the database
    policy,         \* the key of the policy row, or Unset
    rows,           \* function from the slots with a committed row to their count
    worker,         \* the transaction of each connection
    writes,         \* the counts it has written, 0 for a deleted row
    begun,          \* how many transactions were begun
    counted,        \* how often a slot was counted by a commit
    allowed,        \* how many requests were allowed against a slot
    late            \* how many of them after its window had ended

rateVars == <<rateNow, policy, rows, worker, writes, begun, counted, allowed, late>>

Subjects == Peers \cup {Global}

\* The window a time is in.
WindowOf(time) == time - (time % Window)

Starts == {WindowOf(time) : time \in 0 .. MaxRateTime}

\* The primary key of rate_window; the digest binds key, subject and window.
Slots == [key: Keys, subject: Subjects, start: Starts]

IdleWorker ==
    [pc |-> "idle", task |-> "none", key |-> Unset, peer |-> Unset, time |-> 0, answer |-> "none"]

Worker ==
    [pc: {"idle", "insert", "lock", "policy", "time", "global", "peer", "delete", "commit"},
     task: {"none", "initialize", "reserve", "cleanup"},
     key: Keys \cup {Unset}, peer: Peers \cup {Unset}, time: 0 .. MaxRateTime,
     answer: {"none", "allowed", "limited", "done"}]

Limit(subject) == IF subject = Global THEN GlobalLimit ELSE PeerLimit

RateTypeOK ==
    /\ rateNow \in 0 .. MaxRateTime
    /\ policy \in Keys \cup {Unset}
    /\ DOMAIN rows \subseteq Slots
    /\ \A s \in DOMAIN rows : rows[s] \in 1 .. Limit(s.subject) + 1
    /\ worker \in [Connections -> Worker]
    /\ \A w \in Connections :
           /\ DOMAIN writes[w] \subseteq Slots
           /\ \A s \in DOMAIN writes[w] : writes[w][s] \in 0 .. Limit(s.subject) + 1
    /\ begun \in 0 .. MaxRateRequests

RateInit ==
    /\ rateNow = 0
    /\ policy = Unset
    /\ rows = <<>>
    /\ worker = [w \in Connections |-> IdleWorker]
    /\ writes = [w \in Connections |-> <<>>]
    /\ begun = 0
    /\ counted = <<>>
    /\ allowed = <<>>
    /\ late = <<>>

-----------------------------------------------------------------------------
IsAt(w, pc) == worker[w].pc = pc

\* No other transaction has written the row and not ended.
IsFree(w, slot) == \A v \in Connections \ {w} : slot \notin DOMAIN writes[v]

\* Who holds the policy row: readers together, or one initialisation.
Shares(w) == worker[w].task \in {"reserve", "cleanup"} /\ ~ IsAt(w, "policy")
Inserted(w) == worker[w].task = "initialize" /\ IsAt(w, "lock") /\ policy = Unset
Owns(w) == worker[w].task = "initialize" /\ IsAt(w, "commit")

WindowEnd(slot) == slot.start + Window

Slot(w, subject) ==
    [key |-> worker[w].key, subject |-> subject, start |-> WindowOf(worker[w].time)]

Goto(w, pc) == worker' = [worker EXCEPT ![w].pc = pc]

Answering(w, answer) == worker' = [worker EXCEPT ![w].pc = "commit", ![w].answer = answer]

\* The transaction ends; nothing of it stays locked.
Release(w) ==
    /\ worker' = [worker EXCEPT ![w] = IdleWorker]
    /\ writes' = [writes EXCEPT ![w] = <<>>]

Begin(w, task, pc, key, peer) ==
    /\ IsAt(w, "idle")
    /\ begun < MaxRateRequests
    /\ begun' = begun + 1
    /\ worker' = [worker EXCEPT ![w] = [IdleWorker EXCEPT !.pc = pc, !.task = task,
                                                         !.key = key, !.peer = peer]]
    /\ UNCHANGED <<rateNow, policy, rows, writes, counted, allowed, late>>

Initialize(w, key) == Begin(w, "initialize", "insert", key, Unset)
Reserve(w, key, peer) == Begin(w, "reserve", "policy", key, peer)
Cleanup(w, key) == Begin(w, "cleanup", "policy", key, Unset)

\* INSERT ... ON CONFLICT DO NOTHING waits for an insert that has not ended.
InsertPolicy(w) ==
    /\ IsAt(w, "insert")
    /\ policy = Unset => \A v \in Connections : ~ Inserted(v) /\ ~ Owns(v)
    /\ Goto(w, "lock")
    /\ UNCHANGED <<rateNow, policy, rows, writes, begun, counted, allowed, late>>

\* The policy row is the one of this instance.
IsPolicy(w) == policy = worker[w].key

\* A policy that is not the own one ends the transaction.
Checked(w, next) ==
    IF IsPolicy(w) THEN next /\ UNCHANGED writes ELSE Release(w)

\* SELECT ... FOR UPDATE of the own or of the present row.
LockPolicy(w) ==
    /\ IsAt(w, "lock")
    /\ IF policy = Unset
       THEN Answering(w, "done") /\ UNCHANGED writes
       ELSE /\ \A v \in Connections : ~ Shares(v) /\ ~ Owns(v)
            /\ Checked(w, Answering(w, "done"))
    /\ UNCHANGED <<rateNow, policy, rows, begun, counted, allowed, late>>

\* SELECT ... FOR SHARE; a row that is not committed is not there.
CheckPolicy(w) ==
    /\ IsAt(w, "policy")
    /\ policy # Unset => \A v \in Connections : ~ Owns(v)
    /\ Checked(w, Goto(w, "time"))
    /\ UNCHANGED <<rateNow, policy, rows, begun, counted, allowed, late>>

ReadTime(w) ==
    /\ IsAt(w, "time")
    /\ worker' = [worker EXCEPT
           ![w].pc = IF worker[w].task = "reserve" THEN "global" ELSE "delete",
           ![w].time = rateNow]
    /\ UNCHANGED <<rateNow, policy, rows, writes, begun, counted, allowed, late>>

Count(slot) == IF slot \in DOMAIN rows THEN rows[slot] ELSE 0

Incremented(count, limit) == IF count + 1 < limit + 1 THEN count + 1 ELSE limit + 1

\* The budget of all peers first, then the one of the peer.
CountRequest(w) ==
    /\ worker[w].pc \in {"global", "peer"}
    /\ LET subject == IF IsAt(w, "global") THEN Global ELSE worker[w].peer
           slot == Slot(w, subject)
           count == Incremented(Count(slot), Limit(subject))
       IN  /\ IsFree(w, slot)
           /\ writes' = [writes EXCEPT ![w] =
                  [s \in DOMAIN writes[w] \cup {slot} |-> IF s = slot THEN count ELSE writes[w][s]]]
           /\ IF count > Limit(subject) THEN Answering(w, "limited")
              ELSE IF IsAt(w, "global") THEN Goto(w, "peer") ELSE Answering(w, "allowed")
    /\ UNCHANGED <<rateNow, policy, rows, begun, counted, allowed, late>>

\* Mutant: the rows of the present window are deleted too.
HasBegun(slot, time) == slot.start <= time

IsExpired(slot, time) == WindowEnd(slot) <= time

\* The oldest expired rows that nobody else has locked.
DeleteExpired(w) ==
    LET expired == {s \in DOMAIN rows : IsExpired(s, worker[w].time) /\ IsFree(w, s)}
    IN  /\ IsAt(w, "delete")
        /\ \E S \in SUBSET expired :
               /\ Cardinality(S) <= Batch
               /\ Cardinality(S) < Batch => S = expired
               /\ \A s \in S, t \in expired \ S : s.start <= t.start
               /\ writes' = [writes EXCEPT ![w] = [s \in S |-> 0]]
        /\ Answering(w, "done")
        /\ UNCHANGED <<rateNow, policy, rows, begun, counted, allowed, late>>

\* A tally has an entry for every slot that was tallied.
Times(tally, slot) == IF slot \in DOMAIN tally THEN tally[slot] ELSE 0
OnceMore(tally, slots) ==
    [s \in DOMAIN tally \cup slots |-> Times(tally, s) + (IF s \in slots THEN 1 ELSE 0)]

\* What the transaction has written becomes visible.
Apply(w) ==
    LET counts == {s \in DOMAIN writes[w] : writes[w][s] > 0}
    IN  /\ policy' = IF Owns(w) /\ policy = Unset THEN worker[w].key ELSE policy
        /\ rows' = [s \in (DOMAIN rows \ DOMAIN writes[w]) \cup counts |->
                       IF s \in counts THEN writes[w][s] ELSE rows[s]]
        /\ counted' = OnceMore(counted, counts)

\* The slots that count what w is allowed.
Allows(w) == IF worker[w].answer = "allowed" THEN DOMAIN writes[w] ELSE {}

\* The caller receives the answer.
CommitRate(w) ==
    /\ IsAt(w, "commit")
    /\ Apply(w)
    /\ allowed' = OnceMore(allowed, Allows(w))
    /\ late' = OnceMore(late, {s \in Allows(w) : rateNow >= WindowEnd(s)})
    /\ Release(w)
    /\ UNCHANGED <<rateNow, begun>>

\* The answer to the commit is lost: the caller is told the rate is unavailable.
CommitUnknown(w) ==
    /\ IsAt(w, "commit")
    /\ Apply(w)
    /\ Release(w)
    /\ UNCHANGED <<rateNow, begun, allowed, late>>

\* A statement fails or the connection ends; the transaction is rolled back.
FailRate(w) ==
    /\ ~ IsAt(w, "idle")
    /\ Release(w)
    /\ UNCHANGED <<rateNow, policy, rows, begun, counted, allowed, late>>

RateTick ==
    /\ rateNow < MaxRateTime
    /\ rateNow' = rateNow + 1
    /\ UNCHANGED <<policy, rows, worker, writes, begun, counted, allowed, late>>

RateStep(w) ==
    \/ InsertPolicy(w)
    \/ LockPolicy(w)
    \/ CheckPolicy(w)
    \/ ReadTime(w)
    \/ CountRequest(w)
    \/ DeleteExpired(w)
    \/ CommitRate(w)

RateNext ==
    \/ \E w \in Connections :
           \/ RateStep(w)
           \/ CommitUnknown(w)
           \/ FailRate(w)
           \/ \E key \in Keys :
                  \/ Initialize(w, key)
                  \/ Cleanup(w, key)
                  \/ \E peer \in Peers : Reserve(w, key, peer)
    \/ RateTick

RateSpec == RateInit /\ [][RateNext]_rateVars

\* The database goes on with every transaction that waits for no lock, and gives
\* a lock that becomes free again and again to who waits for it.
RateFairSpec == RateSpec /\ \A w \in Connections : SF_rateVars(RateStep(w))

-----------------------------------------------------------------------------
\* All instances together never allow more requests than a budget holds while
\* its window runs, whatever is counted at once, fails, is cleaned up or answers late.
BudgetHolds == \A s \in DOMAIN allowed : allowed[s] - Times(late, s) <= Limit(s.subject)

\* One window of one budget is spent under one key, whatever keys instances are started with.
OneKeySpends ==
    \A s, t \in DOMAIN allowed : (s.subject = t.subject /\ s.start = t.start) => s = t

\* A request is limited only when as many have been counted before it as its
\* budget holds: one that was rolled back has spent nothing.
LimitedOnlyWhenSpent ==
    \A w \in Connections :
        worker[w].answer = "limited" =>
            \E subject \in {Global, worker[w].peer} :
                Times(counted, Slot(w, subject)) >= Limit(subject)

\* All instances together never allow more than a budget holds, whatever keys they were started
\* with, and limit no one before it is spent (reserve).
RateHolds == RateTypeOK /\ BudgetHolds /\ OneKeySpends /\ LimitedOnlyWhenSpent
=============================================================================
