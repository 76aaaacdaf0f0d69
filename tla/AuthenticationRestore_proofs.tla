--------------------- MODULE AuthenticationRestore_proofs ---------------------
(***************************************************************************)
(* Proofs about AuthenticationRestore, for any number of actors, sessions, *)
(* deletions and workers: a deletion that the restore applied again is not *)
(* undone, no session from before it lives on, no open row is sealed by a  *)
(* destroyed key, and a deletion is one story wherever it is told.         *)
(*                                                                         *)
(* A deletion that is whole stays whole under every step but the one that  *)
(* puts the backup in place, and that step comes before any run.  The first*)
(* invariant, IInv, says how far the run has come with each deletion, and of*)
(* the ledger, the tickets and the workers what keeps a deletion whole: its*)
(* actor is one whose identifier was given out, and nobody is about to     *)
(* prepare its ticket anew.  The second, KInv, says what whoever destroys a*)
(* key knows of the rows.  The third, StoryInv, says that the database never*)
(* says more than the ledger, and what a worker did that nobody undoes.    *)
(***************************************************************************)
EXTENDS AuthenticationRestore, SequenceTheorems, TLAPS

-----------------------------------------------------------------------------
(* The inductive invariant                                                 *)

Dbs ==
    [status : Statuses, actor : [Actors -> ActorStates], identity : SUBSET Actors,
     session : [Sessions -> SessionRows \cup {None}],
     intent : [Operations -> {"none", "prepared", "complete"}]]
Jobs ==
    [at : Steps, op : Operations \cup {None}, actor : Actors \cup {None}, head : Nat, tries : 0..2,
     applies : BOOLEAN, missed : BOOLEAN, scopes : SUBSET (Actors \cup Sessions)]
Runs ==
    [at : RunSteps, head : Nat, initial : Nat, todo : SUBSET Operations, op : Operations \cup {None},
     state : {"prepared", "complete"}, attempt : 1..3, seal : Dbs \cup {None}]

Typed ==
    /\ db \in Dbs /\ issued \subseteq Actors \cup Sessions
    /\ ticket \in [Operations -> Tickets \cup {None}]
    /\ ledger \in Seq(Entries)
    /\ job \in [Workers -> Jobs]
    /\ backup # None => backup.db \in Dbs
    /\ traffic \in {"open", "closed"} /\ stale \subseteq issued /\ appliedAt \in 0..Len(ledger)
    /\ run \in Runs /\ run.head <= Len(ledger) /\ run.initial <= Len(ledger)

(* All entries of a deletion name one actor, whose identifier was given    *)
(* out, and the deletion has a ticket.                                     *)
LedgerFits ==
    /\ \A i \in Deletions(Len(ledger)) :
          ledger[i].actor \in issued /\ ticket[ledger[i].op] # None
    /\ \A i, j \in Deletions(Len(ledger)) :
          ledger[i].op = ledger[j].op => ledger[i].actor = ledger[j].actor

(* A worker reads the ledger up to a head it has reached.  One that begins *)
(* a deletion knows its actor, one that is about to prepare its ticket is  *)
(* alone with it, and one that resumes found it in the ledger.             *)
Begins(j) == j.at \in {"match", "plan", "prepare", "append"} \/ (j.at \in {"head", "reconcile"} /\ j.op = None)
Resumed == {"disable", "remove", "absent", "destroy", "verify", "latest", "finish", "complete", "report"}
JobFits(w) ==
    /\ job[w].head <= Len(ledger)
    /\ Begins(job[w]) => job[w].actor \in Actors \cap issued
    /\ At(w, "prepare") => /\ job[w].op \in Operations /\ ticket[job[w].op] = None
                           /\ \A v \in Workers \ {w} : job[v].op # job[w].op
    /\ At(w, "append") => job[w].op \in Operations /\ ticket[job[w].op] # None
    /\ job[w].at \in Resumed => job[w].op \in Intents(Len(ledger))
JobsFit == \A w \in Workers : JobFits(w)

(* What becomes of an actor in a database.                                 *)
Out(d, a) ==
    /\ d.actor[a] # "active" /\ a \notin d.identity
    /\ \A s \in Sessions : d.session[s] # None => d.session[s].owner # a
Destroyed(o) == ticket[o].done /\ ticket[o].scopes \subseteq dead
Whole(o) == Out(db, Target(o)) /\ Destroyed(o) /\ db.intent[o] = "complete"

(* The run has applied every deletion of its head that it has not left to  *)
(* do, and the rows of the one it destroys the keys of are gone.           *)
Applying == {"apply", "destroy", "reread", "append"}
Discarded == {"credentials", "recheck", "migrate", "compare", "record", "confirm", "activate", "open", "opened"}
Applied == {"discard"} \cup Discarded
RunFits ==
    /\ run.at \in Applying =>
          /\ run.todo \subseteq Intents(run.initial)
          /\ run.op \in run.todo \/ (run.op = None /\ run.at = "apply")
          /\ \A o \in Intents(run.initial) \ run.todo : Whole(o)
    /\ run.at = "destroy" =>
          Out(db, Target(run.op)) /\ (run.state = "complete" => db.intent[run.op] = "complete")
    /\ run.at \in Applied => \A o \in Intents(run.initial) : Whole(o)

OpeningFits ==
    /\ \A o \in Intents(appliedAt) : Whole(o)
    /\ traffic = "open" \/ run.at \in Discarded => \A s \in stale \cap Sessions : db.session[s] = None

(* The backup is put in place before any run.                              *)
BackupComesFirst == stale = {} => run.at = "idle" /\ traffic = "open" /\ appliedAt = 0

IInv == Typed /\ LedgerFits /\ JobsFit /\ RunFits /\ OpeningFits /\ BackupComesFirst

-----------------------------------------------------------------------------
(* What a step may do                                                      *)

(* A database is followed by one in which no actor of I that is out came   *)
(* back, no deletion is less complete, and no session of I is there again. *)
Keeps(I, d, e) ==
    /\ \A a \in Actors \cap I : Out(d, a) => Out(e, a)
    /\ \A o \in Operations : d.intent[o] = "complete" => e.intent[o] = "complete"
    /\ \A s \in Sessions \cap I : d.session[s] = None => e.session[s] = None

LEMMA QuarantinedKeeps ==
    ASSUME NEW d \in Dbs, NEW I
    PROVE  Quarantined(d) \in Dbs /\ Keeps(I, d, Quarantined(d))
  BY DEF Dbs, Quarantined, Keeps, Out, Statuses

LEMMA StatusKeeps ==
    ASSUME NEW d \in Dbs, NEW I, NEW s \in Statuses
    PROVE  [d EXCEPT !.status = s] \in Dbs /\ Keeps(I, d, [d EXCEPT !.status = s])
  BY DEF Dbs, Keeps, Out

LEMMA WithoutSessionsRows ==
    ASSUME NEW d \in Dbs, NEW gone, NEW s \in Sessions
    PROVE  WithoutSessions(d, gone).session[s] = IF s \in gone THEN None ELSE d.session[s]
  BY DEF WithoutSessions, Dbs

LEMMA WithoutSessionsKeeps ==
    ASSUME NEW d \in Dbs, NEW I, NEW gone
    PROVE  /\ WithoutSessions(d, gone) \in Dbs
           /\ Keeps(I, d, WithoutSessions(d, gone))
  <1> DEFINE f == [s \in Sessions |-> IF s \in gone THEN None ELSE d.session[s]]
  <1>1. f \in [Sessions -> SessionRows \cup {None}]
    BY DEF Dbs
  <1>2. WithoutSessions(d, gone) = [d EXCEPT !.session = f]
    BY DEF WithoutSessions
  <1>3. \A s \in Sessions : f[s] = IF s \in gone THEN None ELSE d.session[s]
    OBVIOUS
  <1> HIDE DEF f
  <1> QED BY <1>1, <1>2, <1>3 DEF Dbs, Keeps, Out

(* The rows of a deletion: its actor is disabled, its sessions end.        *)
LEMMA DisabledKeeps ==
    ASSUME db \in Dbs, NEW I, NEW o
    PROVE  Disabled(o) \in Dbs /\ Keeps(I, db, Disabled(o))
  <1> DEFINE f == [s \in Sessions |->
                      IF s \in SessionsOf(Target(o)) THEN [db.session[s] EXCEPT !.state = "revoked"]
                      ELSE db.session[s]]
             act == [db.actor EXCEPT ![Target(o)] = "disabled"]
             int == Ensured(db.intent, o)
  <1>1. /\ f \in [Sessions -> SessionRows \cup {None}]
        /\ \A s \in Sessions : f[s] # None => db.session[s] # None /\ f[s].owner = db.session[s].owner
        /\ \A s \in Sessions : db.session[s] = None => f[s] = None
    BY DEF Dbs, SessionRows, SessionsOf
  <1>2. /\ act \in [Actors -> ActorStates]
        /\ \A a \in Actors : act[a] = "active" => db.actor[a] = "active"
    BY DEF Dbs, ActorStates
  <1>3. /\ int \in [Operations -> {"none", "prepared", "complete"}]
        /\ \A p \in Operations : db.intent[p] = "complete" => int[p] = "complete"
    BY DEF Dbs, Ensured
  <1>4. Disabled(o) = [db EXCEPT !.actor = act, !.session = f, !.intent = int]
    BY DEF Disabled, Dbs
  <1> HIDE DEF f, act, int
  <1> DEFINE e == [db EXCEPT !.actor = act, !.session = f, !.intent = int]
  <1>5. e.actor = act /\ e.identity = db.identity /\ e.session = f /\ e.intent = int
    BY DEF Dbs
  <1>6. e \in Dbs
    BY <1>1, <1>2, <1>3 DEF Dbs
  <1> HIDE DEF e
  <1>7. Keeps(I, db, e)
    BY <1>1, <1>2, <1>3, <1>5 DEF Keeps, Out
  <1>8. Disabled(o) = e
    BY <1>4 DEF e
  <1> QED BY <1>6, <1>7, <1>8

LEMMA RemovedKeeps ==
    ASSUME db \in Dbs, NEW I, NEW o
    PROVE  Removed(o) \in Dbs /\ Keeps(I, db, Removed(o))
  <1> DEFINE d == WithoutSessions(db, SessionsOf(Target(o)))
             int == Ensured(d.intent, o)
  <1>1. d \in Dbs /\ Keeps(I, db, d)
    BY WithoutSessionsKeeps
  <1> HIDE DEF d
  <1>2. /\ int \in [Operations -> {"none", "prepared", "complete"}]
        /\ \A p \in Operations : d.intent[p] = "complete" => int[p] = "complete"
    BY <1>1 DEF Dbs, Ensured
  <1>3. Removed(o) = [d EXCEPT !.identity = d.identity \ {Target(o)}, !.intent = int]
    BY DEF Removed, d
  <1> HIDE DEF int
  <1> DEFINE e == [d EXCEPT !.identity = d.identity \ {Target(o)}, !.intent = int]
  <1>4. /\ e.actor = d.actor /\ e.session = d.session /\ e.intent = int
        /\ e.identity = d.identity \ {Target(o)}
    BY <1>1 DEF Dbs
  <1>5. e \in Dbs
    BY <1>1, <1>2 DEF Dbs
  <1> HIDE DEF e
  <1>6. Keeps(I, db, e)
    BY <1>1, <1>2, <1>4 DEF Keeps, Out
  <1>7. Removed(o) = e
    BY <1>3 DEF e
  <1> QED BY <1>5, <1>6, <1>7

LEMMA CompletedKeeps ==
    ASSUME db \in Dbs, NEW I, NEW o
    PROVE  Completed(o) \in Dbs /\ Keeps(I, db, Completed(o))
  BY DEF Dbs, Keeps, Out, Completed

(* A deletion that is applied again takes the rows away.                   *)
LEMMA ReappliedKeeps ==
    ASSUME db \in Dbs, NEW I, NEW o \in Operations, NEW state \in {"prepared", "complete"},
           Target(o) \in Actors
    PROVE  /\ Reapplied(o, state) \in Dbs /\ Keeps(I, db, Reapplied(o, state))
           /\ Out(Reapplied(o, state), Target(o))
           /\ state = "complete" => Reapplied(o, state).intent[o] = "complete"
  <1> DEFINE a == Target(o)
             gone == SessionsOf(a)
             d == WithoutSessions(db, gone)
             act == [d.actor EXCEPT ![a] = IF @ = "active" THEN "disabled" ELSE @]
             int == [d.intent EXCEPT ![o] = IF state = "complete" \/ @ = "complete"
                                            THEN "complete" ELSE "prepared"]
  <1> HIDE DEF gone, act, int
  <1>1. /\ d \in Dbs /\ Keeps(I, db, d)
    BY WithoutSessionsKeeps
  <1>2a. \A s \in Sessions : d.session[s] = IF s \in gone THEN None ELSE db.session[s]
    BY WithoutSessionsRows
  <1> HIDE DEF d
  <1>2. \A s \in Sessions : d.session[s] # None => d.session[s].owner # a
    BY <1>1, <1>2a DEF gone, SessionsOf
  <1>3. /\ act \in [Actors -> ActorStates]
        /\ \A b \in Actors : act[b] = "active" => d.actor[b] = "active"
        /\ act[a] # "active"
    BY <1>1 DEF Dbs, ActorStates, act
  <1>4. /\ int \in [Operations -> {"none", "prepared", "complete"}]
        /\ \A p \in Operations : d.intent[p] = "complete" => int[p] = "complete"
        /\ state = "complete" => int[o] = "complete"
    BY <1>1 DEF Dbs, int
  <1>5. Reapplied(o, state) = [d EXCEPT !.actor = act, !.identity = d.identity \ {a}, !.intent = int]
    BY DEF Reapplied, d, gone, act, int
  <1> DEFINE e == [d EXCEPT !.actor = act, !.identity = d.identity \ {a}, !.intent = int]
  <1>6. e.actor = act /\ e.identity = d.identity \ {a} /\ e.session = d.session /\ e.intent = int
    BY <1>1 DEF Dbs
  <1>7. e \in Dbs
    BY <1>1, <1>3, <1>4 DEF Dbs
  <1> HIDE DEF e
  <1>8. Keeps(I, db, e)
    BY <1>1, <1>3, <1>4, <1>6 DEF Keeps, Out
  <1>9. Out(e, a)
    BY <1>2, <1>3, <1>6 DEF Out
  <1>10. Reapplied(o, state) = e
    BY <1>5 DEF e
  <1> QED BY <1>4, <1>6, <1>7, <1>8, <1>9, <1>10

(* The entries of a ledger l up to h, and whom it wants out by o.          *)
EntriesOf(l, h) == {i \in 1..h : l[i].kind = "deletion"}
OpsOf(l, h) == {l[i].op : i \in EntriesOf(l, h)}
ActorOf(l, o) == LET i == CHOOSE i \in EntriesOf(l, Len(l)) : l[i].op = o IN l[i].actor
OneActor(l) == \A i, j \in EntriesOf(l, Len(l)) : l[i].op = l[j].op => l[i].actor = l[j].actor
Extends(l, m) == Len(l) <= Len(m) /\ \A i \in 1..Len(l) : m[i] = l[i]

LEMMA ActorIsKnown ==
    ASSUME NEW l \in Seq(Entries), OneActor(l), NEW i \in EntriesOf(l, Len(l))
    PROVE  ActorOf(l, l[i].op) = l[i].actor
  <1> DEFINE k == CHOOSE k \in EntriesOf(l, Len(l)) : l[k].op = l[i].op
  <1>1. k \in EntriesOf(l, Len(l)) /\ l[k].op = l[i].op
    OBVIOUS
  <1>2. ActorOf(l, l[i].op) = l[k].actor
    BY DEF ActorOf
  <1> HIDE DEF k
  <1> QED BY <1>1, <1>2 DEF OneActor

LEMMA EntriesAreTyped ==
    ASSUME NEW l \in Seq(Entries), NEW h \in 0..Len(l), NEW i \in EntriesOf(l, h)
    PROVE  i \in 1..Len(l) /\ l[i].op \in Operations /\ l[i].actor \in Actors
  <1>1. i \in 1..Len(l) /\ l[i] \in Entries /\ l[i].kind = "deletion"
    BY DEF EntriesOf
  <1> QED BY <1>1 DEF Entries

(* What a ledger said it goes on to say when entries are appended.         *)
LEMMA LedgersGrow ==
    ASSUME NEW l \in Seq(Entries), NEW m \in Seq(Entries), Extends(l, m)
    PROVE  /\ \A h \in 0..Len(l) : EntriesOf(m, h) = EntriesOf(l, h) /\ OpsOf(m, h) = OpsOf(l, h)
           /\ EntriesOf(l, Len(l)) \subseteq EntriesOf(m, Len(m))
           /\ OpsOf(l, Len(l)) \subseteq OpsOf(m, Len(m))
  <1>0. Len(l) \in Nat /\ Len(m) \in Nat
    OBVIOUS
  <1>1. ASSUME NEW h \in 0..Len(l) PROVE EntriesOf(m, h) = EntriesOf(l, h) /\ OpsOf(m, h) = OpsOf(l, h)
    <2>1. \A i \in 1..h : m[i] = l[i]
      BY <1>0 DEF Extends
    <2> QED BY <2>1 DEF EntriesOf, OpsOf
  <1>2. EntriesOf(l, Len(l)) \subseteq EntriesOf(m, Len(m))
    BY <1>0 DEF EntriesOf, Extends
  <1>3. \A i \in EntriesOf(l, Len(l)) : m[i] = l[i]
    BY DEF EntriesOf, Extends
  <1>4. OpsOf(l, Len(l)) \subseteq OpsOf(m, Len(m))
    BY <1>2, <1>3 DEF OpsOf
  <1> QED BY <1>1, <1>2, <1>4

LEMMA ActorsStay ==
    ASSUME NEW l \in Seq(Entries), NEW m \in Seq(Entries), Extends(l, m), OneActor(m),
           NEW o \in OpsOf(l, Len(l))
    PROVE  /\ o \in Operations /\ ActorOf(l, o) \in Actors
           /\ ActorOf(m, o) = ActorOf(l, o)
  <1>1. PICK i \in EntriesOf(l, Len(l)) : l[i].op = o
    BY DEF OpsOf
  <1>2. i \in EntriesOf(m, Len(m)) /\ m[i] = l[i]
    BY <1>1, LedgersGrow DEF EntriesOf, Extends
  <1>3. OneActor(l)
    <2>1. \A j \in EntriesOf(l, Len(l)) : j \in EntriesOf(m, Len(m)) /\ m[j] = l[j]
      BY LedgersGrow DEF EntriesOf, Extends
    <2> QED BY <2>1 DEF OneActor
  <1>4. ActorOf(l, o) = l[i].actor /\ ActorOf(m, o) = m[i].actor
    BY <1>1, <1>2, <1>3, ActorIsKnown
  <1>5. Len(l) \in 0..Len(l)
    OBVIOUS
  <1> QED BY <1>1, <1>2, <1>4, <1>5, EntriesAreTyped

(* An appended entry.                                                      *)
LEMMA LedgerAppended ==
    ASSUME NEW l \in Seq(Entries), NEW e \in Entries, OneActor(l),
           e.kind = "deletion" /\ e.op \in OpsOf(l, Len(l)) => e.actor = ActorOf(l, e.op)
    PROVE  LET m == Append(l, e)
           IN  /\ m \in Seq(Entries) /\ Len(m) = Len(l) + 1 /\ Extends(l, m) /\ OneActor(m)
               /\ \A i \in EntriesOf(m, Len(m)) : \/ i \in EntriesOf(l, Len(l)) /\ m[i] = l[i]
                                                  \/ e.kind = "deletion" /\ m[i] = e
  <1> DEFINE m == Append(l, e)
  <1>1. /\ m \in Seq(Entries) /\ Len(m) = Len(l) + 1 /\ Len(l) \in Nat
        /\ \A i \in 1..Len(l) : m[i] = l[i]
        /\ m[Len(l) + 1] = e
    BY AppendProperties
  <1> HIDE DEF m
  <1>2. Extends(l, m)
    BY <1>1 DEF Extends
  <1>3. ASSUME NEW i \in EntriesOf(m, Len(m))
        PROVE  (i \in EntriesOf(l, Len(l)) /\ m[i] = l[i]) \/ (e.kind = "deletion" /\ m[i] = e)
    <2>1. i \in 1..Len(l) + 1 /\ m[i].kind = "deletion"
      BY <1>1 DEF EntriesOf
    <2>2. CASE i = Len(l) + 1
      BY <1>1, <2>1, <2>2
    <2>3. CASE i \in 1..Len(l)
      BY <1>1, <2>1, <2>3 DEF EntriesOf
    <2> QED BY <1>1, <2>1, <2>2, <2>3
  <1>4. \A i \in EntriesOf(l, Len(l)) : l[i].actor = ActorOf(l, l[i].op) /\ l[i].op \in OpsOf(l, Len(l))
    BY ActorIsKnown DEF OpsOf
  <1>5. OneActor(m)
    <2> SUFFICES ASSUME NEW i \in EntriesOf(m, Len(m)), NEW j \in EntriesOf(m, Len(m)),
                        m[i].op = m[j].op
                 PROVE  m[i].actor = m[j].actor
      BY DEF OneActor
    <2>1. (i \in EntriesOf(l, Len(l)) /\ m[i] = l[i]) \/ (e.kind = "deletion" /\ m[i] = e)
      BY <1>3
    <2>2. (j \in EntriesOf(l, Len(l)) /\ m[j] = l[j]) \/ (e.kind = "deletion" /\ m[j] = e)
      BY <1>3
    <2> QED BY <2>1, <2>2, <1>4
  <1> QED BY <1>1, <1>2, <1>3, <1>5 DEF m


-----------------------------------------------------------------------------
(* What every step but the one that puts the backup in place does          *)

Evolves ==
    /\ issued \subseteq issued'
    /\ Extends(ledger, ledger')
    /\ Keeps(issued, db, db')
    /\ \A o \in Operations : ticket[o] # None => ticket'[o] # None
    /\ \A o \in Intents(Len(ledger)) : Out(db, Target(o)) /\ Destroyed(o) => Destroyed(o)'

LEMMA IntentsOfLedger ==
    /\ \A h : Deletions(h) = EntriesOf(ledger, h) /\ Intents(h) = OpsOf(ledger, h)
    /\ \A o : Target(o) = ActorOf(ledger, o)
  BY DEF Deletions, EntriesOf, Intents, OpsOf, Target, ActorOf

LEMMA TargetIsKnown ==
    ASSUME Typed, LedgerFits, NEW h \in 0..Len(ledger), NEW o \in Intents(h)
    PROVE  /\ o \in Operations /\ Target(o) \in Actors \cap issued
           /\ o \in Intents(Len(ledger))
           /\ ticket[o] # None /\ ticket[o] \in Tickets
  <1>1. PICK i \in Deletions(h) : ledger[i].op = o
    BY DEF Intents
  <1>2. ledger \in Seq(Entries) /\ Len(ledger) \in Nat /\ Len(ledger) \in 0..Len(ledger)
    BY DEF Typed
  <1>3. i \in Deletions(Len(ledger))
    BY <1>1, <1>2 DEF Deletions
  <1>4. o \in Operations /\ ledger[i].actor \in issued /\ ledger[i].actor \in Actors /\ ticket[o] # None
    BY <1>1, <1>2, <1>3, IntentsOfLedger, EntriesAreTyped DEF LedgerFits
  <1>5. Target(o) = ledger[i].actor
    BY <1>1, <1>2, <1>3, IntentsOfLedger, ActorIsKnown DEF LedgerFits, OneActor
  <1>6. ticket[o] \in Tickets
    BY <1>4 DEF Typed
  <1> QED BY <1>1, <1>3, <1>4, <1>5, <1>6 DEF Intents

(* The intents of a head stay what they are, and of the same actors.       *)
LEMMA IntentsStay ==
    ASSUME Typed, Typed', LedgerFits, LedgerFits', Extends(ledger, ledger')
    PROVE  /\ \A h \in 0..Len(ledger) : Intents(h)' = Intents(h)
           /\ Intents(Len(ledger)) \subseteq Intents(Len(ledger))'
           /\ \A o \in Intents(Len(ledger)) : Target(o)' = Target(o)
  <1>1. ledger \in Seq(Entries) /\ ledger' \in Seq(Entries)
    BY DEF Typed
  <1>2. OneActor(ledger')
    BY DEF LedgerFits, OneActor, Deletions, EntriesOf
  <1>3. /\ \A h \in 0..Len(ledger) : OpsOf(ledger', h) = OpsOf(ledger, h)
        /\ OpsOf(ledger, Len(ledger)) \subseteq OpsOf(ledger', Len(ledger'))
    BY <1>1, LedgersGrow
  <1>4. \A o \in OpsOf(ledger, Len(ledger)) : ActorOf(ledger', o) = ActorOf(ledger, o)
    BY <1>1, <1>2, ActorsStay
  <1> QED BY <1>3, <1>4 DEF Deletions, EntriesOf, Intents, OpsOf, Target, ActorOf

(* A deletion that is whole stays whole.                                   *)
LEMMA WholeStays ==
    ASSUME Typed, Typed', LedgerFits, LedgerFits', Evolves,
           NEW h \in 0..Len(ledger), NEW o \in Intents(h)
    PROVE  /\ o \in Intents(h)' /\ Target(o)' = Target(o)
           /\ Out(db, Target(o)) => Out(db, Target(o))'
           /\ db.intent[o] = "complete" => db.intent[o]' = "complete"
           /\ Whole(o) => Whole(o)'
  <1>1. o \in Operations /\ Target(o) \in Actors \cap issued /\ o \in Intents(Len(ledger))
    BY TargetIsKnown
  <1>2. o \in Intents(h)' /\ Target(o)' = Target(o)
    BY <1>1, IntentsStay DEF Evolves
  <1>3. Out(db, Target(o)) => Out(db', Target(o))
    BY <1>1 DEF Evolves, Keeps
  <1>4. db.intent[o] = "complete" => db'.intent[o] = "complete"
    BY <1>1 DEF Evolves, Keeps
  <1>5. Out(db, Target(o))' <=> Out(db', Target(o))
    BY <1>2 DEF Out
  <1> QED BY <1>1, <1>2, <1>3, <1>4, <1>5 DEF Evolves, Whole

(* Beside a restore: what others do does not set the run back.             *)
LEMMA RunUndisturbed ==
    ASSUME Typed, Typed', LedgerFits, LedgerFits', RunFits, Evolves, run' = run
    PROVE  RunFits'
  <1>1. run.initial \in 0..Len(ledger)
    BY DEF Typed, Runs
  <1>2. Intents(run.initial)' = Intents(run.initial)
    BY <1>1, IntentsStay DEF Evolves
  <1>3. \A o \in Intents(run.initial) : Whole(o) => Whole(o)'
    BY <1>1, WholeStays
  <1>4. ASSUME run.at = "destroy"
        PROVE  (Out(db, Target(run.op)) /\ (run.state = "complete" => db.intent[run.op] = "complete"))'
    <2>1. run.op \in Intents(run.initial)
      BY <1>4 DEF RunFits, Applying
    <2> QED BY <1>1, <1>4, <2>1, WholeStays DEF RunFits
  <1> QED BY <1>2, <1>3, <1>4 DEF RunFits

LEMMA OpeningStays ==
    ASSUME Typed, Typed', LedgerFits, LedgerFits', OpeningFits, Evolves,
           UNCHANGED <<appliedAt, stale>>,
           (traffic' = "open" \/ run'.at \in Discarded) => (traffic = "open" \/ run.at \in Discarded)
    PROVE  OpeningFits'
  <1>1. appliedAt \in 0..Len(ledger)
    BY DEF Typed
  <1>2. \A o \in Intents(appliedAt)' : Whole(o)'
    <2>1. Intents(appliedAt)' = Intents(appliedAt)
      BY <1>1, IntentsStay DEF Evolves
    <2> QED BY <1>1, <2>1, WholeStays DEF OpeningFits
  <1>3. \A s \in stale \cap Sessions : db.session[s] = None => db'.session[s] = None
    BY DEF Evolves, Keeps, Typed
  <1> QED BY <1>2, <1>3 DEF OpeningFits

-----------------------------------------------------------------------------
(* A step of a worker                                                      *)

(* The worker keeps its deletion, drops it, or takes one that no worker is *)
(* about to prepare; nobody else's ticket is made.                         *)
Works(w) ==
    /\ \A v \in Workers \ {w} : job'[v] = job[v]
    /\ \/ job'[w].op \in {job[w].op, None}
       \/ job'[w].op \in Operations /\ ticket[job'[w].op] # None
       \/ \A v \in Workers \ {w} : job[v].op # job'[w].op
    /\ \A p \in Operations : p = job[w].op \/ ticket[p] # None \/ ticket'[p] = None

LEMMA OthersFit ==
    ASSUME Typed, Typed', LedgerFits, LedgerFits', Evolves,
           NEW v \in Workers, JobFits(v), job'[v] = job[v],
           At(v, "prepare") => /\ ticket'[job[v].op] = None
                               /\ \A u \in Workers \ {v} : job'[u].op # job[v].op
    PROVE  JobFits(v)'
  <1>1. issued \subseteq issued' /\ \A o \in Operations : ticket[o] # None => ticket'[o] # None
    BY DEF Evolves
  <1>2. Intents(Len(ledger)) \subseteq Intents(Len(ledger))'
    BY IntentsStay DEF Evolves
  <1>3. (Begins(job[v]) => job[v].actor \in Actors \cap issued)'
    BY <1>1 DEF JobFits, Begins
  <1>4. (At(v, "append") => job[v].op \in Operations /\ ticket[job[v].op] # None)'
    BY <1>1 DEF JobFits, At
  <1>5. (job[v].at \in Resumed => job[v].op \in Intents(Len(ledger)))'
    BY <1>2 DEF JobFits, Resumed
  <1>6. (At(v, "prepare") => /\ job[v].op \in Operations /\ ticket[job[v].op] = None
                             /\ \A u \in Workers \ {v} : job[u].op # job[v].op)'
    BY DEF JobFits, At
  <1>7. (job[v].head <= Len(ledger))'
    BY DEF JobFits, Evolves, Extends, Typed, Jobs
  <1> QED BY <1>3, <1>4, <1>5, <1>6, <1>7 DEF JobFits

LEMMA JobsStay ==
    ASSUME Typed, Typed', LedgerFits, LedgerFits', JobsFit, Evolves,
           NEW w \in Workers, Works(w), JobFits(w)'
    PROVE  JobsFit'
  <1> SUFFICES ASSUME NEW v \in Workers PROVE JobFits(v)'
    BY DEF JobsFit
  <1>1. CASE v = w
    BY <1>1
  <1>2. CASE v # w
    <2>1. JobFits(v) /\ job'[v] = job[v] /\ v \in Workers \ {w}
      BY <1>2 DEF JobsFit, Works
    <2>2. ASSUME At(v, "prepare")
          PROVE  /\ ticket'[job[v].op] = None
                 /\ \A u \in Workers \ {v} : job'[u].op # job[v].op
      <3> DEFINE o == job[v].op
      <3>1. o \in Operations /\ ticket[o] = None /\ \A u \in Workers \ {v} : job[u].op # o
        BY <2>1, <2>2 DEF JobFits
      <3>2. o # None
        BY <3>1, NoneAssumption
      <3>3. job[w].op # o
        BY <1>2, <3>1
      <3>4. ticket'[o] = None
        BY <3>1, <3>3 DEF Works
      <3>5. job'[w].op # o
        BY <1>2, <2>1, <3>1, <3>2, <3>3 DEF Works
      <3>6. \A u \in Workers \ {v} : job'[u].op # o
        BY <3>1, <3>5 DEF Works
      <3> QED BY <3>4, <3>6
    <2> QED BY <2>1, <2>2, OthersFit
  <1> QED BY <1>1, <1>2

LEMMA JobsUndisturbed ==
    ASSUME Typed, Typed', LedgerFits, LedgerFits', JobsFit, Evolves, job' = job,
           \A o \in Operations : ticket[o] = None => ticket'[o] = None
    PROVE  JobsFit'
  <1> SUFFICES ASSUME NEW v \in Workers PROVE JobFits(v)'
    BY DEF JobsFit
  <1>1. JobFits(v) /\ job'[v] = job[v]
    BY DEF JobsFit
  <1>2. At(v, "prepare") => /\ ticket'[job[v].op] = None
                            /\ \A u \in Workers \ {v} : job'[u].op # job[v].op
    BY <1>1 DEF JobFits
  <1> QED BY <1>1, <1>2, OthersFit

(* Beside a restore the invariant is kept by what keeps these parts of it. *)
LEMMA Beside ==
    ASSUME IInv, Typed', LedgerFits', JobsFit', Evolves,
           UNCHANGED <<traffic, appliedAt, stale, run>>
    PROVE  IInv'
  <1>1. RunFits'
    BY RunUndisturbed DEF IInv
  <1>2. OpeningFits'
    BY OpeningStays DEF IInv
  <1>3. BackupComesFirst'
    BY DEF IInv, BackupComesFirst
  <1> QED BY <1>1, <1>2, <1>3 DEF IInv

(* A worker that changes at most the rows.                                 *)
Silent == UNCHANGED <<issued, ticket, ledger, dead>>

LEMMA SilentlyEvolves ==
    ASSUME Typed, Silent, db' \in Dbs, Keeps(issued, db, db'), LedgerFits
    PROVE  Evolves /\ LedgerFits'
  <1>1. Extends(ledger, ledger')
    BY DEF Typed, Silent, Extends
  <1>2. \A o \in Intents(Len(ledger)) : Destroyed(o) => Destroyed(o)'
    BY DEF Silent, Destroyed
  <1>3. LedgerFits'
    BY DEF LedgerFits, Silent, Deletions
  <1> QED BY <1>1, <1>2, <1>3 DEF Evolves, Silent

LEMMA SilentWorker ==
    ASSUME IInv, NEW w \in Workers, Silent, UNCHANGED restoreVars, db' \in Dbs, Keeps(issued, db, db'),
           NEW j \in Jobs, job' = [job EXCEPT ![w] = j],
           \/ j.op \in {job[w].op, None}
           \/ j.op \in Operations /\ ticket[j.op] # None
           \/ \A v \in Workers \ {w} : job[v].op # j.op,
           j.head <= Len(ledger),
           Begins(j) => j.actor \in Actors \cap issued,
           j.at = "prepare" => /\ j.op \in Operations /\ ticket[j.op] = None
                               /\ \A v \in Workers \ {w} : job[v].op # j.op,
           j.at = "append" => j.op \in Operations /\ ticket[j.op] # None,
           j.at \in Resumed => j.op \in Intents(Len(ledger))
    PROVE  IInv'
  <1>1. Typed /\ LedgerFits /\ JobsFit
    BY DEF IInv
  <1>2. Evolves /\ LedgerFits'
    BY <1>1, SilentlyEvolves
  <1>3. job' \in [Workers -> Jobs] /\ job'[w] = j /\ \A v \in Workers \ {w} : job'[v] = job[v]
    BY <1>1 DEF Typed
  <1>4. Typed'
    BY <1>1, <1>3 DEF Typed, Silent, restoreVars
  <1>5. Works(w)
    BY <1>3 DEF Works, Silent
  <1>6. Intents(Len(ledger))' = Intents(Len(ledger))
    BY DEF Silent, Intents, Deletions
  <1>7. JobFits(w)'
    BY <1>3, <1>6 DEF JobFits, At, Silent
  <1>8. JobsFit'
    BY <1>1, <1>2, <1>4, <1>5, <1>7, JobsStay
  <1> QED BY <1>2, <1>4, <1>8, Beside DEF restoreVars

LEMMA JobMoves ==
    ASSUME NEW j \in Jobs, NEW step \in Steps
    PROVE  /\ [j EXCEPT !.at = step] \in Jobs
           /\ [j EXCEPT !.at = step].at = step
           /\ [j EXCEPT !.at = step].op = j.op
           /\ [j EXCEPT !.at = step].actor = j.actor
           /\ [j EXCEPT !.at = step].head = j.head
  BY DEF Jobs

LEMMA JobReads ==
    ASSUME NEW j \in Jobs, NEW h \in Nat
    PROVE  /\ [j EXCEPT !.head = h] \in Jobs
           /\ [j EXCEPT !.head = h].at = j.at
           /\ [j EXCEPT !.head = h].op = j.op
           /\ [j EXCEPT !.head = h].actor = j.actor
           /\ [j EXCEPT !.head = h].head = h
  BY DEF Jobs

LEMMA IdleJob == Idle \in Jobs /\ Idle.op = None /\ Idle.at = "idle" /\ Idle.head = 0
  BY DEF Idle, Jobs, Steps

LEMMA BegunJob ==
    ASSUME NEW a \in Actors
    PROVE  LET j == [Idle EXCEPT !.at = "head", !.actor = a]
           IN  j \in Jobs /\ j.at = "head" /\ j.op = None /\ j.actor = a /\ j.head = 0
  <1>1. [Idle EXCEPT !.at = "head"] \in Jobs /\ [Idle EXCEPT !.at = "head"].op = None
    BY IdleJob, JobMoves DEF Steps
  <1>2. [Idle EXCEPT !.at = "head", !.actor = a] = [[Idle EXCEPT !.at = "head"] EXCEPT !.actor = a]
    BY IdleJob DEF Jobs
  <1>3. [[Idle EXCEPT !.at = "head"] EXCEPT !.actor = a] \in Jobs
    BY <1>1 DEF Jobs
  <1> QED BY <1>2, <1>3, IdleJob DEF Jobs

LEMMA ResumedJob ==
    ASSUME NEW o \in Operations
    PROVE  LET j == [Idle EXCEPT !.at = "head", !.op = o]
           IN  j \in Jobs /\ j.at = "head" /\ j.op = o /\ j.head = 0
  <1>1. [Idle EXCEPT !.at = "head"] \in Jobs
    BY IdleJob, JobMoves DEF Steps
  <1>2. [Idle EXCEPT !.at = "head", !.op = o] = [[Idle EXCEPT !.at = "head"] EXCEPT !.op = o]
    BY IdleJob DEF Jobs
  <1>3. [[Idle EXCEPT !.at = "head"] EXCEPT !.op = o] \in Jobs
    BY <1>1 DEF Jobs
  <1> QED BY <1>2, <1>3, IdleJob DEF Jobs

LEMMA KeepsItself == ASSUME NEW d, NEW I PROVE Keeps(I, d, d)
  BY DEF Keeps

(* A call that ends, with the rows as they are or sealed off.              *)
LEMMA Returns ==
    ASSUME IInv, NEW w \in Workers, Silent, UNCHANGED restoreVars,
           db' \in {db, Quarantined(db)}, Return(w)
    PROVE  IInv'
  <1>1. db' \in Dbs /\ Keeps(issued, db, db')
    BY QuarantinedKeeps, KeepsItself DEF IInv, Typed
  <1>2. /\ job' = [job EXCEPT ![w] = Idle] /\ ~ Begins(Idle) /\ Idle.at \notin Resumed
        /\ Idle.head <= Len(ledger)
    BY IdleJob DEF Return, Begins, Resumed, IInv, Typed
  <1> QED BY <1>1, <1>2, IdleJob, SilentWorker

LEMMA FailedCall ==
    ASSUME IInv, NEW w \in Workers, Fails(w), UNCHANGED restoreVars
    PROVE  IInv'
  BY Returns DEF Fails, Silent

(* A call that goes on to a step for which it knows enough.                *)
LEMMA GoesOn ==
    ASSUME IInv, NEW w \in Workers, Silent, UNCHANGED restoreVars, db' \in Dbs, Keeps(issued, db, db'),
           NEW step \in Steps \ {"prepare", "append"}, Goto(w, step),
           step \notin Resumed =>
              \/ Begins(job[w])
              \/ job[w].op # None /\ step \notin {"match", "plan"},
           step \in Resumed => job[w].op \in Intents(Len(ledger))
    PROVE  IInv'
  <1> DEFINE j == [job[w] EXCEPT !.at = step]
  <1>1. job[w] \in Jobs /\ JobFits(w)
    BY DEF IInv, Typed, JobsFit
  <1>2. /\ j \in Jobs /\ j.at = step /\ j.op = job[w].op /\ j.actor = job[w].actor
        /\ j.head = job[w].head
    BY <1>1, JobMoves
  <1>3. job' = [job EXCEPT ![w] = j]
    BY DEF Goto
  <1> HIDE DEF j
  <1>4. Begins(j) => Begins(job[w])
    BY <1>2 DEF Begins, Resumed
  <1>5. (Begins(j) => j.actor \in Actors \cap issued) /\ j.head <= Len(ledger)
    BY <1>1, <1>2, <1>4 DEF JobFits
  <1> QED BY <1>2, <1>3, <1>5, SilentWorker

LEMMA BeginStep ==
    ASSUME IInv, NEW w \in Workers, NEW a \in Actors, Begin(w, a), UNCHANGED restoreVars
    PROVE  IInv'
  <1> DEFINE j == [Idle EXCEPT !.at = "head", !.actor = a]
  <1>0. 0 <= Len(ledger)
    BY DEF IInv, Typed
  <1>1. j \in Jobs /\ j.at = "head" /\ j.op = None /\ j.actor = a /\ j.head = 0
    BY BegunJob
  <1>2. /\ a \in issued /\ job' = [job EXCEPT ![w] = j]
        /\ Silent /\ db' = db
    BY DEF Begin, UnchangedRecords, recordVars, Silent
  <1>3. db' \in Dbs /\ Keeps(issued, db, db')
    BY <1>2, KeepsItself DEF IInv, Typed
  <1> HIDE DEF j
  <1> QED BY <1>0, <1>1, <1>2, <1>3, SilentWorker DEF Resumed

LEMMA ResumeStep ==
    ASSUME IInv, NEW w \in Workers, NEW o \in Operations, UNCHANGED restoreVars,
           job' = [job EXCEPT ![w] = [Idle EXCEPT !.at = "head", !.op = o]], UnchangedRecords,
           ticket[o] # None
    PROVE  IInv'
  <1> DEFINE j == [Idle EXCEPT !.at = "head", !.op = o]
  <1>0. 0 <= Len(ledger)
    BY DEF IInv, Typed
  <1>1. j \in Jobs /\ j.at = "head" /\ j.op = o /\ o # None /\ j.head = 0
    BY ResumedJob, NoneAssumption
  <1>2. job' = [job EXCEPT ![w] = j] /\ Silent /\ db' = db
    BY DEF UnchangedRecords, recordVars, Silent
  <1>3. db' \in Dbs /\ Keeps(issued, db, db')
    BY <1>2, KeepsItself DEF IInv, Typed
  <1> HIDE DEF j
  <1>4. ~ Begins(j) /\ j.at \notin Resumed
    BY <1>1 DEF Begins, Resumed
  <1> QED BY <1>0, <1>1, <1>2, <1>3, <1>4, SilentWorker

(* A job that reads a head of the ledger, and perhaps goes on.             *)
LEMMA ReadingStep ==
    ASSUME IInv, NEW w \in Workers, UNCHANGED restoreVars, UnchangedRecords,
           NEW step \in Steps, NEW tries \in 0..2,
           job' = [job EXCEPT ![w] = [[[job[w] EXCEPT !.at = step] EXCEPT !.head = Len(ledger)]
                                          EXCEPT !.tries = tries]],
           \/ job[w].at \in {"head", "reconcile"} /\ step = "reconcile"
           \/ job[w].at \in Resumed /\ step \in Resumed
    PROVE  IInv'
  <1> DEFINE j1 == [job[w] EXCEPT !.at = step]
             j2 == [j1 EXCEPT !.head = Len(ledger)]
             j == [j2 EXCEPT !.tries = tries]
  <1>1. job[w] \in Jobs /\ JobFits(w) /\ Len(ledger) \in Nat
    BY DEF IInv, Typed, JobsFit
  <1>2. j1 \in Jobs /\ j1.at = step /\ j1.op = job[w].op /\ j1.actor = job[w].actor
    BY <1>1, JobMoves
  <1> HIDE DEF j1
  <1>3. /\ j2 \in Jobs /\ j2.at = step /\ j2.op = job[w].op /\ j2.actor = job[w].actor
        /\ j2.head = Len(ledger)
    BY <1>1, <1>2, JobReads
  <1> HIDE DEF j2
  <1>4. /\ j \in Jobs /\ j.at = step /\ j.op = job[w].op /\ j.actor = job[w].actor
        /\ j.head <= Len(ledger)
    BY <1>1, <1>3 DEF Jobs
  <1>5. job' = [job EXCEPT ![w] = j]
    BY DEF j1, j2
  <1> HIDE DEF j
  <1>6. /\ Begins(j) => j.actor \in Actors \cap issued
        /\ j.at \in Resumed => j.op \in Intents(Len(ledger))
        /\ j.at \notin {"prepare", "append"}
    BY <1>1, <1>4 DEF JobFits, Begins, Resumed
  <1>7. Silent /\ db' \in Dbs /\ Keeps(issued, db, db')
    BY KeepsItself DEF IInv, Typed, UnchangedRecords, recordVars, Silent
  <1> QED BY <1>4, <1>5, <1>6, <1>7, SilentWorker

LEMMA ReadHeadStep ==
    ASSUME IInv, NEW w \in Workers, ReadHead(w), UNCHANGED restoreVars
    PROVE  IInv'
  <1> DEFINE step == "reconcile"
             tries == 0
  <1>1. job[w] \in Jobs /\ job \in [Workers -> Jobs]
    BY DEF IInv, Typed
  <1>2. job' = [job EXCEPT ![w] = [[[job[w] EXCEPT !.at = step] EXCEPT !.head = Len(ledger)]
                                       EXCEPT !.tries = tries]]
    BY <1>1 DEF ReadHead, Jobs
  <1>3. /\ job[w].at \in {"head", "reconcile"} /\ step = "reconcile"
        /\ step \in Steps /\ tries \in 0..2 /\ UnchangedRecords
    BY DEF ReadHead, At, Steps
  <1> HIDE DEF step, tries
  <1> QED BY <1>2, <1>3, ReadingStep

LEMMA LatestStep ==
    ASSUME IInv, NEW w \in Workers, Latest(w), UNCHANGED restoreVars
    PROVE  IInv'
  <1> DEFINE step == "finish"
             tries == job[w].tries
  <1>1. job[w] \in Jobs /\ job \in [Workers -> Jobs]
    BY DEF IInv, Typed
  <1>2. job' = [job EXCEPT ![w] = [[[job[w] EXCEPT !.at = step] EXCEPT !.head = Len(ledger)]
                                       EXCEPT !.tries = tries]]
    BY <1>1 DEF Latest, Jobs
  <1>3. /\ job[w].at \in Resumed /\ step \in Resumed
        /\ step \in Steps /\ tries \in 0..2 /\ UnchangedRecords
    BY <1>1 DEF Latest, At, Steps, Resumed, Jobs
  <1> HIDE DEF step, tries
  <1> QED BY <1>2, <1>3, ReadingStep

LEMMA ReconcileStep ==
    ASSUME IInv, NEW w \in Workers, Reconcile(w), UNCHANGED restoreVars
    PROVE  IInv'
  <1>0. /\ job[w] \in Jobs /\ job \in [Workers -> Jobs] /\ job[w].at = "reconcile" /\ JobFits(w)
        /\ job[w].op \in Operations \cup {None}
    BY DEF IInv, Typed, Reconcile, At, JobsFit, Jobs
  <1>1. CASE Reconciled(job[w].head)
    <2> DEFINE step == IF job[w].op = None THEN "match" ELSE "lookup"
    <2>1. Goto(w, step) /\ Silent /\ db' = db
      BY <1>1 DEF Reconcile, UnchangedRecords, recordVars, Silent
    <2>2. db' \in Dbs /\ Keeps(issued, db, db')
      BY <2>1, KeepsItself DEF IInv, Typed
    <2>3. /\ step \in Steps \ {"prepare", "append"} /\ step \notin Resumed
          /\ \/ Begins(job[w])
             \/ job[w].op # None /\ step \notin {"match", "plan"}
      BY <1>0 DEF Steps, Resumed, Begins
    <2> HIDE DEF step
    <2> QED BY <2>1, <2>2, <2>3, GoesOn
  <1>2. CASE ~ Reconciled(job[w].head) /\ job[w].head = Len(ledger)
    BY <1>2, Returns DEF Reconcile, QuarantineAndReturn, UnchangedButDb, Silent
  <1>3. CASE ~ Reconciled(job[w].head) /\ job[w].head # Len(ledger) /\ job[w].tries < 2
    <2> DEFINE step == "reconcile"
               tries == job[w].tries + 1
    <2>1. tries \in 0..2 /\ step \in Steps /\ UnchangedRecords /\ step = "reconcile"
      BY <1>0, <1>3 DEF Jobs, Steps, Reconcile
    <2>2. job' = [job EXCEPT ![w].head = Len(ledger), ![w].tries = @ + 1]
      BY <1>3 DEF Reconcile
    <2>3. job' = [job EXCEPT ![w] = [[[job[w] EXCEPT !.at = step] EXCEPT !.head = Len(ledger)]
                                         EXCEPT !.tries = tries]]
      BY <1>0, <2>2 DEF Jobs
    <2> HIDE DEF step, tries
    <2> QED BY <1>0, <2>1, <2>3, ReadingStep
  <1>4. CASE ~ Reconciled(job[w].head) /\ job[w].head # Len(ledger) /\ ~ (job[w].tries < 2)
    BY <1>4, FailedCall DEF Reconcile
  <1> QED BY <1>1, <1>2, <1>3, <1>4

LEMMA MatchStep ==
    ASSUME IInv, NEW w \in Workers, Match(w), UNCHANGED restoreVars
    PROVE  IInv'
  <1> DEFINE matches == {o \in Intents(job[w].head) : Target(o) = job[w].actor}
             o == CHOOSE o \in matches : TRUE
             step == "plan"
  <1>1. job[w].at = "match" /\ Begins(job[w])
    BY DEF Match, At, Begins
  <1>2. CASE QuarantineAndReturn(w) /\ UnchangedButDb
    BY <1>2, Returns DEF QuarantineAndReturn, UnchangedButDb, Silent
  <1>3. CASE Goto(w, step) /\ UnchangedRecords
    <2>1. Silent /\ db' \in Dbs /\ Keeps(issued, db, db')
      BY <1>3, KeepsItself DEF IInv, Typed, UnchangedRecords, recordVars, Silent
    <2>2. step \in Steps \ {"prepare", "append"} /\ step \notin Resumed
      BY DEF Steps, Resumed
    <2> HIDE DEF step
    <2> QED BY <1>1, <1>3, <2>1, <2>2, GoesOn
  <1>4. CASE /\ matches # {} /\ UnchangedRecords
             /\ job' = [job EXCEPT ![w] = [Idle EXCEPT !.at = "head", !.op = o]]
    <2>1. o \in Intents(job[w].head)
      BY <1>4
    <2> HIDE DEF o
    <2>2. o \in Operations /\ ticket[o] # None
      <3>1. job[w].head \in 0..Len(ledger)
        BY DEF IInv, Typed, Jobs, JobsFit, JobFits
      <3> QED BY <2>1, <3>1, TargetIsKnown DEF IInv
    <2> QED BY <1>4, <2>2, ResumeStep
  <1> QED BY <1>2, <1>3, <1>4 DEF Match

LEMMA PlanStep ==
    ASSUME IInv, NEW w \in Workers, Plan(w), UNCHANGED restoreVars
    PROVE  IInv'
  <1>1. /\ job[w] \in Jobs /\ job \in [Workers -> Jobs] /\ JobFits(w) /\ Begins(job[w])
    BY DEF IInv, Typed, Plan, At, JobsFit, Begins
  <1>2. CASE Fails(w)
    BY <1>2, FailedCall
  <1>3. CASE /\ \E o \in Operations :
                  /\ ticket[o] = None /\ \A v \in Workers : job[v].op # o
                  /\ job' = [job EXCEPT ![w].at = "prepare", ![w].op = o, ![w].applies = TRUE]
             /\ UnchangedRecords
    <2>1. PICK o \in Operations :
             /\ ticket[o] = None /\ \A v \in Workers : job[v].op # o
             /\ job' = [job EXCEPT ![w].at = "prepare", ![w].op = o, ![w].applies = TRUE]
      BY <1>3
    <2> DEFINE step == "prepare"
               j1 == [job[w] EXCEPT !.at = step]
               j2 == [j1 EXCEPT !.op = o]
               j == [j2 EXCEPT !.applies = TRUE]
    <2>2. /\ j1 \in Jobs /\ j1.at = step /\ j1.actor = job[w].actor /\ j1.head = job[w].head
      BY <1>1, JobMoves DEF Steps
    <2>3. job' = [job EXCEPT ![w] = j]
      BY <1>1, <2>1 DEF Jobs
    <2> HIDE DEF j1
    <2>4. /\ j2 \in Jobs /\ j2.at = step /\ j2.actor = job[w].actor /\ j2.head = job[w].head
          /\ j2.op = o
      BY <2>2 DEF Jobs
    <2> HIDE DEF j2
    <2>5. /\ j \in Jobs /\ j.at = step /\ j.actor = job[w].actor /\ j.head = job[w].head
          /\ j.op = o
      BY <2>4 DEF Jobs
    <2> HIDE DEF j
    <2>6. Silent /\ db' \in Dbs /\ Keeps(issued, db, db')
      BY <1>3, KeepsItself DEF IInv, Typed, UnchangedRecords, recordVars, Silent
    <2>7. /\ Begins(j) => j.actor \in Actors \cap issued
          /\ j.at \notin Resumed /\ j.at # "append"
          /\ j.head <= Len(ledger)
      BY <1>1, <2>5 DEF JobFits, Resumed
    <2> QED BY <2>1, <2>3, <2>5, <2>6, <2>7, SilentWorker
  <1> QED BY <1>2, <1>3 DEF Plan

(* The deletion a job resumes is in the ledger when the head it read has it. *)
LEMMA LookupStep ==
    ASSUME IInv, NEW w \in Workers, Lookup(w), UNCHANGED restoreVars
    PROVE  IInv'
  <1> DEFINE o == job[w].op
             known == o \in Intents(job[w].head)
             prepared == StateAt(job[w].head, o) = "prepared"
             overdue == prepared /\ Late(o)
             intact == Target(o) \in ticket[o].scopes /\ PendingTickets(Target(o)) \subseteq {o}
  <1>1. /\ job[w] \in Jobs /\ job \in [Workers -> Jobs] /\ JobFits(w)
        /\ job[w].head \in 0..Len(ledger)
    BY DEF IInv, Typed, JobsFit, JobFits, Jobs
  <1>2. Silent
    BY DEF Lookup, UnchangedButDb, Silent
  <1>3. CASE ~ (known /\ intact)
    BY <1>2, <1>3, Returns DEF Lookup
  <1>4. CASE known /\ intact
    <2> DEFINE step == "disable"
               late == overdue
               first == prepared
               j1 == [job[w] EXCEPT !.at = step]
               j2 == [j1 EXCEPT !.applies = first]
               j == [j2 EXCEPT !.missed = late]
    <2>1. /\ db' = IF overdue THEN Quarantined(db) ELSE db
          /\ job' = [job EXCEPT ![w].at = "disable", ![w].applies = prepared, ![w].missed = overdue]
      BY <1>4 DEF Lookup
    <2>2. db' \in Dbs /\ Keeps(issued, db, db')
      BY <2>1, KeepsItself, QuarantinedKeeps DEF IInv, Typed
    <2>3. o \in Intents(Len(ledger))
      BY <1>1, <1>4, TargetIsKnown DEF IInv
    <2>4. late \in BOOLEAN /\ first \in BOOLEAN
      OBVIOUS
    <2> HIDE DEF late, first
    <2>5. job' = [job EXCEPT ![w] = j]
      BY <1>1, <2>1 DEF Jobs, late, first
    <2>6. j1 \in Jobs /\ j1.at = step /\ j1.op = job[w].op /\ j1.head = job[w].head
      BY <1>1, JobMoves DEF Steps
    <2> HIDE DEF j1
    <2>7. j2 \in Jobs /\ j2.at = step /\ j2.op = job[w].op /\ j2.head = job[w].head
      BY <2>4, <2>6 DEF Jobs
    <2> HIDE DEF j2
    <2>8. j \in Jobs /\ j.at = step /\ j.op = job[w].op /\ j.head = job[w].head
      BY <2>4, <2>7 DEF Jobs
    <2> HIDE DEF j
    <2>9. ~ Begins(j) /\ j.at \notin {"prepare", "append"} /\ j.head <= Len(ledger)
      BY <1>1, <2>8 DEF Begins
    <2> QED BY <1>2, <2>2, <2>3, <2>5, <2>8, <2>9, SilentWorker
  <1> QED BY <1>3, <1>4

(* The later steps of resume, each of which goes on or fails.              *)
LEMMA ResumedGoesOn ==
    ASSUME IInv, NEW w \in Workers, Silent, UNCHANGED restoreVars, db' \in Dbs, Keeps(issued, db, db'),
           NEW step \in Resumed, Goto(w, step), job[w].at \in Resumed
    PROVE  IInv'
  <1>1. job[w].op \in Intents(Len(ledger))
    BY DEF IInv, JobsFit, JobFits
  <1>2. step \in Steps \ {"prepare", "append"}
    BY DEF Resumed, Steps
  <1> QED BY <1>1, <1>2, GoesOn

LEMMA CheckingSteps ==
    ASSUME IInv, NEW w \in Workers, Absent(w) \/ Verify(w), UNCHANGED restoreVars
    PROVE  IInv'
  <1>1. job[w].at \in Resumed
    BY DEF Absent, Verify, At, Resumed
  <1>2. CASE Fails(w)
    BY <1>2, FailedCall
  <1>3. CASE \E step \in Resumed : Goto(w, step) /\ UnchangedRecords
    <2>1. PICK step \in Resumed : Goto(w, step)
      BY <1>3
    <2>2. Silent /\ db' \in Dbs /\ Keeps(issued, db, db')
      BY <1>3, KeepsItself DEF IInv, Typed, UnchangedRecords, recordVars, Silent
    <2> QED BY <1>1, <2>1, <2>2, ResumedGoesOn
  <1> QED BY <1>2, <1>3 DEF Absent, Verify, Resumed

LEMMA RemoveStep ==
    ASSUME IInv, NEW w \in Workers, Remove(w), UNCHANGED restoreVars
    PROVE  IInv'
  <1> DEFINE step == "absent"
  <1>1. job[w].at \in Resumed /\ step \in Resumed
    BY DEF Remove, At, Resumed
  <1>2. CASE Fails(w)
    BY <1>2, FailedCall
  <1>3. CASE db' = Removed(job[w].op) /\ Goto(w, step) /\ UnchangedButDb
    <2>1. Silent /\ db' \in Dbs /\ Keeps(issued, db, db')
      BY <1>3, RemovedKeeps DEF IInv, Typed, UnchangedButDb, Silent
    <2> HIDE DEF step
    <2> QED BY <1>1, <1>3, <2>1, ResumedGoesOn
  <1> QED BY <1>2, <1>3 DEF Remove

LEMMA CompleteStep ==
    ASSUME IInv, NEW w \in Workers, Complete(w), UNCHANGED restoreVars
    PROVE  IInv'
  <1> DEFINE step == "report"
  <1>1. job[w].at \in Resumed /\ step \in Resumed
    BY DEF Complete, At, Resumed
  <1>2. CASE Fails(w)
    BY <1>2, FailedCall
  <1>3. CASE db' = Completed(job[w].op) /\ Goto(w, step) /\ UnchangedButDb
    <2>1. Silent /\ db' \in Dbs /\ Keeps(issued, db, db')
      BY <1>3, CompletedKeeps DEF IInv, Typed, UnchangedButDb, Silent
    <2> HIDE DEF step
    <2> QED BY <1>1, <1>3, <2>1, ResumedGoesOn
  <1> QED BY <1>2, <1>3 DEF Complete

LEMMA ReportStep ==
    ASSUME IInv, NEW w \in Workers, Report(w), UNCHANGED restoreVars
    PROVE  IInv'
  BY Returns DEF Report, QuarantineAndReturn, Silent

LEMMA StopStep ==
    ASSUME IInv, NEW w \in Workers, Stop(w) \/ Crash(w), UNCHANGED restoreVars
    PROVE  IInv'
  BY FailedCall, Returns DEF Stop, Crash, UnchangedRecords, recordVars, Silent

-----------------------------------------------------------------------------
(* The steps of a worker that change the ledger or the registry            *)

LEMMA TicketPrepared ==
    ASSUME Typed, NEW o \in Operations, NEW scopes \in SUBSET (Actors \cup Sessions),
           PrepareTicket(o, scopes)
    PROVE  /\ ticket' \in [Operations -> Tickets \cup {None}]
           /\ \A p \in Operations \ {o} : ticket'[p] = ticket[p]
           /\ ticket'[o] # None
           /\ ticket[o] # None /\ scopes \subseteq ticket[o].scopes =>
                 ticket'[o].done = ticket[o].done /\ ticket'[o].scopes = ticket[o].scopes
  <1> DEFINE t == IF ticket[o] = None THEN [scopes |-> scopes, done |-> FALSE]
                  ELSE [scopes |-> ticket[o].scopes \cup scopes,
                        done |-> ticket[o].done /\ scopes \subseteq ticket[o].scopes]
  <1>1. ticket \in [Operations -> Tickets \cup {None}] /\ None \notin Tickets
    BY NoneAssumption DEF Typed
  <1>2. ticket' = [ticket EXCEPT ![o] = t]
    BY DEF PrepareTicket
  <1>3. t \in Tickets
    BY <1>1 DEF Tickets
  <1>4. ticket[o] # None /\ scopes \subseteq ticket[o].scopes =>
           t.scopes = ticket[o].scopes /\ t.done = ticket[o].done
    BY <1>1 DEF Tickets
  <1> HIDE DEF t
  <1> QED BY <1>1, <1>2, <1>3, <1>4

LEMMA TicketDestroyed ==
    ASSUME Typed, NEW o \in Operations, ticket[o] # None, DestroyTicket(o)
    PROVE  /\ ticket' \in [Operations -> Tickets \cup {None}]
           /\ \A p \in Operations \ {o} : ticket'[p] = ticket[p]
           /\ ticket'[o] # None
           /\ Destroyed(o)' /\ dead \subseteq dead'
           /\ \A p \in Operations : Destroyed(p) => Destroyed(p)'
  <1>1. ticket \in [Operations -> Tickets \cup {None}] /\ ticket[o] \in Tickets /\ None \notin Tickets
    BY NoneAssumption DEF Typed
  <1> DEFINE t == [ticket[o] EXCEPT !.done = TRUE]
  <1>2. t \in Tickets /\ t.done /\ t.scopes = ticket[o].scopes
    BY <1>1 DEF Tickets
  <1>3. ticket' = [ticket EXCEPT ![o] = t] /\ dead' = dead \cup ticket[o].scopes
    BY DEF DestroyTicket
  <1> HIDE DEF t
  <1> QED BY <1>1, <1>2, <1>3 DEF Destroyed

LEMMA LedgerStays ==
    ASSUME Typed, LedgerFits, UNCHANGED <<ledger, issued>>,
           \A o \in Operations : ticket[o] # None => ticket'[o] # None
    PROVE  LedgerFits' /\ Extends(ledger, ledger') /\ ledger' \in Seq(Entries)
           /\ Intents(Len(ledger))' = Intents(Len(ledger))
  <1>1. \A i \in Deletions(Len(ledger)) : ledger[i].op \in Operations
    BY IntentsOfLedger, EntriesAreTyped DEF Typed
  <1> QED BY <1>1 DEF Typed, LedgerFits, Deletions, Intents, Extends

LEMMA EntryAppended ==
    ASSUME Typed, LedgerFits, NEW e \in Entries, ledger' = Append(ledger, e), UNCHANGED <<issued, ticket>>,
           e.kind = "deletion" =>
              /\ e.actor \in issued /\ ticket[e.op] # None
              /\ e.op \in Intents(Len(ledger)) => e.actor = Target(e.op)
    PROVE  /\ LedgerFits' /\ Extends(ledger, ledger') /\ ledger' \in Seq(Entries)
           /\ Len(ledger') = Len(ledger) + 1
           /\ e.kind = "deletion" => e.op \in Intents(Len(ledger))'
           /\ Intents(Len(ledger)) \subseteq Intents(Len(ledger))'
  <1>1. ledger \in Seq(Entries) /\ Len(ledger) \in Nat
    BY DEF Typed
  <1>2. OneActor(ledger)
    BY DEF LedgerFits, OneActor, Deletions, EntriesOf
  <1>3. /\ ledger' \in Seq(Entries) /\ Len(ledger') = Len(ledger) + 1 /\ Extends(ledger, ledger')
        /\ OneActor(ledger')
        /\ \A i \in EntriesOf(ledger', Len(ledger')) :
              \/ i \in EntriesOf(ledger, Len(ledger)) /\ ledger'[i] = ledger[i]
              \/ e.kind = "deletion" /\ ledger'[i] = e
    BY <1>1, <1>2, IntentsOfLedger, LedgerAppended
  <1>4. ASSUME NEW i \in EntriesOf(ledger', Len(ledger'))
        PROVE  ledger'[i].actor \in issued /\ ticket[ledger'[i].op] # None
    BY <1>3, IntentsOfLedger DEF LedgerFits
  <1>5. LedgerFits'
    BY <1>3, <1>4 DEF LedgerFits, OneActor, Deletions, EntriesOf
  <1>6. ledger'[Len(ledger')] = e
    BY <1>1, <1>3, AppendProperties
  <1>7. e.kind = "deletion" => e.op \in Intents(Len(ledger))'
    BY <1>1, <1>3, <1>6 DEF Intents, Deletions
  <1>8. Intents(Len(ledger)) \subseteq Intents(Len(ledger))'
    BY <1>1, <1>3, LedgersGrow DEF Intents, Deletions, OpsOf, EntriesOf
  <1> QED BY <1>3, <1>5, <1>7, <1>8

LEMMA LoudWorker ==
    ASSUME IInv, NEW w \in Workers, UNCHANGED restoreVars, issued' = issued,
           db' \in Dbs, ticket' \in [Operations -> Tickets \cup {None}], ledger' \in Seq(Entries),
           Evolves, LedgerFits',
           \A p \in Operations : p = job[w].op \/ ticket[p] # None \/ ticket'[p] = None,
           NEW j \in Jobs, job' = [job EXCEPT ![w] = j],
           j.op \in {job[w].op, None}, j.head <= Len(ledger'),
           Begins(j) => j.actor \in Actors \cap issued,
           j.at # "prepare",
           j.at = "append" => j.op \in Operations /\ ticket'[j.op] # None,
           j.at \in Resumed => j.op \in Intents(Len(ledger))'
    PROVE  IInv'
  <1>1. Typed /\ LedgerFits /\ JobsFit
    BY DEF IInv
  <1>2. job' \in [Workers -> Jobs] /\ job'[w] = j /\ \A v \in Workers \ {w} : job'[v] = job[v]
    BY <1>1 DEF Typed
  <1>3. Len(ledger) \in Nat /\ Len(ledger') \in Nat /\ Len(ledger) <= Len(ledger')
    BY <1>1 DEF Typed, Evolves, Extends
  <1>4. appliedAt' \in 0..Len(ledger') /\ run'.head <= Len(ledger') /\ run'.initial <= Len(ledger')
    BY <1>1, <1>3 DEF Typed, restoreVars, Runs
  <1>5. Typed'
    BY <1>1, <1>2, <1>4 DEF Typed, restoreVars
  <1>6. Works(w)
    BY <1>2 DEF Works
  <1>7. JobFits(w)'
    BY <1>2 DEF JobFits, At
  <1>8. JobsFit'
    BY <1>1, <1>5, <1>6, <1>7, JobsStay
  <1> QED BY <1>5, <1>8, Beside DEF restoreVars

LEMMA RegistryEvolves ==
    ASSUME Typed, LedgerFits, UNCHANGED <<ledger, issued>>, dead \subseteq dead', Keeps(issued, db, db'),
           NEW o \in Operations, \A p \in Operations \ {o} : ticket'[p] = ticket[p],
           ticket'[o] # None,
           o \in Intents(Len(ledger)) /\ Out(db, Target(o)) /\ Destroyed(o) => Destroyed(o)'
    PROVE  Evolves
  <1>1. \A p \in Operations : ticket[p] # None => ticket'[p] # None
    OBVIOUS
  <1>2. Extends(ledger, ledger')
    BY <1>1, LedgerStays
  <1>3. ASSUME NEW p \in Intents(Len(ledger)), Out(db, Target(p)), Destroyed(p)
        PROVE  Destroyed(p)'
    <2>1. p \in Operations
      BY TargetIsKnown DEF Typed
    <2>2. CASE p = o
      BY <1>3, <2>2
    <2>3. CASE p # o
      BY <1>3, <2>1, <2>3 DEF Destroyed
    <2> QED BY <2>2, <2>3
  <1> QED BY <1>1, <1>2, <1>3 DEF Evolves

LEMMA PrepareStep ==
    ASSUME IInv, NEW w \in Workers, Prepare(w), UNCHANGED restoreVars
    PROVE  IInv'
  <1> DEFINE o == job[w].op
             step == "append"
             j == [job[w] EXCEPT !.at = step]
  <1>1. /\ Typed /\ LedgerFits /\ job[w] \in Jobs /\ JobFits(w) /\ At(w, "prepare") /\ Begins(job[w])
    BY DEF IInv, Typed, Prepare, At, JobsFit, Begins
  <1>2. /\ o \in Operations /\ ticket[o] = None
        /\ job[w].actor \in Actors \cap issued /\ job[w].head <= Len(ledger)
    BY <1>1 DEF JobFits
  <1>3. /\ ticket' \in [Operations -> Tickets \cup {None}]
        /\ \A p \in Operations \ {o} : ticket'[p] = ticket[p]
        /\ ticket'[o] # None
    <2> DEFINE scopes == {job[w].actor}
    <2>1. scopes \in SUBSET (Actors \cup Sessions)
      BY <1>2
    <2>2. PrepareTicket(o, scopes)
      BY DEF Prepare
    <2> HIDE DEF scopes, o
    <2> QED BY <1>1, <1>2, <2>1, <2>2, TicketPrepared
  <1>4. UNCHANGED <<db, issued, dead, ledger>> /\ Goto(w, step)
    BY DEF Prepare
  <1>5. db' \in Dbs /\ Keeps(issued, db, db')
    BY <1>1, <1>4, KeepsItself DEF Typed
  <1>6. o \notin Intents(Len(ledger))
    BY <1>1, <1>2, TargetIsKnown DEF Typed
  <1>7. LedgerFits' /\ ledger' \in Seq(Entries)
    BY <1>1, <1>2, <1>3, <1>4, LedgerStays
  <1>8. Evolves
    BY <1>1, <1>2, <1>3, <1>4, <1>5, <1>6, RegistryEvolves
  <1>9. /\ j \in Jobs /\ j.at = step /\ j.op = o /\ j.actor = job[w].actor /\ j.head = job[w].head
        /\ job' = [job EXCEPT ![w] = j]
    BY <1>1, <1>4, JobMoves DEF Steps, Goto
  <1>10. j.at \notin Resumed /\ j.at # "prepare"
    BY <1>9 DEF Resumed
  <1>11. \A p \in Operations : p = job[w].op \/ ticket[p] # None \/ ticket'[p] = None
    BY <1>3
  <1> HIDE DEF j
  <1> QED BY <1>2, <1>3, <1>4, <1>5, <1>7, <1>8, <1>9, <1>10, <1>11, LoudWorker

LEMMA AppendStep ==
    ASSUME IInv, NEW w \in Workers, AppendPrepared(w), UNCHANGED restoreVars
    PROVE  IInv'
  <1> DEFINE o == job[w].op
             e == [kind |-> "deletion", op |-> o, actor |-> job[w].actor, state |-> "prepared"]
  <1>1. /\ Typed /\ LedgerFits /\ job[w] \in Jobs /\ JobFits(w) /\ At(w, "append") /\ Begins(job[w])
    BY DEF IInv, Typed, AppendPrepared, At, JobsFit, Begins
  <1>2. /\ o \in Operations /\ ticket[o] # None /\ job[w].actor \in Actors \cap issued
    BY <1>1 DEF JobFits
  <1>3. CASE Fails(w)
    BY <1>3, FailedCall
  <1>4. CASE /\ MayAppend(job[w].head, e) /\ ledger' = Append(ledger, e)
             /\ job' = [job EXCEPT ![w] = [Idle EXCEPT !.at = "head", !.op = o]]
             /\ UNCHANGED <<db, issued, ticket, credential, dead, deadline, told>>
    <2> DEFINE j == [Idle EXCEPT !.at = "head", !.op = o]
    <2>1. e \in Entries /\ e.kind = "deletion" /\ e.op = o /\ e.actor = job[w].actor
      BY <1>2 DEF Entries
    <2>2. o \notin Intents(Len(ledger))
      BY <1>4 DEF MayAppend, Transition
    <2> HIDE DEF e
    <2>3. /\ LedgerFits' /\ Extends(ledger, ledger') /\ ledger' \in Seq(Entries)
          /\ Len(ledger') = Len(ledger) + 1
      BY <1>1, <1>2, <1>4, <2>1, <2>2, EntryAppended
    <2>4. Evolves
      BY <1>4, <2>3, KeepsItself DEF Evolves, Destroyed
    <2>5. j \in Jobs /\ j.at = "head" /\ j.op = o /\ j.head = 0
      BY <1>2, ResumedJob
    <2> HIDE DEF j
    <2>6. ~ Begins(j) /\ j.at \notin Resumed /\ j.at \notin {"append", "prepare"}
      BY <1>2, <2>5, NoneAssumption DEF Begins, Resumed
    <2>7. 0 <= Len(ledger')
      BY <2>3
    <2>8. job' = [job EXCEPT ![w] = j]
      BY <1>4 DEF j
    <2>9. db' \in Dbs /\ ticket' \in [Operations -> Tickets \cup {None}] /\ issued' = issued
      BY <1>1, <1>4 DEF Typed
    <2>10. \A p \in Operations : p = job[w].op \/ ticket[p] # None \/ ticket'[p] = None
      BY <1>4
    <2> QED BY <2>3, <2>4, <2>5, <2>6, <2>7, <2>8, <2>9, <2>10, LoudWorker
  <1> QED BY <1>3, <1>4 DEF AppendPrepared

(* The new scopes of a ticket are those of sessions that are still there.  *)
LEMMA DisableEvolves ==
    ASSUME IInv, NEW o \in Intents(Len(ledger)), Keeps(issued, db, db'),
           PrepareTicket(o, ticket[o].scopes \cup SessionsOf(Target(o))),
           UNCHANGED <<issued, ledger, dead>>
    PROVE  /\ Evolves /\ LedgerFits' /\ ledger' \in Seq(Entries)
           /\ ticket' \in [Operations -> Tickets \cup {None}]
           /\ \A p \in Operations \ {o} : ticket'[p] = ticket[p]
           /\ ticket'[o] # None /\ ticket[o] # None
  <1> DEFINE scopes == ticket[o].scopes \cup SessionsOf(Target(o))
  <1>1. /\ Typed /\ LedgerFits /\ o \in Operations /\ ticket[o] # None /\ ticket[o] \in Tickets
        /\ Target(o) \in Actors
    BY TargetIsKnown DEF IInv, Typed
  <1>2. scopes \in SUBSET (Actors \cup Sessions)
    BY <1>1 DEF Tickets, SessionsOf
  <1>3. Out(db, Target(o)) => scopes \subseteq ticket[o].scopes
    BY DEF Out, SessionsOf
  <1>4. PrepareTicket(o, scopes)
    OBVIOUS
  <1> HIDE DEF scopes
  <1>5. /\ ticket' \in [Operations -> Tickets \cup {None}]
        /\ \A p \in Operations \ {o} : ticket'[p] = ticket[p]
        /\ ticket'[o] # None
        /\ scopes \subseteq ticket[o].scopes =>
              ticket'[o].done = ticket[o].done /\ ticket'[o].scopes = ticket[o].scopes
    BY <1>1, <1>2, <1>4, TicketPrepared
  <1>6. Out(db, Target(o)) /\ Destroyed(o) => Destroyed(o)'
    BY <1>3, <1>5 DEF Destroyed
  <1>7. Evolves
    BY <1>1, <1>5, <1>6, RegistryEvolves
  <1>8. LedgerFits' /\ ledger' \in Seq(Entries)
    BY <1>1, <1>5, LedgerStays
  <1> QED BY <1>1, <1>5, <1>7, <1>8

LEMMA DisableStep ==
    ASSUME IInv, NEW w \in Workers, Disable(w), UNCHANGED restoreVars
    PROVE  IInv'
  <1> DEFINE o == job[w].op
             scopes == ticket[o].scopes \cup SessionsOf(Target(o))
             step == "remove"
             j1 == [job[w] EXCEPT !.at = step]
             j == [j1 EXCEPT !.scopes = scopes]
  <1>1. /\ Typed /\ LedgerFits /\ job[w] \in Jobs /\ job \in [Workers -> Jobs] /\ JobFits(w)
        /\ At(w, "disable")
    BY DEF IInv, Typed, Disable, JobsFit
  <1>2. o \in Intents(Len(ledger)) /\ job[w].head <= Len(ledger)
    BY <1>1 DEF JobFits, Resumed, At
  <1>3. CASE Fails(w)
    BY <1>3, FailedCall
  <1>4. CASE ~ Fails(w)
    <2>1. /\ PrepareTicket(o, scopes) /\ db' = Disabled(o)
          /\ job' = [job EXCEPT ![w].at = "remove", ![w].scopes = scopes]
          /\ UNCHANGED <<issued, dead, ledger>>
      BY <1>4 DEF Disable
    <2>2. db' \in Dbs /\ Keeps(issued, db, db')
      BY <1>1, <2>1, DisabledKeeps DEF Typed
    <2>3. /\ Evolves /\ LedgerFits' /\ ledger' \in Seq(Entries)
          /\ ticket' \in [Operations -> Tickets \cup {None}]
          /\ \A p \in Operations \ {o} : ticket'[p] = ticket[p]
      BY <1>2, <2>1, <2>2, DisableEvolves
    <2>4. scopes \in SUBSET (Actors \cup Sessions)
      BY <1>1, <1>2, TargetIsKnown DEF Tickets, SessionsOf, Typed
    <2> HIDE DEF scopes
    <2>5. job' = [job EXCEPT ![w] = j]
      BY <1>1, <2>1 DEF Jobs
    <2>6. j1 \in Jobs /\ j1.at = step /\ j1.op = o /\ j1.head = job[w].head
      BY <1>1, JobMoves DEF Steps
    <2> HIDE DEF j1
    <2>7. j \in Jobs /\ j.at = step /\ j.op = o /\ j.head = job[w].head
      BY <2>4, <2>6 DEF Jobs
    <2> HIDE DEF j
    <2>8. ~ Begins(j) /\ j.at \notin {"prepare", "append"}
      BY <2>7 DEF Begins
    <2>9. Intents(Len(ledger))' = Intents(Len(ledger)) /\ j.head <= Len(ledger')
      BY <1>2, <2>1, <2>7 DEF Intents, Deletions
    <2>10. \A p \in Operations : p = job[w].op \/ ticket[p] # None \/ ticket'[p] = None
      BY <2>3
    <2> QED BY <1>2, <2>1, <2>2, <2>3, <2>5, <2>7, <2>8, <2>9, <2>10, LoudWorker
  <1> QED BY <1>3, <1>4

LEMMA RolledBackStep ==
    ASSUME IInv, NEW w \in Workers, DisableRolledBack(w), UNCHANGED restoreVars
    PROVE  IInv'
  <1> DEFINE o == job[w].op
  <1>1. Typed /\ LedgerFits /\ JobFits(w) /\ At(w, "disable")
    BY DEF IInv, DisableRolledBack, JobsFit
  <1>2. o \in Intents(Len(ledger))
    BY <1>1 DEF JobFits, Resumed, At
  <1>3. db' \in Dbs /\ Keeps(issued, db, db')
    BY <1>1, QuarantinedKeeps, KeepsItself DEF DisableRolledBack, Typed
  <1>4. /\ PrepareTicket(o, ticket[o].scopes \cup SessionsOf(Target(o)))
        /\ UNCHANGED <<issued, dead, ledger>> /\ job' = [job EXCEPT ![w] = Idle]
    BY DEF DisableRolledBack, Return
  <1>5. /\ Evolves /\ LedgerFits' /\ ledger' \in Seq(Entries)
        /\ ticket' \in [Operations -> Tickets \cup {None}]
        /\ \A p \in Operations \ {o} : ticket'[p] = ticket[p]
    BY <1>2, <1>3, <1>4, DisableEvolves
  <1>6. Idle.head <= Len(ledger') /\ ~ Begins(Idle) /\ Idle.at \notin Resumed \cup {"prepare", "append"}
    BY <1>5, IdleJob DEF Begins, Resumed
  <1>7. \A p \in Operations : p = job[w].op \/ ticket[p] # None \/ ticket'[p] = None
    BY <1>5
  <1> QED BY <1>3, <1>4, <1>5, <1>6, <1>7, IdleJob, LoudWorker

LEMMA DestroyStep ==
    ASSUME IInv, NEW w \in Workers, Destroy(w), UNCHANGED restoreVars
    PROVE  IInv'
  <1> DEFINE step == "verify"
             j == [job[w] EXCEPT !.at = step]
  <1>1. Typed /\ LedgerFits /\ job[w] \in Jobs /\ JobFits(w) /\ At(w, "destroy")
    BY DEF IInv, Typed, Destroy, JobsFit
  <1>1a. PICK o \in Intents(Len(ledger)) : o = job[w].op
    BY <1>1 DEF JobFits, Resumed, At
  <1>2. job[w].head <= Len(ledger) /\ o \in Operations /\ ticket[o] # None
    BY <1>1, TargetIsKnown DEF JobFits, Typed
  <1>3. CASE Fails(w)
    BY <1>3, FailedCall
  <1>4. CASE ~ Fails(w)
    <2>1. DestroyTicket(o) /\ Goto(w, step) /\ UNCHANGED <<db, issued, ledger>>
      BY <1>4, <1>1a DEF Destroy
    <2>2. /\ ticket' \in [Operations -> Tickets \cup {None}]
          /\ \A p \in Operations \ {o} : ticket'[p] = ticket[p]
          /\ ticket'[o] # None
          /\ Destroyed(o)' /\ dead \subseteq dead'
      BY <1>1, <1>2, <2>1, TicketDestroyed
    <2>3. db' \in Dbs /\ Keeps(issued, db, db')
      BY <1>1, <2>1, KeepsItself DEF Typed
    <2>4. Evolves
      BY <1>1, <1>2, <2>1, <2>2, <2>3, RegistryEvolves DEF Destroyed
    <2>5. LedgerFits' /\ ledger' \in Seq(Entries) /\ Intents(Len(ledger))' = Intents(Len(ledger))
      BY <1>1, <2>1, <2>2, LedgerStays
    <2>6. /\ j \in Jobs /\ j.at = step /\ j.op = o /\ j.head = job[w].head
          /\ job' = [job EXCEPT ![w] = j]
      BY <1>1, <1>1a, <2>1, JobMoves DEF Steps, Goto
    <2>7. ~ Begins(j) /\ j.at \notin {"prepare", "append"}
      BY <2>6 DEF Begins
    <2> HIDE DEF j
    <2>8. \A p \in Operations : p = job[w].op \/ ticket[p] # None \/ ticket'[p] = None
      BY <2>2, <1>1a
    <2>9. j.op \in {job[w].op, None} /\ j.head <= Len(ledger')
      BY <1>2, <1>1a, <2>1, <2>6
    <2> QED BY <1>1a, <1>2, <2>1, <2>2, <2>3, <2>4, <2>5, <2>6, <2>7, <2>8, <2>9, LoudWorker
  <1> QED BY <1>3, <1>4

LEMMA FinishStep ==
    ASSUME IInv, NEW w \in Workers, Finish(w), UNCHANGED restoreVars
    PROVE  IInv'
  <1> DEFINE o == job[w].op
             step == "complete"
             e == [kind |-> "deletion", op |-> o, actor |-> Target(o), state |-> "complete"]
             j == [job[w] EXCEPT !.at = step]
  <1>1. Typed /\ LedgerFits /\ job[w] \in Jobs /\ JobFits(w) /\ At(w, "finish")
    BY DEF IInv, Typed, Finish, JobsFit
  <1>2. /\ o \in Intents(Len(ledger)) /\ job[w].head <= Len(ledger) /\ job[w].at \in Resumed
        /\ step \in Resumed
        /\ o \in Operations /\ ticket[o] # None /\ Target(o) \in Actors \cap issued
    BY <1>1, TargetIsKnown DEF JobFits, Resumed, At, Typed
  <1>3. CASE Fails(w)
    BY <1>3, FailedCall
  <1>4. CASE Goto(w, step) /\ UnchangedRecords
    <2>1. Silent /\ db' \in Dbs /\ Keeps(issued, db, db')
      BY <1>1, <1>4, KeepsItself DEF Typed, UnchangedRecords, recordVars, Silent
    <2> HIDE DEF step
    <2> QED BY <1>2, <1>4, <2>1, ResumedGoesOn
  <1>5. CASE /\ ledger' = Append(ledger, e) /\ Goto(w, step)
             /\ UNCHANGED <<db, issued, ticket, credential, dead, deadline, told>>
    <2>1. e \in Entries /\ e.kind = "deletion" /\ e.op = o /\ e.actor = Target(o)
      BY <1>2 DEF Entries
    <2> HIDE DEF e
    <2>2. /\ LedgerFits' /\ Extends(ledger, ledger') /\ ledger' \in Seq(Entries)
          /\ Len(ledger') = Len(ledger) + 1
          /\ o \in Intents(Len(ledger))'
      BY <1>1, <1>2, <1>5, <2>1, EntryAppended
    <2>3. Evolves
      BY <1>5, <2>2, KeepsItself DEF Evolves, Destroyed
    <2>4. /\ j \in Jobs /\ j.at = step /\ j.op = o /\ j.head = job[w].head
          /\ job' = [job EXCEPT ![w] = j]
      BY <1>1, <1>5, JobMoves DEF Steps, Goto
    <2>5. ~ Begins(j) /\ j.at \notin {"prepare", "append"}
      BY <2>4 DEF Begins
    <2> HIDE DEF j
    <2>6. j.head <= Len(ledger')
      BY <1>1, <1>2, <2>2, <2>4 DEF Typed, Jobs
    <2>7. db' \in Dbs /\ ticket' \in [Operations -> Tickets \cup {None}] /\ issued' = issued
      BY <1>1, <1>5 DEF Typed
    <2>8. \A p \in Operations : p = job[w].op \/ ticket[p] # None \/ ticket'[p] = None
      BY <1>5
    <2> QED BY <2>2, <2>3, <2>4, <2>5, <2>6, <2>7, <2>8, LoudWorker
  <1> QED BY <1>3, <1>4, <1>5 DEF Finish

LEMMA WorkersKeep ==
    ASSUME IInv, WorkerNext, UNCHANGED restoreVars
    PROVE  IInv'
  <1>1. PICK w \in Workers :
           \/ Advance(w)
           \/ DisableRolledBack(w) \/ Stop(w) \/ Crash(w)
           \/ \E a \in Actors : Begin(w, a)
           \/ \E o \in Operations : Resume(w, o)
    BY DEF WorkerNext
  <1>2. CASE \E a \in Actors : Begin(w, a)
    BY <1>2, BeginStep
  <1>3. CASE \E o \in Operations : Resume(w, o)
    BY <1>3, ResumeStep DEF Resume
  <1>4. CASE DisableRolledBack(w) \/ Stop(w) \/ Crash(w)
    BY <1>4, RolledBackStep, StopStep
  <1>5. CASE ReadHead(w) \/ Reconcile(w) \/ Match(w) \/ Plan(w) \/ Prepare(w) \/ AppendPrepared(w)
    BY <1>5, ReadHeadStep, ReconcileStep, MatchStep, PlanStep, PrepareStep, AppendStep
  <1>6. CASE Lookup(w) \/ Disable(w) \/ Remove(w) \/ Absent(w) \/ Destroy(w) \/ Verify(w)
    BY <1>6, LookupStep, DisableStep, RemoveStep, CheckingSteps, DestroyStep
  <1>7. CASE Latest(w) \/ Finish(w) \/ Complete(w) \/ Report(w)
    BY <1>7, LatestStep, FinishStep, CompleteStep, ReportStep
  <1> QED BY <1>1, <1>2, <1>3, <1>4, <1>5, <1>6, <1>7 DEF Advance

-----------------------------------------------------------------------------
(* The users and the cleanup of sessions                                   *)

LEMMA RowsChange ==
    ASSUME IInv, UNCHANGED <<ticket, ledger, job, restoreVars>>, issued \subseteq issued',
           issued' \subseteq Actors \cup Sessions, dead \subseteq dead',
           db' \in Dbs, Keeps(issued, db, db')
    PROVE  IInv'
  <1>1. Typed /\ LedgerFits /\ JobsFit
    BY DEF IInv
  <1>2. Extends(ledger, ledger')
    BY <1>1 DEF Typed, Extends
  <1>3. \A o \in Intents(Len(ledger)) : Destroyed(o) => Destroyed(o)'
    BY DEF Destroyed
  <1>4. Evolves
    BY <1>2, <1>3 DEF Evolves
  <1>5. Typed'
    BY <1>1 DEF Typed, restoreVars
  <1>6. LedgerFits'
    BY <1>1 DEF LedgerFits, Deletions
  <1>7. JobsFit'
    BY <1>1, <1>4, <1>5, <1>6, JobsUndisturbed
  <1> QED BY <1>4, <1>5, <1>6, <1>7, Beside DEF restoreVars

LEMMA CleanupKeeps ==
    ASSUME IInv, CleanupNext, UNCHANGED restoreVars
    PROVE  IInv'
  <1>1. PICK s \in Sessions : DeleteExpired(s) \/ CheckAbsent(s) \/ DestroyCredential(s) \/ SealOverdue(s)
    BY DEF CleanupNext
  <1>2. db \in Dbs /\ issued \subseteq Actors \cup Sessions
    BY DEF IInv, Typed
  <1>3. UNCHANGED <<ticket, ledger, job, issued>> /\ dead \subseteq dead'
    BY <1>1 DEF DeleteExpired, CheckAbsent, DestroyCredential, SealOverdue, deletionVars
  <1>4. db' \in {db, Quarantined(db), WithoutSessions(db, {s})}
    BY <1>1 DEF DeleteExpired, CheckAbsent, DestroyCredential, SealOverdue
  <1>5. db' \in Dbs /\ Keeps(issued, db, db')
    BY <1>2, <1>4, KeepsItself, QuarantinedKeeps, WithoutSessionsKeeps
  <1> QED BY <1>2, <1>3, <1>5, RowsChange

(* An identifier is given out once, so whoever logs in for the first time  *)
(* is nobody who was out, and a session is only opened for an active actor. *)
LEMMA UsersKeep ==
    ASSUME IInv, UserNext, UNCHANGED restoreVars
    PROVE  IInv'
  <1>1. db \in Dbs /\ issued \subseteq Actors \cup Sessions
    BY DEF IInv, Typed
  <1>2. CASE \E a \in Actors : FirstLogin(a)
    <2>1. PICK a \in Actors : FirstLogin(a)
      BY <1>2
    <2> DEFINE act == [db.actor EXCEPT ![a] = "active"]
               e == [db EXCEPT !.actor = act, !.identity = db.identity \cup {a}]
    <2>2. db' = e /\ a \notin issued /\ issued' = issued \cup {a}
      BY <2>1 DEF FirstLogin
    <2>3. act \in [Actors -> ActorStates] /\ \A b \in Actors \ {a} : act[b] = db.actor[b]
      BY <1>1 DEF Dbs, ActorStates
    <2> HIDE DEF act
    <2>4. /\ e.actor = act /\ e.identity = db.identity \cup {a}
          /\ e.session = db.session /\ e.intent = db.intent
      BY <1>1 DEF Dbs
    <2>5. e \in Dbs
      BY <1>1, <2>3 DEF Dbs
    <2> HIDE DEF e
    <2>6. Keeps(issued, db, e)
      BY <2>2, <2>3, <2>4 DEF Keeps, Out
    <2>7. UNCHANGED <<ticket, ledger, job, dead>>
      BY <2>1 DEF FirstLogin, DbOnly, deletionVars
    <2> QED BY <1>1, <2>2, <2>5, <2>6, <2>7, RowsChange
  <1>3. CASE \E a \in Actors, s \in Sessions : Login(a, s)
    <2>1. PICK a \in Actors, s \in Sessions : Login(a, s)
      BY <1>3
    <2> DEFINE row == [owner |-> a, state |-> "active"]
               f == [db.session EXCEPT ![s] = row]
               e == [db EXCEPT !.session = f]
    <2>2. db' = e /\ s \notin issued /\ issued' = issued \cup {s} /\ db.actor[a] = "active"
      BY <2>1 DEF Login
    <2>3. row \in SessionRows /\ row.owner = a
      BY DEF SessionRows
    <2> HIDE DEF row
    <2>4. /\ f \in [Sessions -> SessionRows \cup {None}] /\ f[s].owner = a
          /\ \A r \in Sessions \ {s} : f[r] = db.session[r]
      BY <1>1, <2>3 DEF Dbs
    <2> HIDE DEF f
    <2>5. e \in Dbs
      BY <1>1, <2>4 DEF Dbs
    <2>6. /\ e.actor = db.actor /\ e.identity = db.identity
          /\ e.session = f /\ e.intent = db.intent
      BY <1>1 DEF Dbs
    <2> HIDE DEF e
    <2>7. Keeps(issued, db, e)
      BY <2>2, <2>4, <2>6 DEF Keeps, Out
    <2>8. UNCHANGED <<ticket, ledger, job, dead>>
      BY <2>1 DEF Login, DbOnly, deletionVars
    <2> QED BY <1>1, <2>2, <2>5, <2>7, <2>8, RowsChange
  <1>4. CASE \E s \in Sessions : EndSession(s)
    <2>1. PICK s \in Sessions : EndSession(s)
      BY <1>4
    <2>2. db.session[s] # None /\ db.session[s] \in SessionRows
      BY <1>1, <2>1 DEF EndSession, Dbs
    <2>3. PICK st \in {"due", "revoked"} : db' = [db EXCEPT !.session[s].state = st]
      BY <2>1 DEF EndSession
    <2> DEFINE row == [db.session[s] EXCEPT !.state = st]
               f == [db.session EXCEPT ![s] = row]
               e == [db EXCEPT !.session = f]
    <2>4. row \in SessionRows /\ row.owner = db.session[s].owner
      BY <2>2, <2>3 DEF SessionRows
    <2>5. db' = e
      BY <2>3
    <2> HIDE DEF row
    <2>6. /\ f \in [Sessions -> SessionRows \cup {None}] /\ f[s].owner = db.session[s].owner
          /\ \A r \in Sessions \ {s} : f[r] = db.session[r]
      BY <1>1, <2>4 DEF Dbs
    <2> HIDE DEF f
    <2>7. e \in Dbs
      BY <1>1, <2>6 DEF Dbs
    <2>8. /\ e.actor = db.actor /\ e.identity = db.identity
          /\ e.session = f /\ e.intent = db.intent
      BY <1>1 DEF Dbs
    <2> HIDE DEF e
    <2>9. Keeps(issued, db, e)
      BY <2>2, <2>6, <2>8 DEF Keeps, Out
    <2>10. UNCHANGED <<ticket, ledger, job, dead, issued>>
      BY <2>1 DEF EndSession, DbOnly, deletionVars
    <2> QED BY <1>1, <2>5, <2>7, <2>9, <2>10, RowsChange
  <1> QED BY <1>2, <1>3, <1>4 DEF UserNext

-----------------------------------------------------------------------------
(* A step of the run                                                       *)

Moves ==
    /\ UNCHANGED <<issued, job, backup, appliedAt, stale>>
    /\ db' \in Dbs /\ ticket' \in [Operations -> Tickets \cup {None}] /\ ledger' \in Seq(Entries)
    /\ \A o \in Operations : ticket[o] = None => ticket'[o] = None
    /\ Evolves /\ LedgerFits'
    /\ traffic' \in {traffic, "closed"}
    /\ run' \in Runs /\ run'.head <= Len(ledger') /\ run'.initial <= Len(ledger')

Early == {"idle", "isolate", "latest", "tickets", "reconcile"}

LEMMA RunIsTyped ==
    ASSUME IInv, Moves
    PROVE  Typed' /\ JobsFit'
  <1>1. Typed /\ LedgerFits /\ JobsFit
    BY DEF IInv
  <1>2. appliedAt' \in 0..Len(ledger')
    BY <1>1 DEF Typed, Moves, Evolves, Extends
  <1>3. Typed'
    BY <1>1, <1>2 DEF Typed, Moves
  <1> QED BY <1>1, <1>3, JobsUndisturbed DEF Moves

LEMMA RunKeeps ==
    ASSUME IInv, Moves, RunFits', stale # {}, run'.at \in Discarded => run.at \in Discarded
    PROVE  IInv'
  <1>1. Typed' /\ JobsFit'
    BY RunIsTyped
  <1>2. OpeningFits'
    BY <1>1, OpeningStays DEF IInv, Moves
  <1>3. BackupComesFirst'
    BY DEF BackupComesFirst, Moves
  <1> QED BY <1>1, <1>2, <1>3 DEF IInv, Moves

(* Before the deletions are applied nothing is asked of the run, and once  *)
(* they are nothing takes them back.                                       *)
LEMMA RunEarly ==
    ASSUME IInv, Moves, stale # {}, run'.at \in Early
    PROVE  IInv'
  <1>1. RunFits' /\ run'.at \notin Discarded
    BY DEF RunFits, Early, Applying, Applied, Discarded
  <1> QED BY <1>1, RunKeeps

LEMMA RunLate ==
    ASSUME IInv, Moves, run.at \in Applied, run'.at \in Applied, run'.initial = run.initial,
           run'.at \in Discarded => run.at \in Discarded
    PROVE  IInv'
  <1>1. Typed /\ LedgerFits /\ run.initial \in 0..Len(ledger)
    BY DEF IInv, Typed, Runs
  <1>2. Typed' /\ Evolves /\ LedgerFits'
    BY RunIsTyped DEF Moves
  <1>3. Intents(run.initial)' = Intents(run.initial)
    BY <1>1, <1>2, IntentsStay DEF Evolves
  <1>4. \A o \in Intents(run.initial) : Whole(o)'
    BY <1>1, <1>2, WholeStays DEF IInv, RunFits
  <1>5. run'.at \notin Applying /\ run'.at # "destroy"
    BY DEF Applying, Applied, Discarded
  <1>6. RunFits'
    BY <1>3, <1>4, <1>5 DEF RunFits
  <1>7. stale # {}
    BY DEF IInv, BackupComesFirst, Applied, Discarded
  <1> QED BY <1>6, <1>7, RunKeeps

LEMMA SilentRun ==
    ASSUME IInv, Silent, UNCHANGED <<job, backup, appliedAt, stale>>, db' \in Dbs, Keeps(issued, db, db'),
           traffic' \in {traffic, "closed"},
           run' \in Runs, run'.head <= Len(ledger), run'.initial <= Len(ledger)
    PROVE  Moves
  <1>1. Evolves /\ LedgerFits'
    BY SilentlyEvolves DEF IInv
  <1> QED BY <1>1 DEF Moves, Silent, IInv, Typed

LEMMA OnlyRun ==
    ASSUME IInv, RunOnly, run' \in Runs, run'.head <= Len(ledger), run'.initial <= Len(ledger)
    PROVE  Moves
  <1>1. Silent /\ db' = db /\ UNCHANGED <<job, backup, appliedAt, stale>> /\ traffic' = traffic
    BY DEF RunOnly, vars, recordVars, deletionVars, Silent
  <1>2. db' \in Dbs /\ Keeps(issued, db, db')
    BY <1>1, KeepsItself DEF IInv, Typed
  <1> QED BY <1>1, <1>2, SilentRun

LEMMA IdleRun == NoRun \in Runs /\ NoRun.at = "idle" /\ NoRun.head = 0 /\ NoRun.initial = 0
  BY DEF NoRun, Runs, RunSteps

LEMMA FailedRun ==
    ASSUME IInv, RunFails, stale # {}
    PROVE  IInv'
  <1>1. Silent /\ UNCHANGED <<job, backup, appliedAt, stale>> /\ traffic' = "closed" /\ run' = NoRun
    BY DEF RunFails, deletionVars, Silent
  <1>2. db' \in Dbs /\ Keeps(issued, db, db')
    BY QuarantinedKeeps DEF RunFails, IInv, Typed
  <1>3. 0 <= Len(ledger)
    BY DEF IInv, Typed
  <1>4. Moves
    BY <1>1, <1>2, <1>3, IdleRun, SilentRun
  <1> QED BY <1>1, <1>4, IdleRun, RunEarly DEF Early

(* The moves of the run itself.                                            *)
LEMMA RunMoves ==
    ASSUME NEW r \in Runs, NEW at \in RunSteps
    PROVE  /\ [r EXCEPT !.at = at] \in Runs
           /\ [r EXCEPT !.at = at].at = at
           /\ [r EXCEPT !.at = at].head = r.head /\ [r EXCEPT !.at = at].initial = r.initial
           /\ [r EXCEPT !.at = at].todo = r.todo /\ [r EXCEPT !.at = at].op = r.op
           /\ [r EXCEPT !.at = at].state = r.state
  BY DEF Runs

LEMMA StepMoves ==
    ASSUME IInv, NEW from, NEW to \in RunSteps, Step(from, to)
    PROVE  /\ run.at = from /\ run' \in Runs /\ run'.at = to
           /\ run'.head = run.head /\ run'.initial = run.initial
           /\ run'.todo = run.todo /\ run'.op = run.op /\ run'.state = run.state
           /\ run.head <= Len(ledger) /\ run.initial <= Len(ledger)
  BY RunMoves DEF IInv, Typed, Step

LEMMA RunReads ==
    ASSUME NEW r \in Runs, NEW at \in RunSteps, NEW h \in Nat
    PROVE  /\ [r EXCEPT !.at = at, !.head = h] \in Runs
           /\ [r EXCEPT !.at = at, !.head = h].at = at
           /\ [r EXCEPT !.at = at, !.head = h].head = h
           /\ [r EXCEPT !.at = at, !.head = h].initial = r.initial
           /\ [r EXCEPT !.at = at, !.head = h].todo = r.todo
           /\ [r EXCEPT !.at = at, !.head = h].op = r.op
  BY DEF Runs

(* While a run is under way the backup is in place.                        *)
LEMMA RunFollowsBackup == ASSUME IInv, run.at # "idle" PROVE stale # {}
  BY DEF IInv, BackupComesFirst

LEMMA TakeBackupStep ==
    ASSUME IInv, TakeBackup
    PROVE  IInv'
  <1>1. /\ Typed /\ LedgerFits /\ JobsFit /\ Silent /\ job' = job /\ db' = db
        /\ UNCHANGED <<traffic, appliedAt, stale, run>> /\ backup'.db = db
    BY DEF IInv, TakeBackup, vars, recordVars, deletionVars, Silent
  <1>2. db' \in Dbs /\ Keeps(issued, db, db')
    BY <1>1, KeepsItself DEF Typed
  <1>3. Evolves /\ LedgerFits'
    BY <1>1, <1>2, SilentlyEvolves
  <1>4. Typed'
    BY <1>1, <1>2 DEF Typed, Silent
  <1>5. JobsFit'
    BY <1>1, <1>3, <1>4, JobsUndisturbed DEF Silent
  <1> QED BY <1>1, <1>3, <1>4, <1>5, Beside

(* The one step that brings rows back comes before any run and closes the  *)
(* traffic.                                                                *)
LEMMA PutBackupStep ==
    ASSUME IInv, PutBackup
    PROVE  IInv'
  <1>1. /\ Typed /\ LedgerFits /\ JobsFit /\ run.at = "idle" /\ appliedAt = 0
        /\ UNCHANGED <<issued, ticket, ledger, dead, job, backup, appliedAt, run>>
        /\ traffic' = "closed" /\ stale' = issued /\ issued # {} /\ db' \in Dbs
    BY DEF IInv, Typed, BackupComesFirst, PutBackup, deletionVars
  <1>2. Typed'
    BY <1>1 DEF Typed
  <1>3. LedgerFits'
    BY <1>1 DEF LedgerFits, Deletions
  <1>4. JobsFit'
    BY <1>1 DEF JobsFit, JobFits, Begins, At, Intents, Deletions
  <1>5. RunFits' /\ run'.at \notin Discarded
    BY <1>1 DEF RunFits, Applying, Applied, Discarded
  <1>6. OpeningFits'
    BY <1>1, <1>5 DEF OpeningFits, Intents, Deletions
  <1>7. BackupComesFirst'
    BY <1>1 DEF BackupComesFirst
  <1> QED BY <1>2, <1>3, <1>4, <1>5, <1>6, <1>7 DEF IInv

LEMMA StartStep ==
    ASSUME IInv, Start
    PROVE  IInv'
  <1> DEFINE from == "idle"
             to == "isolate"
  <1>1. RunOnly /\ Step(from, to) /\ to \in RunSteps /\ to \in Early
    BY DEF Start, RunSteps, Early
  <1>2. stale # {}
    BY DEF Start, IInv, BackupComesFirst
  <1> HIDE DEF from, to
  <1>3. run' \in Runs /\ run'.at = to /\ run'.head <= Len(ledger) /\ run'.initial <= Len(ledger)
    BY <1>1, StepMoves
  <1> QED BY <1>1, <1>2, <1>3, OnlyRun, RunEarly

LEMMA IsolateStep ==
    ASSUME IInv, Isolate
    PROVE  IInv'
  <1> DEFINE from == "isolate"
             to == "latest"
             s == "restoring"
  <1>1. /\ Step(from, to) /\ to \in RunSteps /\ to \in Early /\ from # "idle" /\ s \in Statuses
        /\ db' = [db EXCEPT !.status = s] /\ Silent
        /\ UNCHANGED <<job, backup, appliedAt, stale, traffic>>
    BY DEF Isolate, RunSteps, Early, DbAnd, deletionVars, Statuses, Silent
  <1> HIDE DEF from, to, s
  <1>2. /\ run.at = from /\ run' \in Runs /\ run'.at = to
        /\ run'.head <= Len(ledger) /\ run'.initial <= Len(ledger)
    BY <1>1, StepMoves
  <1>3. db' \in Dbs /\ Keeps(issued, db, db')
    BY <1>1, StatusKeeps DEF IInv, Typed
  <1>4. Moves
    BY <1>1, <1>2, <1>3, SilentRun
  <1> QED BY <1>1, <1>2, <1>4, RunEarly, RunFollowsBackup

LEMMA LatestHeadStep ==
    ASSUME IInv, LatestHead
    PROVE  IInv'
  <1>1. stale # {}
    BY RunFollowsBackup DEF LatestHead
  <1>2. CASE RunFails
    BY <1>1, <1>2, FailedRun
  <1>3. CASE run' = [run EXCEPT !.at = "tickets", !.head = Len(ledger)] /\ RunOnly
    <2> DEFINE at == "tickets"
    <2>1. /\ run \in Runs /\ Len(ledger) \in Nat /\ run.initial <= Len(ledger)
          /\ at \in RunSteps /\ at \in Early
          /\ run' = [run EXCEPT !.at = at, !.head = Len(ledger)]
      BY <1>3 DEF IInv, Typed, RunSteps, Early
    <2> HIDE DEF at
    <2>2. run' \in Runs /\ run'.at = at /\ run'.head = Len(ledger) /\ run'.initial = run.initial
      BY <2>1, RunReads
    <2> QED BY <1>1, <1>3, <2>1, <2>2, OnlyRun, RunEarly
  <1> QED BY <1>2, <1>3 DEF LatestHead

(* A step of the run alone that stays early, or after the deletions.       *)
LEMMA QuietStep ==
    ASSUME IInv, RunOnly, NEW from \in RunSteps \ {"idle"}, NEW to \in RunSteps, Step(from, to),
           to \in Early \/ (from \in Applied /\ to \in Applied),
           to \in Discarded => from \in Discarded
    PROVE  IInv'
  <1>1. /\ run.at = from /\ run' \in Runs /\ run'.at = to /\ run'.initial = run.initial
        /\ run'.head <= Len(ledger) /\ run'.initial <= Len(ledger)
    BY StepMoves
  <1>2. Moves /\ stale # {}
    BY <1>1, OnlyRun, RunFollowsBackup
  <1> QED BY <1>1, <1>2, RunEarly, RunLate

LEMMA CheckTicketsStep ==
    ASSUME IInv, CheckActorTickets
    PROVE  IInv'
  <1>1. stale # {}
    BY RunFollowsBackup DEF CheckActorTickets
  <1>2. CASE RunFails
    BY <1>1, <1>2, FailedRun
  <1>3. CASE Step("tickets", "reconcile") /\ RunOnly
    <2> DEFINE from == "tickets"
               to == "reconcile"
    <2>1. from \in RunSteps \ {"idle"} /\ to \in RunSteps /\ to \in Early /\ to \notin Discarded
      BY DEF RunSteps, Early, Discarded
    <2>2. Step(from, to) /\ RunOnly
      BY <1>3
    <2> HIDE DEF from, to
    <2> QED BY <2>1, <2>2, QuietStep
  <1>4. CASE Step("recheck", "migrate") /\ RunOnly
    <2> DEFINE from == "recheck"
               to == "migrate"
    <2>1. from \in RunSteps \ {"idle"} /\ to \in RunSteps /\ {from, to} \subseteq Applied \cap Discarded
      BY DEF RunSteps, Applied, Discarded
    <2>2. Step(from, to) /\ RunOnly
      BY <1>4
    <2> HIDE DEF from, to
    <2> QED BY <2>1, <2>2, QuietStep
  <1> QED BY <1>2, <1>3, <1>4 DEF CheckActorTickets

(* The pass begins with every deletion of its head to be applied.          *)
LEMMA ReconcileIntentsStep ==
    ASSUME IInv, ReconcileIntents
    PROVE  IInv'
  <1>1. stale # {}
    BY RunFollowsBackup DEF ReconcileIntents
  <1>2. CASE RunFails
    BY <1>1, <1>2, FailedRun
  <1>3. CASE /\ run' = [run EXCEPT !.at = "apply", !.initial = run.head, !.todo = Intents(run.head),
                                   !.op = None]
             /\ RunOnly
    <2>1. Typed /\ LedgerFits /\ run \in Runs /\ run.head \in 0..Len(ledger)
      BY DEF IInv, Typed, Runs
    <2>2. Intents(run.head) \subseteq Operations
      BY <2>1, TargetIsKnown
    <2>3. run' \in Runs
      BY <1>3, <2>1, <2>2 DEF Runs, RunSteps
    <2>4. /\ run'.at = "apply" /\ run'.initial = run.head /\ run'.todo = Intents(run.head)
          /\ run'.op = None /\ run'.head = run.head
      BY <1>3, <2>1 DEF Runs
    <2>5. Moves /\ ledger' = ledger
      BY <1>3, <2>1, <2>3, <2>4, OnlyRun DEF RunOnly, vars, recordVars
    <2>6. Intents(run.initial)' = Intents(run.head)
      BY <2>4, <2>5 DEF Intents, Deletions
    <2>7. RunFits' /\ run'.at \notin Discarded
      BY <2>4, <2>6 DEF RunFits, Applying, Applied, Discarded
    <2> QED BY <1>1, <2>5, <2>7, RunKeeps
  <1> QED BY <1>2, <1>3 DEF ReconcileIntents

(* Within a pass: what was applied stays applied.                          *)
LEMMA PassStays ==
    ASSUME IInv, Moves, run'.initial = run.initial
    PROVE  /\ Intents(run.initial)' = Intents(run.initial)
           /\ \A o \in Intents(run.initial) :
                 /\ Whole(o) => Whole(o)'
                 /\ o \in Operations /\ Target(o)' = Target(o)
                 /\ Out(db, Target(o)) => Out(db, Target(o))'
                 /\ db.intent[o] = "complete" => db.intent[o]' = "complete"
  <1>1. Typed /\ LedgerFits /\ run.initial \in 0..Len(ledger)
    BY DEF IInv, Typed, Runs
  <1>2. Typed' /\ Evolves /\ LedgerFits'
    BY RunIsTyped DEF Moves
  <1>3. Intents(run.initial)' = Intents(run.initial)
    BY <1>1, <1>2, IntentsStay DEF Evolves
  <1> QED BY <1>1, <1>2, <1>3, WholeStays, TargetIsKnown

LEMMA PassGoesOn ==
    ASSUME IInv, Moves, run.at \in Applying, run'.at \in Applying \ {"destroy"},
           run'.initial = run.initial, run'.todo = run.todo,
           run'.op \in run.todo \/ (run'.op = None /\ run'.at = "apply")
    PROVE  IInv'
  <1>1. /\ Intents(run.initial)' = Intents(run.initial)
        /\ \A o \in Intents(run.initial) : Whole(o) => Whole(o)'
    BY PassStays
  <1>2. run'.at \notin Applied /\ run'.at \notin Discarded /\ run'.at # "destroy" /\ run.at # "idle"
    BY DEF Applying, Applied, Discarded
  <1>3. RunFits'
    BY <1>1, <1>2 DEF IInv, RunFits
  <1> QED BY <1>2, <1>3, RunKeeps, RunFollowsBackup

LEMMA TakeIntentStep ==
    ASSUME IInv, TakeIntent
    PROVE  IInv'
  <1>1. run.at = "apply" /\ run.op = None /\ RunOnly /\ stale # {} /\ run.at \in Applying
    BY RunFollowsBackup DEF TakeIntent, Applying
  <1>2. CASE run.todo = {} /\ Step("apply", "discard")
    <2> DEFINE from == "apply"
               to == "discard"
    <2>1. Step(from, to) /\ to \in RunSteps /\ to \in Applied /\ to \notin Discarded /\ to \notin Applying
      BY <1>2 DEF RunSteps, Applied, Discarded, Applying
    <2> HIDE DEF from, to
    <2>2. /\ run' \in Runs /\ run'.at = to /\ run'.initial = run.initial
          /\ run'.head <= Len(ledger) /\ run'.initial <= Len(ledger)
      BY <2>1, StepMoves
    <2>3. Moves
      BY <1>1, <2>2, OnlyRun
    <2>4. /\ Intents(run.initial)' = Intents(run.initial)
          /\ \A o \in Intents(run.initial) : Whole(o) => Whole(o)'
      BY <2>2, <2>3, PassStays
    <2>5. \A o \in Intents(run.initial) : Whole(o)
      BY <1>1, <1>2 DEF IInv, RunFits
    <2>6. RunFits'
      BY <2>1, <2>2, <2>4, <2>5 DEF RunFits, Applied, Discarded
    <2> QED BY <1>1, <2>1, <2>2, <2>3, <2>6, RunKeeps
  <1>3. CASE \E o \in run.todo :
                /\ IsNextIntent(o)
                /\ run' = [run EXCEPT !.op = o, !.state = StateAt(run.initial, o)]
    <2>1. PICK o \in run.todo : run' = [run EXCEPT !.op = o, !.state = StateAt(run.initial, o)]
      BY <1>3
    <2>2. PICK st \in {"prepared", "complete"} : st = StateAt(run.initial, o)
      BY DEF StateAt
    <2>3. /\ run \in Runs /\ run' = [run EXCEPT !.op = o, !.state = st]
          /\ run.head <= Len(ledger) /\ run.initial <= Len(ledger)
      BY <2>1, <2>2 DEF IInv, Typed
    <2>4. run' \in Runs
      BY <2>3 DEF Runs
    <2>5. /\ run'.at = run.at /\ run'.op = o /\ run'.todo = run.todo /\ run'.initial = run.initial
          /\ run'.head = run.head
      BY <2>3 DEF Runs
    <2>6. Moves
      BY <1>1, <2>3, <2>4, <2>5, OnlyRun
    <2> QED BY <1>1, <2>5, <2>6, PassGoesOn
  <1> QED BY <1>2, <1>3 DEF TakeIntent

LEMMA RereadStep ==
    ASSUME IInv, Reread
    PROVE  IInv'
  <1> DEFINE at == "append"
  <1>1. /\ run' = [run EXCEPT !.at = at, !.head = Len(ledger)]
        /\ run \in Runs /\ Len(ledger) \in Nat /\ at \in RunSteps
    BY DEF Reread, IInv, Typed, RunSteps
  <1>2. at \in Applying \ {"destroy"} /\ run.at = "reread" /\ run.at \in Applying /\ RunOnly
    BY DEF Reread, Applying
  <1> HIDE DEF at
  <1>3. /\ run' \in Runs /\ run'.at = at /\ run'.head = Len(ledger) /\ run'.initial = run.initial
        /\ run'.todo = run.todo /\ run'.op = run.op
    BY <1>1 DEF Runs
  <1>4. run.initial <= Len(ledger) /\ Len(ledger) \in Nat
    BY DEF IInv, Typed
  <1>5. Moves
    BY <1>2, <1>3, <1>4, OnlyRun
  <1>6. run.op \in run.todo
    BY <1>2 DEF IInv, RunFits
  <1> QED BY <1>2, <1>3, <1>5, <1>6, PassGoesOn

LEMMA ReapplyStep ==
    ASSUME IInv, ReapplyDeletion
    PROVE  IInv'
  <1>1. run.at = "apply" /\ run.op # None /\ run.at \in Applying /\ stale # {}
    BY RunFollowsBackup DEF ReapplyDeletion, Applying
  <1>2. CASE RunFails
    BY <1>1, <1>2, FailedRun
  <1>3. CASE ~ RunFails
    <2>1. Typed /\ LedgerFits /\ run.initial \in 0..Len(ledger)
      BY DEF IInv, Typed, Runs
    <2>2. PICK o \in Intents(run.initial) : o = run.op
      BY <1>1 DEF IInv, RunFits
    <2>3. PICK st \in {"prepared", "complete"} : st = run.state
      BY <2>1 DEF Typed, Runs
    <2>4. /\ PrepareTicket(o, ticket[o].scopes \cup SessionsOf(Target(o))) /\ db' = Reapplied(o, st)
          /\ Step("apply", "destroy")
          /\ UNCHANGED <<issued, dead, ledger, job, backup, traffic, appliedAt, stale>>
      BY <1>3, <2>2, <2>3 DEF ReapplyDeletion, DbAnd, deletionVars
    <2>5. o \in Operations /\ Target(o) \in Actors /\ o \in Intents(Len(ledger))
      BY <2>1, TargetIsKnown
    <2>6. /\ db' \in Dbs /\ Keeps(issued, db, db')
          /\ Out(db', Target(o))
          /\ st = "complete" => db'.intent[o] = "complete"
      BY <2>1, <2>4, <2>5, ReappliedKeeps DEF Typed
    <2>7. /\ Evolves /\ LedgerFits' /\ ledger' \in Seq(Entries)
          /\ ticket' \in [Operations -> Tickets \cup {None}]
          /\ \A p \in Operations \ {o} : ticket'[p] = ticket[p]
          /\ ticket[o] # None
      BY <2>4, <2>5, <2>6, DisableEvolves
    <2>8. run' = [run EXCEPT !.at = "destroy"] /\ run \in Runs /\ run.head <= Len(ledger')
      BY <2>1, <2>4 DEF Step, Typed
    <2>9. run' \in Runs
      BY <2>8 DEF Runs, RunSteps
    <2>10. /\ run'.at = "destroy" /\ run'.initial = run.initial /\ run'.todo = run.todo
           /\ run'.op = o /\ run'.head = run.head /\ run'.state = st
      BY <2>2, <2>3, <2>8 DEF Runs
    <2>11. Moves
      <3>1. \A p \in Operations : ticket[p] = None => ticket'[p] = None
        BY <2>7
      <3>2. run'.head <= Len(ledger') /\ run'.initial <= Len(ledger')
        BY <2>1, <2>4, <2>8, <2>10
      <3> QED BY <2>4, <2>6, <2>7, <2>9, <3>1, <3>2 DEF Moves
    <2>12. /\ Intents(run.initial)' = Intents(run.initial)
           /\ \A p \in Intents(run.initial) : Whole(p) => Whole(p)'
           /\ Target(o)' = Target(o)
      BY <2>10, <2>11, PassStays
    <2>13. /\ run.todo \subseteq Intents(run.initial) /\ o \in run.todo
           /\ \A p \in Intents(run.initial) \ run.todo : Whole(p)
      BY <1>1, <2>2 DEF IInv, RunFits
    <2>14. Out(db, Target(run.op))'
      BY <2>6, <2>10, <2>12 DEF Target
    <2>15. RunFits'
      <3>1. run'.at \notin Applied
        BY <2>10 DEF Applied, Discarded
      <3>2. (run.state = "complete" => db.intent[run.op] = "complete")'
        BY <2>6, <2>10
      <3> QED BY <2>10, <2>12, <2>13, <2>14, <3>1, <3>2 DEF RunFits
    <2>16. run'.at \notin Discarded
      BY <2>10 DEF Discarded
    <2> QED BY <1>1, <2>11, <2>15, <2>16, RunKeeps
  <1> QED BY <1>2, <1>3

(* A deletion whose rows are gone, whose keys are destroyed and which the  *)
(* ledger has as complete is whole, and leaves the pass.                   *)
LEMMA DestroyReappliedStep ==
    ASSUME IInv, DestroyReapplied
    PROVE  IInv'
  <1>1. run.at = "destroy" /\ run.at \in Applying /\ stale # {}
    BY RunFollowsBackup DEF DestroyReapplied, Applying
  <1>2. CASE RunFails
    BY <1>1, <1>2, FailedRun
  <1>3. CASE ~ RunFails
    <2>1. Typed /\ LedgerFits /\ run.initial \in 0..Len(ledger) /\ run \in Runs
      BY DEF IInv, Typed, Runs
    <2>2. PICK o \in Intents(run.initial) : o = run.op /\ o \in run.todo
      BY <1>1 DEF IInv, RunFits
    <2>3. /\ DestroyTicket(o)
          /\ run' = IF run.state = "prepared" THEN [run EXCEPT !.at = "reread"]
                    ELSE [run EXCEPT !.at = "apply", !.todo = run.todo \ {o}, !.op = None]
          /\ UNCHANGED <<db, issued, ledger, job, backup, traffic, appliedAt, stale>>
      BY <1>3, <2>2 DEF DestroyReapplied, deletionVars
    <2>4. o \in Operations /\ o \in Intents(Len(ledger)) /\ ticket[o] # None
      BY <2>1, TargetIsKnown
    <2>5. /\ ticket' \in [Operations -> Tickets \cup {None}]
          /\ \A p \in Operations \ {o} : ticket'[p] = ticket[p]
          /\ ticket'[o] # None
          /\ Destroyed(o)' /\ dead \subseteq dead'
      BY <2>1, <2>3, <2>4, TicketDestroyed
    <2>6. db' \in Dbs /\ Keeps(issued, db, db')
      BY <2>1, <2>3, KeepsItself DEF Typed
    <2>7. Evolves
      BY <2>1, <2>3, <2>4, <2>5, <2>6, RegistryEvolves
    <2>8. LedgerFits' /\ ledger' \in Seq(Entries)
      BY <2>1, <2>3, <2>5, LedgerStays
    <2>9. run' \in Runs
      BY <2>1, <2>3 DEF Runs, RunSteps
    <2>10. run'.initial = run.initial /\ run'.head = run.head
      BY <2>1, <2>3 DEF Runs
    <2>11. Moves
      <3>1. \A p \in Operations : ticket[p] = None => ticket'[p] = None
        BY <2>4, <2>5
      <3>2. run'.head <= Len(ledger') /\ run'.initial <= Len(ledger')
        BY <2>1, <2>3, <2>10 DEF Typed
      <3> QED BY <2>3, <2>5, <2>6, <2>7, <2>8, <2>9, <3>1, <3>2 DEF Moves
    <2>12. CASE run.state = "prepared"
      <3>1. run' = [run EXCEPT !.at = "reread"]
        BY <2>3, <2>12
      <3>2. run'.at = "reread" /\ run'.todo = run.todo /\ run'.op = o
        BY <2>1, <2>2, <3>1 DEF Runs
      <3>3. run'.at \in Applying \ {"destroy"}
        BY <3>2 DEF Applying
      <3> QED BY <1>1, <2>2, <2>10, <2>11, <3>2, <3>3, PassGoesOn
    <2>13. CASE run.state # "prepared"
      <3>1. run' = [run EXCEPT !.at = "apply", !.todo = run.todo \ {o}, !.op = None]
        BY <2>3, <2>13
      <3>2. run'.at = "apply" /\ run'.todo = run.todo \ {o} /\ run'.op = None
        BY <2>1, <3>1 DEF Runs
      <3>3. Out(db, Target(o)) /\ db.intent[o] = "complete" /\ run.todo \subseteq Intents(run.initial)
            /\ \A p \in Intents(run.initial) \ run.todo : Whole(p)
        BY <1>1, <2>1, <2>2, <2>13 DEF IInv, RunFits, Runs
      <3>4. /\ Intents(run.initial)' = Intents(run.initial)
            /\ \A p \in Intents(run.initial) : Whole(p) => Whole(p)'
            /\ Out(db, Target(o))' /\ db.intent[o]' = "complete"
        BY <2>10, <2>11, <3>3, PassStays
      <3>5. Whole(o)'
        BY <2>5, <3>4 DEF Whole
      <3>6. run'.at \notin Applied /\ run'.at \notin Discarded
        BY <3>2 DEF Applied, Discarded
      <3>7. RunFits'
        BY <3>2, <3>3, <3>4, <3>5, <3>6 DEF RunFits
      <3> QED BY <1>1, <2>11, <3>6, <3>7, RunKeeps
    <2> QED BY <2>12, <2>13
  <1> QED BY <1>2, <1>3

(* What is appended to the ledger by the run.                              *)
LEMMA AppendMoves ==
    ASSUME IInv, NEW e \in Entries, ledger' = Append(ledger, e),
           UNCHANGED <<db, issued, ticket, dead, job, backup, traffic, appliedAt, stale>>,
           e.kind = "deletion" => e.op \in Intents(Len(ledger)) /\ e.actor = Target(e.op),
           run' \in Runs, run'.head <= Len(ledger) + 1, run'.initial <= Len(ledger)
    PROVE  Moves
  <1>1. Typed /\ LedgerFits /\ Len(ledger) \in Nat
    BY DEF IInv, Typed
  <1>2. e.kind = "deletion" =>
           /\ e.actor \in issued /\ ticket[e.op] # None
           /\ e.op \in Intents(Len(ledger)) => e.actor = Target(e.op)
    BY <1>1, TargetIsKnown DEF Typed
  <1>3. /\ LedgerFits' /\ Extends(ledger, ledger') /\ ledger' \in Seq(Entries)
        /\ Len(ledger') = Len(ledger) + 1
    BY <1>1, <1>2, EntryAppended
  <1>4. db' \in Dbs /\ Keeps(issued, db, db') /\ ticket' \in [Operations -> Tickets \cup {None}]
    BY <1>1, KeepsItself DEF Typed
  <1>5. Evolves
    BY <1>3, <1>4 DEF Evolves, Destroyed
  <1>6. run'.head <= Len(ledger') /\ run'.initial <= Len(ledger')
    BY <1>1, <1>3 DEF Runs
  <1> QED BY <1>3, <1>4, <1>5, <1>6 DEF Moves

LEMMA AppendCompleteStep ==
    ASSUME IInv, AppendComplete
    PROVE  IInv'
  <1> DEFINE e == [kind |-> "deletion", op |-> run.op, actor |-> Target(run.op), state |-> "complete"]
             completed == [run EXCEPT !.at = "apply", !.state = "complete"]
  <1>1. run.at = "append" /\ run.at \in Applying /\ stale # {}
    BY RunFollowsBackup DEF AppendComplete, Applying
  <1>2. /\ Typed /\ LedgerFits /\ run.initial \in 0..Len(ledger) /\ run \in Runs
        /\ run.head <= Len(ledger) /\ Len(ledger) \in Nat
    BY DEF IInv, Typed, Runs
  <1>3. run.op \in run.todo /\ run.op \in Intents(run.initial)
    BY <1>1 DEF IInv, RunFits
  <1>4. run.op \in Operations /\ Target(run.op) \in Actors /\ run.op \in Intents(Len(ledger))
    BY <1>2, <1>3, TargetIsKnown
  <1>5. completed \in Runs
    BY <1>2 DEF Runs, RunSteps
  <1>6. /\ completed.at = "apply" /\ completed.todo = run.todo /\ completed.op = run.op
        /\ completed.head = run.head /\ completed.initial = run.initial
    BY <1>2 DEF Runs
  <1>7. CASE RunFails
    BY <1>1, <1>7, FailedRun
  <1>8. CASE run' = completed /\ RunOnly
    <2>1. run' \in Runs /\ run'.head <= Len(ledger) /\ run'.initial <= Len(ledger)
      BY <1>2, <1>5, <1>6, <1>8
    <2>2. run'.at = "apply" /\ run'.todo = run.todo /\ run'.op = run.op /\ run'.initial = run.initial
      BY <1>6, <1>8
    <2>3. Moves
      BY <1>8, <2>1, OnlyRun
    <2>4. run'.at \in Applying \ {"destroy"}
      BY <2>2 DEF Applying
    <2> QED BY <1>1, <1>3, <2>2, <2>3, <2>4, PassGoesOn
  <1>9. CASE /\ ledger' = Append(ledger, e)
             /\ run' = [completed EXCEPT !.head = Len(ledger')]
             /\ UNCHANGED <<db, issued, ticket, credential, dead, deletionVars, backup, traffic,
                            openedAt, appliedAt, stale>>
    <2>1. e \in Entries /\ e.kind = "deletion" /\ e.op = run.op /\ e.actor = Target(run.op)
      BY <1>4 DEF Entries
    <2>2. Len(ledger') = Len(ledger) + 1
      BY <1>2, <1>9, <2>1, AppendProperties
    <2> HIDE DEF e, completed
    <2>3. run' \in Runs
      BY <1>2, <1>5, <1>9, <2>2 DEF Runs
    <2>4. /\ run'.at = "apply" /\ run'.todo = run.todo /\ run'.op = run.op
          /\ run'.initial = run.initial /\ run'.head = Len(ledger')
      BY <1>5, <1>6, <1>9 DEF Runs
    <2>5. run'.head <= Len(ledger) + 1 /\ run'.initial <= Len(ledger)
      BY <1>2, <2>2, <2>4
    <2>6. Moves
      BY <1>4, <1>9, <2>1, <2>3, <2>5, AppendMoves DEF deletionVars
    <2>7. run'.at \in Applying \ {"destroy"}
      BY <2>4 DEF Applying
    <2> QED BY <1>1, <1>3, <2>4, <2>6, <2>7, PassGoesOn
  <1> QED BY <1>7, <1>8, <1>9 DEF AppendComplete

LEMMA DiscardStep ==
    ASSUME IInv, DiscardCredentials
    PROVE  IInv'
  <1>1. run.at = "discard" /\ run.at \in Applied /\ stale # {}
    BY RunFollowsBackup DEF DiscardCredentials, Applied
  <1>2. CASE RunFails
    BY <1>1, <1>2, FailedRun
  <1>3. CASE ~ RunFails
    <2>1. /\ db' = WithoutSessions(db, Sessions) /\ Step("discard", "credentials") /\ Silent
          /\ UNCHANGED <<job, backup, appliedAt, stale, traffic>>
      BY <1>3 DEF DiscardCredentials, DbAnd, deletionVars, Silent
    <2>2. db \in Dbs /\ run \in Runs /\ run.head <= Len(ledger) /\ run.initial <= Len(ledger)
      BY DEF IInv, Typed
    <2>3. db' \in Dbs /\ Keeps(issued, db, db') /\ \A s \in Sessions : db'.session[s] = None
      BY <2>1, <2>2, WithoutSessionsKeeps, WithoutSessionsRows
    <2>4. run' \in Runs /\ run'.at = "credentials" /\ run'.head = run.head /\ run'.initial = run.initial
      BY <2>1, <2>2 DEF Step, Runs, RunSteps
    <2>5. Moves
      BY <2>1, <2>2, <2>3, <2>4, SilentRun
    <2>6. Typed' /\ JobsFit' /\ LedgerFits' /\ Evolves
      BY <2>5, RunIsTyped DEF Moves
    <2>7. run'.at \in Applied /\ run'.at \notin Applying /\ run'.at # "destroy"
      BY <2>4 DEF Applied, Applying, Discarded
    <2>8. RunFits'
      <3>1. \A o \in Intents(run.initial) : Whole(o)
        BY <1>1 DEF IInv, RunFits
      <3> QED BY <2>4, <2>5, <2>7, <3>1, PassStays DEF RunFits
    <2>9. \A o \in Intents(appliedAt)' : Whole(o)'
      <3>1. Typed /\ LedgerFits /\ appliedAt \in 0..Len(ledger) /\ appliedAt' = appliedAt
        BY <2>1 DEF IInv, Typed
      <3>2. Intents(appliedAt)' = Intents(appliedAt)
        BY <2>6, <3>1, IntentsStay DEF Evolves
      <3> QED BY <2>6, <3>1, <3>2, WholeStays DEF IInv, OpeningFits
    <2>10. OpeningFits'
      BY <2>3, <2>9 DEF OpeningFits
    <2>11. BackupComesFirst'
      BY <1>1, <2>1 DEF BackupComesFirst
    <2> QED BY <2>6, <2>8, <2>10, <2>11 DEF IInv
  <1> QED BY <1>2, <1>3

(* The steps between the last deletion applied and the opening.            *)
LEMMA DestroyCredentialsStep ==
    ASSUME IInv, DestroyCredentials
    PROVE  IInv'
  <1>1. run.at = "credentials" /\ run.at \in Applied /\ run.at \in Discarded /\ stale # {}
    BY RunFollowsBackup DEF DestroyCredentials, Applied, Discarded
  <1>2. CASE RunFails
    BY <1>1, <1>2, FailedRun
  <1>3. CASE ~ RunFails
    <2>1. /\ dead \subseteq dead' /\ Step("credentials", "recheck")
          /\ UNCHANGED <<db, issued, ticket, ledger, job, backup, traffic, appliedAt, stale>>
      BY <1>3 DEF DestroyCredentials, deletionVars
    <2>2. /\ Typed /\ LedgerFits /\ run \in Runs /\ run.head <= Len(ledger) /\ run.initial <= Len(ledger)
      BY DEF IInv, Typed
    <2>3. /\ run' \in Runs /\ run'.at = "recheck" /\ run'.head = run.head /\ run'.initial = run.initial
      BY <2>1, <2>2 DEF Step, Runs, RunSteps
    <2>4. LedgerFits' /\ Extends(ledger, ledger')
      BY <2>1, <2>2, LedgerStays
    <2>5. Evolves
      BY <2>1, <2>4, KeepsItself DEF Evolves, Destroyed
    <2>6. Moves
      BY <2>1, <2>2, <2>3, <2>4, <2>5 DEF Moves, Typed
    <2>7. run'.at \in Applied
      BY <2>3 DEF Applied, Discarded
    <2> QED BY <1>1, <2>3, <2>6, <2>7, RunLate
  <1> QED BY <1>2, <1>3

LEMMA MigrateStep ==
    ASSUME IInv, MigrateIdentity
    PROVE  IInv'
  <1>1. run.at = "migrate" /\ run.at \in Applied /\ run.at \in Discarded /\ stale # {}
    BY RunFollowsBackup DEF MigrateIdentity, Applied, Discarded
  <1>2. CASE RunFails
    BY <1>1, <1>2, FailedRun
  <1>3. CASE run' = [run EXCEPT !.at = "compare", !.seal = db] /\ RunOnly
    <2>1. db \in Dbs /\ run \in Runs /\ run.head <= Len(ledger) /\ run.initial <= Len(ledger)
      BY DEF IInv, Typed
    <2>2. run' \in Runs
      BY <1>3, <2>1 DEF Runs, RunSteps
    <2>3. run'.at = "compare" /\ run'.head = run.head /\ run'.initial = run.initial
      BY <1>3, <2>1 DEF Runs
    <2>4. Moves
      BY <1>3, <2>1, <2>2, <2>3, OnlyRun
    <2>5. run'.at \in Applied
      BY <2>3 DEF Applied, Discarded
    <2> QED BY <1>1, <2>3, <2>4, <2>5, RunLate
  <1> QED BY <1>2, <1>3 DEF MigrateIdentity

(* A head that moved starts another pass, three at most.                   *)
LEMMA AgainStep ==
    ASSUME IInv, Again, run.at # "idle"
    PROVE  IInv'
  <1>1. stale # {}
    BY RunFollowsBackup
  <1>2. CASE RunFails
    BY <1>1, <1>2, FailedRun
  <1>3. CASE /\ run.attempt < 3 /\ RunOnly
             /\ run' = [run EXCEPT !.at = "tickets", !.head = Len(ledger), !.attempt = @ + 1]
    <2>1. run \in Runs /\ Len(ledger) \in Nat /\ run.initial <= Len(ledger)
      BY DEF IInv, Typed
    <2>2. run' \in Runs
      <3> DEFINE n == run.attempt + 1
      <3>1. n \in 1..3 /\ run' = [run EXCEPT !.at = "tickets", !.head = Len(ledger), !.attempt = n]
        BY <1>3, <2>1 DEF Runs
      <3> HIDE DEF n
      <3> QED BY <2>1, <3>1 DEF Runs, RunSteps
    <2>3. run'.at = "tickets" /\ run'.head = Len(ledger) /\ run'.initial = run.initial
      BY <1>3, <2>1 DEF Runs
    <2>4. Moves
      BY <1>3, <2>1, <2>2, <2>3, OnlyRun
    <2>5. run'.at \in Early
      BY <2>3 DEF Early
    <2> QED BY <1>1, <2>4, <2>5, RunEarly
  <1> QED BY <1>2, <1>3 DEF Again

LEMMA CompareStep ==
    ASSUME IInv, Compare
    PROVE  IInv'
  <1>1. CASE Again
    BY <1>1, AgainStep DEF Compare
  <1>2. CASE Step("compare", "record") /\ RunOnly
    <2> DEFINE from == "compare"
               to == "record"
    <2>1. from \in RunSteps \ {"idle"} /\ to \in RunSteps /\ {from, to} \subseteq Applied \cap Discarded
      BY DEF RunSteps, Applied, Discarded
    <2>2. Step(from, to) /\ RunOnly
      BY <1>2
    <2> HIDE DEF from, to
    <2> QED BY <2>1, <2>2, QuietStep
  <1> QED BY <1>1, <1>2 DEF Compare

LEMMA RecordRecoveryStep ==
    ASSUME IInv, RecordRecovery
    PROVE  IInv'
  <1> DEFINE e == [kind |-> "recovery"]
  <1>1. run.at = "record" /\ run.at \in Applied /\ run.at \in Discarded /\ stale # {}
    BY RunFollowsBackup DEF RecordRecovery, Applied, Discarded
  <1>2. CASE RunFails
    BY <1>1, <1>2, FailedRun
  <1>3. CASE ~ RunFails
    <2>1. /\ ledger' = Append(ledger, e) /\ Step("record", "confirm")
          /\ UNCHANGED <<db, issued, ticket, dead, job, backup, traffic, appliedAt, stale>>
      BY <1>3 DEF RecordRecovery, deletionVars
    <2>2. e \in Entries /\ e.kind # "deletion"
      BY DEF Entries
    <2>3. run \in Runs /\ run.head <= Len(ledger) /\ run.initial <= Len(ledger) /\ Len(ledger) \in Nat
      BY DEF IInv, Typed
    <2>4. run' \in Runs /\ run'.at = "confirm" /\ run'.head = run.head /\ run'.initial = run.initial
      BY <2>1, <2>3 DEF Step, Runs, RunSteps
    <2>5. run'.head <= Len(ledger) + 1
      BY <2>3, <2>4 DEF Runs
    <2> HIDE DEF e
    <2>6. Moves
      BY <2>1, <2>2, <2>3, <2>4, <2>5, AppendMoves
    <2>7. run'.at \in Applied
      BY <2>4 DEF Applied, Discarded
    <2> QED BY <1>1, <2>4, <2>6, <2>7, RunLate
  <1> QED BY <1>2, <1>3

LEMMA ConfirmStep ==
    ASSUME IInv, Confirm
    PROVE  IInv'
  <1>1. run.at = "confirm" /\ run.at \in Applied /\ run.at \in Discarded
    BY DEF Confirm, Applied, Discarded
  <1>2. CASE Again
    BY <1>1, <1>2, AgainStep
  <1>3. CASE run' = [run EXCEPT !.at = "activate", !.head = Len(ledger)] /\ RunOnly
    <2>1. run \in Runs /\ Len(ledger) \in Nat /\ run.initial <= Len(ledger)
      BY DEF IInv, Typed
    <2>2. run' \in Runs
      BY <1>3, <2>1 DEF Runs, RunSteps
    <2>3. run'.at = "activate" /\ run'.head = Len(ledger) /\ run'.initial = run.initial
      BY <1>3, <2>1 DEF Runs
    <2>4. Moves
      BY <1>3, <2>1, <2>2, <2>3, OnlyRun
    <2>5. run'.at \in Applied
      BY <2>3 DEF Applied, Discarded
    <2> QED BY <1>1, <2>3, <2>4, <2>5, RunLate
  <1> QED BY <1>2, <1>3 DEF Confirm

LEMMA ActivateStep ==
    ASSUME IInv, Activate
    PROVE  IInv'
  <1>1. run.at = "activate" /\ run.at \in Applied /\ run.at \in Discarded /\ stale # {}
    BY RunFollowsBackup DEF Activate, Applied, Discarded
  <1>2. CASE RunFails
    BY <1>1, <1>2, FailedRun
  <1>3. CASE ~ RunFails
    <2> DEFINE s == "active"
    <2>1. /\ db' = [db EXCEPT !.status = s] /\ Step("activate", "open") /\ Silent /\ s \in Statuses
          /\ UNCHANGED <<job, backup, appliedAt, stale, traffic>>
      BY <1>3 DEF Activate, DbAnd, deletionVars, Silent, Statuses
    <2> HIDE DEF s
    <2>2. db \in Dbs /\ run \in Runs /\ run.head <= Len(ledger) /\ run.initial <= Len(ledger)
      BY DEF IInv, Typed
    <2>3. db' \in Dbs /\ Keeps(issued, db, db')
      BY <2>1, <2>2, StatusKeeps
    <2>4. run' \in Runs /\ run'.at = "open" /\ run'.head = run.head /\ run'.initial = run.initial
      BY <2>1, <2>2 DEF Step, Runs, RunSteps
    <2>5. Moves
      BY <2>1, <2>2, <2>3, <2>4, SilentRun
    <2>6. run'.at \in Applied
      BY <2>4 DEF Applied, Discarded
    <2> QED BY <1>1, <2>4, <2>5, <2>6, RunLate
  <1> QED BY <1>2, <1>3

(* The traffic opens when every deletion of the head is whole and no       *)
(* session is left.                                                        *)
LEMMA OpenStep ==
    ASSUME IInv, Open
    PROVE  IInv'
  <1>1. run.at = "open" /\ run.at \in Applied /\ run.at \in Discarded /\ stale # {}
    BY RunFollowsBackup DEF Open, Applied, Discarded
  <1>2. CASE RunFails
    BY <1>1, <1>2, FailedRun
  <1>3. CASE ~ RunFails
    <2>1. /\ UNCHANGED <<db, issued, ticket, ledger, dead, job, backup, stale>>
          /\ traffic' = "open" /\ appliedAt' = run.initial /\ Step("open", "opened")
      BY <1>3 DEF Open, vars, recordVars, deletionVars
    <2>2. /\ Typed /\ LedgerFits /\ JobsFit /\ run \in Runs /\ run.initial \in 0..Len(ledger)
          /\ run.head <= Len(ledger)
          /\ \A o \in Intents(run.initial) : Whole(o)
          /\ \A s \in stale \cap Sessions : db.session[s] = None
      BY <1>1 DEF IInv, Typed, Runs, RunFits, OpeningFits
    <2>3. run' \in Runs /\ run'.at = "opened" /\ run'.head = run.head /\ run'.initial = run.initial
      BY <2>1, <2>2 DEF Step, Runs, RunSteps
    <2>4. Typed'
      BY <2>1, <2>2, <2>3 DEF Typed
    <2>5. LedgerFits' /\ JobsFit'
      BY <2>1, <2>2 DEF LedgerFits, JobsFit, JobFits, Begins, At, Intents, Deletions
    <2>6. ASSUME NEW o \in Intents(run.initial) PROVE Whole(o)'
      <3>1. Whole(o) /\ Target(o)' = Target(o)
        BY <2>1, <2>2 DEF Target, Deletions
      <3> QED BY <2>1, <3>1 DEF Whole, Out, Destroyed
    <2>7. Intents(run.initial)' = Intents(run.initial) /\ Intents(appliedAt)' = Intents(run.initial)
      BY <2>1, <2>3 DEF Intents, Deletions
    <2>8. run'.at \notin Applying
      BY <2>3 DEF Applying
    <2>9. RunFits'
      BY <2>3, <2>6, <2>7, <2>8 DEF RunFits
    <2>10. OpeningFits'
      BY <2>1, <2>2, <2>6, <2>7 DEF OpeningFits
    <2>11. BackupComesFirst'
      BY <1>1, <2>1 DEF BackupComesFirst
    <2> QED BY <2>4, <2>5, <2>9, <2>10, <2>11 DEF IInv
  <1> QED BY <1>2, <1>3

LEMMA RunEnds ==
    ASSUME IInv, Finished \/ RunCrashes
    PROVE  IInv'
  <1>1. stale # {} /\ run' = NoRun /\ RunOnly
    BY RunFollowsBackup DEF Finished, RunCrashes
  <1>2. 0 <= Len(ledger)
    BY DEF IInv, Typed
  <1>3. Moves
    BY <1>1, <1>2, IdleRun, OnlyRun
  <1> QED BY <1>1, <1>3, IdleRun, RunEarly DEF Early

-----------------------------------------------------------------------------
(* The invariant and what follows from it                                  *)

LEMMA InitFits == RestoreInit => IInv
  <1> SUFFICES ASSUME RestoreInit PROVE IInv
    OBVIOUS
  <1>1. /\ backup = None /\ traffic = "open" /\ openedAt = 0 /\ appliedAt = 0 /\ stale = {} /\ run = NoRun
        /\ issued = {} /\ ledger = <<>> /\ ticket = [o \in Operations |-> None]
        /\ job = [w \in Workers |-> Idle]
    BY DEF RestoreInit, DeletionInit, Init
  <1>2. db \in Dbs
    BY DEF RestoreInit, DeletionInit, Init, Dbs, Statuses, ActorStates
  <1>3. Len(ledger) = 0 /\ ledger \in Seq(Entries)
    BY <1>1
  <1>4. Typed
    BY <1>1, <1>2, <1>3, IdleJob, IdleRun DEF Typed
  <1>5. Deletions(Len(ledger)) = {} /\ Intents(appliedAt) = {}
    BY <1>1, <1>3 DEF Deletions, Intents
  <1>6. LedgerFits
    BY <1>5 DEF LedgerFits
  <1>7. JobsFit
    BY <1>1, <1>3, IdleJob DEF JobsFit, JobFits, Begins, Resumed, At
  <1>8. RunFits /\ OpeningFits /\ BackupComesFirst
    BY <1>1, <1>5, IdleRun DEF RunFits, OpeningFits, BackupComesFirst, Applying, Applied, Discarded
  <1> QED BY <1>4, <1>6, <1>7, <1>8 DEF IInv

LEMMA StepFits == IInv /\ [RestoreNext]_allVars => IInv'
  <1> SUFFICES ASSUME IInv, [RestoreNext]_allVars PROVE IInv'
    OBVIOUS
  <1>1. CASE TakeBackup \/ PutBackup \/ Start
    BY <1>1, TakeBackupStep, PutBackupStep, StartStep
  <1>2. CASE Isolate \/ LatestHead \/ CheckActorTickets \/ ReconcileIntents
    BY <1>2, IsolateStep, LatestHeadStep, CheckTicketsStep, ReconcileIntentsStep
  <1>3. CASE TakeIntent \/ ReapplyDeletion \/ DestroyReapplied \/ Reread \/ AppendComplete
    BY <1>3, TakeIntentStep, ReapplyStep, DestroyReappliedStep, RereadStep, AppendCompleteStep
  <1>4. CASE DiscardCredentials \/ DestroyCredentials \/ MigrateIdentity \/ Compare
    BY <1>4, DiscardStep, DestroyCredentialsStep, MigrateStep, CompareStep
  <1>5. CASE RecordRecovery \/ Confirm \/ Activate \/ Open \/ Finished \/ RunCrashes
    BY <1>5, RecordRecoveryStep, ConfirmStep, ActivateStep, OpenStep, RunEnds
  <1>6. CASE RunStops
    BY <1>6, FailedRun, RunFollowsBackup DEF RunStops
  <1>7. CASE UserNext /\ UNCHANGED restoreVars
    BY <1>7, UsersKeep
  <1>8. CASE WorkerNext /\ UNCHANGED restoreVars
    BY <1>8, WorkersKeep
  <1>9. CASE CleanupNext /\ UNCHANGED restoreVars
    BY <1>9, CleanupKeeps
  <1>10. CASE UNCHANGED allVars \/ ((\E o \in Operations : PassDeadline(o)) /\ UNCHANGED restoreVars)
    <2>1. /\ UNCHANGED <<ticket, ledger, job, restoreVars>> /\ issued' = issued /\ dead' = dead
          /\ db' = db
      BY <1>10 DEF PassDeadline, allVars, vars, recordVars, deletionVars
    <2>2. db' \in Dbs /\ Keeps(issued, db, db') /\ issued' \subseteq Actors \cup Sessions
      BY <2>1, KeepsItself DEF IInv, Typed
    <2> QED BY <2>1, <2>2, RowsChange
  <1> QED BY <1>1, <1>2, <1>3, <1>4, <1>5, <1>6, <1>7, <1>8, <1>9, <1>10 DEF RestoreNext, RestoreStep, RunStep

\* The inductive invariant holds whatever the users, the workers, the cleanup and the operator do
\* beside the restore, and wherever a run or a worker stops (AuthenticationRestoreService.restore).
THEOREM RestoreInvariant == RestoreSpec => []IInv
  <1> QED BY InitFits, StepFits, PTL DEF RestoreSpec

\* While users can reach the service no deletion the restore applied again is undone: its actor is
\* out, its rows are gone, its keys are destroyed and it is recorded as complete
\* (AuthenticationRestoreService.applyDeletions, PostgresAuthenticationStore.reapplyDeletion).
THEOREM DeletionsSurvive == RestoreSpec => []DeletionsSurviveRestore
  <1>1. ASSUME IInv, NEW o \in Intents(appliedAt) PROVE IsGone(o)
    <2>1. Typed /\ LedgerFits /\ appliedAt \in 0..Len(ledger)
      BY <1>1 DEF IInv, Typed
    <2>2. Whole(o) /\ Target(o) \in Actors
      BY <1>1, <2>1, TargetIsKnown DEF IInv, OpeningFits
    <2>3. SessionsOf(Target(o)) = {}
      BY <2>2 DEF Whole, Out, SessionsOf
    <2> QED BY <2>2, <2>3 DEF IsGone, Whole, Out, Destroyed
  <1>2. IInv => DeletionsSurviveRestore
    BY <1>1 DEF DeletionsSurviveRestore
  <1> QED BY <1>2, RestoreInvariant, PTL

\* No session from before the backup was put in place is a session once users can reach the
\* service (AuthenticationRestoreService: discardCredentials, assertSessionsAbsent).
THEOREM OldSessionsStayOver == RestoreSpec => []OldSessionsAreOver
  <1>1. IInv => OldSessionsAreOver
    BY DEF IInv, OpeningFits, OldSessionsAreOver
  <1> QED BY <1>1, RestoreInvariant, PTL

-----------------------------------------------------------------------------
(* The types of what no step above asks for.                               *)
RestTyped ==
    /\ credential \in [Sessions -> {"none", "pending", "checked", "destroyed"}]
    /\ deadline \in [Operations -> {"ahead", "passed"}]
    /\ told \subseteq Operations
    /\ openedAt \in 0..Len(ledger) /\ appliedAt \in 0..openedAt
    /\ run.initial <= run.head

(* The rows, and whatever the registry, a worker or a cleanup names: all   *)
(* of it are scopes that were given out.                                   *)
RowsIn(d) == d.identity \cup {s \in Sessions : d.session[s] # None}
Named ==
    dead \cup (UNION {ticket[o].scopes : o \in {p \in Operations : ticket[p] # None}})
         \cup (UNION {job[w].scopes : w \in Workers})
         \cup {s \in Sessions : credential[s] # "none"}
ScopesFit ==
    /\ RowsIn(db) \cup Named \subseteq issued
    /\ backup # None => RowsIn(backup.db) \subseteq issued

(* A deletion destroys the key of no actor but its own.                    *)
TicketFits(w) ==
    /\ At(w, "append") => ticket[job[w].op].scopes \cap Actors \subseteq {job[w].actor}
    /\ job[w].at \in {"remove", "absent", "destroy"} =>
          job[w].scopes \cap Actors \subseteq {Target(job[w].op)}
TicketsFit ==
    /\ \A o \in Intents(Len(ledger)) : ticket[o].scopes \cap Actors \subseteq {Target(o)}
    /\ \A w \in Workers : TicketFits(w)

(* The head knows every deletion that destroyed an actor's key or is about to. *)
SealedBy(h) ==
    /\ \A a \in dead \cap Actors : \E o \in Intents(h) : Target(o) = a
    /\ \A w \in Workers : job[w].at \in {"absent", "destroy"} => job[w].op \in Intents(h)
RunSeals ==
    /\ \A a \in dead \cap Actors : \E o \in Intents(Len(ledger)) : Target(o) = a
    /\ run.at \notin {"idle", "isolate", "open", "opened"} => db.status = "restoring"
    /\ run.at \in {"tickets", "reconcile"} => SealedBy(run.head)
    /\ run.at \in Applying => SealedBy(run.initial)

(* The keys that are destroyed, or may be at any time without another look *)
(* at the rows.                                                            *)
Doomed ==
    dead \cup (UNION {job[w].scopes : w \in {v \in Workers : At(v, "destroy")}})
         \cup {s \in Sessions : credential[s] = "checked"}
DoomedIsGone ==
    /\ traffic = "open" \/ run.at \in Applied => Doomed \cap Rows \cap Actors = {}
    /\ traffic = "open" \/ run.at \in Discarded => Doomed \cap Rows \cap Sessions = {}

KeysInv == ScopesFit /\ TicketsFit /\ RunSeals /\ DoomedIsGone

LEMMA LedgerExtended ==
    ASSUME ledger \in Seq(Entries), NEW e, ledger' = Append(ledger, e)
    PROVE  Extends(ledger, ledger')
  <1> DEFINE S == Entries \cup {e}
  <1>1. ledger \in Seq(S) /\ e \in S
    OBVIOUS
  <1>2. Len(ledger') = Len(ledger) + 1 /\ \A i \in 1..Len(ledger) : ledger'[i] = ledger[i]
    BY <1>1, AppendProperties
  <1>3. Len(ledger) \in Nat
    OBVIOUS
  <1> QED BY <1>2, <1>3 DEF Extends

(* The rows that the transactions leave.                                   *)
LEMMA RowsOfChanged ==
    ASSUME db \in Dbs, NEW o, NEW gone, NEW state
    PROVE  /\ RowsIn(Quarantined(db)) = RowsIn(db) /\ RowsIn(Disabled(o)) = RowsIn(db)
           /\ RowsIn(Completed(o)) = RowsIn(db)
           /\ RowsIn(Removed(o)) \subseteq RowsIn(db) /\ RowsIn(WithoutSessions(db, gone)) \subseteq RowsIn(db)
           /\ RowsIn(Reapplied(o, state)) \subseteq RowsIn(db)
           /\ Rows = RowsIn(db)
  <1>1. RowsIn(Quarantined(db)) = RowsIn(db) /\ RowsIn(Completed(o)) = RowsIn(db) /\ Rows = RowsIn(db)
    BY DEF Quarantined, Completed, RowsIn, Dbs, Rows
  <1>2. RowsIn(Disabled(o)) = RowsIn(db)
    <2> DEFINE f == [s \in Sessions |->
                        IF s \in SessionsOf(Target(o)) THEN [db.session[s] EXCEPT !.state = "revoked"]
                        ELSE db.session[s]]
    <2>1. Disabled(o).session = f /\ Disabled(o).identity = db.identity
      BY DEF Disabled, Dbs
    <2>2. \A s \in Sessions : f[s] # None <=> db.session[s] # None
      <3> SUFFICES ASSUME NEW s \in Sessions PROVE f[s] # None <=> db.session[s] # None
        OBVIOUS
      <3>1. CASE s \in SessionsOf(Target(o))
        <4>1. db.session[s] # None /\ db.session[s] \in SessionRows
          BY <3>1 DEF SessionsOf, Dbs
        <4>2. [db.session[s] EXCEPT !.state = "revoked"] \in SessionRows
          BY <4>1 DEF SessionRows
        <4> QED BY <3>1, <4>1, <4>2, NoneAssumption
      <3>2. CASE s \notin SessionsOf(Target(o))
        BY <3>2
      <3> QED BY <3>1, <3>2
    <2> HIDE DEF f
    <2> QED BY <2>1, <2>2 DEF RowsIn
  <1>3. ASSUME NEW g PROVE /\ \A s \in Sessions : WithoutSessions(db, g).session[s] # None => db.session[s] # None
                           /\ WithoutSessions(db, g).identity = db.identity
                           /\ WithoutSessions(db, g) \in Dbs
    <2>1. \A s \in Sessions : WithoutSessions(db, g).session[s] = IF s \in g THEN None ELSE db.session[s]
      BY WithoutSessionsRows
    <2>2. WithoutSessions(db, g) \in Dbs
      <3> DEFINE I == {}
      <3> QED BY WithoutSessionsKeeps
    <2> QED BY <2>1, <2>2 DEF WithoutSessions, Dbs
  <1>4. RowsIn(WithoutSessions(db, gone)) \subseteq RowsIn(db)
    BY <1>3 DEF RowsIn
  <1>5. /\ RowsIn(Removed(o)) \subseteq RowsIn(db)
        /\ RowsIn(Reapplied(o, state)) \subseteq RowsIn(db)
    <2> DEFINE d == WithoutSessions(db, SessionsOf(Target(o)))
    <2>1. /\ \A s \in Sessions : d.session[s] # None => db.session[s] # None
          /\ d.identity = db.identity /\ d \in Dbs
      BY <1>3
    <2>2. Removed(o) = [d EXCEPT !.identity = @ \ {Target(o)}, !.intent = Ensured(@, o)]
      BY DEF Removed
    <2>3. Reapplied(o, state) =
             [d EXCEPT !.actor[Target(o)] = IF @ = "active" THEN "disabled" ELSE @,
                       !.identity = @ \ {Target(o)},
                       !.intent[o] = IF state = "complete" \/ @ = "complete" THEN "complete" ELSE "prepared"]
      BY DEF Reapplied
    <2> HIDE DEF d
    <2>4. Removed(o).session = d.session /\ Removed(o).identity \subseteq d.identity
      BY <2>1, <2>2 DEF Dbs
    <2>5. Reapplied(o, state).session = d.session /\ Reapplied(o, state).identity \subseteq d.identity
      BY <2>1, <2>3 DEF Dbs
    <2> QED BY <2>1, <2>4, <2>5 DEF RowsIn
  <1> QED BY <1>1, <1>2, <1>4, <1>5

-----------------------------------------------------------------------------
(* The steps of a worker, one after the other                              *)

(* From where to where a worker goes.                                      *)
Way ==
    {<<"head", "reconcile">>, <<"reconcile", "reconcile">>, <<"reconcile", "match">>,
     <<"reconcile", "lookup">>, <<"match", "plan">>, <<"plan", "prepare">>, <<"prepare", "append">>,
     <<"lookup", "disable">>, <<"disable", "remove">>, <<"remove", "absent">>, <<"absent", "destroy">>,
     <<"destroy", "verify">>, <<"verify", "latest">>, <<"latest", "finish">>, <<"finish", "complete">>,
     <<"complete", "report">>}
\* The worker's call is over, or another one begins.
Anew(w) == job'[w].at \in {"idle", "head"} /\ job'[w].scopes = {}
\* The worker goes on with its call.
Onwards(w) ==
    /\ <<job[w].at, job'[w].at>> \in Way
    /\ job'[w].actor = job[w].actor
    /\ job'[w].op = job[w].op \/ At(w, "plan")
    /\ job'[w].scopes = job[w].scopes \/ At(w, "disable")
    /\ job'[w].head = job[w].head \/ job'[w].at \in {"reconcile", "finish"}
WorkerStep(w) ==
    \/ Advance(w)
    \/ DisableRolledBack(w) \/ Stop(w) \/ Crash(w)
    \/ \E a \in Actors : Begin(w, a)
    \/ \E o \in Operations : Resume(w, o)

LEMMA CallsEnd ==
    ASSUME job \in [Workers -> Jobs], NEW w \in Workers
    PROVE  /\ Fails(w) \/ Return(w) \/ QuarantineAndReturn(w) =>
                /\ \A v \in Workers \ {w} : job'[v] = job[v]
                /\ Anew(w)
           /\ \A step : Goto(w, step) =>
                /\ \A v \in Workers \ {w} : job'[v] = job[v]
                /\ job'[w].at = step /\ job'[w].actor = job[w].actor /\ job'[w].op = job[w].op
                /\ job'[w].scopes = job[w].scopes /\ job'[w].head = job[w].head
  BY DEF Fails, Return, QuarantineAndReturn, Goto, Anew, Idle, Jobs

LEMMA WorkersWay ==
    ASSUME job \in [Workers -> Jobs], NEW w \in Workers, WorkerStep(w)
    PROVE  /\ \A v \in Workers \ {w} : job'[v] = job[v]
           /\ Anew(w) \/ Onwards(w)
  <1> DEFINE Goal == /\ \A v \in Workers \ {w} : job'[v] = job[v]
                     /\ Anew(w) \/ Onwards(w)
  <1>1. CASE Fails(w) \/ Return(w) \/ QuarantineAndReturn(w)
    BY <1>1, CallsEnd
  <1>2. CASE \E step : Goto(w, step) /\ <<job[w].at, step>> \in Way
    BY <1>2, CallsEnd DEF Onwards
  <1>3. CASE (\E a \in Actors : Begin(w, a)) \/ (\E o \in Operations : Resume(w, o))
    BY <1>3 DEF Begin, Resume, Anew, Idle, Jobs
  <1> HIDE DEF Goal
  <1>4. CASE ReadHead(w) \/ Reconcile(w)
    <2>1. ReadHead(w) => Goal
      BY DEF ReadHead, At, Onwards, Way, Jobs, Goal
    <2>2. ASSUME Reconcile(w), job' = [job EXCEPT ![w].head = Len(ledger), ![w].tries = @ + 1] PROVE Goal
      BY <2>2 DEF Reconcile, At, Onwards, Way, Jobs, Goal
    <2>3. ASSUME Reconcile(w), Goto(w, IF job[w].op = None THEN "match" ELSE "lookup") PROVE Goal
      <3>1. PICK step : step = (IF job[w].op = None THEN "match" ELSE "lookup") /\ Goto(w, step)
        BY <2>3
      <3>2. <<job[w].at, step>> \in Way
        BY <3>1, <2>3 DEF Reconcile, At, Way
      <3> QED BY <3>1, <3>2, <1>2 DEF Goal
    <2> QED BY <1>4, <1>1, <2>1, <2>2, <2>3 DEF Reconcile, Goal
  <1>5. CASE Match(w) \/ Plan(w)
    <2>1. Match(w) => Goal
      <3> DEFINE matches == {o \in Intents(job[w].head) : Target(o) = job[w].actor}
                 op == CHOOSE o \in matches : TRUE
      <3>0. Match(w) => \/ QuarantineAndReturn(w)
                        \/ Goto(w, "plan") /\ job[w].at = "match"
                        \/ job' = [job EXCEPT ![w] = [Idle EXCEPT !.at = "head", !.op = op]]
        BY DEF Match, At
      <3> HIDE DEF op
      <3>1. job' = [job EXCEPT ![w] = [Idle EXCEPT !.at = "head", !.op = op]] => Goal
        BY DEF Anew, Idle, Goal
      <3>2. <<"match", "plan">> \in Way
        BY DEF Way
      <3> QED BY <3>0, <3>1, <3>2, <1>1, <1>2 DEF Goal
    <2>2. Plan(w) => Goal
      <3>1. ASSUME Plan(w), NEW o \in Operations,
                   job' = [job EXCEPT ![w].at = "prepare", ![w].op = o, ![w].applies = TRUE]
            PROVE  Goal
        BY <3>1 DEF Plan, At, Onwards, Way, Jobs, Goal
      <3> QED BY <3>1, <1>1 DEF Plan, Goal
    <2> QED BY <1>5, <2>1, <2>2 DEF Goal
  <1>6. CASE Prepare(w) \/ AppendPrepared(w)
    <2>1. Prepare(w) => Goto(w, "append") /\ job[w].at = "prepare"
      BY DEF Prepare, At
    <2>2. AppendPrepared(w) => Fails(w) \/ job' = [job EXCEPT ![w] = [Idle EXCEPT !.at = "head", !.op = job[w].op]]
      BY DEF AppendPrepared
    <2>3. job' = [job EXCEPT ![w] = [Idle EXCEPT !.at = "head", !.op = job[w].op]] => Goal
      BY DEF Anew, Idle, Goal
    <2>4. <<"prepare", "append">> \in Way
      BY DEF Way
    <2> QED BY <1>6, <1>1, <1>2, <2>1, <2>2, <2>3, <2>4 DEF Goal
  <1>7. CASE Lookup(w) \/ Disable(w)
    <2>1. Lookup(w) => Goal
      <3> DEFINE o == job[w].op
                 prepared == StateAt(job[w].head, o) = "prepared"
                 overdue == prepared /\ Late(o)
      <3> HIDE DEF prepared, overdue
      <3>1. ASSUME Lookup(w), job' = [job EXCEPT ![w].at = "disable", ![w].applies = prepared, ![w].missed = overdue]
            PROVE  Goal
        BY <3>1 DEF Lookup, At, Onwards, Way, Jobs, Goal
      <3> QED BY <3>1, <1>1 DEF Lookup, prepared, overdue, Goal
    <2>2. Disable(w) => Goal
      <3> DEFINE scopes == ticket[job[w].op].scopes \cup SessionsOf(Target(job[w].op))
      <3>0. Disable(w) => \/ Fails(w)
                          \/ job' = [job EXCEPT ![w].at = "remove", ![w].scopes = scopes] /\ job[w].at = "disable"
        BY DEF Disable, At
      <3> HIDE DEF scopes
      <3>1. ASSUME job[w].at = "disable", job' = [job EXCEPT ![w].at = "remove", ![w].scopes = scopes]
            PROVE  Goal
        BY <3>1 DEF At, Onwards, Way, Jobs, Goal
      <3> QED BY <3>0, <3>1, <1>1 DEF Goal
    <2> QED BY <1>7, <2>1, <2>2 DEF Goal
  <1>8. CASE Remove(w) \/ Absent(w) \/ Destroy(w) \/ Verify(w)
    <2>1. Remove(w) => Fails(w) \/ (Goto(w, "absent") /\ job[w].at = "remove")
      BY DEF Remove, At
    <2>2. Absent(w) => Fails(w) \/ (Goto(w, "destroy") /\ job[w].at = "absent")
      BY DEF Absent, At
    <2>3. Destroy(w) => Fails(w) \/ (Goto(w, "verify") /\ job[w].at = "destroy")
      BY DEF Destroy, At
    <2>4. Verify(w) => Fails(w) \/ (Goto(w, "latest") /\ job[w].at = "verify")
      BY DEF Verify, At
    <2>5. {<<"remove", "absent">>, <<"absent", "destroy">>, <<"destroy", "verify">>, <<"verify", "latest">>} \subseteq Way
      BY DEF Way
    <2> QED BY <1>8, <1>1, <1>2, <2>1, <2>2, <2>3, <2>4, <2>5 DEF Goal
  <1>9. CASE Latest(w) \/ Finish(w) \/ Complete(w) \/ Report(w)
    <2>1. Latest(w) => Goal
      BY DEF Latest, At, Onwards, Way, Jobs, Goal
    <2>2. Finish(w) => Fails(w) \/ (Goto(w, "complete") /\ job[w].at = "finish")
      BY DEF Finish, At
    <2>3. Complete(w) => Fails(w) \/ (Goto(w, "report") /\ job[w].at = "complete")
      BY DEF Complete, At
    <2>4. Report(w) => Return(w) \/ QuarantineAndReturn(w)
      BY DEF Report
    <2>5. {<<"finish", "complete">>, <<"complete", "report">>} \subseteq Way
      BY DEF Way
    <2> QED BY <1>9, <1>1, <1>2, <2>1, <2>2, <2>3, <2>4, <2>5 DEF Goal
  <1>10. CASE DisableRolledBack(w) \/ Stop(w) \/ Crash(w)
    BY <1>10, <1>1 DEF DisableRolledBack, Stop, Crash, Goal
  <1> QED BY <1>3, <1>4, <1>5, <1>6, <1>7, <1>8, <1>9, <1>10 DEF WorkerStep, Advance, Goal

(* What a worker's step does to the records.                               *)
Quiet(w) ==
    /\ UNCHANGED <<issued, ticket, credential, dead>>
    /\ RowsIn(db') \subseteq RowsIn(db)
    /\ db.status = "restoring" => db'.status = "restoring"
    /\ job'[w].at = "absent" => db.status # "restoring"
    /\ job'[w].at = "destroy" => job'[w].scopes \cap Rows = {}
    /\ job'[w].at \notin {"append", "remove"}
    /\ ledger' = ledger \/ \E e : ledger' = Append(ledger, e)
NewScopes(w) == ticket[job[w].op].scopes \cup SessionsOf(Target(job[w].op))
Registers(w) ==
    /\ At(w, "disable") /\ PrepareTicket(job[w].op, NewScopes(w))
    /\ db' \in {db, Quarantined(db), Disabled(job[w].op)}
    /\ UNCHANGED <<issued, credential, dead, ledger>>
    /\ Anew(w) \/ (job'[w].at = "remove" /\ job'[w].scopes = NewScopes(w) /\ job'[w].op = job[w].op)
Destroys(w) ==
    /\ At(w, "destroy") /\ ticket[job[w].op].scopes = job[w].scopes /\ DestroyTicket(job[w].op)
    /\ Goto(w, "verify")
    /\ UNCHANGED <<db, issued, credential, ledger>>

LEMMA StatusOfChanged ==
    ASSUME db \in Dbs, NEW o
    PROVE  /\ db.status = "restoring" => Quarantined(db).status = "restoring"
           /\ Disabled(o).status = db.status /\ Removed(o).status = db.status
           /\ Completed(o).status = db.status
           /\ \A gone : WithoutSessions(db, gone).status = db.status
  <1>1. \A gone : WithoutSessions(db, gone).status = db.status /\ WithoutSessions(db, gone) \in Dbs
    <2>1. \A gone : WithoutSessions(db, gone) \in Dbs
      <3> DEFINE I == {}
      <3> QED BY WithoutSessionsKeeps
    <2> QED BY <2>1 DEF WithoutSessions, Dbs
  <1>2. Removed(o).status = db.status
    BY <1>1 DEF Removed, Dbs
  <1> QED BY <1>1, <1>2 DEF Quarantined, Disabled, Completed, Dbs

LEMMA WorkersRecords ==
    ASSUME Typed, NEW w \in Workers, WorkerStep(w)
    PROVE  Quiet(w) \/ Prepare(w) \/ Registers(w) \/ Destroys(w)
  <1>0. db \in Dbs /\ job \in [Workers -> Jobs] /\ job[w] \in Jobs
    BY DEF Typed
  <1>1. ASSUME UNCHANGED <<issued, ticket, credential, dead, ledger>>, db' \in {db, Quarantined(db)},
               job'[w].at \notin {"absent", "destroy", "append", "remove"}
        PROVE  Quiet(w)
    BY <1>0, <1>1, RowsOfChanged, StatusOfChanged DEF Quiet
  <1>2. CASE Fails(w)
    BY <1>0, <1>1, <1>2, CallsEnd DEF Fails, Anew
  <1>3. CASE (\E a \in Actors : Begin(w, a)) \/ (\E o \in Operations : Resume(w, o))
    <2>1. job'[w].at = "head"
      BY <1>0, <1>3 DEF Begin, Resume, Idle, Jobs
    <2> QED BY <1>1, <1>3, <2>1 DEF Begin, Resume, UnchangedRecords, recordVars
  <1>4. CASE ReadHead(w) \/ Reconcile(w) \/ Match(w) \/ Plan(w) \/ Lookup(w) \/ Verify(w) \/ Latest(w) \/ Report(w)
    <2>1. UNCHANGED <<issued, ticket, credential, dead, ledger>> /\ db' \in {db, Quarantined(db)}
      BY <1>4 DEF ReadHead, Reconcile, Match, Plan, Lookup, Verify, Latest, Report,
         UnchangedRecords, UnchangedButDb, recordVars, QuarantineAndReturn, Fails
    <2>2. Anew(w) \/ Onwards(w)
      BY <1>0, WorkersWay
    <2>3. job[w].at \in {"head", "reconcile", "match", "plan", "lookup", "verify", "latest", "report"}
      BY <1>4 DEF ReadHead, Reconcile, Match, Plan, Lookup, Verify, Latest, Report, At
    <2>4. job'[w].at \notin {"absent", "destroy", "append", "remove"}
      BY <2>2, <2>3 DEF Anew, Onwards, Way
    <2> QED BY <1>1, <2>1, <2>4
  <1>5. CASE Stop(w) \/ Crash(w)
    <2>1. CASE Crash(w)
      BY <1>0, <1>1, <2>1, CallsEnd DEF Crash, Anew, UnchangedRecords, recordVars
    <2> QED BY <1>5, <1>2, <2>1 DEF Stop
  <1>6. CASE AppendPrepared(w) \/ Finish(w)
    <2>1. /\ UNCHANGED <<issued, ticket, credential, dead>> /\ db' \in {db, Quarantined(db)}
          /\ ledger' = ledger \/ \E e : ledger' = Append(ledger, e)
      BY <1>6 DEF AppendPrepared, Finish, Fails, UnchangedRecords, recordVars
    <2>2. Anew(w) \/ Onwards(w)
      BY <1>0, WorkersWay
    <2>3. job[w].at \in {"append", "finish"}
      BY <1>6 DEF AppendPrepared, Finish, At
    <2>4. job'[w].at \notin {"absent", "destroy", "append", "remove"}
      BY <2>2, <2>3 DEF Anew, Onwards, Way
    <2> QED BY <1>0, <2>1, <2>4, RowsOfChanged, StatusOfChanged DEF Quiet
  <1>7. CASE Remove(w) \/ Complete(w)
    <2>1. CASE ~ Fails(w)
      <3>1. /\ UNCHANGED <<issued, ticket, credential, dead, ledger>> /\ MaintenanceOpen
            /\ db' \in {Removed(job[w].op), Completed(job[w].op)}
            /\ Goto(w, "absent") \/ Goto(w, "report")
        BY <1>7, <2>1 DEF Remove, Complete, UnchangedButDb, MayRemove, MayComplete
      <3>2. job'[w].at \in {"absent", "report"}
        BY <1>0, <3>1, CallsEnd
      <3>3. RowsIn(db') \subseteq RowsIn(db) /\ db'.status = db.status /\ db.status # "restoring"
        BY <1>0, <3>1, RowsOfChanged, StatusOfChanged DEF MaintenanceOpen
      <3> QED BY <3>1, <3>2, <3>3 DEF Quiet
    <2> QED BY <1>2, <2>1
  <1>8. CASE Absent(w)
    <2>1. CASE ~ Fails(w)
      <3>1. UNCHANGED <<issued, ticket, credential, dead, ledger, db>> /\ AbsentRows(job[w].scopes) /\ Goto(w, "destroy")
        BY <1>8, <2>1 DEF Absent, UnchangedRecords, recordVars
      <3>2. job'[w].at = "destroy" /\ job'[w].scopes = job[w].scopes
        BY <1>0, <3>1, CallsEnd
      <3> QED BY <3>1, <3>2 DEF Quiet, AbsentRows
    <2> QED BY <1>2, <2>1
  <1>9. CASE Disable(w) \/ DisableRolledBack(w)
    <2>1. CASE Disable(w) /\ ~ Fails(w)
      <3> DEFINE scopes == ticket[job[w].op].scopes \cup SessionsOf(Target(job[w].op))
      <3>1. /\ At(w, "disable") /\ PrepareTicket(job[w].op, scopes) /\ db' = Disabled(job[w].op)
            /\ job' = [job EXCEPT ![w].at = "remove", ![w].scopes = scopes]
            /\ UNCHANGED <<issued, credential, dead, ledger>>
        BY <2>1 DEF Disable
      <3>2. scopes = NewScopes(w)
        BY DEF NewScopes
      <3> HIDE DEF scopes
      <3>3. job'[w].at = "remove" /\ job'[w].scopes = scopes /\ job'[w].op = job[w].op
        BY <1>0, <3>1 DEF Jobs
      <3> QED BY <3>1, <3>2, <3>3 DEF Registers
    <2>2. CASE DisableRolledBack(w)
      <3>1. /\ At(w, "disable") /\ PrepareTicket(job[w].op, NewScopes(w)) /\ db' \in {db, Quarantined(db)}
            /\ Return(w)
            /\ UNCHANGED <<issued, credential, dead, ledger>>
        BY <2>2 DEF DisableRolledBack, NewScopes
      <3> QED BY <1>0, <3>1, CallsEnd DEF Registers
    <2> QED BY <1>9, <1>2, <2>1, <2>2
  <1>10. CASE Destroy(w)
    BY <1>10, <1>2 DEF Destroy, Destroys
  <1> QED BY <1>3, <1>4, <1>5, <1>6, <1>7, <1>8, <1>9, <1>10 DEF WorkerStep, Advance

-----------------------------------------------------------------------------
(* Keys and rows beside a run                                              *)

Kept == {"absent", "destroy"}
\* Rows come only with new identifiers, and a key is doomed only after a look at the rows.
Tends ==
    /\ issued \subseteq issued' /\ Extends(ledger, ledger')
    /\ RowsIn(db') \subseteq RowsIn(db) \cup (issued' \ issued)
    /\ Named' \subseteq Named \cup issued
    /\ Doomed' \subseteq Doomed \cup (issued \ Rows)
    /\ \A a \in dead' \cap Actors :
          a \in dead \/ \E v \in Workers : At(v, "destroy") /\ Target(job[v].op) = a
    /\ db.status = "restoring" =>
          /\ db'.status = "restoring"
          /\ \A v \in Workers : job'[v].at \in Kept => job[v].at \in Kept /\ job'[v].op = job[v].op

LEMMA DoomedIsNamed == Doomed \subseteq Named
  <1> SUFFICES ASSUME NEW x \in Doomed PROVE x \in Named
    OBVIOUS
  <1>1. CASE x \in dead
    BY <1>1 DEF Named
  <1>2. CASE \E w \in Workers : At(w, "destroy") /\ x \in job[w].scopes
    BY <1>2 DEF Named
  <1>3. CASE x \in Sessions /\ credential[x] = "checked"
    BY <1>3 DEF Named
  <1> QED BY <1>1, <1>2, <1>3 DEF Doomed

LEMMA ScopesStay ==
    ASSUME ScopesFit, issued \subseteq issued', RowsIn(db') \subseteq RowsIn(db) \cup (issued' \ issued),
           Named' \subseteq Named \cup issued, backup' = backup
    PROVE  ScopesFit'
  <1>1. RowsIn(db)' = RowsIn(db') /\ (RowsIn(backup.db)' = RowsIn(backup.db))
    BY DEF RowsIn
  <1> QED BY <1>1 DEF ScopesFit

LEMMA SealStays ==
    ASSUME IInv, IInv', Extends(ledger, ledger'), NEW h \in 0..Len(ledger), SealedBy(h),
           \A a \in dead' \cap Actors :
              a \in dead \/ \E v \in Workers : At(v, "destroy") /\ Target(job[v].op) = a,
           \A v \in Workers : job'[v].at \in Kept => job[v].at \in Kept /\ job'[v].op = job[v].op
    PROVE  SealedBy(h)'
  <1>1. Typed /\ Typed' /\ LedgerFits /\ LedgerFits'
    BY DEF IInv
  <1>2. Intents(h)' = Intents(h)
    BY <1>1, IntentsStay
  <1>3. \A o \in Intents(h) : Target(o)' = Target(o)
    BY <1>1, IntentsStay, TargetIsKnown
  <1>4. ASSUME NEW a \in dead' \cap Actors PROVE \E o \in Intents(h) : Target(o) = a
    BY <1>4 DEF SealedBy, At
  <1>5. \A a \in dead' \cap Actors : \E o \in Intents(h)' : Target(o)' = a
    BY <1>2, <1>3, <1>4
  <1>6. \A v \in Workers : job'[v].at \in {"absent", "destroy"} => job'[v].op \in Intents(h)'
    BY <1>2 DEF SealedBy, Kept
  <1> QED BY <1>5, <1>6 DEF SealedBy

LEMMA DeadActorsAreKnown ==
    ASSUME IInv, IInv', Extends(ledger, ledger'), RunSeals,
           \A a \in dead' \cap Actors :
              a \in dead \/ \E o \in Intents(Len(ledger)) : Target(o) = a
    PROVE  (\A a \in dead \cap Actors : \E o \in Intents(Len(ledger)) : Target(o) = a)'
  <1>1. Typed /\ Typed' /\ LedgerFits /\ LedgerFits'
    BY DEF IInv
  <1>2. /\ Intents(Len(ledger)) \subseteq Intents(Len(ledger))'
        /\ \A o \in Intents(Len(ledger)) : Target(o)' = Target(o)
    BY <1>1, IntentsStay
  <1> QED BY <1>2 DEF RunSeals

LEMMA DoomedStays ==
    ASSUME IInv, IInv', ScopesFit, DoomedIsGone, issued \subseteq issued',
           RowsIn(db') \subseteq RowsIn(db) \cup (issued' \ issued),
           Doomed' \subseteq Doomed \cup (issued \ Rows),
           (traffic' = "open" \/ run'.at \in Applied) => (traffic = "open" \/ run.at \in Applied),
           (traffic' = "open" \/ run'.at \in Discarded) => (traffic = "open" \/ run.at \in Discarded)
    PROVE  DoomedIsGone'
  <1>1. Rows = RowsIn(db) /\ Rows' = RowsIn(db')
    BY DEF Rows, RowsIn
  <1>2. Doomed \subseteq issued
    BY DoomedIsNamed DEF ScopesFit
  <1>3. Doomed' \cap Rows' \subseteq Doomed \cap Rows
    BY <1>1, <1>2
  <1> QED BY <1>3 DEF DoomedIsGone

LEMMA BesideKeys ==
    ASSUME IInv, IInv', KeysInv, Tends, TicketsFit', UNCHANGED restoreVars
    PROVE  KeysInv'
  <1>0. UNCHANGED <<backup, traffic, run>>
    BY DEF restoreVars
  <1>1. ScopesFit'
    BY <1>0, ScopesStay DEF KeysInv, Tends
  <1>2. DoomedIsGone'
    BY <1>0, DoomedStays DEF KeysInv, Tends
  <1>3. \A v \in Workers : At(v, "destroy") => job[v].op \in Intents(Len(ledger))
    BY DEF IInv, JobsFit, JobFits, Resumed, At
  <1>4. (\A a \in dead \cap Actors : \E o \in Intents(Len(ledger)) : Target(o) = a)'
    BY <1>3, DeadActorsAreKnown DEF KeysInv, Tends
  <1>5. run.head \in 0..Len(ledger) /\ run.initial \in 0..Len(ledger)
    BY DEF IInv, Typed, Runs
  <1>6. (run.at \notin {"idle", "isolate", "open", "opened"} => db.status = "restoring")'
    BY <1>0 DEF KeysInv, RunSeals, Tends
  <1>7. (run.at \in {"tickets", "reconcile"} => SealedBy(run.head))'
    <2> SUFFICES ASSUME run.at \in {"tickets", "reconcile"} PROVE SealedBy(run.head)'
      BY <1>0
    <2>1. SealedBy(run.head) /\ db.status = "restoring"
      BY DEF KeysInv, RunSeals
    <2>2. PICK h \in 0..Len(ledger) : h = run.head
      BY <1>5
    <2>3. SealedBy(h)'
      BY <2>1, <2>2, SealStays DEF Tends
    <2> QED BY <1>0, <2>2, <2>3 DEF SealedBy, Intents, Deletions
  <1>8. (run.at \in Applying => SealedBy(run.initial))'
    <2> SUFFICES ASSUME run.at \in Applying PROVE SealedBy(run.initial)'
      BY <1>0
    <2>1. SealedBy(run.initial) /\ db.status = "restoring"
      BY DEF KeysInv, RunSeals, Applying
    <2>2. PICK h \in 0..Len(ledger) : h = run.initial
      BY <1>5
    <2>3. SealedBy(h)'
      BY <2>1, <2>2, SealStays DEF Tends
    <2> QED BY <1>0, <2>2, <2>3 DEF SealedBy, Intents, Deletions
  <1> QED BY <1>1, <1>2, <1>4, <1>6, <1>7, <1>8 DEF KeysInv, RunSeals

(* The entry a worker appends, and what the ledger says with it.           *)
LEMMA WorkersEntry ==
    ASSUME IInv, NEW w \in Workers, WorkerStep(w)
    PROVE  \/ ledger' = ledger
           \/ \E e \in Entries :
                 /\ ledger' = Append(ledger, e) /\ e.kind = "deletion" /\ e.op = job[w].op
                 /\ \/ AppendPrepared(w) /\ e.actor = job[w].actor /\ e.state = "prepared"
                    \/ Finish(w) /\ e.op \in Intents(Len(ledger)) /\ e.state = "complete"
  <1>1. CASE AppendPrepared(w)
    <2> DEFINE e == [kind |-> "deletion", op |-> job[w].op, actor |-> job[w].actor, state |-> "prepared"]
    <2>1. job[w].op \in Operations /\ job[w].actor \in Actors
      BY <1>1 DEF AppendPrepared, At, IInv, JobsFit, JobFits, Begins
    <2>2. ledger' = ledger \/ ledger' = Append(ledger, e)
      BY <1>1 DEF AppendPrepared, Fails
    <2>3. e \in Entries
      BY <2>1 DEF Entries
    <2>4. e.kind = "deletion" /\ e.op = job[w].op /\ e.actor = job[w].actor /\ e.state = "prepared"
      OBVIOUS
    <2> HIDE DEF e
    <2> QED BY <1>1, <2>2, <2>3, <2>4
  <1>2. CASE Finish(w)
    <2> DEFINE e == [kind |-> "deletion", op |-> job[w].op, actor |-> Target(job[w].op), state |-> "complete"]
    <2>1. job[w].op \in Intents(Len(ledger))
      BY <1>2 DEF Finish, At, IInv, JobsFit, JobFits, Resumed
    <2>2. PICK o \in Intents(Len(ledger)) : o = job[w].op
      BY <2>1
    <2>3. o \in Operations /\ Target(o) \in Actors
      BY TargetIsKnown DEF IInv, Typed
    <2>4. ledger' = ledger \/ ledger' = Append(ledger, e)
      BY <1>2 DEF Finish, Fails, UnchangedRecords, recordVars
    <2>5. e \in Entries
      BY <2>2, <2>3 DEF Entries
    <2>6. e.kind = "deletion" /\ e.op = job[w].op /\ e.state = "complete"
      OBVIOUS
    <2> HIDE DEF e
    <2> QED BY <1>2, <2>1, <2>4, <2>5, <2>6
  <1>3. CASE ~ AppendPrepared(w) /\ ~ Finish(w)
    BY <1>3 DEF WorkerStep, Advance, DisableRolledBack, Stop, Crash, Fails, Begin, Resume, ReadHead, Reconcile,
       Match, Plan, Prepare, Lookup, Disable, Remove, Absent, Destroy, Verify, Latest, Complete, Report,
       UnchangedRecords, UnchangedButDb, recordVars
  <1> QED BY <1>1, <1>2, <1>3

LEMMA IntentsOfAppended ==
    ASSUME IInv, IInv', NEW e \in Entries, ledger' = Append(ledger, e)
    PROVE  /\ Extends(ledger, ledger')
           /\ e.kind # "deletion" => Intents(Len(ledger))' = Intents(Len(ledger))
           /\ e.kind = "deletion" =>
                 Intents(Len(ledger))' = Intents(Len(ledger)) \cup {e.op} /\ Target(e.op)' = e.actor
  <1>1. ledger \in Seq(Entries) /\ ledger' \in Seq(Entries) /\ LedgerFits'
    BY DEF IInv, Typed
  <1>2. /\ Len(ledger') = Len(ledger) + 1 /\ Len(ledger) \in Nat
        /\ \A i \in 1..Len(ledger) : ledger'[i] = ledger[i]
        /\ ledger'[Len(ledger) + 1] = e
    BY <1>1, AppendProperties
  <1>3. Extends(ledger, ledger')
    BY <1>2 DEF Extends
  <1>4. EntriesOf(ledger', Len(ledger')) =
           EntriesOf(ledger, Len(ledger)) \cup {i \in {Len(ledger) + 1} : e.kind = "deletion"}
    BY <1>2 DEF EntriesOf
  <1>5. \A i \in EntriesOf(ledger, Len(ledger)) : ledger'[i] = ledger[i]
    BY <1>2 DEF EntriesOf
  <1>6. e.kind # "deletion" => OpsOf(ledger', Len(ledger')) = OpsOf(ledger, Len(ledger))
    BY <1>4, <1>5 DEF OpsOf
  <1>7. e.kind = "deletion" => OpsOf(ledger', Len(ledger')) = OpsOf(ledger, Len(ledger)) \cup {e.op}
    <2> SUFFICES ASSUME e.kind = "deletion", NEW o
                 PROVE  o \in OpsOf(ledger', Len(ledger')) <=> o \in OpsOf(ledger, Len(ledger)) \/ o = e.op
      OBVIOUS
    <2> DEFINE E == EntriesOf(ledger, Len(ledger))
               F == EntriesOf(ledger', Len(ledger'))
    <2>1. /\ o \in OpsOf(ledger', Len(ledger')) <=> \E i \in F : ledger'[i].op = o
          /\ o \in OpsOf(ledger, Len(ledger)) <=> \E i \in E : ledger[i].op = o
      BY DEF OpsOf
    <2>2. F = E \cup {Len(ledger) + 1}
      BY <1>4
    <2> HIDE DEF E, F
    <2>3. \A i \in E : ledger'[i] = ledger[i]
      BY <1>5 DEF E
    <2> QED BY <1>2, <2>1, <2>2, <2>3
  <1>8. ASSUME e.kind = "deletion" PROVE ActorOf(ledger', e.op) = e.actor
    <2>1. Len(ledger) + 1 \in EntriesOf(ledger', Len(ledger'))
      BY <1>4, <1>8
    <2>2. OneActor(ledger')
      BY <1>1 DEF LedgerFits, OneActor, Deletions, EntriesOf
    <2>3. PICK i \in EntriesOf(ledger', Len(ledger')) : i = Len(ledger) + 1
      BY <2>1
    <2> QED BY <1>1, <1>2, <2>2, <2>3, ActorIsKnown
  <1>9. Intents(Len(ledger)) = OpsOf(ledger, Len(ledger)) /\ Intents(Len(ledger))' = OpsOf(ledger', Len(ledger'))
    BY DEF Intents, Deletions, OpsOf, EntriesOf
  <1>10. Target(e.op)' = ActorOf(ledger', e.op)
    BY DEF Target, Deletions, ActorOf, EntriesOf
  <1> QED BY <1>3, <1>6, <1>7, <1>8, <1>9, <1>10

(* The tickets of the ledger, and those the workers know.                  *)
NoActorAdded == \A o \in Operations : ticket[o] # None => ticket'[o].scopes \cap Actors \subseteq ticket[o].scopes

LEMMA KnownTicketsStay ==
    ASSUME IInv, IInv', TicketsFit, Extends(ledger, ledger'), NoActorAdded,
           NEW o \in Intents(Len(ledger))
    PROVE  ticket'[o].scopes \cap Actors \subseteq {Target(o)'}
  <1>1. o \in Operations /\ ticket[o] # None
    BY TargetIsKnown DEF IInv, Typed
  <1>2. Target(o)' = Target(o)
    BY IntentsStay DEF IInv
  <1> QED BY <1>1, <1>2 DEF TicketsFit, NoActorAdded

LEMMA OtherTicketsFit ==
    ASSUME IInv, IInv', TicketsFit, Extends(ledger, ledger'), NoActorAdded,
           NEW v \in Workers, job'[v] = job[v]
    PROVE  TicketFits(v)'
  <1>1. JobFits(v) /\ TicketFits(v)
    BY DEF IInv, JobsFit, TicketsFit
  <1>2. At(v, "append") => ticket'[job'[v].op].scopes \cap Actors \subseteq {job'[v].actor}
    BY <1>1 DEF JobFits, TicketFits, NoActorAdded
  <1>3. job[v].at \in {"remove", "absent", "destroy"} => Target(job[v].op)' = Target(job[v].op)
    <2> SUFFICES ASSUME job[v].at \in {"remove", "absent", "destroy"} PROVE Target(job[v].op)' = Target(job[v].op)
      OBVIOUS
    <2>1. PICK o \in Intents(Len(ledger)) : o = job[v].op
      BY <1>1 DEF JobFits, Resumed
    <2>2. Target(o)' = Target(o)
      BY IntentsStay DEF IInv
    <2>3. job'[v].op = o
      BY <2>1
    <2> QED BY <2>1, <2>2, <2>3 DEF Target, Deletions
  <1> QED BY <1>1, <1>2, <1>3 DEF TicketFits, At

\* A job that reached these steps resumed a deletion of the ledger.
LEMMA ResumedTarget ==
    ASSUME IInv, NEW v \in Workers, job[v].at \in Resumed
    PROVE  /\ job[v].op \in Intents(Len(ledger)) /\ job[v].op \in Operations
           /\ Target(job[v].op) \in Actors \cap issued
           /\ ticket[job[v].op] # None /\ ticket[job[v].op] \in Tickets
  <1>1. PICK o \in Intents(Len(ledger)) : o = job[v].op
    BY DEF IInv, JobsFit, JobFits
  <1>2. /\ o \in Operations /\ Target(o) \in Actors \cap issued
        /\ ticket[o] # None /\ ticket[o] \in Tickets
    BY TargetIsKnown DEF IInv, Typed
  <1> QED BY <1>1, <1>2

LEMMA RegisteredScopes ==
    ASSUME IInv, NEW w \in Workers, Registers(w)
    PROVE  /\ \A p \in Operations \ {job[w].op} : ticket'[p] = ticket[p]
           /\ ticket'[job[w].op].scopes = NewScopes(w) /\ ticket'[job[w].op] # None
           /\ ticket'[job[w].op].done => ticket[job[w].op].done /\ NewScopes(w) = ticket[job[w].op].scopes
  <1> DEFINE o == job[w].op
             s == NewScopes(w)
             t == [scopes |-> ticket[o].scopes \cup s, done |-> ticket[o].done /\ s \subseteq ticket[o].scopes]
  <1>1. o \in Operations /\ ticket[o] # None /\ ticket[o] \in Tickets /\ ticket \in [Operations -> Tickets \cup {None}]
    BY ResumedTarget DEF Registers, At, Resumed, IInv, Typed
  <1>2. ticket' = [ticket EXCEPT ![o] = t]
    BY <1>1 DEF Registers, PrepareTicket
  <1>3. ticket[o].scopes \subseteq s /\ t.scopes = ticket[o].scopes \cup s /\ s \subseteq Actors \cup Sessions
    BY <1>1 DEF NewScopes, Tickets, SessionsOf, IInv, ResumedTarget
  <1>4. t.done = (ticket[o].done /\ s \subseteq ticket[o].scopes)
    OBVIOUS
  <1>5. t \in Tickets
    BY <1>1, <1>3 DEF Tickets
  <1> HIDE DEF t, s
  <1>6. ticket'[o] = t /\ \A p \in Operations \ {o} : ticket'[p] = ticket[p]
    BY <1>1, <1>2
  <1> QED BY <1>3, <1>4, <1>5, <1>6, NoneAssumption DEF s

LEMMA PreparedTicket ==
    ASSUME IInv, NEW w \in Workers, Prepare(w)
    PROVE  /\ \A p \in Operations \ {job[w].op} : ticket'[p] = ticket[p]
           /\ ticket[job[w].op] = None /\ job[w].op \in Operations
           /\ ticket'[job[w].op].scopes = {job[w].actor} /\ ticket'[job[w].op] # None
           /\ ~ ticket'[job[w].op].done
           /\ job[w].actor \in Actors \cap issued
           /\ Goto(w, "append") /\ job'[w].at = "append"
           /\ UNCHANGED <<db, issued, credential, dead, ledger>>
  <1> DEFINE o == job[w].op
             t == [scopes |-> {job[w].actor}, done |-> FALSE]
  <1>1. /\ o \in Operations /\ ticket[o] = None /\ ticket \in [Operations -> Tickets \cup {None}]
        /\ job[w].actor \in Actors \cap issued /\ job \in [Workers -> Jobs]
    BY DEF IInv, Typed, JobsFit, JobFits, Prepare, At, Begins
  <1>2. ticket' = [ticket EXCEPT ![o] = t]
    BY <1>1 DEF Prepare, PrepareTicket
  <1>3. t \in Tickets /\ t.scopes = {job[w].actor} /\ ~ t.done
    BY <1>1 DEF Tickets
  <1> HIDE DEF t
  <1>4. ticket'[o] = t /\ \A p \in Operations \ {o} : ticket'[p] = ticket[p]
    BY <1>1, <1>2
  <1>5. Goto(w, "append") /\ UNCHANGED <<db, issued, credential, dead, ledger>>
    BY DEF Prepare
  <1> QED BY <1>1, <1>3, <1>4, <1>5, CallsEnd, NoneAssumption

LEMMA DestroyedTicket ==
    ASSUME IInv, NEW w \in Workers, Destroys(w)
    PROVE  /\ \A p \in Operations \ {job[w].op} : ticket'[p] = ticket[p]
           /\ ticket'[job[w].op].scopes = ticket[job[w].op].scopes /\ ticket'[job[w].op] # None
           /\ dead' = dead \cup job[w].scopes
           /\ job'[w].at = "verify" /\ job'[w].op = job[w].op /\ job'[w].scopes = job[w].scopes
  <1> DEFINE o == job[w].op
             t == [ticket[o] EXCEPT !.done = TRUE]
  <1>1. /\ o \in Operations /\ ticket[o] # None /\ ticket[o] \in Tickets
        /\ ticket \in [Operations -> Tickets \cup {None}] /\ job \in [Workers -> Jobs]
    BY ResumedTarget DEF Destroys, At, Resumed, IInv, Typed
  <1>2. ticket' = [ticket EXCEPT ![o] = t] /\ dead' = dead \cup job[w].scopes
    BY DEF Destroys, DestroyTicket
  <1>3. t \in Tickets /\ t.scopes = ticket[o].scopes
    BY <1>1 DEF Tickets
  <1> HIDE DEF t
  <1>4. ticket'[o] = t /\ \A p \in Operations \ {o} : ticket'[p] = ticket[p]
    BY <1>1, <1>2
  <1>5. Goto(w, "verify")
    BY DEF Destroys
  <1> QED BY <1>1, <1>2, <1>3, <1>4, <1>5, CallsEnd, NoneAssumption

LEMMA WorkersExtend ==
    ASSUME IInv, NEW w \in Workers, WorkerStep(w)
    PROVE  Extends(ledger, ledger')
  <1>1. ledger \in Seq(Entries)
    BY DEF IInv, Typed
  <1>2. CASE ledger' = ledger
    BY <1>1, <1>2 DEF Extends
  <1>3. CASE ledger' # ledger
    BY <1>1, <1>3, WorkersEntry, LedgerExtended
  <1> QED BY <1>2, <1>3

LEMMA WorkersAddNoActor ==
    ASSUME IInv, NEW w \in Workers, WorkerStep(w)
    PROVE  NoActorAdded
  <1>1. Typed
    BY DEF IInv
  <1>2. CASE Quiet(w)
    BY <1>2 DEF Quiet, NoActorAdded
  <1>3. CASE Prepare(w)
    BY <1>3, PreparedTicket DEF NoActorAdded
  <1>4. CASE Registers(w)
    <2>1. NewScopes(w) \cap Actors \subseteq ticket[job[w].op].scopes
      BY ScopesAssumption DEF NewScopes, SessionsOf
    <2> QED BY <1>4, <2>1, RegisteredScopes DEF NoActorAdded
  <1>5. CASE Destroys(w)
    BY <1>5, DestroyedTicket DEF NoActorAdded
  <1> QED BY <1>1, <1>2, <1>3, <1>4, <1>5, WorkersRecords

LEMMA WorkersTickets ==
    ASSUME IInv, IInv', TicketsFit, NEW w \in Workers, WorkerStep(w)
    PROVE  TicketsFit'
  <1>1. Extends(ledger, ledger') /\ NoActorAdded
    BY WorkersExtend, WorkersAddNoActor
  <1>2. Typed /\ job \in [Workers -> Jobs] /\ TicketFits(w) /\ JobFits(w)
    BY DEF IInv, Typed, TicketsFit, JobsFit
  <1>3. /\ \A v \in Workers \ {w} : job'[v] = job[v]
        /\ Anew(w) \/ Onwards(w)
    BY <1>2, WorkersWay
  <1>4. \A v \in Workers \ {w} : TicketFits(v)'
    BY <1>1, <1>3, OtherTicketsFit
  <1>5. TicketFits(w)'
    <2>1. CASE Anew(w)
      BY <2>1 DEF Anew, TicketFits, At
    <2>2. CASE Onwards(w) /\ job'[w].at \notin {"append", "remove", "absent", "destroy"}
      BY <2>2 DEF TicketFits, At
    <2>3. CASE Onwards(w) /\ job'[w].at \in {"absent", "destroy"}
      <3>1. /\ job[w].at \in {"remove", "absent"} /\ job'[w].op = job[w].op /\ job'[w].scopes = job[w].scopes
        BY <2>3 DEF Onwards, Way, At
      <3>2. job[w].scopes \cap Actors \subseteq {Target(job[w].op)}
        BY <1>2, <3>1 DEF TicketFits
      <3>3. PICK o \in Intents(Len(ledger)) : o = job[w].op
        BY <3>1, ResumedTarget DEF Resumed
      <3>4. Target(o)' = Target(o)
        BY <1>1, IntentsStay DEF IInv
      <3>5. Target(job[w].op)' = Target(job[w].op)
        BY <3>1, <3>3, <3>4 DEF Target, Deletions
      <3> QED BY <2>3, <3>1, <3>2, <3>5 DEF TicketFits, At
    <2>4. CASE Prepare(w)
      <3>1. job'[w].op = job[w].op /\ job'[w].actor = job[w].actor
        BY <1>2, <2>4, PreparedTicket, CallsEnd
      <3> QED BY <2>4, <3>1, PreparedTicket DEF TicketFits, At
    <2>5. CASE Registers(w)
      <3>1. CASE ~ Anew(w)
        <4>1. job'[w].at = "remove" /\ job'[w].scopes = NewScopes(w) /\ job'[w].op = job[w].op
          BY <2>5, <3>1 DEF Registers
        <4>2. PICK o \in Intents(Len(ledger)) : o = job[w].op
          BY <2>5, ResumedTarget DEF Registers, At, Resumed
        <4>3. ticket[o].scopes \cap Actors \subseteq {Target(o)}
          BY <4>2 DEF TicketsFit
        <4>4. NewScopes(w) \cap Actors \subseteq {Target(o)}
          BY <4>2, <4>3, ScopesAssumption DEF NewScopes, SessionsOf
        <4>5. Target(o)' = Target(o)
          BY <1>1, IntentsStay DEF IInv
        <4>6. Target(job[w].op)' = Target(o)
          BY <4>1, <4>2, <4>5 DEF Target, Deletions
        <4> QED BY <4>1, <4>4, <4>6 DEF TicketFits, At
      <3> QED BY <3>1, <2>1
    <2>6. CASE Destroys(w)
      BY <2>6, DestroyedTicket DEF TicketFits, At
    <2>7. CASE Quiet(w)
      BY <1>3, <2>1, <2>2, <2>3, <2>7 DEF Quiet
    <2> QED BY <1>2, <2>4, <2>5, <2>6, <2>7, WorkersRecords
  <1>6. \A o \in Intents(Len(ledger))' : ticket'[o].scopes \cap Actors \subseteq {Target(o)'}
    <2>1. \A o \in Intents(Len(ledger)) : ticket'[o].scopes \cap Actors \subseteq {Target(o)'}
      BY <1>1, KnownTicketsStay
    <2>2. CASE ledger' = ledger
      BY <2>1, <2>2 DEF Intents, Deletions
    <2>3. CASE ledger' # ledger
      <3>1. PICK e \in Entries :
                 /\ ledger' = Append(ledger, e) /\ e.kind = "deletion" /\ e.op = job[w].op
                 /\ \/ AppendPrepared(w) /\ e.actor = job[w].actor
                    \/ Finish(w) /\ e.op \in Intents(Len(ledger))
        BY <2>3, WorkersEntry
      <3>2. Intents(Len(ledger))' = Intents(Len(ledger)) \cup {e.op} /\ Target(e.op)' = e.actor
        BY <3>1, IntentsOfAppended
      <3>3. CASE Finish(w) /\ e.op \in Intents(Len(ledger))
        BY <2>1, <3>2, <3>3
      <3>4. CASE AppendPrepared(w) /\ e.actor = job[w].actor
        <4>1. At(w, "append") /\ e.op \in Operations /\ ticket[e.op] # None
          BY <1>2, <3>1, <3>4 DEF AppendPrepared, JobFits
        <4>2. ticket[e.op].scopes \cap Actors \subseteq {e.actor}
          BY <1>2, <3>1, <3>4, <4>1 DEF TicketFits
        <4>3. ticket'[e.op].scopes \cap Actors \subseteq {Target(e.op)'}
          BY <1>1, <3>2, <4>1, <4>2 DEF NoActorAdded
        <4>4. SUFFICES ASSUME NEW o \in Intents(Len(ledger))'
                       PROVE  ticket'[o].scopes \cap Actors \subseteq {Target(o)'}
          OBVIOUS
        <4>5. o \in Intents(Len(ledger)) \/ o = e.op
          BY <3>2
        <4>6. ASSUME o = e.op PROVE Target(o)' = Target(e.op)'
          BY <4>6 DEF Target, Deletions
        <4> QED BY <2>1, <4>3, <4>5, <4>6
      <3> QED BY <3>1, <3>3, <3>4
    <2> QED BY <2>2, <2>3
  <1> QED BY <1>4, <1>5, <1>6 DEF TicketsFit

LEMMA WorkersTend ==
    ASSUME IInv, IInv', ScopesFit, TicketsFit, NEW w \in Workers, WorkerStep(w)
    PROVE  Tends
  <1>0. Typed /\ db \in Dbs /\ job \in [Workers -> Jobs] /\ ticket \in [Operations -> Tickets \cup {None}]
    BY DEF IInv, Typed
  <1>1. Extends(ledger, ledger')
    BY WorkersExtend
  <1>2. /\ \A v \in Workers \ {w} : job'[v] = job[v]
        /\ Anew(w) \/ Onwards(w)
    BY <1>0, WorkersWay
  <1>3. Rows = RowsIn(db)
    BY <1>0, RowsOfChanged
  <1>4. issued' = issued /\ RowsIn(db') \subseteq RowsIn(db)
    <2>1. Registers(w) => issued' = issued /\ RowsIn(db') \subseteq RowsIn(db)
      BY <1>0, RowsOfChanged DEF Registers
    <2>2. Prepare(w) => issued' = issued /\ RowsIn(db') \subseteq RowsIn(db)
      BY PreparedTicket
    <2> QED BY <1>0, <2>1, <2>2, WorkersRecords DEF Quiet, Destroys
  <1>5. credential' = credential
    BY <1>0, PreparedTicket, WorkersRecords DEF Quiet, Destroys, Registers
  <1>6. \A p \in Operations : ticket'[p] # None => ticket'[p].scopes \subseteq Named \cup issued
    <2>0. \A p \in Operations : ticket[p] # None => ticket[p].scopes \subseteq Named
      BY DEF Named
    <2>1. CASE Quiet(w)
      BY <2>0, <2>1 DEF Quiet
    <2>2. CASE Prepare(w)
      BY <2>0, <2>2, PreparedTicket
    <2>3. CASE Registers(w)
      <3>1. NewScopes(w) \subseteq Named \cup issued
        <4>1. SessionsOf(Target(job[w].op)) \subseteq RowsIn(db)
          BY DEF SessionsOf, RowsIn
        <4>2. job[w].op \in Operations /\ ticket[job[w].op] # None
          BY <2>3, ResumedTarget DEF Registers, At, Resumed
        <4> QED BY <2>0, <4>1, <4>2 DEF ScopesFit, NewScopes
      <3> QED BY <2>0, <2>3, <3>1, RegisteredScopes
    <2>4. CASE Destroys(w)
      <3>1. job[w].op \in Operations /\ ticket[job[w].op] # None
        BY <2>4, ResumedTarget DEF Destroys, At, Resumed
      <3> QED BY <2>0, <2>4, <3>1, DestroyedTicket
    <2> QED BY <1>0, <2>1, <2>2, <2>3, <2>4, WorkersRecords
  <1>7. \A v \in Workers : job'[v].scopes \subseteq Named \cup issued
    <2>0. \A v \in Workers : job[v].scopes \subseteq Named
      BY DEF Named
    <2>1. CASE Registers(w) /\ ~ Anew(w)
      <3>1. job'[w].scopes = ticket'[job[w].op].scopes /\ ticket'[job[w].op] # None /\ job[w].op \in Operations
        BY <2>1, RegisteredScopes, ResumedTarget DEF Registers, At, Resumed
      <3> QED BY <1>2, <1>6, <2>0, <3>1
    <2>2. CASE Anew(w)
      BY <1>2, <2>0, <2>2 DEF Anew
    <2>3. CASE ~ Registers(w) /\ ~ Anew(w)
      <3>1. job'[w].scopes = job[w].scopes \/ At(w, "disable")
        BY <1>2, <2>3 DEF Onwards
      <3>2. CASE At(w, "disable")
        <4>1. job'[w].at = "remove"
          BY <1>2, <2>3, <3>2 DEF Onwards, Way, At
        <4>2. ~ Quiet(w) /\ ~ Destroys(w) /\ ~ Prepare(w)
          BY <3>2, <4>1 DEF Quiet, Destroys, Prepare, At
        <4> QED BY <1>0, <2>3, <4>2, WorkersRecords
      <3> QED BY <1>2, <2>0, <3>1, <3>2
    <2> QED BY <2>1, <2>2, <2>3
  <1>8. /\ dead' \subseteq Doomed
        /\ \A a \in dead' \cap Actors :
              a \in dead \/ \E v \in Workers : At(v, "destroy") /\ Target(job[v].op) = a
    <2>1. CASE Destroys(w)
      <3>1. dead' = dead \cup job[w].scopes /\ At(w, "destroy")
        BY <2>1, DestroyedTicket DEF Destroys
      <3>2. job[w].scopes \cap Actors \subseteq {Target(job[w].op)}
        BY <3>1 DEF TicketsFit, TicketFits, At
      <3>3. job[w].scopes \subseteq Doomed
        BY <3>1 DEF Doomed
      <3> QED BY <3>1, <3>2, <3>3 DEF Doomed
    <2>2. CASE dead' = dead
      BY <2>2 DEF Doomed
    <2> QED BY <1>0, <2>1, <2>2, PreparedTicket, WorkersRecords DEF Quiet, Registers
  <1>9. Named' \subseteq Named \cup issued
    <2> SUFFICES ASSUME NEW x \in Named' PROVE x \in Named \cup issued
      OBVIOUS
    <2>1. CASE x \in dead'
      BY <2>1, <1>8, DoomedIsNamed
    <2>2. CASE \E o \in Operations : ticket'[o] # None /\ x \in ticket'[o].scopes
      BY <2>2, <1>6
    <2>3. CASE \E v \in Workers : x \in job'[v].scopes
      BY <2>3, <1>7
    <2>4. CASE x \in Sessions /\ credential'[x] # "none"
      BY <2>4, <1>5 DEF Named
    <2> QED BY <2>1, <2>2, <2>3, <2>4 DEF Named
  <1>10. Named \subseteq issued
    BY DEF ScopesFit
  <1>11. ASSUME job'[w].at = "destroy"
         PROVE  job'[w].scopes \subseteq Doomed \cup (issued \ Rows)
    <2>1. Quiet(w)
      <3>1. ~ Anew(w)
        BY <1>11 DEF Anew
      <3> QED BY <1>0, <1>11, <3>1, PreparedTicket, DestroyedTicket, WorkersRecords DEF Registers
    <2> QED BY <1>7, <1>10, <1>11, <2>1 DEF Quiet
  <1>12. Doomed' \subseteq Doomed \cup (issued \ Rows)
    <2> SUFFICES ASSUME NEW x \in Doomed' PROVE x \in Doomed \cup (issued \ Rows)
      OBVIOUS
    <2>1. CASE x \in dead'
      BY <2>1, <1>8
    <2>2. CASE \E v \in Workers : job'[v].at = "destroy" /\ x \in job'[v].scopes
      <3>1. PICK v \in Workers : job'[v].at = "destroy" /\ x \in job'[v].scopes
        BY <2>2
      <3>2. CASE v = w
        BY <1>11, <3>1, <3>2
      <3>3. CASE v # w
        BY <1>2, <3>1, <3>3 DEF Doomed, At
      <3> QED BY <3>2, <3>3
    <2>3. CASE x \in Sessions /\ credential'[x] = "checked"
      BY <2>3, <1>5 DEF Doomed
    <2> QED BY <2>1, <2>2, <2>3 DEF Doomed, At
  <1>13. ASSUME db.status = "restoring"
         PROVE  /\ db'.status = "restoring"
                /\ \A v \in Workers : job'[v].at \in Kept => job[v].at \in Kept /\ job'[v].op = job[v].op
    <2>1. db'.status = "restoring"
      BY <1>0, <1>13, PreparedTicket, StatusOfChanged, WorkersRecords DEF Quiet, Registers, Destroys
    <2>2. ASSUME job'[w].at \in Kept PROVE job[w].at \in Kept /\ job'[w].op = job[w].op
      <3>1. Onwards(w)
        BY <1>2, <2>2 DEF Anew, Kept
      <3>2. <<job[w].at, job'[w].at>> \in {<<"remove", "absent">>, <<"absent", "destroy">>}
        BY <2>2, <3>1 DEF Onwards, Way, Kept
      <3>3. ASSUME job'[w].at = "absent" PROVE FALSE
        <4>1. Quiet(w)
          BY <1>0, <3>3, PreparedTicket, DestroyedTicket, WorkersRecords DEF Registers, Anew
        <4> QED BY <1>13, <3>3, <4>1 DEF Quiet
      <3>4. job[w].at = "absent" /\ job'[w].at = "destroy"
        BY <3>2, <3>3
      <3> QED BY <3>1, <3>4 DEF Onwards, Kept, At
    <2> QED BY <1>2, <2>1, <2>2
  <1> QED BY <1>1, <1>4, <1>8, <1>9, <1>12, <1>13 DEF Tends

(* The cleanup of sessions and the users.                                  *)
LEMMA TicketsUndisturbed ==
    ASSUME IInv, IInv', TicketsFit, UNCHANGED <<ledger, job>>, NoActorAdded
    PROVE  TicketsFit'
  <1>1. Extends(ledger, ledger')
    BY DEF IInv, Typed, Extends
  <1>2. \A v \in Workers : TicketFits(v)'
    BY <1>1, OtherTicketsFit
  <1>3. \A o \in Intents(Len(ledger)) : ticket'[o].scopes \cap Actors \subseteq {Target(o)'}
    BY <1>1, KnownTicketsStay
  <1>4. Intents(Len(ledger))' = Intents(Len(ledger))
    BY DEF Intents, Deletions
  <1> QED BY <1>2, <1>3, <1>4 DEF TicketsFit

LEMMA CleanupTends ==
    ASSUME IInv, IInv', RestTyped, ScopesFit, CleanupNext
    PROVE  Tends /\ UNCHANGED <<ledger, job, ticket>>
  <1>1. PICK s \in Sessions : DeleteExpired(s) \/ CheckAbsent(s) \/ DestroyCredential(s) \/ SealOverdue(s)
    BY DEF CleanupNext
  <1>2. db \in Dbs /\ Rows = RowsIn(db) /\ ledger \in Seq(Entries)
    BY RowsOfChanged DEF IInv, Typed
  <1>3. UNCHANGED <<ticket, ledger, job, issued>>
    BY <1>1 DEF DeleteExpired, CheckAbsent, DestroyCredential, SealOverdue, deletionVars
  <1>4. db' \in {db, Quarantined(db), WithoutSessions(db, {s})}
    BY <1>1 DEF DeleteExpired, CheckAbsent, DestroyCredential, SealOverdue
  <1>5. RowsIn(db') \subseteq RowsIn(db) /\ (db.status = "restoring" => db'.status = "restoring")
    BY <1>2, <1>4, RowsOfChanged, StatusOfChanged
  <1>6. \A x \in Sessions : \/ credential'[x] = credential[x]
                            \/ x = s /\ credential'[x] = "destroyed" /\ credential[x] = "checked"
                            \/ x = s /\ credential'[x] = "pending" /\ x \in RowsIn(db)
                            \/ x = s /\ credential'[x] = "checked" /\ credential[x] = "pending" /\ x \notin Rows
    <2>0. credential \in [Sessions -> {"none", "pending", "checked", "destroyed"}]
      BY DEF RestTyped
    <2>1. \A x \in Sessions \ {s} : credential'[x] = credential[x]
      BY <1>1, <2>0 DEF DeleteExpired, CheckAbsent, DestroyCredential, SealOverdue
    <2>2. DeleteExpired(s) => s \in RowsIn(db)
      <3>1. DeleteExpired(s) => db.session[s] # None
        BY DEF DeleteExpired
      <3> QED BY <3>1 DEF RowsIn
    <2>3. CheckAbsent(s) => s \notin Rows
      BY DEF CheckAbsent, AbsentRows
    <2>4. \/ credential'[s] = credential[s]
          \/ credential'[s] = "destroyed" /\ credential[s] = "checked"
          \/ credential'[s] = "pending" /\ s \in RowsIn(db)
          \/ credential'[s] = "checked" /\ credential[s] = "pending" /\ s \notin Rows
      BY <1>1, <2>0, <2>2, <2>3 DEF DeleteExpired, CheckAbsent, DestroyCredential, SealOverdue
    <2> QED BY <2>1, <2>4
  <1>7. dead' = dead \/ (dead' = dead \cup {s} /\ credential[s] = "checked")
    BY <1>1 DEF DeleteExpired, CheckAbsent, DestroyCredential, SealOverdue
  <1>8. dead' \subseteq Doomed /\ dead' \cap Actors \subseteq dead
    BY <1>7, ScopesAssumption DEF Doomed
  <1>9. Named' \subseteq Named \cup issued
    <2> SUFFICES ASSUME NEW x \in Named' PROVE x \in Named \cup issued
      OBVIOUS
    <2>1. CASE x \in dead'
      BY <2>1, <1>8, DoomedIsNamed
    <2>2. CASE \E o \in Operations : ticket'[o] # None /\ x \in ticket'[o].scopes
      BY <2>2, <1>3 DEF Named
    <2>3. CASE \E v \in Workers : x \in job'[v].scopes
      BY <2>3, <1>3 DEF Named
    <2>4. CASE x \in Sessions /\ credential'[x] # "none"
      BY <2>4, <1>6 DEF Named, ScopesFit
    <2> QED BY <2>1, <2>2, <2>3, <2>4 DEF Named
  <1>10. Doomed' \subseteq Doomed \cup (issued \ Rows)
    <2> SUFFICES ASSUME NEW x \in Doomed' PROVE x \in Doomed \cup (issued \ Rows)
      OBVIOUS
    <2>1. CASE x \in dead'
      BY <2>1, <1>8
    <2>2. CASE \E v \in Workers : job'[v].at = "destroy" /\ x \in job'[v].scopes
      BY <2>2, <1>3 DEF Doomed, At
    <2>3. CASE x \in Sessions /\ credential'[x] = "checked"
      <3>1. credential[x] = "checked" \/ (credential[x] = "pending" /\ x \notin Rows)
        BY <2>3, <1>6
      <3>2. credential[x] = "pending" => x \in issued
        BY <2>3 DEF ScopesFit, Named
      <3> QED BY <2>3, <3>1, <3>2 DEF Doomed
    <2> QED BY <2>1, <2>2, <2>3 DEF Doomed, At
  <1>11. Extends(ledger, ledger')
    BY <1>2, <1>3 DEF Extends
  <1> QED BY <1>3, <1>5, <1>8, <1>9, <1>10, <1>11 DEF Tends

LEMMA UsersTend ==
    ASSUME IInv, IInv', ScopesFit, UserNext
    PROVE  Tends /\ UNCHANGED <<ledger, job, ticket>>
  <1>1. db \in Dbs /\ Rows = RowsIn(db) /\ ledger \in Seq(Entries)
    BY RowsOfChanged DEF IInv, Typed
  <1>2. UNCHANGED <<ticket, credential, dead, ledger, job>>
    BY DEF UserNext, FirstLogin, Login, EndSession, DbOnly, deletionVars
  <1>3. issued \subseteq issued' /\ RowsIn(db') \subseteq RowsIn(db) \cup (issued' \ issued)
    <2>1. ASSUME NEW a \in Actors, FirstLogin(a) PROVE issued \subseteq issued' /\ RowsIn(db') \subseteq RowsIn(db) \cup (issued' \ issued)
      <3>1. db'.identity = db.identity \cup {a} /\ db'.session = db.session /\ a \notin issued /\ issued' = issued \cup {a}
        BY <1>1, <2>1 DEF FirstLogin, Dbs
      <3> QED BY <3>1 DEF RowsIn
    <2>2. ASSUME NEW a \in Actors, NEW s \in Sessions, Login(a, s)
          PROVE  issued \subseteq issued' /\ RowsIn(db') \subseteq RowsIn(db) \cup (issued' \ issued)
      <3> DEFINE row == [owner |-> a, state |-> "active"]
      <3>1. /\ db'.identity = db.identity /\ db'.session = [db.session EXCEPT ![s] = row]
            /\ s \notin issued /\ issued' = issued \cup {s}
        BY <1>1, <2>2 DEF Login, Dbs
      <3> HIDE DEF row
      <3>2. \A r \in Sessions \ {s} : db'.session[r] = db.session[r]
        BY <1>1, <3>1 DEF Dbs
      <3>3. ASSUME NEW x \in RowsIn(db') PROVE x \in RowsIn(db) \cup {s}
        <4>1. x \in db'.identity \/ (x \in Sessions /\ db'.session[x] # None)
          BY <3>3 DEF RowsIn
        <4> QED BY <3>1, <3>2, <4>1 DEF RowsIn
      <3> QED BY <3>1, <3>3
    <2>3. ASSUME NEW s \in Sessions, EndSession(s)
          PROVE  issued \subseteq issued' /\ RowsIn(db') \subseteq RowsIn(db) \cup (issued' \ issued)
      <3>1. PICK st \in {"due", "revoked"} : db' = [db EXCEPT !.session[s].state = st]
        BY <2>3 DEF EndSession
      <3> DEFINE row == [db.session[s] EXCEPT !.state = st]
      <3>2. db'.identity = db.identity /\ db'.session = [db.session EXCEPT ![s] = row]
        BY <1>1, <3>1 DEF Dbs
      <3> HIDE DEF row
      <3>3. \A r \in Sessions \ {s} : db'.session[r] = db.session[r]
        BY <1>1, <3>2 DEF Dbs
      <3>4. db.session[s] # None /\ issued' = issued
        BY <2>3 DEF EndSession
      <3>5. ASSUME NEW x \in RowsIn(db') PROVE x \in RowsIn(db)
        <4>1. x \in db'.identity \/ (x \in Sessions /\ db'.session[x] # None)
          BY <3>5 DEF RowsIn
        <4> QED BY <3>2, <3>3, <3>4, <4>1 DEF RowsIn
      <3> QED BY <3>4, <3>5
    <2> QED BY <2>1, <2>2, <2>3 DEF UserNext
  <1>4. Named' = Named /\ Doomed' = Doomed
    BY <1>2 DEF Named, Doomed, At
  <1>5. db.status = "restoring" => db'.status = "restoring"
    <2>1. db.status = "restoring" => \E s \in Sessions : EndSession(s)
      BY DEF UserNext, FirstLogin, Login
    <2>2. ASSUME NEW s \in Sessions, EndSession(s) PROVE db'.status = db.status
      BY <1>1, <2>2 DEF EndSession, Dbs
    <2> QED BY <2>1, <2>2
  <1>6. Extends(ledger, ledger')
    BY <1>1, <1>2 DEF Extends
  <1> QED BY <1>2, <1>3, <1>4, <1>5, <1>6 DEF Tends

LEMMA OthersKeepKeys ==
    ASSUME IInv, IInv', RestTyped, KeysInv, WorkerNext \/ CleanupNext \/ UserNext, UNCHANGED restoreVars
    PROVE  KeysInv'
  <1>1. CASE CleanupNext \/ UserNext
    <2>1. Tends /\ UNCHANGED <<ledger, job, ticket>>
      BY <1>1, CleanupTends, UsersTend DEF KeysInv
    <2>2. NoActorAdded
      BY <2>1 DEF NoActorAdded
    <2> QED BY <2>1, <2>2, TicketsUndisturbed, BesideKeys DEF KeysInv
  <1>2. CASE WorkerNext
    <2>1. PICK w \in Workers : WorkerStep(w)
      BY <1>2 DEF WorkerNext, WorkerStep
    <2> QED BY <2>1, WorkersTickets, WorkersTend, BesideKeys DEF KeysInv
  <1> QED BY <1>1, <1>2

-----------------------------------------------------------------------------
(* Keys and rows in a run                                                  *)

LEMMA RunSealStays ==
    ASSUME IInv, IInv', Extends(ledger, ledger'), NEW h \in 0..Len(ledger), SealedBy(h), job' = job,
           \A a \in dead' \cap Actors : a \in dead \/ \E o \in Intents(h) : Target(o) = a
    PROVE  SealedBy(h)'
  <1>1. Typed /\ Typed' /\ LedgerFits /\ LedgerFits'
    BY DEF IInv
  <1>2. Intents(h)' = Intents(h)
    BY <1>1, IntentsStay
  <1>3. \A o \in Intents(h) : Target(o)' = Target(o)
    BY <1>1, IntentsStay, TargetIsKnown
  <1>4. ASSUME NEW a \in dead' \cap Actors PROVE \E o \in Intents(h) : Target(o) = a
    BY <1>4 DEF SealedBy
  <1>5. \A a \in dead' \cap Actors : \E o \in Intents(h)' : Target(o)' = a
    BY <1>2, <1>3, <1>4
  <1>6. \A v \in Workers : job'[v].at \in {"absent", "destroy"} => job'[v].op \in Intents(h)'
    BY <1>2 DEF SealedBy
  <1> QED BY <1>5, <1>6 DEF SealedBy

(* The ledger as it is knows every deletion that destroys an actor's key.  *)
LEMMA SealedNow ==
    ASSUME IInv, RunSeals
    PROVE  SealedBy(Len(ledger))
  BY DEF RunSeals, SealedBy, IInv, JobsFit, JobFits, Resumed

LEMMA RunKeys ==
    ASSUME IInv, IInv', KeysInv, UNCHANGED <<issued, job, backup>>, Extends(ledger, ledger'),
           Intents(Len(ledger))' = Intents(Len(ledger)), RowsIn(db') \subseteq RowsIn(db),
           Named' \subseteq Named \cup issued, NoActorAdded,
           \A a \in dead' \cap Actors : a \in dead \/ \E o \in Intents(Len(ledger)) : Target(o) = a,
           run'.at \notin {"idle", "isolate", "open", "opened"} => db'.status = "restoring",
           run'.at \in {"tickets", "reconcile"} => SealedBy(run.head)',
           run'.at \in Applying => SealedBy(run.initial)',
           DoomedIsGone'
    PROVE  KeysInv'
  <1>1. ScopesFit'
    BY ScopesStay DEF KeysInv
  <1>2. TicketsFit'
    <2>1. \A v \in Workers : TicketFits(v)'
      BY OtherTicketsFit DEF KeysInv
    <2>2. \A o \in Intents(Len(ledger)) : ticket'[o].scopes \cap Actors \subseteq {Target(o)'}
      BY KnownTicketsStay DEF KeysInv
    <2> QED BY <2>1, <2>2 DEF TicketsFit
  <1>3. (\A a \in dead \cap Actors : \E o \in Intents(Len(ledger)) : Target(o) = a)'
    BY DeadActorsAreKnown DEF KeysInv
  <1> QED BY <1>1, <1>2, <1>3 DEF KeysInv, RunSeals

(* A step that does nothing to a key.                                      *)
LEMMA CalmKeys ==
    ASSUME IInv, IInv', KeysInv, UNCHANGED <<issued, job, backup, ticket, credential, dead>>,
           Extends(ledger, ledger'), Intents(Len(ledger))' = Intents(Len(ledger)),
           RowsIn(db') \subseteq RowsIn(db),
           run'.at \notin {"idle", "isolate", "open", "opened"} => db'.status = "restoring",
           run'.at \in {"tickets", "reconcile"} =>
              \/ run'.head = Len(ledger)
              \/ run.at \in {"tickets", "reconcile"} /\ run'.head = run.head,
           run'.at \in Applying =>
              \/ run.at \in Applying /\ run'.initial = run.initial
              \/ run.at = "reconcile" /\ run'.initial = run.head,
           (traffic' = "open" \/ run'.at \in Applied) => (traffic = "open" \/ run.at \in Applied),
           (traffic' = "open" \/ run'.at \in Discarded) => (traffic = "open" \/ run.at \in Discarded)
    PROVE  KeysInv'
  <1>1. Named' = Named /\ Doomed' = Doomed
    BY DEF Named, Doomed, At
  <1>2. NoActorAdded
    BY DEF NoActorAdded
  <1>3. DoomedIsGone'
    BY <1>1, DoomedStays DEF KeysInv
  <1>4. /\ run.head \in 0..Len(ledger) /\ run.initial \in 0..Len(ledger)
        /\ Len(ledger) \in 0..Len(ledger)
    BY DEF IInv, Typed, Runs
  <1>5. ASSUME NEW h \in 0..Len(ledger), SealedBy(h) PROVE SealedBy(h)'
    BY <1>5, RunSealStays
  <1>6. run'.at \in {"tickets", "reconcile"} => SealedBy(run.head)'
    <2> SUFFICES ASSUME run'.at \in {"tickets", "reconcile"} PROVE SealedBy(run.head)'
      OBVIOUS
    <2>1. PICK h \in 0..Len(ledger) : h = run'.head /\ SealedBy(h)
      BY <1>4, SealedNow DEF KeysInv, RunSeals
    <2>2. SealedBy(h)'
      BY <1>5, <2>1
    <2> QED BY <2>1, <2>2 DEF SealedBy, Intents, Deletions
  <1>7. run'.at \in Applying => SealedBy(run.initial)'
    <2> SUFFICES ASSUME run'.at \in Applying PROVE SealedBy(run.initial)'
      OBVIOUS
    <2>1. PICK h \in 0..Len(ledger) : h = run'.initial /\ SealedBy(h)
      BY <1>4 DEF KeysInv, RunSeals
    <2>2. SealedBy(h)'
      BY <1>5, <2>1
    <2> QED BY <2>1, <2>2 DEF SealedBy, Intents, Deletions
  <1> QED BY <1>1, <1>2, <1>3, <1>6, <1>7, RunKeys

LEMMA OnlyRunKeys ==
    ASSUME IInv, IInv', KeysInv, RunOnly,
           run'.at \notin {"idle", "isolate", "open", "opened"} => run.at \notin {"idle", "isolate", "open", "opened"},
           run'.at \in {"tickets", "reconcile"} =>
              \/ run'.head = Len(ledger)
              \/ run.at \in {"tickets", "reconcile"} /\ run'.head = run.head,
           run'.at \in Applying =>
              \/ run.at \in Applying /\ run'.initial = run.initial
              \/ run.at = "reconcile" /\ run'.initial = run.head,
           run'.at \in Applied => run.at \in Applied,
           run'.at \in Discarded => run.at \in Discarded
    PROVE  KeysInv'
  <1>1. UNCHANGED <<issued, job, backup, ticket, credential, dead, ledger, db, traffic>>
    BY DEF RunOnly, vars, recordVars, deletionVars
  <1>2. Extends(ledger, ledger') /\ Intents(Len(ledger))' = Intents(Len(ledger))
    BY <1>1 DEF IInv, Typed, Extends, Intents, Deletions
  <1>3. run'.at \notin {"idle", "isolate", "open", "opened"} => db'.status = "restoring"
    BY <1>1 DEF KeysInv, RunSeals
  <1> QED BY <1>1, <1>2, <1>3, CalmKeys

LEMMA FailedRunKeys ==
    ASSUME IInv, IInv', KeysInv, RunFails
    PROVE  KeysInv'
  <1>1. /\ UNCHANGED <<issued, job, backup, ticket, credential, dead, ledger>>
        /\ db' = Quarantined(db) /\ traffic' = "closed" /\ run' = NoRun
    BY DEF RunFails, deletionVars
  <1>2. Extends(ledger, ledger') /\ Intents(Len(ledger))' = Intents(Len(ledger))
    BY <1>1 DEF IInv, Typed, Extends, Intents, Deletions
  <1>3. RowsIn(db') \subseteq RowsIn(db)
    BY <1>1, RowsOfChanged DEF IInv, Typed
  <1>4. run'.at = "idle" /\ run'.at \notin Applying /\ run'.at \notin Applied /\ run'.at \notin Discarded
    BY <1>1, IdleRun DEF Applying, Applied, Discarded
  <1> QED BY <1>1, <1>2, <1>3, <1>4, CalmKeys

(* The steps of the operator and of the run, one after the other.          *)
LEMMA OperatorKeys ==
    ASSUME IInv, IInv', KeysInv, TakeBackup \/ PutBackup \/ Start
    PROVE  KeysInv'
  <1>1. CASE TakeBackup
    <2>1. /\ UNCHANGED <<db, issued, ticket, credential, dead, ledger, job, run, traffic>>
          /\ backup'.db = db
      BY <1>1 DEF TakeBackup, vars, recordVars, deletionVars
    <2>2. RowsIn(db)' = RowsIn(db) /\ RowsIn(backup'.db) = RowsIn(db)
      BY <2>1 DEF RowsIn
    <2>3. Named' = Named /\ Doomed' = Doomed /\ Rows' = Rows
      BY <2>1 DEF Named, Doomed, Rows, At
    <2>4. RowsIn(backup.db)' = RowsIn(backup'.db)
      BY DEF RowsIn
    <2>5. ScopesFit'
      BY <2>1, <2>2, <2>3, <2>4 DEF KeysInv, ScopesFit
    <2>6. TicketsFit' /\ RunSeals'
      <3>1. NoActorAdded
        BY <2>1 DEF NoActorAdded
      <3>2. TicketsFit'
        BY <2>1, <3>1, TicketsUndisturbed DEF KeysInv
      <3>3. \A h : Intents(h)' = Intents(h)
        BY <2>1 DEF Intents, Deletions
      <3>4. \A o : Target(o)' = Target(o)
        BY <2>1 DEF Target, Deletions
      <3>5. \A h : SealedBy(h)' = SealedBy(h)
        BY <2>1, <3>3, <3>4 DEF SealedBy
      <3> QED BY <2>1, <3>2, <3>3, <3>4, <3>5 DEF KeysInv, RunSeals
    <2>7. DoomedIsGone'
      BY <2>1, <2>3 DEF KeysInv, DoomedIsGone
    <2> QED BY <2>5, <2>6, <2>7 DEF KeysInv
  <1>2. CASE PutBackup
    <2>1. /\ UNCHANGED <<issued, ticket, credential, dead, ledger, job, run, backup>>
          /\ backup # None /\ db' = backup.db /\ traffic' = "closed" /\ run.at = "idle"
      BY <1>2 DEF PutBackup, deletionVars, IInv, BackupComesFirst
    <2>2. RowsIn(db') \subseteq issued /\ RowsIn(db)' = RowsIn(db') /\ RowsIn(backup.db)' = RowsIn(backup.db)
      BY <2>1 DEF KeysInv, ScopesFit, RowsIn
    <2>3. Named' = Named
      BY <2>1 DEF Named
    <2>4. ScopesFit'
      BY <2>1, <2>2, <2>3 DEF KeysInv, ScopesFit
    <2>5. TicketsFit'
      <3>1. NoActorAdded
        BY <2>1 DEF NoActorAdded
      <3> QED BY <2>1, <3>1, TicketsUndisturbed DEF KeysInv
    <2>6. RunSeals' /\ DoomedIsGone'
      <3>1. Intents(Len(ledger))' = Intents(Len(ledger)) /\ \A o : Target(o)' = Target(o)
        BY <2>1 DEF Intents, Target, Deletions
      <3>2. (\A a \in dead \cap Actors : \E o \in Intents(Len(ledger)) : Target(o) = a)'
        BY <2>1, <3>1 DEF KeysInv, RunSeals
      <3>3. run'.at = "idle" /\ run'.at \notin Applying /\ run'.at \notin Applied /\ run'.at \notin Discarded
        BY <2>1 DEF Applying, Applied, Discarded
      <3> QED BY <2>1, <3>2, <3>3 DEF RunSeals, DoomedIsGone
    <2> QED BY <2>4, <2>5, <2>6 DEF KeysInv
  <1>3. CASE Start
    <2>1. RunOnly /\ run'.at = "isolate"
      BY <1>3 DEF Start, Step, IInv, Typed, Runs
    <2> QED BY <2>1, OnlyRunKeys DEF Applying, Applied, Discarded
  <1> QED BY <1>1, <1>2, <1>3

LEMMA IsolateKeys ==
    ASSUME IInv, IInv', KeysInv, Isolate
    PROVE  KeysInv'
  <1>1. /\ UNCHANGED <<issued, job, backup, ticket, credential, dead, ledger, traffic>>
        /\ db' = [db EXCEPT !.status = "restoring"] /\ run'.at = "latest"
    BY DEF Isolate, DbAnd, deletionVars, Step, IInv, Typed, Runs
  <1>2. Extends(ledger, ledger') /\ Intents(Len(ledger))' = Intents(Len(ledger))
    BY <1>1 DEF IInv, Typed, Extends, Intents, Deletions
  <1>3. RowsIn(db') \subseteq RowsIn(db) /\ db'.status = "restoring"
    BY <1>1 DEF IInv, Typed, Dbs, RowsIn
  <1>4. run'.at \notin Applying /\ run'.at \notin Applied /\ run'.at \notin Discarded
    BY <1>1 DEF Applying, Applied, Discarded
  <1> QED BY <1>1, <1>2, <1>3, <1>4, CalmKeys

LEMMA EarlyKeys ==
    ASSUME IInv, IInv', KeysInv, LatestHead \/ CheckActorTickets \/ ReconcileIntents
    PROVE  KeysInv'
  <1>0. run \in Runs /\ Len(ledger) \in Nat
    BY DEF IInv, Typed
  <1>1. CASE RunFails
    BY <1>1, FailedRunKeys
  <1>2. CASE LatestHead /\ ~ RunFails
    <2>1. RunOnly /\ run.at = "latest" /\ run'.at = "tickets" /\ run'.head = Len(ledger)
      BY <1>0, <1>2 DEF LatestHead, Runs
    <2> QED BY <2>1, OnlyRunKeys DEF Applying, Applied, Discarded
  <1>3. CASE CheckActorTickets /\ ~ RunFails
    <2>1. /\ RunOnly /\ run'.head = run.head
          /\ \/ run.at = "tickets" /\ run'.at = "reconcile"
             \/ run.at = "recheck" /\ run'.at = "migrate"
      BY <1>0, <1>3 DEF CheckActorTickets, Step, Runs
    <2> QED BY <2>1, OnlyRunKeys DEF Applying, Applied, Discarded
  <1>4. CASE ReconcileIntents /\ ~ RunFails
    <2>1. RunOnly /\ run.at = "reconcile" /\ run'.at = "apply" /\ run'.initial = run.head
      BY <1>0, <1>4 DEF ReconcileIntents, Runs
    <2> QED BY <2>1, OnlyRunKeys DEF Applying, Applied, Discarded
  <1> QED BY <1>1, <1>2, <1>3, <1>4

LEMMA LateKeys ==
    ASSUME IInv, IInv', KeysInv, MigrateIdentity \/ Compare \/ Confirm \/ Finished \/ RunCrashes \/ Reread
    PROVE  KeysInv'
  <1>0. run \in Runs /\ Len(ledger) \in Nat
    BY DEF IInv, Typed
  <1>1. CASE RunFails
    BY <1>1, FailedRunKeys
  <1>2. CASE MigrateIdentity /\ ~ RunFails
    <2>1. RunOnly /\ run.at = "migrate" /\ run'.at = "compare"
      BY <1>0, <1>2 DEF MigrateIdentity, Runs
    <2> QED BY <2>1, OnlyRunKeys DEF Applying, Applied, Discarded
  <1>3. ASSUME Again, ~ RunFails, run.at \in {"compare", "confirm"} PROVE KeysInv'
    <2>1. RunOnly /\ run'.at = "tickets" /\ run'.head = Len(ledger)
      BY <1>0, <1>3 DEF Again, Runs
    <2> QED BY <1>3, <2>1, OnlyRunKeys DEF Applying, Applied, Discarded
  <1>4. CASE Compare /\ ~ RunFails /\ ~ Again
    <2>1. RunOnly /\ run.at = "compare" /\ run'.at = "record"
      BY <1>0, <1>4 DEF Compare, Step, Runs
    <2> QED BY <2>1, OnlyRunKeys DEF Applying, Applied, Discarded
  <1>5. CASE Confirm /\ ~ RunFails /\ ~ Again
    <2>1. RunOnly /\ run.at = "confirm" /\ run'.at = "activate"
      BY <1>0, <1>5 DEF Confirm, Runs
    <2> QED BY <2>1, OnlyRunKeys DEF Applying, Applied, Discarded
  <1>6. CASE Finished \/ RunCrashes
    <2>1. RunOnly /\ run'.at = "idle"
      BY <1>6, IdleRun DEF Finished, RunCrashes
    <2> QED BY <2>1, OnlyRunKeys DEF Applying, Applied, Discarded
  <1>7. CASE Reread
    <2>1. RunOnly /\ run.at = "reread" /\ run'.at = "append" /\ run'.initial = run.initial
      BY <1>0, <1>7 DEF Reread, Runs
    <2> QED BY <2>1, OnlyRunKeys DEF Applying, Applied, Discarded
  <1> QED BY <1>1, <1>2, <1>3, <1>4, <1>5, <1>6, <1>7 DEF Compare, Confirm

LEMMA ActivateKeys ==
    ASSUME IInv, IInv', KeysInv, Activate \/ Open
    PROVE  KeysInv'
  <1>0. run \in Runs /\ db \in Dbs
    BY DEF IInv, Typed
  <1>1. CASE RunFails
    BY <1>1, FailedRunKeys
  <1>2. CASE ~ RunFails
    <2>1. /\ UNCHANGED <<issued, job, backup, ticket, credential, dead, ledger>>
          /\ \/ run.at = "activate" /\ run'.at = "open" /\ traffic' = traffic
                /\ db' = [db EXCEPT !.status = "active"]
             \/ run.at = "open" /\ run'.at = "opened" /\ db' = db
      BY <1>0, <1>2 DEF Activate, Open, DbAnd, vars, recordVars, deletionVars, Step, Runs
    <2>2. Extends(ledger, ledger') /\ Intents(Len(ledger))' = Intents(Len(ledger))
      BY <2>1 DEF IInv, Typed, Extends, Intents, Deletions
    <2>3. RowsIn(db') \subseteq RowsIn(db)
      BY <1>0, <2>1 DEF Dbs, RowsIn
    <2>4. /\ run'.at \notin Applying /\ run.at \in Applied /\ run.at \in Discarded
          /\ run'.at \in {"open", "opened"}
      BY <2>1 DEF Applying, Applied, Discarded
    <2> QED BY <2>1, <2>2, <2>3, <2>4, CalmKeys
  <1> QED BY <1>1, <1>2

(* The entries the run appends.                                            *)
LEMMA AppendKeys ==
    ASSUME IInv, IInv', KeysInv, AppendComplete \/ RecordRecovery
    PROVE  KeysInv'
  <1>0. run \in Runs /\ ledger \in Seq(Entries) /\ db \in Dbs
    BY DEF IInv, Typed
  <1>1. CASE RunFails
    BY <1>1, FailedRunKeys
  <1>2. CASE AppendComplete /\ RunOnly /\ ~ RunFails
    <2>1. run.at = "append" /\ run'.at = "apply" /\ run'.initial = run.initial
      BY <1>0, <1>2 DEF AppendComplete, Runs, RunOnly, vars, recordVars
    <2> QED BY <1>2, <2>1, OnlyRunKeys DEF Applying, Applied, Discarded
  <1>3. ASSUME NEW e \in Entries, ledger' = Append(ledger, e),
               UNCHANGED <<db, issued, ticket, credential, dead, job, backup, traffic>>,
               e.kind = "deletion" => e.op \in Intents(Len(ledger)),
               \/ run.at = "append" /\ run'.at = "apply" /\ run'.initial = run.initial
               \/ run.at = "record" /\ run'.at = "confirm"
        PROVE  KeysInv'
    <2>1. Extends(ledger, ledger') /\ Intents(Len(ledger))' = Intents(Len(ledger))
      BY <1>3, IntentsOfAppended
    <2>2. RowsIn(db') \subseteq RowsIn(db)
      BY <1>3
    <2>3. /\ run'.at \in Applying => run.at \in Applying /\ run'.initial = run.initial
          /\ run'.at \in Applied => run.at \in Applied
          /\ run'.at \in Discarded => run.at \in Discarded
          /\ run'.at \notin {"tickets", "reconcile"}
      BY <1>3 DEF Applying, Applied, Discarded
    <2>4. db'.status = "restoring"
      BY <1>3 DEF KeysInv, RunSeals
    <2> QED BY <1>3, <2>1, <2>2, <2>3, <2>4, CalmKeys
  <1>4. CASE AppendComplete /\ ~ RunOnly /\ ~ RunFails
    <2> DEFINE e == [kind |-> "deletion", op |-> run.op, actor |-> Target(run.op), state |-> "complete"]
               completed == [run EXCEPT !.at = "apply", !.state = "complete"]
    <2>1. /\ run.at = "append" /\ ledger' = Append(ledger, e)
          /\ run' = [completed EXCEPT !.head = Len(ledger')]
          /\ UNCHANGED <<db, issued, ticket, credential, dead, job, backup, traffic>>
      BY <1>4 DEF AppendComplete, deletionVars
    <2>2. run'.at = "apply" /\ run'.initial = run.initial
      BY <1>0, <2>1 DEF Runs
    <2>3. run.op \in Intents(run.initial) /\ run.initial \in 0..Len(ledger)
      BY <2>1 DEF IInv, Typed, RunFits, Applying, Runs
    <2>4. run.op \in Operations /\ Target(run.op) \in Actors /\ run.op \in Intents(Len(ledger))
      BY <2>3, TargetIsKnown DEF IInv, Typed
    <2>5. e \in Entries /\ e.op = run.op
      BY <2>4 DEF Entries
    <2> HIDE DEF e
    <2> QED BY <1>3, <2>1, <2>2, <2>4, <2>5
  <1>5. CASE RecordRecovery /\ ~ RunFails
    <2> DEFINE e == [kind |-> "recovery"]
    <2>1. /\ run.at = "record" /\ run'.at = "confirm" /\ ledger' = Append(ledger, e)
          /\ UNCHANGED <<db, issued, ticket, credential, dead, job, backup, traffic>>
      BY <1>0, <1>5 DEF RecordRecovery, Step, deletionVars, Runs
    <2>2. e \in Entries /\ e.kind # "deletion"
      BY DEF Entries
    <2> HIDE DEF e
    <2> QED BY <1>3, <2>1, <2>2
  <1> QED BY <1>1, <1>2, <1>4, <1>5

(* The pass ends when the rows of every actor the head wants out are gone: *)
(* no key of an actor is destroyed, or about to be, whose row is there.    *)
LEMMA TakeIntentKeys ==
    ASSUME IInv, IInv', KeysInv, TakeIntent
    PROVE  KeysInv'
  <1>0. run \in Runs /\ db \in Dbs /\ RunOnly /\ run.at = "apply"
    BY DEF IInv, Typed, TakeIntent
  <1>1. CASE run'.at = "apply"
    <2>1. run'.initial = run.initial
      BY <1>0, <1>1 DEF TakeIntent, Step, Runs
    <2> QED BY <1>0, <1>1, <2>1, OnlyRunKeys DEF Applying, Applied, Discarded
  <1>2. CASE run.todo = {} /\ Step("apply", "discard")
    <2>1. run'.at = "discard"
      BY <1>0, <1>2 DEF Step, Runs
    <2>2. UNCHANGED <<issued, job, backup, ticket, credential, dead, ledger, db, traffic>>
      BY <1>0 DEF RunOnly, vars, recordVars, deletionVars
    <2>3. \A o \in Intents(run.initial) : Target(o) \notin db.identity
      BY <1>0, <1>2 DEF IInv, RunFits, Applying, Whole, Out
    <2>4. SealedBy(run.initial)
      BY <1>0 DEF KeysInv, RunSeals, Applying
    <2>5. ASSUME NEW x \in Doomed \cap Rows \cap Actors PROVE FALSE
      <3>1. x \in db.identity
        BY <1>0, ScopesAssumption DEF Rows
      <3>2. CASE x \in dead
        BY <2>3, <2>4, <2>5, <3>1, <3>2 DEF SealedBy
      <3>3. CASE \E w \in Workers : At(w, "destroy") /\ x \in job[w].scopes
        BY <2>3, <2>4, <2>5, <3>1, <3>3 DEF SealedBy, KeysInv, TicketsFit, TicketFits, At
      <3>4. CASE x \in Sessions
        BY <2>5, <3>4, ScopesAssumption
      <3> QED BY <2>5, <3>2, <3>3, <3>4 DEF Doomed
    <2>6. Doomed' = Doomed /\ Named' = Named /\ Rows' = Rows
      BY <2>2 DEF Doomed, Named, Rows, At
    <2>7. DoomedIsGone'
      BY <2>1, <2>2, <2>5, <2>6 DEF DoomedIsGone, KeysInv, Discarded
    <2>8. Extends(ledger, ledger') /\ Intents(Len(ledger))' = Intents(Len(ledger)) /\ NoActorAdded
      BY <2>2 DEF IInv, Typed, Extends, Intents, Deletions, NoActorAdded
    <2>9. db'.status = "restoring"
      BY <1>0, <2>2 DEF KeysInv, RunSeals
    <2>10. run'.at \notin Applying /\ run'.at \notin {"tickets", "reconcile"}
      BY <2>1 DEF Applying
    <2> QED BY <2>2, <2>6, <2>7, <2>8, <2>9, <2>10, RunKeys
  <1>3. CASE ~(run.todo = {} /\ Step("apply", "discard"))
    <2>1. run'.at = "apply"
      BY <1>0, <1>3 DEF TakeIntent, Runs
    <2> QED BY <1>1, <2>1
  <1> QED BY <1>2, <1>3

\* The deletion a pass is at is one of its head.
LEMMA PassTarget ==
    ASSUME IInv, run.at \in Applying, run.op # None
    PROVE  /\ run.op \in Intents(run.initial) /\ run.op \in Operations /\ run.op \in Intents(Len(ledger))
           /\ run.initial \in 0..Len(ledger)
           /\ ticket[run.op] # None /\ ticket[run.op] \in Tickets
  <1>1. run.op \in Intents(run.initial) /\ run.initial \in 0..Len(ledger)
    BY DEF IInv, Typed, RunFits, Runs
  <1>2. run.op \in Operations /\ ticket[run.op] # None /\ run.op \in Intents(Len(ledger))
    BY <1>1, TargetIsKnown DEF IInv, Typed
  <1> QED BY <1>1, <1>2 DEF IInv, Typed

LEMMA ReapplyKeys ==
    ASSUME IInv, IInv', KeysInv, ReapplyDeletion
    PROVE  KeysInv'
  <1>1. CASE RunFails
    BY <1>1, FailedRunKeys
  <1>2. CASE ~ RunFails
    <2> DEFINE o == run.op
               s == ticket[o].scopes \cup SessionsOf(Target(o))
               t == [scopes |-> ticket[o].scopes \cup s, done |-> ticket[o].done /\ s \subseteq ticket[o].scopes]
    <2>1. /\ run.at = "apply" /\ run.op # None /\ db.status = "restoring" /\ PrepareTicket(o, s)
          /\ db' = Reapplied(o, run.state) /\ run' = [run EXCEPT !.at = "destroy"]
          /\ UNCHANGED <<issued, credential, dead, ledger, job, backup, traffic>>
      BY <1>2 DEF ReapplyDeletion, DbAnd, deletionVars, Step
    <2>2. /\ o \in Operations /\ ticket[o] # None /\ ticket[o] \in Tickets
          /\ run.initial \in 0..Len(ledger)
      BY <2>1, PassTarget DEF Applying
    <2>3. ticket' = [ticket EXCEPT ![o] = t]
      BY <2>1, <2>2 DEF PrepareTicket
    <2>4. t.scopes = s
      OBVIOUS
    <2>5. SessionsOf(Target(o)) \subseteq Sessions \cap RowsIn(db)
      BY DEF SessionsOf, RowsIn
    <2>6. s \cap Actors \subseteq ticket[o].scopes
      BY <2>5, ScopesAssumption
    <2>7. s \subseteq ticket[o].scopes \cup RowsIn(db)
      BY <2>5
    <2> HIDE DEF s, t
    <2>8. \A p \in Operations \ {o} : ticket'[p] = ticket[p]
      BY <2>3 DEF IInv, Typed
    <2>9. ticket'[o] = t
      BY <2>2, <2>3 DEF IInv, Typed
    <2>10. NoActorAdded
      BY <2>2, <2>4, <2>6, <2>8, <2>9 DEF NoActorAdded
    <2>11. Named' \subseteq Named \cup issued
      <3> SUFFICES ASSUME NEW x \in Named' PROVE x \in Named \cup issued
        OBVIOUS
      <3>1. CASE x \in dead'
        BY <3>1, <2>1 DEF Named
      <3>2. CASE \E p \in Operations : ticket'[p] # None /\ x \in ticket'[p].scopes
        <4>1. PICK p \in Operations : ticket'[p] # None /\ x \in ticket'[p].scopes
          BY <3>2
        <4>2. CASE p = o
          <5>1. x \in ticket[o].scopes \/ x \in issued
            BY <4>1, <4>2, <2>4, <2>7, <2>9 DEF KeysInv, ScopesFit
          <5> QED BY <5>1, <2>2 DEF Named
        <4>3. CASE p # o
          BY <4>1, <4>3, <2>8 DEF Named
        <4> QED BY <4>2, <4>3
      <3>3. CASE \E v \in Workers : x \in job'[v].scopes
        BY <3>3, <2>1 DEF Named
      <3>4. CASE x \in Sessions /\ credential'[x] # "none"
        BY <3>4, <2>1 DEF Named
      <3> QED BY <3>1, <3>2, <3>3, <3>4 DEF Named
    <2>12. Doomed' = Doomed
      BY <2>1 DEF Doomed, At
    <2>13. RowsIn(db') \subseteq RowsIn(db)
      BY <2>1, RowsOfChanged DEF IInv, Typed
    <2>14. run'.at = "destroy" /\ run'.initial = run.initial
      BY <2>1 DEF IInv, Typed, Runs
    <2>15. DoomedIsGone'
      BY <2>1, <2>12, <2>13, <2>14, DoomedStays DEF KeysInv, Applied, Discarded
    <2>16. Extends(ledger, ledger') /\ Intents(Len(ledger))' = Intents(Len(ledger))
      BY <2>1 DEF IInv, Typed, Extends, Intents, Deletions
    <2>17. SealedBy(run.initial)'
      <3>1. PICK h \in 0..Len(ledger) : h = run.initial
        BY <2>2
      <3>2. SealedBy(h)
        BY <2>1, <3>1 DEF KeysInv, RunSeals, Applying
      <3>3. SealedBy(h)'
        BY <2>1, <2>16, <3>2, RunSealStays
      <3> QED BY <2>14, <3>1, <3>3 DEF SealedBy, Intents, Deletions
    <2>18. (db'.status = "restoring")
      BY <2>1, <2>14 DEF Reapplied, WithoutSessions, IInv, Typed, Dbs
    <2> QED BY <2>1, <2>10, <2>11, <2>13, <2>14, <2>15, <2>16, <2>17, <2>18, RunKeys
  <1> QED BY <1>1, <1>2

LEMMA DestroyReappliedKeys ==
    ASSUME IInv, IInv', KeysInv, DestroyReapplied
    PROVE  KeysInv'
  <1>1. CASE RunFails
    BY <1>1, FailedRunKeys
  <1>2. CASE ~ RunFails
    <2> DEFINE o == run.op
               t == [ticket[o] EXCEPT !.done = TRUE]
    <2>1. /\ run.at = "destroy" /\ AbsentRows(ticket[o].scopes) /\ DestroyTicket(o)
          /\ run' = IF run.state = "prepared" THEN [run EXCEPT !.at = "reread"]
                    ELSE [run EXCEPT !.at = "apply", !.todo = @ \ {run.op}, !.op = None]
          /\ UNCHANGED <<db, issued, credential, ledger, job, backup, traffic>>
      BY <1>2 DEF DestroyReapplied, deletionVars
    <2>2. run.op # None
      <3>1. run.op \in run.todo /\ run.todo \subseteq Operations
        BY <2>1 DEF IInv, Typed, Runs, RunFits, Applying
      <3> QED BY <3>1, NoneAssumption
    <2>3. /\ o \in Operations /\ ticket[o] # None /\ ticket[o] \in Tickets
          /\ o \in Intents(run.initial) /\ o \in Intents(Len(ledger)) /\ run.initial \in 0..Len(ledger)
      BY <2>1, <2>2, PassTarget DEF Applying
    <2>4. ticket' = [ticket EXCEPT ![o] = t] /\ t.scopes = ticket[o].scopes /\ dead' = dead \cup ticket[o].scopes
      BY <2>1, <2>3 DEF DestroyTicket, Tickets
    <2> HIDE DEF t
    <2>5. \A p \in Operations : ticket'[p].scopes = ticket[p].scopes /\ (ticket'[p] # None => ticket[p] # None)
      BY <2>3, <2>4 DEF IInv, Typed
    <2>6. NoActorAdded
      BY <2>5 DEF NoActorAdded
    <2>7. ticket[o].scopes \subseteq Named /\ ticket[o].scopes \cap Actors \subseteq {Target(o)}
      BY <2>3 DEF Named, KeysInv, TicketsFit
    <2>8. Named' \subseteq Named
      <3> SUFFICES ASSUME NEW x \in Named' PROVE x \in Named
        OBVIOUS
      <3>1. CASE x \in dead'
        BY <3>1, <2>4, <2>7 DEF Named
      <3>2. CASE \E p \in Operations : ticket'[p] # None /\ x \in ticket'[p].scopes
        BY <3>2, <2>5 DEF Named
      <3>3. CASE \E v \in Workers : x \in job'[v].scopes
        BY <3>3, <2>1 DEF Named
      <3>4. CASE x \in Sessions /\ credential'[x] # "none"
        BY <3>4, <2>1 DEF Named
      <3> QED BY <3>1, <3>2, <3>3, <3>4 DEF Named
    <2>9. Doomed' \subseteq Doomed \cup (issued \ Rows)
      <3>1. ticket[o].scopes \subseteq issued \ Rows
        BY <2>1, <2>7 DEF AbsentRows, KeysInv, ScopesFit
      <3>2. Doomed' \subseteq Doomed \cup ticket[o].scopes
        BY <2>1, <2>4 DEF Doomed, At
      <3> QED BY <3>1, <3>2
    <2>10. run'.at \in {"reread", "apply"} /\ run'.initial = run.initial
      BY <2>1 DEF IInv, Typed, Runs
    <2>11. run'.at \in Applying /\ run'.at \notin Applied /\ run'.at \notin Discarded
      BY <2>10 DEF Applying, Applied, Discarded
    <2>12. DoomedIsGone'
      BY <2>1, <2>9, <2>11, DoomedStays DEF KeysInv
    <2>13. Extends(ledger, ledger') /\ Intents(Len(ledger))' = Intents(Len(ledger))
      BY <2>1 DEF IInv, Typed, Extends, Intents, Deletions
    <2>14. \A a \in dead' \cap Actors : a \in dead \/ a = Target(o)
      BY <2>4, <2>7
    <2>15. SealedBy(run.initial)'
      <3>1. PICK h \in 0..Len(ledger) : h = run.initial
        BY <2>3
      <3>2. SealedBy(h)
        BY <2>1, <3>1 DEF KeysInv, RunSeals, Applying
      <3>3. SealedBy(h)'
        BY <2>1, <2>3, <2>13, <2>14, <3>1, <3>2, RunSealStays
      <3> QED BY <2>10, <3>1, <3>3 DEF SealedBy, Intents, Deletions
    <2>16. db'.status = "restoring"
      BY <2>1 DEF KeysInv, RunSeals
    <2> QED BY <2>1, <2>3, <2>6, <2>8, <2>10, <2>12, <2>13, <2>14, <2>15, <2>16, RunKeys
  <1> QED BY <1>1, <1>2

(* The sessions of the backup go, and then their keys.                     *)
LEMMA CredentialKeys ==
    ASSUME IInv, IInv', RestTyped, KeysInv, DiscardCredentials \/ DestroyCredentials
    PROVE  KeysInv'
  <1>0. run \in Runs /\ db \in Dbs /\ Rows = RowsIn(db) /\ Rows' = RowsIn(db')
    BY DEF IInv, Typed, Rows, RowsIn
  <1>1. CASE RunFails
    BY <1>1, FailedRunKeys
  <1>2. CASE DiscardCredentials /\ ~ RunFails
    <2>1. /\ run.at = "discard" /\ run' = [run EXCEPT !.at = "credentials"] /\ db.status = "restoring"
          /\ credential' = [s \in Sessions |-> IF db.session[s] # None THEN "pending" ELSE credential[s]]
          /\ db' = WithoutSessions(db, Sessions)
          /\ UNCHANGED <<issued, ticket, dead, ledger, job, backup, traffic>>
      BY <1>2 DEF DiscardCredentials, DbAnd, deletionVars, Step
    <2>2. RowsIn(db') \subseteq RowsIn(db) /\ db'.status = db.status
      BY <1>0, <2>1, RowsOfChanged, StatusOfChanged
    <2>3. \A s \in Sessions : db'.session[s] = None
      BY <1>0, <2>1, WithoutSessionsRows
    <2>4. db'.identity \subseteq Actors
      BY DEF IInv, Typed, Dbs
    <2>5. RowsIn(db') \cap Sessions = {}
      BY <2>3, <2>4, ScopesAssumption DEF RowsIn
    <2>6. Doomed' \subseteq Doomed
      BY <2>1 DEF Doomed, At
    <2>7. run'.at = "credentials"
      BY <1>0, <2>1 DEF Runs
    <2>8. DoomedIsGone'
      BY <1>0, <2>1, <2>2, <2>5, <2>6 DEF KeysInv, DoomedIsGone, Applied
    <2>9. Named' \subseteq Named \cup issued
      <3> SUFFICES ASSUME NEW x \in Named' PROVE x \in Named \cup issued
        OBVIOUS
      <3>1. CASE x \in dead'
        BY <3>1, <2>1 DEF Named
      <3>2. CASE \E p \in Operations : ticket'[p] # None /\ x \in ticket'[p].scopes
        BY <3>2, <2>1 DEF Named
      <3>3. CASE \E v \in Workers : x \in job'[v].scopes
        BY <3>3, <2>1 DEF Named
      <3>4. CASE x \in Sessions /\ credential'[x] # "none"
        <4>1. credential[x] # "none" \/ x \in RowsIn(db)
          BY <3>4, <2>1 DEF RowsIn
        <4> QED BY <3>4, <4>1 DEF Named, KeysInv, ScopesFit
      <3> QED BY <3>1, <3>2, <3>3, <3>4 DEF Named
    <2>10. Extends(ledger, ledger') /\ Intents(Len(ledger))' = Intents(Len(ledger)) /\ NoActorAdded
      BY <2>1 DEF IInv, Typed, Extends, Intents, Deletions, NoActorAdded
    <2>11. run'.at \notin Applying /\ run'.at \notin {"tickets", "reconcile"}
      BY <2>7 DEF Applying
    <2> QED BY <2>1, <2>2, <2>8, <2>9, <2>10, <2>11, RunKeys
  <1>3. CASE DestroyCredentials /\ ~ RunFails
    <2>1. /\ run.at = "credentials" /\ run' = [run EXCEPT !.at = "recheck"] /\ AbsentRows(PendingCredentials)
          /\ credential' = [s \in Sessions |-> IF s \in PendingCredentials THEN "destroyed" ELSE credential[s]]
          /\ dead' = dead \cup PendingCredentials
          /\ UNCHANGED <<db, issued, ticket, ledger, job, backup, traffic>>
      BY <1>3 DEF DestroyCredentials, deletionVars, Step
    <2>2. PendingCredentials \subseteq Sessions \cap issued /\ PendingCredentials \cap Rows = {}
      BY <2>1 DEF PendingCredentials, AbsentRows, KeysInv, ScopesFit, Named
    <2>3. dead' \cap Actors \subseteq dead
      BY <2>1, <2>2, ScopesAssumption
    <2>4. Doomed' \subseteq Doomed \cup PendingCredentials
      BY <2>1 DEF Doomed, At
    <2>5. run'.at = "recheck"
      BY <1>0, <2>1 DEF Runs
    <2>6. Named' \subseteq Named \cup issued
      <3> SUFFICES ASSUME NEW x \in Named' PROVE x \in Named \cup issued
        OBVIOUS
      <3>1. CASE x \in dead'
        BY <3>1, <2>1, <2>2 DEF Named
      <3>2. CASE \E p \in Operations : ticket'[p] # None /\ x \in ticket'[p].scopes
        BY <3>2, <2>1 DEF Named
      <3>3. CASE \E v \in Workers : x \in job'[v].scopes
        BY <3>3, <2>1 DEF Named
      <3>4. CASE x \in Sessions /\ credential'[x] # "none"
        <4>1. credential[x] # "none"
          BY <3>4, <2>1 DEF PendingCredentials
        <4> QED BY <3>4, <4>1 DEF Named
      <3> QED BY <3>1, <3>2, <3>3, <3>4 DEF Named
    <2>7. RowsIn(db') \subseteq RowsIn(db) /\ Doomed' \subseteq Doomed \cup (issued \ Rows)
      BY <2>1, <2>2, <2>4
    <2>8. DoomedIsGone'
      BY <2>1, <2>5, <2>7, DoomedStays DEF KeysInv, Applied, Discarded
    <2>9. Extends(ledger, ledger') /\ Intents(Len(ledger))' = Intents(Len(ledger)) /\ NoActorAdded
      BY <2>1 DEF IInv, Typed, Extends, Intents, Deletions, NoActorAdded
    <2>10. run'.at \notin Applying /\ run'.at \notin {"tickets", "reconcile"}
      BY <2>5 DEF Applying
    <2>11. db'.status = "restoring"
      BY <2>1 DEF KeysInv, RunSeals
    <2> QED BY <2>1, <2>3, <2>6, <2>7, <2>8, <2>9, <2>10, <2>11, RunKeys
  <1> QED BY <1>1, <1>2, <1>3

-----------------------------------------------------------------------------
(* What no step above asks for                                             *)

LEMMA RunExtends ==
    ASSUME IInv, RunStep \/ RunStops \/ RunCrashes
    PROVE  Extends(ledger, ledger')
  <1>1. (\E e : ledger' = Append(ledger, e)) \/ ledger' = ledger
    BY DEF RunStep, RunStops, RunCrashes, Isolate, LatestHead, CheckActorTickets, ReconcileIntents, TakeIntent,
       ReapplyDeletion, DestroyReapplied, Reread, AppendComplete, DiscardCredentials, DestroyCredentials,
       MigrateIdentity, Compare, Again, RecordRecovery, Confirm, Activate, Open, Finished, RunOnly, RunFails, DbAnd,
       vars, recordVars
  <1> QED BY <1>1, LedgerExtended DEF IInv, Typed, Extends

\* Sessions' tickets of the cleanup: who changes them, and to what.
LEMMA CredentialsStay ==
    ASSUME RestTyped, RestoreStep
    PROVE  credential' \in [Sessions -> {"none", "pending", "checked", "destroyed"}]
  <1>1. CASE CleanupNext
    BY <1>1 DEF CleanupNext, DeleteExpired, CheckAbsent, DestroyCredential, SealOverdue, RestTyped
  <1>2. CASE DiscardCredentials \/ DestroyCredentials
    BY <1>2 DEF DiscardCredentials, DestroyCredentials, RunFails, RestTyped
  <1>3. CASE UserNext
    BY <1>3 DEF UserNext, FirstLogin, Login, EndSession, DbOnly, RestTyped
  <1>4. CASE WorkerNext
    <2>1. credential' = credential
      BY <1>4 DEF WorkerNext, Advance, DisableRolledBack, Stop, Crash, Fails, Begin, Resume, ReadHead, Reconcile,
         Match, Plan, Prepare, AppendPrepared, Lookup, Disable, Remove, Absent, Destroy, Verify, Latest, Finish,
         Complete, Report, UnchangedRecords, UnchangedButDb, recordVars
    <2> QED BY <2>1 DEF RestTyped
  <1>5. CASE ~ CleanupNext /\ ~ DiscardCredentials /\ ~ DestroyCredentials /\ ~ UserNext /\ ~ WorkerNext
    <2>1. credential' = credential
      BY <1>5 DEF RestoreStep, TakeBackup, PutBackup, Start, RunStep, RunStops, RunCrashes, Isolate, LatestHead,
         CheckActorTickets, ReconcileIntents, TakeIntent, ReapplyDeletion, DestroyReapplied, Reread, AppendComplete,
         MigrateIdentity, Compare, Again, RecordRecovery, Confirm, Activate, Open, Finished, RunOnly, RunFails, DbAnd,
         vars, recordVars
    <2> QED BY <2>1 DEF RestTyped
  <1> QED BY <1>1, <1>2, <1>3, <1>4, <1>5

LEMMA ReportsStay ==
    ASSUME IInv, RestTyped, RestoreStep
    PROVE  deadline' = deadline /\ told' \subseteq Operations
  <1>1. CASE WorkerNext
    <2>1. PICK w \in Workers : WorkerStep(w)
      BY <1>1 DEF WorkerNext, WorkerStep
    <2>2. CASE Report(w)
      <3>1. job[w].op \in Operations
        BY <2>2, ResumedTarget DEF Report, At, Resumed
      <3> QED BY <2>2, <3>1 DEF Report, RestTyped
    <2>3. CASE ~ Report(w)
      <3>1. UNCHANGED <<deadline, told>>
        BY <2>1, <2>3 DEF WorkerStep, Advance, DisableRolledBack, Stop, Crash, Fails, Begin, Resume, ReadHead, Reconcile,
           Match, Plan, Prepare, AppendPrepared, Lookup, Disable, Remove, Absent, Destroy, Verify, Latest, Finish,
           Complete, UnchangedRecords, UnchangedButDb
      <3> QED BY <3>1 DEF RestTyped
    <2> QED BY <2>2, <2>3
  <1>2. CASE UserNext \/ CleanupNext
    BY <1>2 DEF UserNext, FirstLogin, Login, EndSession, DbOnly, RestTyped, deletionVars,
       CleanupNext, DeleteExpired, CheckAbsent, DestroyCredential, SealOverdue
  <1>3. CASE ~ UserNext /\ ~ CleanupNext /\ ~ WorkerNext
    <2>1. UNCHANGED <<deadline, told>>
      BY <1>3 DEF RestoreStep, TakeBackup, PutBackup, Start, RunStep, RunStops, RunCrashes, Isolate, LatestHead,
         CheckActorTickets, ReconcileIntents, TakeIntent, ReapplyDeletion, DestroyReapplied, Reread, AppendComplete,
         DiscardCredentials, DestroyCredentials, MigrateIdentity, Compare, Again, RecordRecovery, Confirm, Activate,
         Open, Finished, RunOnly, RunFails, DbAnd, vars, deletionVars
    <2> QED BY <2>1 DEF RestTyped
  <1> QED BY <1>1, <1>2, <1>3

\* A run applies the deletions of a head it has reached.
LEMMA HeadsStay ==
    ASSUME IInv, RestTyped, RestoreStep
    PROVE  run'.initial <= run'.head
  <1>0. run \in Runs /\ ledger \in Seq(Entries) /\ Len(ledger) \in Nat /\ run.head <= Len(ledger)
        /\ run.initial <= Len(ledger) /\ run.initial <= run.head
    BY DEF IInv, Typed, RestTyped
  <1>1. CASE run' = NoRun \/ run' = run
    BY <1>0, <1>1, IdleRun
  <1>2. ASSUME NEW from, NEW to, Step(from, to) PROVE run'.initial <= run'.head
    BY <1>0, <1>2 DEF Step, Runs
  <1>3. CASE LatestHead \/ Reread \/ Compare \/ Confirm
    BY <1>0, <1>1, <1>2, <1>3 DEF LatestHead, Reread, Compare, Confirm, Again, RunFails, Runs
  <1>4. CASE ReconcileIntents \/ TakeIntent \/ MigrateIdentity \/ DestroyReapplied
    <2>1. ReconcileIntents => RunFails \/ (run'.initial = run.head /\ run'.head = run.head)
      BY <1>0 DEF ReconcileIntents, Runs
    <2>2. MigrateIdentity \/ DestroyReapplied => RunFails \/ (run'.initial = run.initial /\ run'.head = run.head)
      BY <1>0 DEF MigrateIdentity, DestroyReapplied, Runs
    <2>3. TakeIntent => run'.initial = run.initial /\ run'.head = run.head
      BY <1>0 DEF TakeIntent, Step, Runs
    <2> QED BY <1>0, <1>1, <1>4, <2>1, <2>2, <2>3 DEF RunFails, Runs
  <1>5. CASE AppendComplete
    <2> DEFINE e == [kind |-> "deletion", op |-> run.op, actor |-> Target(run.op), state |-> "complete"]
               completed == [run EXCEPT !.at = "apply", !.state = "complete"]
    <2>1. \/ RunFails \/ run' = completed
          \/ ledger' = Append(ledger, e) /\ run' = [completed EXCEPT !.head = Len(ledger')]
      BY <1>5 DEF AppendComplete
    <2>2. ASSUME ledger' = Append(ledger, e) PROVE Len(ledger') \in Nat /\ run.initial <= Len(ledger')
      <3>1. Extends(ledger, ledger')
        BY <1>0, <2>2, LedgerExtended
      <3>2. ledger' \in Seq(Entries \cup {e})
        BY <1>0, <2>2
      <3>3. Len(ledger') \in Nat
        BY <3>2
      <3> HIDE DEF e
      <3> QED BY <1>0, <3>1, <3>3 DEF Extends, Runs
    <2> HIDE DEF e
    <2> QED BY <1>0, <1>1, <2>1, <2>2 DEF Runs, RunFails
  <1>6. CASE (UserNext \/ WorkerNext \/ CleanupNext) /\ UNCHANGED restoreVars
    BY <1>1, <1>6 DEF restoreVars
  <1>7. CASE TakeBackup \/ PutBackup \/ Start \/ RunStops \/ RunCrashes
    BY <1>1, <1>2, <1>7 DEF TakeBackup, PutBackup, Start, RunStops, RunFails, RunCrashes
  <1>8. CASE Isolate \/ CheckActorTickets \/ ReapplyDeletion \/ DiscardCredentials \/ DestroyCredentials
    BY <1>1, <1>2, <1>8 DEF Isolate, CheckActorTickets, ReapplyDeletion, DiscardCredentials, DestroyCredentials, RunFails
  <1>9. CASE RecordRecovery \/ Activate \/ Open \/ Finished
    BY <1>1, <1>2, <1>9 DEF RecordRecovery, Activate, Open, Finished, RunFails
  <1> QED BY <1>3, <1>4, <1>5, <1>6, <1>7, <1>8, <1>9 DEF RestoreStep, RunStep

LEMMA NextExtends ==
    ASSUME IInv, RestoreStep
    PROVE  Extends(ledger, ledger')
  <1>1. CASE WorkerNext
    <2>1. PICK w \in Workers : WorkerStep(w)
      BY <1>1 DEF WorkerNext, WorkerStep
    <2> QED BY <2>1, WorkersExtend
  <1>2. CASE UserNext \/ CleanupNext \/ TakeBackup \/ PutBackup \/ Start
    <2>1. ledger' = ledger
      BY <1>2 DEF UserNext, FirstLogin, Login, EndSession, DbOnly, TakeBackup, PutBackup, Start, RunOnly, vars,
         recordVars, CleanupNext, DeleteExpired, CheckAbsent, DestroyCredential, SealOverdue
    <2> QED BY <2>1 DEF IInv, Typed, Extends
  <1> QED BY <1>1, <1>2, RunExtends DEF RestoreStep

LEMMA OpeningsStay ==
    ASSUME IInv, IInv', RestTyped, RestoreStep
    PROVE  openedAt' \in 0..Len(ledger') /\ appliedAt' \in 0..openedAt'
  <1>1. Len(ledger) \in Nat /\ Len(ledger') \in Nat /\ Len(ledger) <= Len(ledger')
    BY NextExtends DEF IInv, Typed, Extends
  <1>2. CASE Open /\ ~ RunFails
    <2>1. openedAt' = run.head /\ appliedAt' = run.initial
      BY <1>2 DEF Open
    <2> QED BY <1>1, <2>1 DEF IInv, Typed, RestTyped, Runs
  <1>3. CASE ~ (Open /\ ~ RunFails)
    <2>1. UNCHANGED <<openedAt, appliedAt>>
      BY <1>3 DEF RestoreStep, TakeBackup, PutBackup, Start, RunStep, RunStops, RunCrashes, Isolate, LatestHead,
         CheckActorTickets, ReconcileIntents, TakeIntent, ReapplyDeletion, DestroyReapplied, Reread, AppendComplete,
         DiscardCredentials, DestroyCredentials, MigrateIdentity, Compare, Again, RecordRecovery, Confirm, Activate,
         Finished, RunOnly, RunFails, DbAnd, restoreVars
    <2> QED BY <1>1, <2>1 DEF RestTyped
  <1> QED BY <1>2, <1>3

-----------------------------------------------------------------------------
(* The second invariant and what follows from it                           *)

KInv == RestTyped /\ KeysInv

LEMMA InitKeys == RestoreInit => KInv
  <1> SUFFICES ASSUME RestoreInit PROVE KInv
    OBVIOUS
  <1>1. /\ backup = None /\ traffic = "open" /\ openedAt = 0 /\ appliedAt = 0 /\ run = NoRun
        /\ ledger = <<>> /\ ticket = [o \in Operations |-> None] /\ dead = {}
        /\ job = [w \in Workers |-> Idle] /\ credential = [s \in Sessions |-> "none"]
        /\ deadline = [o \in Operations |-> "ahead"] /\ told = {}
        /\ db.identity = {} /\ db.session = [s \in Sessions |-> None]
    BY DEF RestoreInit, DeletionInit, Init
  <1>2. Len(ledger) = 0 /\ Intents(Len(ledger)) = {}
    BY <1>1 DEF Intents, Deletions
  <1>3. RestTyped
    BY <1>1, <1>2, IdleRun DEF RestTyped
  <1>4. \A w \in Workers : job[w].at = "idle" /\ job[w].scopes = {}
    BY <1>1 DEF Idle
  <1>5. RowsIn(db) = {} /\ Named = {}
    BY <1>1, <1>4 DEF RowsIn, Named
  <1>6. ScopesFit /\ TicketsFit
    BY <1>1, <1>2, <1>4, <1>5 DEF ScopesFit, TicketsFit, TicketFits, At
  <1>7. RunSeals
    BY <1>1, IdleRun DEF RunSeals, Applying
  <1>8. DoomedIsGone
    BY <1>5, DoomedIsNamed DEF DoomedIsGone
  <1> QED BY <1>3, <1>6, <1>7, <1>8 DEF KInv, KeysInv

LEMMA StepKeys == IInv /\ IInv' /\ KInv /\ [RestoreNext]_allVars => KInv'
  <1> SUFFICES ASSUME IInv, IInv', KInv, [RestoreNext]_allVars PROVE KInv'
    OBVIOUS
  <1>0. RestTyped /\ KeysInv
    BY DEF KInv
  <1>1. CASE UNCHANGED allVars \/ ((\E o \in Operations : PassDeadline(o)) /\ UNCHANGED restoreVars)
    <2>1. UNCHANGED <<db, issued, ticket, credential, dead, ledger, job, told, backup, traffic, openedAt, appliedAt,
                      stale, run>>
      BY <1>1 DEF PassDeadline, allVars, vars, recordVars, deletionVars, restoreVars
    <2>2. deadline' \in [Operations -> {"ahead", "passed"}]
      BY <1>0, <1>1 DEF RestTyped, PassDeadline, allVars, vars, deletionVars
    <2>3. RestTyped'
      BY <1>0, <2>1, <2>2 DEF RestTyped
    <2>4. Extends(ledger, ledger') /\ Intents(Len(ledger))' = Intents(Len(ledger))
      BY <2>1 DEF IInv, Typed, Extends, Intents, Deletions
    <2>5. RowsIn(db') \subseteq RowsIn(db)
      BY <2>1
    <2>6. run'.at \notin {"idle", "isolate", "open", "opened"} => db'.status = "restoring"
      BY <1>0, <2>1 DEF KeysInv, RunSeals
    <2>7. KeysInv'
      BY <1>0, <2>1, <2>4, <2>5, <2>6, CalmKeys
    <2> QED BY <2>3, <2>7 DEF KInv
  <1>2. CASE RestoreStep
    <2>1. RestTyped'
      BY <1>0, <1>2, CredentialsStay, ReportsStay, HeadsStay, OpeningsStay DEF RestTyped
    <2>2. CASE TakeBackup \/ PutBackup \/ Start \/ Isolate \/ LatestHead \/ CheckActorTickets \/ ReconcileIntents
      BY <1>0, <2>1, <2>2, OperatorKeys, IsolateKeys, EarlyKeys DEF KInv
    <2>3. CASE TakeIntent \/ ReapplyDeletion \/ DestroyReapplied \/ Reread \/ AppendComplete \/ RecordRecovery
      BY <1>0, <2>1, <2>3, TakeIntentKeys, ReapplyKeys, DestroyReappliedKeys, LateKeys, AppendKeys DEF KInv
    <2>4. CASE DiscardCredentials \/ DestroyCredentials \/ MigrateIdentity \/ Compare \/ Confirm \/ Finished \/ RunCrashes
      BY <1>0, <2>1, <2>4, CredentialKeys, LateKeys DEF KInv
    <2>5. CASE Activate \/ Open \/ RunStops
      BY <1>0, <2>1, <2>5, ActivateKeys, FailedRunKeys DEF KInv, RunStops
    <2>6. CASE (WorkerNext \/ CleanupNext \/ UserNext) /\ UNCHANGED restoreVars
      BY <1>0, <2>1, <2>6, OthersKeepKeys DEF KInv
    <2> QED BY <1>2, <2>2, <2>3, <2>4, <2>5, <2>6 DEF RestoreStep, RunStep
  <1> QED BY <1>1, <1>2 DEF RestoreNext

\* No scope is doomed whose row users could still read: the second invariant, which says what the
\* registry, the workers, the cleanups and a run know of the rows (AuthenticationDeletionService,
\* AuthenticationCleanupService and AuthenticationRestoreService, each before it destroys a key).
THEOREM KeysInvariant == RestoreSpec => []KInv
  <1>1. RestoreInit => IInv /\ KInv
    BY InitFits, InitKeys
  <1>2. IInv /\ KInv /\ [RestoreNext]_allVars => (IInv /\ KInv)'
    BY StepFits, StepKeys
  <1> QED BY <1>1, <1>2, PTL DEF RestoreSpec

\* A key is destroyed only when no row sealed by it is left, whatever workers, cleanups, failures
\* and restores come between, and no session from before a restore lives on
\* (AuthenticationDeletionService.resume, AuthenticationRestoreService.restore).
THEOREM RowsStayReadable == RestoreSpec => []RowsAreReadableAndFresh
  <1>1. ASSUME IInv, KInv, traffic = "open", NEW x \in dead \cap Rows PROVE FALSE
    <2>1. x \in Doomed
      BY <1>1 DEF Doomed
    <2>2. x \in Actors \cup Sessions
      BY <1>1 DEF Rows, IInv, Typed, Dbs
    <2> QED BY <1>1, <2>1, <2>2 DEF KInv, KeysInv, DoomedIsGone
  <1>2. IInv /\ KInv => RowsAreReadableAndFresh
    BY <1>1 DEF RowsAreReadableAndFresh, OpenRowsAreReadable, OldSessionsAreOver, IInv, OpeningFits
  <1> QED BY <1>2, RestoreInvariant, KeysInvariant, PTL

-----------------------------------------------------------------------------
(* The story of a deletion                                                 *)

(* What a database records is what the ledger says.                        *)
Known(d, a) == \E o \in Intents(Len(ledger)) : Target(o) = a /\ d.intent[o] # "none"
Revoked(d, a) == \A s \in Sessions : d.session[s] # None /\ d.session[s].owner = a => d.session[s].state = "revoked"
StoryOf(d) ==
    /\ \A o \in Operations : d.intent[o] # "none" => o \in Intents(Len(ledger))
    /\ \A o \in Operations : d.intent[o] = "complete" => StateAt(Len(ledger), o) = "complete"
    /\ \A a \in Actors : d.actor[a] = "disabled" => Known(d, a) /\ Revoked(d, a)
StoriesFit ==
    /\ StoryOf(db)
    /\ backup # None => StoryOf(backup.db)
    /\ \A w \in Workers : job[w].at \in {"complete", "report"} => StateAt(Len(ledger), job[w].op) = "complete"
    /\ run.op # None /\ run.state = "complete" => StateAt(Len(ledger), run.op) = "complete"

(* A worker that begins a deletion has seen no other one of the actor.     *)
OneIntent ==
    /\ OneDeletionPerActor
    /\ \A w \in Workers : job[w].at \in {"plan", "prepare", "append"} =>
          \A o \in Intents(job[w].head) : Target(o) # job[w].actor

(* Until a backup is put in place what a worker did to a deletion lasts.   *)
Left(d, a) == d.actor[a] = "disabled" /\ Out(d, a)
Ended == {"latest", "finish", "complete", "report"}
DoneIsDead == \A o \in Operations : ticket[o] # None => (ticket[o].done => ticket[o].scopes \subseteq dead)
WorkerLasts(w) ==
    /\ job[w].at \in {"absent", "destroy", "verify"} \cup Ended => Left(db, Target(job[w].op))
    /\ job[w].at \in Ended => Destroyed(job[w].op)
    /\ At(w, "report") => db.intent[job[w].op] = "complete"
WorkLasts ==
    stale = {} =>
       /\ \A o \in Intents(Len(ledger)) : CompleteInLedger(o) => Left(db, Target(o)) /\ Destroyed(o)
       /\ \A w \in Workers : WorkerLasts(w)
       /\ \A o \in told : CompleteInLedger(o) /\ db.intent[o] = "complete"

StoryInv == StoriesFit /\ OneIntent /\ DoneIsDead /\ WorkLasts

-----------------------------------------------------------------------------
(* What the ledger goes on to say                                          *)

LEMMA StateGrows ==
    ASSUME Typed, Typed', Extends(ledger, ledger'), NEW h \in 0..Len(ledger), NEW o, StateAt(h, o) = "complete"
    PROVE  StateAt(Len(ledger), o)' = "complete"
  <1>1. PICK i \in Deletions(h) : ledger[i].op = o /\ ledger[i].state = "complete"
    BY DEF StateAt
  <1>2. i \in 1..Len(ledger') /\ ledger'[i] = ledger[i] /\ ledger'[i].kind = "deletion"
    BY <1>1 DEF Deletions, Extends, Typed
  <1> QED BY <1>2, <1>1 DEF StateAt, Deletions

LEMMA StateIsNow ==
    ASSUME Typed, NEW h \in 0..Len(ledger), NEW o, StateAt(h, o) = "complete"
    PROVE  StateAt(Len(ledger), o) = "complete" /\ o \in Intents(Len(ledger))
  <1>1. PICK i \in Deletions(h) : ledger[i].op = o /\ ledger[i].state = "complete"
    BY DEF StateAt
  <1>2. i \in Deletions(Len(ledger))
    BY <1>1 DEF Deletions, Typed
  <1> QED BY <1>1, <1>2 DEF StateAt, Intents

LEMMA StateOfAppended ==
    ASSUME Typed, NEW e \in Entries, ledger' = Append(ledger, e)
    PROVE  /\ e.kind = "deletion" /\ e.state = "complete" => StateAt(Len(ledger), e.op)' = "complete"
           /\ \A o : StateAt(Len(ledger), o)' = "complete" =>
                        StateAt(Len(ledger), o) = "complete" \/ (e.kind = "deletion" /\ e.state = "complete" /\ o = e.op)
  <1>1. /\ Len(ledger') = Len(ledger) + 1 /\ Len(ledger) \in Nat
        /\ \A i \in 1..Len(ledger) : ledger'[i] = ledger[i]
        /\ ledger'[Len(ledger) + 1] = e
    BY AppendProperties DEF Typed
  <1>2. ASSUME e.kind = "deletion", e.state = "complete" PROVE StateAt(Len(ledger), e.op)' = "complete"
    <2>1. Len(ledger) + 1 \in 1..Len(ledger') /\ ledger'[Len(ledger) + 1].kind = "deletion"
          /\ ledger'[Len(ledger) + 1].op = e.op /\ ledger'[Len(ledger) + 1].state = "complete"
      BY <1>1, <1>2
    <2> QED BY <2>1 DEF StateAt, Deletions
  <1>3. ASSUME NEW o, StateAt(Len(ledger), o)' = "complete"
        PROVE  StateAt(Len(ledger), o) = "complete" \/ (e.kind = "deletion" /\ e.state = "complete" /\ o = e.op)
    <2>1. PICK i \in 1..Len(ledger') :
             ledger'[i].kind = "deletion" /\ ledger'[i].op = o /\ ledger'[i].state = "complete"
      BY <1>3 DEF StateAt, Deletions
    <2>2. CASE i = Len(ledger) + 1
      BY <1>1, <2>1, <2>2
    <2>3. CASE i \in 1..Len(ledger)
      BY <1>1, <2>1, <2>3 DEF StateAt, Deletions
    <2> QED BY <1>1, <2>1, <2>2, <2>3
  <1> QED BY <1>2, <1>3

LEMMA StoryGrows ==
    ASSUME IInv, IInv', Extends(ledger, ledger'), NEW d, StoryOf(d)
    PROVE  StoryOf(d)'
  <1>1. Typed /\ Typed' /\ LedgerFits /\ LedgerFits' /\ Len(ledger) \in 0..Len(ledger)
    BY DEF IInv, Typed
  <1>2. /\ Intents(Len(ledger)) \subseteq Intents(Len(ledger))'
        /\ \A o \in Intents(Len(ledger)) : Target(o)' = Target(o)
    BY <1>1, IntentsStay
  <1>3. \A o : StateAt(Len(ledger), o) = "complete" => StateAt(Len(ledger), o)' = "complete"
    BY <1>1, StateGrows
  <1>4. \A a : Known(d, a) => Known(d, a)'
    BY <1>2 DEF Known
  <1>5. \A a : Revoked(d, a)' = Revoked(d, a)
    BY DEF Revoked
  <1> QED BY <1>2, <1>3, <1>4, <1>5 DEF StoryOf

-----------------------------------------------------------------------------
(* What the database goes on to say                                        *)

Continues(d, e) ==
    /\ \A o \in Operations : d.intent[o] # "none" => e.intent[o] # "none"
    /\ \A o \in Operations : e.intent[o] # d.intent[o] =>
          o \in Intents(Len(ledger)) /\ (e.intent[o] = "complete" => StateAt(Len(ledger), o) = "complete")
    /\ \A a \in Actors : e.actor[a] = "disabled" =>
          \/ d.actor[a] = "disabled" /\ (Revoked(d, a) => Revoked(e, a))
          \/ Known(e, a) /\ Revoked(e, a)

LEMMA StoryContinues ==
    ASSUME LedgerFits, Typed, NEW d, NEW e, StoryOf(d), Continues(d, e)
    PROVE  StoryOf(e)
  <1>1. \A o \in Intents(Len(ledger)) : o \in Operations
    BY TargetIsKnown DEF Typed
  <1>2. \A a \in Actors : Known(d, a) => Known(e, a)
    BY <1>1 DEF Known, Continues
  <1>3. \A o \in Operations : e.intent[o] # "none" => o \in Intents(Len(ledger))
    BY DEF StoryOf, Continues
  <1>4. \A o \in Operations : e.intent[o] = "complete" => StateAt(Len(ledger), o) = "complete"
    BY DEF StoryOf, Continues
  <1>5. \A a \in Actors : e.actor[a] = "disabled" => Known(e, a) /\ Revoked(e, a)
    BY <1>2 DEF StoryOf, Continues
  <1> QED BY <1>3, <1>4, <1>5 DEF StoryOf

\* A transaction that leaves the actors and the deletions alone and takes sessions away.
LEMMA FewerRowsContinue ==
    ASSUME NEW d, NEW e, e.intent = d.intent, e.actor = d.actor,
           \A s \in Sessions : e.session[s] = d.session[s] \/ e.session[s] = None
    PROVE  Continues(d, e)
  <1>1. \A a : Revoked(d, a) => Revoked(e, a)
    BY DEF Revoked
  <1> QED BY <1>1 DEF Continues

LEMMA PlainContinues ==
    ASSUME db \in Dbs, NEW gone, NEW s
    PROVE  /\ Continues(db, db) /\ Continues(db, Quarantined(db)) /\ Continues(db, [db EXCEPT !.status = s])
           /\ Continues(db, WithoutSessions(db, gone))
  <1>1. Quarantined(db).intent = db.intent /\ Quarantined(db).actor = db.actor /\ Quarantined(db).session = db.session
    BY DEF Quarantined, Dbs
  <1> DEFINE q == Quarantined(db)
             r == [db EXCEPT !.status = s]
             t == WithoutSessions(db, gone)
  <1>2. r.intent = db.intent /\ r.actor = db.actor /\ r.session = db.session
    BY DEF Dbs
  <1>3. t.intent = db.intent /\ t.actor = db.actor
    BY DEF WithoutSessions, Dbs
  <1>4. \A x \in Sessions : t.session[x] = db.session[x] \/ t.session[x] = None
    BY WithoutSessionsRows
  <1>5. Continues(db, db)
    BY FewerRowsContinue
  <1>6. Continues(db, q)
    <2>1. q.intent = db.intent /\ q.actor = db.actor /\ q.session = db.session
      BY <1>1
    <2> HIDE DEF q
    <2> QED BY <2>1, FewerRowsContinue
  <1> HIDE DEF r, t
  <1>7. Continues(db, r) /\ Continues(db, t)
    BY <1>2, <1>3, <1>4, FewerRowsContinue
  <1> QED BY <1>5, <1>6, <1>7 DEF r, t

LEMMA DisabledContinues ==
    ASSUME db \in Dbs, NEW o \in Operations, o \in Intents(Len(ledger)), Target(o) \in Actors
    PROVE  /\ Continues(db, Disabled(o)) /\ Disabled(o).actor[Target(o)] = "disabled"
           /\ \A b \in Actors : db.actor[b] = "disabled" => Disabled(o).actor[b] = "disabled"
  <1> DEFINE a == Target(o)
             f == [s \in Sessions |-> IF s \in SessionsOf(a) THEN [db.session[s] EXCEPT !.state = "revoked"]
                                      ELSE db.session[s]]
             act == [db.actor EXCEPT ![a] = "disabled"]
             int == Ensured(db.intent, o)
             e == Disabled(o)
  <1>1. ASSUME NEW s \in Sessions
        PROVE  /\ f[s] # None => db.session[s] # None /\ f[s].owner = db.session[s].owner
               /\ s \notin SessionsOf(a) => f[s] = db.session[s]
               /\ s \in SessionsOf(a) => f[s].state = "revoked"
    <2>1. db.session[s] # None => db.session[s] \in SessionRows
      BY DEF Dbs
    <2>2. db.session[s] # None =>
             LET r == [db.session[s] EXCEPT !.state = "revoked"]
             IN  r.state = "revoked" /\ r.owner = db.session[s].owner
      BY <2>1 DEF SessionRows
    <2> QED BY <2>2 DEF SessionsOf
  <1>2. /\ \A p \in Operations : db.intent[p] # "none" => int[p] = db.intent[p]
        /\ \A p \in Operations : int[p] # db.intent[p] => p = o /\ int[p] # "complete"
        /\ int[o] # "none"
    BY DEF Dbs, Ensured
  <1>3. act[a] = "disabled" /\ \A b \in Actors \ {a} : act[b] = db.actor[b]
    BY DEF Dbs
  <1>4. e.actor = act /\ e.session = f /\ e.intent = int
    BY DEF Disabled, Dbs
  <1>5. \A s \in Sessions : s \in SessionsOf(a) <=> db.session[s] # None /\ db.session[s].owner = a
    BY DEF SessionsOf
  <1> HIDE DEF f, act, int, e, a
  <1>6. Revoked(e, a)
    BY <1>1, <1>4, <1>5 DEF Revoked
  <1>7. \A b \in Actors \ {a} : Revoked(db, b) => Revoked(e, b)
    BY <1>1, <1>4, <1>5 DEF Revoked
  <1>8. Known(e, a)
    BY <1>2, <1>4 DEF Known, a
  <1>9. Continues(db, e)
    BY <1>2, <1>3, <1>4, <1>6, <1>7, <1>8 DEF Continues
  <1> QED BY <1>3, <1>4, <1>9 DEF e, a

LEMMA RemovedContinues ==
    ASSUME db \in Dbs, NEW o \in Operations, o \in Intents(Len(ledger))
    PROVE  /\ Continues(db, Removed(o)) /\ Removed(o).actor = db.actor
           /\ db.actor[Target(o)] = "disabled" => Left(Removed(o), Target(o))
  <1> DEFINE gone == SessionsOf(Target(o))
             d == WithoutSessions(db, gone)
             int == Ensured(d.intent, o)
             e == [d EXCEPT !.identity = d.identity \ {Target(o)}, !.intent = int]
  <1>0. d \in Dbs
    <2> DEFINE I == {}
    <2> QED BY WithoutSessionsKeeps
  <1>1. d.intent = db.intent /\ d.actor = db.actor
    BY DEF WithoutSessions, Dbs
  <1>2. \A s \in Sessions : d.session[s] = IF s \in gone THEN None ELSE db.session[s]
    BY WithoutSessionsRows
  <1>3. Removed(o) = e
    BY DEF Removed
  <1> HIDE DEF d, gone
  <1>4. /\ \A p \in Operations : db.intent[p] # "none" => int[p] = db.intent[p]
        /\ \A p \in Operations : int[p] # db.intent[p] => p = o /\ int[p] # "complete"
    BY <1>1 DEF Dbs, Ensured
  <1> HIDE DEF int
  <1>5. e.actor = db.actor /\ e.session = d.session /\ e.intent = int /\ Target(o) \notin e.identity
    BY <1>0, <1>1 DEF Dbs
  <1> HIDE DEF e
  <1>6. \A a : Revoked(db, a) => Revoked(e, a)
    BY <1>2, <1>5 DEF Revoked
  <1>7. Continues(db, e)
    BY <1>4, <1>5, <1>6 DEF Continues
  <1>8. \A s \in Sessions : e.session[s] # None => e.session[s].owner # Target(o)
    BY <1>2, <1>5 DEF gone, SessionsOf
  <1> QED BY <1>3, <1>5, <1>7, <1>8 DEF Left, Out

LEMMA CompletedContinues ==
    ASSUME db \in Dbs, NEW o \in Operations, o \in Intents(Len(ledger)), StateAt(Len(ledger), o) = "complete"
    PROVE  Continues(db, Completed(o)) /\ Completed(o).actor = db.actor /\ Completed(o).intent[o] = "complete"
  <1> DEFINE e == Completed(o)
  <1>1. /\ e.actor = db.actor /\ e.session = db.session /\ e.intent[o] = "complete"
        /\ \A p \in Operations \ {o} : e.intent[p] = db.intent[p]
    BY DEF Completed, Dbs
  <1> HIDE DEF e
  <1>2. \A a : Revoked(db, a) => Revoked(e, a)
    BY <1>1 DEF Revoked
  <1>3. Continues(db, e)
    BY <1>1, <1>2 DEF Continues
  <1> QED BY <1>1, <1>3 DEF e

LEMMA ReappliedContinues ==
    ASSUME db \in Dbs, NEW o \in Operations, o \in Intents(Len(ledger)), Target(o) \in Actors,
           NEW state \in {"prepared", "complete"}, state = "complete" => StateAt(Len(ledger), o) = "complete"
    PROVE  Continues(db, Reapplied(o, state))
  <1> DEFINE a == Target(o)
             gone == SessionsOf(a)
             d == WithoutSessions(db, gone)
             act == [d.actor EXCEPT ![a] = IF @ = "active" THEN "disabled" ELSE @]
             int == [d.intent EXCEPT ![o] = IF state = "complete" \/ @ = "complete"
                                            THEN "complete" ELSE "prepared"]
             e == [d EXCEPT !.actor = act, !.identity = d.identity \ {a}, !.intent = int]
  <1>0. d \in Dbs
    <2> DEFINE I == {}
    <2> QED BY WithoutSessionsKeeps
  <1>1. d.intent = db.intent /\ d.actor = db.actor
    BY DEF WithoutSessions, Dbs
  <1>2. \A s \in Sessions : d.session[s] = IF s \in gone THEN None ELSE db.session[s]
    BY WithoutSessionsRows
  <1>3. Reapplied(o, state) = e
    BY DEF Reapplied
  <1> HIDE DEF d, gone, a
  <1>4. /\ \A p \in Operations \ {o} : int[p] = db.intent[p]
        /\ int[o] # "none"
        /\ int[o] = "complete" => db.intent[o] = "complete" \/ state = "complete"
    BY <1>0, <1>1 DEF Dbs
  <1>5. \A b \in Actors \ {a} : act[b] = db.actor[b]
    BY <1>0, <1>1 DEF Dbs
  <1> HIDE DEF int, act
  <1>6. e.actor = act /\ e.session = d.session /\ e.intent = int
    BY <1>0 DEF Dbs
  <1> HIDE DEF e
  <1>7. \A b : Revoked(db, b) => Revoked(e, b)
    BY <1>2, <1>6 DEF Revoked
  <1>8. Revoked(e, a)
    BY <1>2, <1>6 DEF Revoked, gone, SessionsOf
  <1>9. Known(e, a)
    BY <1>4, <1>6 DEF Known, a
  <1>10. Continues(db, e)
    BY <1>4, <1>5, <1>6, <1>7, <1>8, <1>9 DEF Continues
  <1> QED BY <1>3, <1>10

Disables(d, e) == \A a \in Actors \cap issued : d.actor[a] = "disabled" => e.actor[a] = "disabled"

LEMMA UsersContinue ==
    ASSUME IInv, UserNext
    PROVE  Continues(db, db') /\ Disables(db, db')
  <1>0. db \in Dbs
    BY DEF IInv, Typed
  <1>1. ASSUME NEW a \in Actors, FirstLogin(a) PROVE Continues(db, db') /\ Disables(db, db')
    <2>1. /\ db'.intent = db.intent /\ db'.session = db.session /\ db'.actor[a] = "active" /\ a \notin issued
          /\ \A b \in Actors \ {a} : db'.actor[b] = db.actor[b]
      BY <1>0, <1>1 DEF FirstLogin, Dbs
    <2>2. \A b : Revoked(db, b) => Revoked(db', b)
      BY <2>1 DEF Revoked
    <2> QED BY <2>1, <2>2 DEF Continues, Disables
  <1>2. ASSUME NEW a \in Actors, NEW s \in Sessions, Login(a, s) PROVE Continues(db, db') /\ Disables(db, db')
    <2> DEFINE row == [owner |-> a, state |-> "active"]
    <2>1. /\ db'.intent = db.intent /\ db'.actor = db.actor /\ db.actor[a] = "active"
          /\ db'.session = [db.session EXCEPT ![s] = row]
      BY <1>0, <1>2 DEF Login, Dbs
    <2>2. row.owner = a
      OBVIOUS
    <2> HIDE DEF row
    <2>3. db'.session[s] = row /\ \A x \in Sessions \ {s} : db'.session[x] = db.session[x]
      BY <1>0, <2>1 DEF Dbs
    <2>4. \A b \in Actors \ {a} : Revoked(db, b) => Revoked(db', b)
      BY <2>2, <2>3 DEF Revoked
    <2>5. \A b \in Actors : db'.actor[b] = "disabled" => b # a
      BY <2>1
    <2> QED BY <2>1, <2>4, <2>5 DEF Continues, Disables
  <1>3. ASSUME NEW s \in Sessions, EndSession(s) PROVE Continues(db, db') /\ Disables(db, db')
    <2>1. PICK st \in {"due", "revoked"} : db' = [db EXCEPT !.session[s].state = st]
      BY <1>3 DEF EndSession
    <2> DEFINE row == [db.session[s] EXCEPT !.state = st]
    <2>2. db.session[s] # None /\ db.session[s].state = "active" /\ db.session[s] \in SessionRows
      BY <1>0, <1>3 DEF EndSession, Dbs
    <2>3. /\ db'.intent = db.intent /\ db'.actor = db.actor
          /\ db'.session = [db.session EXCEPT ![s] = row]
      BY <1>0, <2>1 DEF Dbs
    <2>4. row.owner = db.session[s].owner
      BY <2>2 DEF SessionRows
    <2> HIDE DEF row
    <2>5. db'.session[s] = row /\ \A x \in Sessions \ {s} : db'.session[x] = db.session[x]
      BY <1>0, <2>3 DEF Dbs
    <2>6. \A b : Revoked(db, b) => Revoked(db', b)
      BY <2>2, <2>4, <2>5 DEF Revoked
    <2> QED BY <2>3, <2>6 DEF Continues, Disables
  <1> QED BY <1>1, <1>2, <1>3 DEF UserNext

LEMMA CleanupContinues ==
    ASSUME IInv, CleanupNext
    PROVE  Continues(db, db') /\ Disables(db, db')
  <1>0. db \in Dbs
    BY DEF IInv, Typed
  <1>1. PICK s \in Sessions : DeleteExpired(s) \/ CheckAbsent(s) \/ DestroyCredential(s) \/ SealOverdue(s)
    BY DEF CleanupNext
  <1>2. db' \in {db, Quarantined(db), WithoutSessions(db, {s})}
    BY <1>1 DEF DeleteExpired, CheckAbsent, DestroyCredential, SealOverdue
  <1>3. db'.actor = db.actor
    BY <1>0, <1>2 DEF Quarantined, WithoutSessions, Dbs
  <1> QED BY <1>0, <1>2, <1>3, PlainContinues DEF Disables

\* What the database becomes in a worker's step.
LEMMA WorkersRows ==
    ASSUME IInv, NEW w \in Workers, WorkerStep(w)
    PROVE  \/ db' \in {db, Quarantined(db)}
           \/ At(w, "disable") /\ db' = Disabled(job[w].op) /\ ~ Fails(w)
           \/ At(w, "remove") /\ db' = Removed(job[w].op) /\ ~ Fails(w)
           \/ At(w, "complete") /\ db' = Completed(job[w].op) /\ ~ Fails(w)
  <1>1. CASE Fails(w)
    BY <1>1 DEF Fails
  <1>2. CASE ~ Fails(w)
    BY <1>2 DEF WorkerStep, Advance, DisableRolledBack, Stop, Crash, Begin, Resume, ReadHead, Reconcile,
       Match, Plan, Prepare, AppendPrepared, Lookup, Disable, Remove, Absent, Destroy, Verify, Latest, Finish,
       Complete, Report, UnchangedRecords, UnchangedButDb, recordVars, QuarantineAndReturn
  <1> QED BY <1>1, <1>2

LEMMA WorkersContinue ==
    ASSUME IInv, StoriesFit, NEW w \in Workers, WorkerStep(w)
    PROVE  Continues(db, db') /\ Disables(db, db')
  <1>0. db \in Dbs
    BY DEF IInv, Typed
  <1>1. CASE db' \in {db, Quarantined(db)}
    <2>1. db'.actor = db.actor
      BY <1>0, <1>1 DEF Quarantined, Dbs
    <2> QED BY <1>0, <1>1, <2>1, PlainContinues DEF Disables
  <1>2. CASE job[w].at \in {"disable", "remove", "complete"}
    <2>1. PICK o \in Operations : o = job[w].op /\ o \in Intents(Len(ledger)) /\ Target(o) \in Actors
      BY <1>2, ResumedTarget DEF Resumed
    <2>2. CASE At(w, "disable") /\ db' = Disabled(o)
      BY <1>0, <2>1, <2>2, DisabledContinues DEF Disables
    <2>3. CASE At(w, "remove") /\ db' = Removed(o)
      BY <1>0, <2>1, <2>3, RemovedContinues DEF Disables
    <2>4. CASE At(w, "complete") /\ db' = Completed(o)
      <3>1. StateAt(Len(ledger), o) = "complete"
        BY <2>1, <2>4 DEF StoriesFit, At
      <3> QED BY <1>0, <2>1, <2>4, <3>1, CompletedContinues DEF Disables
    <2> QED BY <1>1, <2>1, <2>2, <2>3, <2>4, WorkersRows
  <1> QED BY <1>1, <1>2, WorkersRows DEF At

\* The run: what is done to the database it does to one that is closed.
LEMMA RunContinues ==
    ASSUME IInv, StoriesFit, RunStep \/ RunStops \/ RunCrashes
    PROVE  Continues(db, db')
  <1>0. db \in Dbs /\ run \in Runs
    BY DEF IInv, Typed
  <1>1. CASE db' \in {db, Quarantined(db)}
    BY <1>0, <1>1, PlainContinues
  <1>2. CASE ReapplyDeletion /\ ~ RunFails
    <2>1. run.at = "apply" /\ run.op # None /\ db' = Reapplied(run.op, run.state)
      BY <1>2 DEF ReapplyDeletion
    <2>2. run.op \in Intents(run.initial) /\ run.op \in Operations /\ run.op \in Intents(Len(ledger))
      BY <2>1, PassTarget DEF Applying
    <2>3. PICK o \in Operations : o = run.op /\ o \in Intents(Len(ledger)) /\ Target(o) \in Actors
      BY <2>2, TargetIsKnown DEF IInv, Typed
    <2>4. PICK st \in {"prepared", "complete"} : st = run.state
      BY <1>0 DEF Runs
    <2>5. st = "complete" => StateAt(Len(ledger), o) = "complete"
      BY <2>1, <2>3, <2>4 DEF StoriesFit
    <2> QED BY <1>0, <2>1, <2>3, <2>4, <2>5, ReappliedContinues
  <1>3. CASE Isolate \/ Activate \/ DiscardCredentials
    <2>1. db' \in {db, Quarantined(db), [db EXCEPT !.status = "restoring"], [db EXCEPT !.status = "active"],
                   WithoutSessions(db, Sessions)}
      BY <1>3 DEF Isolate, Activate, DiscardCredentials, RunFails
    <2> QED BY <1>0, <2>1, PlainContinues
  <1>4. CASE ~(ReapplyDeletion /\ ~ RunFails) /\ ~ Isolate /\ ~ Activate /\ ~ DiscardCredentials
    <2>1. db' \in {db, Quarantined(db)}
      BY <1>4 DEF RunStep, RunStops, RunCrashes, LatestHead, CheckActorTickets, ReconcileIntents, TakeIntent,
         DestroyReapplied, Reread, AppendComplete, DestroyCredentials,
         MigrateIdentity, Compare, Again, RecordRecovery, Confirm, Open, Finished, RunOnly, RunFails, DbAnd,
         vars, recordVars
    <2> QED BY <1>1, <2>1
  <1> QED BY <1>2, <1>3, <1>4

LEMMA StoryNext ==
    ASSUME IInv, IInv', Extends(ledger, ledger'), StoryOf(db), Continues(db, db')
    PROVE  StoryOf(db)'
  <1>1. PICK d : d = db
    OBVIOUS
  <1>2. PICK e : e = db'
    OBVIOUS
  <1>3. StoryOf(e)
    BY <1>1, <1>2, StoryContinues DEF IInv
  <1>4. StoryOf(e)'
    BY <1>3, StoryGrows
  <1> QED BY <1>2, <1>4 DEF StoryOf, Known, Revoked

LEMMA BackupStays ==
    ASSUME IInv, IInv', Extends(ledger, ledger'), StoriesFit, backup' = backup
    PROVE  (backup # None => StoryOf(backup.db))'
  <1> SUFFICES ASSUME backup # None PROVE StoryOf(backup.db)'
    OBVIOUS
  <1>1. PICK d : d = backup.db
    OBVIOUS
  <1>2. StoryOf(d)'
    BY <1>1, StoryGrows DEF StoriesFit
  <1> QED BY <1>1, <1>2 DEF StoryOf, Known, Revoked

\* Which step takes a worker onwards.
LEMMA WorkerIs ==
    ASSUME job \in [Workers -> Jobs], NEW w \in Workers, WorkerStep(w), ~ Anew(w)
    PROVE  /\ At(w, "match") => Match(w)
           /\ At(w, "remove") => Remove(w)
           /\ At(w, "verify") => Verify(w)
           /\ At(w, "finish") => Finish(w)
           /\ At(w, "complete") => Complete(w)
  <1>1. ~ Fails(w) /\ ~ Return(w) /\ ~ QuarantineAndReturn(w)
    BY CallsEnd
  <1>2. \A a \in Actors : ~ Begin(w, a)
    BY DEF Begin, Anew, Idle, Jobs
  <1>3. \A o \in Operations : ~ Resume(w, o)
    BY DEF Resume, Anew, Idle, Jobs
  <1>4. Advance(w)
    BY <1>1, <1>2, <1>3 DEF WorkerStep, DisableRolledBack, Stop, Crash
  <1> QED BY <1>4 DEF Advance, At, ReadHead, Reconcile, Match, Plan, Prepare, AppendPrepared, Lookup, Disable, Remove,
          Absent, Destroy, Verify, Latest, Finish, Complete, Report

LEMMA WorkersStates ==
    ASSUME IInv, IInv', StoriesFit, NEW w \in Workers, WorkerStep(w)
    PROVE  \A v \in Workers : job'[v].at \in {"complete", "report"} => StateAt(Len(ledger), job[v].op)' = "complete"
  <1>0. /\ Typed /\ Typed' /\ job \in [Workers -> Jobs] /\ ledger \in Seq(Entries)
        /\ Len(ledger) \in 0..Len(ledger) /\ Extends(ledger, ledger')
    BY WorkersExtend DEF IInv, Typed
  <1>1. ASSUME NEW o, StateAt(Len(ledger), o) = "complete" PROVE StateAt(Len(ledger), o)' = "complete"
    BY <1>0, <1>1, StateGrows
  <1> SUFFICES ASSUME NEW v \in Workers, job'[v].at \in {"complete", "report"}
               PROVE  StateAt(Len(ledger), job[v].op)' = "complete"
    OBVIOUS
  <1>a. ASSUME NEW o, o = job'[v].op, StateAt(Len(ledger), o)' = "complete"
        PROVE  StateAt(Len(ledger), job[v].op)' = "complete"
    BY <1>a DEF StateAt, Deletions
  <1>2. CASE v # w
    <2>1. job'[v] = job[v]
      BY <1>0, <1>2, WorkersWay
    <2>2. PICK o : o = job[v].op
      OBVIOUS
    <2>3. StateAt(Len(ledger), o) = "complete"
      BY <2>1, <2>2 DEF StoriesFit
    <2> QED BY <1>1, <1>a, <2>1, <2>2, <2>3
  <1>3. CASE v = w
    <2>1. ~ Anew(w) /\ Onwards(w)
      BY <1>0, <1>3, WorkersWay DEF Anew
    <2>2. /\ job'[w].op = job[w].op
          /\ \/ At(w, "complete")
             \/ At(w, "finish")
      BY <1>3, <2>1 DEF Onwards, Way, At
    <2>3. PICK o : o = job[w].op
      OBVIOUS
    <2>4. CASE At(w, "complete")
      <3>1. StateAt(Len(ledger), o) = "complete"
        BY <2>3, <2>4 DEF StoriesFit, At
      <3> QED BY <1>1, <1>3, <1>a, <2>2, <2>3, <3>1
    <2>5. CASE At(w, "finish")
      <3> DEFINE e == [kind |-> "deletion", op |-> o, actor |-> Target(o), state |-> "complete"]
      <3>1. Finish(w) /\ ~ Fails(w)
        BY <1>0, <2>1, <2>5, WorkerIs, CallsEnd
      <3>2. job[w].head \in 0..Len(ledger)
        BY <1>0 DEF IInv, JobsFit, JobFits, Jobs
      <3>3. StateAt(job[w].head, o) = "complete" \/ ledger' = Append(ledger, e)
        BY <2>3, <3>1 DEF Finish, State
      <3>4. CASE StateAt(job[w].head, o) = "complete"
        <4>1. PICK h \in 0..Len(ledger) : h = job[w].head
          BY <3>2
        <4>2. StateAt(Len(ledger), o) = "complete"
          BY <1>0, <3>4, <4>1, StateIsNow
        <4> QED BY <1>1, <1>3, <1>a, <2>2, <2>3, <4>2
      <3>5. CASE ledger' = Append(ledger, e)
        <4>1. o \in Operations /\ Target(o) \in Actors
          BY <2>3, <2>5, ResumedTarget DEF At, Resumed
        <4>2. e \in Entries /\ e.kind = "deletion" /\ e.state = "complete" /\ e.op = o
          BY <4>1 DEF Entries
        <4> HIDE DEF e
        <4>3. PICK f \in Entries : f = e
          BY <4>2
        <4>4. StateAt(Len(ledger), o)' = "complete"
          BY <1>0, <3>5, <4>2, <4>3, StateOfAppended
        <4> QED BY <1>3, <1>a, <2>2, <2>3, <4>4
      <3> QED BY <3>3, <3>4, <3>5
    <2> QED BY <2>2, <2>4, <2>5
  <1> QED BY <1>2, <1>3

LEMMA RunStates ==
    ASSUME IInv, IInv', StoriesFit, RunStep \/ RunStops \/ RunCrashes
    PROVE  (run.op # None /\ run.state = "complete" => StateAt(Len(ledger), run.op) = "complete")'
  <1>0. /\ Typed /\ Typed' /\ run \in Runs /\ ledger \in Seq(Entries)
        /\ Len(ledger) \in 0..Len(ledger) /\ Extends(ledger, ledger')
        /\ run.head \in 0..Len(ledger) /\ run.initial \in 0..Len(ledger)
    BY RunExtends DEF IInv, Typed, Runs
  <1>1. ASSUME NEW o, StateAt(Len(ledger), o) = "complete" PROVE StateAt(Len(ledger), o)' = "complete"
    BY <1>0, <1>1, StateGrows
  <1>2. ASSUME NEW h \in 0..Len(ledger), NEW o, StateAt(h, o) = "complete" PROVE StateAt(Len(ledger), o)' = "complete"
    BY <1>0, <1>2, StateGrows
  <1> SUFFICES ASSUME run'.op # None, run'.state = "complete" PROVE StateAt(Len(ledger), run.op)' = "complete"
    OBVIOUS
  <1>3. ASSUME NEW o, o = run'.op, StateAt(Len(ledger), o)' = "complete"
        PROVE  StateAt(Len(ledger), run.op)' = "complete"
    BY <1>3 DEF StateAt, Deletions
  <1>4. CASE run'.op = run.op /\ run'.state = run.state
    <2>1. PICK o : o = run.op
      OBVIOUS
    <2>2. StateAt(Len(ledger), o) = "complete"
      BY <1>4, <2>1 DEF StoriesFit
    <2> QED BY <1>1, <1>3, <1>4, <2>1, <2>2
  <1>5. CASE run' = NoRun
    BY <1>5 DEF NoRun
  <1>6. CASE TakeIntent
    <2>1. CASE Step("apply", "discard")
      BY <1>0, <1>4, <2>1 DEF Step, Runs
    <2>2. CASE ~ Step("apply", "discard")
      <3>1. PICK o \in run.todo : run' = [run EXCEPT !.op = o, !.state = StateAt(run.initial, o)]
        BY <1>6, <2>2 DEF TakeIntent
      <3>2. run'.op = o /\ StateAt(run.initial, o) = "complete"
        BY <1>0, <3>1 DEF Runs
      <3>3. PICK h \in 0..Len(ledger) : h = run.initial
        BY <1>0
      <3> QED BY <1>2, <1>3, <3>2, <3>3
    <2> QED BY <2>1, <2>2
  <1>7. CASE AppendComplete /\ ~ RunFails
    <2> DEFINE e == [kind |-> "deletion", op |-> run.op, actor |-> Target(run.op), state |-> "complete"]
               completed == [run EXCEPT !.at = "apply", !.state = "complete"]
    <2>1. /\ run.at = "append"
          /\ \/ run' = completed /\ StateAt(run.head, run.op) = "complete"
             \/ run' = [completed EXCEPT !.head = Len(ledger')] /\ ledger' = Append(ledger, e)
      BY <1>7 DEF AppendComplete
    <2>2. PICK o : o = run.op
      OBVIOUS
    <2>3. run'.op = o
      BY <1>0, <2>1, <2>2 DEF Runs
    <2>4. CASE StateAt(run.head, run.op) = "complete"
      <3>1. PICK h \in 0..Len(ledger) : h = run.head
        BY <1>0
      <3> QED BY <1>2, <1>3, <2>2, <2>3, <2>4, <3>1
    <2>5. CASE ledger' = Append(ledger, e)
      <3>1. o \in Operations /\ Target(o) \in Actors
        <4>1. o \in Intents(run.initial)
          BY <2>1, <2>2 DEF IInv, RunFits, Applying
        <4> QED BY <1>0, <4>1, TargetIsKnown DEF IInv
      <3>2. e \in Entries /\ e.kind = "deletion" /\ e.state = "complete" /\ e.op = o
        BY <2>2, <3>1 DEF Entries
      <3> HIDE DEF e
      <3>3. PICK f \in Entries : f = e
        BY <3>2
      <3>4. StateAt(Len(ledger), o)' = "complete"
        BY <1>0, <2>5, <3>2, <3>3, StateOfAppended
      <3> QED BY <1>3, <2>3, <3>4
    <2> QED BY <2>1, <2>4, <2>5
  <1>8. ASSUME NEW from, NEW to, Step(from, to) PROVE run'.op = run.op /\ run'.state = run.state
    BY <1>0, <1>8 DEF Step, Runs
  <1>9. CASE RunFails
    BY <1>5, <1>9 DEF RunFails
  <1>10. CASE ReconcileIntents /\ ~ RunFails
    BY <1>0, <1>10 DEF ReconcileIntents, Runs
  <1>11. CASE DestroyReapplied /\ ~ RunFails
    <2>1. (run'.op = run.op /\ run'.state = run.state) \/ run'.op = None
      BY <1>0, <1>11 DEF DestroyReapplied, Runs
    <2> QED BY <1>4, <2>1
  <1>12. CASE (LatestHead \/ Reread \/ Compare \/ Confirm \/ MigrateIdentity) /\ ~ RunFails
    <2>1. run'.op = run.op /\ run'.state = run.state
      BY <1>0, <1>8, <1>12 DEF LatestHead, Reread, Compare, Confirm, MigrateIdentity, Again, Runs
    <2> QED BY <1>4, <2>1
  <1>13. CASE RunStops \/ RunCrashes \/ Finished
    BY <1>5, <1>9, <1>13 DEF RunStops, RunCrashes, Finished
  <1>14. CASE (Isolate \/ CheckActorTickets \/ ReapplyDeletion \/ DiscardCredentials \/ DestroyCredentials) /\ ~ RunFails
    <2>1. run'.op = run.op /\ run'.state = run.state
      BY <1>8, <1>14 DEF Isolate, CheckActorTickets, ReapplyDeletion, DiscardCredentials, DestroyCredentials
    <2> QED BY <1>4, <2>1
  <1>15. CASE (RecordRecovery \/ Activate \/ Open) /\ ~ RunFails
    <2>1. run'.op = run.op /\ run'.state = run.state
      BY <1>8, <1>15 DEF RecordRecovery, Activate, Open
    <2> QED BY <1>4, <2>1
  <1> QED BY <1>6, <1>7, <1>9, <1>10, <1>11, <1>12, <1>13, <1>14, <1>15 DEF RunStep

LEMMA StoriesStay ==
    ASSUME IInv, IInv', StoriesFit, RestoreStep
    PROVE  StoriesFit'
  <1>0. Extends(ledger, ledger') /\ Typed /\ Typed' /\ Len(ledger) \in 0..Len(ledger)
    BY NextExtends DEF IInv, Typed
  <1>1. ASSUME NEW o, StateAt(Len(ledger), o) = "complete" PROVE StateAt(Len(ledger), o)' = "complete"
    BY <1>0, <1>1, StateGrows
  <1>2. ASSUME job' = job
        PROVE  (\A w \in Workers : job[w].at \in {"complete", "report"} => StateAt(Len(ledger), job[w].op) = "complete")'
    <2> SUFFICES ASSUME NEW w \in Workers, job'[w].at \in {"complete", "report"}
                 PROVE  StateAt(Len(ledger), job[w].op)' = "complete"
      OBVIOUS
    <2>1. PICK o : o = job[w].op
      OBVIOUS
    <2>2. StateAt(Len(ledger), o)' = "complete"
      BY <1>1, <1>2, <2>1 DEF StoriesFit
    <2> QED BY <1>2, <2>1, <2>2 DEF StateAt, Deletions
  <1>3. ASSUME run' = run
        PROVE  (run.op # None /\ run.state = "complete" => StateAt(Len(ledger), run.op) = "complete")'
    <2> SUFFICES ASSUME run.op # None, run.state = "complete" PROVE StateAt(Len(ledger), run.op)' = "complete"
      BY <1>3
    <2>1. PICK o : o = run.op
      OBVIOUS
    <2>2. StateAt(Len(ledger), o)' = "complete"
      BY <1>1, <2>1 DEF StoriesFit
    <2> QED BY <1>3, <2>1, <2>2 DEF StateAt, Deletions
  <1>4. CASE RunStep \/ RunStops \/ RunCrashes
    <2>1. UNCHANGED <<job, backup>>
      BY <1>4 DEF RunStep, RunStops, RunCrashes, Isolate, LatestHead, CheckActorTickets, ReconcileIntents, TakeIntent,
         ReapplyDeletion, DestroyReapplied, Reread, AppendComplete, DiscardCredentials, DestroyCredentials,
         MigrateIdentity, Compare, Again, RecordRecovery, Confirm, Activate, Open, Finished, RunOnly, RunFails, DbAnd,
         vars, deletionVars
    <2> QED BY <1>0, <1>2, <1>4, <2>1, RunContinues, RunStates, StoryNext, BackupStays DEF StoriesFit
  <1>5. CASE WorkerNext /\ UNCHANGED restoreVars
    <2>1. PICK w \in Workers : WorkerStep(w)
      BY <1>5 DEF WorkerNext, WorkerStep
    <2>2. UNCHANGED <<run, backup>>
      BY <1>5 DEF restoreVars
    <2>3. Continues(db, db')
      BY <2>1, WorkersContinue
    <2>4. (\A v \in Workers : job[v].at \in {"complete", "report"} => StateAt(Len(ledger), job[v].op) = "complete")'
      BY <2>1, WorkersStates
    <2> QED BY <1>0, <1>3, <2>2, <2>3, <2>4, StoryNext, BackupStays DEF StoriesFit
  <1>6. CASE (UserNext \/ CleanupNext) /\ UNCHANGED restoreVars
    <2>1. UNCHANGED <<job, run, backup>>
      BY <1>6 DEF restoreVars, UserNext, FirstLogin, Login, EndSession, DbOnly, deletionVars,
         CleanupNext, DeleteExpired, CheckAbsent, DestroyCredential, SealOverdue
    <2> QED BY <1>0, <1>2, <1>3, <1>6, <2>1, UsersContinue, CleanupContinues, StoryNext, BackupStays DEF StoriesFit
  <1>7. CASE Start
    <2>1. UNCHANGED <<job, db, backup>> /\ run'.op = run.op /\ run'.state = run.state
      BY <1>7 DEF Start, RunOnly, Step, vars, deletionVars, recordVars, Typed, IInv, Runs
    <2>2. (run.op # None /\ run.state = "complete" => StateAt(Len(ledger), run.op) = "complete")'
      <3> SUFFICES ASSUME run.op # None, run.state = "complete" PROVE StateAt(Len(ledger), run.op)' = "complete"
        BY <2>1
      <3>1. PICK o : o = run.op
        OBVIOUS
      <3>2. StateAt(Len(ledger), o)' = "complete"
        BY <1>1, <3>1 DEF StoriesFit
      <3> QED BY <2>1, <3>1, <3>2 DEF StateAt, Deletions
    <2>3. Continues(db, db')
      BY <2>1, PlainContinues DEF IInv, Typed
    <2> QED BY <1>0, <1>2, <2>1, <2>2, <2>3, StoryNext, BackupStays DEF StoriesFit
  <1>8. CASE TakeBackup \/ PutBackup
    <2>1. UNCHANGED <<job, run, ledger>> /\ (db' = db \/ db' = backup.db) /\ (backup' = backup \/ backup'.db = db)
          /\ (db' = db \/ backup # None)
      BY <1>8 DEF TakeBackup, PutBackup, vars, recordVars, deletionVars
    <2>2. PICK d : d = db' /\ StoryOf(d)
      BY <2>1 DEF StoriesFit
    <2>3. StoryOf(d)'
      BY <1>0, <2>2, StoryGrows
    <2>4. StoryOf(db)'
      BY <2>2, <2>3 DEF StoryOf, Known, Revoked
    <2>5. (backup # None => StoryOf(backup.db))'
      <3>1. CASE backup' = backup
        BY <1>0, <3>1, BackupStays
      <3>2. CASE backup'.db = db
        <4>1. PICK b : b = db /\ StoryOf(b)
          BY DEF StoriesFit
        <4>2. StoryOf(b)'
          BY <1>0, <4>1, StoryGrows
        <4> QED BY <3>2, <4>1, <4>2 DEF StoryOf, Known, Revoked
      <3> QED BY <2>1, <3>1, <3>2
    <2> QED BY <1>2, <1>3, <2>1, <2>4, <2>5 DEF StoriesFit
  <1> QED BY <1>4, <1>5, <1>6, <1>7, <1>8 DEF RestoreStep

-----------------------------------------------------------------------------
(* At most one deletion of an actor                                        *)

LEMMA OneDeletionStays ==
    ASSUME IInv, IInv', OneDeletionPerActor, Extends(ledger, ledger'),
           Intents(Len(ledger))' = Intents(Len(ledger))
    PROVE  OneDeletionPerActor'
  <1>1. \A o \in Intents(Len(ledger)) : Target(o)' = Target(o)
    BY IntentsStay DEF IInv
  <1> QED BY <1>1 DEF OneDeletionPerActor

Unseen(j) == j.at \in {"plan", "prepare", "append"} => \A o \in Intents(j.head) : Target(o) # j.actor

LEMMA UnseenStays ==
    ASSUME IInv, IInv', Extends(ledger, ledger'), NEW v \in Workers, Unseen(job[v]),
           job'[v].at \in {"plan", "prepare", "append"} =>
              job'[v].head = job[v].head /\ job'[v].actor = job[v].actor /\ job[v].at \in {"plan", "prepare", "append"}
    PROVE  Unseen(job[v])'
  <1> SUFFICES ASSUME job'[v].at \in {"plan", "prepare", "append"}, NEW o \in Intents(job[v].head)'
               PROVE  Target(o)' # job'[v].actor
    BY DEF Unseen
  <1>1. PICK h \in 0..Len(ledger) : h = job[v].head
    BY DEF IInv, Typed, JobsFit, JobFits, Jobs
  <1>2. Intents(h)' = Intents(h)
    BY IntentsStay DEF IInv
  <1>3. o \in Intents(h)
    BY <1>1, <1>2 DEF Intents, Deletions
  <1>4. Target(o)' = Target(o)
    BY <1>3, IntentsStay, TargetIsKnown DEF IInv
  <1> QED BY <1>1, <1>3, <1>4 DEF Unseen

LEMMA WorkersOneIntent ==
    ASSUME IInv, IInv', OneIntent, NEW w \in Workers, WorkerStep(w)
    PROVE  OneIntent'
  <1>0. /\ Extends(ledger, ledger') /\ job \in [Workers -> Jobs] /\ ledger \in Seq(Entries)
        /\ Len(ledger) \in Nat /\ job[w].head \in 0..Len(ledger) /\ Typed /\ LedgerFits /\ LedgerFits' /\ Typed'
    BY WorkersExtend DEF IInv, Typed, JobsFit, JobFits, Jobs
  <1>1. \A v \in Workers : Unseen(job[v])
    BY DEF OneIntent, Unseen
  <1>2. ASSUME NEW v \in Workers \ {w} PROVE Unseen(job[v])'
    BY <1>0, <1>1, <1>2, WorkersWay, UnseenStays
  <1>3. Unseen(job[w])'
    <2>1. CASE ~ Anew(w) /\ At(w, "match") /\ job'[w].at = "plan"
      <3>1. Match(w) /\ ~ QuarantineAndReturn(w)
        BY <1>0, <2>1, WorkerIs, CallsEnd
      <3>2. ledger' = ledger
        BY <3>1 DEF Match, UnchangedRecords, recordVars
      <3>3. job'[w].head = job[w].head /\ job'[w].actor = job[w].actor
        BY <1>0, <2>1, WorkersWay DEF Onwards
      <3>4. {o \in Intents(job[w].head) : Target(o) = job[w].actor} = {}
        <4> DEFINE matches == {o \in Intents(job[w].head) : Target(o) = job[w].actor}
                   op == CHOOSE o \in matches : TRUE
        <4>1. matches = {} \/ job' = [job EXCEPT ![w] = [Idle EXCEPT !.at = "head", !.op = op]]
          BY <3>1 DEF Match
        <4> HIDE DEF matches, op
        <4>2. job' = [job EXCEPT ![w] = [Idle EXCEPT !.at = "head", !.op = op]] => job'[w].at = "head"
          BY <1>0 DEF Idle
        <4>3. matches = {}
          BY <2>1, <4>1, <4>2
        <4> QED BY <4>3 DEF matches
      <3>5. \A o \in Intents(job[w].head) : Target(o) # job[w].actor
        BY <3>4
      <3>6. \A o : Target(o)' = Target(o)
        BY <3>2 DEF Target, Deletions
      <3>7. Intents(job[w].head)' = Intents(job[w].head)
        BY <3>2, <3>3 DEF Intents, Deletions
      <3> QED BY <3>3, <3>5, <3>6, <3>7 DEF Unseen
    <2>2. CASE ~ Anew(w) /\ ~ (At(w, "match") /\ job'[w].at = "plan")
      <3>1. job'[w].at \in {"plan", "prepare", "append"} =>
               job'[w].head = job[w].head /\ job'[w].actor = job[w].actor /\ job[w].at \in {"plan", "prepare", "append"}
        BY <1>0, <2>2, WorkersWay DEF Onwards, Way, At
      <3> QED BY <1>0, <1>1, <3>1, UnseenStays
    <2>3. CASE Anew(w)
      BY <2>3 DEF Anew, Unseen
    <2> QED BY <2>1, <2>2, <2>3
  <1>4. OneDeletionPerActor'
    <2>1. CASE Intents(Len(ledger))' = Intents(Len(ledger))
      BY <1>0, <2>1, OneDeletionStays DEF OneIntent
    <2>2. CASE Intents(Len(ledger))' # Intents(Len(ledger))
      <3>1. ledger' # ledger
        BY <2>2 DEF Intents, Deletions
      <3>2. PICK e \in Entries :
                 /\ ledger' = Append(ledger, e) /\ e.kind = "deletion" /\ e.op = job[w].op
                 /\ \/ AppendPrepared(w) /\ e.actor = job[w].actor /\ e.state = "prepared"
                    \/ Finish(w) /\ e.op \in Intents(Len(ledger)) /\ e.state = "complete"
        BY <3>1, WorkersEntry
      <3>3. Intents(Len(ledger))' = Intents(Len(ledger)) \cup {e.op} /\ Target(e.op)' = e.actor
        BY <3>2, IntentsOfAppended
      <3>4. AppendPrepared(w) /\ e.actor = job[w].actor
        BY <2>2, <3>2, <3>3
      <3>5. job[w].head = Len(ledger) /\ At(w, "append")
        BY <3>1, <3>4 DEF AppendPrepared, MayAppend, Fails
      <3>6. \A o \in Intents(Len(ledger)) : Target(o) # e.actor
        BY <1>1, <3>4, <3>5 DEF Unseen, At
      <3>7. \A o \in Intents(Len(ledger)) : Target(o)' = Target(o)
        BY <1>0, IntentsStay
      <3> QED BY <3>3, <3>6, <3>7 DEF OneIntent, OneDeletionPerActor
    <2> QED BY <2>1, <2>2
  <1>5. \A v \in Workers : Unseen(job[v])'
    BY <1>2, <1>3
  <1> QED BY <1>4, <1>5 DEF OneIntent, Unseen

\* No other step tells the ledger of a deletion that it does not know.
LEMMA OthersIntents ==
    ASSUME IInv, IInv', RestoreStep, ~ WorkerNext
    PROVE  Intents(Len(ledger))' = Intents(Len(ledger)) /\ job' = job
  <1>1. job' = job
    BY DEF RestoreStep, TakeBackup, PutBackup, Start, RunStep, RunStops, RunCrashes, Isolate, LatestHead,
       CheckActorTickets, ReconcileIntents, TakeIntent, ReapplyDeletion, DestroyReapplied, Reread, AppendComplete,
       DiscardCredentials, DestroyCredentials, MigrateIdentity, Compare, Again, RecordRecovery, Confirm, Activate,
       Open, Finished, RunOnly, RunFails, DbAnd, vars, deletionVars, UserNext, FirstLogin, Login, EndSession, DbOnly,
       CleanupNext, DeleteExpired, CheckAbsent, DestroyCredential, SealOverdue
  <1>2. CASE ledger' = ledger
    BY <1>1, <1>2 DEF Intents, Deletions
  <1>3. CASE AppendComplete /\ ledger' # ledger
    <2> DEFINE e == [kind |-> "deletion", op |-> run.op, actor |-> Target(run.op), state |-> "complete"]
    <2>1. run.at = "append" /\ ledger' = Append(ledger, e)
      BY <1>3 DEF AppendComplete, RunOnly, RunFails, vars, recordVars
    <2>2. run.op \in Intents(run.initial) /\ run.initial \in 0..Len(ledger)
      BY <2>1 DEF IInv, Typed, RunFits, Applying, Runs
    <2>3. run.op \in Operations /\ Target(run.op) \in Actors /\ run.op \in Intents(Len(ledger))
      BY <2>2, TargetIsKnown DEF IInv, Typed
    <2>4. e \in Entries /\ e.op = run.op /\ e.kind = "deletion"
      BY <2>3 DEF Entries
    <2> HIDE DEF e
    <2>5. PICK f \in Entries : f = e
      BY <2>4
    <2>6. Intents(Len(ledger))' = Intents(Len(ledger))
      BY <2>1, <2>3, <2>4, <2>5, IntentsOfAppended
    <2> QED BY <1>1, <2>6
  <1>4. CASE RecordRecovery /\ ledger' # ledger
    <2> DEFINE e == [kind |-> "recovery"]
    <2>1. ledger' = Append(ledger, e)
      BY <1>4 DEF RecordRecovery, RunFails
    <2>2. e \in Entries /\ e.kind # "deletion"
      BY DEF Entries
    <2> HIDE DEF e
    <2>3. Intents(Len(ledger))' = Intents(Len(ledger))
      BY <2>1, <2>2, IntentsOfAppended
    <2> QED BY <1>1, <2>3
  <1>5. CASE ~ AppendComplete /\ ~ RecordRecovery
    <2>1. ledger' = ledger
      BY <1>5 DEF RestoreStep, TakeBackup, PutBackup, Start, RunStep, RunStops, RunCrashes, Isolate, LatestHead,
         CheckActorTickets, ReconcileIntents, TakeIntent, ReapplyDeletion, DestroyReapplied, Reread,
         DiscardCredentials, DestroyCredentials, MigrateIdentity, Compare, Again, Confirm, Activate,
         Open, Finished, RunOnly, RunFails, DbAnd, vars, recordVars, UserNext, FirstLogin, Login, EndSession, DbOnly,
         CleanupNext, DeleteExpired, CheckAbsent, DestroyCredential, SealOverdue
    <2> QED BY <1>1, <1>2, <2>1
  <1> QED BY <1>1, <1>2, <1>3, <1>4, <1>5

LEMMA OneIntentStays ==
    ASSUME IInv, IInv', OneIntent, RestoreStep
    PROVE  OneIntent'
  <1>1. CASE WorkerNext
    BY <1>1, WorkersOneIntent DEF WorkerNext, WorkerStep
  <1>2. CASE ~ WorkerNext
    <2>1. Intents(Len(ledger))' = Intents(Len(ledger)) /\ job' = job /\ Extends(ledger, ledger')
      BY <1>2, OthersIntents, NextExtends
    <2>2. OneDeletionPerActor'
      BY <2>1, OneDeletionStays DEF OneIntent
    <2>3. \A v \in Workers : Unseen(job[v])
      BY DEF OneIntent, Unseen
    <2>4. \A v \in Workers : Unseen(job[v])'
      BY <2>1, <2>3, UnseenStays
    <2> QED BY <2>2, <2>4 DEF OneIntent, Unseen
  <1> QED BY <1>1, <1>2

-----------------------------------------------------------------------------
(* A ticket that is done is one whose keys are destroyed                   *)

DoneAgain(o) ==
    ticket'[o] # None /\ ticket'[o].done =>
       \/ ticket[o] # None /\ ticket[o].done /\ ticket'[o].scopes = ticket[o].scopes
       \/ ticket'[o].scopes \subseteq dead'

LEMMA DoneStays ==
    ASSUME DoneIsDead, dead \subseteq dead', \A o \in Operations : DoneAgain(o)
    PROVE  DoneIsDead'
  BY DEF DoneIsDead, DoneAgain

LEMMA WorkersDone ==
    ASSUME IInv, DoneIsDead, NEW w \in Workers, WorkerStep(w)
    PROVE  DoneIsDead'
  <1>1. CASE Quiet(w)
    BY <1>1 DEF Quiet, DoneIsDead
  <1>2. CASE Prepare(w)
    <2>1. dead' = dead
      BY <1>2 DEF Prepare
    <2>2. \A o \in Operations : DoneAgain(o)
      BY <1>2, PreparedTicket DEF DoneAgain
    <2> QED BY <2>1, <2>2, DoneStays
  <1>3. CASE Registers(w)
    <2>1. dead' = dead /\ ticket[job[w].op] # None
      BY <1>3, ResumedTarget DEF Registers, At, Resumed
    <2>2. \A o \in Operations : DoneAgain(o)
      BY <1>3, <2>1, RegisteredScopes DEF DoneAgain
    <2> QED BY <2>1, <2>2, DoneStays
  <1>4. CASE Destroys(w)
    <2>1. dead' = dead \cup job[w].scopes /\ ticket'[job[w].op].scopes = job[w].scopes
      BY <1>4, DestroyedTicket DEF Destroys
    <2>2. \A o \in Operations : DoneAgain(o)
      BY <1>4, <2>1, DestroyedTicket DEF DoneAgain
    <2> QED BY <2>1, <2>2, DoneStays
  <1> QED BY <1>1, <1>2, <1>3, <1>4, WorkersRecords DEF IInv

LEMMA RunDone ==
    ASSUME IInv, DoneIsDead, ReapplyDeletion \/ DestroyReapplied, ~ RunFails
    PROVE  DoneIsDead'
  <1>1. run.op \in Operations /\ ticket[run.op] # None /\ ticket[run.op] \in Tickets
    <2>1. run.op # None
      BY NoneAssumption DEF ReapplyDeletion, DestroyReapplied, IInv, RunFits, Typed, Runs, Applying
    <2> QED BY <2>1, PassTarget DEF ReapplyDeletion, DestroyReapplied, Applying
  <1>2. CASE ReapplyDeletion
    <2> DEFINE o == run.op
               s == ticket[o].scopes \cup SessionsOf(Target(o))
               t == [scopes |-> ticket[o].scopes \cup s, done |-> ticket[o].done /\ s \subseteq ticket[o].scopes]
    <2>1. PrepareTicket(o, s) /\ dead' = dead
      BY <1>2 DEF ReapplyDeletion, DbAnd
    <2>2. ticket' = [ticket EXCEPT ![o] = t]
      BY <1>1, <2>1 DEF PrepareTicket
    <2>3. t.done => ticket[o].done /\ t.scopes = ticket[o].scopes
      OBVIOUS
    <2> HIDE DEF s, t
    <2>4. ticket'[o] = t /\ \A p \in Operations \ {o} : ticket'[p] = ticket[p]
      BY <1>1, <2>2 DEF IInv, Typed
    <2>5. \A p \in Operations : DoneAgain(p)
      BY <1>1, <2>3, <2>4 DEF DoneAgain
    <2> QED BY <2>1, <2>5, DoneStays
  <1>3. CASE DestroyReapplied
    <2>1. PICK o \in Operations : o = run.op /\ DestroyTicket(o) /\ ticket[o] # None
      BY <1>1, <1>3 DEF DestroyReapplied
    <2>2. /\ \A p \in Operations \ {o} : ticket'[p] = ticket[p]
          /\ ticket'[o].scopes \subseteq dead' /\ dead \subseteq dead'
      BY <2>1, TicketDestroyed DEF IInv, Destroyed
    <2>3. \A p \in Operations : DoneAgain(p)
      BY <2>2 DEF DoneAgain
    <2> QED BY <2>2, <2>3, DoneStays
  <1> QED BY <1>2, <1>3

LEMMA DoneNext ==
    ASSUME IInv, DoneIsDead, RestoreStep
    PROVE  DoneIsDead'
  <1>1. CASE WorkerNext
    BY <1>1, WorkersDone DEF WorkerNext, WorkerStep
  <1>2. CASE (ReapplyDeletion \/ DestroyReapplied) /\ ~ RunFails
    BY <1>2, RunDone
  <1>3. CASE ~ WorkerNext /\ ~ ((ReapplyDeletion \/ DestroyReapplied) /\ ~ RunFails)
    <2>1. ticket' = ticket
      BY <1>3 DEF RestoreStep, TakeBackup, PutBackup, Start, RunStep, RunStops, RunCrashes, Isolate, LatestHead,
         CheckActorTickets, ReconcileIntents, TakeIntent, ReapplyDeletion, DestroyReapplied, Reread, AppendComplete,
         DiscardCredentials, DestroyCredentials, MigrateIdentity, Compare, Again, RecordRecovery, Confirm, Activate,
         Open, Finished, RunOnly, RunFails, DbAnd, vars, recordVars, UserNext, FirstLogin, Login, EndSession, DbOnly,
         CleanupNext, DeleteExpired, CheckAbsent, DestroyCredential, SealOverdue
    <2>2. dead \subseteq dead'
      BY <1>3 DEF RestoreStep, TakeBackup, PutBackup, Start, RunStep, RunStops, RunCrashes, Isolate, LatestHead,
         CheckActorTickets, ReconcileIntents, TakeIntent, ReapplyDeletion, DestroyReapplied, Reread, AppendComplete,
         DiscardCredentials, DestroyCredentials, MigrateIdentity, Compare, Again, RecordRecovery, Confirm, Activate,
         Open, Finished, RunOnly, RunFails, DbAnd, vars, recordVars, UserNext, FirstLogin, Login, EndSession, DbOnly,
         CleanupNext, DeleteExpired, CheckAbsent, DestroyCredential, SealOverdue
    <2>3. \A o \in Operations : DoneAgain(o)
      BY <2>1 DEF DoneAgain
    <2> QED BY <2>2, <2>3, DoneStays
  <1> QED BY <1>1, <1>2, <1>3

-----------------------------------------------------------------------------
(* What a worker did to a deletion lasts until a backup is put in place    *)

\* What may happen while no backup has been put in place.
Serves == (\E w \in Workers : WorkerStep(w)) \/ UserNext \/ CleanupNext

LEMMA UsersLeave ==
    ASSUME IInv, UserNext, NEW a \in Actors \cap issued, Out(db, a)
    PROVE  Out(db', a) /\ db'.intent = db.intent
  <1>0. db \in Dbs
    BY DEF IInv, Typed
  <1>1. ASSUME NEW b \in Actors, FirstLogin(b) PROVE Out(db', a) /\ db'.intent = db.intent
    <2>1. /\ db'.intent = db.intent /\ db'.session = db.session /\ db'.identity = db.identity \cup {b} /\ b # a
          /\ db'.actor[a] = db.actor[a]
      BY <1>0, <1>1 DEF FirstLogin, Dbs
    <2> QED BY <2>1 DEF Out
  <1>2. ASSUME NEW b \in Actors, NEW s \in Sessions, Login(b, s) PROVE Out(db', a) /\ db'.intent = db.intent
    <2> DEFINE row == [owner |-> b, state |-> "active"]
    <2>1. /\ db'.intent = db.intent /\ db'.actor = db.actor /\ db.actor[b] = "active"
          /\ db'.identity = db.identity /\ db'.session = [db.session EXCEPT ![s] = row]
      BY <1>0, <1>2 DEF Login, Dbs
    <2>2. row.owner = b
      OBVIOUS
    <2> HIDE DEF row
    <2>3. db'.session[s] = row /\ \A x \in Sessions \ {s} : db'.session[x] = db.session[x]
      BY <1>0, <2>1 DEF Dbs
    <2> QED BY <2>1, <2>2, <2>3 DEF Out
  <1>3. ASSUME NEW s \in Sessions, EndSession(s) PROVE Out(db', a) /\ db'.intent = db.intent
    <2>1. PICK st \in {"due", "revoked"} : db' = [db EXCEPT !.session[s].state = st]
      BY <1>3 DEF EndSession
    <2> DEFINE row == [db.session[s] EXCEPT !.state = st]
    <2>2. db.session[s] # None /\ db.session[s] \in SessionRows
      BY <1>0, <1>3 DEF EndSession, Dbs
    <2>3. /\ db'.intent = db.intent /\ db'.actor = db.actor /\ db'.identity = db.identity
          /\ db'.session = [db.session EXCEPT ![s] = row]
      BY <1>0, <2>1 DEF Dbs
    <2>4. row.owner = db.session[s].owner
      BY <2>2 DEF SessionRows
    <2> HIDE DEF row
    <2>5. db'.session[s] = row /\ \A x \in Sessions \ {s} : db'.session[x] = db.session[x]
      BY <1>0, <2>3 DEF Dbs
    <2> QED BY <2>2, <2>3, <2>4, <2>5 DEF Out
  <1> QED BY <1>1, <1>2, <1>3 DEF UserNext

LEMMA WorkersLeave ==
    ASSUME IInv, NEW w \in Workers, WorkerStep(w)
    PROVE  Keeps(issued, db, db')
  <1>0. db \in Dbs
    BY DEF IInv, Typed
  <1>1. PICK o : o = job[w].op
    OBVIOUS
  <1>2. PICK I : I = issued
    OBVIOUS
  <1>3. db' \in {db, Quarantined(db), Disabled(o), Removed(o), Completed(o)}
    BY <1>1, WorkersRows
  <1>4. Keeps(I, db, db')
    BY <1>0, <1>3, QuarantinedKeeps, KeepsItself, DisabledKeeps, RemovedKeeps, CompletedKeeps
  <1> QED BY <1>2, <1>4

LEMMA CleanupLeaves ==
    ASSUME IInv, CleanupNext
    PROVE  Keeps(issued, db, db')
  <1>0. db \in Dbs
    BY DEF IInv, Typed
  <1>1. PICK s \in Sessions : DeleteExpired(s) \/ CheckAbsent(s) \/ DestroyCredential(s) \/ SealOverdue(s)
    BY DEF CleanupNext
  <1>2. PICK I : I = issued
    OBVIOUS
  <1>3. db' \in {db, Quarantined(db), WithoutSessions(db, {s})}
    BY <1>1 DEF DeleteExpired, CheckAbsent, DestroyCredential, SealOverdue
  <1>4. Keeps(I, db, db')
    BY <1>0, <1>3, QuarantinedKeeps, KeepsItself, WithoutSessionsKeeps
  <1> QED BY <1>2, <1>4

\* What was left of an actor, and a deletion recorded as complete, stay as they are.
LEMMA LeftStays ==
    ASSUME IInv, StoriesFit, Serves
    PROVE  /\ \A a \in Actors \cap issued : Left(db, a) => Left(db', a)
           /\ \A o \in Operations : db.intent[o] = "complete" => db'.intent[o] = "complete"
  <1>1. CASE \E w \in Workers : WorkerStep(w)
    BY <1>1, WorkersContinue, WorkersLeave DEF Left, Disables, Keeps
  <1>2. CASE CleanupNext
    BY <1>2, CleanupContinues, CleanupLeaves DEF Left, Disables, Keeps
  <1>3. CASE UserNext
    <2>1. \A a \in Actors \cap issued : Left(db, a) => Left(db', a)
      BY <1>3, UsersContinue, UsersLeave DEF Left, Disables
    <2>2. db'.intent = db.intent
      BY <1>3 DEF UserNext, FirstLogin, Login, EndSession, IInv, Typed, Dbs
    <2> QED BY <2>1, <2>2
  <1> QED BY <1>1, <1>2, <1>3 DEF Serves

\* The ticket of a deletion whose actor is out gets no scope that is not destroyed.
LEMMA DestroyedStays ==
    ASSUME IInv, Serves, NEW o \in Intents(Len(ledger)), Left(db, Target(o)), Destroyed(o)
    PROVE  Destroyed(o)'
  <1>0. o \in Operations /\ ticket[o] # None
    BY TargetIsKnown DEF IInv, Typed
  <1>1. CASE UserNext \/ CleanupNext
    BY <1>1 DEF UserNext, FirstLogin, Login, EndSession, DbOnly, CleanupNext, DeleteExpired, CheckAbsent,
       DestroyCredential, SealOverdue, Destroyed
  <1>2. ASSUME NEW w \in Workers, WorkerStep(w) PROVE Destroyed(o)'
    <2>1. CASE Quiet(w)
      BY <2>1 DEF Quiet, Destroyed
    <2>2. CASE Prepare(w)
      <3>1. dead' = dead /\ o # job[w].op
        BY <1>0, <2>2, PreparedTicket DEF Prepare
      <3> QED BY <1>0, <2>2, <3>1, PreparedTicket DEF Destroyed
    <2>3. CASE Registers(w)
      <3>1. dead' = dead
        BY <2>3 DEF Registers
      <3>2. CASE o # job[w].op
        BY <1>0, <2>3, <3>1, <3>2, RegisteredScopes DEF Destroyed
      <3>3. CASE o = job[w].op
        <4>1. SessionsOf(Target(o)) = {}
          BY DEF Left, Out, SessionsOf
        <4>2. PICK s \in SUBSET (Actors \cup Sessions) : s = NewScopes(w) /\ s \subseteq ticket[o].scopes
          BY <1>0, <3>3, <4>1, NoneAssumption DEF NewScopes, IInv, Typed, Tickets
        <4>3. PrepareTicket(o, s)
          BY <2>3, <3>3, <4>2 DEF Registers
        <4>4. ticket'[o].done = ticket[o].done /\ ticket'[o].scopes = ticket[o].scopes
          BY <1>0, <4>2, <4>3, TicketPrepared DEF IInv
        <4> QED BY <3>1, <4>4 DEF Destroyed
      <3> QED BY <3>2, <3>3
    <2>4. CASE Destroys(w)
      <3>1. job[w].op \in Operations /\ ticket[job[w].op] # None /\ DestroyTicket(job[w].op)
        BY <2>4, ResumedTarget DEF Destroys, At, Resumed
      <3>2. PICK p \in Operations : p = job[w].op
        BY <3>1
      <3>3. \A q \in Operations : Destroyed(q) => Destroyed(q)'
        BY <3>1, <3>2, TicketDestroyed DEF IInv
      <3> QED BY <1>0, <3>3
    <2> QED BY <1>2, <2>1, <2>2, <2>3, <2>4, WorkersRecords DEF IInv
  <1> QED BY <1>1, <1>2 DEF Serves

LEMMA LastsOn ==
    ASSUME IInv, IInv', StoriesFit, Serves, NEW o \in Intents(Len(ledger))
    PROVE  /\ Target(o)' = Target(o)
           /\ Left(db, Target(o)) => Left(db, Target(o))'
           /\ Left(db, Target(o)) /\ Destroyed(o) => Destroyed(o)'
           /\ db.intent[o] = "complete" => db.intent[o]' = "complete"
           /\ CompleteInLedger(o) => CompleteInLedger(o)'
  <1>1. Extends(ledger, ledger') /\ Typed /\ Typed' /\ LedgerFits /\ LedgerFits' /\ Len(ledger) \in 0..Len(ledger)
    <2>1. CASE UserNext \/ CleanupNext
      <3>1. ledger' = ledger
        BY <2>1 DEF UserNext, FirstLogin, Login, EndSession, DbOnly, CleanupNext, DeleteExpired, CheckAbsent,
           DestroyCredential, SealOverdue
      <3> QED BY <3>1 DEF IInv, Typed, Extends
    <2>2. CASE \E w \in Workers : WorkerStep(w)
      BY <2>2, WorkersExtend DEF IInv, Typed
    <2> QED BY <2>1, <2>2 DEF Serves
  <1>2. o \in Operations /\ Target(o) \in Actors \cap issued
    BY <1>1, TargetIsKnown
  <1>3. Target(o)' = Target(o) /\ o \in Intents(Len(ledger))'
    BY <1>1, IntentsStay
  <1>4. PICK a \in Actors \cap issued : a = Target(o)
    BY <1>2
  <1>5. Left(db, a) => Left(db', a)
    BY LeftStays
  <1>6. Left(db, Target(o)) => Left(db, Target(o))'
    BY <1>3, <1>4, <1>5 DEF Left, Out
  <1>7. CompleteInLedger(o) => CompleteInLedger(o)'
    BY <1>1, <1>3, StateGrows DEF CompleteInLedger
  <1> QED BY <1>2, <1>3, <1>6, <1>7, LeftStays, DestroyedStays

LEMMA WorkerLastsOn ==
    ASSUME IInv, IInv', StoriesFit, Serves, NEW v \in Workers, WorkerLasts(v), job'[v] = job[v]
    PROVE  WorkerLasts(v)'
  <1>1. CASE job[v].at \notin {"absent", "destroy", "verify"} \cup Ended
    BY <1>1 DEF WorkerLasts, Ended, At
  <1>2. CASE job[v].at \in {"absent", "destroy", "verify"} \cup Ended
    <2>1. PICK o \in Intents(Len(ledger)) : o = job[v].op
      BY <1>2, ResumedTarget DEF Resumed, Ended
    <2>2. /\ Left(db, Target(o))
          /\ job[v].at \in Ended => Destroyed(o)
          /\ At(v, "report") => db.intent[o] = "complete"
      BY <1>2, <2>1 DEF WorkerLasts
    <2>3. /\ Left(db, Target(o))'
          /\ job[v].at \in Ended => Destroyed(o)'
          /\ At(v, "report") => db'.intent[o] = "complete"
      BY <2>2, LastsOn
    <2>4. Target(job[v].op)' = Target(o)' /\ Destroyed(job[v].op)' = Destroyed(o)'
      BY <2>1 DEF Target, Deletions, Destroyed
    <2>5. Left(db, Target(job[v].op))'
      BY <2>3, <2>4 DEF Left, Out
    <2> QED BY <2>1, <2>3, <2>4, <2>5 DEF WorkerLasts, At
  <1> QED BY <1>1, <1>2

\* A worker goes on from the removed rows to the destroyed keys and to the end of the deletion.
LEMMA WorkerGoesOn ==
    ASSUME IInv, IInv', StoriesFit, DoneIsDead, NEW w \in Workers, WorkerStep(w), WorkerLasts(w)
    PROVE  WorkerLasts(w)'
  <1>0. Serves /\ job \in [Workers -> Jobs] /\ db \in Dbs
    BY DEF Serves, IInv, Typed
  <1>1. CASE job'[w].at \notin {"absent", "destroy", "verify"} \cup Ended
    BY <1>1 DEF WorkerLasts, Ended, At
  <1>2. CASE job'[w].at \in {"absent", "destroy", "verify"} \cup Ended
    <2>1. ~ Anew(w) /\ Onwards(w)
      BY <1>0, <1>2, WorkersWay DEF Anew, Ended
    <2>2. /\ job[w].at \in {"remove", "absent", "destroy", "verify"} \cup Ended
          /\ job'[w].op = job[w].op
          /\ job'[w].at # "absent" => job[w].at # "remove"
          /\ job'[w].at = "latest" => job[w].at = "verify"
          /\ job'[w].at \in Ended \ {"latest"} => job[w].at \in Ended
          /\ job'[w].at = "absent" => job[w].at = "remove"
          /\ job'[w].at = "report" => job[w].at = "complete"
      BY <1>2, <2>1 DEF Onwards, Way, Ended, At
    <2>3. PICK o \in Intents(Len(ledger)) : o = job[w].op /\ o \in Operations
      BY <2>2, ResumedTarget DEF Resumed, Ended
    <2>4. Target(o)' = Target(o)
      BY <1>0, LastsOn
    <2>5. Left(db', Target(o))
      <3>1. CASE job'[w].at = "absent"
        <4>1. Remove(w) /\ ~ Fails(w)
          BY <1>0, <2>1, <2>2, <3>1, WorkerIs, CallsEnd DEF At
        <4>2. db' = Removed(o) /\ db.actor[Target(o)] = "disabled"
          BY <2>3, <4>1 DEF Remove, MayRemove
        <4> QED BY <1>0, <2>3, <4>2, RemovedContinues
      <3>2. CASE job'[w].at # "absent"
        <4>1. Left(db, Target(o))
          BY <1>2, <2>2, <2>3, <3>2 DEF WorkerLasts
        <4>2. Target(o) \in Actors \cap issued
          BY <2>3, TargetIsKnown DEF IInv, Typed
        <4>3. PICK a \in Actors \cap issued : a = Target(o)
          BY <4>2
        <4> QED BY <1>0, <4>1, <4>3, LeftStays
      <3> QED BY <3>1, <3>2
    <2>6. job'[w].at \in Ended => Destroyed(o)'
      <3>1. CASE job'[w].at = "latest"
        <4>1. Verify(w) /\ ~ Fails(w)
          BY <1>0, <2>1, <2>2, <3>1, WorkerIs, CallsEnd DEF At
        <4>2. ticket[o].done /\ UNCHANGED <<ticket, dead>> /\ ticket[o] # None
          <5>1. ticket[o] = [scopes |-> job[w].scopes, done |-> TRUE] /\ UNCHANGED <<ticket, dead>>
            BY <2>3, <4>1 DEF Verify, UnchangedRecords, recordVars
          <5>2. ticket[o] # None
            BY <2>3, TargetIsKnown DEF IInv, Typed
          <5> QED BY <5>1, <5>2
        <4> QED BY <2>3, <4>2 DEF DoneIsDead, Destroyed
      <3>2. CASE job'[w].at \in Ended \ {"latest"}
        <4>1. Destroyed(o) /\ Left(db, Target(o))
          BY <2>2, <2>3, <3>2 DEF WorkerLasts, Ended
        <4> QED BY <1>0, <2>3, <4>1, LastsOn
      <3> QED BY <3>1, <3>2
    <2>7. job'[w].at = "report" => db'.intent[o] = "complete"
      <3> SUFFICES ASSUME job'[w].at = "report" PROVE db'.intent[o] = "complete"
        OBVIOUS
      <3>1. Complete(w) /\ ~ Fails(w)
        BY <1>0, <2>1, <2>2, WorkerIs, CallsEnd DEF At
      <3>2. db' = Completed(o)
        BY <2>3, <3>1 DEF Complete
      <3> QED BY <1>0, <2>3, <3>2 DEF Completed, Dbs
    <2>8. Target(job[w].op)' = Target(o)' /\ Destroyed(job[w].op)' = Destroyed(o)'
      BY <2>2, <2>3 DEF Target, Deletions, Destroyed
    <2>9. Left(db, Target(job[w].op))'
      BY <2>4, <2>5, <2>8 DEF Left, Out
    <2> QED BY <2>2, <2>3, <2>6, <2>7, <2>8, <2>9 DEF WorkerLasts, At
  <1> QED BY <1>1, <1>2

\* A deletion is complete in the ledger once a worker that did all of it has said so.
LEMMA CompleteLasts ==
    ASSUME IInv, IInv', StoriesFit, Serves,
           \A o \in Intents(Len(ledger)) : CompleteInLedger(o) => Left(db, Target(o)) /\ Destroyed(o),
           \A w \in Workers : WorkerLasts(w)
    PROVE  (\A o \in Intents(Len(ledger)) : CompleteInLedger(o) => Left(db, Target(o)) /\ Destroyed(o))'
  <1> SUFFICES ASSUME NEW o \in Intents(Len(ledger))', CompleteInLedger(o)'
               PROVE  Left(db, Target(o))' /\ Destroyed(o)'
    OBVIOUS
  <1>1. ASSUME o \in Intents(Len(ledger)), Left(db, Target(o)), Destroyed(o)
        PROVE  Left(db, Target(o))' /\ Destroyed(o)'
    BY <1>1, LastsOn
  <1>2. CASE ledger' = ledger
    <2>1. o \in Intents(Len(ledger)) /\ CompleteInLedger(o)
      BY <1>2 DEF Intents, Deletions, CompleteInLedger, StateAt
    <2> QED BY <1>1, <2>1
  <1>3. CASE ledger' # ledger
    <2>1. PICK w \in Workers : WorkerStep(w)
      <3>1. ~ UserNext /\ ~ CleanupNext
        BY <1>3 DEF UserNext, FirstLogin, Login, EndSession, DbOnly, CleanupNext, DeleteExpired, CheckAbsent,
           DestroyCredential, SealOverdue
      <3> QED BY <3>1 DEF Serves
    <2>2. PICK e \in Entries :
             /\ ledger' = Append(ledger, e) /\ e.kind = "deletion" /\ e.op = job[w].op
             /\ \/ AppendPrepared(w) /\ e.actor = job[w].actor /\ e.state = "prepared"
                \/ Finish(w) /\ e.op \in Intents(Len(ledger)) /\ e.state = "complete"
      BY <1>3, <2>1, WorkersEntry
    <2>3. StateAt(Len(ledger), o)' = "complete"
      BY DEF CompleteInLedger
    <2>4. StateAt(Len(ledger), o) = "complete" \/ (e.state = "complete" /\ o = e.op)
      BY <2>2, <2>3, StateOfAppended DEF IInv
    <2>5. CASE StateAt(Len(ledger), o) = "complete"
      <3>1. o \in Intents(Len(ledger))
        BY <2>5, StateIsNow DEF IInv, Typed
      <3> QED BY <1>1, <2>5, <3>1 DEF CompleteInLedger
    <2>6. CASE e.state = "complete" /\ o = e.op
      <3>1. At(w, "finish") /\ o \in Intents(Len(ledger)) /\ o = job[w].op
        BY <2>2, <2>6 DEF Finish
      <3> QED BY <1>1, <3>1 DEF WorkerLasts, Ended, At
    <2> QED BY <2>4, <2>5, <2>6
  <1> QED BY <1>2, <1>3

LEMMA ToldLasts ==
    ASSUME IInv, IInv', RestTyped, StoriesFit, Serves,
           \A w \in Workers : WorkerLasts(w),
           \A o \in told : CompleteInLedger(o) /\ db.intent[o] = "complete"
    PROVE  (\A o \in told : CompleteInLedger(o) /\ db.intent[o] = "complete")'
  <1>1. ASSUME NEW o, CompleteInLedger(o), db.intent[o] = "complete"
        PROVE  CompleteInLedger(o)' /\ db'.intent[o] = "complete"
    <2>1. o \in Intents(Len(ledger))
      BY <1>1 DEF CompleteInLedger
    <2> QED BY <1>1, <2>1, LastsOn
  <1>2. CASE told' = told
    BY <1>1, <1>2
  <1>3. CASE told' # told
    <2>1. PICK w \in Workers : WorkerStep(w)
      <3>1. ~ UserNext /\ ~ CleanupNext
        BY <1>3 DEF UserNext, FirstLogin, Login, EndSession, DbOnly, CleanupNext, DeleteExpired, CheckAbsent,
           DestroyCredential, SealOverdue, deletionVars
      <3> QED BY <3>1 DEF Serves
    <2>2. Report(w)
      BY <1>3, <2>1 DEF WorkerStep, Advance, DisableRolledBack, Stop, Crash, Fails, Begin, Resume, ReadHead, Reconcile,
         Match, Plan, Prepare, AppendPrepared, Lookup, Disable, Remove, Absent, Destroy, Verify, Latest, Finish,
         Complete, UnchangedRecords, UnchangedButDb
    <2>3. told' = told \cup {job[w].op} /\ At(w, "report")
      BY <1>3, <2>2 DEF Report
    <2>4. CompleteInLedger(job[w].op) /\ db.intent[job[w].op] = "complete"
      BY <2>3, ResumedTarget DEF CompleteInLedger, StoriesFit, WorkerLasts, At, Resumed
    <2>5. PICK o : o = job[w].op
      OBVIOUS
    <2> QED BY <1>1, <2>3, <2>4, <2>5
  <1> QED BY <1>2, <1>3

LEMMA WorkStays ==
    ASSUME IInv, IInv', RestTyped, StoriesFit, DoneIsDead, WorkLasts, Serves, UNCHANGED restoreVars
    PROVE  WorkLasts'
  <1> SUFFICES ASSUME stale = {} PROVE WorkLasts'
    BY DEF WorkLasts, restoreVars
  <1>1. /\ \A o \in Intents(Len(ledger)) : CompleteInLedger(o) => Left(db, Target(o)) /\ Destroyed(o)
        /\ \A w \in Workers : WorkerLasts(w)
        /\ \A o \in told : CompleteInLedger(o) /\ db.intent[o] = "complete"
    BY DEF WorkLasts
  <1>2. (\A o \in Intents(Len(ledger)) : CompleteInLedger(o) => Left(db, Target(o)) /\ Destroyed(o))'
    BY <1>1, CompleteLasts
  <1>3. (\A o \in told : CompleteInLedger(o) /\ db.intent[o] = "complete")'
    BY <1>1, ToldLasts
  <1>4. (\A w \in Workers : WorkerLasts(w))'
    <2> SUFFICES ASSUME NEW v \in Workers PROVE WorkerLasts(v)'
      OBVIOUS
    <2>1. CASE job'[v] = job[v]
      BY <1>1, <2>1, WorkerLastsOn
    <2>2. CASE job'[v] # job[v]
      <3>1. PICK w \in Workers : WorkerStep(w)
        <4>1. ~ UserNext /\ ~ CleanupNext
          BY <2>2 DEF UserNext, FirstLogin, Login, EndSession, DbOnly, CleanupNext, DeleteExpired, CheckAbsent,
             DestroyCredential, SealOverdue, deletionVars
        <4> QED BY <4>1 DEF Serves
      <3>2. v = w
        BY <2>2, <3>1, WorkersWay DEF IInv, Typed
      <3> QED BY <1>1, <3>1, <3>2, WorkerGoesOn
    <2> QED BY <2>1, <2>2
  <1> QED BY <1>2, <1>3, <1>4 DEF WorkLasts

LEMMA LedgerSays ==
    ASSUME ledger' = ledger
    PROVE  /\ Intents(Len(ledger))' = Intents(Len(ledger))
           /\ \A h : Intents(h)' = Intents(h)
           /\ \A o : Target(o)' = Target(o) /\ CompleteInLedger(o)' = CompleteInLedger(o)
           /\ \A o : StateAt(Len(ledger), o)' = StateAt(Len(ledger), o)
  <1>1. \A h : Deletions(h)' = Deletions(h)
    BY DEF Deletions
  <1>2. Deletions(Len(ledger))' = Deletions(Len(ledger))
    BY DEF Deletions
  <1>3. /\ \A h : Intents(h)' = Intents(h)
        /\ \A o : Target(o)' = Target(o) /\ StateAt(Len(ledger), o)' = StateAt(Len(ledger), o)
        /\ Intents(Len(ledger))' = Intents(Len(ledger))
    BY <1>1, <1>2 DEF Intents, Target, StateAt
  <1> QED BY <1>3 DEF CompleteInLedger

LEMMA WorkNext ==
    ASSUME IInv, IInv', RestTyped, StoriesFit, DoneIsDead, WorkLasts, RestoreStep
    PROVE  WorkLasts'
  <1>1. CASE (WorkerNext \/ UserNext \/ CleanupNext) /\ UNCHANGED restoreVars
    <2>1. Serves
      BY <1>1 DEF Serves, WorkerNext, WorkerStep
    <2> QED BY <1>1, <2>1, WorkStays
  <1>2. CASE TakeBackup
    BY <1>2, LedgerSays DEF TakeBackup, vars, recordVars, deletionVars, WorkLasts, WorkerLasts, Left, Out, Destroyed, At
  <1>3. CASE PutBackup
    BY <1>3 DEF PutBackup, WorkLasts
  <1>4. CASE Start \/ RunStep \/ RunStops \/ RunCrashes
    <2>1. stale' = stale
      BY <1>4 DEF Start, RunStep, RunStops, RunCrashes, Isolate, LatestHead,
         CheckActorTickets, ReconcileIntents, TakeIntent, ReapplyDeletion, DestroyReapplied, Reread, AppendComplete,
         DiscardCredentials, DestroyCredentials, MigrateIdentity, Compare, Again, RecordRecovery, Confirm, Activate,
         Open, Finished, RunOnly, RunFails, DbAnd
    <2>2. traffic = "closed" \/ run.at # "idle"
      BY <1>4 DEF Start, RunStep, RunStops, RunCrashes, Isolate, LatestHead,
         CheckActorTickets, ReconcileIntents, TakeIntent, ReapplyDeletion, DestroyReapplied, Reread, AppendComplete,
         DiscardCredentials, DestroyCredentials, MigrateIdentity, Compare, RecordRecovery, Confirm, Activate,
         Open, Finished, Step
    <2>3. stale # {}
      BY <2>2 DEF IInv, BackupComesFirst
    <2> QED BY <2>1, <2>3 DEF WorkLasts
  <1> QED BY <1>1, <1>2, <1>3, <1>4 DEF RestoreStep

-----------------------------------------------------------------------------
(* The story as an invariant                                               *)

LEMMA InitStory == RestoreInit => StoryInv
  <1> SUFFICES ASSUME RestoreInit PROVE StoryInv
    OBVIOUS
  <1>1. /\ backup = None /\ run = NoRun /\ ledger = <<>> /\ told = {}
        /\ ticket = [o \in Operations |-> None] /\ job = [w \in Workers |-> Idle]
        /\ db.actor = [a \in Actors |-> "none"] /\ db.intent = [o \in Operations |-> "none"]
    BY DEF RestoreInit, DeletionInit, Init
  <1>2. Len(ledger) = 0 /\ Deletions(Len(ledger)) = {} /\ Intents(Len(ledger)) = {}
    BY <1>1 DEF Deletions, Intents
  <1>3. \A w \in Workers : job[w].at = "idle"
    BY <1>1, IdleJob
  <1>4. StoriesFit
    BY <1>1, <1>2, <1>3 DEF StoriesFit, StoryOf, NoRun
  <1>5. OneIntent
    BY <1>2, <1>3 DEF OneIntent, OneDeletionPerActor
  <1>6. DoneIsDead
    BY <1>1 DEF DoneIsDead
  <1>7. WorkLasts
    BY <1>1, <1>2, <1>3 DEF WorkLasts, WorkerLasts, Ended, At
  <1> QED BY <1>4, <1>5, <1>6, <1>7 DEF StoryInv

LEMMA StepStory == IInv /\ IInv' /\ KInv /\ StoryInv /\ [RestoreNext]_allVars => StoryInv'
  <1> SUFFICES ASSUME IInv, IInv', KInv, StoryInv, [RestoreNext]_allVars PROVE StoryInv'
    OBVIOUS
  <1>1. CASE UNCHANGED allVars \/ ((\E o \in Operations : PassDeadline(o)) /\ UNCHANGED restoreVars)
    <2>1. UNCHANGED <<db, issued, ticket, dead, ledger, job, told, backup, stale, run>>
      BY <1>1 DEF PassDeadline, allVars, vars, recordVars, deletionVars, restoreVars
    <2>2. StoriesFit'
      BY <2>1, LedgerSays DEF StoryInv, StoriesFit, StoryOf, Known, Revoked
    <2>3. OneIntent'
      BY <2>1, LedgerSays DEF StoryInv, OneIntent, OneDeletionPerActor
    <2>4. DoneIsDead'
      BY <2>1 DEF StoryInv, DoneIsDead
    <2>5. WorkLasts'
      BY <2>1, LedgerSays DEF StoryInv, WorkLasts, WorkerLasts, Left, Out, Destroyed, At
    <2> QED BY <2>2, <2>3, <2>4, <2>5 DEF StoryInv
  <1>2. CASE RestoreStep
    BY <1>2, StoriesStay, OneIntentStays, DoneNext, WorkNext DEF StoryInv, KInv
  <1> QED BY <1>1, <1>2 DEF RestoreNext

\* The database never says more of a deletion than the ledger, an actor has at most one, the keys
\* of one that is complete in its ticket are dead, and what a worker did lasts until a backup is
\* put in place: the third invariant (AuthenticationDeletionService, AuthenticationRestoreService).
THEOREM StoryInvariant == RestoreSpec => []StoryInv
  <1>1. RestoreInit => IInv /\ KInv /\ StoryInv
    BY InitFits, InitKeys, InitStory
  <1>2. IInv /\ KInv /\ StoryInv /\ [RestoreNext]_allVars => (IInv /\ KInv /\ StoryInv)'
    BY StepFits, StepKeys, StepStory
  <1> QED BY <1>1, <1>2, PTL DEF RestoreSpec

\* The types of the records, the workers and the restore keep what the code gives them,
\* whatever is done beside a restore (AuthenticationDeletionService, AuthenticationRestoreService).
THEOREM TypesHold == RestoreSpec => []RestoreTypeOK
  <1>1. ASSUME IInv, KInv PROVE RestoreTypeOK
    <2>1. TypeOK
      <3>1. dead \subseteq Actors \cup Sessions
        BY <1>1 DEF KInv, KeysInv, ScopesFit, Named, IInv, Typed
      <3> QED BY <1>1, <3>1 DEF TypeOK, IInv, Typed, Dbs, KInv, RestTyped
    <2>2. DeletionTypeOK
      <3>1. \A w \in Workers : job[w] \in Jobs /\ job[w].head \in 0..Len(ledger)
        BY <1>1 DEF IInv, Typed, JobsFit, JobFits, Jobs
      <3> QED BY <1>1, <2>1, <3>1 DEF DeletionTypeOK, Jobs, KInv, RestTyped
    <2> QED BY <1>1, <2>2 DEF RestoreTypeOK, IInv, Typed, Runs, KInv, RestTyped
  <1>2. IInv /\ KInv => RestoreTypeOK
    BY <1>1
  <1> QED BY <1>2, RestoreInvariant, KeysInvariant, PTL

\* A deletion is one story in the ledger, the database and the registry, whichever worker, attempt
\* or restore told each piece, and until a backup is put in place what is complete in the ledger
\* is done (AuthenticationDeletionService.begin and resume, AuthenticationRestoreService.restore).
THEOREM DeletionsStayWhole == RestoreSpec => []DeletionsAreWhole
  <1>1. ASSUME IInv, StoryInv PROVE LedgerLeads /\ OneDeletionPerActor
    BY <1>1 DEF StoryInv, StoriesFit, StoryOf, LedgerLeads, Reconciled, OneIntent
  <1>2. ASSUME StoryInv PROVE DisabledActorIsOut
    BY <1>2 DEF StoryInv, StoriesFit, StoryOf, Known, Revoked, DisabledActorIsOut, SessionsOf
  <1>3. ASSUME StoryInv, stale = {} PROVE CompleteMeansGone /\ ReportIsTrue
    <2>1. \A o \in Intents(Len(ledger)) : CompleteInLedger(o) => Left(db, Target(o)) /\ Destroyed(o)
      BY <1>3 DEF StoryInv, WorkLasts
    <2>2. CompleteMeansGone
      BY <2>1 DEF CompleteMeansGone, Left, Out, Destroyed, SessionsOf
    <2>3. ReportIsTrue
      BY <1>3 DEF StoryInv, WorkLasts, ReportIsTrue
    <2> QED BY <2>2, <2>3
  <1>4. IInv /\ StoryInv => DeletionsAreWhole
    BY <1>1, <1>2, <1>3 DEF DeletionsAreWhole
  <1> QED BY <1>4, RestoreInvariant, StoryInvariant, PTL
=============================================================================
