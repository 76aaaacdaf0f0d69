----------------------------- MODULE FirstLogin -----------------------------
(***************************************************************************)
(* Which actor a Google account logs in as: complete in                    *)
(* apps/api/src/shared/infrastructure/authentication/postgres/             *)
(* postgres-authentication-store.ts, from the search of the account to the *)
(* aliases it writes, while the search keys are rotated and actors are     *)
(* deleted.                                                                *)
(*                                                                         *)
(* An alias is the digest of an account under one version of the search    *)
(* key.  The attempt and the session that complete also judges and writes  *)
(* are in AuthenticationServer; here a login is one whose attempt is       *)
(* ready.  An identity is taken together with its actor, which is unique.  *)
(*                                                                         *)
(* The rotation of keys is not in the repository; it is modelled as        *)
(* complete relies on it: whoever changes the versions waits for the       *)
(* shared lock of every login, and a version is retired only when every    *)
(* active identity has an alias of the version that stays.                 *)
(***************************************************************************)
EXTENDS Integers, FiniteSets

CONSTANTS
    Logins,         \* connections that complete logins, one at a time
    Accounts,
    Actors,         \* the ids that can be drawn
    MaxVersion,     \* bound on the versions of the search key
    Null

ASSUME LoginAssumption == MaxVersion \in Nat \ {0} /\ Null \notin Actors \cup Accounts

MaxTransactions == 3

Versions == 1 .. MaxVersion

VARIABLES
    versions,       \* the versions that are searched and have to be written
    actor,          \* what became of each actor
    identity,       \* the account of each actor that was inserted
    aliases,        \* function from [version, account] to the actor of the row
    login           \* the login of each connection

vars == <<versions, actor, identity, aliases, login>>

Aliases == [version: Versions, account: Accounts]

Idle == [pc |-> "idle", account |-> Null, tries |-> 0, actor |-> Null, isNew |-> FALSE,
         written |-> {}]

Login ==
    [pc: {"idle", "keys", "search", "lock", "alias", "commit"},
     account: Accounts \cup {Null},
     tries: 0 .. MaxTransactions,    \* the transactions that ended in a conflict
     actor: Actors \cup {Null},      \* the one found, or the one inserted
     isNew: BOOLEAN,
     written: SUBSET Versions]       \* the aliases inserted and not yet committed

TypeOK ==
    /\ versions \in (SUBSET Versions) \ {{}}
    /\ actor \in [Actors -> {"none", "active", "disabled", "removed"}]
    /\ DOMAIN identity = {a \in Actors : actor[a] \in {"active", "disabled"}}
    /\ \A a \in DOMAIN identity : identity[a] \in Accounts
    /\ DOMAIN aliases \subseteq Aliases
    /\ \A x \in DOMAIN aliases : aliases[x] \in DOMAIN identity
    /\ login \in [Logins -> Login]

Init ==
    /\ versions = {1}
    /\ actor = [a \in Actors |-> "none"]
    /\ identity = <<>>
    /\ aliases = <<>>
    /\ login = [l \in Logins |-> Idle]

-----------------------------------------------------------------------------
At(l, pc) == login[l].pc = pc

\* Mutant: the key state is read without a lock.
HoldsNothing(l) == FALSE

\* The shared lock of the key state.
HoldsKeys(l) == login[l].pc \in {"search", "lock", "alias", "commit"}

\* The row lock of an identity found, and of its actor.
HoldsActor(l, a) ==
    login[l].pc \in {"alias", "commit"} /\ login[l].actor = a /\ ~ login[l].isNew

\* An alias inserted by l and not yet committed.
IsWriting(l, alias) ==
    /\ alias.version \in login[l].written
    /\ alias.account = login[l].account

Alias(l, v) == [version |-> v, account |-> login[l].account]

\* The transaction ends without a trace.
End(l) == login' = [login EXCEPT ![l] = Idle]

Start(l, account) ==
    /\ At(l, "idle")
    /\ login' = [login EXCEPT ![l] = [Idle EXCEPT !.pc = "keys", !.account = account]]
    /\ UNCHANGED <<versions, actor, identity, aliases>>

\* A transaction begins; the versions cannot change before it ends.
ReadKeys(l) ==
    /\ At(l, "keys")
    /\ login' = [login EXCEPT ![l].pc = "search"]
    /\ UNCHANGED <<versions, actor, identity, aliases>>

\* The actors that the aliases of an account lead to.
Found(account) ==
    {aliases[x] : x \in {y \in DOMAIN aliases :
                            y.account = account /\ y.version \in versions}}

\* Nobody is found, or one whom all aliases agree on; else the login is unavailable.
FindIdentity(l) ==
    LET found == Found(login[l].account)
    IN  /\ At(l, "search")
        /\ IF \A a, b \in found : a = b
           THEN login' = [login EXCEPT
                    ![l].pc = "lock",
                    ![l].actor = IF found = {} THEN Null ELSE CHOOSE a \in found : TRUE]
           ELSE End(l)
        /\ UNCHANGED <<versions, actor, identity, aliases>>

\* The aliases still lead to the actor alone, and it is active.
IsCurrent(l) ==
    /\ Found(login[l].account) = {login[l].actor}
    /\ actor[login[l].actor] = "active"

\* The actor found is locked and looked for again; when it is gone the login is
\* unavailable, when it is not active it has to be restarted.
LockIdentity(l) ==
    LET a == login[l].actor
    IN  /\ At(l, "lock")
        /\ a # Null
        /\ \A m \in Logins : ~ HoldsActor(m, a)
        /\ IF IsCurrent(l)
           THEN login' = [login EXCEPT ![l].pc = "alias"]
           ELSE End(l)
        /\ UNCHANGED <<versions, actor, identity, aliases>>

\* Nobody was found: an actor and its identity are inserted.  With an id that is
\* taken the login is unavailable.
InsertActor(l, a) ==
    /\ At(l, "lock")
    /\ login[l].actor = Null
    /\ \A m \in Logins : ~ (login[m].isNew /\ login[m].actor = a)
    /\ IF actor[a] = "none"
       THEN login' = [login EXCEPT ![l].pc = "alias", ![l].actor = a, ![l].isNew = TRUE]
       ELSE End(l)
    /\ UNCHANGED <<versions, actor, identity, aliases>>

Missing(l) ==
    {v \in versions : /\ v \notin login[l].written
                      /\ \/ Alias(l, v) \notin DOMAIN aliases
                         \/ aliases[Alias(l, v)] # login[l].actor}

\* The versions are written in their order.
NextVersion(l) == {v \in Missing(l) : \A u \in Missing(l) : v <= u}

\* The unique loser begins anew, for at most three transactions.
Conflict(l) ==
    IF login[l].tries + 1 < MaxTransactions
    THEN login' = [login EXCEPT ![l] = [Idle EXCEPT !.pc = "keys",
                                                    !.account = login[l].account,
                                                    !.tries = login[l].tries + 1]]
    ELSE End(l)

Insert(l, v) == login' = [login EXCEPT ![l].written = @ \cup {v}]

\* Mutant: an alias that exists is left as it is.
KeepExisting(l, v) ==
    IF Alias(l, v) \in DOMAIN aliases
    THEN login' = [login EXCEPT ![l].pc = "commit"]
    ELSE Insert(l, v)

\* The primary key of the aliases.
InsertAlias(l, v) ==
    IF Alias(l, v) \in DOMAIN aliases THEN Conflict(l) ELSE Insert(l, v)

\* One alias after another; an insert waits for another's of the same key.
WriteAlias(l) ==
    /\ At(l, "alias")
    /\ IF Missing(l) = {}
       THEN login' = [login EXCEPT ![l].pc = "commit"]
       ELSE \E v \in NextVersion(l) :
                /\ \A m \in Logins \ {l} : ~ IsWriting(m, Alias(l, v))
                /\ InsertAlias(l, v)
    /\ UNCHANGED <<versions, actor, identity, aliases>>

\* The aliases together with new ones of the actor a.
Added(new, a) ==
    [x \in DOMAIN aliases \cup new |-> IF x \in new THEN a ELSE aliases[x]]

\* The actor, its identity, its aliases and the session become visible.  Whether
\* the answer arrives does not matter to them.
Commit(l) ==
    LET a == login[l].actor
        written == {Alias(l, v) : v \in login[l].written}
    IN  /\ At(l, "commit")
        /\ aliases' = Added(written, a)
        /\ IF login[l].isNew
           THEN /\ actor' = [actor EXCEPT ![a] = "active"]
                /\ identity' = [b \in DOMAIN identity \cup {a} |->
                                   IF b = a THEN login[l].account ELSE identity[b]]
           ELSE UNCHANGED <<actor, identity>>
        /\ End(l)
        /\ UNCHANGED versions

\* A statement fails, the connection is lost, or the attempt is judged not ready.
Fail(l) ==
    /\ ~ At(l, "idle")
    /\ End(l)
    /\ UNCHANGED <<versions, actor, identity, aliases>>

-----------------------------------------------------------------------------
\* A new version of the search key is written and searched besides the old one.
AddVersion ==
    /\ \A l \in Logins : ~ HoldsKeys(l)
    /\ \E v \in versions :
           /\ versions = {v}
           /\ v < MaxVersion
           /\ versions' = {v, v + 1}
    /\ UNCHANGED <<actor, identity, aliases, login>>

\* An active identity gets the aliases it lacks.
Backfill(a) ==
    LET lacking == {x \in [version: versions, account: {identity[a]}] : x \notin DOMAIN aliases}
    IN  /\ actor[a] = "active"
        /\ lacking # {}
        /\ \A l \in Logins : ~ HoldsActor(l, a) /\ \A x \in lacking : ~ IsWriting(l, x)
        /\ aliases' = Added(lacking, a)
        /\ UNCHANGED <<versions, actor, identity, login>>

\* The older version is no longer searched once every active identity has the newer one.
RetireVersion ==
    /\ \A l \in Logins : ~ HoldsKeys(l)
    /\ \E old, new \in versions :
           /\ versions = {old, new}
           /\ old < new
           /\ \A a \in Actors : actor[a] = "active" =>
                  [version |-> new, account |-> identity[a]] \in DOMAIN aliases
           /\ versions' = {new}
    /\ UNCHANGED <<actor, identity, aliases, login>>

\* A deletion of the actor disables it, and later removes its rows.
DisableActor(a) ==
    /\ actor[a] = "active"
    /\ \A l \in Logins : ~ HoldsActor(l, a)
    /\ actor' = [actor EXCEPT ![a] = "disabled"]
    /\ UNCHANGED <<versions, identity, aliases, login>>

RemoveActor(a) ==
    /\ actor[a] = "disabled"
    /\ \A l \in Logins : ~ HoldsActor(l, a)
    /\ actor' = [actor EXCEPT ![a] = "removed"]
    /\ identity' = [b \in DOMAIN identity \ {a} |-> identity[b]]
    /\ aliases' = [x \in {y \in DOMAIN aliases : aliases[y] # a} |-> aliases[x]]
    /\ UNCHANGED <<versions, login>>

Step(l) ==
    \/ ReadKeys(l)
    \/ FindIdentity(l)
    \/ LockIdentity(l)
    \/ \E a \in Actors : InsertActor(l, a)
    \/ WriteAlias(l)
    \/ Commit(l)

Next ==
    \/ \E l \in Logins :
           \/ \E account \in Accounts : Start(l, account)
           \/ Step(l)
           \/ Fail(l)
    \/ \E a \in Actors : Backfill(a) \/ DisableActor(a) \/ RemoveActor(a)
    \/ AddVersion
    \/ RetireVersion

Spec == Init /\ [][Next]_vars

\* The database goes on with every login that waits for no lock, and gives a lock
\* that becomes free again and again to who waits for it.
FairSpec == Spec /\ \A l \in Logins : SF_vars(Step(l))

-----------------------------------------------------------------------------
\* However many first logins of an account run at once, before, during and after
\* a rotation of the search key, the account has one actor that is not deleted.
OneActorPerAccount ==
    \A a, b \in Actors :
        (actor[a] = "active" /\ actor[b] = "active" /\ identity[a] = identity[b]) => a = b

\* An active actor is found by the next login of its account: no rotation and no
\* lost race leaves an actor behind that nobody can log in as.
ActorsStayReachable ==
    \A a \in Actors :
        actor[a] = "active" =>
            \E v \in versions :
                LET alias == [version |-> v, account |-> identity[a]]
                IN  alias \in DOMAIN aliases /\ aliases[alias] = a

\* A login that lost the race for its account finds the winner's actor in its next
\* transaction, unless that actor has been disabled: it never runs out of them.
LosersFindTheWinner ==
    \A l \in Logins :
        login[l].tries <= 1 + Cardinality({a \in Actors : actor[a] \in {"disabled", "removed"}})

\* A login that lost the race for its account finds the winner's actor, and whoever is
\* active can log in again (complete).
LoginsFindTheirActor == TypeOK /\ ActorsStayReachable /\ LosersFindTheWinner
=============================================================================
