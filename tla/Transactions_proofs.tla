-------------------------- MODULE Transactions_proofs --------------------------
(***************************************************************************)
(* Proofs about transactions of the authentication database that run at    *)
(* once: an account keeps one actor, which its logins find (FirstLogin), a *)
(* recipient code is spent once, whatever the callers are told             *)
(* (RecipientCode), and instances share the budgets of requests            *)
(* (HttpRate); for any number of logins, requests, accounts, codes and     *)
(* connections, and with any rotation of the search key.                   *)
(*                                                                         *)
(* What a login decides it decides by the aliases of the versions that are *)
(* searched.  The inductive invariant says of them: all those of an        *)
(* account with an active actor lead to that actor, and there is one.  A   *)
(* login that is about to commit has, for every version, written an alias  *)
(* that nobody else has, or seen the one of its own actor.  As the key     *)
(* state is locked, the versions are still the ones it has written.        *)
(***************************************************************************)
EXTENDS FirstLogin, RecipientCode, HttpRate, FiniteSetTheorems, TLAPS

AliasOf(r, v) == [version |-> v, account |-> r.account]

LoginFits(r) ==
    /\ r.pc # "idle" => r.account \in Accounts
    /\ r.pc \notin {"alias", "commit"} => r.written = {} /\ ~ r.isNew
    /\ r.pc \in {"alias", "commit"} =>
           /\ r.actor \in Actors
           /\ r.isNew => actor[r.actor] = "none"
           /\ ~ r.isNew => actor[r.actor] = "active" /\ identity[r.actor] = r.account
    /\ r.written \subseteq versions
    /\ \A v \in r.written : AliasOf(r, v) \notin DOMAIN aliases
    /\ r.pc = "commit" =>
           \A v \in versions :
               \/ v \in r.written
               \/ AliasOf(r, v) \in DOMAIN aliases /\ aliases[AliasOf(r, v)] = r.actor

LoginsFit == \A l \in Logins : LoginFits(login[l])

NewActorsDiffer ==
    \A l, m \in Logins :
        (login[l].isNew /\ login[m].isNew /\ login[l].actor = login[m].actor) => l = m

WritesDiffer ==
    \A l, m \in Logins :
        (login[l].account = login[m].account
            /\ login[l].written \cap login[m].written # {}) => l = m

AliasesAreOwn == \A x \in DOMAIN aliases : identity[aliases[x]] = x.account

\* The searched aliases of the account of an active actor all lead to it.
SearchedAliasesAgree ==
    \A a \in Actors : actor[a] = "active" =>
        \A x \in DOMAIN aliases :
            (x.account = identity[a] /\ x.version \in versions) => aliases[x] = a

\* No alias is of a version that is yet to come.
NoneNewer == \A x \in DOMAIN aliases : \E v \in versions : x.version <= v

IInv ==
    /\ TypeOK
    /\ LoginsFit
    /\ NewActorsDiffer
    /\ WritesDiffer
    /\ AliasesAreOwn
    /\ ActorsStayReachable
    /\ SearchedAliasesAgree
    /\ NoneNewer

-----------------------------------------------------------------------------
\* An active actor of an account is the only one.
LEMMA ReachableIsUnique ==
    ASSUME ActorsStayReachable, SearchedAliasesAgree
    PROVE  OneActorPerAccount
<1> SUFFICES ASSUME NEW a \in Actors, NEW b \in Actors,
                    actor[a] = "active", actor[b] = "active", identity[a] = identity[b]
             PROVE  a = b
    BY DEF OneActorPerAccount
<1>1. PICK v \in versions :
          /\ [version |-> v, account |-> identity[a]] \in DOMAIN aliases
          /\ aliases[[version |-> v, account |-> identity[a]]] = a
    BY DEF ActorsStayReachable
<1>2. aliases[[version |-> v, account |-> identity[a]]] = b
    BY <1>1 DEF SearchedAliasesAgree
<1> QED
    BY <1>1, <1>2

\* A step that changes one login alone.
LEMMA LoginChange ==
    ASSUME IInv, NEW l \in Logins, NEW r \in Login,
           login' = [login EXCEPT ![l] = r],
           UNCHANGED <<versions, actor, identity, aliases>>,
           LoginFits(r),
           \A m \in Logins \ {l} :
               /\ ~ (r.isNew /\ login[m].isNew /\ login[m].actor = r.actor)
               /\ ~ (r.account = login[m].account /\ r.written \cap login[m].written # {})
    PROVE  IInv'
<1>1. TypeOK'
    BY DEF IInv, TypeOK
<1>2. \A m \in Logins : login'[m] = IF m = l THEN r ELSE login[m]
    BY DEF IInv, TypeOK
<1>3. LoginsFit'
    BY <1>2 DEF IInv, LoginsFit, LoginFits, AliasOf
<1>4. NewActorsDiffer'
    BY <1>2 DEF IInv, NewActorsDiffer
<1>5. WritesDiffer'
    BY <1>2 DEF IInv, WritesDiffer
<1>6. AliasesAreOwn' /\ ActorsStayReachable' /\ SearchedAliasesAgree' /\ NoneNewer'
    BY DEF IInv, AliasesAreOwn, ActorsStayReachable, SearchedAliasesAgree, NoneNewer
<1> QED
    BY <1>1, <1>3, <1>4, <1>5, <1>6 DEF IInv

\* A login that ends or begins anew holds nothing.
LEMMA LoginEnds ==
    ASSUME IInv, NEW l \in Logins, End(l), UNCHANGED <<versions, actor, identity, aliases>>
    PROVE  IInv'
<1>1. Idle \in Login /\ LoginFits(Idle) /\ ~ Idle.isNew /\ Idle.written = {}
    BY DEF Idle, Login, LoginFits, MaxTransactions
<1> QED
    BY <1>1, LoginChange DEF End

LEMMA StartKeeps ==
    ASSUME IInv, NEW l \in Logins, NEW g \in Accounts, Start(l, g)
    PROVE  IInv'
<1> DEFINE r == [Idle EXCEPT !.pc = "keys", !.account = g]
<1>1. r \in Login /\ LoginFits(r) /\ ~ r.isNew /\ r.written = {}
  <2>1. Idle \in Login /\ ~ Idle.isNew /\ Idle.written = {}
      BY DEF Idle, Login, MaxTransactions
  <2>2. r \in Login /\ r.pc = "keys" /\ r.account = g /\ ~ r.isNew /\ r.written = {}
      BY <2>1 DEF Login
  <2> HIDE DEF r
  <2> QED
      BY <2>2 DEF LoginFits
<1>2. login' = [login EXCEPT ![l] = r] /\ UNCHANGED <<versions, actor, identity, aliases>>
    BY DEF Start
<1> HIDE DEF r
<1> QED
    BY <1>1, <1>2, LoginChange

LEMMA ReadKeysKeeps ==
    ASSUME IInv, NEW l \in Logins, ReadKeys(l)
    PROVE  IInv'
<1> DEFINE r == [login[l] EXCEPT !.pc = "search"]
<1>1. login[l] \in Login /\ LoginFits(login[l]) /\ login[l].pc = "keys"
    BY DEF IInv, TypeOK, LoginsFit, ReadKeys, At
<1>2. r \in Login /\ LoginFits(r) /\ ~ r.isNew /\ r.written = {}
    BY <1>1 DEF Login, LoginFits
<1>3. login' = [login EXCEPT ![l] = r] /\ UNCHANGED <<versions, actor, identity, aliases>>
    BY <1>1 DEF ReadKeys, IInv, TypeOK
<1> HIDE DEF r
<1> QED
    BY <1>2, <1>3, LoginChange

LEMMA FindIdentityKeeps ==
    ASSUME IInv, NEW l \in Logins, FindIdentity(l)
    PROVE  IInv'
<1> DEFINE found == Found(login[l].account)
           a == IF found = {} THEN Null ELSE CHOOSE b \in found : TRUE
           r == [login[l] EXCEPT !.pc = "lock", !.actor = a]
<1>1. login[l] \in Login /\ LoginFits(login[l]) /\ login[l].pc = "search"
    BY DEF IInv, TypeOK, LoginsFit, FindIdentity, At
<1>2. found \subseteq Actors
    BY DEF Found, IInv, TypeOK
<1>3. a \in Actors \cup {Null}
    BY <1>2
<1>4. \/ End(l)
      \/ login' = [login EXCEPT ![l] = r]
    BY <1>1 DEF FindIdentity, IInv, TypeOK
<1>5. UNCHANGED <<versions, actor, identity, aliases>>
    BY DEF FindIdentity
<1> HIDE DEF a
<1>6. r \in Login /\ LoginFits(r) /\ ~ r.isNew /\ r.written = {}
    BY <1>1, <1>3 DEF Login, LoginFits
<1> HIDE DEF r
<1> QED
    BY <1>4, <1>5, <1>6, LoginChange, LoginEnds

LEMMA LockIdentityKeeps ==
    ASSUME IInv, NEW l \in Logins, LockIdentity(l)
    PROVE  IInv'
<1> DEFINE r == [login[l] EXCEPT !.pc = "alias"]
<1>1. login[l] \in Login /\ LoginFits(login[l]) /\ login[l].pc = "lock" /\ login[l].actor # Null
    BY DEF IInv, TypeOK, LoginsFit, LockIdentity, At
<1>2. UNCHANGED <<versions, actor, identity, aliases>>
    BY DEF LockIdentity
<1>3. CASE ~ IsCurrent(l)
    BY <1>2, <1>3, LoginEnds DEF LockIdentity
<1>4. CASE IsCurrent(l)
  <2>1. login' = [login EXCEPT ![l] = r]
      BY <1>1, <1>4 DEF LockIdentity, IInv, TypeOK
  <2>2. login[l].actor \in Actors /\ actor[login[l].actor] = "active"
      BY <1>1, <1>4 DEF IsCurrent, Login
  <2>3. identity[login[l].actor] = login[l].account
      BY <1>4 DEF IsCurrent, Found, IInv, AliasesAreOwn
  <2>4. r \in Login /\ LoginFits(r) /\ ~ r.isNew /\ r.written = {}
      BY <1>1, <2>2, <2>3 DEF Login, LoginFits
  <2> HIDE DEF r
  <2> QED
      BY <1>2, <2>1, <2>4, LoginChange
<1> QED
    BY <1>3, <1>4

LEMMA InsertActorKeeps ==
    ASSUME IInv, NEW l \in Logins, NEW a \in Actors, InsertActor(l, a)
    PROVE  IInv'
<1> DEFINE r == [login[l] EXCEPT !.pc = "alias", !.actor = a, !.isNew = TRUE]
<1>1. login[l] \in Login /\ LoginFits(login[l]) /\ login[l].pc = "lock"
    BY DEF IInv, TypeOK, LoginsFit, InsertActor, At
<1>2. UNCHANGED <<versions, actor, identity, aliases>>
    BY DEF InsertActor
<1>3. CASE actor[a] # "none"
    BY <1>2, <1>3, LoginEnds DEF InsertActor
<1>4. CASE actor[a] = "none"
  <2>1. login' = [login EXCEPT ![l] = r]
      BY <1>1, <1>4 DEF InsertActor, IInv, TypeOK
  <2>2. r \in Login /\ r.pc = "alias" /\ r.actor = a /\ r.isNew /\ r.written = {}
        /\ r.account = login[l].account
      BY <1>1 DEF Login, LoginFits
  <2> HIDE DEF r
  <2>3. LoginFits(r)
      BY <1>1, <1>4, <2>2 DEF LoginFits
  <2>4. \A m \in Logins : ~ (login[m].isNew /\ login[m].actor = a)
      BY DEF InsertActor
  <2> QED
      BY <1>2, <2>1, <2>2, <2>3, <2>4, LoginChange
<1> QED
    BY <1>3, <1>4

LEMMA WriteAliasKeeps ==
    ASSUME IInv, NEW l \in Logins, WriteAlias(l)
    PROVE  IInv'
<1>1. login[l] \in Login /\ LoginFits(login[l]) /\ login[l].pc = "alias"
    BY DEF IInv, TypeOK, LoginsFit, WriteAlias, At
<1>2. UNCHANGED <<versions, actor, identity, aliases>>
    BY DEF WriteAlias
<1>3. CASE Missing(l) = {}
  <2> DEFINE r == [login[l] EXCEPT !.pc = "commit"]
  <2>1. login' = [login EXCEPT ![l] = r]
      BY <1>1, <1>3 DEF WriteAlias, IInv, TypeOK
  <2>2. r \in Login /\ r.pc = "commit" /\ r.actor = login[l].actor
        /\ r.isNew = login[l].isNew /\ r.written = login[l].written
        /\ r.account = login[l].account
      BY <1>1 DEF Login
  <2> HIDE DEF r
  <2>3. \A v \in versions :
            \/ v \in r.written
            \/ AliasOf(r, v) \in DOMAIN aliases /\ aliases[AliasOf(r, v)] = r.actor
      BY <1>3, <2>2 DEF Missing, Alias, AliasOf
  <2>4. LoginFits(r)
      BY <1>1, <2>2, <2>3 DEF LoginFits, AliasOf
  <2>5. \A m \in Logins \ {l} :
            /\ ~ (r.isNew /\ login[m].isNew /\ login[m].actor = r.actor)
            /\ ~ (r.account = login[m].account /\ r.written \cap login[m].written # {})
      BY <2>2 DEF IInv, NewActorsDiffer, WritesDiffer
  <2> QED
      BY <1>2, <2>1, <2>2, <2>4, <2>5, LoginChange
<1>4. ASSUME NEW v \in NextVersion(l),
             \A m \in Logins \ {l} : ~ IsWriting(m, Alias(l, v)),
             InsertAlias(l, v)
      PROVE  IInv'
  <2>1. v \in versions /\ v \in Versions
      BY DEF NextVersion, Missing, IInv, TypeOK
  <2>2. CASE Alias(l, v) \in DOMAIN aliases
    <3> DEFINE r == [Idle EXCEPT !.pc = "keys", !.account = login[l].account,
                                 !.tries = login[l].tries + 1]
    <3>1. CASE ~ (login[l].tries + 1 < MaxTransactions)
        BY <1>2, <1>4, <2>2, <3>1, LoginEnds DEF InsertAlias, Conflict
    <3>2. CASE login[l].tries + 1 < MaxTransactions
      <4>1. login' = [login EXCEPT ![l] = r]
          BY <1>4, <2>2, <3>2 DEF InsertAlias, Conflict
      <4>2. login[l].account \in Accounts /\ login[l].tries + 1 \in 0 .. MaxTransactions
          BY <1>1, <3>2 DEF Login, LoginFits, MaxTransactions
      <4>3. Idle \in Login /\ ~ Idle.isNew /\ Idle.written = {}
          BY DEF Idle, Login, MaxTransactions
      <4>4. r \in Login /\ r.pc = "keys" /\ ~ r.isNew /\ r.written = {}
            /\ r.account = login[l].account
          BY <4>2, <4>3 DEF Login
      <4> HIDE DEF r
      <4>5. LoginFits(r)
          BY <4>2, <4>4 DEF LoginFits
      <4> QED
          BY <1>2, <4>1, <4>4, <4>5, LoginChange
    <3> QED
        BY <3>1, <3>2
  <2>3. CASE Alias(l, v) \notin DOMAIN aliases
    <3> DEFINE r == [login[l] EXCEPT !.written = @ \cup {v}]
    <3>1. login' = [login EXCEPT ![l] = r]
        BY <1>1, <1>4, <2>3 DEF InsertAlias, Insert, IInv, TypeOK
    <3>2. r \in Login /\ r.pc = "alias" /\ r.actor = login[l].actor
          /\ r.isNew = login[l].isNew /\ r.written = login[l].written \cup {v}
          /\ r.account = login[l].account
        BY <1>1, <2>1 DEF Login
    <3> HIDE DEF r
    <3>3. LoginFits(r)
        BY <1>1, <2>1, <2>3, <3>2 DEF LoginFits, AliasOf, Alias
    <3>4. \A m \in Logins \ {l} : ~ (login[m].account = r.account /\ v \in login[m].written)
        BY <1>4, <3>2 DEF IsWriting, Alias
    <3>5. \A m \in Logins \ {l} :
              /\ ~ (r.isNew /\ login[m].isNew /\ login[m].actor = r.actor)
              /\ ~ (r.account = login[m].account /\ r.written \cap login[m].written # {})
        BY <3>2, <3>4 DEF IInv, NewActorsDiffer, WritesDiffer
    <3> QED
        BY <1>2, <3>1, <3>2, <3>3, <3>5, LoginChange
  <2> QED
      BY <2>2, <2>3
<1> QED
    BY <1>3, <1>4 DEF WriteAlias

-----------------------------------------------------------------------------
LEMMA CommitKeeps ==
    ASSUME IInv, NEW l \in Logins, Commit(l)
    PROVE  IInv'
<1> DEFINE a == login[l].actor
           g == login[l].account
           written == {Alias(l, v) : v \in login[l].written}
<1>1. /\ login[l] \in Login /\ LoginFits(login[l]) /\ login[l].pc = "commit"
      /\ a \in Actors /\ g \in Accounts
    BY DEF IInv, TypeOK, LoginsFit, LoginFits, Commit, At
<1>2. \A m \in Logins : login'[m] = IF m = l THEN Idle ELSE login[m]
    BY DEF Commit, End, IInv, TypeOK
<1>3. versions' = versions
    BY DEF Commit
<1>4. \A x \in written : x \in Aliases /\ x.account = g /\ x.version \in login[l].written
    BY <1>1 DEF Alias, Aliases, Login
<1>5. \A x \in written : x \notin DOMAIN aliases
    BY <1>1 DEF LoginFits, Alias, AliasOf
<1>6. /\ DOMAIN aliases' = DOMAIN aliases \cup written
      /\ \A x \in written : aliases'[x] = a
      /\ \A x \in DOMAIN aliases : aliases'[x] = aliases[x]
    BY <1>5 DEF Commit, Added
<1>7. /\ actor' = [actor EXCEPT ![a] = "active"]
      /\ DOMAIN identity' = DOMAIN identity \cup {a}
      /\ identity'[a] = g
      /\ \A b \in DOMAIN identity \ {a} : identity'[b] = identity[b]
  <2>1. CASE login[l].isNew
      BY <2>1 DEF Commit
  <2>2. CASE ~ login[l].isNew
    <3>1. actor' = actor /\ identity' = identity
        BY <2>2 DEF Commit
    <3>2. actor[a] = "active" /\ identity[a] = g
        BY <1>1, <2>2 DEF LoginFits
    <3> QED
        BY <1>1, <3>1, <3>2 DEF IInv, TypeOK
  <2> QED
      BY <2>1, <2>2
<1>8. \A v \in versions : AliasOf(login[l], v) \in DOMAIN aliases'
                            /\ aliases'[AliasOf(login[l], v)] = a
    BY <1>1, <1>6 DEF LoginFits, Alias, AliasOf
<1>9. \A b \in Actors : actor[b] = "active" /\ identity[b] = g => b = a
  <2> SUFFICES ASSUME NEW b \in Actors, actor[b] = "active", identity[b] = g
               PROVE  b = a
      OBVIOUS
  <2>1. PICK v \in versions : AliasOf(login[l], v) \in DOMAIN aliases
                               /\ aliases[AliasOf(login[l], v)] = b
      BY DEF IInv, ActorsStayReachable, AliasOf
  <2> QED
      BY <1>1, <2>1 DEF LoginFits
<1> HIDE DEF a, g, written
<1>10. TypeOK'
  <2>1. login' \in [Logins -> Login]
      BY DEF Commit, End, IInv, TypeOK, Idle, Login, MaxTransactions
  <2>2. actor' \in [Actors -> {"none", "active", "disabled", "removed"}]
        /\ DOMAIN identity' = {b \in Actors : actor'[b] \in {"active", "disabled"}}
      BY <1>1, <1>7 DEF IInv, TypeOK
  <2>3. \A b \in DOMAIN identity' : identity'[b] \in Accounts
      BY <1>1, <1>7 DEF IInv, TypeOK
  <2>4. DOMAIN aliases' \subseteq Aliases
      BY <1>4, <1>6 DEF IInv, TypeOK
  <2>5. \A x \in DOMAIN aliases' : aliases'[x] \in DOMAIN identity'
      BY <1>6, <1>7 DEF IInv, TypeOK
  <2> QED
      BY <1>3, <2>1, <2>2, <2>3, <2>4, <2>5 DEF IInv, TypeOK
<1>11. LoginsFit'
  <2> SUFFICES ASSUME NEW m \in Logins PROVE LoginFits(login[m])'
      BY DEF LoginsFit
  <2>1. CASE m = l
      BY <1>2, <2>1 DEF LoginFits, Idle
  <2>2. CASE m # l
    <3> DEFINE r == login[m]
    <3>1. r' = r /\ r \in Login /\ LoginFits(r)
        BY <1>2, <2>2 DEF IInv, TypeOK, LoginsFit
    <3>2. \A v \in r.written : AliasOf(r, v) \notin written
      <4> SUFFICES ASSUME NEW v \in r.written, AliasOf(r, v) \in written PROVE FALSE
          OBVIOUS
      <4>1. r.account = g /\ v \in login[l].written
          BY <1>4 DEF AliasOf
      <4> QED
          BY <2>2, <4>1 DEF IInv, WritesDiffer, g
    <3>3. r.pc \in {"alias", "commit"} =>
              /\ r.isNew => actor'[r.actor] = "none"
              /\ ~ r.isNew => actor'[r.actor] = "active" /\ identity'[r.actor] = r.account
      <4> SUFFICES ASSUME r.pc \in {"alias", "commit"}
                   PROVE  /\ r.isNew => actor'[r.actor] = "none"
                          /\ ~ r.isNew => actor'[r.actor] = "active"
                                          /\ identity'[r.actor] = r.account
          OBVIOUS
      <4>1. r.actor \in Actors
          BY <3>1 DEF LoginFits
      <4>2. CASE r.actor # a
          BY <1>1, <1>7, <3>1, <4>1, <4>2 DEF LoginFits, IInv, TypeOK
      <4>3. CASE r.actor = a
        <5>1. r.isNew <=> login[l].isNew
            BY <1>1, <3>1, <4>3 DEF LoginFits, a
        <5>2. ~ r.isNew
            BY <2>2, <4>3, <5>1 DEF IInv, NewActorsDiffer, a
        <5>3. r.account = g
            BY <1>1, <3>1, <4>3, <5>1, <5>2 DEF LoginFits, a, g
        <5> QED
            BY <1>1, <1>7, <4>3, <5>2, <5>3 DEF IInv, TypeOK
      <4> QED
          BY <4>2, <4>3
    <3>4. \A v \in r.written : AliasOf(r, v) \notin DOMAIN aliases'
        BY <1>6, <3>1, <3>2 DEF LoginFits
    <3>5. r.pc = "commit" =>
              \A v \in versions :
                  \/ v \in r.written
                  \/ AliasOf(r, v) \in DOMAIN aliases' /\ aliases'[AliasOf(r, v)] = r.actor
        BY <1>6, <3>1 DEF LoginFits
    <3> QED
        BY <1>3, <3>1, <3>3, <3>4, <3>5 DEF LoginFits, AliasOf
  <2> QED
      BY <2>1, <2>2
<1>12. NewActorsDiffer' /\ WritesDiffer'
    BY <1>2 DEF IInv, NewActorsDiffer, WritesDiffer, Idle
<1>13. AliasesAreOwn'
  <2> SUFFICES ASSUME NEW x \in DOMAIN aliases' PROVE identity'[aliases'[x]] = x.account
      BY DEF AliasesAreOwn
  <2>1. CASE x \in written
      BY <1>4, <1>6, <1>7, <2>1
  <2>2. CASE x \in DOMAIN aliases
    <3>1. aliases'[x] = aliases[x] /\ aliases[x] \in DOMAIN identity
          /\ identity[aliases[x]] = x.account
        BY <1>6, <2>2 DEF IInv, TypeOK, AliasesAreOwn
    <3>2. CASE aliases[x] # a
        BY <1>7, <3>1, <3>2
    <3>3. CASE aliases[x] = a
      <4>1. ~ login[l].isNew
          BY <1>1, <3>1, <3>3 DEF LoginFits, IInv, TypeOK, a
      <4>2. identity[a] = g
          BY <1>1, <4>1 DEF LoginFits, a, g
      <4> QED
          BY <1>7, <3>1, <3>3, <4>2
    <3> QED
        BY <3>2, <3>3
  <2> QED
      BY <1>6, <2>1, <2>2
<1>14. ActorsStayReachable'
  <2> SUFFICES ASSUME NEW b \in Actors, actor'[b] = "active"
               PROVE  \E v \in versions :
                          /\ [version |-> v, account |-> identity'[b]] \in DOMAIN aliases'
                          /\ aliases'[[version |-> v, account |-> identity'[b]]] = b
      BY <1>3 DEF ActorsStayReachable
  <2>1. CASE b = a
    <3>0. versions # {}
        BY DEF IInv, TypeOK
    <3>1. PICK v \in versions : TRUE
        BY <3>0
    <3>2. AliasOf(login[l], v) = [version |-> v, account |-> identity'[b]]
        BY <1>7, <2>1 DEF AliasOf, g
    <3> QED
        BY <1>8, <2>1, <3>1, <3>2
  <2>2. CASE b # a
    <3>1. actor[b] = "active" /\ identity'[b] = identity[b]
        BY <1>1, <1>7, <2>2 DEF IInv, TypeOK
    <3> QED
        BY <1>6, <3>1 DEF IInv, ActorsStayReachable
  <2> QED
      BY <2>1, <2>2
<1>15. SearchedAliasesAgree'
  <2> SUFFICES ASSUME NEW b \in Actors, actor'[b] = "active", NEW x \in DOMAIN aliases',
                      x.account = identity'[b], x.version \in versions
               PROVE  aliases'[x] = b
      BY <1>3 DEF SearchedAliasesAgree
  <2>1. CASE b = a
    <3>1. x \in Aliases
        BY <1>10 DEF TypeOK
    <3>2. x = AliasOf(login[l], x.version)
        BY <1>7, <2>1, <3>1 DEF Aliases, AliasOf, g
    <3> QED
        BY <1>8, <2>1, <3>2
  <2>2. CASE b # a
    <3>1. actor[b] = "active" /\ identity'[b] = identity[b] /\ identity[b] # g
        BY <1>1, <1>7, <1>9, <2>2 DEF IInv, TypeOK
    <3>2. x \in DOMAIN aliases
        BY <1>4, <1>6, <3>1
    <3> QED
        BY <1>6, <3>1, <3>2 DEF IInv, SearchedAliasesAgree
  <2> QED
      BY <2>1, <2>2
<1>16. NoneNewer'
  <2>1. \A x \in written : x.version \in versions /\ x.version <= x.version
      BY <1>1, <1>4 DEF LoginFits, Login, Versions, Aliases
  <2> QED
      BY <1>3, <1>6, <2>1 DEF IInv, NoneNewer
<1> QED
    BY <1>10, <1>11, <1>12, <1>13, <1>14, <1>15, <1>16 DEF IInv

-----------------------------------------------------------------------------
\* While nobody holds the key state no login depends on the versions.
LEMMA VersionsFree ==
    ASSUME IInv, \A l \in Logins : ~ HoldsKeys(l),
           UNCHANGED <<actor, identity, aliases, login>>
    PROVE  LoginsFit' /\ NewActorsDiffer' /\ WritesDiffer' /\ AliasesAreOwn'
<1>1. \A l \in Logins : /\ login[l].pc \in {"idle", "keys"}
                         /\ LoginFits(login[l])
    BY DEF IInv, TypeOK, LoginsFit, Login, HoldsKeys
<1>2. LoginsFit'
    BY <1>1 DEF LoginsFit, LoginFits
<1> QED
    BY <1>2 DEF IInv, NewActorsDiffer, WritesDiffer, AliasesAreOwn

LEMMA AddVersionKeeps ==
    ASSUME IInv, AddVersion
    PROVE  IInv'
<1>1. UNCHANGED <<actor, identity, aliases, login>>
    BY DEF AddVersion
<1>2. PICK v \in versions : versions = {v} /\ v < MaxVersion /\ versions' = {v, v + 1}
    BY DEF AddVersion
<1>3. v \in Nat /\ v + 1 \in Versions
    BY <1>2, LoginAssumption DEF Versions, IInv, TypeOK
<1>4. \A x \in DOMAIN aliases : x.version \in Nat /\ x.version <= v
    BY <1>2 DEF IInv, TypeOK, NoneNewer, Aliases, Versions
<1>5. TypeOK'
    BY <1>1, <1>2, <1>3 DEF IInv, TypeOK
<1>6. LoginsFit' /\ NewActorsDiffer' /\ WritesDiffer' /\ AliasesAreOwn'
    BY <1>1, VersionsFree DEF AddVersion
<1>7. ActorsStayReachable'
    BY <1>1, <1>2 DEF IInv, ActorsStayReachable
<1>8. SearchedAliasesAgree'
  <2>1. \A x \in DOMAIN aliases : x.version \in versions' => x.version \in versions
      BY <1>2, <1>3, <1>4
  <2> QED
      BY <1>1, <2>1 DEF IInv, SearchedAliasesAgree
<1>9. NoneNewer'
    BY <1>1, <1>2, <1>4 DEF NoneNewer
<1> QED
    BY <1>5, <1>6, <1>7, <1>8, <1>9 DEF IInv

LEMMA RetireVersionKeeps ==
    ASSUME IInv, RetireVersion
    PROVE  IInv'
<1>1. UNCHANGED <<actor, identity, aliases, login>>
    BY DEF RetireVersion
<1>2. PICK old \in versions, new \in versions :
          /\ versions = {old, new}
          /\ old < new
          /\ \A a \in Actors : actor[a] = "active" =>
                 [version |-> new, account |-> identity[a]] \in DOMAIN aliases
          /\ versions' = {new}
    BY DEF RetireVersion
<1>3. TypeOK'
    BY <1>1, <1>2 DEF IInv, TypeOK
<1>4. LoginsFit' /\ NewActorsDiffer' /\ WritesDiffer' /\ AliasesAreOwn'
    BY <1>1, VersionsFree DEF RetireVersion
<1>5. ActorsStayReachable'
  <2> SUFFICES ASSUME NEW a \in Actors, actor[a] = "active"
               PROVE  /\ [version |-> new, account |-> identity[a]] \in DOMAIN aliases
                      /\ aliases[[version |-> new, account |-> identity[a]]] = a
      BY <1>1, <1>2 DEF ActorsStayReachable
  <2> QED
      BY <1>2 DEF IInv, SearchedAliasesAgree
<1>6. SearchedAliasesAgree'
    BY <1>1, <1>2 DEF IInv, SearchedAliasesAgree
<1>7. NoneNewer'
  <2> SUFFICES ASSUME NEW x \in DOMAIN aliases PROVE x.version <= new
      BY <1>1, <1>2 DEF NoneNewer
  <2>1. x.version \in Nat /\ old \in Nat /\ new \in Nat
      BY LoginAssumption DEF IInv, TypeOK, Aliases, Versions
  <2>2. PICK v \in versions : x.version <= v
      BY DEF IInv, NoneNewer
  <2> QED
      BY <1>2, <2>1, <2>2
<1> QED
    BY <1>3, <1>4, <1>5, <1>6, <1>7 DEF IInv

-----------------------------------------------------------------------------
LEMMA BackfillKeeps ==
    ASSUME IInv, NEW a \in Actors, Backfill(a)
    PROVE  IInv'
<1> DEFINE lacking == {x \in [version: versions, account: {identity[a]}] :
                          x \notin DOMAIN aliases}
<1>1. /\ actor[a] = "active"
      /\ \A l \in Logins : \A x \in lacking : ~ IsWriting(l, x)
      /\ aliases' = Added(lacking, a)
      /\ UNCHANGED <<versions, actor, identity, login>>
    BY DEF Backfill
<1>2. a \in DOMAIN identity /\ identity[a] \in Accounts
    BY <1>1 DEF IInv, TypeOK
<1>3. \A x \in lacking : /\ x \in Aliases
                         /\ x.version \in versions /\ x.account = identity[a]
                         /\ x \notin DOMAIN aliases
    BY <1>2 DEF IInv, TypeOK, Aliases
<1>4. /\ DOMAIN aliases' = DOMAIN aliases \cup lacking
      /\ \A x \in DOMAIN aliases : aliases'[x] = aliases[x]
      /\ \A x \in lacking : aliases'[x] = a
    BY <1>1, <1>3 DEF Added
<1> HIDE DEF lacking
<1>5. TypeOK'
    BY <1>1, <1>2, <1>3, <1>4 DEF IInv, TypeOK
<1>6. LoginsFit'
  <2> SUFFICES ASSUME NEW l \in Logins PROVE LoginFits(login[l])'
      BY <1>1 DEF LoginsFit
  <2>1. LoginFits(login[l]) /\ login'[l] = login[l]
      BY <1>1 DEF IInv, LoginsFit
  <2>2. \A v \in login[l].written : AliasOf(login[l], v) \notin lacking
    <3> SUFFICES ASSUME NEW v \in login[l].written, AliasOf(login[l], v) \in lacking
                 PROVE  FALSE
        OBVIOUS
    <3> QED
        BY <1>1 DEF IsWriting, AliasOf
  <2> QED
      BY <1>1, <1>4, <2>1, <2>2 DEF LoginFits, AliasOf
<1>7. NewActorsDiffer' /\ WritesDiffer'
    BY <1>1 DEF IInv, NewActorsDiffer, WritesDiffer
<1>8. AliasesAreOwn'
    BY <1>1, <1>3, <1>4 DEF IInv, AliasesAreOwn
<1>9. ActorsStayReachable'
    BY <1>1, <1>4 DEF IInv, ActorsStayReachable
<1>10. SearchedAliasesAgree'
  <2>1. \A b \in Actors : (actor[b] = "active" /\ identity[b] = identity[a]) => b = a
      BY <1>1, ReachableIsUnique DEF IInv, OneActorPerAccount
  <2> QED
      BY <1>1, <1>3, <1>4, <2>1 DEF IInv, SearchedAliasesAgree
<1>11. NoneNewer'
  <2>1. \A x \in lacking : x.version <= x.version
      BY <1>3 DEF Aliases, Versions
  <2> QED
      BY <1>1, <1>3, <1>4, <2>1 DEF IInv, NoneNewer
<1> QED
    BY <1>5, <1>6, <1>7, <1>8, <1>9, <1>10, <1>11 DEF IInv

LEMMA DisableActorKeeps ==
    ASSUME IInv, NEW a \in Actors, DisableActor(a)
    PROVE  IInv'
<1>1. /\ actor[a] = "active"
      /\ \A l \in Logins : ~ HoldsActor(l, a)
      /\ actor' = [actor EXCEPT ![a] = "disabled"]
      /\ UNCHANGED <<versions, identity, aliases, login>>
    BY DEF DisableActor
<1>2. \A b \in Actors : actor'[b] = IF b = a THEN "disabled" ELSE actor[b]
    BY <1>1 DEF IInv, TypeOK
<1>3. TypeOK'
    BY <1>1, <1>2 DEF IInv, TypeOK
<1>4. LoginsFit'
  <2> SUFFICES ASSUME NEW l \in Logins PROVE LoginFits(login[l])'
      BY <1>1 DEF LoginsFit
  <2>1. LoginFits(login[l]) /\ login'[l] = login[l]
      BY <1>1 DEF IInv, LoginsFit
  <2>2. login[l].pc \in {"alias", "commit"} => login[l].actor # a
      BY <1>1, <2>1 DEF HoldsActor, LoginFits
  <2> QED
      BY <1>1, <1>2, <2>1, <2>2 DEF LoginFits, AliasOf
<1>5. NewActorsDiffer' /\ WritesDiffer' /\ AliasesAreOwn' /\ NoneNewer'
    BY <1>1 DEF IInv, NewActorsDiffer, WritesDiffer, AliasesAreOwn, NoneNewer
<1>6. ActorsStayReachable' /\ SearchedAliasesAgree'
    BY <1>1, <1>2 DEF IInv, ActorsStayReachable, SearchedAliasesAgree
<1> QED
    BY <1>3, <1>4, <1>5, <1>6 DEF IInv

LEMMA RemoveActorKeeps ==
    ASSUME IInv, NEW a \in Actors, RemoveActor(a)
    PROVE  IInv'
<1>1. /\ actor[a] = "disabled"
      /\ actor' = [actor EXCEPT ![a] = "removed"]
      /\ identity' = [b \in DOMAIN identity \ {a} |-> identity[b]]
      /\ aliases' = [x \in {y \in DOMAIN aliases : aliases[y] # a} |-> aliases[x]]
      /\ UNCHANGED <<versions, login>>
    BY DEF RemoveActor
<1>2. \A b \in Actors : actor'[b] = IF b = a THEN "removed" ELSE actor[b]
    BY <1>1 DEF IInv, TypeOK
<1>3. /\ DOMAIN identity' = DOMAIN identity \ {a}
      /\ \A b \in DOMAIN identity \ {a} : identity'[b] = identity[b]
    BY <1>1
<1>4. /\ DOMAIN aliases' = {x \in DOMAIN aliases : aliases[x] # a}
      /\ \A x \in DOMAIN aliases : aliases[x] # a => aliases'[x] = aliases[x]
    BY <1>1
<1>5. TypeOK'
  <2>1. DOMAIN identity' = {b \in Actors : actor'[b] \in {"active", "disabled"}}
      BY <1>2, <1>3 DEF IInv, TypeOK
  <2>2. actor' \in [Actors -> {"none", "active", "disabled", "removed"}]
      BY <1>1 DEF IInv, TypeOK
  <2> QED
      BY <1>1, <1>3, <1>4, <2>1, <2>2 DEF IInv, TypeOK
<1>6. \A b \in Actors : actor[b] = "active" => b \in DOMAIN identity \ {a}
    BY <1>1 DEF IInv, TypeOK
<1>7. LoginsFit'
  <2> SUFFICES ASSUME NEW l \in Logins PROVE LoginFits(login[l])'
      BY <1>1 DEF LoginsFit
  <2>1. LoginFits(login[l]) /\ login'[l] = login[l]
      BY <1>1 DEF IInv, LoginsFit
  <2>2. login[l].pc \in {"alias", "commit"} => login[l].actor # a
      BY <1>1, <2>1 DEF LoginFits
  <2> QED
      BY <1>1, <1>2, <1>3, <1>4, <1>6, <2>1, <2>2 DEF LoginFits, AliasOf
<1>8. NewActorsDiffer' /\ WritesDiffer'
    BY <1>1 DEF IInv, NewActorsDiffer, WritesDiffer
<1>9. AliasesAreOwn'
    BY <1>3, <1>4 DEF IInv, TypeOK, AliasesAreOwn
<1>10. ActorsStayReachable'
  <2> SUFFICES ASSUME NEW b \in Actors, actor'[b] = "active"
               PROVE  \E v \in versions :
                          /\ [version |-> v, account |-> identity'[b]] \in DOMAIN aliases'
                          /\ aliases'[[version |-> v, account |-> identity'[b]]] = b
      BY <1>1 DEF ActorsStayReachable
  <2>1. b # a /\ actor[b] = "active" /\ identity'[b] = identity[b]
      BY <1>2, <1>3, <1>6
  <2> QED
      BY <1>4, <2>1 DEF IInv, ActorsStayReachable
<1>11. SearchedAliasesAgree'
    BY <1>1, <1>2, <1>3, <1>4, <1>6 DEF IInv, SearchedAliasesAgree
<1>12. NoneNewer'
    BY <1>1, <1>4 DEF IInv, NoneNewer
<1> QED
    BY <1>5, <1>7, <1>8, <1>9, <1>10, <1>11, <1>12 DEF IInv

-----------------------------------------------------------------------------
LEMMA InitIInv == Init => IInv
<1> SUFFICES ASSUME Init PROVE IInv
    OBVIOUS
<1>1. /\ versions = {1} /\ 1 \in Versions
      /\ DOMAIN identity = {} /\ DOMAIN aliases = {}
      /\ \A a \in Actors : actor[a] = "none"
      /\ \A l \in Logins : login[l] = Idle
    BY LoginAssumption DEF Init, Versions
<1>2. Idle \in Login /\ ~ Idle.isNew /\ Idle.written = {} /\ Idle.pc = "idle"
    BY DEF Idle, Login, MaxTransactions
<1>3. TypeOK
    BY <1>1, <1>2 DEF Init, TypeOK
<1>4. LoginsFit
    BY <1>1, <1>2 DEF LoginsFit, LoginFits
<1> QED
    BY <1>1, <1>2, <1>3, <1>4
       DEF IInv, NewActorsDiffer, WritesDiffer, AliasesAreOwn, ActorsStayReachable,
           SearchedAliasesAgree, NoneNewer

LEMMA NextKeeps ==
    ASSUME IInv, [Next]_vars
    PROVE  IInv'
<1>1. ASSUME NEW l \in Logins, NEW g \in Accounts, Start(l, g) PROVE IInv'
    BY <1>1, StartKeeps
<1>2. ASSUME NEW l \in Logins, ReadKeys(l) PROVE IInv'
    BY <1>2, ReadKeysKeeps
<1>3. ASSUME NEW l \in Logins, FindIdentity(l) PROVE IInv'
    BY <1>3, FindIdentityKeeps
<1>4. ASSUME NEW l \in Logins, LockIdentity(l) PROVE IInv'
    BY <1>4, LockIdentityKeeps
<1>5. ASSUME NEW l \in Logins, NEW a \in Actors, InsertActor(l, a) PROVE IInv'
    BY <1>5, InsertActorKeeps
<1>6. ASSUME NEW l \in Logins, WriteAlias(l) PROVE IInv'
    BY <1>6, WriteAliasKeeps
<1>7. ASSUME NEW l \in Logins, Commit(l) PROVE IInv'
    BY <1>7, CommitKeeps
<1>8. ASSUME NEW l \in Logins, Fail(l) PROVE IInv'
    BY <1>8, LoginEnds DEF Fail
<1>9. ASSUME NEW a \in Actors, Backfill(a) \/ DisableActor(a) \/ RemoveActor(a) PROVE IInv'
    BY <1>9, BackfillKeeps, DisableActorKeeps, RemoveActorKeeps
<1>10. ASSUME AddVersion \/ RetireVersion PROVE IInv'
    BY <1>10, AddVersionKeeps, RetireVersionKeeps
<1>11. ASSUME UNCHANGED vars PROVE IInv'
    BY <1>11 DEF vars, IInv, TypeOK, LoginsFit, LoginFits, AliasOf, NewActorsDiffer,
                 WritesDiffer, AliasesAreOwn, ActorsStayReachable, SearchedAliasesAgree,
                 NoneNewer
<1> QED
    BY <1>1, <1>2, <1>3, <1>4, <1>5, <1>6, <1>7, <1>8, <1>9, <1>10, <1>11 DEF Next, Step

LEMMA IInvAlways == Spec => []IInv
    BY InitIInv, NextKeeps, PTL DEF Spec

\* Logins, rotations and deletions keep the state well formed: above all an alias
\* never outlives the identity it leads to.
THEOREM FirstLoginTypeCorrect == Spec => []TypeOK
<1>1. IInv => TypeOK
    BY DEF IInv
<1> QED
    BY <1>1, IInvAlways, PTL

\* An account never has two actors that are not deleted, however many logins race
\* and however often the search key is rotated.
THEOREM AccountsKeepOneActor == Spec => []OneActorPerAccount
<1>1. IInv => OneActorPerAccount
    BY ReachableIsUnique DEF IInv
<1> QED
    BY <1>1, IInvAlways, PTL

\* The next login of an account finds its active actor, whichever versions of the
\* search key are in use by then.
THEOREM ActiveActorsAreFound == Spec => []ActorsStayReachable
<1>1. IInv => ActorsStayReachable
    BY DEF IInv
<1> QED
    BY <1>1, IInvAlways, PTL

-----------------------------------------------------------------------------
(***************************************************************************)
(* The number of conflicts.  A conflict needs a login that found nobody    *)
(* and then meets an alias of its account.  The alias is of an actor that  *)
(* is active, which the login's next search finds, or of one disabled      *)
(* since its search.  So the conflicts of a login are counted by the       *)
(* actors that are gone, and one more when the account has an active one;  *)
(* those of a login that found nobody, by the gone ones that it would not  *)
(* find either.                                                            *)
(***************************************************************************)
Gone == {a \in Actors : actor[a] \in {"disabled", "removed"}}

HasActive(g) == \E a \in Actors : actor[a] = "active" /\ identity[a] = g

FoundNobody(r) == (r.pc = "lock" /\ r.actor = Null) \/ r.isNew

TriesFit(r) ==
    /\ HasActive(r.account) => r.tries <= Cardinality(Gone) + 1
    /\ ~ HasActive(r.account) => r.tries <= Cardinality(Gone)
    /\ FoundNobody(r) => r.tries <= Cardinality(Gone \ Found(r.account))

TriesInv == IsFiniteSet(Gone) /\ \A l \in Logins : TriesFit(login[l])

\* A step of one login that leaves the rows alone.
LEMMA LoginKeepsTries ==
    ASSUME IInv, TriesInv, NEW l \in Logins, NEW r,
           login' = [login EXCEPT ![l] = r],
           UNCHANGED <<versions, actor, identity, aliases>>,
           TriesFit(r)
    PROVE  TriesInv'
<1>1. \A m \in Logins : login'[m] = IF m = l THEN r ELSE login[m]
    BY DEF IInv, TypeOK
<1>2. Gone' = Gone
    BY DEF Gone
<1>3. ASSUME NEW m \in Logins, NEW s, login'[m] = s, TriesFit(s)
      PROVE  TriesFit(login[m])'
    BY <1>2, <1>3 DEF TriesFit, HasActive, FoundNobody, Found
<1>4. \A m \in Logins : TriesFit(login[m])'
    BY <1>1, <1>3 DEF TriesInv
<1> QED
    BY <1>2, <1>4 DEF TriesInv

LEMMA IdleFits ==
    ASSUME IsFiniteSet(Gone), NEW r, r.tries = 0
    PROVE  TriesFit(r)
<1>1. Cardinality(Gone) \in Nat
    BY FS_CardinalityType
<1>2. Cardinality(Gone \ Found(r.account)) \in Nat
    BY FS_Subset, FS_CardinalityType
<1> QED
    BY <1>1, <1>2 DEF TriesFit

LEMMA EndKeepsTries ==
    ASSUME IInv, TriesInv, NEW l \in Logins, End(l),
           UNCHANGED <<versions, actor, identity, aliases>>
    PROVE  TriesInv'
<1>1. Idle.tries = 0
    BY DEF Idle
<1> QED
    BY <1>1, IdleFits, LoginKeepsTries DEF End, TriesInv

\* A step of one login that keeps its count and found somebody, or nobody as before.
LEMMA StepKeepsTries ==
    ASSUME IInv, TriesInv, NEW l \in Logins, NEW r,
           login' = [login EXCEPT ![l] = r],
           UNCHANGED <<versions, actor, identity, aliases>>,
           r.account = login[l].account, r.tries = login[l].tries,
           FoundNobody(r) => FoundNobody(login[l])
    PROVE  TriesInv'
<1>1. TriesFit(login[l])
    BY DEF TriesInv
<1>2. TriesFit(r)
    BY <1>1 DEF TriesFit
<1> QED
    BY <1>2, LoginKeepsTries

\* A step that leaves the logins alone.
LEMMA RowsKeepTries ==
    ASSUME IInv, TriesInv, UNCHANGED login,
           IsFiniteSet(Gone'),
           \A l \in Logins :
               \/ /\ Gone' = Gone
                  /\ HasActive(login[l].account) => HasActive(login[l].account)'
               \/ Cardinality(Gone') = Cardinality(Gone) + 1,
           \A l \in Logins : FoundNobody(login[l]) =>
               Gone \ Found(login[l].account) \subseteq (Gone \ Found(login[l].account))'
    PROVE  TriesInv'
<1> SUFFICES ASSUME NEW l \in Logins PROVE TriesFit(login[l])'
    BY DEF TriesInv
<1>1. TriesFit(login[l]) /\ login[l].tries \in Nat /\ login'[l] = login[l]
    BY DEF TriesInv, IInv, TypeOK, Login
<1>2. Cardinality(Gone) \in Nat
    BY FS_CardinalityType DEF TriesInv
<1>3. FoundNobody(login[l]) =>
          login[l].tries <= Cardinality((Gone \ Found(login[l].account))')
  <2> SUFFICES ASSUME FoundNobody(login[l])
               PROVE  login[l].tries <= Cardinality((Gone \ Found(login[l].account))')
      OBVIOUS
  <2>1. IsFiniteSet((Gone \ Found(login[l].account))')
      BY FS_Subset
  <2>2. IsFiniteSet(Gone \ Found(login[l].account))
      BY FS_Subset DEF TriesInv
  <2>3. Cardinality(Gone \ Found(login[l].account))
            <= Cardinality((Gone \ Found(login[l].account))')
      BY <2>1, FS_Subset
  <2>4. login[l].tries <= Cardinality(Gone \ Found(login[l].account))
      BY <1>1 DEF TriesFit
  <2> QED
      BY <1>1, <2>1, <2>2, <2>3, <2>4, FS_CardinalityType
<1>4. login'[l].tries = login[l].tries /\ login'[l].account = login[l].account
    BY <1>1
<1>5. FoundNobody(login[l])' => FoundNobody(login[l])
    BY <1>1 DEF FoundNobody
<1>6. /\ HasActive(login[l].account)' => login[l].tries <= Cardinality(Gone') + 1
      /\ ~ HasActive(login[l].account)' => login[l].tries <= Cardinality(Gone')
    BY <1>1, <1>2 DEF TriesFit
<1> QED
    BY <1>3, <1>4, <1>5, <1>6 DEF TriesFit

-----------------------------------------------------------------------------
LEMMA FindIdentityKeepsTries ==
    ASSUME IInv, TriesInv, NEW l \in Logins, FindIdentity(l)
    PROVE  TriesInv'
<1> DEFINE found == Found(login[l].account)
           a == IF found = {} THEN Null ELSE CHOOSE b \in found : TRUE
           r == [login[l] EXCEPT !.pc = "lock", !.actor = a]
<1>1. login[l] \in Login /\ LoginFits(login[l]) /\ login[l].pc = "search"
    BY DEF IInv, TypeOK, LoginsFit, FindIdentity, At
<1>2. found \subseteq Actors
    BY DEF Found, IInv, TypeOK
<1>3. found # {} => a \in Actors /\ a # Null
    BY <1>2, LoginAssumption
<1>4. \/ End(l)
      \/ login' = [login EXCEPT ![l] = r]
    BY <1>1 DEF FindIdentity, IInv, TypeOK
<1>5. UNCHANGED <<versions, actor, identity, aliases>>
    BY DEF FindIdentity
<1> HIDE DEF a
<1>6. r.pc = "lock" /\ r.actor = a /\ r.isNew = FALSE
      /\ r.account = login[l].account /\ r.tries = login[l].tries
    BY <1>1 DEF Login, LoginFits
<1> HIDE DEF r
<1>7. TriesFit(r)
  <2>1. TriesFit(login[l])
      BY DEF TriesInv
  <2>2. CASE found # {}
      BY <1>3, <1>6, <2>1, <2>2 DEF TriesFit, FoundNobody
  <2>3. CASE found = {}
    <3>1. ~ HasActive(login[l].account)
        BY <2>3 DEF HasActive, Found, IInv, ActorsStayReachable
    <3>2. Gone \ Found(login[l].account) = Gone
        BY <2>3
    <3> QED
        BY <1>6, <2>1, <3>1, <3>2 DEF TriesFit
  <2> QED
      BY <2>2, <2>3
<1> QED
    BY <1>4, <1>5, <1>7, EndKeepsTries, LoginKeepsTries

\* Only a login that found nobody meets another's alias, and then its next search
\* finds the active actor, or there is one more that is gone.
LEMMA ConflictKeepsTries ==
    ASSUME IInv, TriesInv, NEW l \in Logins, login[l].pc = "alias",
           NEW v \in Missing(l), Alias(l, v) \in DOMAIN aliases, Conflict(l),
           UNCHANGED <<versions, actor, identity, aliases>>
    PROVE  TriesInv'
<1> DEFINE b == aliases[Alias(l, v)]
           g == login[l].account
           r == [Idle EXCEPT !.pc = "keys", !.account = g, !.tries = login[l].tries + 1]
<1>1. login[l] \in Login /\ LoginFits(login[l]) /\ TriesFit(login[l])
    BY DEF IInv, TypeOK, LoginsFit, TriesInv
<1>2. v \in versions /\ (v \in login[l].written \/ b # login[l].actor)
      /\ v \notin login[l].written
    BY DEF Missing
<1>3. Alias(l, v).version = v /\ Alias(l, v).account = g
    BY DEF Alias
<1>4. b \in DOMAIN identity /\ b \in Actors /\ identity[b] = g
      /\ actor[b] \in {"active", "disabled"} /\ b \in Found(g)
    BY <1>2, <1>3 DEF IInv, TypeOK, AliasesAreOwn, Found
<1>5. login[l].isNew
  <2>1. SUFFICES ASSUME ~ login[l].isNew PROVE FALSE
      OBVIOUS
  <2>2. login[l].actor \in Actors /\ actor[login[l].actor] = "active"
        /\ identity[login[l].actor] = g
      BY <1>1, <2>1 DEF LoginFits
  <2> QED
      BY <1>2, <1>3, <2>2 DEF IInv, SearchedAliasesAgree
<1>6. login[l].tries <= Cardinality(Gone \ Found(g))
    BY <1>1, <1>5 DEF TriesFit, FoundNobody
<1> HIDE DEF b
<1>7. login[l].tries \in Nat /\ Cardinality(Gone) \in Nat
      /\ IsFiniteSet(Gone \ Found(g)) /\ Cardinality(Gone \ Found(g)) \in Nat
      /\ Cardinality(Gone \ Found(g)) <= Cardinality(Gone)
    BY <1>1, FS_Subset, FS_CardinalityType DEF TriesInv, Login
<1>8. r.tries = login[l].tries + 1 /\ r.account = g /\ r.pc = "keys" /\ r.isNew = FALSE
    BY DEF Idle
<1> HIDE DEF g, r
<1>9. TriesFit(r)
  <2>1. CASE HasActive(g)
      BY <1>6, <1>7, <1>8, <2>1 DEF TriesFit, FoundNobody
  <2>2. CASE ~ HasActive(g)
    <3>1. b \in Gone
        BY <1>4, <2>2 DEF HasActive, Gone
    <3>2. Gone \ Found(g) \subseteq Gone \ {b}
        BY <1>4
    <3>3. IsFiniteSet(Gone \ {b}) /\ Cardinality(Gone \ {b}) = Cardinality(Gone) - 1
        BY <3>1, FS_RemoveElement DEF TriesInv
    <3>4. Cardinality(Gone \ Found(g)) <= Cardinality(Gone \ {b})
        BY <3>2, <3>3, FS_Subset
    <3> QED
        BY <1>6, <1>7, <1>8, <2>2, <3>3, <3>4 DEF TriesFit, FoundNobody
  <2> QED
      BY <2>1, <2>2
<1>10. End(l) \/ login' = [login EXCEPT ![l] = r]
    BY DEF Conflict, r, g
<1> QED
    BY <1>9, <1>10, EndKeepsTries, LoginKeepsTries

LEMMA WriteAliasKeepsTries ==
    ASSUME IInv, TriesInv, NEW l \in Logins, WriteAlias(l)
    PROVE  TriesInv'
<1>1. login[l] \in Login /\ login[l].pc = "alias" /\ UNCHANGED <<versions, actor, identity, aliases>>
    BY DEF IInv, TypeOK, WriteAlias, At
<1>2. CASE Missing(l) = {}
  <2> DEFINE r == [login[l] EXCEPT !.pc = "commit"]
  <2>1. login' = [login EXCEPT ![l] = r]
      BY <1>1, <1>2 DEF WriteAlias, IInv, TypeOK
  <2>2. r.account = login[l].account /\ r.tries = login[l].tries
        /\ (FoundNobody(r) => FoundNobody(login[l]))
      BY <1>1 DEF Login, FoundNobody
  <2> HIDE DEF r
  <2> QED
      BY <1>1, <2>1, <2>2, StepKeepsTries
<1>3. ASSUME NEW v \in NextVersion(l), InsertAlias(l, v)
      PROVE  TriesInv'
  <2>1. v \in Missing(l)
      BY DEF NextVersion
  <2>2. CASE Alias(l, v) \in DOMAIN aliases
      BY <1>1, <1>3, <2>1, <2>2, ConflictKeepsTries DEF InsertAlias
  <2>3. CASE Alias(l, v) \notin DOMAIN aliases
    <3> DEFINE r == [login[l] EXCEPT !.written = @ \cup {v}]
    <3>1. login' = [login EXCEPT ![l] = r]
        BY <1>1, <1>3, <2>3 DEF InsertAlias, Insert, IInv, TypeOK
    <3>2. r.account = login[l].account /\ r.tries = login[l].tries
          /\ (FoundNobody(r) => FoundNobody(login[l]))
        BY <1>1 DEF Login, FoundNobody
    <3> HIDE DEF r
    <3> QED
        BY <1>1, <3>1, <3>2, StepKeepsTries
  <2> QED
      BY <2>2, <2>3
<1> QED
    BY <1>2, <1>3 DEF WriteAlias

LEMMA LoginStepsKeepTries ==
    ASSUME IInv, TriesInv, NEW l \in Logins,
           ReadKeys(l) \/ LockIdentity(l) \/ \E a \in Actors : InsertActor(l, a)
    PROVE  TriesInv'
<1>1. login[l] \in Login /\ LoginFits(login[l]) /\ UNCHANGED <<versions, actor, identity, aliases>>
    BY DEF IInv, TypeOK, LoginsFit, ReadKeys, LockIdentity, InsertActor
<1>3. CASE ReadKeys(l)
  <2> DEFINE r == [login[l] EXCEPT !.pc = "search"]
  <2>1. login' = [login EXCEPT ![l] = r]
      BY <1>1, <1>3 DEF ReadKeys, IInv, TypeOK
  <2>2. r.account = login[l].account /\ r.tries = login[l].tries
        /\ (FoundNobody(r) => FoundNobody(login[l]))
      BY <1>1 DEF Login, FoundNobody
  <2> HIDE DEF r
  <2> QED
      BY <1>1, <2>1, <2>2, StepKeepsTries
<1>4. CASE LockIdentity(l)
  <2> DEFINE r == [login[l] EXCEPT !.pc = "alias"]
  <2>1. End(l) \/ login' = [login EXCEPT ![l] = r]
      BY <1>1, <1>4 DEF LockIdentity, IInv, TypeOK
  <2>2. r.account = login[l].account /\ r.tries = login[l].tries
        /\ (FoundNobody(r) => FoundNobody(login[l]))
      BY <1>1 DEF Login, FoundNobody
  <2> HIDE DEF r
  <2> QED
      BY <1>1, <2>1, <2>2, StepKeepsTries, EndKeepsTries
<1>5. ASSUME NEW a \in Actors, InsertActor(l, a)
      PROVE  TriesInv'
  <2> DEFINE r == [login[l] EXCEPT !.pc = "alias", !.actor = a, !.isNew = TRUE]
  <2>1. End(l) \/ login' = [login EXCEPT ![l] = r]
      BY <1>1, <1>5 DEF InsertActor, IInv, TypeOK
  <2>2. r.account = login[l].account /\ r.tries = login[l].tries
      BY <1>1 DEF Login
  <2>3. FoundNobody(login[l])
      BY <1>5 DEF InsertActor, At, FoundNobody
  <2> HIDE DEF r
  <2> QED
      BY <1>1, <2>1, <2>2, <2>3, StepKeepsTries, EndKeepsTries
<1> QED
    BY <1>3, <1>4, <1>5

-----------------------------------------------------------------------------
LEMMA CommitKeepsTries ==
    ASSUME IInv, TriesInv, NEW l \in Logins, Commit(l)
    PROVE  TriesInv'
<1> DEFINE a == login[l].actor
           written == {Alias(l, v) : v \in login[l].written}
<1>1. LoginFits(login[l]) /\ login[l].pc = "commit" /\ a \in Actors
    BY DEF IInv, LoginsFit, LoginFits, Commit, At
<1>2. \A m \in Logins : login'[m] = IF m = l THEN Idle ELSE login[m]
    BY DEF Commit, End, IInv, TypeOK
<1>3. versions' = versions /\ aliases' = Added(written, a)
    BY DEF Commit
<1>4. /\ actor'[a] = "active" /\ actor[a] \in {"none", "active"}
      /\ \A b \in Actors :
             /\ b # a => actor'[b] = actor[b]
             /\ actor[b] = "active" => actor'[b] = "active" /\ identity'[b] = identity[b]
    BY <1>1 DEF Commit, LoginFits, IInv, TypeOK
<1> HIDE DEF a
<1>5. Gone' = Gone /\ a \notin Gone
    BY <1>1, <1>4 DEF Gone
<1>6. \A m \in Logins : TriesFit(login[m])'
  <2> SUFFICES ASSUME NEW m \in Logins PROVE TriesFit(login[m])'
      OBVIOUS
  <2>1. CASE m = l
    <3>1. login'[m].tries = 0
        BY <1>2, <2>1 DEF Idle
    <3>2. Cardinality(Gone') \in Nat
        BY <1>5, FS_CardinalityType DEF TriesInv
    <3>3. Cardinality((Gone \ Found(login[m].account))') \in Nat
        BY <1>5, FS_Subset, FS_CardinalityType DEF TriesInv
    <3> QED
        BY <3>1, <3>2, <3>3 DEF TriesFit
  <2>2. CASE m # l
    <3>1. login'[m] = login[m] /\ TriesFit(login[m]) /\ login[m].tries \in Nat
        BY <1>2, <2>2 DEF TriesInv, IInv, TypeOK, Login
    <3> DEFINE g == login[m].account
    <3>2. Gone \ Found(g) \subseteq Gone' \ Found(g)'
      <4>1. Found(g)' \subseteq Found(g) \cup {a}
          BY <1>3, <3>1 DEF Found, Added
      <4> QED
          BY <1>5, <4>1
    <3>3. IsFiniteSet(Gone \ Found(g)) /\ IsFiniteSet(Gone' \ Found(g)') /\ Cardinality(Gone) \in Nat
        BY <1>5, FS_Subset, FS_CardinalityType DEF TriesInv
    <3>4. Cardinality(Gone \ Found(g)) <= Cardinality(Gone' \ Found(g)')
        BY <3>2, <3>3, FS_Subset
    <3>5. Cardinality(Gone \ Found(g)) \in Nat /\ Cardinality(Gone' \ Found(g)') \in Nat
        BY <3>3, FS_CardinalityType
    <3>6. login'[m].tries = login[m].tries /\ login'[m].account = g
          /\ (FoundNobody(login[m])' => FoundNobody(login[m]))
        BY <3>1 DEF FoundNobody
    <3>7. /\ HasActive(g) => login[m].tries <= Cardinality(Gone) + 1
          /\ ~ HasActive(g) => login[m].tries <= Cardinality(Gone)
          /\ FoundNobody(login[m]) => login[m].tries <= Cardinality(Gone \ Found(g))
        BY <3>1 DEF TriesFit
    <3>8. HasActive(g) => HasActive(g)'
        BY <1>4, <3>1 DEF HasActive
    <3> QED
        BY <1>5, <3>1, <3>3, <3>4, <3>5, <3>6, <3>7, <3>8 DEF TriesFit
  <2> QED
      BY <2>1, <2>2
<1> QED
    BY <1>5, <1>6 DEF TriesInv

LEMMA RotationKeepsTries ==
    ASSUME IInv, TriesInv, AddVersion \/ RetireVersion
    PROVE  TriesInv'
<1>1. UNCHANGED <<actor, identity, aliases, login>> /\ \A l \in Logins : ~ HoldsKeys(l)
    BY DEF AddVersion, RetireVersion
<1>2. Gone' = Gone
    BY <1>1 DEF Gone
<1>3. \A l \in Logins : HasActive(login[l].account) => HasActive(login[l].account)'
    BY <1>1 DEF HasActive
<1>4. \A l \in Logins : ~ FoundNobody(login[l])
    BY <1>1 DEF HoldsKeys, FoundNobody, IInv, LoginsFit, LoginFits
<1> QED
    BY <1>1, <1>2, <1>3, <1>4, RowsKeepTries DEF TriesInv

LEMMA BackfillKeepsTries ==
    ASSUME IInv, TriesInv, NEW a \in Actors, Backfill(a)
    PROVE  TriesInv'
<1> DEFINE lacking == {x \in [version: versions, account: {identity[a]}] :
                          x \notin DOMAIN aliases}
<1>1. actor[a] = "active" /\ aliases' = Added(lacking, a)
      /\ UNCHANGED <<versions, actor, identity, login>>
    BY DEF Backfill
<1>2. Gone' = Gone /\ a \notin Gone
    BY <1>1 DEF Gone
<1>3. \A l \in Logins : HasActive(login[l].account) => HasActive(login[l].account)'
    BY <1>1 DEF HasActive
<1>4. \A l \in Logins : Found(login[l].account)' \subseteq Found(login[l].account) \cup {a}
    BY <1>1 DEF Found, Added
<1> QED
    BY <1>1, <1>2, <1>3, <1>4, RowsKeepTries DEF TriesInv

LEMMA DeletionKeepsTries ==
    ASSUME IInv, TriesInv, NEW a \in Actors, DisableActor(a) \/ RemoveActor(a)
    PROVE  TriesInv'
<1>1. UNCHANGED <<versions, login>>
    BY DEF DisableActor, RemoveActor
<1>2. CASE DisableActor(a)
  <2>1. UNCHANGED <<identity, aliases>> /\ Gone' = Gone \cup {a} /\ a \notin Gone
      BY <1>2 DEF DisableActor, Gone, IInv, TypeOK
  <2>2. IsFiniteSet(Gone') /\ Cardinality(Gone') = Cardinality(Gone) + 1
      BY <2>1, FS_AddElement DEF TriesInv
  <2>3. \A l \in Logins : Found(login[l].account)' = Found(login[l].account)
      BY <1>1, <2>1 DEF Found
  <2> QED
      BY <1>1, <2>1, <2>2, <2>3, RowsKeepTries
<1>3. CASE RemoveActor(a)
  <2>1. /\ actor[a] = "disabled"
        /\ actor' = [actor EXCEPT ![a] = "removed"]
        /\ \A b \in Actors : actor[b] = "active" => actor'[b] = "active" /\ identity'[b] = identity[b]
        /\ aliases' = [x \in {y \in DOMAIN aliases : aliases[y] # a} |-> aliases[x]]
      BY <1>3 DEF RemoveActor, IInv, TypeOK
  <2>2. Gone' = Gone
      BY <2>1 DEF Gone, IInv, TypeOK
  <2>3. \A l \in Logins : Found(login[l].account)' \subseteq Found(login[l].account)
      BY <1>1, <2>1 DEF Found
  <2>4. \A l \in Logins : HasActive(login[l].account) => HasActive(login[l].account)'
      BY <1>1, <2>1 DEF HasActive
  <2> QED
      BY <1>1, <2>2, <2>3, <2>4, RowsKeepTries DEF TriesInv
<1> QED
    BY <1>2, <1>3

LEMMA InitTries == Init => TriesInv
<1> SUFFICES ASSUME Init PROVE TriesInv
    OBVIOUS
<1>1. Gone = {}
    BY DEF Gone, Init
<1>2. IsFiniteSet(Gone)
    BY <1>1, FS_EmptySet
<1>3. \A l \in Logins : login[l].tries = 0
    BY DEF Init, Idle
<1>4. \A l \in Logins : TriesFit(login[l])
    BY <1>2, <1>3, IdleFits
<1> QED
    BY <1>2, <1>4 DEF TriesInv

LEMMA NextKeepsTries ==
    ASSUME IInv, TriesInv, [Next]_vars
    PROVE  TriesInv'
<1>1. ASSUME NEW l \in Logins, NEW g \in Accounts, Start(l, g) PROVE TriesInv'
  <2>1. [Idle EXCEPT !.pc = "keys", !.account = g].tries = 0
      BY DEF Idle
  <2> QED
      BY <1>1, <2>1, IdleFits, LoginKeepsTries DEF Start, TriesInv
<1>2. ASSUME NEW l \in Logins, FindIdentity(l) \/ WriteAlias(l) \/ Commit(l) PROVE TriesInv'
    BY <1>2, FindIdentityKeepsTries, WriteAliasKeepsTries, CommitKeepsTries
<1>3. ASSUME NEW l \in Logins, Fail(l) PROVE TriesInv'
    BY <1>3, EndKeepsTries DEF Fail
<1>4. ASSUME NEW a \in Actors, Backfill(a) \/ DisableActor(a) \/ RemoveActor(a)
      PROVE  TriesInv'
    BY <1>4, BackfillKeepsTries, DeletionKeepsTries
<1>5. ASSUME AddVersion \/ RetireVersion PROVE TriesInv'
    BY <1>5, RotationKeepsTries
<1>6. ASSUME UNCHANGED vars PROVE TriesInv'
  <2>1. UNCHANGED <<versions, actor, identity, aliases, login>>
      BY <1>6 DEF vars
  <2>2. Gone' = Gone
      BY <2>1 DEF Gone
  <2>3. \A l \in Logins : HasActive(login[l].account) => HasActive(login[l].account)'
      BY <2>1 DEF HasActive
  <2>4. \A l \in Logins : Found(login[l].account)' = Found(login[l].account)
      BY <2>1 DEF Found
  <2> QED
      BY <2>1, <2>2, <2>3, <2>4, RowsKeepTries DEF TriesInv
<1>7. ASSUME NEW l \in Logins,
             ReadKeys(l) \/ LockIdentity(l) \/ \E a \in Actors : InsertActor(l, a)
      PROVE  TriesInv'
    BY <1>7, LoginStepsKeepTries
<1> QED
    BY <1>1, <1>2, <1>3, <1>4, <1>5, <1>6, <1>7 DEF Next, Step

\* A login that lost the race for its account finds the winner in its next
\* transaction, unless the winner was disabled: however many logins race, it runs out
\* of transactions only when actors are deleted meanwhile.
THEOREM LoginsAlwaysFindTheirActor == Spec => []LoginsFindTheirActor
<1>1. Spec => [](IInv /\ TriesInv)
    BY InitIInv, NextKeeps, InitTries, NextKeepsTries, PTL DEF Spec
<1>2. IInv /\ TriesInv => LoginsFindTheirActor
  <2> SUFFICES ASSUME IInv, TriesInv PROVE LoginsFindTheirActor
      OBVIOUS
  <2>1. Cardinality(Gone) \in Nat
      BY FS_CardinalityType DEF TriesInv
  <2>2. \A l \in Logins : login[l].tries <= 1 + Cardinality(Gone)
    <3> SUFFICES ASSUME NEW l \in Logins PROVE login[l].tries <= 1 + Cardinality(Gone)
        OBVIOUS
    <3>1. login[l].tries \in Nat
        BY DEF IInv, TypeOK, Login
    <3>2. login[l].tries <= Cardinality(Gone) + 1 \/ login[l].tries <= Cardinality(Gone)
        BY DEF TriesInv, TriesFit
    <3> QED
        BY <2>1, <3>1, <3>2
  <2>3. LosersFindTheWinner
      BY <2>2 DEF LosersFindTheWinner, Gone
  <2> QED
      BY <2>3 DEF LoginsFindTheirActor, IInv
<1> QED
    BY <1>1, <1>2, PTL

-----------------------------------------------------------------------------
(***************************************************************************)
(* Recipient codes.  A request decides by rows that it has locked, or by a *)
(* row that cannot change any more; the inductive invariant says of every  *)
(* request what it knows of them.  A code that was denied is over for good *)
(* and no request that could still consume it holds its lock, so what the  *)
(* caller was told stays true.                                             *)
(***************************************************************************)
RowType ==
    [state: {"absent", "issued", "consumed", "revoked", "replaced"},
     actor: CodeActors \cup {Nobody}, created: 0 .. MaxTime, terminal: 0 .. MaxTime,
     version: 0 .. 2]

RequestType ==
    [kind: {"none", "use", "issue", "revoke", "inspect"},
     at: {"idle", "preflight", "hint", "actors", "code", "deny", "bound", "staged", "recover",
          "manage", "read", "commit", "sent"},
     actor: CodeActors \cup {Nobody}, op: Operations \cup {Nobody},
     code: Codes \cup {Nobody}, hint: Codes \cup {Nobody}, wanted: SUBSET CodeActors,
     seen: RowType, share: SUBSET (CodeActors \cup Codes), excl: SUBSET (CodeActors \cup Codes),
     group: BOOLEAN, edit: SUBSET (Codes \X RowType), save: BOOLEAN, from: 0 .. MaxTime,
     until: Nat, reply: {"none", "created", "denied", "issued"}]

CodeStateOK ==
    /\ now \in 0 .. MaxTime
    /\ active \subseteq CodeActors
    /\ row \in [Codes -> RowType]
    /\ saved \in [Operations -> Codes \cup {Nobody}]
    /\ tx \in [Workers -> RequestType]
    /\ told \subseteq Codes
    /\ \A c \in told : row[c].state # "absent"

RowFits(r) ==
    /\ r.state = "absent" => r.version = 0
    /\ r.state = "issued" => r.version = 1
    /\ r.state # "absent" => r.actor \in CodeActors /\ r.created <= now
    /\ r.state \in {"consumed", "revoked"} =>
           r.created <= r.terminal /\ r.terminal < r.created + Lifetime

RowsFit == \A c \in Codes : RowFits(row[c])

OneIssued ==
    \A c, d \in Codes :
        (row[c].state = "issued" /\ row[d].state = "issued" /\ row[c].actor = row[d].actor) => c = d

SavedFits ==
    /\ \A o \in Operations : saved[o] # Nobody => row[saved[o]].state = "consumed"
    /\ \A o, p \in Operations : (saved[o] # Nobody /\ saved[o] = saved[p]) => o = p
    /\ \A c \in Codes : row[c].state = "consumed" => \E o \in Operations : saved[o] = c

\* A code that cannot be used any more.
IsOver(c) == row[c].state # "absent" /\ StateOf(row[c]) # "issued"

\* A row that ended at some time.
Over(r, state, time) == [r EXCEPT !.state = state, !.terminal = time, !.version = @ + 1]

EndsRow(t, c, state, time) ==
    /\ c \in t.excl /\ row[c].state = "issued"
    /\ time \in 0 .. now /\ row[c].created <= time /\ time < Expiry(row[c])
    /\ t.edit = {<<c, Over(row[c], state, time)>>}

UseEnds(t) ==
    /\ t.save => t.reply = "created" /\ \E time \in 0 .. now : EndsRow(t, t.code, "consumed", time)
    /\ ~ t.save =>
           /\ t.edit = {}
           /\ \/ t.reply = "created" /\ saved[t.op] = t.code
              \/ t.reply = "denied" /\ saved[t.op] # t.code /\ t.code \in t.excl /\ IsOver(t.code)

IssueEnds(t) ==
    /\ t.code \in Codes /\ row[t.code].state = "absent"
    /\ t.actor \in t.excl /\ IssuedOf(t.actor) \subseteq t.excl
    /\ t.from <= now /\ t.reply = "none"
    /\ t.edit = {<<t.code, Row("issued", t.actor, t.from, 0, 1)>>}
                \cup {<<p, Over(row[p], "replaced", t.from)>> : p \in IssuedOf(t.actor)}

RevokeEnds(t) ==
    /\ t.reply = "none"
    /\ t.edit = {} \/ (t.code \in Codes /\ \E time \in 0 .. now : EndsRow(t, t.code, "revoked", time))

InspectEnds(t) ==
    /\ t.edit = {}
    /\ t.reply \in {"none", "issued"}
    /\ t.reply = "issued" => t.code \in Codes /\ t.code \in t.share /\ row[t.code].state = "issued"

RequestFits(t) ==
    /\ t.at = "idle" => t = IdleRequest
    /\ t.kind = "use" => t.actor \in CodeActors /\ t.op \in Operations /\ t.code \in told
    /\ t.kind # "none" => t.actor \in CodeActors
    /\ t.kind = "revoke" => t.code \in Codes
    /\ t.at \in {"preflight", "hint", "actors", "code", "deny", "bound", "staged", "recover"} =>
           t.kind = "use"
    /\ t.at \in {"manage", "read"} => t.kind \in {"issue", "revoke", "inspect"}
    /\ t.at \notin {"commit", "sent"} => t.edit = {} /\ t.reply = "none"
    /\ t.save =>
           /\ t.kind = "use" /\ t.group /\ t.at \in {"staged", "commit", "sent"}
           /\ saved[t.op] = Nobody
    /\ t.at = "actors" => t.hint = t.code
    /\ t.at \in {"bound", "staged"} =>
           t.code \in t.excl /\ t.seen = row[t.code] /\ row[t.code].state = "issued"
    /\ t.at = "staged" => t.save
    /\ t.at = "deny" => t.code \in t.excl /\ IsOver(t.code)
    /\ t.at = "read" /\ t.kind \in {"issue", "revoke"} => t.actor \in t.excl
    /\ t.at \in {"commit", "sent"} =>
           /\ t.kind # "none"
           /\ t.kind = "use" => UseEnds(t)
           /\ t.kind = "issue" => IssueEnds(t)
           /\ t.kind = "revoke" => RevokeEnds(t)
           /\ t.kind = "inspect" => InspectEnds(t)

RequestsFit == \A t \in {tx[w] : w \in Workers} : RequestFits(t)

Clash(t, u) ==
    \/ t.excl \cap (u.excl \cup u.share) # {}
    \/ t.share \cap u.excl # {}
    \/ t.group /\ u.group
    \/ /\ t.kind = "issue" /\ u.kind = "issue" /\ t.at \in {"commit", "sent"}
       /\ u.at \in {"commit", "sent"} /\ t.code = u.code

RequestsExclude == \A v, w \in Workers : Clash(tx[v], tx[w]) => v = w

\* A request that may yet consume its code.
MayConsume(t) == t.at \in {"bound", "staged"} \/ t.save

AnswerFits(e) ==
    /\ e \in {"created", "denied"} \X Operations \X Codes
    /\ e[1] = "created" => saved[e[2]] = e[3]
    /\ e[1] = "denied" =>
           /\ saved[e[2]] # e[3] /\ IsOver(e[3])
           /\ \A w \in Workers : MayConsume(tx[w]) => tx[w].code # e[3]

AnswersFit == \A e \in answers : AnswerFits(e)

CodeInv ==
    /\ CodeStateOK
    /\ RowsFit
    /\ OneIssued
    /\ SavedFits
    /\ RequestsFit
    /\ RequestsExclude
    /\ AnswersFit

-----------------------------------------------------------------------------
LEMMA IdleRequestFits ==
    /\ IdleRequest \in RequestType /\ RequestFits(IdleRequest) /\ ~ MayConsume(IdleRequest)
    /\ \A u : ~ Clash(IdleRequest, u) /\ ~ Clash(u, IdleRequest)
<1>1. NoRow \in RowType
    BY CodeAssumption DEF NoRow, Row, RowType
<1>2. IdleRequest \in RequestType
    BY <1>1, CodeAssumption DEF IdleRequest, RequestType
<1>3. RequestFits(IdleRequest)
    BY DEF RequestFits, IdleRequest
<1>4. ~ MayConsume(IdleRequest) /\ \A u : ~ Clash(IdleRequest, u) /\ ~ Clash(u, IdleRequest)
    BY DEF MayConsume, Clash, IdleRequest
<1> QED
    BY <1>2, <1>3, <1>4

\* A step of one request that changes no row.
LEMMA RequestChange ==
    ASSUME CodeInv, NEW w \in Workers, NEW t \in RequestType,
           Goes(w, t),
           UNCHANGED <<now, active, row, saved, told>>,
           \/ answers' = answers
           \/ \E o \in Operations, c \in Codes :
                  saved[o] = c /\ answers' = answers \cup {<<"created", o, c>>},
           RequestFits(t),
           \A v \in Workers \ {w} : ~ Clash(t, tx[v]) /\ ~ Clash(tx[v], t),
           \/ MayConsume(t) => MayConsume(tx[w]) /\ t.code = tx[w].code
           \/ ~ IsOver(t.code)
    PROVE  CodeInv'
<1>1. \A v \in Workers : tx'[v] = IF v = w THEN t ELSE tx[v]
    BY DEF Goes, CodeInv, CodeStateOK
<1>2. CodeStateOK'
    BY DEF Goes, CodeInv, CodeStateOK
<1>3. RowsFit' /\ OneIssued' /\ SavedFits'
    BY DEF CodeInv, RowsFit, RowFits, OneIssued, SavedFits
<1>4. RequestsFit'
  <2> SUFFICES ASSUME NEW u \in {tx'[v] : v \in Workers} PROVE RequestFits(u)'
      BY DEF RequestsFit
  <2>1. RequestFits(u)
      BY <1>1 DEF CodeInv, RequestsFit
  <2>2. \A c : IsOver(c)' = IsOver(c)
      BY DEF IsOver, StateOf
  <2>3. \A c, state, time : EndsRow(u, c, state, time)' = EndsRow(u, c, state, time)
      BY DEF EndsRow
  <2>4. IssuedOf(u.actor)' = IssuedOf(u.actor)
      BY DEF IssuedOf
  <2>5. UseEnds(u)' = UseEnds(u)
      BY <2>2, <2>3 DEF UseEnds
  <2>6. IssueEnds(u)' = IssueEnds(u)
      BY <2>4 DEF IssueEnds
  <2>7. RevokeEnds(u)' = RevokeEnds(u)
      BY <2>3 DEF RevokeEnds
  <2>8. InspectEnds(u)' = InspectEnds(u)
      BY DEF InspectEnds
  <2> QED
      BY <2>1, <2>2, <2>5, <2>6, <2>7, <2>8 DEF RequestFits
<1>5. RequestsExclude'
  <2> SUFFICES ASSUME NEW u \in Workers, NEW v \in Workers, u # v, Clash(tx'[u], tx'[v])
               PROVE  FALSE
      BY DEF RequestsExclude, Clash
  <2> QED
      BY <1>1 DEF CodeInv, RequestsExclude
<1>6. \A e \in answers : AnswerFits(e)'
  <2> SUFFICES ASSUME NEW e \in answers PROVE AnswerFits(e)'
      OBVIOUS
  <2>1. AnswerFits(e)
      BY DEF CodeInv, AnswersFit
  <2>2. e[1] = "denied" => \A v \in Workers : MayConsume(tx'[v]) => tx'[v].code # e[3]
      BY <1>1, <2>1 DEF AnswerFits
  <2> QED
      BY <2>1, <2>2 DEF AnswerFits, IsOver, StateOf, MayConsume
<1>7. AnswersFit'
    BY <1>6 DEF AnswersFit, AnswerFits
<1> QED
    BY <1>2, <1>3, <1>4, <1>5, <1>7 DEF CodeInv

\* The request is over, or a use looks whether it succeeded.
LEMMA FailureFits ==
    ASSUME CodeInv, NEW w \in Workers
    PROVE  /\ AfterFailure(w) \in RequestType /\ RequestFits(AfterFailure(w))
           /\ ~ MayConsume(AfterFailure(w))
           /\ \A u : ~ Clash(AfterFailure(w), u) /\ ~ Clash(u, AfterFailure(w))
<1>1. CASE AfterFailure(w) = IdleRequest
    BY <1>1, IdleRequestFits
<1>2. CASE AfterFailure(w) # IdleRequest
  <2> DEFINE t == [IdleRequest EXCEPT !.kind = "use", !.at = "recover", !.actor = tx[w].actor,
                                      !.op = tx[w].op, !.code = tx[w].code]
  <2>1. AfterFailure(w) = t /\ tx[w].kind = "use" /\ tx[w] \in RequestType /\ RequestFits(tx[w])
      BY <1>2 DEF AfterFailure, CodeInv, CodeStateOK, RequestsFit
  <2>2. IdleRequest \in RequestType /\ IdleRequest.edit = {} /\ IdleRequest.reply = "none"
        /\ IdleRequest.save = FALSE /\ IdleRequest.excl = {} /\ IdleRequest.share = {}
        /\ IdleRequest.group = FALSE
      BY IdleRequestFits DEF IdleRequest
  <2>3. /\ t.kind = "use" /\ t.at = "recover" /\ t.actor = tx[w].actor
        /\ t.op = tx[w].op /\ t.code = tx[w].code /\ t.edit = {} /\ t.reply = "none"
        /\ t.save = FALSE /\ t.excl = {} /\ t.share = {} /\ t.group = FALSE
      BY DEF IdleRequest
  <2>6. t \in RequestType
    <3>1. tx[w].actor \in CodeActors \cup {Nobody} /\ tx[w].op \in Operations \cup {Nobody}
          /\ tx[w].code \in Codes \cup {Nobody}
        BY <2>1 DEF RequestType
    <3> QED
        BY <2>2, <3>1 DEF RequestType
  <2> HIDE DEF t
  <2>4. RequestFits(t)
      BY <2>1, <2>3 DEF RequestFits
  <2>5. ~ MayConsume(t) /\ \A u : ~ Clash(t, u) /\ ~ Clash(u, t)
      BY <2>3 DEF MayConsume, Clash
  <2> QED
      BY <2>1, <2>4, <2>5, <2>6
<1> QED
    BY <1>1, <1>2

\* A request that ends without a trace.
LEMMA RequestEnds ==
    ASSUME CodeInv, NEW w \in Workers,
           Goes(w, IdleRequest) \/ Goes(w, AfterFailure(w)),
           UNCHANGED <<now, active, row, saved, told>>,
           \/ answers' = answers
           \/ \E o \in Operations, c \in Codes :
                  saved[o] = c /\ answers' = answers \cup {<<"created", o, c>>}
    PROVE  CodeInv'
<1>1. PICK t : /\ t \in RequestType /\ Goes(w, t) /\ RequestFits(t) /\ ~ MayConsume(t)
               /\ \A u : ~ Clash(t, u) /\ ~ Clash(u, t)
    BY IdleRequestFits, FailureFits
<1> QED
    BY <1>1, RequestChange

\* What a request holds does not become more.
LEMMA KeepsApart ==
    ASSUME CodeInv, NEW w \in Workers, NEW t,
           t.excl \subseteq tx[w].excl, t.share \subseteq tx[w].share,
           t.group => tx[w].group,
           (t.kind = "issue" /\ t.at \in {"commit", "sent"}) =>
               (tx[w].kind = "issue" /\ tx[w].at \in {"commit", "sent"} /\ tx[w].code = t.code)
    PROVE  \A v \in Workers \ {w} : ~ Clash(t, tx[v]) /\ ~ Clash(tx[v], t)
<1> SUFFICES ASSUME NEW v \in Workers \ {w}
             PROVE  ~ Clash(t, tx[v]) /\ ~ Clash(tx[v], t)
    OBVIOUS
<1>1. ~ Clash(tx[w], tx[v]) /\ ~ Clash(tx[v], tx[w])
    BY DEF CodeInv, RequestsExclude
<1> QED
    BY <1>1 DEF Clash

LEMMA RequestIs ==
    ASSUME CodeInv, NEW w \in Workers
    PROVE  /\ tx[w] \in RequestType /\ RequestFits(tx[w])
           /\ \A v \in Workers \ {w} : ~ Clash(tx[w], tx[v]) /\ ~ Clash(tx[v], tx[w])
BY DEF CodeInv, CodeStateOK, RequestsFit, RequestsExclude

LEMMA BeginKeeps ==
    ASSUME CodeInv, NEW w \in Workers,
           NEW kind \in {"use", "issue", "revoke", "inspect"},
           NEW at \in {"preflight", "manage"},
           NEW a \in CodeActors, NEW o \in Operations \cup {Nobody}, NEW c \in Codes \cup {Nobody},
           kind = "use" <=> at = "preflight",
           kind = "use" => o \in Operations /\ c \in told,
           kind = "revoke" => c \in Codes,
           Request(w, kind, at, a, o, c)
    PROVE  CodeInv'
<1> DEFINE t == [IdleRequest EXCEPT !.kind = kind, !.at = at, !.actor = a, !.op = o, !.code = c]
<1>1. Goes(w, t) /\ UNCHANGED <<now, active, row, saved, told, answers>>
    BY DEF Request, Data
<1>2. /\ t.kind = kind /\ t.at = at /\ t.actor = a
      /\ t.op = o /\ t.code = c /\ t.edit = {} /\ t.reply = "none"
      /\ t.save = FALSE /\ t.excl = {} /\ t.share = {} /\ t.group = FALSE
    BY DEF IdleRequest
<1>3. t \in RequestType
    BY IdleRequestFits DEF RequestType
<1> HIDE DEF t
<1>4. RequestFits(t)
    BY <1>2 DEF RequestFits
<1>5. ~ MayConsume(t) /\ \A u : ~ Clash(t, u) /\ ~ Clash(u, t)
    BY <1>2 DEF MayConsume, Clash
<1> QED
    BY <1>1, <1>3, <1>4, <1>5, RequestChange

LEMMA UseKeeps ==
    ASSUME CodeInv, NEW w \in Workers, NEW o \in Operations, NEW c \in Codes, Use(w, o, c)
    PROVE  CodeInv'
<1>1. Caller[o] \in CodeActors
    BY CodeAssumption
<1> QED
    BY <1>1, BeginKeeps DEF Use

LEMMA ManageKeeps ==
    ASSUME CodeInv, NEW w \in Workers, NEW kind \in {"issue", "revoke", "inspect"},
           NEW a \in CodeActors, NEW c \in Codes \cup {Nobody}, Manage(w, kind, a, c),
           kind = "revoke" => c \in Codes
    PROVE  CodeInv'
BY BeginKeeps DEF Manage

LEMMA PreflightKeeps ==
    ASSUME CodeInv, NEW w \in Workers, Preflight(w)
    PROVE  CodeInv'
<1> DEFINE t == [tx[w] EXCEPT !.at = "hint"]
<1>1. tx[w] \in RequestType /\ RequestFits(tx[w]) /\ tx[w].at = "preflight"
    BY RequestIs DEF Preflight
<1>2. tx[w].op \in Operations /\ tx[w].code \in Codes
    BY <1>1 DEF RequestFits, CodeInv, CodeStateOK
<1>3. UNCHANGED <<now, active, row, saved, told>>
    BY DEF Preflight, Rest, Data
<1>4. CASE Replayed(w)
    BY <1>2, <1>3, <1>4, RequestEnds DEF Preflight, Replayed, Tells
<1>5. CASE ~ Replayed(w)
  <2>1. answers' = answers /\ (Goes(w, IdleRequest) \/ Goes(w, t))
      BY <1>5 DEF Preflight
  <2>2. t \in RequestType /\ t.at = "hint"
        /\ t.kind = tx[w].kind /\ t.actor = tx[w].actor /\ t.op = tx[w].op /\ t.code = tx[w].code
        /\ t.edit = tx[w].edit /\ t.reply = tx[w].reply /\ t.save = tx[w].save
        /\ t.excl = tx[w].excl /\ t.share = tx[w].share /\ t.group = tx[w].group
      BY <1>1 DEF RequestType
  <2> HIDE DEF t
  <2>3. RequestFits(t) /\ ~ MayConsume(t)
      BY <1>1, <2>2 DEF RequestFits, MayConsume
  <2>4. \A v \in Workers \ {w} : ~ Clash(t, tx[v]) /\ ~ Clash(tx[v], t)
      BY <1>1, <2>2, KeepsApart
  <2> QED
      BY <1>3, <2>1, <2>2, <2>3, <2>4, RequestChange, RequestEnds
<1> QED
    BY <1>4, <1>5

LEMMA HintKeeps ==
    ASSUME CodeInv, NEW w \in Workers, Hint(w)
    PROVE  CodeInv'
<1> DEFINE ids == {tx[w].actor, row[tx[w].code].actor}
           t == [tx[w] EXCEPT !.at = "actors", !.hint = tx[w].code, !.wanted = ids]
<1>1. tx[w] \in RequestType /\ RequestFits(tx[w]) /\ tx[w].at = "hint"
    BY RequestIs DEF Hint
<1>2. UNCHANGED <<now, active, row, saved, told, answers>>
    BY DEF Hint, Rest, Data
<1>3. tx[w].actor \in CodeActors /\ tx[w].code \in told /\ tx[w].code \in Codes
    BY <1>1 DEF RequestFits, CodeInv, CodeStateOK
<1>4. row[tx[w].code].state # "absent" /\ row[tx[w].code].actor \in CodeActors
    BY <1>3 DEF CodeInv, CodeStateOK, RowsFit, RowFits
<1>5. Goes(w, t)
  <2>1. {tx[w].actor} \cup {row[tx[w].code].actor} = ids
      OBVIOUS
  <2> QED
      BY <1>4, <2>1 DEF Hint
<1>6. t \in RequestType /\ t.at = "actors" /\ t.hint = t.code
      /\ t.kind = tx[w].kind /\ t.actor = tx[w].actor /\ t.op = tx[w].op /\ t.code = tx[w].code
      /\ t.edit = tx[w].edit /\ t.reply = tx[w].reply /\ t.save = tx[w].save
      /\ t.excl = tx[w].excl /\ t.share = tx[w].share /\ t.group = tx[w].group
    BY <1>1, <1>3, <1>4 DEF RequestType
<1> HIDE DEF t
<1>7. RequestFits(t) /\ ~ MayConsume(t)
    BY <1>1, <1>6 DEF RequestFits, MayConsume
<1>8. \A v \in Workers \ {w} : ~ Clash(t, tx[v]) /\ ~ Clash(tx[v], t)
    BY <1>1, <1>6, KeepsApart
<1> QED
    BY <1>2, <1>5, <1>6, <1>7, <1>8, RequestChange

LEMMA LockActorKeeps ==
    ASSUME CodeInv, NEW w \in Workers, LockActor(w)
    PROVE  CodeInv'
<1>1. tx[w] \in RequestType /\ RequestFits(tx[w]) /\ tx[w].at = "actors"
    BY RequestIs DEF LockActor
<1>2. UNCHANGED <<now, active, row, saved, told, answers>>
    BY DEF LockActor, Rest, Data
<1>3. PICK a \in tx[w].wanted :
          /\ FreeToShare(w, a)
          /\ Goes(w, [tx[w] EXCEPT !.share = @ \cup {a}, !.wanted = @ \ {a}])
    BY DEF LockActor
<1> DEFINE t == [tx[w] EXCEPT !.share = @ \cup {a}, !.wanted = @ \ {a}]
<1>4. t \in RequestType /\ t.at = "actors" /\ t.hint = tx[w].hint
      /\ t.kind = tx[w].kind /\ t.actor = tx[w].actor /\ t.op = tx[w].op /\ t.code = tx[w].code
      /\ t.edit = tx[w].edit /\ t.reply = tx[w].reply /\ t.save = tx[w].save
      /\ t.excl = tx[w].excl /\ t.share = tx[w].share \cup {a} /\ t.group = tx[w].group
    BY <1>1 DEF RequestType
<1>5. Goes(w, t)
    BY <1>3
<1> HIDE DEF t
<1>6. RequestFits(t) /\ ~ MayConsume(t)
    BY <1>1, <1>4 DEF RequestFits, MayConsume
<1>7. \A v \in Workers \ {w} : ~ Clash(t, tx[v]) /\ ~ Clash(tx[v], t)
  <2> SUFFICES ASSUME NEW v \in Workers \ {w} PROVE ~ Clash(t, tx[v]) /\ ~ Clash(tx[v], t)
      OBVIOUS
  <2>1. ~ Clash(tx[w], tx[v]) /\ ~ Clash(tx[v], tx[w]) /\ a \notin tx[v].excl
      BY <1>3, RequestIs DEF FreeToShare
  <2> QED
      BY <1>1, <1>4, <2>1 DEF Clash
<1> QED
    BY <1>2, <1>4, <1>5, <1>6, <1>7, RequestChange

\* The same request at another step.
Same(t, u) ==
    /\ t.kind = u.kind /\ t.actor = u.actor /\ t.op = u.op /\ t.code = u.code
    /\ t.save = u.save /\ t.group = u.group

LEMMA OverIs ==
    ASSUME NEW r \in RowType, NEW state \in {"consumed", "revoked", "replaced"},
           NEW time \in 0 .. MaxTime, r.version = 1
    PROVE  /\ Over(r, state, time) \in RowType
           /\ Over(r, state, time).state = state /\ Over(r, state, time).actor = r.actor
           /\ Over(r, state, time).created = r.created
           /\ Over(r, state, time).terminal = time
           /\ Over(r, state, time).version = 2
<1>1. r.version + 1 = 2 /\ r.version + 1 \in 0 .. 2
    OBVIOUS
<1>2. Over(r, state, time) \in RowType
    BY <1>1 DEF RowType, Over
<1>3. Over(r, state, time).version = r.version + 1
    BY DEF RowType, Over
<1>4. /\ Over(r, state, time).state = state /\ Over(r, state, time).actor = r.actor
      /\ Over(r, state, time).created = r.created /\ Over(r, state, time).terminal = time
    BY DEF RowType, Over
<1> QED
    BY <1>1, <1>2, <1>3, <1>4

LEMMA ReplayKeeps ==
    ASSUME CodeInv, NEW w \in Workers, Replay(w)
    PROVE  CodeInv'
<1>1. tx[w] \in RequestType /\ RequestFits(tx[w]) /\ tx[w].at = "actors" /\ tx[w].kind = "use"
    BY RequestIs DEF Replay, RequestFits
<1>2. UNCHANGED <<now, active, row, saved, told, answers>>
    BY DEF Replay, Rest, Data
<1>3. tx[w].hint = tx[w].code /\ tx[w].code \in Codes /\ tx[w].code # Nobody
      /\ tx[w].edit = {} /\ tx[w].save = FALSE
    BY <1>1, CodeAssumption DEF RequestFits, CodeInv, CodeStateOK, RequestType
<1>4. CASE tx[w].actor \notin active
    BY <1>2, <1>4, RequestEnds DEF Replay
<1>5. CASE tx[w].actor \in active /\ Replayed(w)
  <2> DEFINE t == [tx[w] EXCEPT !.at = "commit", !.reply = "created"]
  <2>1. Goes(w, t)
      BY <1>5 DEF Replay, Replies
  <2>2. t \in RequestType /\ Same(t, tx[w]) /\ t.at = "commit" /\ t.reply = "created"
        /\ t.edit = tx[w].edit /\ t.excl = tx[w].excl /\ t.share = tx[w].share
      BY <1>1 DEF RequestType, Same
  <2> HIDE DEF t
  <2>3. saved[t.op] = t.code
      BY <1>5, <2>2 DEF Replayed, Same
  <2>4. RequestFits(t) /\ ~ MayConsume(t)
      BY <1>1, <1>3, <2>2, <2>3 DEF RequestFits, UseEnds, MayConsume, Same
  <2>5. \A v \in Workers \ {w} : ~ Clash(t, tx[v]) /\ ~ Clash(tx[v], t)
      BY <1>1, <2>2, KeepsApart DEF Same
  <2> QED
      BY <1>2, <2>1, <2>2, <2>4, <2>5, RequestChange
<1>6. CASE tx[w].actor \in active /\ ~ Replayed(w) /\ Mismatch(w)
    BY <1>2, <1>6, RequestEnds DEF Replay
<1>7. CASE tx[w].actor \in active /\ ~ Replayed(w) /\ ~ Mismatch(w)
  <2> DEFINE t == [tx[w] EXCEPT !.at = "code"]
  <2>1. Goes(w, t)
      BY <1>3, <1>7 DEF Replay, Moves
  <2>2. t \in RequestType /\ Same(t, tx[w]) /\ t.at = "code" /\ t.reply = tx[w].reply
        /\ t.edit = tx[w].edit /\ t.excl = tx[w].excl /\ t.share = tx[w].share
      BY <1>1 DEF RequestType, Same
  <2> HIDE DEF t
  <2>4. RequestFits(t) /\ ~ MayConsume(t)
      BY <1>1, <1>3, <2>2 DEF RequestFits, MayConsume, Same
  <2>5. \A v \in Workers \ {w} : ~ Clash(t, tx[v]) /\ ~ Clash(tx[v], t)
      BY <1>1, <2>2, KeepsApart DEF Same
  <2> QED
      BY <1>2, <2>1, <2>2, <2>4, <2>5, RequestChange
<1> QED
    BY <1>4, <1>5, <1>6, <1>7

LEMMA LockCodeKeeps ==
    ASSUME CodeInv, NEW w \in Workers, LockCode(w)
    PROVE  CodeInv'
<1> DEFINE c == tx[w].code
           next == IF StateOf(row[c]) = "issued" THEN "bound" ELSE "deny"
           t == [tx[w] EXCEPT !.excl = @ \cup {c}, !.seen = row[c], !.from = row[c].created,
                              !.at = next]
<1>1. tx[w] \in RequestType /\ RequestFits(tx[w]) /\ tx[w].at = "code" /\ tx[w].kind = "use"
    BY RequestIs DEF LockCode, RequestFits
<1>2. Goes(w, t) /\ UNCHANGED <<now, active, row, saved, told, answers>>
    BY DEF LockCode, Rest, Data
<1>3. c \in told /\ c \in Codes /\ row[c].state # "absent" /\ row[c] \in RowType
      /\ tx[w].edit = {} /\ tx[w].save = FALSE
    BY <1>1 DEF RequestFits, CodeInv, CodeStateOK, RequestType
<1>10. next \in {"bound", "deny"} /\ row[c].created \in 0 .. MaxTime
    BY <1>3 DEF RowType
<1> HIDE DEF next
<1>4. t \in RequestType /\ Same(t, tx[w]) /\ t.at = next /\ t.seen = row[c]
      /\ t.reply = tx[w].reply /\ t.edit = tx[w].edit
      /\ t.excl = tx[w].excl \cup {c} /\ t.share = tx[w].share
    BY <1>1, <1>3, <1>10 DEF RequestType, Same
<1> HIDE DEF t
<1>5. next = "bound" => row[c].state = "issued" /\ ~ IsOver(c)
    BY DEF StateOf, IsOver, next
<1>6. next = "deny" => IsOver(c)
    BY <1>3 DEF IsOver, next
<1>7. RequestFits(t)
    BY <1>1, <1>3, <1>4, <1>5, <1>6, <1>10 DEF RequestFits, Same
<1>8. MayConsume(t) => ~ IsOver(t.code)
    BY <1>3, <1>4, <1>5, <1>6, <1>10 DEF MayConsume, Same
<1>9. \A v \in Workers \ {w} : ~ Clash(t, tx[v]) /\ ~ Clash(tx[v], t)
  <2> SUFFICES ASSUME NEW v \in Workers \ {w} PROVE ~ Clash(t, tx[v]) /\ ~ Clash(tx[v], t)
      OBVIOUS
  <2>1. ~ Clash(tx[w], tx[v]) /\ ~ Clash(tx[v], tx[w]) /\ c \notin tx[v].excl \cup tx[v].share
      BY RequestIs DEF FreeToLock, LockCode
  <2> QED
      BY <1>1, <1>4, <2>1 DEF Clash, Same
<1> QED
    BY <1>2, <1>4, <1>7, <1>8, <1>9, RequestChange

LEMMA DenyKeeps ==
    ASSUME CodeInv, NEW w \in Workers, Deny(w)
    PROVE  CodeInv'
<1> DEFINE reply == IF Replayed(w) THEN "created" ELSE "denied"
           t == [tx[w] EXCEPT !.at = "commit", !.reply = reply]
<1>1. tx[w] \in RequestType /\ RequestFits(tx[w]) /\ tx[w].at = "deny" /\ tx[w].kind = "use"
    BY RequestIs DEF Deny, RequestFits
<1>2. UNCHANGED <<now, active, row, saved, told, answers>>
    BY DEF Deny, Rest, Data
<1>3. tx[w].edit = {} /\ tx[w].save = FALSE /\ tx[w].code \in tx[w].excl /\ IsOver(tx[w].code)
    BY <1>1 DEF RequestFits, RequestType
<1>4. Goes(w, AfterFailure(w)) \/ Goes(w, t)
    BY DEF Deny, Replies
<1>9. reply \in {"created", "denied"}
    OBVIOUS
<1>10. reply = "created" <=> saved[tx[w].op] = tx[w].code
    BY DEF Replayed
<1> HIDE DEF reply
<1>5. t \in RequestType /\ Same(t, tx[w]) /\ t.at = "commit" /\ t.reply = reply
      /\ t.edit = tx[w].edit /\ t.excl = tx[w].excl /\ t.share = tx[w].share
    BY <1>1, <1>9 DEF RequestType, Same
<1> HIDE DEF t
<1>6. UseEnds(t)
    BY <1>3, <1>5, <1>9, <1>10 DEF UseEnds, Same
<1>7. RequestFits(t) /\ ~ MayConsume(t)
    BY <1>1, <1>3, <1>5, <1>6 DEF RequestFits, MayConsume, Same
<1>8. \A v \in Workers \ {w} : ~ Clash(t, tx[v]) /\ ~ Clash(tx[v], t)
    BY <1>1, <1>5, KeepsApart DEF Same
<1> QED
    BY <1>2, <1>4, <1>5, <1>7, <1>8, RequestChange, RequestEnds

LEMMA StageKeeps ==
    ASSUME CodeInv, NEW w \in Workers, Stage(w)
    PROVE  CodeInv'
<1> DEFINE t == [tx[w] EXCEPT !.at = "staged", !.group = TRUE, !.save = TRUE]
<1>1. tx[w] \in RequestType /\ RequestFits(tx[w]) /\ tx[w].at = "bound" /\ tx[w].kind = "use"
    BY RequestIs DEF Stage, RequestFits
<1>2. UNCHANGED <<now, active, row, saved, told, answers>>
    BY DEF Stage, Rest, Data
<1>3. CASE saved[tx[w].op] # Nobody
    BY <1>2, <1>3, RequestEnds DEF Stage
<1>4. CASE saved[tx[w].op] = Nobody
  <2>1. Goes(w, t)
      BY <1>4 DEF Stage
  <2>2. t \in RequestType /\ t.at = "staged" /\ t.seen = tx[w].seen
        /\ t.reply = tx[w].reply /\ t.edit = tx[w].edit /\ t.group /\ t.save
        /\ t.kind = tx[w].kind /\ t.actor = tx[w].actor /\ t.op = tx[w].op /\ t.code = tx[w].code
        /\ t.excl = tx[w].excl /\ t.share = tx[w].share
      BY <1>1 DEF RequestType
  <2> HIDE DEF t
  <2>3. RequestFits(t)
      BY <1>1, <1>4, <2>2 DEF RequestFits
  <2>4. MayConsume(tx[w]) /\ t.code = tx[w].code
      BY <1>1, <2>2 DEF MayConsume
  <2>5. \A v \in Workers \ {w} : ~ Clash(t, tx[v]) /\ ~ Clash(tx[v], t)
    <3> SUFFICES ASSUME NEW v \in Workers \ {w} PROVE ~ Clash(t, tx[v]) /\ ~ Clash(tx[v], t)
        OBVIOUS
    <3>1. ~ Clash(tx[w], tx[v]) /\ ~ Clash(tx[v], tx[w]) /\ ~ tx[v].group
        BY RequestIs DEF Stage
    <3> QED
        BY <1>1, <2>2, <3>1 DEF Clash
  <2> QED
      BY <1>2, <2>1, <2>2, <2>3, <2>4, <2>5, RequestChange
<1> QED
    BY <1>3, <1>4

LEMMA ConsumeKeeps ==
    ASSUME CodeInv, NEW w \in Workers, Consume(w)
    PROVE  CodeInv'
<1> DEFINE c == tx[w].code
           r == tx[w].seen
           t == [tx[w] EXCEPT !.edit = {<<c, Ended(r, "consumed")>>}, !.until = Expiry(r),
                              !.at = "commit", !.reply = "created"]
<1>1. tx[w] \in RequestType /\ RequestFits(tx[w]) /\ tx[w].at = "staged" /\ tx[w].kind = "use"
    BY RequestIs DEF Consume, RequestFits
<1>2. UNCHANGED <<now, active, row, saved, told, answers>>
    BY DEF Consume, Rest, Data
<1>3. c \in Codes /\ c \in tx[w].excl /\ r = row[c] /\ row[c].state = "issued"
      /\ tx[w].save /\ tx[w].group /\ r \in RowType /\ RowFits(r) /\ saved[tx[w].op] = Nobody
    BY <1>1 DEF RequestFits, CodeInv, CodeStateOK, RowsFit
<1>4. CASE Goes(w, AfterFailure(w))
    BY <1>2, <1>4, RequestEnds
<1>5. CASE StateOf(r) = "issued" /\ Goes(w, t)
  <2>1. now \in Nat /\ now <= MaxTime /\ r.created \in Nat /\ r.created <= now /\ now < Expiry(r)
        /\ r.version = 1 /\ Expiry(r) \in Nat
      BY <1>3, <1>5, CodeAssumption
         DEF StateOf, RowFits, CodeInv, CodeStateOK, RowType, Expiry
  <2>9. Ended(r, "consumed") = Over(r, "consumed", now)
      BY DEF Ended, Over
  <2>2. Ended(r, "consumed") \in RowType
      BY <1>3, <2>1, <2>9, OverIs
  <2>3. t \in RequestType /\ t.at = "commit" /\ t.reply = "created"
        /\ t.edit = {<<c, Ended(r, "consumed")>>}
        /\ t.kind = tx[w].kind /\ t.actor = tx[w].actor /\ t.op = tx[w].op /\ t.code = c
        /\ t.save = tx[w].save /\ t.group = tx[w].group
        /\ t.excl = tx[w].excl /\ t.share = tx[w].share
    <3>1. {<<c, Ended(r, "consumed")>>} \subseteq Codes \X RowType
        BY <1>3, <2>2
    <3> HIDE DEF c, r
    <3> QED
        BY <1>1, <2>1, <3>1 DEF RequestType, c
  <2> HIDE DEF t
  <2>4. EndsRow(t, t.code, "consumed", now)
      BY <1>3, <2>1, <2>3, <2>9 DEF EndsRow
  <2>5. UseEnds(t)
      BY <1>3, <2>1, <2>3, <2>4 DEF UseEnds
  <2>6. RequestFits(t)
      BY <1>1, <1>3, <2>3, <2>5 DEF RequestFits
  <2>7. MayConsume(tx[w])
      BY <1>3 DEF MayConsume
  <2>8. \A v \in Workers \ {w} : ~ Clash(t, tx[v]) /\ ~ Clash(tx[v], t)
      BY <1>1, <2>3, KeepsApart
  <2> QED
      BY <1>2, <1>5, <2>3, <2>6, <2>7, <2>8, RequestChange
<1> QED
    BY <1>4, <1>5 DEF Consume

LEMMA RecoverKeeps ==
    ASSUME CodeInv, NEW w \in Workers, Recover(w)
    PROVE  CodeInv'
<1>1. tx[w].op \in Operations /\ tx[w].code \in Codes
    BY RequestIs DEF Recover, RequestFits, CodeInv, CodeStateOK
<1>2. UNCHANGED <<now, active, row, saved, told>>
    BY DEF Recover, Rest, Data
<1> QED
    BY <1>1, <1>2, RequestEnds DEF Recover, Replayed, Tells

LEMMA FailRequestKeeps ==
    ASSUME CodeInv, NEW w \in Workers, FailRequest(w)
    PROVE  CodeInv'
BY RequestEnds DEF FailRequest, Rest, Data

LEMMA SendCommitKeeps ==
    ASSUME CodeInv, NEW w \in Workers, SendCommit(w)
    PROVE  CodeInv'
<1> DEFINE t == [tx[w] EXCEPT !.at = "sent"]
<1>1. tx[w] \in RequestType /\ RequestFits(tx[w]) /\ tx[w].at = "commit"
    BY RequestIs DEF SendCommit
<1>2. UNCHANGED <<now, active, row, saved, told, answers>>
      /\ (Goes(w, t) \/ Goes(w, AfterFailure(w)))
    BY DEF SendCommit, Rest, Data
<1>3. t \in RequestType /\ Same(t, tx[w]) /\ t.at = "sent" /\ t.reply = tx[w].reply
      /\ t.edit = tx[w].edit /\ t.excl = tx[w].excl /\ t.share = tx[w].share
      /\ t.from = tx[w].from
    BY <1>1 DEF RequestType, Same
<1> HIDE DEF t
<1>4. UseEnds(tx[w]) => UseEnds(t)
    BY <1>3 DEF UseEnds, EndsRow, Same
<1>5. IssueEnds(tx[w]) => IssueEnds(t)
    BY <1>3 DEF IssueEnds, Same
<1>6. RevokeEnds(tx[w]) => RevokeEnds(t)
    BY <1>3 DEF RevokeEnds, EndsRow, Same
<1>7. InspectEnds(tx[w]) => InspectEnds(t)
    BY <1>3 DEF InspectEnds, Same
<1>8. RequestFits(t)
    BY <1>1, <1>3, <1>4, <1>5, <1>6, <1>7 DEF RequestFits, Same
<1>9. MayConsume(t) => MayConsume(tx[w]) /\ t.code = tx[w].code
    BY <1>3 DEF MayConsume, Same
<1>10. \A v \in Workers \ {w} : ~ Clash(t, tx[v]) /\ ~ Clash(tx[v], t)
    BY <1>1, <1>3, KeepsApart DEF Same
<1> QED
    BY <1>2, <1>3, <1>8, <1>9, <1>10, RequestChange, RequestEnds

LEMMA ManageLockKeeps ==
    ASSUME CodeInv, NEW w \in Workers, ManageLock(w) \/ InspectLock(w)
    PROVE  CodeInv'
<1>1. tx[w] \in RequestType /\ RequestFits(tx[w]) /\ tx[w].at = "manage"
    BY RequestIs DEF ManageLock, InspectLock
<1>2. UNCHANGED <<now, active, row, saved, told, answers>>
    BY DEF ManageLock, InspectLock, Rest, Data
<1>3. /\ tx[w].kind \in {"issue", "revoke", "inspect"} /\ tx[w].actor \in CodeActors
      /\ tx[w].edit = {} /\ tx[w].reply = "none" /\ tx[w].save = FALSE
    BY <1>1 DEF RequestFits, RequestType
<1>4. CASE tx[w].actor \notin active
    BY <1>2, <1>4, RequestEnds DEF ManageLock, InspectLock
<1>5. CASE tx[w].actor \in active /\ ManageLock(w)
  <2> DEFINE t == [tx[w] EXCEPT !.at = "read", !.excl = {tx[w].actor}]
  <2>1. Goes(w, t)
      BY <1>5 DEF ManageLock
  <2>2. t \in RequestType /\ Same(t, tx[w]) /\ t.at = "read" /\ t.reply = tx[w].reply
        /\ t.edit = tx[w].edit /\ t.excl = {tx[w].actor} /\ t.share = tx[w].share
      BY <1>1, <1>3 DEF RequestType, Same
  <2> HIDE DEF t
  <2>3. RequestFits(t) /\ ~ MayConsume(t)
      BY <1>1, <1>3, <2>2 DEF RequestFits, MayConsume, Same
  <2>4. \A v \in Workers \ {w} : ~ Clash(t, tx[v]) /\ ~ Clash(tx[v], t)
    <3> SUFFICES ASSUME NEW v \in Workers \ {w} PROVE ~ Clash(t, tx[v]) /\ ~ Clash(tx[v], t)
        OBVIOUS
    <3>1. ~ Clash(tx[w], tx[v]) /\ ~ Clash(tx[v], tx[w])
          /\ tx[w].actor \notin tx[v].excl \cup tx[v].share
        BY <1>5, RequestIs DEF FreeToLock, ManageLock
    <3> QED
        BY <1>1, <2>2, <3>1 DEF Clash, Same
  <2> QED
      BY <1>2, <2>1, <2>2, <2>3, <2>4, RequestChange
<1>6. CASE tx[w].actor \in active /\ InspectLock(w)
  <2> DEFINE t == [tx[w] EXCEPT !.at = "read", !.share = {tx[w].actor}]
  <2>1. Goes(w, t) /\ tx[w].kind = "inspect"
      BY <1>6 DEF InspectLock
  <2>2. t \in RequestType /\ Same(t, tx[w]) /\ t.at = "read" /\ t.reply = tx[w].reply
        /\ t.edit = tx[w].edit /\ t.share = {tx[w].actor} /\ t.excl = tx[w].excl
      BY <1>1, <1>3 DEF RequestType, Same
  <2> HIDE DEF t
  <2>3. RequestFits(t) /\ ~ MayConsume(t)
      BY <1>1, <1>3, <2>1, <2>2 DEF RequestFits, MayConsume, Same
  <2>4. \A v \in Workers \ {w} : ~ Clash(t, tx[v]) /\ ~ Clash(tx[v], t)
    <3> SUFFICES ASSUME NEW v \in Workers \ {w} PROVE ~ Clash(t, tx[v]) /\ ~ Clash(tx[v], t)
        OBVIOUS
    <3>1. ~ Clash(tx[w], tx[v]) /\ ~ Clash(tx[v], tx[w]) /\ tx[w].actor \notin tx[v].excl
        BY <1>6, RequestIs DEF FreeToShare, InspectLock
    <3> QED
        BY <1>1, <2>1, <2>2, <3>1 DEF Clash, Same
  <2> QED
      BY <1>2, <2>1, <2>2, <2>3, <2>4, RequestChange
<1> QED
    BY <1>4, <1>5, <1>6

LEMMA IssueKeeps ==
    ASSUME CodeInv, NEW w \in Workers, NEW c \in Codes, Issue(w, c)
    PROVE  CodeInv'
<1> DEFINE a == tx[w].actor
           old == IssuedOf(a)
           new == Row("issued", a, now, 0, 1)
           edit == {<<c, new>>} \cup {<<p, Over(row[p], "replaced", now)>> : p \in old}
           t == [tx[w] EXCEPT !.code = c, !.excl = @ \cup old, !.from = now,
                              !.until = Expiry(new), !.at = "commit", !.edit = edit]
<1>1. tx[w] \in RequestType /\ RequestFits(tx[w]) /\ tx[w].at = "read" /\ tx[w].kind = "issue"
    BY RequestIs DEF Issue
<1>2. UNCHANGED <<now, active, row, saved, told, answers>>
    BY DEF Issue, Rest, Data
<1>3. a \in CodeActors /\ a \in tx[w].excl /\ tx[w].save = FALSE /\ tx[w].reply = "none"
    BY <1>1 DEF RequestFits, RequestType
<1>4. now \in 0 .. MaxTime /\ row \in [Codes -> RowType] /\ RowsFit
    BY DEF CodeInv, CodeStateOK
<1>5. Goes(w, t)
  <2>1. {<<p, Ended(row[p], "replaced")>> : p \in old}
            = {<<p, Over(row[p], "replaced", now)>> : p \in old}
      BY DEF Ended, Over
  <2> QED
      BY <2>1 DEF Issue
<1>6. new \in RowType /\ Expiry(new) \in Nat
    BY <1>3, <1>4, CodeAssumption DEF Row, RowType, Expiry
<1>7. old \subseteq Codes /\ \A p \in old : row[p].state = "issued" /\ row[p].actor = a
    BY DEF IssuedOf
<1>8. \A p \in old : Over(row[p], "replaced", now) \in RowType
  <2> SUFFICES ASSUME NEW p \in old PROVE Over(row[p], "replaced", now) \in RowType
      OBVIOUS
  <2>1. row[p] \in RowType /\ row[p].version = 1
      BY <1>4, <1>7 DEF RowsFit, RowFits
  <2> QED
      BY <1>4, <2>1, OverIs
<1>9. edit \in SUBSET (Codes \X RowType)
    BY <1>6, <1>7, <1>8
<1> HIDE DEF edit, new, old
<1>10. /\ t \in RequestType /\ t.kind = tx[w].kind /\ t.actor = a /\ t.op = tx[w].op
       /\ t.code = c /\ t.save = tx[w].save /\ t.group = tx[w].group /\ t.reply = tx[w].reply
       /\ t.at = "commit" /\ t.edit = edit /\ t.from = now
       /\ t.excl = tx[w].excl \cup old /\ t.share = tx[w].share
    BY <1>1, <1>4, <1>6, <1>7, <1>9 DEF RequestType
<1> HIDE DEF t, a
<1>11. IssueEnds(t)
  <2>1. row[c].state = "absent"
      BY DEF Issue
  <2>2. now <= now
      BY <1>4
  <2> QED
      BY <1>1, <1>3, <1>10, <2>1, <2>2 DEF IssueEnds, edit, new, old
<1>12. RequestFits(t) /\ ~ MayConsume(t)
    BY <1>1, <1>3, <1>10, <1>11 DEF RequestFits, MayConsume
<1>13. \A v \in Workers \ {w} : ~ Clash(t, tx[v]) /\ ~ Clash(tx[v], t)
  <2> SUFFICES ASSUME NEW v \in Workers \ {w} PROVE ~ Clash(t, tx[v]) /\ ~ Clash(tx[v], t)
      OBVIOUS
  <2>1. ~ Clash(tx[w], tx[v]) /\ ~ Clash(tx[v], tx[w])
      BY RequestIs
  <2>2. \A p \in old : p \notin tx[v].excl \cup tx[v].share
      BY DEF Issue, FreeToLock, old, a
  <2>3. tx[v].kind = "issue" => tx[v].code # c
      BY DEF Issue
  <2> QED
      BY <1>1, <1>10, <2>1, <2>2, <2>3 DEF Clash
<1> QED
    BY <1>2, <1>5, <1>10, <1>12, <1>13, RequestChange

LEMMA RevokeKeeps ==
    ASSUME CodeInv, NEW w \in Workers, Revoke(w)
    PROVE  CodeInv'
<1> DEFINE c == tx[w].code
           r == row[c]
           t == [tx[w] EXCEPT !.excl = @ \cup {c}, !.from = now, !.until = Expiry(r),
                              !.at = "commit", !.edit = {<<c, Ended(r, "revoked")>>}]
           u == [tx[w] EXCEPT !.at = "commit"]
<1>1. tx[w] \in RequestType /\ RequestFits(tx[w]) /\ tx[w].at = "read" /\ tx[w].kind = "revoke"
    BY RequestIs DEF Revoke
<1>2. UNCHANGED <<now, active, row, saved, told, answers>>
    BY DEF Revoke, Rest, Data
<1>3. c \in Codes /\ tx[w].save = FALSE /\ tx[w].reply = "none" /\ tx[w].edit = {}
    BY <1>1 DEF RequestFits, RequestType
<1>4. now \in 0 .. MaxTime /\ r \in RowType /\ RowFits(r)
    BY <1>3 DEF CodeInv, CodeStateOK, RowsFit
<1>5. CASE Goes(w, u)
  <2>1. u \in RequestType /\ Same(u, tx[w]) /\ u.at = "commit" /\ u.reply = tx[w].reply
        /\ u.edit = tx[w].edit /\ u.share = tx[w].share /\ u.excl = tx[w].excl
      BY <1>1, <1>3 DEF RequestType, Same
  <2> HIDE DEF u
  <2>2. RequestFits(u) /\ ~ MayConsume(u)
      BY <1>1, <1>3, <2>1 DEF RequestFits, RevokeEnds, MayConsume, Same
  <2>3. \A v \in Workers \ {w} : ~ Clash(u, tx[v]) /\ ~ Clash(tx[v], u)
      BY <1>1, <2>1, KeepsApart DEF Same
  <2> QED
      BY <1>2, <1>5, <2>1, <2>2, <2>3, RequestChange
<1>6. CASE StateOf(r) = "issued" /\ Goes(w, t)
  <2>1. r.state = "issued" /\ now \in Nat /\ now <= MaxTime /\ r.created \in Nat
        /\ r.created <= now /\ now < Expiry(r) /\ r.version = 1 /\ Expiry(r) \in Nat
      BY <1>4, <1>6, CodeAssumption DEF StateOf, RowFits, RowType, Expiry
  <2>2. Ended(r, "revoked") = Over(r, "revoked", now)
      BY DEF Ended, Over
  <2>3. Over(r, "revoked", now) \in RowType
      BY <1>4, <2>1, OverIs
  <2>4. {<<c, Ended(r, "revoked")>>} \in SUBSET (Codes \X RowType)
      BY <1>3, <2>2, <2>3
  <2> DEFINE edit == {<<c, Ended(r, "revoked")>>}
  <2>5. edit = {<<c, Over(r, "revoked", now)>>}
      BY <2>2
  <2>6. edit \in SUBSET (Codes \X RowType)
      BY <2>4
  <2> HIDE DEF edit
  <2>7. Goes(w, [tx[w] EXCEPT !.excl = @ \cup {c}, !.from = now, !.until = Expiry(r),
                              !.at = "commit", !.edit = edit])
      BY <1>6 DEF edit
  <2> DEFINE s == [tx[w] EXCEPT !.excl = @ \cup {c}, !.from = now, !.until = Expiry(r),
                                !.at = "commit", !.edit = edit]
  <2>8. s \in RequestType /\ Same(s, tx[w]) /\ s.at = "commit" /\ s.reply = tx[w].reply
        /\ s.edit = edit /\ s.share = tx[w].share /\ s.excl = tx[w].excl \cup {c}
      BY <1>1, <1>3, <1>4, <2>1, <2>6 DEF RequestType, Same
  <2>13. Goes(w, s)
      BY <2>7
  <2> HIDE DEF s
  <2>9. EndsRow(s, s.code, "revoked", now)
      BY <1>3, <1>4, <2>1, <2>5, <2>8 DEF EndsRow, Same
  <2>10. RevokeEnds(s)
      BY <1>3, <2>1, <2>8, <2>9 DEF RevokeEnds, Same
  <2>11. RequestFits(s) /\ ~ MayConsume(s)
      BY <1>1, <1>3, <2>8, <2>10 DEF RequestFits, MayConsume, Same
  <2>12. \A v \in Workers \ {w} : ~ Clash(s, tx[v]) /\ ~ Clash(tx[v], s)
    <3> SUFFICES ASSUME NEW v \in Workers \ {w} PROVE ~ Clash(s, tx[v]) /\ ~ Clash(tx[v], s)
        OBVIOUS
    <3>1. ~ Clash(tx[w], tx[v]) /\ ~ Clash(tx[v], tx[w]) /\ c \notin tx[v].excl \cup tx[v].share
        BY RequestIs DEF FreeToLock, Revoke
    <3> QED
        BY <1>1, <2>8, <3>1 DEF Clash, Same
  <2> QED
      BY <1>2, <2>8, <2>11, <2>12, <2>13, RequestChange
<1> QED
    BY <1>5, <1>6 DEF Revoke

LEMMA InspectKeeps ==
    ASSUME CodeInv, NEW w \in Workers, Inspect(w)
    PROVE  CodeInv'
<1> DEFINE mine == {c \in Codes : row[c].actor = tx[w].actor}
           good == {c \in mine : StateOf(row[c]) = "issued"}
           c == CHOOSE c \in good : TRUE
           t == [tx[w] EXCEPT !.at = "commit", !.share = @ \cup mine]
           u == [tx[w] EXCEPT !.at = "commit", !.share = @ \cup mine, !.code = c, !.from = now,
                              !.until = Expiry(row[c]), !.reply = "issued"]
<1>1. tx[w] \in RequestType /\ RequestFits(tx[w]) /\ tx[w].at = "read" /\ tx[w].kind = "inspect"
    BY RequestIs DEF Inspect
<1>2. UNCHANGED <<now, active, row, saved, told, answers>>
    BY DEF Inspect, Rest, Data
<1>3. tx[w].save = FALSE /\ tx[w].reply = "none" /\ tx[w].edit = {}
    BY <1>1 DEF RequestFits, RequestType
<1>4. mine \in SUBSET Codes /\ \A v \in Workers \ {w} : mine \cap tx[v].excl = {}
    BY DEF Inspect, FreeToShare
<1>5. good = {} => Goes(w, t)
    BY DEF Inspect
<1>6. good # {} => Goes(w, u)
    BY DEF Inspect
<1>7. good # {} => c \in mine /\ StateOf(row[c]) = "issued"
    OBVIOUS
<1> HIDE DEF good, c, mine
<1>8. ASSUME NEW s \in RequestType, s.kind = "inspect", s.excl = tx[w].excl,
             s.share = tx[w].share \cup mine, s.group = tx[w].group
      PROVE  \A v \in Workers \ {w} : ~ Clash(s, tx[v]) /\ ~ Clash(tx[v], s)
  <2> SUFFICES ASSUME NEW v \in Workers \ {w} PROVE ~ Clash(s, tx[v]) /\ ~ Clash(tx[v], s)
      OBVIOUS
  <2>1. ~ Clash(tx[w], tx[v]) /\ ~ Clash(tx[v], tx[w])
      BY RequestIs
  <2> QED
      BY <1>4, <1>8, <2>1 DEF Clash
<1>9. CASE good = {}
  <2>1. t \in RequestType /\ Same(t, tx[w]) /\ t.at = "commit" /\ t.reply = tx[w].reply
        /\ t.edit = tx[w].edit /\ t.share = tx[w].share \cup mine /\ t.excl = tx[w].excl
      BY <1>1, <1>4 DEF RequestType, Same
  <2> HIDE DEF t
  <2>2. RequestFits(t) /\ ~ MayConsume(t)
      BY <1>1, <1>3, <2>1 DEF RequestFits, InspectEnds, MayConsume, Same
  <2> QED
      BY <1>1, <1>2, <1>5, <1>8, <1>9, <2>1, <2>2, RequestChange DEF Same
<1>10. CASE good # {}
  <2>1. c \in Codes /\ c \in mine /\ row[c].state = "issued" /\ row[c] \in RowType
        /\ now \in 0 .. MaxTime
      BY <1>4, <1>7, <1>10 DEF StateOf, CodeInv, CodeStateOK
  <2>2. Expiry(row[c]) \in Nat
      BY <2>1, CodeAssumption DEF Expiry, RowType
  <2>3. u \in RequestType /\ u.at = "commit" /\ u.reply = "issued" /\ u.code = c
        /\ u.kind = tx[w].kind /\ u.actor = tx[w].actor /\ u.save = tx[w].save
        /\ u.group = tx[w].group
        /\ u.edit = tx[w].edit /\ u.share = tx[w].share \cup mine /\ u.excl = tx[w].excl
      BY <1>1, <1>4, <2>1, <2>2 DEF RequestType
  <2> HIDE DEF u
  <2>4. RequestFits(u) /\ ~ MayConsume(u)
      BY <1>1, <1>3, <2>1, <2>3 DEF RequestFits, InspectEnds, MayConsume
  <2> QED
      BY <1>1, <1>2, <1>6, <1>8, <1>10, <2>3, <2>4, RequestChange
<1> QED
    BY <1>9, <1>10

\* Time passes, and actors are disabled.
LEMMA ClockKeeps ==
    ASSUME CodeInv, UNCHANGED <<row, saved, tx, told, answers>>,
           now' \in 0 .. MaxTime, now <= now', active' \subseteq active
    PROVE  CodeInv'
<1>1. CodeStateOK'
    BY DEF CodeInv, CodeStateOK
<1>2. now \in Nat /\ now' \in Nat /\ \A c \in Codes : row[c].created \in Nat
    BY DEF CodeInv, CodeStateOK, RowType
<1>3. RowsFit'
    BY <1>2 DEF CodeInv, RowsFit, RowFits
<1>4. OneIssued' /\ SavedFits' /\ RequestsExclude'
    BY DEF CodeInv, OneIssued, SavedFits, RequestsExclude
<1>5. \A c \in Codes : IsOver(c) => IsOver(c)'
  <2> SUFFICES ASSUME NEW c \in Codes, IsOver(c) PROVE IsOver(c)'
      OBVIOUS
  <2>1. row[c].created <= now /\ row[c].state # "absent" /\ Expiry(row[c]) \in Nat
      BY <1>2, CodeAssumption DEF IsOver, CodeInv, RowsFit, RowFits, Expiry
  <2> QED
      BY <1>2, <2>1 DEF IsOver, StateOf
<1>6. RequestsFit'
  <2> SUFFICES ASSUME NEW w \in Workers, NEW u, u = tx[w] PROVE RequestFits(u)'
      BY DEF RequestsFit
  <2>1. RequestFits(u) /\ u \in RequestType
      BY RequestIs
  <2>2. u.code \in told => u.code \in Codes
      BY DEF CodeInv, CodeStateOK
  <2>3. \A c, state : \A time \in 0 .. now : EndsRow(u, c, state, time) =>
            time \in 0 .. now' /\ EndsRow(u, c, state, time)'
      BY <1>2 DEF EndsRow
  <2>4. IssuedOf(u.actor)' = IssuedOf(u.actor)
      BY DEF IssuedOf
  <2>5. u.code \in Codes /\ UseEnds(u) => UseEnds(u)'
      BY <1>5, <2>3 DEF UseEnds
  <2>6. IssueEnds(u) => IssueEnds(u)'
      BY <1>2, <2>1, <2>4 DEF IssueEnds, RequestType
  <2>7. RevokeEnds(u) => RevokeEnds(u)'
      BY <2>3 DEF RevokeEnds
  <2>8. InspectEnds(u) => InspectEnds(u)'
      BY DEF InspectEnds
  <2> QED
      BY <1>5, <2>1, <2>2, <2>5, <2>6, <2>7, <2>8 DEF RequestFits
<1>7. AnswersFit'
  <2> SUFFICES ASSUME NEW e \in answers PROVE AnswerFits(e)'
      BY DEF AnswersFit
  <2>1. AnswerFits(e)
      BY DEF CodeInv, AnswersFit
  <2>2. e[3] \in Codes
      BY <2>1 DEF AnswerFits
  <2> QED
      BY <1>5, <2>1, <2>2 DEF AnswerFits
<1> QED
    BY <1>1, <1>3, <1>4, <1>6, <1>7 DEF CodeInv

LEMMA DisableKeeps ==
    ASSUME CodeInv, NEW a \in CodeActors, Disable(a)
    PROVE  CodeInv'
BY ClockKeeps DEF Disable, Rest, CodeInv, CodeStateOK

LEMMA TickKeeps ==
    ASSUME CodeInv, Tick
    PROVE  CodeInv'
<1>1. now \in 0 .. MaxTime /\ now < MaxTime /\ now' = now + 1
    BY DEF Tick, CodeInv, CodeStateOK
<1>2. now' \in 0 .. MaxTime /\ now <= now'
    BY <1>1, CodeAssumption
<1> QED
    BY <1>2, ClockKeeps DEF Tick, Data

-----------------------------------------------------------------------------
\* What a commit writes.
EndsSo(w, c, new) ==
    /\ c \in tx[w].excl /\ row[c].state = "issued"
    /\ \E time \in 0 .. now :
           \/ new = Over(row[c], "replaced", time) /\ tx[w].kind = "issue"
           \/ /\ row[c].created <= time /\ time < Expiry(row[c])
              /\ \/ new = Over(row[c], "revoked", time) /\ tx[w].kind = "revoke"
                 \/ new = Over(row[c], "consumed", time) /\ tx[w].save /\ c = tx[w].code

BeginsSo(w, c, new) ==
    /\ tx[w].kind = "issue" /\ c = tx[w].code /\ row[c].state = "absent"
    /\ new = Row("issued", tx[w].actor, tx[w].from, 0, 1) /\ tx[w].from <= now

LEMMA CommitWrites ==
    ASSUME CodeInv, NEW w \in Workers, tx[w].at = "sent", row' = Edited(w)
    PROVE  /\ \A c \in Codes : row'[c] = row[c] \/ EndsSo(w, c, row'[c]) \/ BeginsSo(w, c, row'[c])
           /\ tx[w].save => EndsSo(w, tx[w].code, row'[tx[w].code])
                            /\ row'[tx[w].code].state = "consumed"
           /\ tx[w].kind = "issue" =>
                  /\ tx[w].actor \in tx[w].excl /\ tx[w].code \in Codes
                  /\ BeginsSo(w, tx[w].code, row'[tx[w].code])
                  /\ \A p \in IssuedOf(tx[w].actor) : row'[p].state = "replaced"
<1> DEFINE t == tx[w]
<1>1. t \in RequestType /\ RequestFits(t) /\ now \in 0 .. MaxTime /\ row \in [Codes -> RowType]
    BY RequestIs DEF CodeInv, CodeStateOK
<1>2. \A c \in Codes :
          row'[c] = IF \E e \in t.edit : e[1] = c THEN (CHOOSE e \in t.edit : e[1] = c)[2] ELSE row[c]
    BY DEF Edited
<1>3. \A c \in Codes : row[c].state = "issued" => row[c] \in RowType /\ row[c].version = 1
    BY <1>1 DEF CodeInv, RowsFit, RowFits
<1> HIDE DEF t
<1>11. ASSUME NEW c \in Codes, NEW r, <<c, r>> \in t.edit,
              \A e \in t.edit : e[1] = c => e = <<c, r>>
       PROVE  row'[c] = r
  <2>1. (CHOOSE e \in t.edit : e[1] = c) = <<c, r>>
      BY <1>11
  <2> QED
      BY <1>2, <1>11, <2>1
<1>4. ASSUME NEW c \in Codes, NEW state \in {"consumed", "revoked"}, NEW time \in 0 .. now,
             EndsRow(t, c, state, time)
      PROVE  /\ \A d \in Codes \ {c} : row'[d] = row[d]
             /\ row'[c] = Over(row[c], state, time) /\ row'[c].state = state
             /\ c \in t.excl /\ row[c].state = "issued"
             /\ row[c].created <= time /\ time < Expiry(row[c])
  <2>1. t.edit = {<<c, Over(row[c], state, time)>>}
      BY <1>4 DEF EndsRow
  <2>2. \A d \in Codes : row'[d] = IF d = c THEN Over(row[c], state, time) ELSE row[d]
      BY <1>2, <1>11, <2>1
  <2>3. row[c].state = "issued"
      BY <1>4 DEF EndsRow
  <2>4. time \in 0 .. MaxTime
      BY <1>1, CodeAssumption
  <2>5. Over(row[c], state, time).state = state
      BY <1>3, <2>3, <2>4, OverIs
  <2> QED
      BY <1>4, <2>2, <2>5 DEF EndsRow
<1>5. t.edit = {} => \A c \in Codes : row'[c] = row[c]
    BY <1>2
<1>6. t = tx[w]
    BY DEF t
<1>7. CASE t.kind = "use"
  <2>1. UseEnds(t) /\ t.code \in Codes
      BY <1>1, <1>6, <1>7 DEF RequestFits, CodeInv, CodeStateOK
  <2>2. CASE t.save
    <3>1. PICK time \in 0 .. now : EndsRow(t, t.code, "consumed", time)
        BY <2>1, <2>2 DEF UseEnds
    <3>2. /\ \A d \in Codes \ {t.code} : row'[d] = row[d]
          /\ row'[t.code].state = "consumed"
          /\ EndsSo(w, t.code, row'[t.code])
        BY <1>4, <1>6, <2>1, <2>2, <3>1 DEF EndsSo
    <3> QED
        BY <1>6, <1>7, <3>2
  <2>3. CASE ~ t.save
      BY <1>5, <1>6, <1>7, <2>1, <2>3 DEF UseEnds
  <2> QED
      BY <2>2, <2>3
<1>8. CASE t.kind = "revoke"
  <2>1. RevokeEnds(t) /\ ~ t.save
      BY <1>1, <1>6, <1>8 DEF RequestFits
  <2>2. CASE t.edit = {}
      BY <1>5, <1>6, <1>8, <2>1, <2>2
  <2>3. CASE t.edit # {}
    <3>1. PICK time \in 0 .. now : EndsRow(t, t.code, "revoked", time)
        BY <2>1, <2>3 DEF RevokeEnds
    <3>2. t.code \in Codes
        BY <2>1, <2>3 DEF RevokeEnds
    <3>3. /\ \A d \in Codes \ {t.code} : row'[d] = row[d]
          /\ EndsSo(w, t.code, row'[t.code])
        BY <1>4, <1>6, <1>8, <3>1, <3>2 DEF EndsSo
    <3> QED
        BY <1>6, <1>8, <2>1, <3>3
  <2> QED
      BY <2>2, <2>3
<1>9. CASE t.kind \in {"inspect", "none"}
  <2>1. t.edit = {} /\ ~ t.save
      BY <1>1, <1>6, <1>9 DEF RequestFits, InspectEnds
  <2> QED
      BY <1>5, <1>6, <1>9, <2>1
<1>10. CASE t.kind = "issue"
  <2> DEFINE new == Row("issued", t.actor, t.from, 0, 1)
             old == IssuedOf(t.actor)
  <2>1. /\ t.code \in Codes /\ row[t.code].state = "absent"
        /\ t.actor \in t.excl /\ old \subseteq t.excl
        /\ t.edit = {<<t.code, new>>} \cup {<<p, Over(row[p], "replaced", t.from)>> : p \in old}
        /\ ~ t.save /\ t.from <= now
      BY <1>1, <1>6, <1>10 DEF RequestFits, IssueEnds
  <2>2. old \subseteq Codes /\ \A p \in old : row[p].state = "issued"
      BY DEF IssuedOf
  <2>3. t.code \notin old
      BY <2>1, <2>2
  <2>4. t.from \in 0 .. now /\ t.from \in 0 .. MaxTime
      BY <1>1, <2>1 DEF RequestType
  <2> HIDE DEF new, old
  <2>5. row'[t.code] = new
    <3>1. \A e \in t.edit : e[1] = t.code => e = <<t.code, new>>
        BY <2>1, <2>3
    <3> QED
        BY <1>11, <2>1, <3>1
  <2>6. \A p \in old : row'[p] = Over(row[p], "replaced", t.from)
    <3> SUFFICES ASSUME NEW p \in old PROVE row'[p] = Over(row[p], "replaced", t.from)
        OBVIOUS
    <3>1. \A e \in t.edit : e[1] = p => e = <<p, Over(row[p], "replaced", t.from)>>
        BY <2>1, <2>3
    <3>2. <<p, Over(row[p], "replaced", t.from)>> \in t.edit
        BY <2>1
    <3> QED
        BY <1>11, <2>2, <3>1, <3>2
  <2>7. \A c \in Codes \ (old \cup {t.code}) : row'[c] = row[c]
      BY <1>2, <2>1
  <2>8. \A p \in old : row'[p].state = "replaced" /\ EndsSo(w, p, row'[p])
    <3> SUFFICES ASSUME NEW p \in old PROVE row'[p].state = "replaced" /\ EndsSo(w, p, row'[p])
        OBVIOUS
    <3>1. Over(row[p], "replaced", t.from).state = "replaced"
        BY <1>3, <2>2, <2>4, OverIs
    <3> QED
        BY <1>6, <1>10, <2>1, <2>2, <2>4, <2>6, <3>1 DEF EndsSo
  <2>9. BeginsSo(w, t.code, row'[t.code])
      BY <1>6, <1>10, <2>1, <2>5 DEF BeginsSo, new
  <2> QED
      BY <1>6, <1>10, <2>1, <2>7, <2>8, <2>9 DEF old
<1> QED
    BY <1>1, <1>7, <1>8, <1>9, <1>10 DEF RequestType

\* A request whose transaction is over.
IsIdleOrRecovers(t) ==
    /\ t \in RequestType /\ RequestFits(t) /\ t.at \in {"idle", "recover"}
    /\ t.excl = {} /\ t.share = {} /\ t.group = FALSE /\ t.save = FALSE

LEMMA AfterCommitIs ==
    ASSUME CodeInv, NEW w \in Workers
    PROVE  IsIdleOrRecovers(IdleRequest) /\ IsIdleOrRecovers(AfterFailure(w))
<1>1. IsIdleOrRecovers(IdleRequest)
    BY IdleRequestFits DEF IsIdleOrRecovers, IdleRequest
<1>2. AfterFailure(w) \in RequestType /\ RequestFits(AfterFailure(w))
    BY FailureFits
<1>3. /\ AfterFailure(w).excl = {} /\ AfterFailure(w).share = {}
      /\ AfterFailure(w).group = FALSE /\ AfterFailure(w).save = FALSE
      /\ AfterFailure(w).at \in {"idle", "recover"}
    BY DEF AfterFailure, IdleRequest
<1> QED
    BY <1>1, <1>2, <1>3 DEF IsIdleOrRecovers

\* The rows and the stored operations after a commit.
LEMMA RowsAfterCommit ==
    ASSUME CodeInv, NEW w \in Workers, tx[w].at = "sent", Applies(w),
           UNCHANGED <<now, active>>
    PROVE  /\ row' \in [Codes -> RowType] /\ saved' \in [Operations -> Codes \cup {Nobody}]
           /\ RowsFit' /\ OneIssued' /\ SavedFits'
           /\ \A c \in Codes : row[c].state # "absent" => row'[c].state # "absent"
           /\ \A c \in Codes : IsOver(c) => IsOver(c)'
<1>1. tx[w] \in RequestType /\ RequestFits(tx[w]) /\ now \in 0 .. MaxTime /\ row \in [Codes -> RowType]
      /\ saved \in [Operations -> Codes \cup {Nobody}]
    BY RequestIs DEF CodeInv, CodeStateOK
<1>2. \A c \in Codes : row'[c] = row[c] \/ EndsSo(w, c, row'[c]) \/ BeginsSo(w, c, row'[c])
    BY CommitWrites DEF Applies
<1>3. tx[w].save => /\ tx[w].code \in Codes /\ tx[w].op \in Operations
                    /\ row[tx[w].code].state = "issued" /\ row'[tx[w].code].state = "consumed"
                    /\ saved' = [saved EXCEPT ![tx[w].op] = tx[w].code]
                    /\ saved[tx[w].op] = Nobody
    BY <1>1, CommitWrites DEF EndsSo, Applies, RequestFits, CodeInv, CodeStateOK
<1>4. ~ tx[w].save => saved' = saved
    BY DEF Applies
<1>5. \A c \in Codes : row[c].state = "issued" => row[c].version = 1
    BY DEF CodeInv, RowsFit, RowFits
<1>6. \A c \in Codes : RowFits(row[c])
    BY DEF CodeInv, RowsFit
<1>7. ASSUME NEW c \in Codes, EndsSo(w, c, row'[c])
      PROVE  /\ row'[c] \in RowType /\ RowFits(row'[c])
             /\ row'[c].state \in {"consumed", "revoked", "replaced"}
             /\ row[c].state = "issued"
             /\ row'[c].state = "consumed" => tx[w].save /\ c = tx[w].code
  <2>1. row[c].state = "issued" /\ row[c] \in RowType /\ row[c].version = 1 /\ RowFits(row[c])
      BY <1>1, <1>5, <1>6, <1>7 DEF EndsSo
  <2>2. PICK time \in 0 .. now, state \in {"consumed", "revoked", "replaced"} :
            /\ row'[c] = Over(row[c], state, time)
            /\ state \in {"consumed", "revoked"} => row[c].created <= time /\ time < Expiry(row[c])
            /\ state = "consumed" => tx[w].save /\ c = tx[w].code
      BY <1>7 DEF EndsSo
  <2>3. time \in 0 .. MaxTime
      BY <1>1, CodeAssumption
  <2>4. /\ row'[c] \in RowType /\ row'[c].state = state /\ row'[c].actor = row[c].actor
        /\ row'[c].created = row[c].created /\ row'[c].terminal = time /\ row'[c].version = 2
      BY <2>1, <2>2, <2>3, OverIs
  <2> QED
      BY <2>1, <2>2, <2>4 DEF RowFits, Expiry
<1>8. ASSUME NEW c \in Codes, BeginsSo(w, c, row'[c])
      PROVE  /\ row'[c] \in RowType /\ RowFits(row'[c]) /\ row'[c].state = "issued"
             /\ row'[c].actor = tx[w].actor
             /\ row[c].state = "absent" /\ tx[w].kind = "issue" /\ c = tx[w].code
  <2>1. tx[w].actor \in CodeActors /\ tx[w].from \in 0 .. MaxTime /\ tx[w].from <= now
      BY <1>1, <1>8 DEF BeginsSo, RequestFits, RequestType
  <2>2. row'[c] = Row("issued", tx[w].actor, tx[w].from, 0, 1)
      BY <1>8 DEF BeginsSo
  <2>3. row'[c] \in RowType
      BY <1>1, <2>1, <2>2, CodeAssumption DEF Row, RowType
  <2> QED
      BY <1>8, <2>1, <2>2, <2>3 DEF BeginsSo, Row, RowFits
<1>9. row' \in [Codes -> RowType]
  <2>1. \A c \in Codes : row'[c] \in RowType
      BY <1>1, <1>2, <1>7, <1>8
  <2> QED
      BY <2>1 DEF Applies, Edited
<1>10. saved' \in [Operations -> Codes \cup {Nobody}]
    BY <1>1, <1>3, <1>4
<1>11. RowsFit'
  <2>1. \A c \in Codes : RowFits(row'[c])
      BY <1>2, <1>6, <1>7, <1>8
  <2> QED
      BY <2>1 DEF RowsFit, RowFits
<1>12. OneIssued'
  <2> SUFFICES ASSUME NEW c \in Codes, NEW d \in Codes, row'[c].state = "issued",
                      row'[d].state = "issued", row'[c].actor = row'[d].actor
               PROVE  c = d
      BY DEF OneIssued
  <2>1. \A e \in {c, d} : row'[e] = row[e] \/ BeginsSo(w, e, row'[e])
      BY <1>2, <1>7
  <2>2. \A e \in {c, d}, f \in {c, d} : (BeginsSo(w, e, row'[e]) /\ row'[f] = row[f]) => FALSE
    <3> SUFFICES ASSUME NEW e \in {c, d}, NEW f \in {c, d}, BeginsSo(w, e, row'[e]),
                        row'[f] = row[f]
                 PROVE  FALSE
        OBVIOUS
    <3>1. tx[w].kind = "issue" /\ row[f].state = "issued" /\ row[f].actor = tx[w].actor
        BY <1>8
    <3>2. f \in IssuedOf(tx[w].actor)
        BY <3>1 DEF IssuedOf
    <3>3. row'[f].state = "replaced"
        BY <3>1, <3>2, CommitWrites DEF Applies
    <3> QED
        BY <3>3
  <2>3. CASE row'[c] = row[c] /\ row'[d] = row[d]
      BY <2>3 DEF CodeInv, OneIssued
  <2>4. CASE BeginsSo(w, c, row'[c]) /\ BeginsSo(w, d, row'[d])
      BY <1>8, <2>4
  <2> QED
      BY <2>1, <2>2, <2>3, <2>4
<1>13. SavedFits'
  <2>1. \A c \in Codes : row[c].state = "consumed" => row'[c] = row[c]
      BY <1>2, <1>7, <1>8
  <2>2. \A o \in Operations : saved[o] # Nobody => saved[o] \in Codes /\ row[saved[o]].state = "consumed"
      BY <1>1 DEF CodeInv, SavedFits
  <2>3. \A o \in Operations : saved'[o] # Nobody => row'[saved'[o]].state = "consumed"
      BY <1>1, <1>3, <1>4, <2>1, <2>2
  <2>4. \A o, p \in Operations : (saved'[o] # Nobody /\ saved'[o] = saved'[p]) => o = p
      BY <1>1, <1>3, <1>4, <2>2 DEF CodeInv, SavedFits
  <2>5. \A c \in Codes : row'[c].state = "consumed" => \E o \in Operations : saved'[o] = c
    <3> SUFFICES ASSUME NEW c \in Codes, row'[c].state = "consumed"
                 PROVE  \E o \in Operations : saved'[o] = c
        OBVIOUS
    <3>1. CASE row'[c] = row[c]
      <4>1. PICK o \in Operations : saved[o] = c
          BY <3>1 DEF CodeInv, SavedFits
      <4>2. saved'[o] = c
          BY <1>1, <1>3, <1>4, <4>1, CodeAssumption
      <4> QED
          BY <4>2
    <3>2. CASE EndsSo(w, c, row'[c])
      <4>1. tx[w].save /\ c = tx[w].code
          BY <1>7, <3>2
      <4> QED
          BY <1>1, <1>3, <4>1
    <3>3. CASE BeginsSo(w, c, row'[c])
        BY <1>8, <3>3
    <3> QED
        BY <1>2, <3>1, <3>2, <3>3
  <2> QED
      BY <2>3, <2>4, <2>5 DEF SavedFits
<1>14. \A c \in Codes : row[c].state # "absent" => row'[c].state # "absent"
    BY <1>2, <1>7, <1>8
<1>15. \A c \in Codes : IsOver(c) => IsOver(c)'
  <2> SUFFICES ASSUME NEW c \in Codes, IsOver(c) PROVE IsOver(c)'
      OBVIOUS
  <2>1. row'[c].state # "absent"
      BY <1>14 DEF IsOver
  <2>2. CASE row'[c] = row[c]
      BY <2>2 DEF IsOver, StateOf
  <2>3. CASE EndsSo(w, c, row'[c])
      BY <1>7, <2>1, <2>3 DEF IsOver, StateOf
  <2>4. CASE BeginsSo(w, c, row'[c])
      BY <1>8, <2>4 DEF IsOver
  <2> QED
      BY <1>2, <2>2, <2>3, <2>4
<1> QED
    BY <1>9, <1>10, <1>11, <1>12, <1>13, <1>14, <1>15

\* What another request knows of the rows outlasts a commit.
LEMMA OthersStillFit ==
    ASSUME CodeInv, NEW w \in Workers, tx[w].at = "sent", Applies(w),
           UNCHANGED <<now, active>>, told \subseteq told',
           NEW v \in Workers \ {w}, NEW u, u = tx[v]
    PROVE  RequestFits(u)'
<1>1. u \in RequestType /\ RequestFits(u) /\ ~ Clash(u, tx[w]) /\ ~ Clash(tx[w], u)
    BY RequestIs
<1>2. /\ tx[w] \in RequestType /\ RequestFits(tx[w])
      /\ saved \in [Operations -> Codes \cup {Nobody}] /\ told \subseteq Codes
    BY RequestIs DEF CodeInv, CodeStateOK
<1>3. \A c \in Codes : row'[c] = row[c] \/ EndsSo(w, c, row'[c]) \/ BeginsSo(w, c, row'[c])
    BY CommitWrites DEF Applies
<1>4. \A c \in Codes : IsOver(c) => IsOver(c)'
    BY RowsAfterCommit
<1>5. \A c \in Codes : (c \in u.excl \cup u.share /\ row[c].state # "absent") => row'[c] = row[c]
  <2> SUFFICES ASSUME NEW c \in Codes, c \in u.excl \cup u.share, row[c].state # "absent"
               PROVE  row'[c] = row[c]
      OBVIOUS
  <2>1. c \notin tx[w].excl
      BY <1>1 DEF Clash
  <2> QED
      BY <1>3, <2>1 DEF EndsSo, BeginsSo
<1>6. \/ saved' = saved
      \/ /\ tx[w].save /\ tx[w].op \in Operations /\ tx[w].code \in Codes /\ tx[w].group
         /\ saved[tx[w].op] = Nobody /\ tx[w].code \in tx[w].excl
         /\ saved' = [saved EXCEPT ![tx[w].op] = tx[w].code]
  <2>1. tx[w].save => tx[w].code \in tx[w].excl
      BY CommitWrites DEF Applies, EndsSo
  <2> QED
      BY <1>2, <2>1 DEF Applies, RequestFits
<1>7. u.kind = "use" => u.op \in Operations /\ u.code \in Codes /\ u.code # Nobody
    BY <1>1, <1>2, CodeAssumption DEF RequestFits
<1>8. u.kind = "use" /\ saved[u.op] = u.code => saved'[u.op] = u.code
    BY <1>2, <1>6, <1>7
<1>9. u.kind = "use" /\ u.code \in u.excl /\ saved[u.op] # u.code => saved'[u.op] # u.code
  <2>1. u.code \in u.excl => u.code \notin tx[w].excl
      BY <1>1 DEF Clash
  <2> QED
      BY <1>2, <1>6, <1>7, <2>1
<1>10. u.group => saved' = saved
    BY <1>1, <1>6 DEF Clash
<1>11. ASSUME NEW c \in Codes, NEW state, NEW time, EndsRow(u, c, state, time)
       PROVE  EndsRow(u, c, state, time)'
  <2>1. row'[c] = row[c]
      BY <1>5, <1>11 DEF EndsRow
  <2> QED
      BY <1>11, <2>1 DEF EndsRow
<1>12. u.kind = "use" /\ u.at \in {"commit", "sent"} => UseEnds(u)'
  <2>1. SUFFICES ASSUME u.kind = "use", u.at \in {"commit", "sent"} PROVE UseEnds(u)'
      OBVIOUS
  <2>2. UseEnds(u)
      BY <1>1, <2>1 DEF RequestFits
  <2>3. u.save => \E time \in 0 .. now' : EndsRow(u, u.code, "consumed", time)'
      BY <1>7, <1>11, <2>1, <2>2 DEF UseEnds
  <2> QED
      BY <1>4, <1>7, <1>8, <1>9, <2>1, <2>2, <2>3 DEF UseEnds
<1>13. u.kind = "revoke" /\ u.at \in {"commit", "sent"} => RevokeEnds(u)'
    BY <1>1, <1>11 DEF RequestFits, RevokeEnds
<1>14. u.kind = "inspect" /\ u.at \in {"commit", "sent"} => InspectEnds(u)'
  <2>1. SUFFICES ASSUME InspectEnds(u) PROVE InspectEnds(u)'
      BY <1>1 DEF RequestFits
  <2> QED
      BY <1>5, <2>1 DEF InspectEnds
<1>15. u.kind = "issue" /\ u.at \in {"commit", "sent"} => IssueEnds(u)'
  <2>1. SUFFICES ASSUME IssueEnds(u), u.kind = "issue", u.at \in {"commit", "sent"}
                 PROVE  IssueEnds(u)'
      BY <1>1 DEF RequestFits
  <2>2. u.code \in Codes /\ row[u.code].state = "absent" /\ u.actor \in u.excl
        /\ IssuedOf(u.actor) \subseteq u.excl
      BY <2>1 DEF IssueEnds
  <2>3. row'[u.code] = row[u.code]
    <3>1. ~ EndsSo(w, u.code, row'[u.code])
        BY <2>2 DEF EndsSo
    <3>2. ~ BeginsSo(w, u.code, row'[u.code])
        BY <1>1, <2>1 DEF BeginsSo, Clash
    <3> QED
        BY <1>3, <2>2, <3>1, <3>2
  <2>4. \A p \in IssuedOf(u.actor) : row'[p] = row[p]
      BY <1>5, <2>2 DEF IssuedOf
  <2>5. IssuedOf(u.actor)' \subseteq IssuedOf(u.actor)
    <3> SUFFICES ASSUME NEW p \in Codes, row'[p].actor = u.actor, row'[p].state = "issued"
                 PROVE  row[p].actor = u.actor /\ row[p].state = "issued"
        BY DEF IssuedOf
    <3>1. ~ EndsSo(w, p, row'[p])
      <4>1. SUFFICES ASSUME EndsSo(w, p, row'[p]) PROVE FALSE
          OBVIOUS
      <4>2. row[p] \in RowType /\ row[p].version = 1 /\ now \in 0 .. MaxTime
          BY <4>1 DEF EndsSo, CodeInv, CodeStateOK, RowsFit, RowFits
      <4>3. \A time \in 0 .. now : time \in 0 .. MaxTime
          BY <4>2, CodeAssumption
      <4>4. \A time \in 0 .. now, state \in {"consumed", "revoked", "replaced"} :
                Over(row[p], state, time).state = state
          BY <4>2, <4>3, OverIs
      <4> QED
          BY <4>1, <4>4 DEF EndsSo
    <3>2. ~ BeginsSo(w, p, row'[p])
      <4>1. SUFFICES ASSUME BeginsSo(w, p, row'[p]) PROVE FALSE
          OBVIOUS
      <4>2. row'[p].actor = tx[w].actor /\ tx[w].kind = "issue"
          BY <4>1 DEF BeginsSo, Row
      <4>3. tx[w].actor \in tx[w].excl
          BY <4>2, CommitWrites DEF Applies
      <4> QED
          BY <1>1, <2>2, <4>2, <4>3 DEF Clash
    <3> QED
        BY <1>3, <3>1, <3>2
  <2>6. IssuedOf(u.actor)' = IssuedOf(u.actor)
      BY <2>4, <2>5 DEF IssuedOf
  <2>7. {<<p, Over(row'[p], "replaced", u.from)>> : p \in IssuedOf(u.actor)}
            = {<<p, Over(row[p], "replaced", u.from)>> : p \in IssuedOf(u.actor)}
      BY <2>4
  <2> QED
      BY <2>1, <2>3, <2>6, <2>7 DEF IssueEnds
<1>16. u.at \in {"bound", "staged"} => row'[u.code] = row[u.code]
    BY <1>1, <1>5, <1>7 DEF RequestFits
<1>17. u.at = "deny" => IsOver(u.code)'
    BY <1>1, <1>4, <1>7 DEF RequestFits
<1>18. u.save => saved'[u.op] = Nobody
    BY <1>1, <1>10 DEF RequestFits
<1> QED
    BY <1>1, <1>12, <1>13, <1>14, <1>15, <1>16, <1>17, <1>18 DEF RequestFits

LEMMA CommitKeepsCodes ==
    ASSUME CodeInv, NEW w \in Workers, tx[w].at = "sent", Applies(w),
           UNCHANGED <<now, active>>,
           NEW t, IsIdleOrRecovers(t), Goes(w, t),
           told' = told \/ (tx[w].kind = "issue" /\ told' = told \cup {tx[w].code}),
           \/ answers' = answers
           \/ tx[w].kind = "use" /\ Tells(w, tx[w].reply)
    PROVE  CodeInv'
<1>1. /\ tx[w] \in RequestType /\ RequestFits(tx[w]) /\ now \in 0 .. MaxTime
      /\ saved \in [Operations -> Codes \cup {Nobody}] /\ told \subseteq Codes
      /\ active \subseteq CodeActors /\ tx \in [Workers -> RequestType]
    BY RequestIs DEF CodeInv, CodeStateOK
<1>2. /\ row' \in [Codes -> RowType] /\ saved' \in [Operations -> Codes \cup {Nobody}]
      /\ RowsFit' /\ OneIssued' /\ SavedFits'
      /\ \A c \in Codes : row[c].state # "absent" => row'[c].state # "absent"
      /\ \A c \in Codes : IsOver(c) => IsOver(c)'
    BY RowsAfterCommit
<1>3. \A v \in Workers : tx'[v] = IF v = w THEN t ELSE tx[v]
    BY <1>1 DEF Goes
<1>4. /\ told \subseteq told' /\ told' \subseteq Codes
      /\ \A c \in told' : row'[c].state # "absent"
  <2>1. \A c \in told : row'[c].state # "absent"
      BY <1>1, <1>2 DEF CodeInv, CodeStateOK
  <2>2. CASE told' = told
      BY <1>1, <2>1, <2>2
  <2>3. CASE tx[w].kind = "issue" /\ told' = told \cup {tx[w].code}
    <3>1. tx[w].code \in Codes /\ BeginsSo(w, tx[w].code, row'[tx[w].code])
        BY <2>3, CommitWrites DEF Applies
    <3>2. row'[tx[w].code] = Row("issued", tx[w].actor, tx[w].from, 0, 1)
        BY <3>1 DEF BeginsSo
    <3>3. row'[tx[w].code].state = "issued"
        BY <3>2 DEF Row
    <3> QED
        BY <1>1, <2>1, <2>3, <3>1, <3>3
  <2> QED
      BY <2>2, <2>3
<1>5. CodeStateOK'
  <2>1. tx' \in [Workers -> RequestType]
      BY <1>1 DEF Goes, IsIdleOrRecovers
  <2> QED
      BY <1>1, <1>2, <1>4, <2>1 DEF CodeStateOK
<1>6. RequestsFit'
  <2> SUFFICES ASSUME NEW v \in Workers, NEW u, u = tx'[v] PROVE RequestFits(u)'
      BY DEF RequestsFit
  <2>1. CASE v = w
    <3>1. u = t
        BY <1>3, <2>1
    <3> QED
        BY <1>4, <3>1 DEF IsIdleOrRecovers, RequestFits
  <2>2. CASE v # w
    <3>1. u = tx[v]
        BY <1>3, <2>2
    <3> QED
        BY <1>4, <2>2, <3>1, OthersStillFit
  <2> QED
      BY <2>1, <2>2
<1>7. RequestsExclude'
  <2> SUFFICES ASSUME NEW u \in Workers, NEW v \in Workers, u # v, Clash(tx'[u], tx'[v])
               PROVE  FALSE
      BY DEF RequestsExclude, Clash
  <2>1. \A s : ~ Clash(t, s) /\ ~ Clash(s, t)
      BY DEF IsIdleOrRecovers, Clash
  <2>2. u # w /\ v # w /\ Clash(tx[u], tx[v])
      BY <1>3, <2>1
  <2> QED
      BY <2>2 DEF CodeInv, RequestsExclude
<1>8. tx[w].save => tx[w].op \in Operations /\ tx[w].code \in Codes /\ saved[tx[w].op] = Nobody
    BY <1>1 DEF RequestFits
<1>9. ~ MayConsume(t)
    BY DEF IsIdleOrRecovers, MayConsume
<1>10. \A e \in answers : AnswerFits(e)'
  <2> SUFFICES ASSUME NEW e \in answers PROVE AnswerFits(e)'
      OBVIOUS
  <2>1. AnswerFits(e) /\ e[2] \in Operations /\ e[3] \in Codes
      BY DEF CodeInv, AnswersFit, AnswerFits
  <2>2. e[1] = "created" => saved'[e[2]] = e[3]
      BY <1>1, <1>8, <2>1, CodeAssumption DEF AnswerFits, Applies
  <2>3. e[1] = "denied" => saved'[e[2]] # e[3]
    <3>1. e[1] = "denied" /\ tx[w].save => tx[w].code # e[3]
        BY <2>1 DEF AnswerFits, MayConsume
    <3> QED
        BY <1>1, <1>8, <2>1, <3>1 DEF AnswerFits, Applies
  <2>4. e[1] = "denied" => \A v \in Workers : MayConsume(tx'[v]) => tx'[v].code # e[3]
      BY <1>3, <1>9, <2>1 DEF AnswerFits
  <2> QED
      BY <1>2, <2>1, <2>2, <2>3, <2>4 DEF AnswerFits, MayConsume
<1>11. ASSUME tx[w].kind = "use", NEW e, e = <<tx[w].reply, tx[w].op, tx[w].code>>
       PROVE  AnswerFits(e)'
  <2> DEFINE r == tx[w].reply
             o == tx[w].op
             c == tx[w].code
  <2>1. UseEnds(tx[w]) /\ o \in Operations /\ c \in Codes
      BY <1>1, <1>11 DEF RequestFits
  <2>2. r \in {"created", "denied"} /\ (r = "denied" => ~ tx[w].save)
      BY <2>1 DEF UseEnds
  <2>3. r = "created" => saved'[o] = c
      BY <1>1, <2>1 DEF UseEnds, Applies
  <2>4. r = "denied" => saved'[o] # c /\ c \in tx[w].excl
      BY <2>1, <2>2 DEF UseEnds, Applies
  <2>5. \A v \in Workers \ {w} : MayConsume(tx[v]) => tx[v].code \in tx[v].excl
    <3> SUFFICES ASSUME NEW v \in Workers \ {w}, MayConsume(tx[v]) PROVE tx[v].code \in tx[v].excl
        OBVIOUS
    <3>1. RequestFits(tx[v])
        BY RequestIs
    <3>2. CASE tx[v].at \in {"bound", "staged"}
        BY <3>1, <3>2 DEF RequestFits
    <3>3. CASE tx[v].at \notin {"bound", "staged"}
      <4>1. tx[v].save /\ UseEnds(tx[v])
          BY <3>1, <3>3 DEF MayConsume, RequestFits
      <4> QED
          BY <4>1 DEF UseEnds, EndsRow
    <3> QED
        BY <3>2, <3>3
  <2>6. c \in tx[w].excl => \A v \in Workers : MayConsume(tx'[v]) => tx'[v].code # c
      BY <1>3, <1>9, <2>5, RequestIs DEF Clash
  <2>7. /\ e[1] = r /\ e[2] = o /\ e[3] = c
        /\ e \in {"created", "denied"} \X Operations \X Codes
      BY <1>11, <2>1, <2>2
  <2>8. e[1] = "denied" => IsOver(e[3])'
    <3> SUFFICES ASSUME e[1] = "denied" PROVE IsOver(e[3])'
        OBVIOUS
    <3>1. r = "denied" /\ e[3] \in Codes
        BY <2>1, <2>7
    <3>2. IsOver(e[3])
        BY <2>1, <2>2, <2>7, <3>1 DEF UseEnds, IsOver
    <3> QED
        BY <1>2, <3>1, <3>2
  <2> QED
      BY <2>3, <2>4, <2>6, <2>7, <2>8 DEF AnswerFits, MayConsume
<1>12. AnswersFit'
    BY <1>10, <1>11 DEF AnswersFit, Tells
<1> QED
    BY <1>2, <1>5, <1>6, <1>7, <1>12 DEF CodeInv

LEMMA CommittedKeeps ==
    ASSUME CodeInv, NEW w \in Workers, Committed(w)
    PROVE  CodeInv'
<1>1. /\ tx[w].at = "sent" /\ Applies(w) /\ UNCHANGED <<now, active>> /\ Goes(w, IdleRequest)
      /\ told' = told \/ (tx[w].kind = "issue" /\ told' = told \cup {tx[w].code})
      /\ answers' = answers \/ (tx[w].kind = "use" /\ Tells(w, tx[w].reply))
    BY DEF Committed
<1>2. IsIdleOrRecovers(IdleRequest)
    BY AfterCommitIs
<1> QED
    BY <1>1, <1>2, CommitKeepsCodes

LEMMA LostKeeps ==
    ASSUME CodeInv, NEW w \in Workers, Lost(w)
    PROVE  CodeInv'
<1>1. /\ tx[w].at = "sent" /\ (Applies(w) \/ UNCHANGED <<row, saved>>)
      /\ UNCHANGED <<now, active, told, answers>> /\ Goes(w, AfterFailure(w))
    BY DEF Lost, Rest
<1>2. IsIdleOrRecovers(AfterFailure(w))
    BY AfterCommitIs
<1>3. CASE Applies(w)
  <2>1. PICK t : IsIdleOrRecovers(t) /\ Goes(w, t)
      BY <1>1, <1>2
  <2>2. UNCHANGED <<now, active>> /\ tx[w].at = "sent" /\ told' = told /\ answers' = answers
      BY <1>1
  <2> QED
      BY <1>3, <2>1, <2>2, CommitKeepsCodes
<1>4. CASE UNCHANGED <<row, saved>>
    BY <1>1, <1>4, RequestEnds
<1> QED
    BY <1>1, <1>3, <1>4

LEMMA CodeInvAtFirst == CodeInit => CodeInv
<1> SUFFICES ASSUME CodeInit PROVE CodeInv
    OBVIOUS
<1>1. NoRow \in RowType /\ NoRow.state = "absent" /\ NoRow.version = 0
    BY CodeAssumption DEF NoRow, Row, RowType
<1>2. CodeStateOK
    BY <1>1, IdleRequestFits, CodeAssumption DEF CodeInit, CodeStateOK
<1>3. RowsFit /\ OneIssued /\ SavedFits
    BY <1>1 DEF CodeInit, RowsFit, RowFits, OneIssued, SavedFits
<1>4. RequestsFit /\ RequestsExclude /\ AnswersFit
    BY IdleRequestFits DEF CodeInit, RequestsFit, RequestsExclude, AnswersFit
<1> QED
    BY <1>2, <1>3, <1>4 DEF CodeInv

LEMMA CodeStepKeeps ==
    ASSUME CodeInv, NEW w \in Workers, CodeStep(w)
    PROVE  CodeInv'
BY PreflightKeeps, HintKeeps, LockActorKeeps, ReplayKeeps, LockCodeKeeps, DenyKeeps, StageKeeps,
   ConsumeKeeps, RecoverKeeps, ManageLockKeeps, RevokeKeeps, InspectKeeps,
   IssueKeeps, SendCommitKeeps, CommittedKeeps DEF CodeStep

LEMMA CodeNextKeeps == CodeInv /\ [CodeNext]_codeVars => CodeInv'
<1> SUFFICES ASSUME CodeInv, [CodeNext]_codeVars PROVE CodeInv'
    OBVIOUS
<1>1. told \subseteq Codes /\ now \in 0 .. MaxTime
    BY DEF CodeInv, CodeStateOK
<1>2. ASSUME NEW w \in Workers,
             \/ CodeStep(w) \/ FailRequest(w) \/ Lost(w)
             \/ \E o \in Operations, c \in Codes : Use(w, o, c)
             \/ \E a \in CodeActors :
                    Manage(w, "issue", a, Nobody) \/ Manage(w, "inspect", a, Nobody)
             \/ \E a \in CodeActors, c \in told : Manage(w, "revoke", a, c)
      PROVE  CodeInv'
  <2>1. CASE CodeStep(w)
      BY <2>1, CodeStepKeeps
  <2>2. CASE FailRequest(w) \/ Lost(w)
      BY <2>2, FailRequestKeeps, LostKeeps
  <2>3. CASE \E o \in Operations, c \in Codes : Use(w, o, c)
      BY <2>3, UseKeeps
  <2>4. CASE \E a \in CodeActors :
                 Manage(w, "issue", a, Nobody) \/ Manage(w, "inspect", a, Nobody)
      BY <2>4, ManageKeeps
  <2>5. CASE \E a \in CodeActors, c \in told : Manage(w, "revoke", a, c)
      BY <1>1, <2>5, ManageKeeps
  <2> QED
      BY <1>2, <2>1, <2>2, <2>3, <2>4, <2>5
<1>3. CASE \E a \in CodeActors : Disable(a)
    BY <1>3, DisableKeeps
<1>4. CASE Tick
    BY <1>4, TickKeeps
<1>5. CASE UNCHANGED codeVars
    BY <1>1, <1>5, ClockKeeps DEF codeVars
<1> QED
    BY <1>2, <1>3, <1>4, <1>5 DEF CodeNext

LEMMA CodesAreOnceSpent == CodeInv => CodesAreSpentOnce
<1> SUFFICES ASSUME CodeInv PROVE CodesAreSpentOnce
    OBVIOUS
<1>1. \A w \in Workers : tx[w] \in RequestType /\ RequestFits(tx[w])
    BY RequestIs
<1>2. row \in [Codes -> RowType] /\ RowsFit /\ OneIssued /\ SavedFits
    BY DEF CodeInv, CodeStateOK
<1>3. CodeTypeOK
  <2>1. \A w \in Workers : tx[w].share \cup tx[w].excl \subseteq CodeActors \cup Codes
      BY <1>1 DEF RequestType
  <2> QED
      BY <1>2, <2>1 DEF CodeInv, CodeStateOK, RowType, CodeTypeOK
<1>4. OneIssuedPerActor
  <2> SUFFICES ASSUME NEW a \in CodeActors PROVE Cardinality(IssuedOf(a)) <= 1
      BY DEF OneIssuedPerActor
  <2>1. \A c, d \in IssuedOf(a) : c = d
      BY <1>2 DEF OneIssued, IssuedOf
  <2>2. CASE IssuedOf(a) = {}
      BY <2>2, FS_EmptySet
  <2>3. CASE IssuedOf(a) # {}
    <3>1. PICK c \in IssuedOf(a) : TRUE
        BY <2>3
    <3>2. IssuedOf(a) = {c}
        BY <2>1, <3>1
    <3>3. Cardinality({c}) = 1
        BY FS_Singleton
    <3> QED
        BY <3>2, <3>3
  <2> QED
      BY <2>2, <2>3
<1>5. ConsumedOnce
  <2> SUFFICES ASSUME NEW c \in Codes
               PROVE  Cardinality({o \in Operations : saved[o] = c})
                          = IF row[c].state = "consumed" THEN 1 ELSE 0
      BY DEF ConsumedOnce
  <2>1. c # Nobody
      BY CodeAssumption
  <2>2. CASE row[c].state = "consumed"
    <3>1. PICK o \in Operations : saved[o] = c
        BY <1>2, <2>2 DEF SavedFits
    <3>2. {p \in Operations : saved[p] = c} = {o}
        BY <1>2, <2>1, <3>1 DEF SavedFits
    <3> QED
        BY <2>2, <3>2, FS_Singleton
  <2>3. CASE row[c].state # "consumed"
    <3>1. {p \in Operations : saved[p] = c} = {}
        BY <1>2, <2>1, <2>3 DEF SavedFits
    <3> QED
        BY <2>3, <3>1, FS_EmptySet
  <2> QED
      BY <2>2, <2>3
<1>6. EndsInTime
    BY <1>2 DEF RowsFit, RowFits, EndsInTime, Expiry
<1>7. InspectIsCurrent
  <2> SUFFICES ASSUME NEW w \in Workers, tx[w].at = "sent", tx[w].reply = "issued"
               PROVE  row[tx[w].code].state = "issued"
      BY DEF InspectIsCurrent
  <2>1. tx[w].kind \in {"use", "issue", "revoke", "inspect"} /\ RequestFits(tx[w])
      BY <1>1 DEF RequestFits, RequestType
  <2>2. tx[w].kind = "inspect"
      BY <2>1 DEF RequestFits, UseEnds, IssueEnds, RevokeEnds
  <2> QED
      BY <2>1, <2>2 DEF RequestFits, InspectEnds
<1> QED
    BY <1>3, <1>4, <1>5, <1>6, <1>7 DEF CodesAreSpentOnce

LEMMA CodeInvAlways == CodeSpec => []CodeInv
BY CodeInvAtFirst, CodeNextKeeps, PTL DEF CodeSpec

\* However many of an actor's requests run at once, he never has two issued codes; a code is
\* consumed exactly when one stored invitation used it; it is consumed or revoked within its ten
\* minutes; and a code that an inspection reports as issued is issued when the report is committed.
THEOREM CodesAlwaysSpentOnce == CodeSpec => []CodesAreSpentOnce
BY CodeInvAlways, CodesAreOnceSpent, PTL

\* What a caller was told of his invitation stays true: one told as created is stored, and one that
\* was denied is not and never will be, though the same command ran twice at once, the answer of
\* a COMMIT was lost or the request was tried again.
THEOREM CodeAnswersAlwaysHold == CodeSpec => []AnswersHold
<1>1. CodeInv => AnswersHold
    BY DEF CodeInv, AnswersFit, AnswerFits, AnswersHold
<1> QED
    BY <1>1, CodeInvAlways, PTL

-----------------------------------------------------------------------------
(***************************************************************************)
(* Budgets of HTTP requests.  A count that a transaction has written is    *)
(* one more than the committed one, which nobody else can change before it *)
(* commits; a row is deleted only when its window is over.  So while a     *)
(* window runs no more requests were allowed against a slot than its row   *)
(* counts, and all of them under the key of the policy row.                *)
(***************************************************************************)
WorkerFits(r) ==
    /\ r.pc # "idle" => r.key \in Keys
    /\ r.task = "initialize" => r.pc \in {"insert", "lock", "commit"}
    /\ r.task = "reserve" => r.pc \in {"policy", "time", "global", "peer", "commit"} /\ r.peer \in Peers
    /\ r.task = "cleanup" => r.pc \in {"policy", "time", "delete", "commit"}
    /\ r.pc \in {"time", "global", "peer", "delete"} => r.task \in {"reserve", "cleanup"}
    /\ r.pc = "delete" => r.task = "cleanup"
    /\ r.pc \in {"global", "peer"} => r.task = "reserve"
    /\ r.pc = "time" \/ (r.pc \in {"global", "peer", "delete", "commit"} /\ r.task # "initialize") =>
           r.key = policy
    /\ r.pc = "idle" <=> r.task = "none"
    /\ r.pc \in {"insert", "lock"} => r.task = "initialize"
    /\ r.answer \in {"allowed", "limited"} => r.task = "reserve" /\ r.pc = "commit"
    /\ r.time <= rateNow

WorkersFit == \A r \in {worker[w] : w \in Connections} : WorkerFits(r)

\* What a transaction has written at a slot.
CountsOnce(r, d, s) ==
    /\ r.task = "reserve" /\ r.pc \in {"peer", "commit"}
    /\ s.key = r.key
    /\ d[s] = Incremented(Count(s), Limit(s.subject))
    /\ r.pc = "peer" \/ r.answer = "allowed" => d[s] <= Limit(s.subject)

Deletes(r, d, s) ==
    /\ r.task = "cleanup" /\ r.pc = "commit"
    /\ d[s] = 0 /\ WindowEnd(s) <= rateNow

WritesFit ==
    /\ DOMAIN writes = Connections
    /\ writes = [w \in Connections |-> writes[w]]
    /\ \A w \in Connections : \A s \in DOMAIN writes[w] :
           s \in Slots /\ (CountsOnce(worker[w], writes[w], s) \/ Deletes(worker[w], writes[w], s))
    /\ \A v, w \in Connections : \A s \in DOMAIN writes[v] \cap DOMAIN writes[w] : v = w

RowsCount == \A s \in DOMAIN rows : s \in Slots /\ rows[s] \in 1 .. Limit(s.subject) + 1

TalliesFit ==
    /\ \A s \in Slots : Times(counted, s) \in Nat /\ Count(s) <= Times(counted, s)
    /\ \A s \in Slots : Times(allowed, s) \in Nat /\ Times(late, s) \in Nat
    /\ \A s \in DOMAIN allowed : s \in Slots /\ s.key = policy
    /\ \A s \in Slots :
           /\ Times(allowed, s) - Times(late, s) <= Limit(s.subject)
           /\ rateNow < WindowEnd(s) => Times(allowed, s) - Times(late, s) <= Count(s)

RateInv ==
    /\ rateNow \in 0 .. MaxRateTime
    /\ policy \in Keys \cup {Unset}
    /\ worker \in [Connections -> Worker]
    /\ begun \in 0 .. MaxRateRequests
    /\ WorkersFit
    /\ WritesFit
    /\ RowsCount
    /\ TalliesFit
    /\ LimitedOnlyWhenSpent

-----------------------------------------------------------------------------
LEMMA SlotsAre ==
    /\ \A time \in 0 .. MaxRateTime : WindowOf(time) \in Int
    /\ \A s \in Slots : Limit(s.subject) \in Nat \ {0} /\ WindowEnd(s) \in Int /\ s.key # Unset
<1>1. \A time \in 0 .. MaxRateTime : WindowOf(time) \in Int
    BY RateAssumption DEF WindowOf
<1>2. \A s \in Slots : s.start \in Int /\ s.key \in Keys
    BY <1>1 DEF Slots, Starts
<1> QED
    BY <1>1, <1>2, RateAssumption DEF Limit, WindowEnd

LEMMA TalliesAre ==
    ASSUME NEW f, NEW S, NEW s, Times(f, s) \in Int
    PROVE  Times(OnceMore(f, S), s) = Times(f, s) + (IF s \in S THEN 1 ELSE 0)
BY DEF OnceMore, Times

\* Nothing is in the rows, the tallies or the clock that the workers could miss.
LEMMA WorkerChange ==
    ASSUME RateInv, NEW w \in Connections, NEW r \in Worker,
           worker' = [worker EXCEPT ![w] = r],
           writes' = writes \/ writes' = [writes EXCEPT ![w] = <<>>],
           UNCHANGED <<rateNow, policy, rows, counted, allowed, late>>,
           begun' \in 0 .. MaxRateRequests,
           WorkerFits(r),
           r.answer # "limited",
           writes' = writes => DOMAIN writes[w] = {}
    PROVE  RateInv'
<1>1. DOMAIN <<>> = {}
    OBVIOUS
<1>2. \A v \in Connections : worker'[v] = IF v = w THEN r ELSE worker[v]
    BY DEF RateInv
<1>3. \A v \in Connections : writes'[v] = IF v = w THEN writes'[w] ELSE writes[v]
    BY DEF RateInv, WritesFit
<1>4. DOMAIN writes'[w] = {}
    BY <1>1 DEF RateInv, WritesFit
<1>5. WorkersFit'
  <2>1. \A v \in Connections : WorkerFits(worker'[v])
      BY <1>2 DEF RateInv, WorkersFit
  <2> QED
      BY <2>1 DEF WorkersFit, WorkerFits
<1>6. WritesFit'
  <2>1. DOMAIN writes' = Connections /\ writes' = [v \in Connections |-> writes'[v]]
      BY DEF RateInv, WritesFit
  <2>2. \A v \in Connections : \A s \in DOMAIN writes'[v] :
            s \in Slots /\ (CountsOnce(worker[v], writes'[v], s) \/ Deletes(worker[v], writes'[v], s))
            /\ v # w
      BY <1>3, <1>4 DEF RateInv, WritesFit
  <2>3. \A v \in Connections : \A s \in DOMAIN writes'[v] :
            s \in Slots /\ (CountsOnce(worker[v], writes[v], s)' \/ Deletes(worker[v], writes[v], s)')
      BY <1>2, <2>2 DEF CountsOnce, Deletes, Count
  <2>4. \A u, v \in Connections : \A s \in DOMAIN writes'[u] \cap DOMAIN writes'[v] : u = v
      BY <1>3, <1>4 DEF RateInv, WritesFit
  <2> QED
      BY <2>1, <2>3, <2>4 DEF WritesFit
<1>7. RowsCount' /\ TalliesFit'
    BY DEF RateInv, RowsCount, TalliesFit, Count
<1>8. LimitedOnlyWhenSpent'
    BY <1>2 DEF RateInv, LimitedOnlyWhenSpent, Slot
<1>9. worker' \in [Connections -> Worker]
    BY DEF RateInv
<1> QED
    BY <1>5, <1>6, <1>7, <1>8, <1>9 DEF RateInv

LEMMA WorkerIs ==
    ASSUME RateInv, NEW w \in Connections
    PROVE  /\ worker[w] \in Worker /\ WorkerFits(worker[w])
           /\ worker[w].pc \notin {"peer", "commit"} => DOMAIN writes[w] = {}
           /\ IdleWorker \in Worker /\ WorkerFits(IdleWorker)
<1>1. worker[w] \in Worker /\ WorkerFits(worker[w])
    BY DEF RateInv, WorkersFit
<1>2. worker[w].pc \notin {"peer", "commit"} => DOMAIN writes[w] = {}
    BY DEF RateInv, WritesFit, CountsOnce, Deletes
<1>3. IdleWorker \in Worker
    BY RateAssumption DEF IdleWorker, Worker
<1>4. WorkerFits(IdleWorker)
    BY RateAssumption DEF IdleWorker, WorkerFits, RateInv
<1> QED
    BY <1>1, <1>2, <1>3, <1>4

LEMMA ReleaseKeeps ==
    ASSUME RateInv, NEW w \in Connections, Release(w),
           UNCHANGED <<rateNow, policy, rows, begun, counted, allowed, late>>
    PROVE  RateInv'
<1>1. IdleWorker.answer # "limited"
    BY DEF IdleWorker
<1>2. writes' = writes => DOMAIN writes[w] = {}
  <2>1. DOMAIN <<>> = {}
      OBVIOUS
  <2> QED
      BY <2>1 DEF Release, RateInv, WritesFit
<1> QED
    BY <1>1, <1>2, WorkerIs, WorkerChange DEF Release, RateInv

LEMMA BeginRateKeeps ==
    ASSUME RateInv, NEW w \in Connections, NEW key \in Keys, NEW peer \in Peers \cup {Unset},
           NEW task \in {"initialize", "reserve", "cleanup"}, NEW pc \in {"insert", "policy"},
           task = "initialize" <=> pc = "insert",
           task = "reserve" => peer \in Peers,
           Begin(w, task, pc, key, peer)
    PROVE  RateInv'
<1> DEFINE r == [IdleWorker EXCEPT !.pc = pc, !.task = task, !.key = key, !.peer = peer]
<1>1. r.pc = pc /\ r.task = task /\ r.key = key /\ r.peer = peer /\ r.time = 0 /\ r.answer = "none"
    BY DEF IdleWorker
<1>2. r \in Worker
  <2>1. IdleWorker \in Worker
      BY WorkerIs
  <2> QED
      BY <2>1 DEF Worker
<1>3. worker' = [worker EXCEPT ![w] = r] /\ writes' = writes /\ DOMAIN writes[w] = {}
    BY WorkerIs DEF Begin, IsAt
<1> HIDE DEF r
<1>4. WorkerFits(r)
    BY <1>1 DEF WorkerFits, RateInv
<1>5. begun' \in 0 .. MaxRateRequests
    BY RateAssumption DEF Begin, RateInv
<1> QED
    BY <1>1, <1>2, <1>3, <1>4, <1>5, WorkerChange DEF Begin

LEMMA RateFailKeeps ==
    ASSUME RateInv, NEW w \in Connections, FailRate(w)
    PROVE  RateInv'
BY ReleaseKeeps DEF FailRate

\* A worker goes on and writes nothing.
LEMMA GoesOnKeeps ==
    ASSUME RateInv, NEW w \in Connections, NEW pc, NEW answer \in {"none", "done"}, NEW time,
           worker' = [worker EXCEPT ![w] = [worker[w] EXCEPT !.pc = pc, !.answer = answer, !.time = time]],
           UNCHANGED <<rateNow, policy, rows, writes, begun, counted, allowed, late>>,
           worker[w].pc \notin {"idle", "peer", "commit"},
           pc \in {"lock", "time", "global", "delete", "commit"},
           time \in 0 .. rateNow,
           pc = "lock" => worker[w].task = "initialize",
           pc = "time" => worker[w].pc = "policy" /\ worker[w].key = policy,
           pc = "commit" => worker[w].task = "initialize" /\ worker[w].pc = "lock",
           pc = "global" => worker[w].task = "reserve" /\ worker[w].pc = "time",
           pc = "delete" => worker[w].task = "cleanup" /\ worker[w].pc = "time"
    PROVE  RateInv'
<1> DEFINE r == [worker[w] EXCEPT !.pc = pc, !.answer = answer, !.time = time]
<1>1. /\ worker[w] \in Worker /\ WorkerFits(worker[w]) /\ DOMAIN writes[w] = {}
      /\ rateNow \in 0 .. MaxRateTime
    BY WorkerIs DEF RateInv
<1>2. /\ r.pc = pc /\ r.task = worker[w].task /\ r.key = worker[w].key /\ r.peer = worker[w].peer
      /\ r.time = time /\ r.answer = answer
    BY <1>1 DEF Worker
<1>3. r \in Worker
  <2>1. time \in 0 .. MaxRateTime
      BY <1>1, RateAssumption
  <2> QED
      BY <1>1, <2>1 DEF Worker
<1> HIDE DEF r
<1>4. WorkerFits(r)
    BY <1>1, <1>2 DEF WorkerFits, Worker
<1>5. worker' = [worker EXCEPT ![w] = r]
    BY DEF r
<1> QED
    BY <1>1, <1>2, <1>3, <1>4, <1>5, WorkerChange DEF RateInv

LEMMA InsertPolicyKeeps ==
    ASSUME RateInv, NEW w \in Connections, InsertPolicy(w)
    PROVE  RateInv'
<1> DEFINE t == worker[w].time
           a == worker[w].answer
<1>1. worker[w] \in Worker /\ WorkerFits(worker[w]) /\ worker[w].pc = "insert"
    BY WorkerIs DEF InsertPolicy, IsAt
<1>2. worker[w].task = "initialize" /\ a \in {"none", "done"} /\ t \in 0 .. rateNow
    BY <1>1 DEF WorkerFits, Worker, RateInv
<1>3. worker' = [worker EXCEPT ![w] = [worker[w] EXCEPT !.pc = "lock", !.answer = a, !.time = t]]
    BY <1>1 DEF InsertPolicy, Goto, Worker, RateInv
<1> HIDE DEF a, t
<1> QED
    BY <1>1, <1>2, <1>3, GoesOnKeeps DEF InsertPolicy

LEMMA LockPolicyKeeps ==
    ASSUME RateInv, NEW w \in Connections, LockPolicy(w)
    PROVE  RateInv'
<1> DEFINE t == worker[w].time
<1>1. worker[w] \in Worker /\ WorkerFits(worker[w]) /\ worker[w].pc = "lock"
    BY WorkerIs DEF LockPolicy, IsAt
<1>2. worker[w].task = "initialize" /\ t \in 0 .. rateNow
    BY <1>1 DEF WorkerFits, Worker, RateInv
<1>3. CASE Release(w)
    BY <1>3, ReleaseKeeps DEF LockPolicy
<1>4. CASE Answering(w, "done") /\ UNCHANGED writes
  <2>1. worker' = [worker EXCEPT ![w] = [worker[w] EXCEPT !.pc = "commit", !.answer = "done", !.time = t]]
      BY <1>1, <1>4 DEF Answering, Worker, RateInv
  <2> HIDE DEF t
  <2> QED
      BY <1>1, <1>2, <1>4, <2>1, GoesOnKeeps DEF LockPolicy
<1> QED
    BY <1>3, <1>4 DEF LockPolicy, Checked

LEMMA CheckPolicyKeeps ==
    ASSUME RateInv, NEW w \in Connections, CheckPolicy(w)
    PROVE  RateInv'
<1> DEFINE t == worker[w].time
           a == worker[w].answer
<1>1. worker[w] \in Worker /\ WorkerFits(worker[w]) /\ worker[w].pc = "policy"
    BY WorkerIs DEF CheckPolicy, IsAt
<1>2. a \in {"none", "done"} /\ t \in 0 .. rateNow
    BY <1>1 DEF WorkerFits, Worker, RateInv
<1>3. CASE Release(w)
    BY <1>3, ReleaseKeeps DEF CheckPolicy
<1>4. CASE Goto(w, "time") /\ UNCHANGED writes /\ IsPolicy(w)
  <2>1. worker' = [worker EXCEPT ![w] = [worker[w] EXCEPT !.pc = "time", !.answer = a, !.time = t]]
      BY <1>1, <1>4 DEF Goto, Worker, RateInv
  <2> HIDE DEF a, t
  <2> QED
      BY <1>1, <1>2, <1>4, <2>1, GoesOnKeeps DEF CheckPolicy, IsPolicy
<1> QED
    BY <1>3, <1>4 DEF CheckPolicy, Checked

LEMMA ReadTimeKeeps ==
    ASSUME RateInv, NEW w \in Connections, ReadTime(w)
    PROVE  RateInv'
<1> DEFINE a == worker[w].answer
           pc == IF worker[w].task = "reserve" THEN "global" ELSE "delete"
<1>1. worker[w] \in Worker /\ WorkerFits(worker[w]) /\ worker[w].pc = "time"
    BY WorkerIs DEF ReadTime, IsAt
<1>2. /\ a \in {"none", "done"} /\ rateNow \in 0 .. rateNow
      /\ worker[w].task \in {"reserve", "cleanup"}
    BY <1>1 DEF WorkerFits, Worker, RateInv
<1>3. worker' = [worker EXCEPT ![w] = [worker[w] EXCEPT !.pc = pc, !.answer = a, !.time = rateNow]]
    BY <1>1 DEF ReadTime, Worker, RateInv
<1>4. /\ pc \in {"global", "delete"}
      /\ pc = "global" => worker[w].task = "reserve"
      /\ pc = "delete" => worker[w].task = "cleanup"
    BY <1>2
<1>5. UNCHANGED <<rateNow, policy, rows, writes, begun, counted, allowed, late>>
    BY DEF ReadTime
<1>6. PICK time : time = rateNow
    OBVIOUS
<1> HIDE DEF a, pc
<1> QED
    BY <1>1, <1>2, <1>3, <1>4, <1>5, <1>6, GoesOnKeeps

\* A worker writes rows that nobody else has written, and goes on.
LEMMA WorkerWrites ==
    ASSUME RateInv, NEW w \in Connections, NEW r \in Worker, NEW d,
           worker' = [worker EXCEPT ![w] = r],
           writes' = [writes EXCEPT ![w] = d],
           UNCHANGED <<rateNow, policy, rows, begun, counted, allowed, late>>,
           WorkerFits(r),
           \A s \in DOMAIN d :
               /\ s \in Slots /\ IsFree(w, s)
               /\ CountsOnce(r, d, s) \/ Deletes(r, d, s),
           r.answer = "limited" =>
               \E subject \in {Global, r.peer} :
                   Times(counted, [key |-> r.key, subject |-> subject, start |-> WindowOf(r.time)])
                       >= Limit(subject)
    PROVE  RateInv'
<1>1. \A v \in Connections : worker'[v] = IF v = w THEN r ELSE worker[v]
    BY DEF RateInv
<1>2. \A v \in Connections : writes'[v] = IF v = w THEN d ELSE writes[v]
    BY DEF RateInv, WritesFit
<1>3. WorkersFit'
  <2>1. \A v \in Connections : WorkerFits(worker'[v])
      BY <1>1 DEF RateInv, WorkersFit
  <2> QED
      BY <2>1 DEF WorkersFit, WorkerFits
<1>4. WritesFit'
  <2>1. DOMAIN writes' = Connections /\ writes' = [v \in Connections |-> writes'[v]]
      BY DEF RateInv, WritesFit
  <2>2. \A v \in Connections : \A s \in DOMAIN writes'[v] :
            s \in Slots /\ (CountsOnce(worker'[v], writes'[v], s) \/ Deletes(worker'[v], writes'[v], s))
      BY <1>1, <1>2 DEF RateInv, WritesFit
  <2>3. \A v \in Connections : \A s \in DOMAIN writes'[v] :
            s \in Slots /\ (CountsOnce(worker[v], writes[v], s)' \/ Deletes(worker[v], writes[v], s)')
      BY <2>2 DEF CountsOnce, Deletes, Count
  <2>4. \A u, v \in Connections : \A s \in DOMAIN writes'[u] \cap DOMAIN writes'[v] : u = v
      BY <1>2 DEF RateInv, WritesFit, IsFree
  <2> QED
      BY <2>1, <2>3, <2>4 DEF WritesFit
<1>5. RowsCount' /\ TalliesFit'
    BY DEF RateInv, RowsCount, TalliesFit, Count
<1>6. LimitedOnlyWhenSpent'
    BY <1>1 DEF RateInv, LimitedOnlyWhenSpent, Slot
<1>7. worker' \in [Connections -> Worker]
    BY DEF RateInv
<1> QED
    BY <1>3, <1>4, <1>5, <1>6, <1>7 DEF RateInv

LEMMA CountsAre ==
    ASSUME RateInv, NEW s \in Slots
    PROVE  /\ Count(s) \in Nat /\ Limit(s.subject) \in Nat \ {0}
           /\ Incremented(Count(s), Limit(s.subject)) \in 1 .. Limit(s.subject) + 1
           /\ Incremented(Count(s), Limit(s.subject)) >= Count(s)
           /\ Incremented(Count(s), Limit(s.subject)) <= Limit(s.subject) =>
                  Incremented(Count(s), Limit(s.subject)) = Count(s) + 1
           /\ Incremented(Count(s), Limit(s.subject)) > Limit(s.subject) =>
                  Count(s) >= Limit(s.subject)
<1>1. Limit(s.subject) \in Nat \ {0}
    BY SlotsAre
<1>2. Count(s) \in 0 .. Limit(s.subject) + 1
    BY <1>1 DEF RateInv, RowsCount, Count
<1> QED
    BY <1>1, <1>2 DEF Incremented

LEMMA CountRequestKeeps ==
    ASSUME RateInv, NEW w \in Connections, CountRequest(w)
    PROVE  RateInv'
<1> DEFINE subject == IF IsAt(w, "global") THEN Global ELSE worker[w].peer
           slot == Slot(w, subject)
           count == Incremented(Count(slot), Limit(subject))
           pc == IF count > Limit(subject) \/ ~ IsAt(w, "global") THEN "commit" ELSE "peer"
           answer == IF count > Limit(subject) THEN "limited"
                     ELSE IF IsAt(w, "global") THEN worker[w].answer ELSE "allowed"
           r == [worker[w] EXCEPT !.pc = pc, !.answer = answer]
           d == [s \in DOMAIN writes[w] \cup {slot} |-> IF s = slot THEN count ELSE writes[w][s]]
<1>1. /\ worker[w] \in Worker /\ WorkerFits(worker[w]) /\ worker[w].pc \in {"global", "peer"}
      /\ rateNow \in 0 .. MaxRateTime
    BY WorkerIs DEF CountRequest, RateInv
<1>2. /\ worker[w].task = "reserve" /\ worker[w].peer \in Peers /\ worker[w].key \in Keys
      /\ worker[w].key = policy /\ worker[w].answer \in {"none", "done"}
      /\ worker[w].time \in 0 .. MaxRateTime
    BY <1>1 DEF WorkerFits, Worker
<1>3. slot \in Slots /\ slot.subject = subject /\ slot.key = worker[w].key
      /\ subject \in {Global, worker[w].peer}
    BY <1>2 DEF Slot, Slots, Subjects, Starts
<1>4. /\ IsFree(w, slot) /\ writes' = [writes EXCEPT ![w] = d]
      /\ UNCHANGED <<rateNow, policy, rows, begun, counted, allowed, late>>
    BY DEF CountRequest
<1>5. /\ count \in 1 .. Limit(subject) + 1 /\ Limit(subject) \in Nat \ {0}
      /\ count > Limit(subject) => Count(slot) >= Limit(subject)
    BY <1>3, CountsAre
<1>6. worker' = [worker EXCEPT ![w] = r]
  <2>1. IF count > Limit(subject) THEN Answering(w, "limited")
        ELSE IF IsAt(w, "global") THEN Goto(w, "peer") ELSE Answering(w, "allowed")
      BY DEF CountRequest
  <2>2. CASE count > Limit(subject)
    <3>1. r = [worker[w] EXCEPT !.pc = "commit", !.answer = "limited"]
        BY <2>2
    <3> HIDE DEF r, count
    <3> QED
        BY <1>1, <2>1, <2>2, <3>1 DEF RateInv, Worker, Answering
  <2>3. CASE ~ (count > Limit(subject)) /\ IsAt(w, "global")
    <3>1. r = [worker[w] EXCEPT !.pc = "peer", !.answer = worker[w].answer]
        BY <2>3
    <3> HIDE DEF r, count
    <3> QED
        BY <1>1, <2>1, <2>3, <3>1 DEF RateInv, Worker, Goto
  <2>4. CASE ~ (count > Limit(subject)) /\ ~ IsAt(w, "global")
    <3>1. r = [worker[w] EXCEPT !.pc = "commit", !.answer = "allowed"]
        BY <2>4
    <3> HIDE DEF r, count
    <3> QED
        BY <1>1, <2>1, <2>4, <3>1 DEF RateInv, Worker, Answering
  <2> QED
      BY <2>2, <2>3, <2>4
<1>7. /\ r.pc = pc /\ r.answer = answer /\ r.task = "reserve" /\ r.key = worker[w].key
      /\ r.peer = worker[w].peer /\ r.time = worker[w].time /\ r \in Worker
    BY <1>1, <1>2 DEF Worker
<1>8. /\ DOMAIN d = DOMAIN writes[w] \cup {slot} /\ d[slot] = count
      /\ \A s \in DOMAIN writes[w] : s # slot => d[s] = writes[w][s]
    OBVIOUS
<1>9. /\ pc \in {"commit", "peer"} /\ answer \in {"limited", "allowed", "none", "done"}
      /\ answer = "limited" <=> count > Limit(subject)
      /\ answer \in {"limited", "allowed"} => pc = "commit"
      /\ pc = "peer" \/ answer = "allowed" => count <= Limit(subject)
      /\ answer = "allowed" => worker[w].pc = "peer"
    BY <1>1, <1>2, <1>5 DEF IsAt
<1> HIDE DEF r, d, pc, answer, count
<1>10. WorkerFits(r)
    BY <1>1, <1>2, <1>7, <1>9 DEF WorkerFits
<1>11. \A s \in DOMAIN writes[w] :
           /\ s \in Slots /\ IsFree(w, s) /\ s.key = worker[w].key /\ worker[w].pc = "peer"
           /\ writes[w][s] = Incremented(Count(s), Limit(s.subject))
           /\ writes[w][s] <= Limit(s.subject)
    BY <1>1, <1>2 DEF RateInv, WritesFit, CountsOnce, Deletes, IsFree
<1>12. \A s \in DOMAIN d : s \in Slots /\ IsFree(w, s) /\ CountsOnce(r, d, s)
  <2>1. CountsOnce(r, d, slot)
      BY <1>3, <1>7, <1>8, <1>9 DEF CountsOnce, count
  <2>2. \A s \in DOMAIN writes[w] : s # slot => CountsOnce(r, d, s)
      BY <1>7, <1>8, <1>9, <1>11 DEF CountsOnce
  <2> QED
      BY <1>3, <1>4, <1>8, <1>11, <2>1, <2>2
<1>13. answer = "limited" =>
           \E e \in {Global, r.peer} :
               Times(counted, [key |-> r.key, subject |-> e, start |-> WindowOf(r.time)]) >= Limit(e)
  <2>1. SUFFICES ASSUME answer = "limited"
                 PROVE  Times(counted, [key |-> r.key, subject |-> subject, start |-> WindowOf(r.time)])
                            >= Limit(subject)
      BY <1>3, <1>7
  <2>2. slot = [key |-> r.key, subject |-> subject, start |-> WindowOf(r.time)]
      BY <1>7 DEF Slot
  <2>3. /\ Count(slot) >= Limit(subject) /\ Count(slot) <= Times(counted, slot)
        /\ Times(counted, slot) \in Nat /\ Count(slot) \in Nat
      BY <1>3, <1>5, <1>9, <2>1, CountsAre DEF RateInv, TalliesFit
  <2> HIDE DEF slot
  <2> QED
      BY <1>5, <2>2, <2>3
<1> QED
    BY <1>4, <1>6, <1>7, <1>10, <1>12, <1>13, WorkerWrites

LEMMA DeleteExpiredKeeps ==
    ASSUME RateInv, NEW w \in Connections, DeleteExpired(w)
    PROVE  RateInv'
<1> DEFINE r == [worker[w] EXCEPT !.pc = "commit", !.answer = "done"]
<1>1. /\ worker[w] \in Worker /\ WorkerFits(worker[w]) /\ worker[w].pc = "delete"
      /\ rateNow \in 0 .. MaxRateTime
    BY WorkerIs DEF DeleteExpired, IsAt, RateInv
<1>2. /\ r.pc = "commit" /\ r.answer = "done" /\ r.task = worker[w].task /\ r.key = worker[w].key
      /\ r.peer = worker[w].peer /\ r.time = worker[w].time /\ r \in Worker
    BY <1>1 DEF Worker
<1>3. PICK S \in SUBSET {s \in DOMAIN rows : IsExpired(s, worker[w].time) /\ IsFree(w, s)} :
          writes' = [writes EXCEPT ![w] = [s \in S |-> 0]]
    BY DEF DeleteExpired
<1>4. /\ worker' = [worker EXCEPT ![w] = r]
      /\ UNCHANGED <<rateNow, policy, rows, begun, counted, allowed, late>>
    BY <1>1 DEF DeleteExpired, Answering, Worker, RateInv
<1> HIDE DEF r
<1>5. WorkerFits(r)
    BY <1>1, <1>2 DEF WorkerFits
<1>6. r.task = "cleanup" /\ r.time \in Int /\ r.time <= rateNow
    BY <1>1, <1>2 DEF WorkerFits, Worker
<1>7. ASSUME NEW s \in S
      PROVE  s \in Slots /\ IsFree(w, s) /\ WindowEnd(s) <= rateNow
  <2>1. s \in Slots
      BY DEF RateInv, RowsCount
  <2>2. WindowEnd(s) \in Int
      BY <2>1, SlotsAre
  <2> QED
      BY <1>1, <1>2, <1>6, <2>1, <2>2 DEF IsExpired
<1> DEFINE d == [s \in S |-> 0]
<1>8. /\ DOMAIN d = S /\ \A s \in S : d[s] = 0
      /\ writes' = [writes EXCEPT ![w] = d]
    BY <1>3
<1> HIDE DEF d
<1>9. \A s \in DOMAIN d : s \in Slots /\ IsFree(w, s) /\ Deletes(r, d, s)
    BY <1>2, <1>6, <1>7, <1>8 DEF Deletes
<1> QED
    BY <1>2, <1>4, <1>5, <1>8, <1>9, WorkerWrites

\* What a commit does to the rows.
LEMMA AppliedRows ==
    ASSUME RateInv, NEW w \in Connections, worker[w].pc = "commit", Apply(w)
    PROVE  /\ RowsCount'
           /\ \A s \in Slots : s \notin DOMAIN writes[w] => Count(s)' = Count(s)
           /\ \A s \in DOMAIN writes[w] : Deletes(worker[w], writes[w], s) => WindowEnd(s) <= rateNow
           /\ \A s \in DOMAIN writes[w] : CountsOnce(worker[w], writes[w], s) =>
                  Count(s)' = Incremented(Count(s), Limit(s.subject))
           /\ \A s \in Slots : /\ Times(counted', s) \in Nat /\ Count(s)' <= Times(counted', s)
                               /\ Times(counted, s) <= Times(counted', s)
           /\ policy' \in Keys \cup {Unset}
           /\ policy # Unset => policy' = policy
<1> DEFINE counts == {s \in DOMAIN writes[w] : writes[w][s] > 0}
<1>1. \A s \in DOMAIN writes[w] :
          /\ s \in Slots
          /\ CountsOnce(worker[w], writes[w], s) \/ Deletes(worker[w], writes[w], s)
    BY DEF RateInv, WritesFit
<1>2. /\ rows' = [s \in (DOMAIN rows \ DOMAIN writes[w]) \cup counts |->
                     IF s \in counts THEN writes[w][s] ELSE rows[s]]
      /\ counted' = OnceMore(counted, counts)
      /\ policy' = IF Owns(w) /\ policy = Unset THEN worker[w].key ELSE policy
    BY DEF Apply
<1>3. \A s \in DOMAIN writes[w] : CountsOnce(worker[w], writes[w], s) =>
          /\ writes[w][s] = Incremented(Count(s), Limit(s.subject))
          /\ writes[w][s] \in 1 .. Limit(s.subject) + 1
          /\ s \in counts
  <2> SUFFICES ASSUME NEW s \in DOMAIN writes[w], CountsOnce(worker[w], writes[w], s)
               PROVE  /\ writes[w][s] = Incremented(Count(s), Limit(s.subject))
                      /\ writes[w][s] \in 1 .. Limit(s.subject) + 1
                      /\ writes[w][s] > 0
      OBVIOUS
  <2>1. s \in Slots /\ writes[w][s] = Incremented(Count(s), Limit(s.subject))
      BY <1>1 DEF CountsOnce
  <2> QED
      BY <2>1, CountsAre
<1>4. \A s \in counts : s \in Slots /\ CountsOnce(worker[w], writes[w], s)
    BY <1>1 DEF Deletes
<1>5. \A s \in Slots : s \notin DOMAIN writes[w] => Count(s)' = Count(s)
  <2> SUFFICES ASSUME NEW s \in Slots, s \notin DOMAIN writes[w] PROVE Count(s)' = Count(s)
      OBVIOUS
  <2>1. s \in DOMAIN rows' <=> s \in DOMAIN rows
      BY <1>2
  <2>2. s \in DOMAIN rows => rows'[s] = rows[s]
      BY <1>2
  <2> QED
      BY <2>1, <2>2 DEF Count
<1>6. \A s \in DOMAIN writes[w] : CountsOnce(worker[w], writes[w], s) =>
          Count(s)' = Incremented(Count(s), Limit(s.subject))
  <2> SUFFICES ASSUME NEW s \in DOMAIN writes[w], CountsOnce(worker[w], writes[w], s)
               PROVE  Count(s)' = Incremented(Count(s), Limit(s.subject))
      OBVIOUS
  <2>1. s \in counts
      BY <1>3
  <2> HIDE DEF counts
  <2>2. s \in DOMAIN rows' /\ rows'[s] = writes[w][s]
      BY <1>2, <2>1
  <2> QED
      BY <1>3, <2>2 DEF Count
<1>7. \A s \in DOMAIN writes[w] : Deletes(worker[w], writes[w], s) =>
          WindowEnd(s) <= rateNow /\ Count(s)' = 0
  <2> SUFFICES ASSUME NEW s \in DOMAIN writes[w], Deletes(worker[w], writes[w], s)
               PROVE  Count(s)' = 0
      BY DEF Deletes
  <2>1. s \notin counts
      BY DEF Deletes
  <2> HIDE DEF counts
  <2>2. s \notin DOMAIN rows'
      BY <1>2, <2>1
  <2> QED
      BY <2>2 DEF Count
<1>8. RowsCount'
  <2>1. \A s \in counts : s \in Slots /\ rows'[s] \in 1 .. Limit(s.subject) + 1
      BY <1>2, <1>3, <1>4
  <2>2. \A s \in DOMAIN rows' : s \notin counts => s \in DOMAIN rows /\ rows'[s] = rows[s]
      BY <1>2
  <2> HIDE DEF counts
  <2> QED
      BY <2>1, <2>2 DEF RateInv, RowsCount
<1>9. \A s \in Slots : /\ Times(counted', s) \in Nat /\ Count(s)' <= Times(counted', s)
                       /\ Times(counted, s) <= Times(counted', s)
  <2> SUFFICES ASSUME NEW s \in Slots
               PROVE  /\ Times(counted', s) \in Nat /\ Count(s)' <= Times(counted', s)
                      /\ Times(counted, s) <= Times(counted', s)
      OBVIOUS
  <2>1. Times(counted, s) \in Nat /\ Count(s) <= Times(counted, s) /\ Count(s) \in Nat
      BY CountsAre DEF RateInv, TalliesFit
  <2>2. Times(counted', s) = Times(counted, s) + (IF s \in counts THEN 1 ELSE 0)
    <3> HIDE DEF counts
    <3>1. Times(OnceMore(counted, counts), s) = Times(counted, s) + (IF s \in counts THEN 1 ELSE 0)
        BY <2>1, TalliesAre
    <3> QED
        BY <1>2, <3>1
  <2>3. CASE s \notin DOMAIN writes[w]
      BY <1>5, <2>1, <2>2, <2>3
  <2>4. CASE s \in DOMAIN writes[w] /\ CountsOnce(worker[w], writes[w], s)
    <3>1. s \in counts /\ Count(s)' = Incremented(Count(s), Limit(s.subject))
        BY <1>3, <1>6, <2>4
    <3>2. Incremented(Count(s), Limit(s.subject)) <= Count(s) + 1
          /\ Incremented(Count(s), Limit(s.subject)) \in Nat
      <4>1. Limit(s.subject) \in Nat
          BY SlotsAre
      <4> QED
          BY <2>1, <4>1 DEF Incremented
    <3> HIDE DEF counts
    <3> QED
        BY <2>1, <2>2, <3>1, <3>2
  <2>5. CASE s \in DOMAIN writes[w] /\ Deletes(worker[w], writes[w], s)
      BY <1>7, <2>1, <2>2, <2>5
  <2> QED
      BY <1>1, <2>3, <2>4, <2>5
<1>10. policy' \in Keys \cup {Unset}
  <2>1. worker[w].key \in Keys
      BY WorkerIs DEF WorkerFits
  <2> QED
      BY <1>2, <2>1 DEF RateInv
<1> QED
    BY <1>2, <1>5, <1>6, <1>7, <1>8, <1>9, <1>10

\* A commit, which allows a request against the slots A.
LEMMA AppliedKeeps ==
    ASSUME RateInv, NEW w \in Connections, worker[w].pc = "commit", Apply(w), Release(w),
           UNCHANGED <<rateNow, begun>>,
           NEW A \in SUBSET DOMAIN writes[w],
           A # {} => worker[w].answer = "allowed",
           DOMAIN allowed' = DOMAIN allowed \cup A,
           \A s \in Slots :
               /\ Times(allowed', s) = Times(allowed, s) + (IF s \in A THEN 1 ELSE 0)
               /\ Times(late', s) = Times(late, s)
                                    + (IF s \in A /\ rateNow >= WindowEnd(s) THEN 1 ELSE 0)
    PROVE  RateInv'
<1>1. /\ worker[w] \in Worker /\ WorkerFits(worker[w])
      /\ IdleWorker \in Worker /\ WorkerFits(IdleWorker) /\ rateNow \in 0 .. MaxRateTime
      /\ IdleWorker.pc = "idle" /\ IdleWorker.answer = "none"
    BY WorkerIs DEF RateInv, IdleWorker
<1>2. /\ RowsCount'
      /\ \A s \in Slots : s \notin DOMAIN writes[w] => Count(s)' = Count(s)
      /\ \A s \in DOMAIN writes[w] : Deletes(worker[w], writes[w], s) => WindowEnd(s) <= rateNow
      /\ \A s \in DOMAIN writes[w] : CountsOnce(worker[w], writes[w], s) =>
             Count(s)' = Incremented(Count(s), Limit(s.subject))
      /\ \A s \in Slots : /\ Times(counted', s) \in Nat /\ Count(s)' <= Times(counted', s)
                          /\ Times(counted, s) <= Times(counted', s)
      /\ policy' \in Keys \cup {Unset}
      /\ policy # Unset => policy' = policy
    BY AppliedRows
<1>3. \A v \in Connections : worker'[v] = IF v = w THEN IdleWorker ELSE worker[v]
    BY DEF RateInv, Release
<1>4. \A v \in Connections : writes'[v] = IF v = w THEN <<>> ELSE writes[v]
    BY DEF RateInv, WritesFit, Release
<1>5. worker' \in [Connections -> Worker]
    BY <1>1 DEF RateInv, Release
<1>6. WorkersFit'
  <2>1. \A v \in Connections : WorkerFits(worker'[v])
      BY <1>1, <1>3 DEF RateInv, WorkersFit
  <2>2. ASSUME NEW r \in Worker, WorkerFits(r) PROVE WorkerFits(r)'
    <3>1. r.key \in Keys /\ r.key = policy => policy' = policy
        BY <1>2, RateAssumption
    <3> QED
        BY <2>2, <3>1 DEF WorkerFits
  <2> QED
      BY <1>5, <2>1, <2>2 DEF WorkersFit
<1>7. WritesFit'
  <2>1. DOMAIN <<>> = {}
      OBVIOUS
  <2>2. DOMAIN writes' = Connections /\ writes' = [v \in Connections |-> writes'[v]]
      BY DEF RateInv, WritesFit, Release
  <2>3. ASSUME NEW v \in Connections, NEW s \in DOMAIN writes'[v]
        PROVE  s \in Slots /\ (CountsOnce(worker[v], writes[v], s)' \/ Deletes(worker[v], writes[v], s)')
    <3>1. /\ v # w /\ worker'[v] = worker[v] /\ writes'[v] = writes[v]
        BY <1>3, <1>4, <2>1
    <3>2. /\ s \in Slots /\ s \notin DOMAIN writes[w]
          /\ CountsOnce(worker[v], writes[v], s) \/ Deletes(worker[v], writes[v], s)
        BY <2>3, <3>1 DEF RateInv, WritesFit
    <3>3. Count(s)' = Count(s)
        BY <1>2, <3>2
    <3> QED
        BY <3>1, <3>2, <3>3 DEF CountsOnce, Deletes
  <2>4. \A u, v \in Connections : \A s \in DOMAIN writes'[u] \cap DOMAIN writes'[v] : u = v
      BY <1>4, <2>1 DEF RateInv, WritesFit
  <2> QED
      BY <2>2, <2>3, <2>4 DEF WritesFit
<1>8. \A s \in A : /\ s \in Slots /\ CountsOnce(worker[w], writes[w], s)
                   /\ s.key = policy /\ policy # Unset
                   /\ writes[w][s] <= Limit(s.subject)
  <2> SUFFICES ASSUME NEW s \in A
               PROVE  /\ s \in Slots /\ CountsOnce(worker[w], writes[w], s)
                      /\ s.key = policy /\ policy # Unset
                      /\ writes[w][s] <= Limit(s.subject)
      OBVIOUS
  <2>1. worker[w].answer = "allowed" /\ worker[w].task = "reserve" /\ worker[w].key = policy
        /\ worker[w].key \in Keys
      BY <1>1 DEF WorkerFits
  <2>2. s \in Slots /\ CountsOnce(worker[w], writes[w], s)
      BY <2>1 DEF RateInv, WritesFit, Deletes
  <2> QED
      BY <2>1, <2>2, RateAssumption DEF CountsOnce
<1>9. TalliesFit'
  <2>1. \A s \in DOMAIN allowed' : s \in Slots /\ s.key = policy'
      BY <1>2, <1>8, SlotsAre DEF RateInv, TalliesFit
  <2>2. ASSUME NEW s \in Slots
        PROVE  /\ Times(allowed', s) \in Nat /\ Times(late', s) \in Nat
               /\ Times(allowed', s) - Times(late', s) <= Limit(s.subject)
               /\ rateNow < WindowEnd(s) => Times(allowed', s) - Times(late', s) <= Count(s)'
    <3> DEFINE a == Times(allowed, s)
               l == Times(late, s)
               end == WindowEnd(s)
               limit == Limit(s.subject)
    <3>1. /\ a \in Nat /\ l \in Nat /\ a - l <= limit /\ (rateNow < end => a - l <= Count(s))
          /\ limit \in Nat \ {0} /\ end \in Int /\ Count(s) \in Nat
          /\ rateNow \in Int
        BY <1>1, CountsAre, SlotsAre DEF RateInv, TalliesFit
    <3>2. /\ Times(allowed', s) = a + (IF s \in A THEN 1 ELSE 0)
          /\ Times(late', s) = l + (IF s \in A /\ rateNow >= end THEN 1 ELSE 0)
        OBVIOUS
    <3>3. s \in A => Count(s)' = Count(s) + 1 /\ Count(s) + 1 <= limit
      <4>1. SUFFICES ASSUME s \in A PROVE Count(s)' = Count(s) + 1 /\ Count(s) + 1 <= limit
          OBVIOUS
      <4>2. Count(s)' = Incremented(Count(s), limit)
          BY <1>2, <1>8, <4>1
      <4>3. Incremented(Count(s), limit) <= limit
          BY <1>8, <4>1 DEF CountsOnce
      <4>4. Incremented(Count(s), limit) = Count(s) + 1
          BY <4>3, CountsAre
      <4> QED
          BY <4>2, <4>3, <4>4
    <3>4. rateNow < end => Count(s)' >= Count(s)
      <4>1. CASE s \notin DOMAIN writes[w]
          BY <1>2, <3>1, <4>1
      <4>2. CASE s \in DOMAIN writes[w] /\ CountsOnce(worker[w], writes[w], s)
          BY <1>2, <4>2, CountsAre
      <4>3. CASE s \in DOMAIN writes[w] /\ Deletes(worker[w], writes[w], s)
          BY <1>2, <3>1, <4>3
      <4> QED
          BY <4>1, <4>2, <4>3 DEF RateInv, WritesFit
    <3>5. Count(s)' \in Nat
      <4>1. Count(s)' \in 0 .. limit + 1
          BY <1>2, <3>1 DEF RowsCount, Count
      <4> QED
          BY <3>1, <4>1
    <3>6. CASE s \in A /\ rateNow >= end
        BY <3>1, <3>2, <3>5, <3>6
    <3>7. CASE s \in A /\ ~ (rateNow >= end)
      <4>1. Times(allowed', s) = a + 1 /\ Times(late', s) = l /\ rateNow < end
          BY <3>1, <3>2, <3>7
      <4> HIDE DEF a, l, end, limit
      <4> QED
          BY <3>1, <3>3, <3>7, <4>1 DEF limit, end
    <3>8. CASE s \notin A
      <4>1. Times(allowed', s) = a /\ Times(late', s) = l
          BY <3>1, <3>2, <3>8
      <4> HIDE DEF a, l, end, limit
      <4> QED
          BY <3>1, <3>4, <3>5, <4>1 DEF limit, end
    <3> QED
        BY <3>6, <3>7, <3>8
  <2>3. \A s \in Slots : WindowEnd(s)' = WindowEnd(s)
      BY DEF WindowEnd
  <2> QED
      BY <1>2, <2>1, <2>2, <2>3 DEF TalliesFit
<1>10. LimitedOnlyWhenSpent'
  <2> SUFFICES ASSUME NEW v \in Connections, worker'[v].answer = "limited"
               PROVE  \E subject \in {Global, worker'[v].peer} :
                          Times(counted', Slot(v, subject)') >= Limit(subject)
      BY DEF LimitedOnlyWhenSpent
  <2>1. v # w /\ worker'[v] = worker[v]
      BY <1>1, <1>3
  <2>2. PICK subject \in {Global, worker[v].peer} :
            Times(counted, Slot(v, subject)) >= Limit(subject)
      BY <2>1 DEF RateInv, LimitedOnlyWhenSpent
  <2>3. worker[v] \in Worker /\ WorkerFits(worker[v]) /\ worker[v].answer = "limited"
      BY <2>1, WorkerIs
  <2>4. worker[v].task = "reserve" /\ worker[v].pc = "commit"
      BY <2>3 DEF WorkerFits
  <2>5. worker[v].peer \in Peers /\ worker[v].key \in Keys /\ worker[v].time \in 0 .. MaxRateTime
      BY <2>3, <2>4 DEF WorkerFits, Worker
  <2>6. Slot(v, subject) \in Slots /\ Slot(v, subject)' = Slot(v, subject)
        /\ Limit(subject) \in Nat
      BY <2>1, <2>5, RateAssumption DEF Slot, Slots, Subjects, Starts, Limit
  <2>7. /\ Times(counted, Slot(v, subject)) <= Times(counted', Slot(v, subject))
        /\ Times(counted', Slot(v, subject)) \in Nat /\ Times(counted, Slot(v, subject)) \in Nat
      BY <1>2, <2>6 DEF RateInv, TalliesFit
  <2>8. Times(counted', Slot(v, subject)') >= Limit(subject)
      BY <2>2, <2>6, <2>7
  <2> QED
      BY <2>1, <2>8
<1> QED
    BY <1>2, <1>5, <1>6, <1>7, <1>9, <1>10 DEF RateInv

LEMMA CommitRateKeeps ==
    ASSUME RateInv, NEW w \in Connections, CommitRate(w) \/ CommitUnknown(w)
    PROVE  RateInv'
<1>1. /\ worker[w].pc = "commit" /\ Apply(w) /\ Release(w) /\ UNCHANGED <<rateNow, begun>>
    BY DEF CommitRate, CommitUnknown, IsAt
<1>2. \A s \in Slots : Times(allowed, s) \in Int /\ Times(late, s) \in Int
    BY DEF RateInv, TalliesFit
<1>3. CASE CommitRate(w)
  <2> DEFINE A == Allows(w)
             L == {s \in Allows(w) : rateNow >= WindowEnd(s)}
  <2>1. allowed' = OnceMore(allowed, A) /\ late' = OnceMore(late, L)
      BY <1>3 DEF CommitRate
  <2>2. A \in SUBSET DOMAIN writes[w] /\ (A # {} => worker[w].answer = "allowed")
      BY DEF Allows
  <2>3. \A s : s \in L <=> (s \in A /\ rateNow >= WindowEnd(s))
      OBVIOUS
  <2> HIDE DEF A, L
  <2>4. DOMAIN allowed' = DOMAIN allowed \cup A
      BY <2>1 DEF OnceMore
  <2>5. ASSUME NEW s \in Slots
        PROVE  /\ Times(allowed', s) = Times(allowed, s) + (IF s \in A THEN 1 ELSE 0)
               /\ Times(late', s) = Times(late, s)
                                    + (IF s \in A /\ rateNow >= WindowEnd(s) THEN 1 ELSE 0)
    <3>1. Times(OnceMore(allowed, A), s) = Times(allowed, s) + (IF s \in A THEN 1 ELSE 0)
        BY <1>2, TalliesAre
    <3>2. Times(OnceMore(late, L), s) = Times(late, s) + (IF s \in L THEN 1 ELSE 0)
        BY <1>2, TalliesAre
    <3> QED
        BY <2>1, <2>3, <3>1, <3>2
  <2>6. PICK B : B = A
      OBVIOUS
  <2> QED
      BY <1>1, <2>2, <2>4, <2>5, <2>6, AppliedKeeps
<1>4. CASE CommitUnknown(w)
  <2>1. allowed' = allowed /\ late' = late
      BY <1>4 DEF CommitUnknown
  <2>2. PICK A : A = {}
      OBVIOUS
  <2>3. \A s \in Slots :
            /\ Times(allowed', s) = Times(allowed, s) + (IF s \in A THEN 1 ELSE 0)
            /\ Times(late', s) = Times(late, s)
                                 + (IF s \in A /\ rateNow >= WindowEnd(s) THEN 1 ELSE 0)
      BY <1>2, <2>1, <2>2
  <2>4. DOMAIN allowed' = DOMAIN allowed \cup A /\ A \in SUBSET DOMAIN writes[w]
      BY <2>1, <2>2
  <2> QED
      BY <1>1, <2>2, <2>3, <2>4, AppliedKeeps
<1> QED
    BY <1>3, <1>4

LEMMA RateTickKeeps ==
    ASSUME RateInv, RateTick
    PROVE  RateInv'
<1>1. /\ rateNow \in 0 .. MaxRateTime /\ rateNow' \in 0 .. MaxRateTime /\ rateNow' = rateNow + 1
      /\ UNCHANGED <<policy, rows, worker, writes, begun, counted, allowed, late>>
    BY RateAssumption DEF RateTick, RateInv
<1>2. WorkersFit'
  <2>1. \A r \in Worker : r.time \in Int
      BY DEF Worker
  <2>2. \A w \in Connections : worker[w] \in Worker
      BY DEF RateInv
  <2> QED
      BY <1>1, <2>1, <2>2 DEF RateInv, WorkersFit, WorkerFits
<1>3. \A s \in Slots : WindowEnd(s) \in Int /\ (WindowEnd(s) <= rateNow => WindowEnd(s) <= rateNow')
    BY <1>1, SlotsAre
<1>4. WritesFit'
  <2>1. \A w \in Connections : \A s \in DOMAIN writes[w] :
            s \in Slots
            /\ (CountsOnce(worker[w], writes[w], s)' \/ Deletes(worker[w], writes[w], s)')
      BY <1>1, <1>3 DEF RateInv, WritesFit, CountsOnce, Deletes, Count
  <2> QED
      BY <1>1, <2>1 DEF RateInv, WritesFit
<1>5. TalliesFit'
  <2>1. \A s \in Slots : rateNow' < WindowEnd(s) => rateNow < WindowEnd(s)
      BY <1>1, <1>3
  <2> QED
      BY <1>1, <2>1 DEF RateInv, TalliesFit, Count
<1>6. RowsCount' /\ LimitedOnlyWhenSpent'
    BY <1>1 DEF RateInv, RowsCount, LimitedOnlyWhenSpent, Slot
<1> QED
    BY <1>1, <1>2, <1>4, <1>5, <1>6 DEF RateInv

LEMMA RateInvAtFirst == RateInit => RateInv
<1> SUFFICES ASSUME RateInit PROVE RateInv
    OBVIOUS
<1>1. DOMAIN <<>> = {}
    OBVIOUS
<1>2. IdleWorker \in Worker /\ IdleWorker.time = 0 /\ IdleWorker.task = "none"
      /\ IdleWorker.pc = "idle" /\ IdleWorker.answer = "none"
    BY RateAssumption DEF IdleWorker, Worker
<1>3. /\ rateNow \in 0 .. MaxRateTime /\ policy \in Keys \cup {Unset}
      /\ worker \in [Connections -> Worker] /\ begun \in 0 .. MaxRateRequests
    BY <1>2, RateAssumption DEF RateInit
<1>4. WorkersFit
  <2>1. \A w \in Connections : worker[w] = IdleWorker
      BY DEF RateInit
  <2>2. WorkerFits(IdleWorker)
      BY <1>2 DEF RateInit, WorkerFits
  <2> QED
      BY <2>1, <2>2 DEF WorkersFit
<1>5. WritesFit
    BY <1>1 DEF RateInit, WritesFit
<1>6. RowsCount
    BY <1>1 DEF RateInit, RowsCount
<1>7. TalliesFit
  <2>1. \A s : Times(<<>>, s) = 0
      BY <1>1 DEF Times
  <2>2. \A s : Count(s) = 0
      BY <1>1 DEF RateInit, Count
  <2>3. \A s \in Slots : Limit(s.subject) \in Nat
      BY SlotsAre
  <2> QED
      BY <1>1, <2>1, <2>2, <2>3 DEF RateInit, TalliesFit
<1>8. LimitedOnlyWhenSpent
    BY <1>2 DEF RateInit, LimitedOnlyWhenSpent
<1> QED
    BY <1>3, <1>4, <1>5, <1>6, <1>7, <1>8 DEF RateInv

LEMMA RateStepKeeps ==
    ASSUME RateInv, NEW w \in Connections, RateStep(w)
    PROVE  RateInv'
BY InsertPolicyKeeps, LockPolicyKeeps, CheckPolicyKeeps, ReadTimeKeeps, CountRequestKeeps,
   DeleteExpiredKeeps, CommitRateKeeps DEF RateStep

LEMMA RateNextKeeps == RateInv /\ [RateNext]_rateVars => RateInv'
<1> SUFFICES ASSUME RateInv, [RateNext]_rateVars PROVE RateInv'
    OBVIOUS
<1>1. ASSUME NEW w \in Connections,
             RateStep(w) \/ CommitUnknown(w) \/ FailRate(w)
      PROVE  RateInv'
    BY <1>1, RateStepKeeps, CommitRateKeeps, RateFailKeeps
<1>2. ASSUME NEW w \in Connections, NEW key \in Keys,
             Initialize(w, key) \/ Cleanup(w, key) \/ \E peer \in Peers : Reserve(w, key, peer)
      PROVE  RateInv'
    BY <1>2, BeginRateKeeps DEF Initialize, Cleanup, Reserve
<1>3. CASE RateTick
    BY <1>3, RateTickKeeps
<1>4. CASE UNCHANGED rateVars
  <2> USE <1>4 DEF rateVars
  <2>1. WorkersFit'
      BY DEF RateInv, WorkersFit, WorkerFits
  <2>2. WritesFit'
    <3>1. \A w \in Connections : \A s \in DOMAIN writes[w] :
              s \in Slots
              /\ (CountsOnce(worker[w], writes[w], s)' \/ Deletes(worker[w], writes[w], s)')
        BY DEF RateInv, WritesFit, CountsOnce, Deletes, Count
    <3> QED
        BY <3>1 DEF RateInv, WritesFit
  <2>3. RowsCount' /\ TalliesFit' /\ LimitedOnlyWhenSpent'
      BY DEF RateInv, RowsCount, TalliesFit, Count, LimitedOnlyWhenSpent, Slot
  <2> QED
      BY <2>1, <2>2, <2>3 DEF RateInv
<1> QED
    BY <1>1, <1>2, <1>3, <1>4 DEF RateNext

LEMMA RateInvAlways == RateSpec => []RateInv
BY RateInvAtFirst, RateNextKeeps, PTL DEF RateSpec

LEMMA BudgetsHold == RateInv => RateHolds
<1> SUFFICES ASSUME RateInv PROVE RateHolds
    OBVIOUS
<1>1. RateTypeOK
  <2>1. \A w \in Connections : \A s \in DOMAIN writes[w] :
            s \in Slots /\ writes[w][s] \in 0 .. Limit(s.subject) + 1
    <3> SUFFICES ASSUME NEW w \in Connections, NEW s \in DOMAIN writes[w]
                 PROVE  s \in Slots /\ writes[w][s] \in 0 .. Limit(s.subject) + 1
        OBVIOUS
    <3>1. s \in Slots /\ (CountsOnce(worker[w], writes[w], s) \/ Deletes(worker[w], writes[w], s))
        BY DEF RateInv, WritesFit
    <3>2. CASE CountsOnce(worker[w], writes[w], s)
        BY <3>1, <3>2, CountsAre DEF CountsOnce
    <3>3. CASE Deletes(worker[w], writes[w], s)
        BY <3>1, <3>3, CountsAre DEF Deletes
    <3> QED
        BY <3>1, <3>2, <3>3
  <2> QED
      BY <2>1 DEF RateInv, RowsCount, RateTypeOK
<1>2. BudgetHolds
    BY DEF RateInv, TalliesFit, BudgetHolds, Times
<1>3. OneKeySpends
    BY DEF RateInv, TalliesFit, OneKeySpends, Slots
<1> QED
    BY <1>1, <1>2, <1>3 DEF RateInv, RateHolds

\* All instances together allow no more requests within a window than its budget holds, under one
\* key, and limit nobody before the budget is spent: for any number of connections, peers and
\* instances, whatever is counted at once, fails, is cleaned up, answers late or is never answered.
THEOREM RateAlwaysHolds == RateSpec => []RateHolds
BY RateInvAlways, BudgetsHold, PTL
=============================================================================
