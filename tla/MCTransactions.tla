----------------------------- MODULE MCTransactions -----------------------------
(***************************************************************************)
(* Transactions of the authentication database that run at once: logins of *)
(* a Google account while the search key rotates (FirstLogin), requests    *)
(* about recipient codes (RecipientCode), the one transaction that uses a  *)
(* code with any callback (InvitationLease), and the budgets of HTTP       *)
(* requests (HttpRate).  They touch different tables; every behaviour is   *)
(* one of the part it starts with.                                         *)
(***************************************************************************)
EXTENDS FirstLogin, RecipientCode, HttpRate, Sequences, TLC

CONSTANTS
    Bodies, MaxCalls,
    ActorOrder, OperationOrder, CodeOwner,
    a1, a2, a3, o1, o2

VARIABLES
    part,
    owner, frame, calls, connection, db, fresh, result, answer      \* InvitationLease

leaseVars == <<owner, frame, calls, connection, db, fresh, result, answer>>

Lease == INSTANCE InvitationLease WITH None <- Null, tx <- connection

ASSUME LeaseAssumption == Lease!NoneAssumption

MCCodeActors == {1, 2}
MCActorOrder == <<a1, a2, a3>>
MCOperationOrder == <<o1, o2>>
MCCaller == [o \in Operations |-> CodeOwner]

PartInit ==
    /\ part \in {"login", "code", "lease", "rate"}
    /\ Init
    /\ CodeInit
    /\ Lease!Init
    /\ RateInit

PartNext ==
    /\ UNCHANGED part
    /\ \/ part = "login" /\ Next /\ UNCHANGED <<codeVars, leaseVars, rateVars>>
       \/ part = "code" /\ CodeNext /\ UNCHANGED <<vars, leaseVars, rateVars>>
       \/ part = "lease" /\ Lease!Next /\ UNCHANGED <<vars, codeVars, rateVars>>
       \/ part = "rate" /\ RateNext /\ UNCHANGED <<vars, codeVars, leaseVars>>

PartSpec == PartInit /\ [][PartNext]_<<part, vars, codeVars, leaseVars, rateVars>>

IsUsedActor(a) == actor[a] # "none" \/ \E l \in Logins : login[l].actor = a

IsUsedOperation(o) ==
    \/ saved[o] # Null
    \/ \E w \in Workers : tx[w].op = o
    \/ \E told_ \in answers : told_[2] = o

\* Actors are alike, and so are operations: they are used in one order.
UsedInOrder ==
    /\ part = "login" => \A i \in 2 .. Len(ActorOrder) :
           IsUsedActor(ActorOrder[i]) => IsUsedActor(ActorOrder[i - 1])
    /\ part = "code" => \A i \in 2 .. Len(OperationOrder) :
           IsUsedOperation(OperationOrder[i]) => IsUsedOperation(OperationOrder[i - 1])

MCSymmetry == Permutations(Logins) \cup Permutations(Accounts) \cup Permutations(Keys)

-----------------------------------------------------------------------------
\* A transaction that uses a code saves and consumes together, whatever its callback
\* does, and answers what it saved; no statement of a callback runs on a connection that
\* was given back (withRecipientCodeLease).
LeaseImplementsPromise ==
    /\ Lease!ImplementsPromise
    /\ [](Lease!LeaseTypeOK /\ Lease!NoStrayStatement)
=============================================================================
