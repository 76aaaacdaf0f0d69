----------------------------- MODULE MCMaintenance -----------------------------
(***************************************************************************)
(* The maintenance of the authentication database: the deletion of an      *)
(* actor (ActorDeletion), the restore of a backup with a deletion beside   *)
(* it (AuthenticationRestore), and the cleanup of recipient codes          *)
(* (RecipientCodeCleanup).  The last shares no state with the others.      *)
(* Every behaviour is one of the part it starts with; outside of its part  *)
(* a component rests in its initial state.                                 *)
(***************************************************************************)
EXTENDS AuthenticationRestore, RecipientCodeCleanup, TLC

VARIABLE part

\* A worker and an operation may be left out of a part.
CONSTANTS FirstWorker, FirstOperation, AnyActor
MCOwner == [c \in Codes |-> AnyActor]

PartInit ==
    /\ part \in {"deletion", "restore", "cleanup"}
    /\ RestoreInit /\ CodesInit

PartNext ==
    \/ part = "deletion" /\ DeletionNext /\ UNCHANGED <<part, restoreVars, cleanupVars>>
    \/ part = "restore" /\ RestoreNext /\ UNCHANGED <<part, cleanupVars>>
    \/ part = "cleanup" /\ CodesNext /\ UNCHANGED <<part, allVars>>

PartSpec == PartInit /\ [][PartNext]_<<part, allVars, cleanupVars>>

IsUsed(o) == ticket[o] # None \/ \E w \in Workers : job[w].op = o
Keyed == {c \in Codes : key[c].state # "none"}
Cleaning == {w \in Cleaners : sweep[w].at # "idle"}

\* Bounds: a deletion beside a restore is one operation of one worker, whose deadline is
\* ahead.  Of the cleanup, two runs beside each other see one code, intact rows and no backup's
\* row, and go on only while none of them has failed or found anything late; a run by itself sees
\* two codes, or one with a damaged row, its actor's or its own, or one that came back.  As the
\* operations are alike, the first is used first.
OneWorker ==
    /\ part = "restore" =>
           /\ \A w \in Workers \ {FirstWorker} : job[w].at = "idle"
           /\ \A o \in Operations \ {FirstOperation} : ~ IsUsed(o)
           /\ \A o \in Operations : ~ Late(o)
    /\ part = "deletion" => \A o \in Operations : IsUsed(o) => IsUsed(FirstOperation)
    /\ part = "cleanup" =>
           /\ Cardinality(Keyed) + Cardinality(Cleaning) + Cardinality(damaged) + returns <= 3
           /\ Cardinality(Cleaning) = 2 => \A w \in Cleaners : ~ sweep[w].failed /\ ~ sweep[w].seals

\* Bound: the restore by itself, with one worker beside it, and no deadline that passes.
OneRestore ==
    /\ part = "restore"
    /\ \A w \in Workers \ {FirstWorker} : job[w].at = "idle"
    /\ \A o \in Operations : ~ Late(o)

\* Bound: the cleanup by itself, of intact rows.
OnlyCleanup == part = "cleanup" /\ damaged = {}

MCSymmetry == Permutations(Codes) \cup Permutations(Cleaners)
=============================================================================
