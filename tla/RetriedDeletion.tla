---------------------------- MODULE RetriedDeletion ----------------------------
(***************************************************************************)
(* ActorDeletion with an operator who resumes a deletion that was not      *)
(* answered "complete", as the runbook asks; workers and services may fail *)
(* any number of times before they are calm.                               *)
(***************************************************************************)
EXTENDS ActorDeletion

VARIABLE calm

BecomesCalm == calm' = TRUE /\ UNCHANGED vars

CalmWorkerNext ==
    \E w \in Workers :
        \/ Advance(w)
        \/ \E a \in Actors : Begin(w, a)
        \/ \E o \in Operations : Resume(w, o)
RetriedNext ==
    \/ ~calm /\ DeletionNext /\ UNCHANGED calm
    \/ calm /\ UNCHANGED calm /\ (UserNext \/ CleanupNext \/ CalmWorkerNext)
    \/ BecomesCalm

Progress(w) == Advance(w) /\ UNCHANGED calm
Retry(o) == (\E w \in Workers : Resume(w, o)) /\ UNCHANGED calm

RetriedInit == DeletionInit /\ calm = FALSE
=============================================================================
