---------------------------- MODULE RetriedRetention ----------------------------
(***************************************************************************)
(* GroupRetention with a caller who repeats a deletion that was not        *)
(* answered, as an answer "Unavailable" invites it to                      *)
(* (group-management-retention-port.ts:55); the database and the process   *)
(* may fail any number of times before they are calm.                      *)
(***************************************************************************)
EXTENDS GroupRetention

VARIABLE calm
calmVars == <<vars, calm>>

BecomesCalm == calm' = TRUE /\ UNCHANGED vars

RetriedNext ==
    \/ ~calm /\ Next /\ UNCHANGED calm
    \/ /\ calm /\ UNCHANGED calm
       /\ Lifecycle \/ Tick \/ \E w \in Workers : Start(w) \/ Step(w)
    \/ BecomesCalm

Progress(w) == Step(w) /\ UNCHANGED calm
Retry(r) == (\E w \in Workers : Delete(w, r)) /\ UNCHANGED calm

RetriedInit == Init /\ calm = FALSE

RetriedSpec ==
    /\ RetriedInit /\ [][RetriedNext]_calmVars
    /\ WF_calmVars(BecomesCalm)
    /\ \A w \in Workers : WF_calmVars(Progress(w))
    /\ \A r \in Requests : SF_calmVars(Retry(r))

(* A group whose closing is never cancelled.                               *)
NoneReopens == \A g \in Groups : group[g] = "Closing" => group'[g] # "Active"

(* A group that was archived is deleted in the end when its deletion is    *)
(* asked for again and again: no earlier attempt, other deletion or purge  *)
(* leaves a lock or a row that keeps it for ever.                          *)
ArchivedGroupsAreDeleted ==
    \A g \in Groups : group[g] = "Archived" ~> group[g] = "Deleted"
=============================================================================
