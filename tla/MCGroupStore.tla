---------------------------- MODULE MCGroupStore ----------------------------
(***************************************************************************)
(* What the group context keeps in PostgreSQL: the commit of a command     *)
(* (GroupCommit), the deletion of groups whose retention is over           *)
(* (GroupRetention), the evidence it asks for (RetentionEvidence) and the  *)
(* calendar it is due by (TokyoCalendar).  The parts share no variable:    *)
(* every behaviour is one of the part it starts with.                      *)
(***************************************************************************)
EXTENDS GroupCommit, GroupRetention, RetentionEvidence, TokyoCalendar, Sequences, TLC

CONSTANTS
    g1, g2, i1, i2, o1, o2, a, b, c, b1, b2

VARIABLE part

partVars == <<part, commitVars, vars, evidenceVars, calendarVars>>

PartInit ==
    /\ part \in {"commit", "retention", "evidence", "calendar"}
    /\ CommitInit /\ Init /\ EvidenceInit
    /\ IF part = "calendar" THEN CalendarInit ELSE start = 0 /\ instant = 0

PartNext ==
    /\ UNCHANGED part
    /\ \/ part = "commit" /\ CommitNext /\ UNCHANGED <<vars, evidenceVars, calendarVars>>
       \/ part = "retention" /\ Next /\ UNCHANGED <<commitVars, evidenceVars, calendarVars>>
       \/ part = "evidence" /\ EvidenceNext /\ UNCHANGED <<commitVars, vars, calendarVars>>
       \/ part = "calendar" /\ CalendarNext /\ UNCHANGED <<commitVars, vars, evidenceVars>>

PartSpec == PartInit /\ [][PartNext]_partVars

-----------------------------------------------------------------------------
ReceiptOf(o, v, body) ==
    [operationId |-> o, intentVersion |-> v, canonicalReceipt |-> body]
Ask(g, i, o, v, body) ==
    [groupId |-> g, closeIntentId |-> i, receipt |-> ReceiptOf(o, v, body),
     evidence |-> [operationId |-> o, intentVersion |-> v]]

(* The first group is asked for with each intent, under a newer version   *)
(* with another receipt and with forged evidence; the second one with the  *)
(* intent it may share, under its own operation and under that of the      *)
(* first.                                                                  *)
MCRequests ==
    {Ask(g1, i1, o1, 1, a), Ask(g1, i2, o1, 1, a), Ask(g1, i1, o1, 2, b),
     Ask(g2, i1, o2, 1, c), Ask(g2, i2, o1, 1, c),
     [Ask(g1, i1, o1, 1, b) EXCEPT !.evidence = Forged]}

ReceiptFrom(context, binding) ==
    [kind |-> "Receipt", context |-> context, binding |-> binding]
KeysFrom(context, binding, namespace) ==
    [kind |-> "Keys", context |-> context, binding |-> binding, keyNamespace |-> namespace]

(* All that the first binding needs, and what may be taken for it.         *)
MCFacts ==
    {ReceiptFrom(x, b1) : x \in {"ExpenseRecording", "Settlement"}} \cup
    {KeysFrom(x, b1, "GroupData") :
        x \in {"GroupManagement", "ExpenseRecording", "Settlement"}} \cup
    {ReceiptFrom("Settlement", b2), KeysFrom("Settlement", b2, "GroupData"),
     KeysFrom("Settlement", b1, "Audit")}

(* The ports are wired in the right way, in another order, twice for one   *)
(* context, without one context or with one of no known context.           *)
MCReceiptWirings ==
    {<<"ExpenseRecording", "Settlement">>, <<"Settlement", "ExpenseRecording">>,
     <<"Settlement", "Settlement">>}
MCKeyWirings ==
    {<<"GroupManagement", "ExpenseRecording", "Settlement">>,
     <<"Settlement", "GroupManagement", "ExpenseRecording">>,
     <<"GroupManagement", "Settlement", "Settlement">>,
     <<"GroupManagement", "ExpenseRecording">>,
     <<"GroupManagement", "ExpenseRecording", "Settlement", "Other">>}

(* Units of three hours around the leap year 2024 and around 2100, which   *)
(* is not one.                                                             *)
MCStarts == {DateUTC(y, 1, 1, 0) : y \in {2023, 2099}}

\* The two workers are the two callers of commands too.
Symmetry == Permutations(Workers) \cup Permutations(OperationIds) \cup Permutations(GroupIds)
=============================================================================
