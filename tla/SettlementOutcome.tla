------------------------- MODULE SettlementOutcome -------------------------
(***************************************************************************)
(* What a settlement promises the group whose expenses it reserves: the    *)
(* participants settle on what is due, every payment due is received once, *)
(* and the expenses are released only when nobody has claimed to have paid *)
(* anything.  SettlementCase implements it.                                *)
(***************************************************************************)
EXTENDS FiniteSets

CONSTANT InstructionIds

VARIABLES
    phase,      \* what the expenses of the settlement are
    due,        \* the payments the participants settled on
    claimed,    \* the payments somebody reported to have made
    received    \* the payments whose payee confirmed them

vars == <<phase, due, claimed, received>>

Open == phase = "Open" /\ due = {} /\ claimed = {} /\ received = {}

Agreed(payments) ==
    /\ phase = IF payments = {} THEN "Settled" ELSE "Due"
    /\ due = payments
    /\ claimed = {}
    /\ received = {}

Init == Open \/ \E payments \in SUBSET InstructionIds : Agreed(payments)

Agree ==
    /\ phase = "Open"
    /\ \E payments \in SUBSET InstructionIds : Agreed(payments)'

Claim(i) ==
    /\ phase = "Due"
    /\ i \in due \ claimed
    /\ claimed' = claimed \cup {i}
    /\ UNCHANGED <<phase, due, received>>

Receive(i) ==
    /\ phase = "Due"
    /\ i \in claimed \ received
    /\ received' = received \cup {i}
    /\ phase' = IF received' = due THEN "Settled" ELSE "Due"
    /\ UNCHANGED <<due, claimed>>

Release ==
    /\ phase \in {"Open", "Due"}
    /\ claimed = {}
    /\ phase' = "Released"
    /\ UNCHANGED <<due, claimed, received>>

Next ==
    \/ Agree
    \/ Release
    \/ \E i \in InstructionIds : Claim(i) \/ Receive(i)

Spec == Init /\ [][Next]_vars
=============================================================================
