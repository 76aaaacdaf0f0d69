---------------------------- MODULE AtomicInvitation ----------------------------
(***************************************************************************)
(* What the use of a recipient code promises its caller: the invitation is *)
(* saved and the code is consumed at once or not at all, and an answer     *)
(* "created" repeats what was saved.                                       *)
(***************************************************************************)
CONSTANTS
    Bodies,     \* the replies of an invitation
    None        \* stands for no reply

VARIABLES
    saved,      \* the reply saved with the invitation, or None
    consumed,   \* is the code consumed
    answer      \* what the caller was told

Init == saved = None /\ consumed = FALSE /\ answer = "none"
Tell(told) == answer = "none" /\ answer' = told
Create(body) ==
    /\ saved = None /\ saved' = body
    /\ consumed' = TRUE
    /\ Tell(body) \/ Tell("unavailable") \/ UNCHANGED answer
Answer ==
    /\ \/ saved # None /\ Tell(saved)
       \/ saved = None /\ Tell("denied")
       \/ Tell("unavailable")
    /\ UNCHANGED <<saved, consumed>>
Next == Answer \/ \E body \in Bodies : Create(body)
Spec == Init /\ [][Next]_<<saved, consumed, answer>>
=============================================================================
