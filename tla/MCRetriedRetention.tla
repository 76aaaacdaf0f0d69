--------------------------- MODULE MCRetriedRetention ---------------------------
(* One group, which may be closed under two intents and is asked for with each. *)
EXTENDS RetriedRetention

CONSTANTS g1, i1, i2, o1, a

AskFor(i) ==
    [groupId |-> g1, closeIntentId |-> i,
     receipt |-> [operationId |-> o1, intentVersion |-> 1, canonicalReceipt |-> a],
     evidence |-> [operationId |-> o1, intentVersion |-> 1]]
MCRequests == {AskFor(i1), AskFor(i2)}
=============================================================================
