--------------------------- MODULE MCGroupClose ---------------------------
(* GroupClose, for TLC. *)
EXTENDS GroupClose

MCRetentionEnd == [t \in Instants |-> t + 1]
=============================================================================
