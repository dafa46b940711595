--------------------------- MODULE MCClientManager ---------------------------
(* Instances of ClientManager for TLC. *)
EXTENDS ClientManager

OneSlot == {0}
=============================================================================
