--------------------------- MODULE MCStoolapNode ---------------------------
(* Small instances of StoolapNode for TLC. *)
EXTENDS StoolapNode, TLC
=============================================================================
