---------------------------- MODULE MCSyncReader ----------------------------
(* Small instances of SyncReader for TLC. *)
EXTENDS SyncReader, TLC

Symmetry == Permutations(Sender)
=============================================================================
