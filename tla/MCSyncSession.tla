--------------------------- MODULE MCSyncSession ---------------------------
(* Small instances of SyncSession for TLC. *)
EXTENDS SyncSession, TLC

Symmetry == Permutations(Peer)
=============================================================================
