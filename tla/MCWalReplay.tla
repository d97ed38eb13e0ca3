---------------------------- MODULE MCWalReplay ----------------------------
(* Small instances of WalReplay for TLC. *)
EXTENDS WalReplay, TLC

Symmetry == Permutations(Shard) \cup Permutations(Kind)
=============================================================================
