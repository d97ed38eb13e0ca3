--------------------------- MODULE MCWalTailStream ---------------------------
(* Small instances of WalTailStream for TLC. *)
EXTENDS WalTailStream, TLC

\* Peers are interchangeable, and so are transactions.
Symmetry == Permutations(Peer) \cup Permutations(Txn)
=============================================================================
