-------------------------- MODULE MCWriterElection --------------------------
(* Small instances of WriterElection for TLC. *)
EXTENDS WriterElection, TLC

\* Nodes are interchangeable, and so are trackers.
Symmetry == Permutations(Node) \cup Permutations(Tracker)

\* Validly signed attestations for the first term of every shard.
FirstTermAttestations == [shard : Shard, term : {1}, nonce : {"a"}]

\* Two of them, with different nonces.
TwoAttestations == [shard : Shard, term : {1}, nonce : {"a", "b"}]
=============================================================================
