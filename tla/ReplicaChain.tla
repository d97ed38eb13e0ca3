---------------------------- MODULE ReplicaChain ----------------------------
(***************************************************************************)
(* What chain replication promises (RFC-0862, "Chain Relay Topology"):     *)
(* node 1 writes a log, node i + 1 copies node i's, and every replica is   *)
(* a prefix of the log it copies that only grows, one entry at a time and  *)
(* in the order the writer committed them.                                 *)
(***************************************************************************)
EXTENDS Naturals

CONSTANTS
    N,       \* nodes of the chain
    MaxLsn   \* bound: entries the writer commits

VARIABLE length   \* length[i]: how much of the log node i holds

Init == length = [i \in 1 .. N |-> 0]

\* The writer commits.
Write ==
    /\ length[1] < MaxLsn
    /\ length' = [length EXCEPT ![1] = @ + 1]

\* A node takes the next entry over from its predecessor.
Copy(i) ==
    /\ length[i] < length[i - 1]
    /\ length' = [length EXCEPT ![i] = @ + 1]

Next == Write \/ \E i \in 2 .. N : Copy(i)

Spec == Init /\ [][Next]_length
=============================================================================
