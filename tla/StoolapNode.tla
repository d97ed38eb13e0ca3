---------------------------- MODULE StoolapNode ----------------------------
(***************************************************************************)
(* The sync protocol of a chain of stoolap-node processes over TCP:        *)
(* serve_writer and serve_reader in                                        *)
(* sync-e2e-tests/stoolap-node/src/main.rs.                                *)
(*                                                                         *)
(* Node 1 writes; node i reads from node i - 1 over link i and serves what *)
(* it applied to node i + 1.  A process connects once, when it starts.     *)
(* The reader sends the current_lsn of its database; the writer answers    *)
(* with what lies above it and then polls its own database for more.  A    *)
(* link delivers in order until it breaks, and then loses what was on its  *)
(* way.  The databases keep the contract of octo-sync/src/adapter.rs: they *)
(* are durable, idempotent, and current_lsn is the highest LSN applied.    *)
(***************************************************************************)
EXTENDS Naturals, Sequences, FiniteSets

CONSTANTS
    N,            \* nodes of the chain
    MaxLsn,       \* bound: entries the writer commits
    MaxRejected,  \* bound: entries a database rejects
    MaxRestarts   \* bound: processes restarted

ASSUME NodeAssumption ==
    /\ N \in Nat \ {0}
    /\ {MaxLsn, MaxRejected, MaxRestarts} \subseteq Nat

VARIABLES
    db,        \* db[i]: LSNs of the entries in node i's database
    link,      \* link[i]: "new", "asking", "up" or "ended", for the reader i
    request,   \* request[i]: the LSN the reader sent
    last,      \* last[i]: last_lsn of the serve_writer at the other end
    frames,    \* frames[i]: entries on link i
    \* Bounds and history, read by the properties only:
    rejected,  \* rejected[i]: entries node i's database rejected
    restarts   \* restarts so far

linkVars == <<link, request, last, frames>>
vars == <<db, linkVars, rejected, restarts>>

-----------------------------------------------------------------------------
Node == 1 .. N
Reader == 2 .. N
Lsn == 1 .. MaxLsn

TypeOK ==
    /\ db \in [Node -> SUBSET Lsn]
    /\ link \in [Reader -> {"new", "asking", "up", "ended"}]
    /\ request \in [Reader -> 0 .. MaxLsn]
    /\ last \in [Reader -> 0 .. MaxLsn]
    /\ frames \in [Reader -> Seq(Lsn)]
    /\ rejected \in [Node -> SUBSET Lsn]
    /\ restarts \in 0 .. MaxRestarts

Init ==
    /\ db = [i \in Node |-> {}]
    /\ link = [i \in Reader |-> "new"]
    /\ request = [i \in Reader |-> 0]
    /\ last = [i \in Reader |-> 0]
    /\ frames = [i \in Reader |-> <<>>]
    /\ rejected = [i \in Node |-> {}]
    /\ restarts = 0

Highest(S) == IF S = {} THEN 0 ELSE CHOOSE l \in S : \A k \in S : k <= l

\* adapter.current_lsn()
CurrentLsn(i) == Highest(db[i])

NextLsn == CurrentLsn(1) + 1

\* The writer's application commits.
Commit ==
    /\ CurrentLsn(1) < MaxLsn
    /\ db' = [db EXCEPT ![1] = @ \cup {NextLsn}]
    /\ UNCHANGED <<linkVars, rejected, restarts>>

-----------------------------------------------------------------------------
(* The link of reader i *)

\* TcpStream::connect, the handshake, and the request.
Connect(i) ==
    /\ link[i] = "new"
    /\ link' = [link EXCEPT ![i] = "asking"]
    /\ request' = [request EXCEPT ![i] = CurrentLsn(i)]
    /\ UNCHANGED <<db, last, frames, rejected, restarts>>

\* The connection is refused or breaks; neither side tries again.
Break(i) ==
    /\ link[i] # "ended"
    /\ link' = [link EXCEPT ![i] = "ended"]
    /\ frames' = [frames EXCEPT ![i] = <<>>]
    /\ UNCHANGED <<db, request, last, rejected, restarts>>

\* The entries after l, of which the first is taken for known.
After_skipping(l) == l + 2

\* request_lsn + 1, last_lsn + 1
After(l) == l + 1

\* The LSNs of S in ascending order.
InOrder(S) ==
    [k \in 1 .. Cardinality(S) |->
        CHOOSE l \in S : Cardinality({j \in S : j <= l}) = k]

\* read_wal_range(from, to) of node i.
ReadWalRange(i, from, to) == InOrder({l \in db[i] : from <= l /\ l <= to})

\* There is something to send, unless it is a single entry.
HasMore_batched(current, sent) == current > sent + 1

\* current > last_lsn
HasMore(current, sent) == current > sent

\* What a batch after sent puts on the link of i.
Batch(i, sent) ==
    LET current == CurrentLsn(i - 1)
    IN  IF HasMore(current, sent) THEN ReadWalRange(i - 1, After(sent), current)
                                  ELSE <<>>

\* serve_writer up to its loop: the initial batch.
ServeInitial(i) ==
    /\ link[i] = "asking"
    /\ link' = [link EXCEPT ![i] = "up"]
    /\ frames' = [frames EXCEPT ![i] = Batch(i, request[i])]
    /\ last' = [last EXCEPT ![i] = CurrentLsn(i - 1)]
    /\ UNCHANGED <<db, request, rejected, restarts>>

\* One turn of serve_writer's loop that finds new entries.
ServeMore(i) ==
    /\ link[i] = "up"
    /\ HasMore(CurrentLsn(i - 1), last[i])
    /\ frames' = [frames EXCEPT ![i] = @ \o Batch(i, last[i])]
    /\ last' = [last EXCEPT ![i] = CurrentLsn(i - 1)]
    /\ UNCHANGED <<db, link, request, rejected, restarts>>

\* serve_reader applies a frame.
ApplyFrame(i) ==
    /\ link[i] = "up"
    /\ frames[i] # <<>>
    /\ db' = [db EXCEPT ![i] = @ \cup {Head(frames[i])}]
    /\ frames' = [frames EXCEPT ![i] = Tail(@)]
    /\ UNCHANGED <<link, request, last, rejected, restarts>>

\* apply_wal_entry fails: serve_reader warns and goes on.
RejectFrame(i) ==
    /\ link[i] = "up"
    /\ frames[i] # <<>>
    /\ Cardinality(rejected[i]) < MaxRejected
    /\ rejected' = [rejected EXCEPT ![i] = @ \cup {Head(frames[i])}]
    /\ frames' = [frames EXCEPT ![i] = Tail(@)]
    /\ UNCHANGED <<db, link, request, last, restarts>>

\* Process i stops and starts again: the links at both its ends are gone.
Restart(i) ==
    /\ restarts < MaxRestarts
    /\ restarts' = restarts + 1
    /\ link' = [j \in Reader |-> IF j = i THEN "new"
                                 ELSE IF j = i + 1 THEN "ended" ELSE link[j]]
    /\ frames' = [j \in Reader |-> IF j \in {i, i + 1} THEN <<>> ELSE frames[j]]
    /\ UNCHANGED <<db, request, last, rejected>>

Next ==
    \/ Commit
    \/ \E i \in Reader : \/ Connect(i) \/ Break(i)
                         \/ ServeInitial(i) \/ ServeMore(i)
                         \/ ApplyFrame(i) \/ RejectFrame(i)
    \/ \E i \in Node : Restart(i)

Spec == Init /\ [][Next]_vars

\* serve_writer's loop wakes up every 100 ms and serve_reader's loop reads the
\* next frame as soon as there is one: both go on while their link is up.
Fairness ==
    \A i \in Reader :
        WF_vars(ServeInitial(i)) /\ WF_vars(ServeMore(i)) /\ WF_vars(ApplyFrame(i))

FairSpec == Spec /\ Fairness

-----------------------------------------------------------------------------
(* Properties *)

\* Every database holds a gapless prefix of the log of the one before it, over
\* broken links, restarts and stale requests.
PrefixReplicas ==
    /\ \A i \in Node : \E c \in 0 .. MaxLsn : db[i] = 1 .. c
    /\ \A i \in Reader : db[i] \subseteq db[i - 1]

\* What it rests on: a link carries, in order, what its reader lacks of what
\* the writer's end has sent.
LinkCarriesRest(i) ==
    link[i] = "up" =>
        /\ CurrentLsn(i) <= last[i] /\ last[i] <= CurrentLsn(i - 1)
        /\ Len(frames[i]) = last[i] - CurrentLsn(i)
        /\ \A k \in DOMAIN frames[i] : frames[i][k] = CurrentLsn(i) + k

\* A request that has not been answered still says where its reader stands.
RequestIsCurrent(i) == link[i] = "asking" => request[i] = CurrentLsn(i)

ChainInv ==
    /\ TypeOK
    /\ PrefixReplicas
    /\ \A i \in Reader : LinkCarriesRest(i) /\ RequestIsCurrent(i)

\* The chain implements the replication that RFC-0862 promises.
Chain == INSTANCE ReplicaChain WITH length <- [i \in Node |-> CurrentLsn(i)]
ImplementsReplicaChain == Chain!Spec

\* An entry the writer committed reaches every node of the chain unless a link
\* on its way is down or a database on its way rejects it: nothing else, no
\* poll that comes too early or too late, holds it up for good.
EntriesArrive ==
    \A i \in Reader : \A l \in Lsn :
        l \in db[1] ~> \/ l \in db[i]
                       \/ \E j \in 2 .. i : link[j] # "up" \/ l \in rejected[j]

\* Below the LSN a database claims to be at, it lacks only what it or a node
\* before it rejected: whatever breaks or restarts, current_lsn hides no other
\* hole from the next request.
HolesAreRejected ==
    \A i \in Node : \A l \in 1 .. CurrentLsn(i) :
        l \notin db[i] => \E j \in 2 .. i : l \in rejected[j]

\* Entry l is accounted for at node i.
Accounted(i, l) == l \in db[i] \/ \E j \in 2 .. i : l \in rejected[j]

\* Neither end of the link of i has anything to do.
Idle(i) ==
    /\ link[i] = "up"
    /\ frames[i] = <<>>
    /\ ~HasMore(CurrentLsn(i - 1), last[i])

\* A chain in which every poll finds nothing new and every link is empty up to a
\* node has nothing left to bring it: no race of a poll with an apply leaves an
\* entry behind that nobody would send again.
SettledIsComplete ==
    \A i \in Node :
        (\A j \in 2 .. i : Idle(j)) => \A l \in db[1] : Accounted(i, l)

\* What these rest on.  The frames of a link are in ascending order, none of them
\* beyond last_lsn, and what was sent and not applied or rejected yet is still on
\* its way.
LinkAccounts(i) ==
    link[i] = "up" =>
        /\ \A j, k \in DOMAIN frames[i] : j < k => frames[i][j] < frames[i][k]
        /\ \A k \in DOMAIN frames[i] : frames[i][k] <= last[i]
        /\ \A l \in 1 .. last[i] :
                Accounted(i, l) \/ \E k \in DOMAIN frames[i] : frames[i][k] = l

\* current_lsn is the highest LSN of a database: it has one.
HasHighest(i) == db[i] # {} => \E l \in db[i] : \A k \in db[i] : k <= l

HolesInv ==
    /\ TypeOK
    /\ HolesAreRejected
    /\ \A i \in Node : HasHighest(i)
    /\ \A i \in Reader : LinkAccounts(i) /\ RequestIsCurrent(i)

-----------------------------------------------------------------------------
(* What comments, tests or RFCs of the repository say, and the code does not   *)
(* do: TLC refutes each of these (README.md, "Disagreements").                 *)

\* "MVCCEngine rejected an applied WAL entry": "Transition to Terminated": a
\* node applies nothing beyond an entry its database rejected.
StopsAtRejected ==
    \A i \in Node : \A l \in rejected[i], k \in db[i] : l \notin db[i] => k < l
=============================================================================
