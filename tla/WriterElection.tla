--------------------------- MODULE WriterElection ---------------------------
(***************************************************************************)
(* The writer-election substrate: octo-sync/src/substrate/cluster.rs,      *)
(* raft_like.rs and governance.rs.                                         *)
(*                                                                         *)
(* Cluster is shared by all nodes and every method of it runs under one    *)
(* mutex.  A node calls it in two steps, and other nodes move in between:  *)
(*   acquire_writer, heartbeat   read the node's HLC | call the cluster;   *)
(*   submit_*                    current_writer      | append to the WAL;  *)
(*   force_relinquish_writer     verify the attestation and consume its    *)
(*                               nonce               | clear the lease.    *)
(* Such a call is an element of calls, writes or forcing.  A node that     *)
(* stops loses its calls and the memory of its nonce tracker; the cluster  *)
(* and the nonce records survive.  clock[n] is the physical_ms that        *)
(* HlcClock::now returns at n: it never falls, and the clocks of two nodes *)
(* stay within MaxSkew of each other.  An attestation stands for one whose *)
(* signatures verify; the others are refused without a state change.       *)
(***************************************************************************)
EXTENDS Naturals, Sequences, FiniteSets

CONSTANTS
    Node,         \* WriterNodeId
    NoNode,       \* no leader
    Shard,        \* ShardKey
    Kind,         \* entry types a coordinator submits
    Tracker,      \* NonceTrackers of the deployment
    Attestation,  \* GovernanceAttestations: [shard, term, nonce]
    Lease,        \* lease_duration_ms
    MaxSkew,      \* how far two clocks are apart at most
    MaxClock,     \* bound: the highest clock value
    MaxTerm,      \* bound: the highest term
    MaxCalls,     \* bound: stamped calls in progress at once
    MaxSubmits,   \* bound: submits in progress at once
    MaxWal        \* bound: length of the WAL

ASSUME ElectionAssumption ==
    /\ NoNode \notin Node
    /\ Lease \in Nat \ {0}
    /\ {MaxSkew, MaxClock, MaxTerm, MaxCalls, MaxSubmits, MaxWal} \subseteq Nat
    /\ \A a \in Attestation : a.shard \in Shard /\ a.term \in Nat

VARIABLES
    clock,           \* clock[n]: n's hybrid logical clock, in ms
    leaders,         \* leaders[s]: the node holding the lease of s
    terms,           \* terms[s]: the last term granted for s
    last_heartbeat,  \* last_heartbeat[s]: the stamp the lease counts from
    dead,            \* dead_writers
    wal,             \* the shared WAL: entries in LSN order
    nonces,          \* durable nonce records
    used,            \* used[k]: nonces tracker k remembers
    calls,           \* stamped acquire and heartbeat calls
    writes,          \* submit calls past their leader check
    forcing,         \* attestations past verification, not yet in effect
    \* History, read by the properties only:
    grants,          \* every lease granted
    overtaken,       \* calls in progress that a later stamp of their node passed
    consumed         \* consumed[a]: how often a nonce was consumed

leaseVars == <<leaders, terms, last_heartbeat, grants>>
nonceVars == <<nonces, used, consumed>>
callVars == <<calls, overtaken>>
vars == <<clock, leaseVars, dead, wal, nonceVars, callVars, writes, forcing>>

-----------------------------------------------------------------------------
Clock == 0 .. MaxClock
Term == 0 .. MaxTerm
Call == [op : {"acquire", "heartbeat"}, node : Node, shard : Shard, at : Clock]
Write == [kind : Kind, writer : Node, shard : Shard]
Grant == [shard : Shard, term : Term, node : Node, at : Clock]

TypeOK ==
    /\ clock \in [Node -> Clock]
    /\ leaders \in [Shard -> Node \cup {NoNode}]
    /\ terms \in [Shard -> Term]
    /\ last_heartbeat \in [Shard -> Clock]
    /\ dead \subseteq Node
    /\ wal \in Seq(Write)
    /\ nonces \subseteq Attestation
    /\ used \in [Tracker -> SUBSET Attestation]
    /\ calls \subseteq Call
    /\ overtaken \subseteq calls
    /\ writes \subseteq Write
    /\ forcing \subseteq Node \X Attestation
    /\ grants \subseteq Grant
    /\ consumed \in [Attestation -> Nat]

Init ==
    /\ clock = [n \in Node |-> 0]
    /\ leaders = [s \in Shard |-> NoNode]
    /\ terms = [s \in Shard |-> 0]
    /\ last_heartbeat = [s \in Shard |-> 0]
    /\ dead = {}
    /\ wal = <<>>
    /\ nonces = {}
    /\ used = [k \in Tracker |-> {}]
    /\ calls = {}
    /\ overtaken = {}
    /\ writes = {}
    /\ forcing = {}
    /\ grants = {}
    /\ consumed = [a \in Attestation |-> 0]

\* Time passes at n.
Tick(n) ==
    /\ clock[n] < MaxClock
    /\ \A m \in Node : clock[n] + 1 <= clock[m] + MaxSkew
    /\ clock' = [clock EXCEPT ![n] = @ + 1]
    /\ UNCHANGED <<leaseVars, dead, wal, nonceVars, callVars, writes, forcing>>

-----------------------------------------------------------------------------
(* Leases *)

\* acquire_writer and heartbeat up to hlc.now().
Stamp(op, n, s) ==
    /\ Cardinality(calls) < MaxCalls
    /\ calls' = calls \cup
            {[op |-> op, node |-> n, shard |-> s, at |-> clock[n]]}
    /\ UNCHANGED <<overtaken, clock, leaseVars, dead, wal, nonceVars, writes, forcing>>

\* d takes effect.  Calls of its node for its shard with an older stamp are
\* still to get the lock.
Overtake(d) ==
    /\ calls' = calls \ {d}
    /\ overtaken' = (overtaken \ {d}) \cup
            {c \in calls : /\ c.node = d.node
                          /\ c.shard = d.shard
                          /\ c.at < d.at}

\* A call is refused and changes nothing.
Refuse(c) ==
    /\ calls' = calls \ {c}
    /\ overtaken' = overtaken \ {c}

\* The lease is taken one unit before it has run out.
Expired_early(now, last) == now + 1 >= last + Lease

\* now.saturating_sub(last) < lease_duration, negated.
Expired(now, last) == now >= last + Lease

\* The test of try_acquire_leader.
MayAcquire(c) ==
    /\ c.node \notin dead
    /\ \/ leaders[c.shard] \in {NoNode, c.node}
       \/ Expired(c.at, last_heartbeat[c.shard])

\* try_acquire_leader succeeds: the next term, even for the holder itself.
AcquireGranted(c) ==
    /\ c.op = "acquire"
    /\ MayAcquire(c)
    /\ terms[c.shard] < MaxTerm
    /\ leaders' = [leaders EXCEPT ![c.shard] = c.node]
    /\ terms' = [terms EXCEPT ![c.shard] = @ + 1]
    /\ last_heartbeat' = [last_heartbeat EXCEPT ![c.shard] = c.at]
    /\ grants' = grants \cup {[shard |-> c.shard, term |-> terms[c.shard] + 1,
                               node |-> c.node, at |-> c.at]}
    /\ Overtake(c)
    /\ UNCHANGED <<clock, dead, wal, nonceVars, writes, forcing>>

\* try_acquire_leader returns WriterUnavailable at once.
AcquireRefused(c) ==
    /\ c.op = "acquire"
    /\ ~MayAcquire(c)
    /\ Refuse(c)
    /\ UNCHANGED <<clock, leaseVars, dead, wal, nonceVars, writes, forcing>>

\* Any node of the cluster refreshes the lease.
MayHeartbeat_anyone(c) == c.node \notin dead

\* The test of heartbeat.  Whether the lease has run out is not asked.
MayHeartbeat(c) ==
    /\ c.node \notin dead
    /\ leaders[c.shard] = c.node

HeartbeatApplied(c) ==
    /\ c.op = "heartbeat"
    /\ MayHeartbeat(c)
    /\ last_heartbeat' = [last_heartbeat EXCEPT ![c.shard] = c.at]
    /\ Overtake(c)
    /\ UNCHANGED <<clock, leaders, terms, grants, dead, wal, nonceVars,
                   writes, forcing>>

\* heartbeat returns WriterUnavailable or LeaseExpired.
HeartbeatRefused(c) ==
    /\ c.op = "heartbeat"
    /\ ~MayHeartbeat(c)
    /\ Refuse(c)
    /\ UNCHANGED <<clock, leaseVars, dead, wal, nonceVars, writes, forcing>>

\* The lease goes, and the term with it.
ClearLease_term(s) ==
    /\ leaders' = [leaders EXCEPT ![s] = NoNode]
    /\ last_heartbeat' = [last_heartbeat EXCEPT ![s] = 0]
    /\ terms' = [terms EXCEPT ![s] = 0]

\* The leader and its heartbeat are removed from the maps; the term stays.
ClearLease(s) ==
    /\ leaders' = [leaders EXCEPT ![s] = NoNode]
    /\ last_heartbeat' = [last_heartbeat EXCEPT ![s] = 0]
    /\ terms' = terms

\* relinquish by the holder (any other node's call changes nothing).
Relinquish(n, s) ==
    /\ leaders[s] = n
    /\ ClearLease(s)
    /\ UNCHANGED <<clock, grants, dead, wal, nonceVars, callVars, writes, forcing>>

-----------------------------------------------------------------------------
(* Writes *)

\* A shard without a leader takes writes from anybody.
Leads_vacant(n, s) == leaders[s] \in {n, NoNode}

\* current_writer returns this node.  current_leader looks at neither the age
\* of the lease nor dead_writers.
Leads(n, s) == leaders[s] = n

\* A submit call finds itself the current leader.
SubmitChecked(kind, n, s) ==
    /\ Cardinality(writes) < MaxSubmits
    /\ Leads(n, s)
    /\ writes' = writes \cup {[kind |-> kind, writer |-> n, shard |-> s]}
    /\ UNCHANGED <<clock, leaseVars, dead, wal, nonceVars, callVars, forcing>>

\* RaftLikeDidWriteCoordinator::submit_register_validated
SubmitRegister(n, s) == "register" \in Kind /\ SubmitChecked("register", n, s)

\* RaftLikeDidWriteCoordinator::submit_revoke
SubmitRevoke(n, s) == "revoke" \in Kind /\ SubmitChecked("revoke", n, s)

\* RaftLikeDrainCoordinator::submit_drain
SubmitDrain(n, s) == "drain" \in Kind /\ SubmitChecked("drain", n, s)

\* append_wal_entry: the cluster assigns the next LSN, whoever asks.
AppendWalEntry(w) ==
    /\ Len(wal) < MaxWal
    /\ wal' = Append(wal, w)
    /\ writes' = writes \ {w}
    /\ UNCHANGED <<clock, leaseVars, dead, nonceVars, callVars, forcing>>

-----------------------------------------------------------------------------
(* Governance *)

\* verify_governance_attestation: NonceTracker::consume is the last check.  It
\* holds the shard's map entry from the insert to the durable record, and
\* takes the insert back if the record cannot be written.
ConsumeNonce(n, k, a) ==
    /\ a \notin used[k]
    /\ used' = [used EXCEPT ![k] = @ \cup {a}]
    /\ nonces' = nonces \cup {a}
    /\ consumed' = [consumed EXCEPT ![a] = @ + 1]
    /\ forcing' = forcing \cup {<<n, a>>}
    /\ UNCHANGED <<clock, leaseVars, dead, wal, callVars, writes>>

\* force_relinquish, for whoever leads the shard by now.
ForceRelinquish(n, a) ==
    /\ ClearLease(a.shard)
    /\ forcing' = forcing \ {<<n, a>>}
    /\ UNCHANGED <<clock, grants, dead, wal, nonceVars, callVars, writes>>

-----------------------------------------------------------------------------
(* Failures *)

\* kill
Kill(n) ==
    /\ n \notin dead
    /\ dead' = dead \cup {n}
    /\ UNCHANGED <<clock, leaseVars, wal, nonceVars, callVars, writes, forcing>>

\* revive
Revive(n) ==
    /\ n \in dead
    /\ dead' = dead \ {n}
    /\ UNCHANGED <<clock, leaseVars, wal, nonceVars, callVars, writes, forcing>>

\* A tracker is built without reading the records back.
Replay_nothing(k) == [used EXCEPT ![k] = {}]

\* NonceTracker::new
Replay(k) == [used EXCEPT ![k] = nonces]

\* n stops and starts again with tracker k.
Restart(n, k) ==
    /\ used' = Replay(k)
    /\ calls' = {c \in calls : c.node # n}
    /\ overtaken' = {c \in overtaken : c.node # n}
    /\ writes' = {w \in writes : w.writer # n}
    /\ forcing' = {f \in forcing : f[1] # n}
    /\ UNCHANGED <<clock, leaseVars, dead, wal, nonces, consumed>>

-----------------------------------------------------------------------------
LeaseStep ==
    \/ \E n \in Node, s \in Shard : \/ Stamp("acquire", n, s)
                                    \/ Stamp("heartbeat", n, s)
                                    \/ Relinquish(n, s)
    \/ \E c \in calls : \/ AcquireGranted(c)
                        \/ AcquireRefused(c)
                        \/ HeartbeatApplied(c)
                        \/ HeartbeatRefused(c)

WriteStep ==
    \/ \E n \in Node, s \in Shard : \/ SubmitRegister(n, s)
                                    \/ SubmitRevoke(n, s)
                                    \/ SubmitDrain(n, s)
    \/ \E w \in writes : AppendWalEntry(w)

GovernanceStep ==
    \/ \E n \in Node, k \in Tracker, a \in Attestation : ConsumeNonce(n, k, a)
    \/ \E f \in forcing : ForceRelinquish(f[1], f[2])

FailureStep ==
    \/ \E n \in Node : Kill(n) \/ Revive(n)
    \/ \E n \in Node, k \in Tracker : Restart(n, k)

Next ==
    \/ \E n \in Node : Tick(n)
    \/ LeaseStep
    \/ WriteStep
    \/ GovernanceStep
    \/ FailureStep

Spec == Init /\ [][Next]_vars

-----------------------------------------------------------------------------
(* Properties *)

\* Election safety: a term of a shard is granted once, whatever was
\* relinquished, forced, expired or restarted in between.
OneLeaderPerTerm ==
    \A g, h \in grants : g.shard = h.shard /\ g.term = h.term => g = h

\* The leader of a shard is the node its latest term was granted to.
LeaderHoldsLatestGrant ==
    \A s \in Shard : leaders[s] # NoNode =>
        \E g \in grants : /\ g.shard = s
                          /\ g.term = terms[s]
                          /\ g.node = leaders[s]

\* The writer of w was granted the lease of its shard at some time.
WasGranted(w) == \E g \in grants : g.shard = w.shard /\ g.node = w.writer

\* Every entry in the WAL, and every write about to be appended, comes from a
\* node that was granted the lease of that shard at some time.
LeaseBehindEveryWrite ==
    /\ \A w \in writes : WasGranted(w)
    /\ \A i \in 1 .. Len(wal) : WasGranted(wal[i])

\* What OneLeaderPerTerm rests on: no lease is ahead of its shard's term.
GrantsBehindTerms ==
    \A g \in grants : 1 <= g.term /\ g.term <= terms[g.shard]

\* Stamps come from clocks that do not fall behind them.
StampsBehindClocks ==
    \A c \in calls : c.at <= clock[c.node]

\* The clocks keep together.
ClocksTogether ==
    \A m, n \in Node : clock[m] <= clock[n] + MaxSkew

ElectionInv ==
    /\ TypeOK
    /\ GrantsBehindTerms
    /\ OneLeaderPerTerm
    /\ LeaderHoldsLatestGrant
    /\ LeaseBehindEveryWrite
    /\ StampsBehindClocks
    /\ ClocksTogether

\* A lease is honoured up to the clock skew: another node takes over only when
\* the displaced leader's own clock is within MaxSkew of the end of its lease,
\* however long the challenger's call was under way.
LeaseHonoured ==
    [][\A s \in Shard :
        (leaders[s] # NoNode /\ leaders'[s] \notin {NoNode, leaders[s]}) =>
            clock[leaders[s]] + MaxSkew >= last_heartbeat[s] + Lease]_leaders

\* The lease of a node that goes on leading is moved back by one kind of call
\* only: a heartbeat or acquire that read its clock before another call of that
\* node and got the lock after it.  No other node's call moves it, nor does any
\* expiry, death, forced relinquish or restart in between.
HeartbeatExtendsLease ==
    [][\A s \in Shard :
        (/\ leaders[s] # NoNode /\ leaders'[s] = leaders[s]
         /\ last_heartbeat'[s] < last_heartbeat[s]) =>
            \E c \in overtaken \ calls' : c.node = leaders[s] /\ c.shard = s
      ]_last_heartbeat

\* What HeartbeatExtendsLease rests on.  A lease counts from no later than its
\* holder's clock, and a call the holder has under way was stamped after the
\* lease it may refresh or was overtaken.
LeaseBehindClock ==
    \A s \in Shard : leaders[s] # NoNode =>
        last_heartbeat[s] <= clock[leaders[s]]

CallsAfterLease ==
    \A c \in calls : leaders[c.shard] = c.node =>
        last_heartbeat[c.shard] <= c.at \/ c \in overtaken

HeartbeatInv ==
    /\ TypeOK
    /\ StampsBehindClocks
    /\ LeaseBehindClock
    /\ CallsAfterLease

\* A nonce is single-use, across restarts of the node that consumed it.
NonceSingleUse ==
    \A a \in Attestation : consumed[a] <= 1

\* What it rests on, where all nodes share one tracker: a consumed nonce is in
\* the durable records and in the tracker's memory, which Replay restores.
ConsumedIsRemembered ==
    \A a \in Attestation : consumed[a] > 0 =>
        /\ a \in nonces
        /\ \A k \in Tracker : a \in used[k]

NonceInv ==
    /\ TypeOK
    /\ NonceSingleUse
    /\ ConsumedIsRemembered

-----------------------------------------------------------------------------
(* What comments, tests or RFCs of the repository say, and the code does not   *)
(* do: TLC refutes each of these (README.md, "Disagreements").                 *)

\* "Refresh the lease": a heartbeat or acquire of the node that leads does not
\* take its lease back.
HeartbeatRefreshes ==
    [][\A s \in Shard :
        (leaders[s] # NoNode /\ leaders'[s] = leaders[s]) =>
            last_heartbeat'[s] >= last_heartbeat[s]]_last_heartbeat

\* "only the elected leader may commit": no entry reaches the WAL while a
\* node other than its writer leads its shard.
OnlyLeaderCommits ==
    [][\A w \in writes : wal' = Append(wal, w) =>
            leaders[w.shard] \in {NoNode, w.writer}]_wal

\* "Active -> Relinquished: Lease expiry": a leader whose lease has run out by
\* its own clock is not let through to write.
ExpiredLeaderMayNotWrite ==
    [][\A w \in writes' \ writes :
        ~Expired(clock[w.writer], last_heartbeat[w.shard])]_writes

\* "Election term the attestation applies to": a forced relinquish ends no
\* lease of another term.
AttestationEndsItsTerm ==
    [][\A f \in forcing \ forcing' :
        leaders'[f[2].shard] # leaders[f[2].shard] =>
            f[2].term = terms[f[2].shard]]_forcing
=============================================================================
