# TLA+ models of CipherOcto's replicated data layer

CipherOcto is a Rust monorepo.  The part of it that keeps state in step between
machines is `octo-sync` (RFC-0862, "Stoolap data sync"): a writer node ships its
write-ahead log (WAL) to reader nodes, readers apply it and relay it, and a
small cluster elects the writer of each shard.  This directory holds TLA+ models
of that core, and of two parts that sit on it and race in the same way (the
request/reply registry of `octo-transport`, the budgets of the quota router), the
TLC configurations that check them on small instances, and TLAPS proofs of what
matters most for every instance.  `PROJECT.json` is the
index: components, runs, mutants, the map from definitions to source lines,
hazards and theorems.  Paths below are relative to the repository.

    tlc -workers 2 -config stream_concurrent.cfg MCWalTailStream
    tlapm WalTailStream_proofs.tla

## The system: components, state, operations

| component | state | operations | what is hard |
| --- | --- | --- | --- |
| WAL-tail streamer, `octo-sync/src/stream.rs`, `lsn.rs` | LSN counter, pause flag, channels (outbox and token bucket per reader), LSN trackers, transaction-to-reader map, error queue, each behind its own mutex | `on_commit`, `subscribe`, `unsubscribe`, `on_lsn_ack`, `set_paused`, `record_commit_error`, `drain_error_queue`, `drain_outbox` | a call takes several locks one after the other; a fan-out can stop half-way |
| Rate limiter, `stream.rs` | tokens, last refill, previous time | `check`, `check_at` | rounding, clocks that run backwards, time 0 |
| Writer election, `substrate/cluster.rs`, `raft_like.rs`, `governance.rs` | leader, term and heartbeat per shard, dead nodes, shared WAL, nonce records and trackers | `acquire_writer`, `heartbeat`, `relinquish`, `force_relinquish_writer`, `submit_register`, `submit_revoke`, `submit_drain`, `kill`, `revive` | leases against skewed clocks; a check and the write it guards are apart; restarts |
| Hybrid logical clock, `substrate/hlc.rs` | two atomics | `now`, `observe` | load and store without compare-and-swap; overflow of the logical part; wall clocks that jump |
| WAL replay, `substrate/wal_traits.rs`, `wal.rs`, `wal_storage.rs` | the log, `replay_state` | `append_wal_entry`, `replay_wal` | lost and damaged entries, shards that share one log |
| Reader path, `crates/octo-network/src/sync/dgp_integration.rs`, `octo-sync/src/session.rs`, `replay_cache.rs` | replay cache per peer, inbound lists, the database | `on_wal_tail`, `apply_wal_tail`, `request_wal_tail_from`, `handle_wal_tail_request`, `drain_inbound` | duplicates, reordering, damage, a chunk applied half-way, restarts |
| Sessions, `session.rs`, `state.rs` | lifecycle state, heartbeat and watermark per peer | `subscribe_peer`, `unsubscribe_peer`, `transition_peer`, `record_heartbeat`, `tick` | decisions of `tick` carried out later; two locks per registration |
| Chain relay, `sync-e2e-tests/stoolap-node/src/main.rs` | a database and two TCP links per process | `serve_writer`, `serve_reader` | broken links, restarts, polling, rejected entries |
| Merkle summaries and segments, `octo-sync/src/summary.rs`, `segment.rs`, `session.rs` | the snapshot directory and the table behind the adapter; a tree is built for each question | `from_segments`, `root`, `diff`, `segments_at`, `build_summary`, `handle_segment_request`, `regenerate_snapshot` | padding, trees of different height; a summary is stale when its segments are asked for; a request reads the database twice |
| Request/reply, `octo-transport/src/request_response.rs`, `node_transport.rs` | the registry of pending requests behind a mutex, a oneshot channel per call | `request_response`, `register_response_handler`, `dispatch_response`, `evict_expired_pending` | a reply races the timeout, a retry repeats the id, a future is dropped at any await, the sweeper |
| Key budgets, `crates/quota-router-core/src/storage.rs`, `schema.rs`, `middleware.rs` | `spend_ledger`, `api_keys.budget_limit`, `key_spend`, `octo_w_balances` in one database | `record_spend_ledger`, `record_spend_ledger_with_team`, `update_key`, `record_spend`, `reset_spend`, `deduct_octo_w` | several routers between two statements, retries after a lost answer, 64-bit sums |
| Carriers, scoring, key ring | carrier order, scores, key epochs | | not modelled yet, see the plan |
| The rest: network stack, adapters, quota router, coordinator, governance, settlement, wallet, vault, storage, numerics, command lines | see `PROJECT.json` | | not modelled, see below |

How they interact.  The database engine calls `on_commit` on the session
manager after each transaction; the manager passes it to the streamer, which
reads the WAL through the `DatabaseSyncAdapter`, asks each reader's rate limiter
and queues a chunk in each reader's outbox.  A transport loop drains the
outboxes.  On the other side the network handler decodes a chunk and hands it
to `apply_wal_tail`, which consults the peer's replay cache and applies the
entries through the adapter.  `tick` is polled; it returns actions and changes
nothing.  The election substrate is separate: nodes share one `Cluster` object
behind a mutex, stamp their calls with their own hybrid logical clocks, and
write to a WAL that `replay_wal` recovers.  A reader too far behind for the tail
compares Merkle summaries and pulls snapshot segments.  `NodeTransport` carries
requests of other crates (the identity resolver) and pairs replies with them.
The quota routers share nothing but the database.

What makes the parts correct:

* streamer: a reader is sent every LSN committed while it is subscribed, once,
  unless the pause flag or a returned error says otherwise;
* limiter: no more than the burst and the sustained rate, whatever clocks do;
* election: one leader per term, no write without a lease, a lease ends early
  only by consent or governance and moves back only by calls of its holder that
  overtake each other, a nonce works once;
* clock: stamps increase along calls and messages, drift is bounded;
* replay: nothing but committed entries, in order, or a failure;
* reader: what is remembered as applied was applied, whatever else arrived;
* sessions: no streaming without verification, no return from termination;
* relay: every replica is a gapless prefix, and entries keep arriving;
* summaries and segments: equal roots of one level mean equal leaves, `diff` names what
  differs and nothing else, a finished pull has what the summary promised;
* request/reply: a reply reaches the call it answers, once, and every call ends;
* budgets: no commit takes a key over its limit, a request is charged once, a
  deduction that is reported was made.

## Modules and how they correspond to the code

One action is one atomic step of the code: one critical section of a mutex, one
atomic load or store, one message handled.  A call that takes several such steps
leaves a record of itself in a variable (`commits`, `subscribing`, `acking`,
`calls`, `writes`, `forcing`, `reg`, `current`, `actions`, `serving`, `pc`) between them, and
other threads move in between.  Variables marked "history" are read by
properties only.  Inputs the code does not control (acknowledged LSNs, wall
clock readings, connection events, storage faults) are existentially quantified.

| module | models | correspondence |
| --- | --- | --- |
| `WalTailStream` | the streamer | `on_commit` is `OnCommitAdvance` (the `current_lsn` section), `OnCommitRead` / `OnCommitPaused` / `OnCommitReadFails`, and the fan-out loop, which runs under the channel lock: `OnCommitFanOut`, or `OnCommitFanOutBreaks` when a check or a send fails at some reader of the arbitrarily ordered map. `Ship` is the loop body |
| `RateLimiter` | one bucket | `CheckAt` is `check_at`, `Check` is `check_at(0)`; `credit` is an ideal bucket to compare with. `WalTailStream` uses what follows for `check`: a bucket there only loses tokens |
| `WriterElection` | cluster, coordinators, nonces | `Stamp` is `acquire_writer` or `heartbeat` up to the read of the clock; then, in whatever order the calls get the lock, `AcquireGranted`, `HeartbeatApplied` or a refusal; `Relinquish`, `ForceRelinquish`, the `Submit...` leader checks and the later `AppendWalEntry`, `ConsumeNonce`, `Restart` with `Replay` of the nonce records. `overtaken` is history: calls that a later stamp of their node passed |
| `HlcClock` | `now` and `observe` | one action per load and store; `pc[t]` is the position in the function, `reg[t]` its locals. A remote timestamp is anything a peer may send; past `u32::MAX` a build with overflow checks panics and one without wraps around (`overflow-checks = false`, `octo-sync/Cargo.toml:78`). `spoilt` and `fresh` are history: calls that overlapped or wrapped, and from which stamp on the clock stands for what it issued |
| `WalReplay` | append and replay | `ReadRange`, then one action per entry of the loop; an entry carries its fields twice, beside `prefix_bytes` and in it, as the code's does, and the medium may damage any of its parts |
| `SyncReader` | chunk delivery | `BeginApply` takes the cache lock, one action per entry, `EndApply` or `ApplyFails`; `net` only grows, so a chunk may be delivered any number of times, late or never. Bytes that are not the writer's have a wrong CRC, lack the magic or are too short for either; a damaged frame is refused or `Misread` as fewer or other entries |
| `SyncSession` | sessions | the transition table is `Table`; `Tick` computes the actions and `Execute` (an engine) or `Log` (stoolap-node) disposes of them |
| `StoolapNode` | the relay chain | `Connect`, `ServeInitial`, `ServeMore` (the polling loop), `ApplyFrame`, `RejectFrame`, `Break`, `Restart` |
| `MerkleSummary` | the tree | pure operators for any branching factor and height; a hash is a record that keeps what was hashed, so that equal hashes mean equal inputs; payloads and nodes are hashed alike, so a payload made of the right hashes has the hash of a node. `Padded` and `Unpadded` are the lists the loops of `compute_root` and `diff` go through |
| `AntiEntropy` | summary and segment pull, on `MerkleSummary` | `BuildSummary`, `Compare`, then per segment `ReadSegment` (up to `read_snapshot_segment`) and `SendSegment` (root check, `current_lsn`, the reader's write) or `SegmentNotFound`; `Commit`, `RegenerateSnapshot` and `LoseSegment` in between |
| `RequestResponse` | the registry and its calls | one action per critical section of `pending`; a call is named by its channel, so that a retry with the same id is told from the first. The receiver is dropped (`DropReceiver`) before the lock for the cancel is had (`CancelElapsed`) |
| `KeyBudget` | charging a key | one action per SQL statement: `LockKey`, `SumKey`, `Insert` or `Exceed`, `Commit`; `RecordWithTeam` gets as far as `TeamNotFound`; `Abort` is any failing statement or a dying router; `ReadSpend` and `WriteSpend`; `Deduct` and `Refused` |
| `ReplicaChain` | what a chain promises | abstract: the writer extends the log, a node copies one more entry |
| `MC...` | | symmetry sets and the attestations used by TLC |
| `..._proofs` | | theorems and their lemmas.  `SyncSession_proofs` is about `SyncSession` and `SyncReader`, `Clocks_proofs` about `HlcClock`, `RateLimiter` and `WriterElection`, which all compare clocks; the others are about the module they are named after.  Two modules that one proof module extends share no name, hence `ReaderSpec`, `HlcSpec` and `LimiterSpec` |

`StoolapNode` is refined against `ReplicaChain` by
`INSTANCE ReplicaChain WITH length <- [i \in Node |-> CurrentLsn(i)]`.

Code outside the repository is modelled from how it is used: the Stoolap
database (durable, idempotent, `current_lsn` is the highest LSN applied, the
contract of `octo-sync/src/adapter.rs`; for the quota router, the blocking row
locks of `SELECT ... FOR UPDATE` that `storage.rs` relies on and
`docs/research/stoolap-research.md:668-679` and RFC-0912 promise, and reads of
committed rows; that the repository also denies these locks is in the table of
disagreements), the engine that owns a session manager, the
reader of summaries (it does what `summary.rs` and RFC-0862 tell it to), the wall
clocks, the network and the storage.

## Runs

| run | module | what it checks |
| --- | --- | --- |
| `stream_concurrent` | `WalTailStream` | `NothingSentTwice`, `NoSilentGap`, `TypeOK`: two threads in `on_commit`, two readers that come, go, acknowledge and drain, pauses, read errors, full outboxes, empty buckets |
| `election_leases` | `WriterElection` | `OneLeaderPerTerm`, `LeaseBehindEveryWrite`, `NonceSingleUse`, `LeaseHonoured`, `HeartbeatExtendsLease`: all calls of two nodes with skewed clocks, deaths, restarts and governance |
| `hlc_order` | `HlcClock` | `BoundedDrift`, `StampsIncrease`, `HlcTypeOK`: two threads on one clock, a wall clock that jumps, any remote timestamp, the logical counter at its limit and past it |
| `limiter_rate` | `RateLimiter` | `SustainedRate`: callers' clocks that lag and run backwards |
| `replay_damage` | `WalReplay` | `FailClosed`, `CompleteIsWhole`, `FailuresAreExplained`: two faults, in any part of an entry, in a log of three entries of two shards, two replays |
| `reader_crash` | `SyncReader` | `PassedIsHeld`, `ReaderTypeOK`: two peers, a damaged or misread copy, a cache of one, a restart |
| `session_lifecycle` | `SyncSession` | `StreamingIsVerified`, `ApartOnlyByOverlap`, `TerminatedStays`: stale tick actions against events and resubscriptions |
| `node_refines` | `StoolapNode` | `PrefixReplicas` and `ImplementsReplicaChain`, over a chain of four |
| `node_liveness` | `StoolapNode` | `HolesAreRejected`, `SettledIsComplete`, and `EntriesArrive` under fairness, with a rejected entry and a restart |
| `segment_pull` | `AntiEntropy`, `MerkleSummary` | `RootsDecide`, `DiffIsExact`, `PullCompletes`: pulls against commits, regenerations and a lost file, with payloads that are hashes of others |
| `request_reply` | `RequestResponse` | `RegistryMatchesChannels`, `DeliveredIsReturned`, `ClosedIsExplained`, `CallsReturn`: a call and its retry, two senders, late and repeated replies, drops, the sweeper |
| `key_budget` | `KeyBudget` | `KeyBudgetHolds`, `ChargedOnce`, `CounterIsExact`, `UnpaidNeedsCredit`: two routers, two keys of one team, four events of which two are one request |

The runs of the streamer, the clock and the reader check `TypeOK`, `HlcTypeOK` and
`ReaderTypeOK` too, since they hold a limit of the code: the length of an outbox
(`OutboxCapacity`), the logical counter below `u32::MAX`, the size of a replay
cache; elsewhere
`TypeOK` is a conjunct of the inductive invariants, or documentation of the state
that can be added to the configuration and holds.  Each property has a mutant in
`PROJECT.json`: an operator defined just before the mapped one, its name
extended by what is wrong with it (`NextInLine_skipping`), that breaks the
property when it takes the other's place.

### Bounds and why they are enough

* `stream_concurrent`: two transactions over LSNs 1 and 2 and two calls at once
  are the least that can overlap or be reordered; an outbox of one and a bucket
  of two fill within the run; two readers let a fan-out stop between them.
* `election_leases`: two terms so that a lease changes hands, a lease of 2 and a
  skew of 1 so that a challenger's clock can be ahead, two stamped calls at once,
  of one node or of both, so that they can overtake each other, one submit at a
  time, one WAL entry, one shard (shards share nothing but the WAL).
* `hlc_order`: two threads on a clock, walls 0 and 1 with a cap of 1 and remote
  times up to 2, so that one can be beyond the cap; a logical limit of 3 with remote
  parts up to and including it, so that both overflows occur within three stamps.
* `limiter_rate`: 400 tokens per second makes a token worth 2.5 ms, so that
  roundings occur; a lag of 3 ms is more than a token.
* `replay_damage`: three entries allow two faults with a sound entry beside them, of
  two shards and two types so that a damaged field can hold another's value; the
  second replay starts from whatever the first left, a read error included.
* `reader_crash`: two LSNs, since a chunk of two is the least that can be half
  applied or misread; a cache of one overflows with the second entry.  One damaged
  copy is one of any kind: any entry altered, or any misreading of the frame.
* `session_lifecycle`: three seconds with a threshold of one let a peer time out
  between the first and the last; two peers give a tick two actions.
* `node_refines`, `node_liveness`: the fourth, or third, node reads from a relay
  that itself relays and restarts.
* `segment_pull`: a branching factor of 2 with two levels and up to four
  segments has padded, full and missing groups, trees of different height, and of
  the same height with different numbers of leaves; two commits let a snapshot be
  regenerated during a pull.  Two contents are enough for segments that differ and
  segments that happen to be equal; one is the two hashes of the other, so that it
  can stand for a node.  Only the first and the last segment of a table vary.
* `request_reply`: a call and a retry with its id, two senders so that one can
  fail after the other, a sweep age above the timeout, two replies so that one
  can be late or repeated.
* `key_budget`: limits of 1 and 2 and costs that fill them, an integer limit of 3
  so that a sum overflows, four calls by two routers, a balance of nothing and a
  credit.

`hlc_order`, `replay_damage`, the node runs, `segment_pull`, `request_reply` and
`key_budget` switch deadlock checking off: they end when the bound on stamps,
replays, restarts, commits, replies or calls is reached.

### Fairness

* `node_liveness`: weak fairness of `ServeInitial`, `ServeMore` and `ApplyFrame`
  of each link: `serve_writer`'s loop wakes up every 100 ms, `serve_reader`
  blocks on the next frame and goes on when it is there.  Nothing is assumed of
  commits, connections, breaks, restarts or rejections, and the property excuses
  an entry only while a link on its way is down.
* `request_reply`: time passes, and each call takes its next step: senders return
  (they are given the timeout, and `LastSend` bounds them), the runtime polls its
  futures and its timers fire.  No peer has to reply, nobody has to sweep.

`SyncSession.FairSpec` (time passes, ticks come, actions are disposed of) is used
only to refute the two liveness claims of the next section.

## Disagreements between the repository's words and the code

Each but the last is stated as a property in the last section of its module, and
TLC refutes it.  Two have a configuration of their own, because they need other constants;
the others are refuted under the run named here when the property takes the place
of the run's own ones (a temporal property without the `SYMMETRY` line, with
`CHECK_DEADLOCK FALSE`; the two about silence with `SPECIFICATION FairSpec`).
After a fix they can be added to the run.

| refuted with | property | the code | the repository says |
| --- | --- | --- | --- |
| `stream_order.cfg` | `OutboxInLsnOrder` | the LSN lock is released before the fan-out (`stream.rs:290`): two commits can be queued in reverse | "Returns the chunks in order." (`stream.rs:403`) |
| run `stream_concurrent` | `DemotesFailingPeers` | `drain_error_queue` returns the readers that took the chunk (`stream.rs:317,390`), not the one that failed | "pairs that should be demoted" (`stream.rs:384`) |
| run `stream_concurrent` | `OnlyInFlightTxnsTracked` | entries of successful transactions stay for good (`stream.rs:317,395`) | "Maps each in-flight txn" (`stream.rs:196`) |
| run `stream_concurrent` | `TrackerMatchesChannel` | racing `subscribe` and `unsubscribe` leave a channel without a tracker (`stream.rs:233-242`) | "single source of truth" (`stream.rs:363`) |
| run `election_leases` | `OnlyLeaderCommits` | leader check and append are apart and the append checks nothing (`raft_like.rs:207-228`) | "only the elected leader may commit" (`raft_like.rs:213`) |
| run `election_leases` | `ExpiredLeaderMayNotWrite` | `current_leader` ignores the lease (`cluster.rs:182-198`) | "Active \| Relinquished \| Lease expiry" (`rfcs/accepted/networking/0862-writer-election-bootstrap-v130.md:266`) |
| `election_replayed_nonce.cfg` | `NonceSingleUse`, two trackers | a tracker reads the nonce records at start only (`governance.rs:172-175`) | "Single-use nonce" (`governance.rs:50`) |
| run `election_leases` | `AttestationEndsItsTerm` | the term of an attestation is hashed and compared with nothing (`governance.rs:130`) | "Election term the attestation applies to." (`governance.rs:40`) |
| run `election_leases` | `HeartbeatRefreshes` | the clock is read before the lock is had (`raft_like.rs:105-111`) and the stamp stored as it is (`cluster.rs:177`): of two calls of a node that get the lock in reverse order, the second takes the lease back | "Refresh the lease" (`cluster.rs:162`), "refreshes the lease" (`raft_like.rs:55`) |
| run `hlc_order` | `StampsUnique` | load and store without compare-and-swap: overlapping calls return the same stamp (`hlc.rs:92-103`) | "thread-safe via atomics", "CAS loop" (`hlc.rs:47-50`) |
| run `hlc_order` | `OverflowIsRefused` | with a remote `u32::MAX` the sum overflows before it is compared (`hlc.rs:139,151`): a release build wraps around to 0 and issues a stamp before the remote one | "overflow guards on BOTH remote-derived branches" (`hlc.rs:113-114`) |
| run `limiter_rate` | `RefusalJustified` | `check` passes time 0 and never refills (`stream.rs:116`); with `Paths = {"check_at"}` and `Rate = 400`, rounding refuses too (`stream.rs:133,138`) | "Refills the bucket first." (`stream.rs:113`) |
| run `replay_damage` | `TamperingIsFound` | the fields `lsn`, `entry_type` and `shard_key` are used without comparison with the checksummed prefix (`wal_traits.rs:96-117`): an entry is applied with a damaged field | "tampering with LSN / EntryType / ShardKey invalidates the checksum" (`substrate/wal.rs:53-55`) |
| run `replay_damage` | `FailuresAreFaults` | a log two shards wrote to replays for neither (`wal_traits.rs:108-116`) | "gap, non-monotonic LSN, checksum mismatch" (`substrate/records.rs:70`) |
| run `replay_damage` | `SettledOnReturn` | an early return leaves `InProgress` (`wal_traits.rs:83`) | "Idle → InProgress → {Complete \| Failed}" (`substrate/state.rs:139-140`) |
| run `reader_crash` | `AppliedOnce` | a cache per peer: two peers, two applications (`session.rs:251`) | "skip if already applied" (`session.rs:237`) |
| run `reader_crash` | `EvictsOldest` | the smallest hash goes, not the oldest (`replay_cache.rs:55-58`) | "the oldest entry by `first_seen` is evicted" (`replay_cache.rs:21`) |
| run `reader_crash` | `NothingSpoiled` | the CRC is not checked of an entry without the magic or shorter than 36 bytes (`session.rs:577-584`), and a chunk has no checksum of its own: a damaged count or length still decodes (`envelope.rs:110-150`) | "Corrupted entries are skipped" (`session.rs:242`) |
| run `reader_crash` | `AppliesInLsnOrder` | chunks are applied in order of arrival (`session.rs:252`) | "never re-orders" (`rfcs/accepted/networking/0862-stoolap-data-sync.md:283`) |
| run `node_liveness` | `StopsAtRejected` | a rejected entry is logged and the next applied (`main.rs:738-741`) | "Transition to `Terminated`" (`0862-stoolap-data-sync.md:413`) |
| run `session_lifecycle` | `SessionsMatchChannels` | racing calls leave a session without a channel (`session.rs:161-176`) | "`Send + Sync`" manager (`session.rs:58`) |
| run `session_lifecycle` | `SuspectWasSilent` | a heartbeat after `tick` does not cancel its action (`session.rs:191,417`) | "No heartbeat for ..." (`state.rs:56`) |
| run `session_lifecycle` | `OnlyActivePeersReceive` | chunks are queued in every state (`session.rs:161`, `stream.rs:313`) | "an active state (i.e., the peer is receiving WAL chunks)" (`state.rs:73`) |
| run `session_lifecycle` | `WatermarkIsReported` | nothing advances the tracker that is reported (`session.rs:277,505`) | "Return the current LSN watermark" (`session.rs:504`) |
| run `session_lifecycle` | `SilenceIsNoticed` | a peer without any heartbeat is exempt (`session.rs:365,413`) | "No heartbeat for ..." (`state.rs:56`) |
| run `session_lifecycle` | `SilenceAfterHeartbeatIsNoticed` | stoolap-node logs the actions of a tick (`main.rs:330-333`) | "that the engine should execute" (`session.rs:401`) |
| run `segment_pull` | `WatermarkIsIncluded` | a segment is sent with `current_lsn` at the time of the answer (`segment.rs:178`); the LSN the adapter has for it (`adapter.rs:48`) is not used. A reader that goes on from there skips the commits in between | "the LSN of the highest committed entry included in this" segment (`0862-stoolap-data-sync.md:226-228`) |
| run `segment_pull` | `EveryPullCompletes` | leaves do not carry `segment_index`: with a gap in a directory and equal payloads, two different directories have equal leaves (`summary.rs:110-113`) and nothing is pulled | "descend the Merkle tree to find divergent segments" (`0862-stoolap-data-sync.md:328`) |
| run `segment_pull` | `EveryRootDecides` | payloads and nodes are hashed alike (`segment.rs:208-212`, `summary.rs:218-229`): one segment whose payload is the concatenated hashes of a full group has the root of that group, without a collision of BLAKE3 | "Merkle tree collision in `segment_root`": "Infeasible." (`docs/research/stoolap-data-sync-via-cipherocto-network.md:528`) |
| run `key_budget` | `TeamBudgetHolds` | `process_response` records every event by its key (`middleware.rs:196`); `record_spend_ledger_with_team` has no caller, and binds a text id to a `BLOB(16)` column (`storage.rs:871-881`, `schema.rs:40`), so that its team is not found | "When the event has a `team_id`, `record_spend_ledger_with_team` is used instead", "both key budget AND team budget must be enforced" (`rfcs/accepted/economics/0904-real-time-cost-tracking.md:295,338`) |
| assumed, not refuted | `KeyBudgetHolds` | "the stoolap fork does not implement `FOR UPDATE`", it "returns `NotSupported`" (`quota-router-storage/src/stoolap_spend_ledger.rs:12-24`) while `storage.rs:719` relies on it. The database is not in the repository; the model takes the promise. Without the lock the property fails (mutant `LockKey_unlocked`) | "Blocking row locks" (`docs/research/stoolap-research.md:668-679`), "pessimistic row locking" (`rfcs/accepted/economics/0912-stoolap-for-update-row-locking.md:13`) |

Seen while modelling, without a claim that contradicts them, and part of what the
models do:

* a reply that arrives before the loop over the senders has found that none took
  the request, or between timer and drop of the receiver, is reported as
  delivered and thrown away; the late cancel of a call takes out the entry of a
  retry with the same id (`DeliveredIsReturned` and `ClosedIsExplained` name
  these as the only cases);
* past `i64::MAX` the sum of a budget check wraps and admits anything
  (`storage.rs:765`, and `:945,951` on the team path);
* a retry of a recorded request at a full budget is answered with BudgetExceeded,
  and one with other token counts with Ok for the counts recorded first;
* an acknowledgement that straddles a resubscription of its peer raises the new
  tracker (`stream.rs:362-370`), whose watermark nothing reads;
* overlapping calls of `record_spend` lose an update, and undo a reset;
* `deduct_octo_w` returns Ok without a deduction when the balance was credited
  between its two statements (`UnpaidNeedsCredit`);
* a snapshot that shrank leaves the reader with segments nothing removes: the
  adapter has no call for it.

## What is proved

All theorems hold for every value of the constants that satisfies the `ASSUME`
of the module (bounds are naturals, a lease is not zero, and so on) and the
hypotheses named here.  An invariant named `...Inv` is the inductive one: TLC
checked it under the run's bounds before it was proved, and the properties
follow from it.

| theorem | states | argument |
| --- | --- | --- |
| `WalTailStream_proofs!Typing` | `[]TypeOK` | per action; an outbox is only added to after `HasRoom`, and a bucket only drawn from after `HasToken` |
| `WalTailStream_proofs!StreamInvariant`, `NoDuplicateShipping`, `GapsAreAccountedFor` | `[]StreamInv`, `[]NothingSentTwice`, `[]NoSilentGap` | neither property is inductive alone. `StreamInv` adds that ranges in progress lie at or below the counter (`CommitsBehindLsn`), do not overlap (`CommitsDisjoint`), and that all that was shipped lies at or below it (`ShippedBehindLsn`): a new range starts above the counter, so it meets nothing old |
| `SyncSession_proofs!SessionInvariant`, `OnlyVerifiedPeersStream`, `SessionsKeepTheirChannels`, `TerminationIsFinal`, `SessionTyping` | `[]SessionInv`, `[]StreamingIsVerified`, `[]ApartOnlyByOverlap`, `TerminatedStays`, `[]TypeOK` | `SessionInv` holds verification also of peers without a session, so that a stale action cannot find one that streams unverified; between its two sections, a subscribe or unsubscribe call that is alone has changed the channel already, and two calls at a time are overlapped. No row of `Table` leaves `Terminated`. The type is shown apart, from `SessionInv` before and after the step |
| `SyncSession_proofs!ReaderInvariant`, `PassedEntriesAreHeld` (of `SyncReader`) | `[]ReaderInv`, `[]PassedIsHeld` | `PassedIsHeld` needs `CachedIsApplied`: what a cache lets `apply_wal_tail` skip was applied, since an id enters the cache only after its apply, other bytes have other ids, and a cache does not outlive the process. `ReaderInv` holds the type too, with the size of the caches |
| `Clocks_proofs!ElectionInvariant`, `ElectionSafety`, `WritesAreLeased` | `[]ElectionInv`, `[]OneLeaderPerTerm`, `[]LeaseBehindEveryWrite` | no grant is ahead of its shard's term and the leader holds the latest grant, so the next grant opens a new term |
| `Clocks_proofs!LeasesAreHonoured` | `LeaseHonoured` | a call's stamp is behind its node's clock (`StampsBehindClocks`) and clocks are within the skew (`ClocksTogether`) |
| `Clocks_proofs!HeartbeatInvariant`, `HeartbeatsExtendLeases` | `[]HeartbeatInv`, `HeartbeatExtendsLease`, any number of calls | `HeartbeatInv`: a lease counts from no later than its holder's clock (`LeaseBehindClock`), and a call the holder has under way was stamped no earlier than the lease it may refresh, or was overtaken (`CallsAfterLease`) |
| `Clocks_proofs!NoncesAreSingleUse` | `[]NonceSingleUse`, assuming one tracker | `NonceInv`: a nonce that was consumed is in the records and in the tracker, which replays the records when it starts |
| `Clocks_proofs!HlcTyping`, `LimiterTyping` | `[]HlcTypeOK`, `[]LimiterTypeOK` | part of `DriftInv` and `LimiterInv` |
| `Clocks_proofs!DriftIsBounded` | `[]BoundedDrift`, any number of threads, any remote timestamp | `DriftInv` bounds the registers of calls in progress too |
| `Clocks_proofs!StampsAreOrdered` | `StampsIncrease`, any number of threads, any remote timestamp | `OrderInv`: a call that is not spoilt is alone on its clock (`Alone`), the clock is not behind what it still stands for (`ClockCovers`), and for each position of such a call its registers relate to the clock, to what was issued and to the remote stamp (`OrderAt`) |
| `Clocks_proofs!LimiterInvariant`, `RateIsSustained` | `[]LimiterInv`, `[]SustainedRate` | until the first refill the bucket has only lost tokens; after it, tokens and admissions are covered by the time up to the last refill, which only grows |
| `StoolapNode_proofs!ReplicasAreGapless` | `[]PrefixReplicas`, assuming `MaxRejected = 0` | `ChainInv`: a link carries, in order, exactly what its reader lacks of what was sent (`LinkCarriesRest`), and an unanswered request still tells where its reader stands |
| `StoolapNode_proofs!ImplementsChain` | `Spec => ImplementsReplicaChain`, same assumption | every step maps to a `Write`, a `Copy` or a stutter |
| `StoolapNode_proofs!HolesInvariant`, `OnlyRejectedAreMissing` | `[]HolesInv`, `[]HolesAreRejected`, any rejections | `HolesInv`: the frames of a link ascend, and what was sent is in the reader's database, rejected or still on the link (`LinkAccounts`) |
| `StoolapNode_proofs!SettledChainsAreComplete` | `[]SettledIsComplete` | the safety half of `EntriesArrive`: when no poll up to a node has anything to send and its links are empty, the node has every entry of the writer that it or a relay before it did not reject. From `HolesInv`, and for the length of the chain by the first node that would lack one |
| `WalReplay_proofs!ReplayFailsClosed` | `[]FailClosed`, any damage | `SoundInv`: every entry stored or read has the checksummed parts of an entry of the log or a checksum that fails (`Derived`), so one that passes the checksum was appended, and if its fields agree with its prefix then it is, in sequence, the next of the log |
| `WalReplay_proofs!WholeInvariant`, `CompleteReplaysAreWhole`, `FailuresHaveReasons` | `[]WholeInv`, `[]CompleteIsWhole`, `[]FailuresAreExplained` | `WholeInv`: without faults the medium is the log, the batch is the part of it the replay asked for, and what was looked at was applied |
| `RequestResponse_proofs!RequestInvariant`, `RegistryAgrees`, `DeliveredRepliesAreReturned`, `ClosedHasACause` | `[]RequestInv`, `[]RegistryMatchesChannels`, `[]DeliveredIsReturned`, `[]ClosedIsExplained` | `RequestInv`: an entry is under its call's id with an open channel and a receiver of an open channel has its entry (`EntriesAreOpen`); where a call is bounds where it was when it took a reply (`AcceptedFits`) and who may have closed its channel (`ClosedFits`) |
| `KeyBudget_proofs!BudgetInvariant`, `KeysKeepTheirBudget`, `RequestsAreChargedOnce` | `[]BudgetInv`, `KeyBudgetHolds`, `[]ChargedOnce` | `BudgetInv`: a row has one holder, so the limit and the sum a transaction read of its key stand until it commits (`KeyReadStands`) and no one inserts the same request beside it (`CommitIsDue`) |
| `KeyBudget_proofs!AccountInvariant`, `CountersAreExact`, `UnpaidWasCredited` | `[]AccountInv`, `[]CounterIsExact`, `UnpaidNeedsCredit` | `AccountInv`: a call about to write the counter still has its value unless another wrote it since (`CountStands`), and a refused call could still not be paid for unless somebody paid in since (`RefusalStands`) |
| `AntiEntropy_proofs!SameRoot` | `ComputeRoot(a) = ComputeRoot(b) <=> a = b`, for lists of leaves of any length up to `Branch ^ MaxLevel` that are `Comparable`: both reach one node at the same level, or one is empty | a hash keeps its input, so a node of a level determines its group on the level below, and with the roots at one level the two trees are taken apart level by level; padding is told from content because the zero hash of a level is above zeros only, and a leaf is never one |
| `AntiEntropy_proofs!DiffOfLists` | `Diff(a, b)` is, at every level up to the one where a single node is left, the nodes above a leaf that differs or that one list lacks | a node differs if and only if a leaf below it does (`Above` is monotone, and a group holds the leaves whose quotient it is); the shorter list may run out of levels first |
| `AntiEntropy_proofs!RootsDecideAlways`, `DiffIsExactAlways`, `PullCompletesAlways`, `AntiEntropyTypeCorrect` | `[]RootsDecide`, `[]DiffIsExact`, `[]PullCompletes`, `[]TypeOK` | the first two from the lemmas above and the types. `IInv` for the pull: there is a summary while one is in progress, what is still to be served is part of it (`Pulls`), and each of its segments is at its place or still to be served, unless the pull broke off, or positions did not stand for segments or equal roots for equal leaves when it compared (`Accounted`; the last two are the cases `EveryPullCompletes` is refuted with) |

Two hypotheses are left, real limits of the code with a counterexample each:
`MaxRejected = 0`, since a rejected entry leaves a hole (`StopsAtRejected`), with
`OnlyRejectedAreMissing` for what holds without it; and one tracker, since one that
did not see a nonce accepts it again (`election_replayed_nonce.cfg`).  Where else a
claim of the repository does not hold, the theorem names the exception in its
statement (calls that overlap or overtake each other, fields beside the prefix,
roots of different levels) and the claim itself is in the table of disagreements.

What the recursive functions of `MerkleSummary` compute at every level is proved
without an induction theorem, whose operator parameter the provers cannot
instantiate: `AntiEntropy_proofs!LevelInduction` takes the set of levels at which a
statement holds, and a least level outside of it (`LeastNatural`, from the
well-foundedness of the naturals) would contradict the step.

Only model-checked: `EntriesArrive` and `CallsReturn`, which are liveness under
fairness and out of reach of the prover.  Of the first the safety half,
`SettledIsComplete`, is proved, see above.  Every invariant and action property of a
run is proved.

## What is not modelled, and why

* Wire encodings, hashes, signatures and key derivation: taken as what they are
  used for (a chunk that decodes or does not, a checksum that matches or does
  not, an attestation that verifies).
* `gc_expired_nonces` (no caller), the `crdt` feature's local fallback (off, and
  its reconciliation is not in the repository).
* Carriers, scoring and key rotation: planned.
* `select_gossip_peers` and relay scores of a session manager; `broadcast`,
  `send_best` and `dispatch` of a transport, which keep no state; `reject` of the
  registry, which nothing calls.
* In the quota router: keys and teams as records, and the checks made before a
  request is served (`middleware.rs:112`, which reads a counter the ledger path
  never writes, and `proxy.rs`); they refuse early and guarantee nothing.
* Platform adapters, onboarding tools, drivers and command lines: I/O.
* `determin`, `zk-*`, the algorithm and encoding crates: wide arithmetic and
  cryptography.
* The rest of the quota router, the coordinator, governance, settlement, wallet, vault,
  policy, reputation and storage crates, and the network stack apart from the
  sync handler: later, see the plan.

## Plan

Done: the replication and election core; summaries and segments, request/reply
correlation, key budgets; proofs of every safety property the runs check.  Left:

1. `Carrier`: the order in which `carrier.rs` tries and leaves carriers, and
   what a failed `send_best` in stoolap-node's drain loop loses.
2. `KeyEpoch`: rotation in `keyring.rs` against messages of the last epoch.
3. `SmEngine`: the Mint, Settled, Consumed machine of `quota-router-sm-engine`.
4. Coordinator handover and slash tallies, then gossip dispatch in `octo-network`.
