---------------------------- MODULE WalTailStream ----------------------------
(***************************************************************************)
(* The writer side of the WAL-tail protocol: octo-sync/src/stream.rs.      *)
(*                                                                         *)
(* WalTailStreamer keeps each of its fields behind its own mutex and is    *)
(* shared by every thread of the writer node.  An action below is one      *)
(* critical section, so the interleavings of the model are those of the    *)
(* threads.  The calls that span several critical sections are split:      *)
(*   on_commit    advance current_lsn | test the pause flag and read the   *)
(*                WAL | fan out (one section: the loop runs under the      *)
(*                subscribers and txn_subscribers locks);                  *)
(*   subscribe    insert the channel  | insert the LSN tracker;            *)
(*   unsubscribe  remove the channel  | remove the LSN tracker;            *)
(*   on_lsn_ack   look the channel up | advance the tracker.               *)
(* A call between two of its sections is an element of commits,            *)
(* subscribing, unsubscribing or acking.  A WAL entry is its LSN, a        *)
(* WalTailChunk the range of LSNs it carries, and an error the transaction *)
(* it is about.                                                            *)
(***************************************************************************)
EXTENDS Naturals, Sequences, FiniteSets

CONSTANTS
    Peer,            \* SyncPeerId: the readers
    Txn,             \* transaction ids the engine passes to on_commit
    OutboxCapacity,  \* OUTBOX_CAPACITY: chunks one outbox may hold
    Burst,           \* rate_limit_burst: tokens of a fresh RateLimiter
    InitialLsn,      \* adapter.current_lsn() when the streamer is built
    MaxLsn,          \* bound: the highest LSN the engine commits
    AckLsn,          \* bound: the LSNs readers acknowledge
    MaxCommits,      \* bound: on_commit calls in progress at once
    MaxAcks,         \* bound: on_lsn_ack calls in progress at once
    MaxErrors        \* bound: length of the error queue

ASSUME BoundsAssumption ==
    /\ OutboxCapacity \in Nat \ {0}
    /\ Burst \in Nat
    /\ MaxLsn \in Nat
    /\ InitialLsn \in 0 .. MaxLsn
    /\ AckLsn \subseteq 0 .. MaxLsn
    /\ MaxCommits \in Nat \ {0}
    /\ MaxAcks \in Nat
    /\ MaxErrors \in Nat

VARIABLES
    current_lsn,      \* the streamer's own LSN counter
    paused,           \* the backpressure flag
    subscribers,      \* peers with a SubscriberChannel
    outbox,           \* outbox[p]: chunks queued for p, oldest first
    tokens,           \* tokens[p]: tokens left in p's RateLimiter
    peers,            \* peers with an LsnTracker
    watermark,        \* watermark[p]: the LSN p's tracker holds
    txn_subscribers,  \* txn_subscribers[x]: peers x was fanned out to
    error_queue,      \* CommitErrors not yet drained
    begun,            \* transactions whose on_commit was called
    commits,          \* on_commit calls past the current_lsn section
    failed,           \* transactions whose on_commit returned an error
    subscribing,      \* peers with a subscribe call between its sections
    unsubscribing,    \* peers with an unsubscribe call between its sections
    acking,           \* on_lsn_ack calls between their sections
    \* History, read by the properties only:
    since,            \* since[p]: current_lsn when p's channel was created
    shipped,          \* shipped[p]: LSNs ever queued on p's channel
    excused,          \* LSNs whose commit was paused or returned an error
    broke             \* <<x, p>>: the fan-out of x stopped at p

callVars == <<commits, failed, subscribing, unsubscribing, acking>>
channelVars == <<subscribers, outbox, tokens, since, shipped>>
trackerVars == <<peers, watermark>>
errorVars == <<txn_subscribers, error_queue, broke>>
vars == <<current_lsn, paused, begun, callVars, channelVars, trackerVars,
          errorVars, excused>>

-----------------------------------------------------------------------------
Lsn == 0 .. MaxLsn
Chunk == [from : Lsn, to : Lsn]
Commit == [txn : Txn, from : Lsn, to : Lsn, at : {"advanced", "read"}]

\* The LSNs a chunk or a commit carries.
Lsns(c) == c.from .. c.to

Disjoint(c, d) == c.to < d.from \/ d.to < c.from

\* The types, with the two limits of a channel: no outbox holds more than
\* OUTBOX_CAPACITY chunks and no bucket more than its burst.
TypeOK ==
    /\ current_lsn \in Lsn
    /\ paused \in BOOLEAN
    /\ subscribers \subseteq Peer
    /\ outbox \in [Peer -> Seq(Chunk)]
    /\ \A p \in Peer : Len(outbox[p]) <= OutboxCapacity
    /\ tokens \in [Peer -> 0 .. Burst]
    /\ peers \subseteq Peer
    /\ watermark \in [Peer -> Lsn]
    /\ txn_subscribers \in [Txn -> SUBSET Peer]
    /\ error_queue \in Seq(Txn)
    /\ begun \subseteq Txn
    /\ commits \subseteq Commit
    /\ failed \subseteq Txn
    /\ subscribing \subseteq Peer
    /\ unsubscribing \subseteq Peer
    /\ acking \subseteq Peer \X Lsn
    /\ since \in [Peer -> Lsn]
    /\ shipped \in [Peer -> SUBSET Lsn]
    /\ excused \subseteq Lsn
    /\ broke \subseteq Txn \X Peer

\* WalTailStreamer::new
Init ==
    /\ current_lsn = InitialLsn
    /\ paused = FALSE
    /\ subscribers = {}
    /\ outbox = [p \in Peer |-> <<>>]
    /\ tokens = [p \in Peer |-> 0]
    /\ peers = {}
    /\ watermark = [p \in Peer |-> 0]
    /\ txn_subscribers = [x \in Txn |-> {}]
    /\ error_queue = <<>>
    /\ begun = {}
    /\ commits = {}
    /\ failed = {}
    /\ subscribing = {}
    /\ unsubscribing = {}
    /\ acking = {}
    /\ since = [p \in Peer |-> 0]
    /\ shipped = [p \in Peer |-> {}]
    /\ excused = {}
    /\ broke = {}

-----------------------------------------------------------------------------
(* on_commit *)

\* A range the counter has passed is taken again.
NextInLine_reused(from) == from <= current_lsn + 1

\* A range that leaves LSNs out is taken for the next one.
NextInLine_skipping(from) == from > current_lsn

\* The check under the current_lsn lock.
NextInLine(from) == from = current_lsn + 1

\* Sections 1 and 2 accept the range: the counter moves to its end.
OnCommitAdvance(x, from, to) ==
    /\ x \notin begun
    /\ begun' = begun \cup {x}
    /\ Cardinality(commits) < MaxCommits
    /\ from <= to
    /\ NextInLine(from)
    /\ current_lsn' = to
    /\ commits' = commits \cup
            {[txn |-> x, from |-> from, to |-> to, at |-> "advanced"]}
    /\ UNCHANGED <<paused, failed, subscribing, unsubscribing, acking,
                   channelVars, trackerVars, errorVars, excused>>

\* Sections 1 and 2 refuse the range: nothing but the returned error.
OnCommitRefuse(x, from, to) ==
    /\ x \notin begun
    /\ begun' = begun \cup {x}
    /\ from > to \/ ~NextInLine(from)
    /\ failed' = failed \cup {x}
    /\ UNCHANGED <<current_lsn, paused, commits, subscribing, unsubscribing,
                   acking, channelVars, trackerVars, errorVars, excused>>

\* Section 3: the writer is paused; the call returns Ok and ships nothing.
OnCommitPaused(c) ==
    /\ c.at = "advanced"
    /\ paused
    /\ commits' = commits \ {c}
    /\ excused' = excused \cup Lsns(c)
    /\ UNCHANGED <<current_lsn, begun, paused, failed, subscribing,
                   unsubscribing, acking, channelVars, trackerVars,
                   errorVars>>

\* Sections 3 and 4: not paused, and the adapter returns the range.
OnCommitRead(c) ==
    /\ c.at = "advanced"
    /\ ~paused
    /\ commits' = (commits \ {c}) \cup {[c EXCEPT !.at = "read"]}
    /\ UNCHANGED <<current_lsn, begun, paused, failed, subscribing,
                   unsubscribing, acking, channelVars, trackerVars, errorVars,
                   excused>>

\* Sections 3 and 4: not paused, and the adapter cannot read the range.
OnCommitReadFails(c) ==
    /\ c.at = "advanced"
    /\ ~paused
    /\ commits' = commits \ {c}
    /\ failed' = failed \cup {c.txn}
    /\ excused' = excused \cup Lsns(c)
    /\ UNCHANGED <<current_lsn, begun, paused, subscribing, unsubscribing,
                   acking, channelVars, trackerVars, errorVars>>

\* RateLimiter::check.  It is check_at(0), whose refill needs 0 > last_refill:
\* a bucket only ever loses tokens.
HasToken(p) == tokens[p] > 0

\* One chunk more than the capacity.
HasRoom_off_by_one(p) == Len(outbox[p]) <= OutboxCapacity

\* SubscriberChannel::send
HasRoom(p) == Len(outbox[p]) < OutboxCapacity

\* The loop body: check takes a token, send queues the chunk, and the peer is
\* noted for the transaction.  Peers in S get the chunk; a peer in spent has
\* only paid for it.
Ship(c, S, spent) ==
    /\ tokens' = [p \in Peer |->
            IF p \in S \cup spent THEN tokens[p] - 1 ELSE tokens[p]]
    /\ outbox' = [p \in Peer |->
            IF p \in S THEN Append(outbox[p], [from |-> c.from, to |-> c.to])
                       ELSE outbox[p]]
    /\ txn_subscribers' = [txn_subscribers EXCEPT ![c.txn] = @ \cup S]
    /\ shipped' = [p \in Peer |->
            IF p \in S THEN shipped[p] \cup Lsns(c) ELSE shipped[p]]

\* Section 6: every subscriber takes the chunk.
OnCommitFanOut(c) ==
    /\ c.at = "read"
    /\ \A p \in subscribers : HasToken(p) /\ HasRoom(p)
    /\ Ship(c, subscribers, {})
    /\ commits' = commits \ {c}
    /\ UNCHANGED <<current_lsn, begun, paused, failed, subscribing,
                   unsubscribing, acking, subscribers, since, trackerVars,
                   error_queue, broke, excused>>

\* Section 6: check or send fails for peer f.  The map is iterated in an
\* arbitrary order, S being the peers that came before f; the ones after it
\* get nothing.  A full outbox is found only after the token was taken.
OnCommitFanOutBreaks(c, f, S) ==
    /\ c.at = "read"
    /\ ~(HasToken(f) /\ HasRoom(f))
    /\ S \subseteq {p \in subscribers \ {f} : HasToken(p) /\ HasRoom(p)}
    /\ Ship(c, S, {p \in {f} : HasToken(p)})
    /\ commits' = commits \ {c}
    /\ failed' = failed \cup {c.txn}
    /\ excused' = excused \cup Lsns(c)
    /\ broke' = broke \cup {<<c.txn, f>>}
    /\ UNCHANGED <<current_lsn, begun, paused, subscribing, unsubscribing,
                   acking, subscribers, since, trackerVars, error_queue>>

-----------------------------------------------------------------------------
(* The error queue *)

\* record_commit_error: the engine hands a returned error back.
RecordCommitError(x) ==
    /\ Len(error_queue) < MaxErrors
    /\ error_queue' = Append(error_queue, x)
    /\ failed' = failed \ {x}
    /\ UNCHANGED <<current_lsn, begun, paused, commits, subscribing,
                   unsubscribing, acking, channelVars, trackerVars,
                   txn_subscribers, broke, excused>>

\* The engine drops a returned error.
DropCommitError(x) ==
    /\ failed' = failed \ {x}
    /\ UNCHANGED <<current_lsn, begun, paused, commits, subscribing,
                   unsubscribing, acking, channelVars, trackerVars, errorVars,
                   excused>>

QueuedTxns == {error_queue[i] : i \in 1 .. Len(error_queue)}

\* What drain_error_queue returns: <<x, p>> for each peer p to demote.
Affected == UNION {{x} \X txn_subscribers[x] : x \in QueuedTxns}

\* drain_error_queue
DrainErrorQueue ==
    /\ error_queue # <<>>
    /\ error_queue' = <<>>
    /\ txn_subscribers' = [x \in Txn |->
            IF x \in QueuedTxns THEN {} ELSE txn_subscribers[x]]
    /\ UNCHANGED <<current_lsn, begun, paused, callVars, channelVars,
                   trackerVars, broke, excused>>

-----------------------------------------------------------------------------
(* Subscriptions, acknowledgements, backpressure and the transport *)

\* RateLimiter::new
FreshTokens(p) == Burst

\* subscribe, first section: a fresh channel replaces any old one.
SubscribeChannel(p) ==
    /\ subscribers' = subscribers \cup {p}
    /\ outbox' = [outbox EXCEPT ![p] = <<>>]
    /\ tokens' = [tokens EXCEPT ![p] = FreshTokens(p)]
    /\ since' = [since EXCEPT ![p] = current_lsn]
    /\ shipped' = [shipped EXCEPT ![p] = {}]
    /\ subscribing' = subscribing \cup {p}
    /\ UNCHANGED <<current_lsn, begun, paused, commits, failed, unsubscribing,
                   acking, trackerVars, errorVars, excused>>

\* subscribe, second section: a fresh tracker replaces any old one.
SubscribeTracker(p) ==
    /\ p \in subscribing
    /\ peers' = peers \cup {p}
    /\ watermark' = [watermark EXCEPT ![p] = 0]
    /\ subscribing' = subscribing \ {p}
    /\ UNCHANGED <<current_lsn, begun, paused, commits, failed, unsubscribing,
                   acking, channelVars, errorVars, excused>>

\* unsubscribe, first section: the channel goes, with what it still holds.
UnsubscribeChannel(p) ==
    /\ subscribers' = subscribers \ {p}
    /\ outbox' = [outbox EXCEPT ![p] = <<>>]
    /\ tokens' = [tokens EXCEPT ![p] = 0]
    /\ since' = [since EXCEPT ![p] = 0]
    /\ shipped' = [shipped EXCEPT ![p] = {}]
    /\ unsubscribing' = unsubscribing \cup {p}
    /\ UNCHANGED <<current_lsn, begun, paused, commits, failed, subscribing,
                   acking, trackerVars, errorVars, excused>>

\* unsubscribe, second section.
UnsubscribeTracker(p) ==
    /\ p \in unsubscribing
    /\ peers' = peers \ {p}
    /\ watermark' = [watermark EXCEPT ![p] = 0]
    /\ unsubscribing' = unsubscribing \ {p}
    /\ UNCHANGED <<current_lsn, begun, paused, commits, failed, subscribing,
                   acking, channelVars, errorVars, excused>>

\* on_lsn_ack, first section (an unknown peer gets UnknownPeer, no change).
\* The reader names any LSN.
AckLookup(p, lsn) ==
    /\ Cardinality(acking) < MaxAcks
    /\ p \in subscribers
    /\ acking' = acking \cup {<<p, lsn>>}
    /\ UNCHANGED <<current_lsn, begun, paused, commits, failed, subscribing,
                   unsubscribing, channelVars, trackerVars, errorVars,
                   excused>>

\* LsnTracker::advance: the new watermark; a lower LSN is LsnRegression and
\* an equal one a no-op, so neither moves it.
Advance(mark, lsn) == IF lsn > mark THEN lsn ELSE mark

\* on_lsn_ack, second section.
AckAdvance(p, lsn) ==
    /\ watermark' = IF p \in peers
                    THEN [watermark EXCEPT ![p] = Advance(@, lsn)]
                    ELSE watermark
    /\ acking' = acking \ {<<p, lsn>>}
    /\ UNCHANGED <<current_lsn, begun, paused, commits, failed, subscribing,
                   unsubscribing, channelVars, peers, errorVars, excused>>

\* set_paused
SetPaused(b) ==
    /\ paused # b
    /\ paused' = b
    /\ UNCHANGED <<current_lsn, begun, callVars, channelVars, trackerVars,
                   errorVars, excused>>

\* drain_outbox: the transport takes everything that is queued.
DrainOutbox(p) ==
    /\ p \in subscribers
    /\ outbox[p] # <<>>
    /\ outbox' = [outbox EXCEPT ![p] = <<>>]
    /\ UNCHANGED <<current_lsn, begun, paused, callVars, subscribers, tokens,
                   since, shipped, trackerVars, errorVars, excused>>

-----------------------------------------------------------------------------
CommitStep ==
    \/ \E x \in Txn, from, to \in Lsn : OnCommitAdvance(x, from, to)
    \/ \E c \in commits : \/ OnCommitPaused(c)
                          \/ OnCommitRead(c)
                          \/ OnCommitReadFails(c)
                          \/ OnCommitFanOut(c)
                          \/ \E f \in subscribers : \E S \in SUBSET subscribers :
                                OnCommitFanOutBreaks(c, f, S)

ErrorStep ==
    \/ \E x \in Txn, from, to \in Lsn : OnCommitRefuse(x, from, to)
    \/ \E x \in failed : RecordCommitError(x) \/ DropCommitError(x)
    \/ DrainErrorQueue

PeerStep ==
    \/ \E p \in Peer : \/ SubscribeChannel(p)
                       \/ SubscribeTracker(p)
                       \/ UnsubscribeChannel(p)
                       \/ UnsubscribeTracker(p)
                       \/ DrainOutbox(p)
                       \/ \E lsn \in AckLsn : AckLookup(p, lsn)
    \/ \E a \in acking : AckAdvance(a[1], a[2])
    \/ \E b \in BOOLEAN : SetPaused(b)

Next == CommitStep \/ ErrorStep \/ PeerStep

Spec == Init /\ [][Next]_vars

-----------------------------------------------------------------------------
(* Properties *)

\* No reader is sent an LSN twice, drained in between or not: what a commit in
\* progress is about to fan out has not been queued for anybody.
NothingSentTwice ==
    \A c \in commits, p \in Peer : \A l \in shipped[p] : l \notin Lsns(c)

\* No silent gap: an LSN committed after p's channel was created has been
\* queued for p, or belongs to an on_commit call still in progress, or its
\* on_commit call was skipped by the pause flag or returned an error.
NoSilentGap ==
    \A p \in subscribers : \A l \in (since[p] + 1) .. current_lsn :
        \/ l \in shipped[p]
        \/ l \in excused
        \/ \E c \in commits : l \in Lsns(c)

\* What these rest on: the ranges of the on_commit calls in progress lie at or
\* below current_lsn and are pairwise disjoint, and so does all that was shipped.
CommitsBehindLsn ==
    \A c \in commits : c.from <= c.to /\ c.to <= current_lsn

CommitsDisjoint ==
    \A c, d \in commits : c # d => Disjoint(c, d)

ShippedBehindLsn ==
    \A p \in Peer : \A l \in shipped[p] : l <= current_lsn

StreamInv ==
    /\ TypeOK
    /\ CommitsBehindLsn
    /\ CommitsDisjoint
    /\ NothingSentTwice
    /\ ShippedBehindLsn
    /\ NoSilentGap

-----------------------------------------------------------------------------
(* What comments, tests or RFCs of the repository say, and the code does not   *)
(* do: TLC refutes each of these (README.md, "Disagreements").                 *)

\* drain_outbox "Returns the chunks in order": the chunks of an outbox are
\* queued in increasing LSN order.
OutboxInLsnOrder ==
    \A p \in Peer : \A i, j \in 1 .. Len(outbox[p]) :
        i < j => outbox[p][i].to < outbox[p][j].from

\* The peers drain_error_queue hands to the engine for demotion are the ones
\* at which the fan-out of that transaction failed.
DemotesFailingPeers ==
    [][error_queue' = <<>> => Affected \subseteq broke]_error_queue

\* txn_subscribers "Maps each in-flight txn": a transaction it knows is in
\* progress, or failed and not yet drained.
OnlyInFlightTxnsTracked ==
    \A x \in Txn : txn_subscribers[x] # {} =>
        \/ \E c \in commits : c.txn = x
        \/ x \in failed
        \/ x \in QueuedTxns

\* Once no subscribe or unsubscribe call is in progress, the peers with a
\* tracker are the peers with a channel, so that on_lsn_ack, which tests the
\* channel, never drops the acknowledgement of a subscribed peer.
TrackerMatchesChannel ==
    subscribing \cup unsubscribing = {} => peers = subscribers
=============================================================================
