---------------------------- MODULE SyncSession ----------------------------
(***************************************************************************)
(* The per-peer sessions of a node: SyncSessionManager in                  *)
(* octo-sync/src/session.rs and the lifecycle table of                     *)
(* octo-sync/src/state.rs.                                                 *)
(*                                                                         *)
(* Two mutexes are involved, that of the streamer's channels and that of   *)
(* the session map; subscribe_peer and unsubscribe_peer take them one      *)
(* after the other.  tick computes its TickActions under the lock of the   *)
(* sessions and returns them; the engine carries them out afterwards, one  *)
(* by one, while the peers go on.  The engine (the code that owns the      *)
(* manager) is external: what it reports with transition_peer is any       *)
(* connection event, which the lifecycle table accepts or refuses.         *)
(***************************************************************************)
EXTENDS Naturals

CONSTANTS
    Peer,       \* SyncPeerId
    Engine,     \* what becomes of TickActions: the engine "executes" them one
                \* by one, or "logs" them (stoolap-node)
    Threshold,  \* heartbeat_interval_secs * suspect_multiplier
    MaxTime,    \* bound: the last second
    MaxLsn      \* bound: the highest LSN acknowledged

ASSUME SessionAssumption ==
    /\ Engine \subseteq {"executes", "logs"}
    /\ {Threshold, MaxTime, MaxLsn} \subseteq Nat
    /\ 1 <= MaxTime

VARIABLES
    time,            \* Unix seconds
    sessions,        \* peers with a PeerSession
    state,           \* state[p]: its SyncLifecycle
    last_heartbeat,  \* last_heartbeat[p]: last_heartbeat_unix, 0 before any
    lsn_tracker,     \* lsn_tracker[p]: the watermark of the PeerSession
    channels,        \* peers with a channel in the streamer
    watermark,       \* watermark[p]: the LsnTracker of the streamer
    outbox,          \* peers whose channel holds chunks
    actions,         \* TickActions not yet carried out
    subscribing,     \* peers between the two sections of subscribe_peer
    unsubscribing,   \* peers between the two sections of unsubscribe_peer
    \* History, read by the properties only:
    verified,        \* peers whose signature was verified since they connected
    overlapped       \* peers that were subscribed and unsubscribed at a time

peerVars == <<sessions, state, last_heartbeat, lsn_tracker, verified>>
streamVars == <<channels, watermark, outbox>>
callVars == <<subscribing, unsubscribing, overlapped>>
vars == <<time, peerVars, streamVars, actions, callVars>>

-----------------------------------------------------------------------------
State == {"Init", "Connecting", "Authenticating", "Streaming", "Suspect",
          "Reconnecting", "Terminated"}

\* What the engine reports about a connection.
Event == {"TlsHandshakeComplete", "ConnectTimeoutExceeded", "SignatureValid",
          "SignatureInvalid", "LsnRegression", "IdentityEpochRollback",
          "ReconnectAttemptsExhausted", "MissionTerminated"}

ActionKind == {"TransitionToSuspect", "TransitionToReconnecting", "AttemptReconnect"}

TypeOK ==
    /\ time \in 1 .. MaxTime
    /\ sessions \subseteq Peer /\ channels \subseteq Peer /\ outbox \subseteq channels
    /\ state \in [Peer -> State]
    /\ last_heartbeat \in [Peer -> 0 .. MaxTime]
    /\ \A p \in Peer : last_heartbeat[p] <= time
    /\ {lsn_tracker, watermark} \subseteq [Peer -> 0 .. MaxLsn]
    /\ actions \subseteq ActionKind \X Peer
    /\ subscribing \subseteq Peer /\ unsubscribing \subseteq Peer
    /\ verified \subseteq Peer /\ overlapped \subseteq Peer

Init ==
    /\ time = 1
    /\ sessions = {} /\ channels = {} /\ outbox = {} /\ actions = {}
    /\ state = [p \in Peer |-> "Init"]
    /\ last_heartbeat = [p \in Peer |-> 0]
    /\ lsn_tracker = [p \in Peer |-> 0] /\ watermark = [p \in Peer |-> 0]
    /\ subscribing = {} /\ unsubscribing = {} /\ verified = {} /\ overlapped = {}

\* A second passes.
Pass ==
    /\ time < MaxTime
    /\ time' = time + 1
    /\ UNCHANGED <<peerVars, streamVars, actions, callVars>>

-----------------------------------------------------------------------------
(* The lifecycle *)

\* The transition table of StateTransition::is_allowed.
Table ==
    {<<"Init", "Connecting", "LocalConfigMatched">>,
     <<"Connecting", "Authenticating", "TlsHandshakeComplete">>,
     <<"Connecting", "Terminated", "ConnectTimeoutExceeded">>,
     <<"Authenticating", "Streaming", "SignatureValid">>,
     <<"Authenticating", "Terminated", "SignatureInvalid">>,
     <<"Streaming", "Suspect", "HeartbeatTimeout">>,
     <<"Streaming", "Terminated", "LsnRegression">>,
     <<"Streaming", "Terminated", "IdentityEpochRollback">>,
     <<"Streaming", "Terminated", "MissionTerminated">>,
     <<"Suspect", "Reconnecting", "ReconnectIntervalElapsed">>,
     <<"Reconnecting", "Connecting", "ReconnectIntervalElapsed">>,
     <<"Reconnecting", "Terminated", "ReconnectAttemptsExhausted">>}

\* A peer streams as soon as its connection stands.
IsAllowed_unverified(from, to, trigger) ==
    <<from, to, trigger>> \in
        Table \cup {<<"Connecting", "Streaming", "TlsHandshakeComplete">>}

\* A reconnect is let through whatever became of the peer.
IsAllowed_revive(from, to, trigger) ==
    \/ <<from, to, trigger>> \in Table
    \/ to = "Connecting" /\ trigger = "ReconnectIntervalElapsed"

IsAllowed(from, to, trigger) == <<from, to, trigger>> \in Table

\* Peer::transition, the peer being known: nothing else of it changes.  An
\* unknown peer or a transition that is not allowed is an error.
Transition(p, to, trigger) ==
    IF p \in sessions /\ IsAllowed(state[p], to, trigger)
    THEN /\ state' = [state EXCEPT ![p] = to]
         /\ verified' = IF trigger = "SignatureValid" THEN verified \cup {p}
                        ELSE IF to = "Connecting" THEN verified \ {p} ELSE verified
    ELSE UNCHANGED <<state, verified>>

\* The engine calls transition_peer, to some effect.
TransitionPeer(p, to, event) ==
    /\ p \in sessions
    /\ IsAllowed(state[p], to, event)
    /\ Transition(p, to, event)
    /\ UNCHANGED <<time, sessions, last_heartbeat, lsn_tracker, streamVars, actions,
                   callVars>>

HeardAt == time

\* record_heartbeat
RecordHeartbeat(p) ==
    /\ p \in sessions
    /\ last_heartbeat' = [last_heartbeat EXCEPT ![p] = HeardAt]
    /\ UNCHANGED <<time, sessions, state, lsn_tracker, verified, streamVars, actions,
                   callVars>>

-----------------------------------------------------------------------------
(* Subscriptions *)

\* subscribe_peer, streamer.subscribe: a fresh channel.
SubscribeChannel(p) ==
    /\ channels' = channels \cup {p}
    /\ watermark' = [watermark EXCEPT ![p] = 0]
    /\ outbox' = outbox \ {p}
    /\ subscribing' = subscribing \cup {p}
    /\ overlapped' = overlapped \cup (unsubscribing \cap {p})
    /\ UNCHANGED <<time, peerVars, actions, unsubscribing>>

\* subscribe_peer, peers.insert: a fresh session replaces any old one, and has
\* gone from Init to Connecting.
SubscribeSession(p) ==
    /\ p \in subscribing
    /\ sessions' = sessions \cup {p}
    /\ state' = [state EXCEPT ![p] = "Connecting"]
    /\ last_heartbeat' = [last_heartbeat EXCEPT ![p] = 0]
    /\ lsn_tracker' = [lsn_tracker EXCEPT ![p] = 0]
    /\ verified' = verified \ {p}
    /\ subscribing' = subscribing \ {p}
    /\ UNCHANGED <<time, streamVars, actions, unsubscribing, overlapped>>

\* unsubscribe_peer, streamer.unsubscribe.
UnsubscribeChannel(p) ==
    /\ channels' = channels \ {p}
    /\ watermark' = [watermark EXCEPT ![p] = 0]
    /\ outbox' = outbox \ {p}
    /\ unsubscribing' = unsubscribing \cup {p}
    /\ overlapped' = overlapped \cup (subscribing \cap {p})
    /\ UNCHANGED <<time, peerVars, actions, subscribing>>

\* A session that has ended is kept.
Without_terminated(p) == IF state[p] = "Terminated" THEN sessions ELSE sessions \ {p}

Without(p) == sessions \ {p}

\* unsubscribe_peer, peers.remove.
UnsubscribeSession(p) ==
    /\ p \in unsubscribing
    /\ sessions' = Without(p)
    /\ state' = [state EXCEPT ![p] = "Init"]
    /\ last_heartbeat' = [last_heartbeat EXCEPT ![p] = 0]
    /\ lsn_tracker' = [lsn_tracker EXCEPT ![p] = 0]
    /\ verified' = verified \ {p}
    /\ unsubscribing' = unsubscribing \ {p}
    /\ UNCHANGED <<time, streamVars, actions, subscribing, overlapped>>

-----------------------------------------------------------------------------
(* The streamer *)

\* on_commit queues a chunk on every channel.
OnCommit ==
    /\ outbox # channels
    /\ outbox' = channels
    /\ UNCHANGED <<time, peerVars, channels, watermark, actions, callVars>>

\* drain_outbox
DrainOutbox(p) ==
    /\ p \in outbox
    /\ outbox' = outbox \ {p}
    /\ UNCHANGED <<time, peerVars, channels, watermark, actions, callVars>>

\* on_lsn_ack, for an LSN that advances the watermark.
OnLsnAck(p, lsn) ==
    /\ p \in channels
    /\ lsn > watermark[p]
    /\ watermark' = [watermark EXCEPT ![p] = lsn]
    /\ UNCHANGED <<time, peerVars, channels, outbox, actions, callVars>>

-----------------------------------------------------------------------------
(* tick *)

Elapsed(since) == IF time > since THEN time - since ELSE 0

\* The heartbeat timeout of check_heartbeat_timeouts and tick.
TimedOut(p) ==
    /\ state[p] = "Streaming"
    /\ last_heartbeat[p] > 0
    /\ Elapsed(last_heartbeat[p]) > Threshold

\* What tick returns.
Due ==
    {<<"TransitionToSuspect", p>> : p \in {q \in sessions : TimedOut(q)}} \cup
    {<<"TransitionToReconnecting", p>> :
        p \in {q \in sessions : state[q] = "Suspect"}} \cup
    {<<"AttemptReconnect", p>> :
        p \in {q \in sessions : state[q] = "Reconnecting"}}

\* The engine ticks when it is through with the previous tick.
Tick ==
    /\ actions = {}
    /\ Due # {}
    /\ actions' = Due
    /\ UNCHANGED <<time, peerVars, streamVars, callVars>>

\* The engine carries out an action: what it passes to transition_peer.
Execute(a) ==
    /\ "executes" \in Engine
    /\ a \in actions
    /\ actions' = actions \ {a}
    /\ \/ /\ a[1] = "TransitionToSuspect"
          /\ Transition(a[2], "Suspect", "HeartbeatTimeout")
       \/ /\ a[1] = "TransitionToReconnecting"
          /\ Transition(a[2], "Reconnecting", "ReconnectIntervalElapsed")
       \/ /\ a[1] = "AttemptReconnect"
          /\ Transition(a[2], "Connecting", "ReconnectIntervalElapsed")
    /\ UNCHANGED <<time, sessions, last_heartbeat, lsn_tracker, streamVars, callVars>>

\* The engine logs the actions.
Log ==
    /\ "logs" \in Engine
    /\ actions # {}
    /\ actions' = {}
    /\ UNCHANGED <<time, peerVars, streamVars, callVars>>

-----------------------------------------------------------------------------
PeerStep(p) ==
    \/ \E to \in State, event \in Event : TransitionPeer(p, to, event)
    \/ RecordHeartbeat(p)
    \/ SubscribeChannel(p) \/ SubscribeSession(p)
    \/ UnsubscribeChannel(p) \/ UnsubscribeSession(p)
    \/ DrainOutbox(p)
    \/ \E lsn \in 1 .. MaxLsn : OnLsnAck(p, lsn)

TickStep == Tick \/ Log \/ \E a \in actions : Execute(a)

Next == Pass \/ OnCommit \/ TickStep \/ \E p \in Peer : PeerStep(p)

Spec == Init /\ [][Next]_vars

\* Time passes, the engine ticks every few seconds and gets through with what
\* it does about a tick.
FairSpec ==
    /\ Spec
    /\ WF_vars(Pass)
    /\ WF_vars(Tick)
    /\ WF_vars(Log)
    /\ \A a \in ActionKind \X Peer : WF_vars(Execute(a))

-----------------------------------------------------------------------------
(* Properties *)

\* A peer streams only after its signature was verified on its present
\* connection, whatever reconnects, stale actions and fresh subscriptions
\* came before.
StreamingIsVerified ==
    \A p \in sessions : state[p] = "Streaming" => p \in verified

\* "Terminal state ... the cipherocto sync engine will not attempt to
\* reconnect": a TickAction that was decided before a peer was terminated does
\* not bring it back.  Only subscribing it anew does.
TerminatedStays ==
    [][\A p \in sessions \cap sessions' :
        (state[p] = "Terminated" /\ state'[p] # "Terminated") =>
            p \in subscribing \ subscribing']_state

\* A peer has a session if and only if it has a channel between calls of
\* subscribe_peer and unsubscribe_peer, unless two of them for this very peer
\* overlapped: what other peers, the engine and the ticks do meanwhile cannot
\* part the two maps.
ApartOnlyByOverlap ==
    \A p \in Peer \ (subscribing \cup unsubscribing \cup overlapped) :
        p \in sessions <=> p \in channels

\* What these rest on: a peer's signature is verified whether or not it has a
\* session, a call that is alone has made the first of its two changes, and two
\* calls in progress for a peer have overlapped.
SessionInv ==
    /\ sessions \subseteq Peer
    /\ state \in [Peer -> State]
    /\ \A p \in Peer : state[p] = "Streaming" => p \in verified
    /\ subscribing \cap unsubscribing \subseteq overlapped
    /\ subscribing \ overlapped \subseteq channels
    /\ (unsubscribing \ overlapped) \cap channels = {}
    /\ ApartOnlyByOverlap

-----------------------------------------------------------------------------
(* What comments, tests or RFCs of the repository say, and the code does not   *)
(* do: TLC refutes each of these (README.md, "Disagreements").                 *)

\* The peers with a session are the peers with a channel, once no subscribe or
\* unsubscribe call is in progress.
SessionsMatchChannels ==
    subscribing \cup unsubscribing = {} => sessions = channels

\* "No heartbeat for 2 x heartbeat_interval": a peer that becomes Suspect was
\* not heard for that long.
SuspectWasSilent ==
    [][\A p \in Peer : (state[p] # "Suspect" /\ state'[p] = "Suspect") =>
            Elapsed(last_heartbeat[p]) > Threshold]_state

\* "an active state (i.e., the peer is receiving WAL chunks)": a chunk is
\* queued only for a peer that is Streaming.
OnlyActivePeersReceive ==
    [][\A p \in outbox' \ outbox : state[p] = "Streaming"]_outbox

\* "Return the current LSN watermark for a peer": peer_lsn_watermark returns
\* what the peer acknowledged.
WatermarkIsReported ==
    \A p \in sessions \cap channels : lsn_tracker[p] = watermark[p]

\* A streaming peer that is not heard of does not stream for good.
SilenceIsNoticed ==
    \A p \in Peer :
        (p \in sessions /\ state[p] = "Streaming") ~>
            \/ p \notin sessions
            \/ state[p] # "Streaming"
            \/ last_heartbeat[p] > 0 /\ Elapsed(last_heartbeat[p]) <= Threshold

\* A streaming peer that was heard of once and then falls silent does not stream
\* for good, whatever the other peer does: tick reports it and the engine acts.
SilenceAfterHeartbeatIsNoticed ==
    \A p \in Peer :
        (p \in sessions /\ state[p] = "Streaming" /\ last_heartbeat[p] > 0) ~>
            \/ p \notin sessions
            \/ state[p] # "Streaming"
            \/ Elapsed(last_heartbeat[p]) <= Threshold
=============================================================================
