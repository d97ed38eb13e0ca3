------------------------ MODULE SyncSession_proofs ------------------------
(***************************************************************************)
(* Machine-checked proofs about the two ends of a replication session, for *)
(* any peers and every bound: the sessions of the SyncSessionManager that  *)
(* streams the chunks (SyncSession) and the reader that applies them       *)
(* (SyncReader).                                                           *)
(***************************************************************************)
EXTENDS SyncSession, SyncReader, SequenceTheorems, WellFoundedInduction, TLAPS

-----------------------------------------------------------------------------
(* The sessions of a SyncSessionManager, which owns a streamer *)

\* The steps of the sessions by what they may change: a transition, one of the four
\* sections of subscribe_peer and unsubscribe_peer, or neither.
LEMMA SessionSteps ==
    ASSUME SessionInv, [Next]_vars
    PROVE  \/ /\ UNCHANGED <<sessions, channels, subscribing, unsubscribing, overlapped>>
              /\ \E p \in Peer : \E to, trigger : Transition(p, to, trigger)
           \/ \E p \in Peer :
                \/ SubscribeChannel(p) \/ SubscribeSession(p)
                \/ UnsubscribeChannel(p) \/ UnsubscribeSession(p)
           \/ UNCHANGED <<sessions, state, verified, channels, subscribing, unsubscribing, overlapped>>
<1> USE DEF peerVars, streamVars, callVars
<1>1. ASSUME NEW p \in Peer, NEW to \in State, NEW e \in Event,
             TransitionPeer(p, to, e)
      PROVE  /\ UNCHANGED <<sessions, channels, subscribing, unsubscribing, overlapped>>
             /\ Transition(p, to, e)
    BY <1>1 DEF TransitionPeer
<1>2. ASSUME NEW a \in actions, Execute(a)
      PROVE  /\ UNCHANGED <<sessions, channels, subscribing, unsubscribing, overlapped>>
             /\ \/ UNCHANGED <<state, verified>>
                \/ \E p \in Peer : \E to, trigger : Transition(p, to, trigger)
    <2>1. ASSUME NEW to, NEW trigger, Transition(a[2], to, trigger)
          PROVE  \/ UNCHANGED <<state, verified>>
                 \/ \E p \in Peer : \E t, u : Transition(p, t, u)
        <3>1. CASE a[2] \in Peer
            BY <2>1, <3>1
        <3>2. CASE a[2] \notin Peer
            BY <2>1, <3>2 DEF Transition, SessionInv
        <3> QED BY <3>1, <3>2
    <2> QED BY <1>2, <2>1 DEF Execute
<1>3. ASSUME NEW p \in Peer,
             \/ RecordHeartbeat(p) \/ DrainOutbox(p)
             \/ \E lsn \in 1 .. MaxLsn : OnLsnAck(p, lsn)
      PROVE  UNCHANGED <<sessions, state, verified, channels, subscribing, unsubscribing, overlapped>>
    BY <1>3 DEF RecordHeartbeat, DrainOutbox, OnLsnAck
<1>4. ASSUME \/ Pass \/ OnCommit \/ Tick \/ Log
             \/ UNCHANGED vars
      PROVE  UNCHANGED <<sessions, state, verified, channels, subscribing, unsubscribing, overlapped>>
    BY <1>4 DEF Pass, OnCommit, Tick, Log, vars
<1> QED BY <1>1, <1>2, <1>3, <1>4 DEF Next, TickStep, PeerStep

\* What a transition that the lifecycle table allows can do.
LEMMA TransitionEffect ==
    ASSUME SessionInv, NEW p \in Peer, NEW to, NEW trigger,
           Transition(p, to, trigger)
    PROVE  /\ state' \in [Peer -> State]
           /\ \A q \in Peer : state'[q] = "Streaming" => q \in verified'
           /\ \A q \in Peer : state[q] = "Terminated" => state'[q] = "Terminated"
<1>1. CASE p \in sessions /\ IsAllowed(state[p], to, trigger)
    <2>1. /\ to \in State
          /\ to = "Streaming" => trigger = "SignatureValid"
          /\ state[p] # "Terminated"
        BY <1>1 DEF IsAllowed, Table, State
    <2>2. state' = [state EXCEPT ![p] = to]
        BY <1>1 DEF Transition
    <2>3. /\ verified \ {p} \subseteq verified'
          /\ trigger = "SignatureValid" => p \in verified'
          /\ to # "Connecting" => verified \subseteq verified'
        BY <1>1 DEF Transition
    <2>4. state \in [Peer -> State]
        BY DEF SessionInv
    <2>5. \A q \in Peer : state[q] = "Streaming" => q \in verified
        BY DEF SessionInv
    <2>6. state' \in [Peer -> State]
        BY <2>1, <2>2, <2>4
    <2>7. \A q \in Peer : state'[q] = IF q = p THEN to ELSE state[q]
        BY <2>2, <2>4
    <2>8. \A q \in Peer : state'[q] = "Streaming" => q \in verified'
        BY <2>1, <2>3, <2>5, <2>7
    <2> QED BY <2>1, <2>6, <2>7, <2>8
<1>2. CASE ~(p \in sessions /\ IsAllowed(state[p], to, trigger))
    BY <1>2 DEF Transition, SessionInv
<1> QED BY <1>1, <1>2

\* The invariant of the session map and the channels: what the ticks, the engine and
\* the other peers do in between the sections of subscribe_peer and unsubscribe_peer
\* keeps it.
THEOREM SessionInvariant == Spec => []SessionInv
<1> USE DEF peerVars, streamVars, callVars
<1>1. Init => SessionInv
    BY DEF Init, SessionInv, State, ApartOnlyByOverlap
<1>2. SessionInv /\ [Next]_vars => SessionInv'
    <2>1. SUFFICES ASSUME SessionInv, [Next]_vars
                   PROVE  SessionInv'
        OBVIOUS
    <2> DEFINE Apart(p) == p \in sessions <=> p \in channels
    <2>2. CASE UNCHANGED <<sessions, state, verified, channels, subscribing, unsubscribing, overlapped>>
        BY <2>1, <2>2 DEF SessionInv, ApartOnlyByOverlap
    <2>3. ASSUME NEW p \in Peer, NEW to, NEW trigger, Transition(p, to, trigger),
                 UNCHANGED <<sessions, channels, subscribing, unsubscribing, overlapped>>
          PROVE  SessionInv'
        <3>1. /\ state' \in [Peer -> State]
              /\ \A q \in Peer : state'[q] = "Streaming" => q \in verified'
            BY <2>1, <2>3, TransitionEffect
        <3> QED BY <2>1, <2>3, <3>1 DEF SessionInv, ApartOnlyByOverlap
    <2>4. ASSUME NEW p \in Peer, SubscribeChannel(p) \/ UnsubscribeChannel(p)
          PROVE  SessionInv'
        <3>1. /\ UNCHANGED <<sessions, state, verified>>
              /\ overlapped \subseteq overlapped'
            BY <2>4 DEF SubscribeChannel, UnsubscribeChannel
        <3>2. /\ subscribing' \cap unsubscribing' \subseteq overlapped'
              /\ subscribing' \ overlapped' \subseteq channels'
              /\ (unsubscribing' \ overlapped') \cap channels' = {}
            BY <2>1, <2>4 DEF SessionInv, SubscribeChannel,
                UnsubscribeChannel
        <3>3. ApartOnlyByOverlap'
            BY <2>1, <2>4 DEF SessionInv, SubscribeChannel,
                UnsubscribeChannel, ApartOnlyByOverlap
        <3> QED BY <2>1, <3>1, <3>2, <3>3 DEF SessionInv
    <2>5. ASSUME NEW p \in Peer, SubscribeSession(p) \/ UnsubscribeSession(p)
          PROVE  SessionInv'
        <3>1. state' \in [Peer -> State] /\ sessions' \subseteq Peer
            BY <2>1, <2>5 DEF SessionInv, SubscribeSession,
                UnsubscribeSession, State, Without
        <3>2. \A q \in Peer : state'[q] = "Streaming" => q \in verified'
            BY <2>1, <2>5 DEF SessionInv, SubscribeSession,
                UnsubscribeSession
        <3>3. /\ subscribing' \cap unsubscribing' \subseteq overlapped'
              /\ subscribing' \ overlapped' \subseteq channels'
              /\ (unsubscribing' \ overlapped') \cap channels' = {}
            BY <2>1, <2>5 DEF SessionInv, SubscribeSession,
                UnsubscribeSession
        <3>4. ApartOnlyByOverlap'
            BY <2>1, <2>5 DEF SessionInv, SubscribeSession,
                UnsubscribeSession, ApartOnlyByOverlap, Without
        <3> QED BY <3>1, <3>2, <3>3, <3>4 DEF SessionInv
    <2> QED BY <2>1, <2>2, <2>3, <2>4, <2>5, SessionSteps
<1> QED BY <1>1, <1>2, PTL DEF Spec

\* A peer streams only after its signature was verified on its present connection,
\* for any peers, threshold and engine.
THEOREM OnlyVerifiedPeersStream == Spec => []StreamingIsVerified
<1>1. SessionInv => StreamingIsVerified
    BY DEF SessionInv, StreamingIsVerified
<1> QED BY <1>1, SessionInvariant, PTL

\* Sessions and channels part only by overlapping calls of subscribe_peer and
\* unsubscribe_peer for the same peer.
THEOREM SessionsKeepTheirChannels == Spec => []ApartOnlyByOverlap
<1>1. SessionInv => ApartOnlyByOverlap
    BY DEF SessionInv
<1> QED BY <1>1, SessionInvariant, PTL

\* No TickAction, however stale, and no event brings a terminated peer back.
THEOREM TerminationIsFinal == Spec => TerminatedStays
<1>1. ASSUME SessionInv, [Next]_vars
      PROVE  [\A p \in sessions \cap sessions' :
                (state[p] = "Terminated" /\ state'[p] # "Terminated") =>
                    p \in subscribing \ subscribing']_state
    <2> USE DEF peerVars, streamVars, callVars
    <2>1. SUFFICES ASSUME NEW q \in sessions \cap sessions',
                          state[q] = "Terminated", state'[q] # "Terminated"
                   PROVE  q \in subscribing \ subscribing'
        OBVIOUS
    <2>2. q \in Peer /\ state \in [Peer -> State]
        BY <1>1, <2>1 DEF SessionInv
    <2>3. ASSUME NEW p \in Peer, NEW to, NEW trigger, Transition(p, to, trigger)
          PROVE  FALSE
        BY <1>1, <2>1, <2>2, <2>3, TransitionEffect
    <2>4. ASSUME NEW p \in Peer, SubscribeSession(p)
          PROVE  q \in subscribing \ subscribing'
        BY <2>1, <2>2, <2>4 DEF SubscribeSession
    <2>5. ASSUME NEW p \in Peer, UnsubscribeSession(p)
          PROVE  FALSE
        BY <2>1, <2>2, <2>5 DEF UnsubscribeSession, Without
    <2>6. ASSUME NEW p \in Peer, SubscribeChannel(p) \/ UnsubscribeChannel(p)
          PROVE  FALSE
        BY <2>1, <2>6 DEF SubscribeChannel, UnsubscribeChannel
    <2> QED BY <1>1, <2>1, <2>3, <2>4, <2>5, <2>6, SessionSteps
<1> QED BY <1>1, SessionInvariant, PTL DEF Spec, TerminatedStays

\* The sessions keep their types: what the clock, the heartbeats and the
\* acknowledgements write stays in range, chunks wait on channels only, and every
\* TickAction is about a peer.
THEOREM SessionTyping == Spec => []TypeOK
<1> USE DEF peerVars, streamVars, callVars
<1>0. /\ MaxTime \in Nat /\ MaxLsn \in Nat /\ 1 \in 1 .. MaxTime
      /\ 0 \in 0 .. MaxTime /\ 0 \in 0 .. MaxLsn /\ 1 .. MaxLsn \subseteq 0 .. MaxLsn
      /\ 1 .. MaxTime \subseteq 0 .. MaxTime
    BY SessionAssumption
<1>1. Init => TypeOK
    BY <1>0 DEF Init, TypeOK, State
<1>2. ASSUME TypeOK, SessionInv, SessionInv', [Next]_vars PROVE TypeOK'
    <2>0. /\ state' \in [Peer -> State] /\ sessions' \subseteq Peer
          /\ time \in 1 .. MaxTime
          /\ lsn_tracker \in [Peer -> 0 .. MaxLsn] /\ watermark \in [Peer -> 0 .. MaxLsn]
          /\ last_heartbeat \in [Peer -> 0 .. MaxTime]
          /\ \A p \in Peer : last_heartbeat[p] <= time
          /\ channels \subseteq Peer /\ outbox \subseteq channels
          /\ verified \subseteq Peer
        BY <1>2 DEF SessionInv, TypeOK
    <2>1. CASE Pass
        <3>1. time' \in 1 .. MaxTime /\ \A p \in Peer : last_heartbeat[p] <= time'
            <4>1. time' = time + 1 /\ time < MaxTime
                BY <2>1 DEF Pass
            <4>2. \A p \in Peer : last_heartbeat[p] \in 0 .. MaxTime
                BY <2>0
            <4> QED BY <1>0, <2>0, <4>1, <4>2
        <3> QED BY <1>2, <2>1, <3>1 DEF Pass, TypeOK
    <2>2. ASSUME NEW p \in Peer, NEW to, NEW trigger, Transition(p, to, trigger)
          PROVE  verified' \subseteq Peer
        BY <2>0, <2>2 DEF Transition
    <2>3. ASSUME NEW p \in Peer, NEW to \in State, NEW e \in Event, TransitionPeer(p, to, e)
          PROVE  TypeOK'
        <3>1. verified' \subseteq Peer
            BY <2>2, <2>3 DEF TransitionPeer
        <3> QED BY <1>2, <2>0, <2>3, <3>1 DEF TransitionPeer, TypeOK
    <2>4. ASSUME NEW a \in actions, Execute(a)
          PROVE  TypeOK'
        <3>1. a[2] \in Peer /\ actions' \subseteq ActionKind \X Peer
            BY <1>2, <2>4 DEF TypeOK, Execute
        <3>2. verified' \subseteq Peer
            BY <2>2, <2>4, <3>1 DEF Execute
        <3> QED BY <1>2, <2>0, <2>4, <3>1, <3>2 DEF Execute, TypeOK
    <2>5. CASE Tick
        <3>1. Due \subseteq ActionKind \X Peer
            BY <1>2 DEF TypeOK, Due, ActionKind
        <3> QED BY <1>2, <2>5, <3>1 DEF Tick, TypeOK
    <2>6. CASE Log
        BY <1>2, <2>6 DEF Log, TypeOK
    <2>7. CASE OnCommit
        BY <1>2, <2>7 DEF OnCommit, TypeOK
    <2>8. ASSUME NEW p \in Peer, RecordHeartbeat(p)
          PROVE  TypeOK'
        <3>1. /\ last_heartbeat' \in [Peer -> 0 .. MaxTime]
              /\ \A q \in Peer : last_heartbeat'[q] = IF q = p THEN time ELSE last_heartbeat[q]
            BY <1>0, <2>0, <2>8 DEF RecordHeartbeat, HeardAt
        <3>2. \A q \in Peer : last_heartbeat'[q] <= time
            BY <2>0, <3>1
        <3> QED BY <1>2, <2>8, <3>1, <3>2 DEF RecordHeartbeat, TypeOK
    <2>9. ASSUME NEW p \in Peer, SubscribeChannel(p) \/ UnsubscribeChannel(p)
          PROVE  TypeOK'
        <3>1. watermark' \in [Peer -> 0 .. MaxLsn]
            BY <1>0, <2>0, <2>9 DEF SubscribeChannel, UnsubscribeChannel
        <3>2. /\ channels' \subseteq Peer /\ outbox' \subseteq channels'
              /\ subscribing' \subseteq Peer /\ unsubscribing' \subseteq Peer
              /\ overlapped' \subseteq Peer
            BY <1>2, <2>9 DEF SubscribeChannel, UnsubscribeChannel, TypeOK
        <3>3. UNCHANGED <<time, sessions, state, last_heartbeat, lsn_tracker, verified, actions>>
            BY <2>9 DEF SubscribeChannel, UnsubscribeChannel
        <3> QED BY <1>2, <3>1, <3>2, <3>3 DEF TypeOK
    <2>10. ASSUME NEW p \in Peer, SubscribeSession(p) \/ UnsubscribeSession(p)
           PROVE  TypeOK'
        <3>1. /\ lsn_tracker' \in [Peer -> 0 .. MaxLsn]
              /\ last_heartbeat' \in [Peer -> 0 .. MaxTime]
              /\ \A q \in Peer : last_heartbeat'[q] = IF q = p THEN 0 ELSE last_heartbeat[q]
            BY <1>0, <2>0, <2>10 DEF SubscribeSession, UnsubscribeSession
        <3>2. \A q \in Peer : last_heartbeat'[q] <= time
            BY <1>0, <2>0, <3>1
        <3>3. /\ verified' \subseteq Peer /\ subscribing' \subseteq Peer
              /\ unsubscribing' \subseteq Peer
              /\ UNCHANGED <<time, channels, watermark, outbox, actions, overlapped>>
            BY <1>2, <2>10 DEF SubscribeSession, UnsubscribeSession, TypeOK
        <3> QED BY <1>2, <2>0, <3>1, <3>2, <3>3 DEF TypeOK
    <2>11. ASSUME NEW p \in Peer, DrainOutbox(p)
           PROVE  TypeOK'
        BY <1>2, <2>11 DEF DrainOutbox, TypeOK
    <2>12. ASSUME NEW p \in Peer, NEW lsn \in 1 .. MaxLsn, OnLsnAck(p, lsn)
           PROVE  TypeOK'
        <3>1. watermark' \in [Peer -> 0 .. MaxLsn]
            BY <1>0, <2>0, <2>12 DEF OnLsnAck
        <3> QED BY <1>2, <2>12, <3>1 DEF OnLsnAck, TypeOK
    <2>13. CASE UNCHANGED vars
        BY <1>2, <2>13 DEF vars, TypeOK
    <2> QED BY <1>2, <2>1, <2>3, <2>4, <2>5, <2>6, <2>7, <2>8, <2>9, <2>10, <2>11,
               <2>12, <2>13 DEF Next, TickStep, PeerStep
<1> QED BY <1>1, <1>2, SessionInvariant, PTL DEF Spec

-----------------------------------------------------------------------------
(* The reader the chunks are meant for *)

\* A set of natural numbers has a least element.
LEMMA LeastNatural ==
    ASSUME NEW T \in SUBSET Nat, T # {}
    PROVE  \E x \in T : \A y \in T : x <= y
<1>1. PICK x \in T : \A y \in T : ~ (<<y, x>> \in OpToRel(<, Nat))
    BY NatLessThanWellFounded, WFMin
<1>2. \A y \in T : ~ (y < x)
    BY <1>1 DEF OpToRel
<1> QED BY <1>2

\* current_lsn() of a database of LSNs.
LEMMA CurrentLsnType ==
    ASSUME ReaderTypeOK
    PROVE  CurrentLsn \in 0 .. MaxCommitted
<1>1. CASE database = {}
    BY <1>1, ReaderAssumption DEF CurrentLsn
<1>2. CASE database # {}
    <2>1. database \subseteq 1 .. MaxCommitted /\ MaxCommitted \in Nat
        BY ReaderAssumption DEF ReaderTypeOK, Lsn
    <2> DEFINE T == {MaxCommitted - l : l \in database}
    <2>2. T \in SUBSET Nat /\ T # {}
        <3>1. \A l \in database : MaxCommitted - l \in Nat
            BY <2>1
        <3> QED BY <1>2, <3>1
    <2>3. PICK x \in T : \A y \in T : x <= y
        BY <2>2, LeastNatural
    <2>4. PICK l \in database : x = MaxCommitted - l
        OBVIOUS
    <2>5. \A k \in database : k <= l
        <3> TAKE k \in database
        <3>1. MaxCommitted - k \in T /\ MaxCommitted - l <= MaxCommitted - k
            BY <2>3, <2>4
        <3> QED BY <2>1, <3>1
    <2>6. CurrentLsn \in database
        BY <1>2, <2>5 DEF CurrentLsn
    <2> QED BY <2>1, <2>6
<1> QED BY <1>1, <1>2

\* ReplayCache::insert keeps the cache within its size and holds nothing but what it
\* held and the new id.
LEMMA InsertEffect ==
    ASSUME NEW c \in Seq(Bytes), Len(c) <= CacheSize, NEW id \in Bytes,
           NEW d \in Insert(c, id)
    PROVE  /\ d \in Seq(Bytes) /\ Len(d) <= CacheSize
           /\ \A j \in DOMAIN d : d[j] = id \/ \E k \in DOMAIN c : d[j] = c[k]
<1> DEFINE g == Append(c, id)
           n == Len(c)
<1>1. /\ n \in Nat /\ Len(g) = n + 1 /\ DOMAIN g = 1 .. n + 1 /\ DOMAIN c = 1 .. n
      /\ g \in Seq(Bytes)
      /\ \A k \in 1 .. n + 1 : g[k] \in Bytes
      /\ \A k \in 1 .. n + 1 : g[k] = id \/ \E j \in DOMAIN c : g[k] = c[j]
    OBVIOUS
<1>2. CacheSize \in Nat /\ n <= CacheSize
    BY ReaderAssumption
<1> HIDE DEF g, n
<1>3. CASE ~ Overfull(g)
    <2>1. d = g /\ Len(g) <= CacheSize
        BY <1>1, <1>2, <1>3 DEF Insert, Overfull, g
    <2> QED BY <1>1, <2>1
<1>4. CASE Overfull(g)
    <2>1. PICK i \in 1 .. n + 1 : d = WithoutKey(g, i)
        BY <1>1, <1>4 DEF Insert, g
    <2>2. d = [j \in 1 .. n |-> IF j < i THEN g[j] ELSE g[j + 1]]
        BY <1>1, <2>1 DEF WithoutKey
    <2>3. \A j \in 1 .. n : j \in 1 .. n + 1 /\ j + 1 \in 1 .. n + 1
        BY <1>1
    <2>4. \A j \in 1 .. n : d[j] \in Bytes
        BY <1>1, <2>2, <2>3
    <2>5. d \in Seq(Bytes) /\ Len(d) = n
        BY <1>1, <2>2, <2>4, IsASeq
    <2>6. \A j \in 1 .. n : d[j] = id \/ \E k \in DOMAIN c : d[j] = c[k]
        BY <1>1, <2>2, <2>3
    <2> QED BY <1>2, <2>2, <2>5, <2>6
<1> QED BY <1>3, <1>4

\* What is known of the entry apply_wal_tail looks at.
LEMMA WorkingType ==
    ASSUME ReaderTypeOK, Working
    PROVE  /\ next \in Nat /\ next >= 1 /\ next + 1 <= Len(current.entries) + 1
           /\ current \in Chunk /\ current.peer \in Sender
           /\ Entry \in Bytes /\ Entry.lsn \in Lsn
<1>1. /\ next \in Nat /\ next # 0 /\ next <= Len(current.entries) /\ current \in Chunk
    BY DEF ReaderTypeOK, Working
<1>2. current.peer \in Sender /\ current.entries \in Seq(Bytes)
    BY <1>1 DEF Chunk
<1>3. Entry \in Bytes
    BY <1>1, <1>2 DEF Entry
<1> QED BY <1>1, <1>2, <1>3 DEF Bytes

\* What the writer sends is a chunk.
LEMMA TailChunkType ==
    ASSUME NEW p \in Sender, NEW from \in Lsn, NEW to \in Lsn, from <= to
    PROVE  TailChunk(p, from, to) \in Chunk
<1> DEFINE n == to - from + 1
           es == [i \in 1 .. n |-> Sound(from + i - 1)]
<1>1. n \in Nat /\ \A i \in 1 .. n : from + i - 1 \in Lsn
    BY ReaderAssumption DEF Lsn
<1>2. \A i \in 1 .. n : Sound(from + i - 1) \in Bytes
    BY <1>1 DEF Sound, Bytes
<1>3. es \in Seq(Bytes)
    BY <1>1, <1>2, IsASeq
<1> QED BY <1>3 DEF TailChunk, Chunk

\* Entries cut at the wrong places are a sequence of entries.
LEMMA MisreadType ==
    ASSUME NEW es \in Seq(Bytes), NEW i \in DOMAIN es, NEW q \in Misread(es, i)
    PROVE  q \in Seq(Bytes)
<1> DEFINE whole == {es[j] : j \in i .. Len(es)}
           pieces == whole \cup {[e EXCEPT !.is = k] : e \in whole, k \in Altered}
           rest == UNION {[1 .. n -> pieces] : n \in 0 .. Len(es) - i + 1}
<1>1. i \in Nat /\ i >= 1 /\ Len(es) \in Nat /\ i <= Len(es)
    OBVIOUS
<1>2. whole \subseteq Bytes
    BY <1>1
<1>3. \A e \in Bytes, k \in Altered : [e EXCEPT !.is = k] \in Bytes
    BY DEF Bytes
<1>4. pieces \subseteq Bytes
    BY <1>2, <1>3
<1>5. PICK r \in rest : q = SubSeq(es, 1, i - 1) \o r
    <2>1. Misread(es, i) = {SubSeq(es, 1, i - 1) \o r : r \in
            {f \in rest : \A a, b \in DOMAIN f : a < b => f[a].lsn < f[b].lsn}}
        BY DEF Misread
    <2> HIDE DEF rest
    <2> QED BY <2>1
<1> HIDE DEF pieces
<1>6. PICK n \in 0 .. Len(es) - i + 1 : r \in [1 .. n -> pieces]
    OBVIOUS
<1>7. n \in Nat /\ \A j \in 1 .. n : r[j] \in Bytes
    BY <1>1, <1>4, <1>6
<1>8. r \in Seq(Bytes)
    BY <1>6, <1>7, IsASeq
<1>9. SubSeq(es, 1, i - 1) \in Seq(Bytes)
    BY <1>1, SubSeqProperties
<1> QED BY <1>5, <1>8, <1>9, ConcatProperties

\* A damaged chunk is still a chunk.
LEMMA DamagedType ==
    ASSUME NEW m \in Chunk, NEW d \in Damaged(m)
    PROVE  d \in Chunk
<1>1. m.entries \in Seq(Bytes)
    BY DEF Chunk
<1>2. ASSUME NEW i \in DOMAIN m.entries, NEW k \in Altered,
             d = [m EXCEPT !.entries[i].is = k]
      PROVE  d \in Chunk
    <2>0. m.entries[i] \in Bytes
        BY <1>1
    <2>1. [m.entries[i] EXCEPT !.is = k] \in Bytes
        BY <2>0 DEF Bytes
    <2>2. [m.entries EXCEPT ![i] = [m.entries[i] EXCEPT !.is = k]] \in Seq(Bytes)
        BY <1>1, <2>1, ExceptSeq
    <2> QED BY <1>2, <2>2 DEF Chunk
<1>3. ASSUME d = [m EXCEPT !.decodes = FALSE] PROVE d \in Chunk
    BY <1>3 DEF Chunk
<1>4. ASSUME NEW i \in DOMAIN m.entries, NEW r \in Misread(m.entries, i),
             d = [m EXCEPT !.entries = r]
      PROVE  d \in Chunk
    <2>1. r \in Seq(Bytes)
        BY <1>1, MisreadType
    <2> QED BY <1>4, <2>1 DEF Chunk
<1> QED BY <1>2, <1>3, <1>4 DEF Damaged

\* The writer and the network only put chunks on the way.
LEMMA NetStep ==
    ASSUME ReaderInv,
           \/ \E n \in 1 .. 2 : Commit(n)
           \/ \E m \in net : Damage(m)
           \/ \E p \in Sender : AskForTail(p) \/ AnswerTail(p)
    PROVE  ReaderInv'
<1> USE DEF dbVars
<1>t. /\ committed \in 0 .. MaxCommitted /\ net \subseteq Chunk
      /\ asked \in [Sender -> 0 .. MaxCommitted + 1] /\ damaged \in 0 .. MaxDamaged
      /\ MaxCommitted \in Nat /\ MaxDamaged \in Nat
    BY ReaderAssumption DEF ReaderInv, ReaderTypeOK
<1>f. /\ UNCHANGED <<cache, database, times, current, next, tails, restarts>>
      /\ ReaderTypeOK
    BY DEF Commit, Damage, AskForTail, AnswerTail, ReaderInv
<1> DEFINE NetTyped ==
        /\ committed' \in 0 .. MaxCommitted /\ net' \subseteq Chunk
        /\ asked' \in [Sender -> 0 .. MaxCommitted + 1] /\ damaged' \in 0 .. MaxDamaged
<1>2. NetTyped
    <2>1. ASSUME NEW n \in 1 .. 2, Commit(n) PROVE NetTyped
        <3>1. committed + 1 \in Lsn /\ committed + n \in Lsn /\ committed + 1 <= committed + n
            BY <1>t, <2>1 DEF Commit, Lsn
        <3>2. committed' \in 0 .. MaxCommitted /\ UNCHANGED <<asked, damaged>>
            BY <2>1, <3>1 DEF Commit, Lsn
        <3>3. net' \subseteq Chunk
            BY <1>t, <2>1, <3>1, TailChunkType DEF Commit
        <3> QED BY <1>t, <3>2, <3>3
    <2>2. ASSUME NEW m \in net, Damage(m) PROVE NetTyped
        <3>1. PICK d \in Damaged(m) : net' = net \cup {d}
            BY <2>2 DEF Damage
        <3>2. d \in Chunk
            BY <1>t, DamagedType
        <3>3. damaged' \in 0 .. MaxDamaged /\ UNCHANGED <<committed, asked>>
            BY <1>t, <2>2 DEF Damage
        <3> QED BY <1>t, <3>1, <3>2, <3>3
    <2>3. ASSUME NEW p \in Sender, AskForTail(p) PROVE NetTyped
        <3>1. CurrentLsn + 1 \in 0 .. MaxCommitted + 1
            BY <1>t, <1>f, CurrentLsnType
        <3> QED BY <1>t, <2>3, <3>1 DEF AskForTail
    <2>4. ASSUME NEW p \in Sender, AnswerTail(p) PROVE NetTyped
        <3>1. asked' \in [Sender -> 0 .. MaxCommitted + 1] /\ UNCHANGED <<committed, damaged>>
            BY <1>t, <2>4 DEF AnswerTail
        <3>2. asked[p] <= committed => asked[p] \in Lsn /\ committed \in Lsn
            BY <1>t, <2>4 DEF AnswerTail, Lsn
        <3>3. ASSUME asked[p] <= committed PROVE TailChunk(p, asked[p], committed) \in Chunk
            BY <3>2, <3>3, TailChunkType
        <3>4. asked[p] \in Nat /\ committed \in Nat
            BY <1>t
        <3>5. net' \subseteq Chunk
            BY <1>t, <2>4, <3>3, <3>4 DEF AnswerTail
        <3> QED BY <1>t, <3>1, <3>5
    <2> QED BY <2>1, <2>2, <2>3, <2>4
<1>3. ReaderTypeOK'
    BY <1>2, <1>f DEF ReaderTypeOK
<1> QED BY <1>3, <1>f DEF ReaderInv, CachedIsApplied, PassedIsHeld, Held

\* An entry is passed over: it was seen, is corrupt or gets applied.
LEMMA WorkStep ==
    ASSUME ReaderInv,
           SkipSeen \/ SkipCorrupt \/ ApplyEntry
    PROVE  ReaderInv'
<1> USE DEF dbVars, netVars
<1>i. ReaderTypeOK /\ CachedIsApplied /\ PassedIsHeld
    BY DEF ReaderInv
<1>w. /\ Working /\ next' = next + 1
      /\ UNCHANGED <<committed, net, asked, damaged, current, tails, restarts>>
    BY DEF SkipSeen, SkipCorrupt, ApplyEntry
<1>t. /\ next \in Nat /\ next >= 1 /\ next + 1 <= Len(current.entries) + 1
      /\ current \in Chunk /\ current.peer \in Sender
      /\ Entry \in Bytes /\ Entry.lsn \in Lsn
    BY <1>i, <1>w, WorkingType
<1>c. /\ cache \in [Sender -> Seq(Bytes)]
      /\ \A p \in Sender : Len(cache[p]) <= CacheSize
      /\ \A p \in Sender : \A j \in DOMAIN cache[p] :
            cache[p][j].is = "sound" => cache[p][j].lsn \in Held
      /\ database \subseteq Lsn /\ times \in [Lsn -> 0 .. 2]
    BY <1>i DEF ReaderTypeOK, CachedIsApplied
<1> DEFINE Stored ==
        /\ cache' \in [Sender -> Seq(Bytes)]
        /\ \A p \in Sender : Len(cache'[p]) <= CacheSize
        /\ \A p \in Sender : \A j \in DOMAIN cache'[p] :
            cache'[p][j].is = "sound" => cache'[p][j].lsn \in Held'
        /\ database' \subseteq Lsn
        /\ times' \in [Lsn -> 0 .. 2]
        /\ Held \subseteq Held'
        /\ Entry.is = "sound" => Entry.lsn \in Held'
<1>1. ASSUME SkipSeen \/ SkipCorrupt PROVE Stored
    <2>1. UNCHANGED <<cache, database, times>>
        BY <1>1 DEF SkipSeen, SkipCorrupt
    <2>2. Held' = Held
        BY <2>1 DEF Held
    <2>3. CASE SkipSeen
        <3>1. PICK i \in DOMAIN cache[current.peer] : cache[current.peer][i] = Entry
            BY <2>3 DEF SkipSeen, Seen
        <3>2. Entry.is = "sound" => Entry.lsn \in Held
            BY <1>c, <1>t, <3>1
        <3> QED BY <1>c, <2>1, <2>2, <3>2
    <2>4. CASE SkipCorrupt
        <3>1. Entry.is # "sound"
            BY <2>4 DEF SkipCorrupt, CrcOK
        <3> QED BY <1>c, <2>1, <2>2, <3>1
    <2> QED BY <1>1, <2>3, <2>4
<1>2. ASSUME ApplyEntry PROVE Stored
    <2> DEFINE e == Entry
               q == current.peer
               c == cache[q]
    <2>1. /\ \E taken \in Taken(e) : database' = database \cup taken
          /\ times' = IF e.is = "sound"
                      THEN [times EXCEPT ![e.lsn] = IF @ = 2 THEN 2 ELSE @ + 1]
                      ELSE times
          /\ \E d \in Insert(c, e) : cache' = [cache EXCEPT ![q] = d]
        BY <1>2 DEF ApplyEntry
    <2>t. e \in Bytes /\ e.lsn \in Lsn /\ q \in Sender /\ c \in Seq(Bytes)
          /\ Len(c) <= CacheSize
        BY <1>c, <1>t
    <2> HIDE DEF e, q
    <2>2. /\ database \subseteq database' /\ database' \subseteq Lsn
          /\ e.is = "sound" => e.lsn \in database'
        BY <1>c, <2>1, <2>t DEF Taken
    <2>3. /\ times' \in [Lsn -> 0 .. 2]
          /\ \A l \in Lsn : times[l] > 0 => times'[l] > 0
          /\ e.is = "sound" => times'[e.lsn] > 0
        <3>1. times[e.lsn] \in 0 .. 2
            BY <1>c, <2>t
        <3>2. CASE e.is = "sound"
            <4> DEFINE v == IF times[e.lsn] = 2 THEN 2 ELSE times[e.lsn] + 1
            <4>1. v \in 0 .. 2 /\ v > 0
                BY <3>1
            <4>2. times' = [times EXCEPT ![e.lsn] = v]
                BY <2>1, <3>2
            <4> HIDE DEF v
            <4> QED BY <1>c, <2>t, <4>1, <4>2
        <3>3. CASE e.is # "sound"
            BY <1>c, <2>1, <3>3
        <3> QED BY <3>2, <3>3
    <2>4. Held \subseteq Held'
        BY <1>c, <2>2, <2>3 DEF Held
    <2>5. e.is = "sound" => e.lsn \in Held'
        BY <2>2, <2>3 DEF Held
    <2>6. PICK d \in Insert(c, e) : cache' = [cache EXCEPT ![q] = d]
        BY <2>1
    <2>7. /\ d \in Seq(Bytes) /\ Len(d) <= CacheSize
          /\ \A j \in DOMAIN d : d[j] = e \/ \E k \in DOMAIN c : d[j] = c[k]
        BY <2>t, InsertEffect
    <2>8. \A j \in DOMAIN d : d[j].is = "sound" => d[j].lsn \in Held'
        <3> TAKE j \in DOMAIN d
        <3>1. CASE d[j] = e
            BY <2>5, <3>1
        <3>2. ASSUME NEW k \in DOMAIN c, d[j] = c[k]
              PROVE  d[j].is = "sound" => d[j].lsn \in Held'
            BY <1>c, <2>4, <2>t, <3>2
        <3> QED BY <2>7, <3>1, <3>2
    <2>9. \A p \in Sender : cache'[p] = IF p = q THEN d ELSE cache[p]
        BY <1>c, <2>6
    <2>10. cache' \in [Sender -> Seq(Bytes)]
        BY <1>c, <2>6, <2>7
    <2>11. \A p \in Sender : \A j \in DOMAIN cache'[p] :
             cache'[p][j].is = "sound" => cache'[p][j].lsn \in Held'
        BY <1>c, <2>4, <2>8, <2>9
    <2>12. \A p \in Sender : Len(cache'[p]) <= CacheSize
        BY <1>c, <2>7, <2>9
    <2>13. Entry.is = "sound" => Entry.lsn \in Held'
        BY <2>5 DEF e
    <2> QED BY <2>2, <2>3, <2>4, <2>10, <2>11, <2>12, <2>13
<1>3. Stored
    BY <1>1, <1>2
<1> HIDE DEF Stored
<1>4. ReaderTypeOK'
    <2>1. /\ committed' \in 0 .. MaxCommitted /\ net' \subseteq Chunk /\ tails' \in BOOLEAN
          /\ asked' \in [Sender -> 0 .. MaxCommitted + 1]
          /\ damaged' \in 0 .. MaxDamaged /\ restarts' \in 0 .. MaxRestarts
        BY <1>i, <1>w DEF ReaderTypeOK
    <2>2. next' \in Nat /\ current' \in Chunk /\ next' <= Len(current'.entries) + 1
        BY <1>t, <1>w
    <2> QED BY <1>3, <2>1, <2>2 DEF Stored, ReaderTypeOK
<1>5. CachedIsApplied'
    BY <1>3 DEF Stored, CachedIsApplied
<1>6. PassedIsHeld'
    <2>1. ASSUME NEW i \in 1 .. next, current.entries[i].is = "sound"
          PROVE  current.entries[i].lsn \in Held'
        <3>1. CASE i = next
            BY <1>3, <2>1, <3>1 DEF Stored, Entry
        <3>2. CASE i \in 1 .. next - 1
            <4>1. current.entries[i].lsn \in Held
                BY <1>i, <1>w, <2>1, <3>2 DEF PassedIsHeld, Working
            <4> QED BY <1>3, <4>1 DEF Stored
        <3> QED BY <1>t, <3>1, <3>2
    <2>2. 1 .. next' - 1 = 1 .. next
        BY <1>t, <1>w
    <2>3. \A i \in 1 .. next' - 1 :
            current'.entries[i].is = "sound" => current'.entries[i].lsn \in Held'
        BY <1>w, <2>1, <2>2
    <2> QED BY <2>3 DEF PassedIsHeld
<1> QED BY <1>4, <1>5, <1>6 DEF ReaderInv

\* A chunk is taken up or given up, or the reader restarts.
LEMMA ChunkStep ==
    ASSUME ReaderInv,
           \/ \E m \in net : DecodeFails(m) \/ BeginApply(m)
           \/ ApplyFails \/ EndApply \/ DrainInbound \/ Restart
           \/ UNCHANGED readerVars
    PROVE  ReaderInv'
<1> USE DEF dbVars, netVars
<1>i. ReaderTypeOK /\ CachedIsApplied /\ PassedIsHeld
    BY DEF ReaderInv
<1>1. ASSUME NEW m \in net, BeginApply(m) PROVE ReaderInv'
    <2>1. m \in Chunk /\ Len(m.entries) \in Nat
        <3>1. m \in Chunk
            BY <1>i DEF ReaderTypeOK
        <3> QED BY <3>1 DEF Chunk
    <2>2. next' = 1 /\ current' = m /\ 1 .. next' - 1 = {}
        BY <1>1 DEF BeginApply
    <2>3. ReaderTypeOK'
        BY <1>i, <1>1, <2>1, <2>2 DEF ReaderTypeOK, BeginApply
    <2>4. CachedIsApplied' /\ PassedIsHeld'
        BY <1>i, <1>1, <2>2 DEF BeginApply, CachedIsApplied, PassedIsHeld, Held
    <2> QED BY <2>3, <2>4 DEF ReaderInv
<1>2. ASSUME ApplyFails \/ EndApply PROVE ReaderInv'
    <2>1. /\ next' = 0 /\ tails' \in BOOLEAN
          /\ UNCHANGED <<committed, net, asked, damaged, cache, database, times, restarts>>
        BY <1>i, <1>2 DEF ApplyFails, EndApply, CacheAfterFailure, ReaderTypeOK
    <2>2. ReaderTypeOK'
        BY <1>i, <2>1 DEF ReaderTypeOK
    <2> QED BY <1>i, <2>1, <2>2 DEF ReaderInv, CachedIsApplied, PassedIsHeld, Held
<1>3. ASSUME Restart PROVE ReaderInv'
    <2>1. /\ next' = 0 /\ tails' = FALSE /\ cache' = [p \in Sender |-> <<>>]
          /\ UNCHANGED <<committed, net, asked, damaged, database, times>>
        BY <1>3 DEF Restart
    <2>2. restarts' \in 0 .. MaxRestarts
        BY <1>i, <1>3, ReaderAssumption DEF Restart, ReaderTypeOK
    <2>3. /\ cache' \in [Sender -> Seq(Bytes)]
          /\ \A p \in Sender : Len(cache'[p]) <= CacheSize /\ DOMAIN cache'[p] = {}
        BY <2>1, ReaderAssumption
    <2>4. ReaderTypeOK'
        BY <1>i, <2>1, <2>2, <2>3 DEF ReaderTypeOK
    <2> QED BY <2>1, <2>3, <2>4 DEF ReaderInv, CachedIsApplied, PassedIsHeld
<1>4. ASSUME \/ \E m \in net : DecodeFails(m)
             \/ DrainInbound \/ UNCHANGED readerVars
      PROVE  ReaderInv'
    <2>1. /\ tails' \in BOOLEAN
          /\ UNCHANGED <<committed, net, asked, damaged, cache, database, times,
                         current, next, restarts>>
        BY <1>i, <1>4 DEF DecodeFails, DrainInbound, readerVars, ReaderTypeOK
    <2>2. ReaderTypeOK'
        BY <1>i, <2>1 DEF ReaderTypeOK
    <2> QED BY <1>i, <2>1, <2>2 DEF ReaderInv, CachedIsApplied, PassedIsHeld, Held
<1> QED BY <1>1, <1>2, <1>3, <1>4

\* The invariant of apply_wal_tail and the replay caches: among the rest, a cache
\* never holds more than max_entries ids.
THEOREM ReaderInvariant == ReaderSpec => []ReaderInv
<1>1. ReaderInit => ReaderInv
    <2>1. SUFFICES ASSUME ReaderInit PROVE ReaderInv
        OBVIOUS
    <2>2. /\ 0 \in 0 .. MaxCommitted /\ 0 \in 0 .. MaxCommitted + 1 /\ 0 \in 0 .. 2
          /\ 0 \in 0 .. MaxDamaged /\ 0 \in 0 .. MaxRestarts /\ CacheSize \in Nat
        BY ReaderAssumption
    <2>3. /\ cache \in [Sender -> Seq(Bytes)]
          /\ \A p \in Sender : Len(cache[p]) <= CacheSize /\ DOMAIN cache[p] = {}
        BY <2>1, <2>2 DEF ReaderInit
    <2>4. ReaderTypeOK
        BY <2>1, <2>2, <2>3 DEF ReaderInit, ReaderTypeOK
    <2> QED BY <2>1, <2>3, <2>4 DEF ReaderInit, ReaderInv, CachedIsApplied, PassedIsHeld
<1>2. ReaderInv /\ [ReaderNext]_readerVars => ReaderInv'
    BY NetStep, WorkStep, ChunkStep DEF ReaderNext
<1> QED BY <1>1, <1>2, PTL DEF ReaderSpec

\* No failure, eviction, restart, damage or other peer makes apply_wal_tail pass over
\* an entry of the writer's that the database was not given.
THEOREM PassedEntriesAreHeld == ReaderSpec => []PassedIsHeld
<1>1. ReaderInv => PassedIsHeld
    BY DEF ReaderInv
<1> QED BY <1>1, ReaderInvariant, PTL
=============================================================================
