------------------------ MODULE WalTailStream_proofs ------------------------
(***************************************************************************)
(* Machine-checked proofs about WalTailStream, for every set of peers and  *)
(* transactions and every bound.                                           *)
(***************************************************************************)
EXTENDS WalTailStream, SequenceTheorems, TLAPS

\* Facts about the bounds.
LEMMA Bounds ==
    /\ 0 \in Lsn /\ InitialLsn \in Lsn /\ AckLsn \subseteq Lsn
    /\ 0 \in 0 .. Burst /\ Burst \in 0 .. Burst
BY BoundsAssumption DEF Lsn

\* An empty outbox is within the limit.
LEMMA EmptyFits ==
    /\ <<>> \in Seq(Chunk)
    /\ Len(<<>>) = 0 /\ 0 <= OutboxCapacity
BY BoundsAssumption

\* The LSNs a commit carries are LSNs, and its range makes a chunk.
LEMMA CommitRange ==
    ASSUME NEW c \in Commit
    PROVE  /\ c.txn \in Txn
           /\ c.from \in Nat /\ c.to \in Nat
           /\ Lsns(c) \subseteq Lsn
           /\ [from |-> c.from, to |-> c.to] \in Chunk
           /\ [c EXCEPT !.at = "read"] \in Commit
BY BoundsAssumption DEF Commit, Chunk, Lsn, Lsns

\* A fan-out keeps the types of what it changes.
LEMMA ShipType ==
    ASSUME TypeOK, NEW c \in commits,
           NEW S \in SUBSET Peer, NEW T \in SUBSET Peer,
           \A p \in S \cup T : HasToken(p), \A p \in S : HasRoom(p),
           Ship(c, S, T)
    PROVE  /\ tokens' \in [Peer -> 0 .. Burst]
           /\ outbox' \in [Peer -> Seq(Chunk)]
           /\ \A p \in Peer : Len(outbox'[p]) <= OutboxCapacity
           /\ txn_subscribers' \in [Txn -> SUBSET Peer]
           /\ shipped' \in [Peer -> SUBSET Lsn]
<1>1. c \in Commit
    BY DEF TypeOK
<1>2. tokens' \in [Peer -> 0 .. Burst]
    <2>1. ASSUME NEW p \in S \cup T PROVE tokens[p] - 1 \in 0 .. Burst
        BY BoundsAssumption DEF HasToken, TypeOK
    <2> QED BY <2>1 DEF Ship, TypeOK
<1>3. /\ outbox' \in [Peer -> Seq(Chunk)]
      /\ \A p \in Peer : Len(outbox'[p]) <= OutboxCapacity
    <2> DEFINE ch == [from |-> c.from, to |-> c.to]
    <2>1. ch \in Chunk
        BY <1>1, CommitRange
    <2> HIDE DEF ch
    <2>2. ASSUME NEW p \in Peer PROVE Append(outbox[p], ch) \in Seq(Chunk)
        BY <2>1 DEF TypeOK
    <2>3. outbox' = [p \in Peer |->
                IF p \in S THEN Append(outbox[p], ch) ELSE outbox[p]]
        BY DEF Ship, ch
    <2>4. outbox' \in [Peer -> Seq(Chunk)]
        BY <2>2, <2>3 DEF TypeOK
    <2>5. ASSUME NEW p \in Peer PROVE Len(outbox'[p]) <= OutboxCapacity
        <3>1. outbox[p] \in Seq(Chunk) /\ Len(outbox[p]) <= OutboxCapacity
            BY DEF TypeOK
        <3>2. CASE p \in S
            <4>1. outbox'[p] = Append(outbox[p], ch) /\ Len(outbox[p]) < OutboxCapacity
                BY <2>3, <3>2 DEF HasRoom
            <4>2. Len(Append(outbox[p], ch)) = Len(outbox[p]) + 1
                BY <2>1, <3>1
            <4> QED BY <3>1, <4>1, <4>2, BoundsAssumption
        <3>3. CASE p \notin S
            BY <2>3, <3>1, <3>3
        <3> QED BY <3>2, <3>3
    <2> QED BY <2>4, <2>5
<1>4. txn_subscribers' \in [Txn -> SUBSET Peer]
    BY <1>1, CommitRange DEF Ship, TypeOK
<1>5. shipped' \in [Peer -> SUBSET Lsn]
    BY <1>1, CommitRange DEF Ship, TypeOK
<1> QED BY <1>2, <1>3, <1>4, <1>5

\* A step of the streamer keeps every variable in its type.
LEMMA TypeStep == TypeOK /\ [Next]_vars => TypeOK'
<1> SUFFICES ASSUME TypeOK, [Next]_vars PROVE TypeOK'
    OBVIOUS
<1> USE DEF callVars, channelVars, trackerVars, errorVars
<1>c. ASSUME NEW c \in commits PROVE c \in Commit
    BY DEF TypeOK
<1>1. ASSUME NEW x \in Txn, NEW from \in Lsn, NEW to \in Lsn,
             OnCommitAdvance(x, from, to)
      PROVE  TypeOK'
    <2>1. [txn |-> x, from |-> from, to |-> to, at |-> "advanced"] \in Commit
        BY DEF Commit
    <2> QED BY <1>1, <2>1 DEF NextInLine, OnCommitAdvance, TypeOK
<1>2. ASSUME NEW x \in Txn, NEW from \in Lsn, NEW to \in Lsn,
             OnCommitRefuse(x, from, to)
      PROVE  TypeOK'
    BY <1>2 DEF OnCommitRefuse, TypeOK
<1>3. ASSUME NEW c \in commits, OnCommitPaused(c) PROVE TypeOK'
    BY <1>3, <1>c, CommitRange DEF OnCommitPaused, TypeOK
<1>4. ASSUME NEW c \in commits, OnCommitRead(c) PROVE TypeOK'
    <2> DEFINE d == [c EXCEPT !.at = "read"]
    <2>1. d \in Commit
        BY <1>c, CommitRange
    <2>2. commits' = (commits \ {c}) \cup {d}
        BY <1>4 DEF OnCommitRead
    <2> HIDE DEF d
    <2>3. commits' \subseteq Commit
        BY <2>1, <2>2 DEF TypeOK
    <2> QED BY <1>4, <2>3 DEF OnCommitRead, TypeOK
<1>5. ASSUME NEW c \in commits, OnCommitReadFails(c) PROVE TypeOK'
    BY <1>5, <1>c, CommitRange DEF OnCommitReadFails, TypeOK
<1>6. ASSUME NEW c \in commits, OnCommitFanOut(c) PROVE TypeOK'
    <2>1. /\ Ship(c, subscribers, {})
          /\ \A p \in subscribers \cup {} : HasToken(p)
          /\ \A p \in subscribers : HasRoom(p)
        BY <1>6 DEF OnCommitFanOut
    <2>2. /\ tokens' \in [Peer -> 0 .. Burst]
          /\ outbox' \in [Peer -> Seq(Chunk)]
          /\ \A p \in Peer : Len(outbox'[p]) <= OutboxCapacity
          /\ txn_subscribers' \in [Txn -> SUBSET Peer]
          /\ shipped' \in [Peer -> SUBSET Lsn]
        BY ShipType, <2>1 DEF TypeOK
    <2> QED BY <1>6, <2>2 DEF OnCommitFanOut, TypeOK
<1>7. ASSUME NEW c \in commits, NEW f \in subscribers,
             NEW S \in SUBSET subscribers, OnCommitFanOutBreaks(c, f, S)
      PROVE  TypeOK'
    <2> DEFINE T == {p \in {f} : HasToken(p)}
    <2>1. /\ Ship(c, S, T)
          /\ \A p \in S \cup T : HasToken(p)
          /\ \A p \in S : HasRoom(p)
        BY <1>7 DEF OnCommitFanOutBreaks
    <2>2. T \in SUBSET Peer /\ S \in SUBSET Peer /\ f \in Peer
        BY DEF TypeOK
    <2>3. /\ tokens' \in [Peer -> 0 .. Burst]
          /\ outbox' \in [Peer -> Seq(Chunk)]
          /\ \A p \in Peer : Len(outbox'[p]) <= OutboxCapacity
          /\ txn_subscribers' \in [Txn -> SUBSET Peer]
          /\ shipped' \in [Peer -> SUBSET Lsn]
        BY ShipType, <2>1, <2>2
    <2>4. c.txn \in Txn /\ Lsns(c) \subseteq Lsn
        BY <1>c, CommitRange
    <2>5. failed' \subseteq Txn /\ excused' \subseteq Lsn
        BY <1>7, <2>4 DEF OnCommitFanOutBreaks, TypeOK
    <2>6. broke' \subseteq Txn \X Peer
        BY <1>7, <2>2, <2>4 DEF OnCommitFanOutBreaks, TypeOK
    <2> QED BY <1>7, <2>3, <2>5, <2>6 DEF OnCommitFanOutBreaks, TypeOK
<1>8. ASSUME NEW x \in failed, RecordCommitError(x) PROVE TypeOK'
    <2>1. error_queue' \in Seq(Txn) /\ failed' \subseteq Txn
        BY <1>8 DEF RecordCommitError, TypeOK
    <2> QED BY <1>8, <2>1 DEF RecordCommitError, TypeOK
<1>9. ASSUME NEW x \in failed, DropCommitError(x) PROVE TypeOK'
    BY <1>9 DEF DropCommitError, TypeOK
<1>10. CASE DrainErrorQueue
    <2>1. txn_subscribers' \in [Txn -> SUBSET Peer] /\ error_queue' \in Seq(Txn)
        BY <1>10 DEF DrainErrorQueue, TypeOK
    <2> QED BY <1>10, <2>1 DEF DrainErrorQueue, TypeOK
<1>11. ASSUME NEW p \in Peer, SubscribeChannel(p) PROVE TypeOK'
    <2>1. /\ outbox' \in [Peer -> Seq(Chunk)]
          /\ \A q \in Peer : Len(outbox'[q]) <= OutboxCapacity
        BY <1>11, EmptyFits DEF SubscribeChannel, TypeOK
    <2>2. since' \in [Peer -> Lsn]
        BY <1>11, Bounds DEF SubscribeChannel, FreshTokens, TypeOK
    <2>3. shipped' \in [Peer -> SUBSET Lsn]
        BY <1>11 DEF SubscribeChannel, FreshTokens, TypeOK
    <2>4. tokens' \in [Peer -> 0 .. Burst]
        BY <1>11, Bounds DEF SubscribeChannel, FreshTokens, TypeOK
    <2> QED BY <1>11, <2>1, <2>2, <2>3, <2>4 DEF SubscribeChannel, FreshTokens, TypeOK
<1>11a. ASSUME NEW p \in Peer, UnsubscribeChannel(p) PROVE TypeOK'
    <2>1. /\ outbox' \in [Peer -> Seq(Chunk)]
          /\ \A q \in Peer : Len(outbox'[q]) <= OutboxCapacity
        BY <1>11a, EmptyFits DEF UnsubscribeChannel, TypeOK
    <2>2. since' \in [Peer -> Lsn]
        BY <1>11a, Bounds DEF UnsubscribeChannel, TypeOK
    <2>3. shipped' \in [Peer -> SUBSET Lsn]
        BY <1>11a DEF UnsubscribeChannel, TypeOK
    <2>4. tokens' \in [Peer -> 0 .. Burst]
        BY <1>11a, Bounds DEF UnsubscribeChannel, TypeOK
    <2> QED BY <1>11a, <2>1, <2>2, <2>3, <2>4 DEF UnsubscribeChannel, TypeOK
<1>12. ASSUME NEW p \in Peer, SubscribeTracker(p) \/ UnsubscribeTracker(p)
       PROVE  TypeOK'
    <2>1. watermark' \in [Peer -> Lsn]
        BY <1>12, Bounds DEF SubscribeTracker, UnsubscribeTracker, TypeOK
    <2> QED BY <1>12, <2>1 DEF SubscribeTracker, UnsubscribeTracker, TypeOK
<1>13. ASSUME NEW p \in Peer, DrainOutbox(p) PROVE TypeOK'
    <2>1. /\ outbox' \in [Peer -> Seq(Chunk)]
          /\ \A q \in Peer : Len(outbox'[q]) <= OutboxCapacity
        BY <1>13, EmptyFits DEF DrainOutbox, TypeOK
    <2> QED BY <1>13, <2>1 DEF DrainOutbox, TypeOK
<1>14. ASSUME NEW p \in Peer, NEW lsn \in AckLsn, AckLookup(p, lsn)
       PROVE  TypeOK'
    BY <1>14, Bounds DEF AckLookup, TypeOK
<1>15. ASSUME NEW a \in acking, AckAdvance(a[1], a[2]) PROVE TypeOK'
    <2>1. a[1] \in Peer /\ a[2] \in Lsn
        BY DEF TypeOK
    <2>2. watermark' \in [Peer -> Lsn]
        BY <1>15, <2>1 DEF AckAdvance, Advance, TypeOK
    <2>3. acking' \subseteq Peer \X Lsn
        BY <1>15 DEF AckAdvance, TypeOK
    <2> QED BY <1>15, <2>2, <2>3 DEF AckAdvance, TypeOK
<1>16. ASSUME NEW b \in BOOLEAN, SetPaused(b) PROVE TypeOK'
    BY <1>16 DEF SetPaused, TypeOK
<1>17. CASE UNCHANGED vars
    BY <1>17 DEF vars, TypeOK
<1>18. CASE CommitStep
    BY <1>1, <1>3, <1>4, <1>5, <1>6, <1>7, <1>18 DEF CommitStep
<1>19. CASE ErrorStep
    BY <1>2, <1>8, <1>9, <1>10, <1>19 DEF ErrorStep
<1>20. CASE PeerStep
    BY <1>11, <1>11a, <1>12, <1>13, <1>14, <1>15, <1>16, <1>20 DEF PeerStep
<1> QED
    BY <1>17, <1>18, <1>19, <1>20 DEF Next

\* The streamer's variables keep their types: LSNs stay within range, tokens
\* never pass below zero or above the burst, and no outbox grows past its capacity.
THEOREM Typing == Spec => []TypeOK
<1>1. Init => TypeOK
    <2> SUFFICES ASSUME Init PROVE TypeOK
        OBVIOUS
    <2>1. /\ outbox \in [Peer -> Seq(Chunk)] /\ error_queue \in Seq(Txn)
          /\ \A p \in Peer : Len(outbox[p]) <= OutboxCapacity
        BY EmptyFits DEF Init
    <2>2. /\ tokens \in [Peer -> 0 .. Burst]
          /\ watermark \in [Peer -> Lsn]
          /\ since \in [Peer -> Lsn]
        BY Bounds DEF Init
    <2> QED BY <2>1, <2>2, Bounds DEF Init, TypeOK
<1> QED BY <1>1, TypeStep, PTL DEF Spec

-----------------------------------------------------------------------------
(* The inductive invariant *)

\* What StreamInv says beyond the types.
Accounting ==
    /\ CommitsBehindLsn
    /\ CommitsDisjoint
    /\ NothingSentTwice
    /\ ShippedBehindLsn
    /\ NoSilentGap

\* The steps that touch neither the counter, the calls nor the channels.
LEMMA AccountingFrame ==
    ASSUME Accounting,
           UNCHANGED <<current_lsn, commits, subscribers, since, shipped,
                       excused>>
    PROVE  Accounting'
BY DEF Accounting, CommitsBehindLsn, CommitsDisjoint, NothingSentTwice,
       ShippedBehindLsn, NoSilentGap

\* An accepted range starts above current_lsn, hence above every range in
\* progress and every LSN shipped before.
LEMMA AccountingAdvance ==
    ASSUME TypeOK, TypeOK', Accounting, NEW x \in Txn, NEW from \in Lsn,
           NEW to \in Lsn, OnCommitAdvance(x, from, to)
    PROVE  Accounting'
<1> DEFINE n == [txn |-> x, from |-> from, to |-> to, at |-> "advanced"]
<1>1. /\ commits' = commits \cup {n}
      /\ n.from = from /\ n.to = to
      /\ current_lsn' = to /\ from = current_lsn + 1 /\ from <= to
      /\ UNCHANGED <<subscribers, since, shipped, excused>>
    BY DEF NextInLine, OnCommitAdvance, channelVars
<1>2. /\ current_lsn \in Nat /\ from \in Nat /\ to \in Nat
      /\ \A c \in commits : c.from \in Nat /\ c.to \in Nat
      /\ \A p \in Peer : shipped[p] \subseteq Nat
    <2>1. Lsn \subseteq Nat
        BY BoundsAssumption DEF Lsn
    <2>2. \A c \in commits : c.from \in Nat /\ c.to \in Nat
        BY CommitRange DEF TypeOK
    <2>3. \A p \in Peer : shipped[p] \subseteq Nat
        BY <2>1 DEF TypeOK
    <2> QED BY <2>1, <2>2, <2>3 DEF TypeOK
<1> HIDE DEF n
<1>3. CommitsBehindLsn'
    BY <1>1, <1>2 DEF Accounting, CommitsBehindLsn
<1>4. CommitsDisjoint'
    BY <1>1, <1>2 DEF Accounting, CommitsBehindLsn, CommitsDisjoint, Disjoint
<1>5. NothingSentTwice'
    BY <1>1, <1>2 DEF Accounting, NothingSentTwice, ShippedBehindLsn, Lsns
<1>6. ShippedBehindLsn'
    BY <1>1, <1>2 DEF Accounting, ShippedBehindLsn
<1>8. NoSilentGap'
    <2> SUFFICES ASSUME NEW p \in subscribers, NEW l \in (since[p] + 1) .. to
                 PROVE  \/ l \in shipped[p]
                        \/ l \in excused
                        \/ \E c \in commits' : l \in Lsns(c)
        BY <1>1 DEF NoSilentGap
    <2>1. since[p] \in Nat
        BY BoundsAssumption DEF TypeOK, Lsn
    <2>2. CASE l <= current_lsn
        BY <1>1, <1>2, <2>1, <2>2 DEF Accounting, NoSilentGap
    <2>3. CASE l > current_lsn
        <3>1. l \in Lsns(n)
            BY <1>1, <1>2, <2>1, <2>3 DEF Lsns
        <3> QED BY <1>1, <3>1
    <2> QED BY <1>2, <2>1, <2>2, <2>3
<1> QED BY <1>3, <1>4, <1>5, <1>6, <1>8 DEF Accounting

\* A call that ends without shipping leaves its range excused.
LEMMA AccountingExcused ==
    ASSUME Accounting, NEW c \in commits,
           commits' = commits \ {c}, excused' = excused \cup Lsns(c),
           UNCHANGED <<current_lsn, subscribers, since, shipped>>
    PROVE  Accounting'
<1>1. CommitsBehindLsn' /\ CommitsDisjoint' /\ NothingSentTwice'
    BY DEF Accounting, CommitsBehindLsn, CommitsDisjoint, NothingSentTwice
<1>2. ShippedBehindLsn'
    BY DEF Accounting, ShippedBehindLsn
<1>3. NoSilentGap'
    BY DEF Accounting, NoSilentGap
<1> QED BY <1>1, <1>2, <1>3 DEF Accounting

\* Reading the WAL only marks the call.
LEMMA AccountingRead ==
    ASSUME TypeOK, Accounting, NEW c \in commits, OnCommitRead(c)
    PROVE  Accounting'
<1> DEFINE d == [c EXCEPT !.at = "read"]
<1>1. /\ commits' = (commits \ {c}) \cup {d}
      /\ d.from = c.from /\ d.to = c.to /\ Lsns(d) = Lsns(c)
      /\ UNCHANGED <<current_lsn, subscribers, since, shipped, excused>>
    <2>1. c \in Commit
        BY DEF TypeOK
    <2>2. d.from = c.from /\ d.to = c.to
        BY <2>1 DEF Commit
    <2> QED BY <2>2 DEF OnCommitRead, channelVars, Lsns
<1> HIDE DEF d
<1>2. CommitsBehindLsn' /\ NothingSentTwice'
    BY <1>1 DEF Accounting, CommitsBehindLsn, NothingSentTwice
<1>3. CommitsDisjoint'
    BY <1>1 DEF Accounting, CommitsDisjoint, Disjoint
<1>4. ShippedBehindLsn'
    BY <1>1 DEF Accounting, ShippedBehindLsn
<1>5. NoSilentGap'
    BY <1>1 DEF Accounting, NoSilentGap
<1> QED BY <1>2, <1>3, <1>4, <1>5 DEF Accounting

\* A fan-out ends the call; the LSNs it ships were in nobody's outbox, and a
\* subscriber it skips is excused.
LEMMA AccountingShip ==
    ASSUME TypeOK, Accounting, NEW c \in commits,
           NEW S \in SUBSET Peer, NEW T \in SUBSET Peer, Ship(c, S, T),
           commits' = commits \ {c},
           excused \subseteq excused',
           \A p \in subscribers \ S : Lsns(c) \subseteq excused',
           UNCHANGED <<current_lsn, subscribers, since>>
    PROVE  Accounting'
<1>1. shipped' = [p \in Peer |->
            IF p \in S THEN shipped[p] \cup Lsns(c) ELSE shipped[p]]
    BY DEF Ship
<1>2. /\ current_lsn \in Nat
      /\ \A d \in commits : d.from \in Nat /\ d.to \in Nat
    BY BoundsAssumption DEF TypeOK, Lsn, Commit
<1>6. CommitsBehindLsn' /\ CommitsDisjoint'
    BY DEF Accounting, CommitsBehindLsn, CommitsDisjoint
<1>7. NothingSentTwice'
    <2> SUFFICES ASSUME NEW d \in commits, d # c, NEW p \in Peer,
                        NEW l \in shipped'[p]
                 PROVE  l \notin Lsns(d)
        BY DEF NothingSentTwice
    <2>1. CASE l \in shipped[p]
        BY <2>1 DEF Accounting, NothingSentTwice
    <2>2. CASE l \in Lsns(c)
        BY <1>2, <2>2 DEF Accounting, CommitsDisjoint, Disjoint, Lsns
    <2> QED BY <1>1, <2>1, <2>2
<1>8. ShippedBehindLsn'
    <2> SUFFICES ASSUME NEW p \in Peer, NEW l \in shipped'[p]
                 PROVE  l <= current_lsn
        BY DEF ShippedBehindLsn
    <2>1. CASE l \in shipped[p]
        BY <2>1 DEF Accounting, ShippedBehindLsn
    <2>2. CASE l \in Lsns(c)
        BY <1>2, <2>2 DEF Accounting, CommitsBehindLsn, Lsns
    <2> QED BY <1>1, <2>1, <2>2
<1>11. NoSilentGap'
    <2> SUFFICES ASSUME NEW p \in subscribers,
                        NEW l \in (since[p] + 1) .. current_lsn
                 PROVE  \/ l \in shipped'[p]
                        \/ l \in excused'
                        \/ \E d \in commits' : l \in Lsns(d)
        BY DEF NoSilentGap
    <2>0. p \in Peer
        BY DEF TypeOK
    <2>1. \/ l \in shipped[p] \/ l \in excused
          \/ \E d \in commits : l \in Lsns(d)
        BY DEF Accounting, NoSilentGap
    <2>2. CASE l \in shipped[p]
        BY <1>1, <2>0, <2>2
    <2>3. CASE l \in Lsns(c)
        BY <1>1, <2>0, <2>3
    <2> QED BY <2>1, <2>2, <2>3
<1> QED BY <1>6, <1>7, <1>8, <1>11 DEF Accounting

\* A new, dropped or drained channel starts an empty account for its peer.
LEMMA AccountingChannel ==
    ASSUME TypeOK, Accounting, NEW p \in Peer,
           \/ SubscribeChannel(p)
           \/ UnsubscribeChannel(p)
           \/ DrainOutbox(p)
    PROVE  Accounting'
<1>1. UNCHANGED <<current_lsn, commits, excused>>
    BY DEF SubscribeChannel, UnsubscribeChannel, DrainOutbox, callVars
<1>2. /\ \A q \in Peer : shipped'[q] \subseteq shipped[q]
      /\ \A q \in Peer \ {p} : shipped'[q] = shipped[q] /\ since'[q] = since[q]
    <2>1. CASE DrainOutbox(p)
        BY <2>1 DEF DrainOutbox
    <2>2. CASE SubscribeChannel(p)
        BY <2>2 DEF SubscribeChannel, TypeOK
    <2>3. CASE UnsubscribeChannel(p)
        BY <2>3 DEF UnsubscribeChannel, TypeOK
    <2> QED BY <2>1, <2>2, <2>3
<1>5. CommitsBehindLsn' /\ CommitsDisjoint' /\ NothingSentTwice'
    BY <1>1, <1>2
    DEF Accounting, CommitsBehindLsn, CommitsDisjoint, NothingSentTwice
<1>6. ShippedBehindLsn'
    BY <1>1, <1>2 DEF Accounting, ShippedBehindLsn
<1>8. NoSilentGap'
    <2> SUFFICES ASSUME NEW q \in subscribers',
                        NEW l \in (since'[q] + 1) .. current_lsn
                 PROVE  \/ l \in shipped'[q]
                        \/ l \in excused
                        \/ \E d \in commits : l \in Lsns(d)
        BY <1>1 DEF NoSilentGap
    <2>1. CASE DrainOutbox(p)
        BY <2>1 DEF DrainOutbox, Accounting, NoSilentGap
    <2>2. CASE q # p /\ (SubscribeChannel(p) \/ UnsubscribeChannel(p))
        <3>1. q \in subscribers /\ q \in Peer
            BY <2>2 DEF SubscribeChannel, UnsubscribeChannel, TypeOK
        <3> QED BY <1>2, <2>2, <3>1 DEF Accounting, NoSilentGap
    <2>3. CASE q = p /\ SubscribeChannel(p)
        <3>1. since'[q] = current_lsn /\ current_lsn \in Nat
            BY <2>3, BoundsAssumption DEF SubscribeChannel, FreshTokens, TypeOK, Lsn
        <3> QED BY <3>1
    <2>4. CASE q = p /\ UnsubscribeChannel(p)
        BY <2>4 DEF UnsubscribeChannel
    <2> QED BY <2>1, <2>2, <2>3, <2>4
<1> QED BY <1>5, <1>6, <1>8 DEF Accounting

LEMMA AccountingStep ==
    TypeOK /\ TypeOK' /\ Accounting /\ [Next]_vars => Accounting'
<1> SUFFICES ASSUME TypeOK, TypeOK', Accounting, [Next]_vars PROVE Accounting'
    OBVIOUS
<1> DEFINE untouched == <<current_lsn, commits, subscribers, since, shipped,
                          excused>>
<1>f. ASSUME UNCHANGED untouched PROVE Accounting'
    BY <1>f, AccountingFrame
<1>1. CASE CommitStep
    <2>1. CASE \E x \in Txn, from, to \in Lsn : OnCommitAdvance(x, from, to)
        BY <2>1, AccountingAdvance
    <2>2. ASSUME NEW c \in commits, OnCommitPaused(c) \/ OnCommitReadFails(c)
          PROVE  Accounting'
        <3>1. /\ commits' = commits \ {c}
              /\ excused' = excused \cup Lsns(c)
              /\ UNCHANGED <<current_lsn, subscribers, since, shipped>>
            BY <2>2 DEF OnCommitPaused, OnCommitReadFails, channelVars
        <3> QED BY <3>1, AccountingExcused
    <2>3. ASSUME NEW c \in commits, OnCommitRead(c) PROVE Accounting'
        BY <2>3, AccountingRead
    <2>4. ASSUME NEW c \in commits, OnCommitFanOut(c) PROVE Accounting'
        <3>1. /\ Ship(c, subscribers, {})
              /\ commits' = commits \ {c}
              /\ excused \subseteq excused'
              /\ \A p \in subscribers \ subscribers : Lsns(c) \subseteq excused'
              /\ UNCHANGED <<current_lsn, subscribers, since>>
            BY <2>4 DEF OnCommitFanOut
        <3>2. subscribers \in SUBSET Peer /\ {} \in SUBSET Peer
            BY DEF TypeOK
        <3> QED BY <3>1, <3>2, AccountingShip
    <2>5. ASSUME NEW c \in commits, NEW f \in subscribers,
                 NEW S \in SUBSET subscribers, OnCommitFanOutBreaks(c, f, S)
          PROVE  Accounting'
        <3> DEFINE T == {p \in {f} : HasToken(p)}
        <3>1. /\ Ship(c, S, T)
              /\ commits' = commits \ {c}
              /\ excused' = excused \cup Lsns(c)
              /\ UNCHANGED <<current_lsn, subscribers, since>>
            BY <2>5 DEF OnCommitFanOutBreaks
        <3>2. S \in SUBSET Peer /\ T \in SUBSET Peer
            BY DEF TypeOK
        <3> QED BY <3>1, <3>2, AccountingShip
    <2> QED BY <1>1, <2>1, <2>2, <2>3, <2>4, <2>5 DEF CommitStep
<1>2. CASE ErrorStep
    <2>1. UNCHANGED untouched
        BY <1>2 DEF ErrorStep, OnCommitRefuse, RecordCommitError,
                    DropCommitError, DrainErrorQueue, callVars, channelVars
    <2> QED BY <1>f, <2>1
<1>3. CASE PeerStep
    <2>1. ASSUME NEW p \in Peer, \/ SubscribeChannel(p)
                                 \/ UnsubscribeChannel(p)
                                 \/ DrainOutbox(p)
          PROVE  Accounting'
        BY <2>1, AccountingChannel
    <2>2. ASSUME NEW p \in Peer, SubscribeTracker(p) \/ UnsubscribeTracker(p)
          PROVE  Accounting'
        BY <1>f, <2>2 DEF SubscribeTracker, UnsubscribeTracker, channelVars
    <2>3. ASSUME NEW p \in Peer, NEW lsn \in AckLsn, AckLookup(p, lsn)
          PROVE  Accounting'
        BY <1>f, <2>3 DEF AckLookup, channelVars
    <2>4. ASSUME NEW a \in acking, AckAdvance(a[1], a[2]) PROVE Accounting'
        BY <1>f, <2>4 DEF AckAdvance, channelVars
    <2>5. ASSUME NEW b \in BOOLEAN, SetPaused(b) PROVE Accounting'
        BY <1>f, <2>5 DEF SetPaused, callVars, channelVars
    <2> QED BY <1>3, <2>1, <2>2, <2>3, <2>4, <2>5 DEF PeerStep
<1>4. CASE UNCHANGED vars
    BY <1>f, <1>4 DEF vars, callVars, channelVars
<1> QED BY <1>1, <1>2, <1>3, <1>4 DEF Next

\* The account of what was shipped to whom holds in every reachable state.
THEOREM StreamInvariant == Spec => []StreamInv
<1>1. Init => Accounting
    <2> SUFFICES ASSUME Init PROVE Accounting
        OBVIOUS
    <2>2. \A p \in Peer : shipped[p] = {}
        BY DEF Init
    <2>3. commits = {} /\ subscribers = {}
        BY DEF Init
    <2> QED BY <2>2, <2>3
            DEF Accounting, CommitsBehindLsn, CommitsDisjoint, NothingSentTwice,
                ShippedBehindLsn, NoSilentGap
<1>2. TypeOK /\ Accounting <=> StreamInv
    BY DEF Accounting, StreamInv
<1> QED BY <1>1, <1>2, Typing, TypeStep, AccountingStep, PTL DEF Spec

\* However concurrent on_commit calls interleave, none of them is about to fan
\* out an LSN that was already queued for a reader.
THEOREM NoDuplicateShipping == Spec => []NothingSentTwice
<1>1. StreamInv => NothingSentTwice
    BY DEF StreamInv
<1> QED BY <1>1, StreamInvariant, PTL

\* A subscriber misses an LSN committed during its subscription only if the
\* pause flag or a returned error accounts for it.
THEOREM GapsAreAccountedFor == Spec => []NoSilentGap
<1>1. StreamInv => NoSilentGap
    BY DEF StreamInv
<1> QED BY <1>1, StreamInvariant, PTL
=============================================================================
