------------------------- MODULE WalReplay_proofs -------------------------
(***************************************************************************)
(* Machine-checked proofs about WalReplay: replay_wal fails closed, and    *)
(* over a sound medium is complete and fails only for a reason, for any    *)
(* log, any number of calls and any number of faults.                      *)
(***************************************************************************)
EXTENDS WalReplay, SequenceTheorems, TLAPS

\* The steps of the system, one disjunct per action.
LEMMA Steps ==
    ASSUME [Next]_vars
    PROVE  \/ \E k \in Kind, s \in Shard : AppendWalEntry(k, s)
           \/ \E i \in DOMAIN stored : Lose(i)
           \/ \E i \in DOMAIN stored, f \in Fields : Damage(i, f)
           \/ \E start \in 0 .. MaxLsn, s \in Shard : BeginReplay(start, s)
           \/ ReadRange
           \/ ReadFails
           \/ \E i \in DOMAIN batch : ApplyEntry(i)
           \/ \E i \in DOMAIN batch : RejectEntry(i)
           \/ CompleteReplay
           \/ UNCHANGED vars
    BY DEF Next

-----------------------------------------------------------------------------
(* Typing *)

LEMMA NewEntryType ==
    ASSUME NEW lsn \in 1 .. MaxLsn, NEW k \in Kind, NEW s \in Shard
    PROVE  NewEntry(lsn, k, s) \in Entry
    BY DEF NewEntry, Entry, Prefix, Payload

\* A damaged entry still has the shape of one.
LEMMA DamagedType ==
    ASSUME NEW e \in Entry, NEW f \in Fields, NEW v \in DamagedTo(f)
    PROVE  [e EXCEPT ![f] = v] \in Entry
<1> USE DEF Entry, DamagedTo
<1>1. CASE f = "lsn"
    BY <1>1
<1>2. CASE f = "kind"
    BY <1>2
<1>3. CASE f = "shard"
    BY <1>3
<1>4. CASE f = "prefix"
    BY <1>4 DEF Prefix
<1>5. CASE f = "payload"
    BY <1>5 DEF Payload
<1>6. CASE f = "sum"
    BY <1>6
<1> HIDE DEF Entry, DamagedTo
<1> QED BY <1>1, <1>2, <1>3, <1>4, <1>5, <1>6 DEF Fields

\* What is left when an entry is lost was there before.
LEMMA WithoutEntry ==
    ASSUME NEW S, NEW s \in Seq(S), NEW i \in DOMAIN s
    PROVE  /\ Without(s, i) \in Seq(S)
           /\ \A j \in DOMAIN Without(s, i) : \E k \in DOMAIN s : Without(s, i)[j] = s[k]
<1>1. Len(s) \in Nat /\ DOMAIN s = 1 .. Len(s) /\ \A j \in 1 .. Len(s) : s[j] \in S
    OBVIOUS
<1>2. \A j \in 1 .. Len(s) - 1 : /\ j \in 1 .. Len(s) /\ j + 1 \in 1 .. Len(s)
    BY <1>1
<1>3. \A j \in 1 .. Len(s) - 1 : (IF j < i THEN s[j] ELSE s[j + 1]) \in S
    BY <1>1, <1>2
<1>4. Len(s) - 1 \in Nat
    BY <1>1
<1>5. Without(s, i) \in Seq(S)
    BY <1>3, <1>4, IsASeq DEF Without
<1>6. \A j \in DOMAIN Without(s, i) : \E k \in DOMAIN s : Without(s, i)[j] = s[k]
    BY <1>1, <1>2 DEF Without
<1> QED BY <1>5, <1>6

\* A damaged entry replaces the one it was.
LEMMA DamagedStored ==
    ASSUME TypeOK, NEW i \in DOMAIN stored, NEW f \in Fields, Damage(i, f)
    PROVE  \E v \in DamagedTo(f) :
            /\ [stored[i] EXCEPT ![f] = v] \in Entry
            /\ stored' = [stored EXCEPT ![i] = [stored[i] EXCEPT ![f] = v]]
            /\ stored' \in Seq(Entry)
<1>1. PICK v \in DamagedTo(f) : stored' = [stored EXCEPT ![i][f] = v]
    BY DEF Damage
<1>2. stored \in Seq(Entry) /\ stored[i] \in Entry
    BY DEF TypeOK
<1>3. [stored[i] EXCEPT ![f] = v] \in Entry
    BY <1>2, DamagedType
<1>4. stored' = [stored EXCEPT ![i] = [stored[i] EXCEPT ![f] = v]]
    BY <1>1
<1>5. stored' \in Seq(Entry)
    BY <1>2, <1>3, <1>4, ExceptSeq
<1> QED BY <1>3, <1>4, <1>5

\* The progress replay_wal notes in its context.
LEMMA StateType ==
    ASSUME NEW st \in ReplayState, NEW l \in 1 .. MaxLsn, NEW n \in Nat
    PROVE  [st EXCEPT !.last = l, !.attempted = n] \in ReplayState
<1>1. l \in 0 .. MaxLsn
    BY ReplayAssumption
<1> QED BY <1>1 DEF ReplayState

LEMMA TypeStep ==
    ASSUME TypeOK, [Next]_vars
    PROVE  TypeOK'
<1> USE ReplayAssumption DEF callVars
<1>0. /\ log \in Seq(Entry) /\ stored \in Seq(Entry) /\ applied \in Seq(Entry)
      /\ Len(log) \in Nat
      /\ state \in ReplayState /\ state.attempted + 1 \in Nat
    BY DEF TypeOK, ReplayState
<1>1. ASSUME NEW k \in Kind, NEW s \in Shard, AppendWalEntry(k, s) PROVE TypeOK'
    <2>1. NewEntry(NextLsn, k, s) \in Entry
        <3>1. NextLsn \in 1 .. MaxLsn
            BY <1>0, <1>1 DEF AppendWalEntry, NextLsn
        <3> QED BY <3>1, NewEntryType
    <2>2. log' \in Seq(Entry) /\ stored' \in Seq(Entry)
        BY <1>0, <1>1, <2>1, AppendProperties DEF AppendWalEntry
    <2>3. Len(log') <= MaxLsn
        BY <1>0, <1>1, <2>1, AppendProperties DEF AppendWalEntry
    <2> QED BY <1>1, <2>2, <2>3 DEF AppendWalEntry, TypeOK
<1>2. ASSUME NEW i \in DOMAIN stored, Lose(i) PROVE TypeOK'
    <2>1. stored' \in Seq(Entry)
        BY <1>0, <1>2, WithoutEntry DEF Lose
    <2>2. faults' \in 0 .. MaxFaults
        BY <1>2 DEF Lose, TypeOK
    <2> QED BY <1>2, <2>1, <2>2 DEF Lose, TypeOK
<1>3. ASSUME NEW i \in DOMAIN stored, NEW f \in Fields, Damage(i, f) PROVE TypeOK'
    <2>1. stored' \in Seq(Entry)
        BY <1>3, DamagedStored
    <2>2. faults' \in 0 .. MaxFaults
        BY <1>3 DEF Damage, TypeOK
    <2> QED BY <1>3, <2>1, <2>2 DEF Damage, TypeOK
<1>4. ASSUME NEW start \in 0 .. MaxLsn, NEW s \in Shard, BeginReplay(start, s)
      PROVE  TypeOK'
    <2>1. Before(start) \in 0 .. MaxLsn
        BY DEF Before
    <2>2. state' \in ReplayState
        BY <1>4 DEF BeginReplay, ReplayState
    <2>3. replays' \in 0 .. MaxReplays
        BY <1>4 DEF BeginReplay, TypeOK
    <2>4. applied' \in Seq(Entry)
        BY <1>4 DEF BeginReplay
    <2> QED BY <1>4, <2>1, <2>2, <2>3, <2>4 DEF BeginReplay, TypeOK
<1>5. CASE ReadRange
    <2>1. DOMAIN stored \subseteq Nat /\ \A i \in DOMAIN stored : stored[i] \in Entry
        BY <1>0
    <2>2. DOMAIN batch' \subseteq Nat /\ batch' \in [DOMAIN batch' -> Entry]
        BY <1>5, <2>1 DEF ReadRange
    <2>3. seen' \in 0 .. MaxLsn
        BY <1>0, <1>5 DEF ReadRange, TypeOK
    <2> QED BY <1>5, <2>2, <2>3 DEF ReadRange, TypeOK
<1>6. CASE ReadFails
    BY <1>6 DEF ReadFails, TypeOK
<1>7. ASSUME NEW i \in DOMAIN batch, ApplyEntry(i) PROVE TypeOK'
    <2>1. batch[i] \in Entry /\ batch[i].lsn \in 1 .. MaxLsn
        BY DEF TypeOK, Entry
    <2>2. applied' \in Seq(Entry)
        BY <1>0, <1>7, <2>1, AppendProperties DEF ApplyEntry
    <2>3. state' \in ReplayState
        <3>1. state' = [state EXCEPT !.last = batch[i].lsn, !.attempted = state.attempted + 1]
            BY <1>7 DEF ApplyEntry
        <3> QED BY <1>0, <2>1, <3>1, StateType
    <2>4. DOMAIN batch' \subseteq Nat /\ batch' \in [DOMAIN batch' -> Entry]
        BY <1>7 DEF ApplyEntry, TypeOK
    <2> QED BY <1>7, <2>1, <2>2, <2>3, <2>4 DEF ApplyEntry, TypeOK
<1>8. ASSUME NEW i \in DOMAIN batch, RejectEntry(i) PROVE TypeOK'
    <2>1. state' \in ReplayState
        BY <1>0, <1>8 DEF RejectEntry, ReplayState
    <2>2. DOMAIN batch' \subseteq Nat /\ batch' \in [DOMAIN batch' -> Entry]
        BY <1>8 DEF RejectEntry
    <2> QED BY <1>8, <2>1, <2>2 DEF RejectEntry, TypeOK
<1>9. CASE CompleteReplay
    <2>1. state' \in ReplayState
        BY <1>0, <1>9 DEF CompleteReplay, ReplayState
    <2> QED BY <1>9, <2>1 DEF CompleteReplay, TypeOK
<1>10. CASE UNCHANGED vars
    BY <1>10 DEF vars, TypeOK
<1> QED BY Steps, <1>1, <1>2, <1>3, <1>4, <1>5, <1>6, <1>7, <1>8, <1>9, <1>10

LEMMA InitTyped ==
    ASSUME Init
    PROVE  TypeOK
<1>1. <<>> \in Seq(Entry) /\ Len(<<>>) = 0 /\ DOMAIN <<>> = {}
    OBVIOUS
<1>2. 0 \in 0 .. MaxLsn /\ 0 \in 0 .. MaxFaults /\ 0 \in 0 .. MaxReplays /\ 0 <= MaxLsn
    BY ReplayAssumption
<1>3. state \in ReplayState
    BY <1>2 DEF Init, ReplayState
<1>4. DOMAIN batch \subseteq Nat /\ batch \in [DOMAIN batch -> Entry]
    BY <1>1 DEF Init
<1> QED BY <1>1, <1>2, <1>3, <1>4 DEF Init, TypeOK

-----------------------------------------------------------------------------
(* The log *)

\* The log only grows.
LEMMA LogGrows ==
    ASSUME TypeOK, [Next]_vars
    PROVE  /\ Len(log) <= Len(log')
           /\ DOMAIN log \subseteq DOMAIN log'
           /\ \A i \in DOMAIN log : log'[i] = log[i]
<1>1. log \in Seq(Entry) /\ Len(log) \in Nat
    BY DEF TypeOK
<1>2. ASSUME NEW k \in Kind, NEW s \in Shard, AppendWalEntry(k, s)
      PROVE  /\ Len(log) <= Len(log')
             /\ DOMAIN log \subseteq DOMAIN log'
             /\ \A i \in DOMAIN log : log'[i] = log[i]
    <2>1. log' = Append(log, NewEntry(NextLsn, k, s)) /\ Len(log) < MaxLsn
        BY <1>2 DEF AppendWalEntry
    <2>2. NextLsn \in 1 .. MaxLsn
        BY <1>1, <2>1, ReplayAssumption DEF NextLsn
    <2>3. NewEntry(NextLsn, k, s) \in Entry
        BY <2>2, NewEntryType
    <2> QED BY <1>1, <2>1, <2>3
<1>3. CASE log' = log
    BY <1>1, <1>3
<1> QED BY Steps, <1>2, <1>3 DEF Lose, Damage, BeginReplay, ReadRange, ReadFails,
        ApplyEntry, RejectEntry, CompleteReplay, vars

\* Every entry of it is the one append_wal_entry built for its LSN.
LEMMA BuiltStep ==
    ASSUME TypeOK, LogIsBuilt, [Next]_vars
    PROVE  LogIsBuilt'
<1>1. log \in Seq(Entry) /\ Len(log) \in Nat
    BY DEF TypeOK
<1>2. ASSUME NEW k \in Kind, NEW s \in Shard, AppendWalEntry(k, s)
      PROVE  LogIsBuilt'
    <2>1. log' = Append(log, NewEntry(NextLsn, k, s)) /\ NextLsn = Len(log) + 1
          /\ Len(log) < MaxLsn
        BY <1>2 DEF AppendWalEntry, NextLsn
    <2>2. NextLsn \in 1 .. MaxLsn
        BY <1>1, <2>1, ReplayAssumption
    <2>3. NewEntry(NextLsn, k, s) \in Entry
        BY <2>2, NewEntryType
    <2>4. /\ DOMAIN log' = 1 .. Len(log) + 1
          /\ \A i \in 1 .. Len(log) : log'[i] = log[i]
          /\ log'[Len(log) + 1] = NewEntry(Len(log) + 1, k, s)
        BY <1>1, <2>1, <2>3, AppendProperties
    <2>5. ASSUME NEW i \in DOMAIN log'
          PROVE  \E k1 \in Kind, s1 \in Shard : log'[i] = NewEntry(i, k1, s1)
        <3>1. CASE i = Len(log) + 1
            BY <2>4, <3>1
        <3>2. CASE i \in 1 .. Len(log)
            BY <1>1, <2>4, <3>2 DEF LogIsBuilt
        <3> QED BY <1>1, <2>4, <3>1, <3>2
    <2> QED BY <2>5 DEF LogIsBuilt
<1>3. CASE log' = log
    BY <1>3 DEF LogIsBuilt
<1> QED BY Steps, <1>2, <1>3 DEF Lose, Damage, BeginReplay, ReadRange, ReadFails,
        ApplyEntry, RejectEntry, CompleteReplay, vars

\* What an entry of the log says of itself.
LEMMA LogEntry ==
    ASSUME TypeOK, LogIsBuilt, NEW i \in DOMAIN log
    PROVE  /\ log[i] \in Entry /\ log[i].lsn = i /\ i \in 1 .. Len(log)
           /\ log[i].sum = <<log[i].prefix, log[i].payload>>
           /\ Agrees(log[i])
<1>1. PICK k \in Kind, s \in Shard : log[i] = NewEntry(i, k, s)
    BY DEF LogIsBuilt
<1>2. log[i] \in Entry /\ i \in 1 .. Len(log)
    BY DEF TypeOK
<1> QED BY <1>1, <1>2 DEF NewEntry, Agrees

\* An entry of the medium whose checksum matches has the checksummed parts of an
\* entry of the log; if its fields agree with them, it is the one with its LSN.
LEMMA Intact ==
    ASSUME TypeOK, LogIsBuilt, NEW e \in Entry, Derived(e, log), ChecksumOK(e)
    PROVE  /\ \E j \in DOMAIN log : Checksummed(e) = Checksummed(log[j])
           /\ Agrees(e) => /\ e.lsn \in DOMAIN log /\ e = log[e.lsn]
                           /\ e.prefix.shard = e.shard
<1>1. PICK i \in DOMAIN log :
        /\ e.prefix \in {log[i].prefix, Junk}
        /\ e.payload \in {log[i].payload, Junk}
        /\ e.sum \in {log[i].sum, Junk}
    BY DEF Derived
<1>2. log[i] \in Entry /\ log[i].lsn = i /\ Agrees(log[i])
      /\ log[i].sum = <<log[i].prefix, log[i].payload>>
    BY LogEntry
<1>3. e.sum = <<e.prefix, e.payload>> /\ e.prefix \in Prefix /\ e.payload \in Payload
    BY DEF ChecksumOK, Entry
<1>4. e.sum # Junk
    BY <1>3, JunkAssumption
<1>5. e.prefix = log[i].prefix /\ e.payload = log[i].payload /\ e.sum = log[i].sum
    BY <1>1, <1>2, <1>3, <1>4
<1>6. Checksummed(e) = Checksummed(log[i])
    BY <1>5 DEF Checksummed
<1>7. ASSUME Agrees(e)
      PROVE  e.lsn \in DOMAIN log /\ e = log[e.lsn] /\ e.prefix.shard = e.shard
    <2>1. e.lsn = log[i].lsn /\ e.kind = log[i].kind /\ e.shard = log[i].shard
        BY <1>2, <1>5, <1>7 DEF Agrees
    <2>2. e = log[i]
        BY <1>2, <1>5, <2>1 DEF Entry
    <2>3. e.prefix.shard = e.shard
        BY <1>7 DEF Agrees
    <2> QED BY <1>2, <2>2, <2>3
<1> QED BY <1>6, <1>7

\* The LSN the loop expects first.
LEMMA FirstIs ==
    ASSUME TypeOK
    PROVE  First \in Nat /\ First >= 1 /\ First >= state.start /\ state.start \in Nat
           /\ Before(state.start) = First - 1
<1>1. state.start \in Nat
    BY ReplayAssumption DEF TypeOK, ReplayState
<1> QED BY <1>1 DEF First, Before

-----------------------------------------------------------------------------
(* Whatever happens to the medium *)

\* What was derived from the log is derived from the longer one.
LEMMA StillDerived ==
    ASSUME TypeOK, [Next]_vars, NEW e, Derived(e, log)
    PROVE  Derived(e, log')
<1>1. DOMAIN log \subseteq DOMAIN log' /\ \A i \in DOMAIN log : log'[i] = log[i]
    BY LogGrows
<1> QED BY <1>1 DEF Derived

\* An entry of the log is derived from it.
LEMMA OwnDerived ==
    ASSUME NEW l, NEW i \in DOMAIN l
    PROVE  Derived(l[i], l)
    BY DEF Derived

\* Damage to any part leaves an entry derived.
LEMMA DamagedDerived ==
    ASSUME NEW e \in Entry, NEW l, Derived(e, l),
           NEW f \in Fields, NEW v \in DamagedTo(f)
    PROVE  Derived([e EXCEPT ![f] = v], l)
<1>1. PICK i \in DOMAIN l :
        /\ e.prefix \in {l[i].prefix, Junk}
        /\ e.payload \in {l[i].payload, Junk}
        /\ e.sum \in {l[i].sum, Junk}
    BY DEF Derived
<1> DEFINE d == [e EXCEPT ![f] = v]
<1>2. /\ d.prefix \in {e.prefix, Junk} /\ d.payload \in {e.payload, Junk}
      /\ d.sum \in {e.sum, Junk}
    <2>1. CASE f \in {"lsn", "kind", "shard"}
        BY <2>1 DEF Entry
    <2>2. CASE f \in {"prefix", "payload", "sum"}
        <3>1. v = Junk
            BY <2>2 DEF DamagedTo
        <3> QED BY <2>2, <3>1 DEF Entry
    <2> QED BY <2>1, <2>2 DEF Fields
<1> HIDE DEF d
<1>3. Derived(d, l)
    BY <1>1, <1>2 DEF Derived
<1> QED BY <1>3 DEF d

\* Everything the medium holds, and everything that was read, is derived from the
\* log.
LEMMA DerivedStep ==
    ASSUME TypeOK, [Next]_vars,
           \A i \in DOMAIN stored : Derived(stored[i], log),
           \A i \in DOMAIN batch : Derived(batch[i], log)
    PROVE  /\ \A i \in DOMAIN stored' : Derived(stored'[i], log')
           /\ \A i \in DOMAIN batch' : Derived(batch'[i], log')
<1> USE DEF callVars
<1>0. stored \in Seq(Entry) /\ log \in Seq(Entry)
      /\ \A i \in DOMAIN stored : stored[i] \in Entry
    BY DEF TypeOK
<1>d. /\ \A i \in DOMAIN stored : Derived(stored[i], log')
      /\ \A i \in DOMAIN batch : Derived(batch[i], log')
    BY StillDerived
<1>1. \A i \in DOMAIN stored' : Derived(stored'[i], log')
    <2>1. ASSUME NEW k \in Kind, NEW s \in Shard, AppendWalEntry(k, s),
                 NEW i \in DOMAIN stored'
          PROVE  Derived(stored'[i], log')
        <3> DEFINE entry == NewEntry(NextLsn, k, s)
        <3>1. /\ log' = Append(log, entry) /\ stored' = Append(stored, entry)
              /\ Len(log) < MaxLsn
            BY <2>1 DEF AppendWalEntry
        <3>2. Len(log) + 1 \in 1 .. MaxLsn
            BY <1>0, <3>1, ReplayAssumption
        <3>3. entry \in Entry
            BY <3>2, NewEntryType DEF NextLsn
        <3> HIDE DEF entry
        <3>4. Len(log) + 1 \in DOMAIN log' /\ log'[Len(log) + 1] = entry
            BY <1>0, <3>1, <3>3
        <3>5. Derived(entry, log')
            BY <3>4, OwnDerived
        <3>6. stored'[i] = entry \/ (i \in DOMAIN stored /\ stored'[i] = stored[i])
            BY <1>0, <2>1, <3>1, <3>3
        <3> QED BY <1>d, <3>5, <3>6
    <2>2. ASSUME NEW j \in DOMAIN stored, Lose(j) PROVE \A i \in DOMAIN stored' :
                                                        Derived(stored'[i], log')
        <3>1. \A i \in DOMAIN stored' : \E k \in DOMAIN stored : stored'[i] = stored[k]
            BY <1>0, <2>2, WithoutEntry DEF Lose
        <3> QED BY <1>d, <3>1
    <2>3. ASSUME NEW j \in DOMAIN stored, NEW f \in Fields, Damage(j, f),
                 NEW i \in DOMAIN stored'
          PROVE  Derived(stored'[i], log')
        <3>1. PICK v \in DamagedTo(f) :
                stored' = [stored EXCEPT ![j] = [stored[j] EXCEPT ![f] = v]]
            BY <2>3, DamagedStored
        <3>2. Derived([stored[j] EXCEPT ![f] = v], log')
            BY <1>0, <1>d, DamagedDerived
        <3> QED BY <1>d, <2>3, <3>1, <3>2
    <2>4. CASE stored' = stored
        BY <1>d, <2>4
    <2> QED BY Steps, <2>1, <2>2, <2>3, <2>4 DEF BeginReplay, ReadRange, ReadFails,
            ApplyEntry, RejectEntry, CompleteReplay, vars
<1>2. \A i \in DOMAIN batch' : Derived(batch'[i], log')
    <2>1. CASE ReadRange
        BY <1>d, <2>1 DEF ReadRange
    <2>2. ASSUME NEW i \in DOMAIN batch, ApplyEntry(i)
          PROVE  \A j \in DOMAIN batch' : Derived(batch'[j], log')
        BY <1>d, <2>2 DEF ApplyEntry
    <2>3. CASE batch' = <<>>
        BY <2>3
    <2>4. CASE batch' = batch
        BY <1>d, <2>4
    <2> QED BY Steps, <2>1, <2>2, <2>3, <2>4 DEF AppendWalEntry, Lose, Damage,
            BeginReplay, ReadFails, RejectEntry, CompleteReplay, vars
<1> QED BY <1>1, <1>2

\* prev_lsn follows what is applied.
LEMMA PrevStep ==
    ASSUME TypeOK, TypeOK', PrevIsLast, [Next]_vars
    PROVE  PrevIsLast'
<1> USE DEF callVars
<1>0. applied \in Seq(Entry) /\ Len(applied) \in Nat /\ state \in ReplayState
    BY DEF TypeOK
<1>1. ASSUME NEW start \in 0 .. MaxLsn, NEW s \in Shard, BeginReplay(start, s)
      PROVE  PrevIsLast'
    <2>1. state'.start = start /\ prev' = Before(start) /\ Len(applied') = 0
        BY <1>1 DEF BeginReplay
    <2>2. First' = (IF start = 0 THEN 1 ELSE start)
        BY <2>1 DEF First
    <2>3. start \in Nat
        BY ReplayAssumption
    <2>4. prev' = First' + Len(applied') - 1
        BY <2>1, <2>2, <2>3 DEF Before
    <2> QED BY <2>4 DEF PrevIsLast
<1>2. ASSUME NEW i \in DOMAIN batch, ApplyEntry(i) PROVE PrevIsLast'
    <2>1. /\ batch[i].lsn = prev + 1 /\ prev' = batch[i].lsn /\ phase = "applying"
          /\ applied' = Append(applied, batch[i]) /\ batch[i] \in Entry
          /\ state' = [state EXCEPT !.last = batch[i].lsn, !.attempted = @ + 1]
        BY <1>2 DEF ApplyEntry, Accepted, InSequence, TypeOK
    <2>2. Len(applied') = Len(applied) + 1
        BY <1>0, <2>1, AppendProperties
    <2>3. First' = First
        BY <1>0, <2>1 DEF First, ReplayState
    <2>4. prev = First + Len(applied) - 1 /\ First \in Nat
        BY <2>1, FirstIs DEF PrevIsLast
    <2>5. prev' = First' + Len(applied') - 1
        BY <1>0, <2>1, <2>2, <2>3, <2>4
    <2> QED BY <2>5 DEF PrevIsLast
<1>3. CASE phase' = "idle"
    BY <1>3 DEF PrevIsLast
<1>4. CASE UNCHANGED <<prev, state, applied>> /\ (phase' = phase \/ phase # "idle")
    BY <1>4 DEF PrevIsLast, First
<1> QED BY Steps, <1>1, <1>2, <1>3, <1>4 DEF AppendWalEntry, Lose, Damage, ReadRange,
        ReadFails, RejectEntry, CompleteReplay, vars

\* replay_wal applies nothing that is not in the log where it says it is.
LEMMA ClosedStep ==
    ASSUME SoundInv, TypeOK', [Next]_vars
    PROVE  FailClosed'
<1> USE DEF callVars
<1>0. /\ TypeOK /\ LogIsBuilt /\ PrevIsLast /\ FailClosed
      /\ applied \in Seq(Entry) /\ Len(applied) \in Nat /\ state \in ReplayState
      /\ log \in Seq(Entry) /\ Len(log) \in Nat /\ Len(log') \in Nat
    BY DEF SoundInv, TypeOK
<1>f. First \in Nat /\ First >= 1
    BY <1>0, FirstIs
<1>l. /\ Len(log) <= Len(log') /\ DOMAIN log \subseteq DOMAIN log'
      /\ \A i \in DOMAIN log : log'[i] = log[i]
    BY <1>0, LogGrows
<1> DEFINE Closed(e, n, l) ==
            /\ \E j \in DOMAIN l : Checksummed(e) = Checksummed(l[j])
            /\ Agrees(e) => n <= Len(l) /\ e = l[n] /\ e.prefix.shard = shard
<1>a. ASSUME NEW i \in DOMAIN applied
      PROVE  Closed(applied[i], First + i - 1, log')
    <2>1. Closed(applied[i], First + i - 1, log)
        BY <1>0 DEF FailClosed
    <2>2. \E j \in DOMAIN log' : Checksummed(applied[i]) = Checksummed(log'[j])
        BY <1>0, <1>l, <2>1
    <2>3. ASSUME Agrees(applied[i])
          PROVE  /\ First + i - 1 <= Len(log') /\ applied[i] = log'[First + i - 1]
                 /\ applied[i].prefix.shard = shard
        <3>1. First + i - 1 \in DOMAIN log
            BY <1>0, <1>f, <2>1, <2>3
        <3> QED BY <1>0, <1>l, <2>1, <2>3, <3>1
    <2> QED BY <2>2, <2>3
<1>1. ASSUME NEW i \in DOMAIN batch, ApplyEntry(i) PROVE FailClosed'
    <2> DEFINE e == batch[i]
    <2>1. /\ e.lsn = prev + 1 /\ ChecksumOK(e) /\ e.shard = shard
          /\ phase = "applying" /\ log' = log /\ shard' = shard
          /\ applied' = Append(applied, e)
          /\ state' = [state EXCEPT !.last = e.lsn, !.attempted = @ + 1]
        BY <1>1 DEF ApplyEntry, Accepted, InSequence
    <2>2. e \in Entry /\ Derived(e, log)
        BY DEF SoundInv, TypeOK
    <2> HIDE DEF e
    <2>3. /\ \E j \in DOMAIN log : Checksummed(e) = Checksummed(log[j])
          /\ Agrees(e) => /\ e.lsn \in DOMAIN log /\ e = log[e.lsn]
                          /\ e.prefix.shard = e.shard
        BY <1>0, <2>1, <2>2, Intact
    <2>4. e.lsn = First + Len(applied)
        BY <1>0, <1>f, <2>1 DEF PrevIsLast
    <2>5. Closed(e, e.lsn, log)
        BY <1>0, <2>1, <2>3
    <2>6. First' = First
        BY <1>0, <2>1 DEF First, ReplayState
    <2>7. /\ DOMAIN applied' = 1 .. Len(applied) + 1
          /\ \A j \in 1 .. Len(applied) : applied'[j] = applied[j]
          /\ applied'[Len(applied) + 1] = e
        BY <1>0, <2>1, <2>2, AppendProperties
    <2>8. ASSUME NEW j \in DOMAIN applied'
          PROVE  Closed(applied'[j], First' + j - 1, log')
        <3>1. CASE j = Len(applied) + 1
            <4>1. First' + j - 1 = e.lsn
                BY <1>0, <1>f, <2>4, <2>6, <3>1
            <4> QED BY <2>1, <2>5, <2>7, <3>1, <4>1
        <3>2. CASE j \in 1 .. Len(applied)
            BY <1>0, <1>a, <2>1, <2>6, <2>7, <3>2
        <3> QED BY <1>0, <2>7, <3>1, <3>2
    <2> QED BY <2>1, <2>8 DEF FailClosed
<1>2. CASE applied' = <<>>
    BY <1>2 DEF FailClosed
<1>3. CASE applied' = applied /\ shard' = shard /\ First' = First
    BY <1>a, <1>3 DEF FailClosed
<1>4. ASSUME NEW i \in DOMAIN batch, RejectEntry(i) PROVE FailClosed'
    <2>1. First' = First
        BY <1>0, <1>4 DEF RejectEntry, First, ReplayState
    <2> QED BY <1>3, <1>4, <2>1 DEF RejectEntry
<1>5. CASE CompleteReplay
    <2>1. First' = First
        BY <1>0, <1>5 DEF CompleteReplay, First, ReplayState
    <2> QED BY <1>3, <1>5, <2>1 DEF CompleteReplay
<1>6. CASE UNCHANGED <<applied, shard, state>>
    <2>1. First' = First
        BY <1>6 DEF First
    <2> QED BY <1>3, <1>6, <2>1
<1> QED BY Steps, <1>1, <1>2, <1>4, <1>5, <1>6 DEF AppendWalEntry, Lose, Damage,
        BeginReplay, ReadRange, ReadFails, vars

\* "Fail-closed on corruption" (wal_traits.rs, replay_wal): however many entries the
\* medium loses and however many parts of them it damages, what a replay has
\* applied has the checksummed parts of entries that were appended, and an entry
\* whose fields agree with them is the one the log of its shard holds there.
THEOREM ReplayFailsClosed == Spec => []FailClosed
<1>1. Init => SoundInv
    <2>1. SUFFICES ASSUME Init PROVE SoundInv
        OBVIOUS
    <2>2. log = <<>> /\ stored = <<>> /\ batch = <<>> /\ applied = <<>> /\ phase = "idle"
        BY <2>1 DEF Init
    <2> QED BY <2>1, <2>2, InitTyped DEF SoundInv, LogIsBuilt, PrevIsLast, FailClosed
<1>2. SoundInv /\ [Next]_vars => SoundInv'
    <2>1. SUFFICES ASSUME SoundInv, [Next]_vars PROVE SoundInv'
        OBVIOUS
    <2>2. TypeOK /\ LogIsBuilt /\ PrevIsLast
        BY <2>1 DEF SoundInv
    <2>3. TypeOK'
        BY <2>1, <2>2, TypeStep
    <2>4. LogIsBuilt' /\ PrevIsLast' /\ FailClosed'
        BY <2>1, <2>2, <2>3, BuiltStep, PrevStep, ClosedStep
    <2>5. /\ \A i \in DOMAIN stored' : Derived(stored'[i], log')
          /\ \A i \in DOMAIN batch' : Derived(batch'[i], log')
        BY <2>1, <2>2, DerivedStep DEF SoundInv
    <2> QED BY <2>3, <2>4, <2>5 DEF SoundInv
<1>3. SoundInv => FailClosed
    BY DEF SoundInv
<1> QED BY <1>1, <1>2, <1>3, PTL DEF Spec

-----------------------------------------------------------------------------
(* Over a sound medium *)

\* The step of the loop that nothing was damaged before: the entry it looks at is
\* the one it expects.
LEMMA NextIsDue ==
    ASSUME TypeOK, LogIsBuilt, PrevIsLast, OnCourse, phase = "applying", seen <= Len(log),
           NEW i \in DOMAIN batch, Upto(i)
    PROVE  /\ i = First + Len(applied) /\ i \in First .. seen /\ i \in DOMAIN log
           /\ batch[i] = log[i] /\ InSequence(batch[i]) /\ ChecksumOK(batch[i])
           /\ DOMAIN batch = i .. seen /\ i \in Nat
<1>1. /\ First \in Nat /\ First >= 1 /\ Len(applied) \in Nat /\ Len(log) \in Nat
      /\ seen \in Nat /\ log \in Seq(Entry)
    BY FirstIs, ReplayAssumption DEF TypeOK
<1>2. /\ DOMAIN batch = (First + Len(applied)) .. seen /\ batch[i] = log[i]
      /\ prev = First + Len(applied) - 1
    BY DEF OnCourse, PrevIsLast
<1>3. First + Len(applied) \in DOMAIN batch
    BY <1>1, <1>2
<1>4. i = First + Len(applied)
    BY <1>1, <1>2, <1>3 DEF Upto
<1>5. i \in First .. seen /\ i \in DOMAIN log
    BY <1>1, <1>2, <1>4
<1>6. batch[i].lsn = i /\ batch[i].sum = <<batch[i].prefix, batch[i].payload>>
    BY <1>2, <1>5, LogEntry
<1>7. i = prev + 1
    BY <1>1, <1>2, <1>4
<1> QED BY <1>1, <1>2, <1>4, <1>5, <1>6, <1>7 DEF InSequence, ChecksumOK

\* Faults are not undone.
LEMMA FaultsStay ==
    ASSUME TypeOK, [Next]_vars, faults' = 0
    PROVE  faults = 0 /\ ~(\E i \in DOMAIN stored : Lose(i))
           /\ ~(\E i \in DOMAIN stored, f \in Fields : Damage(i, f))
<1>1. faults \in Nat
    BY ReplayAssumption DEF TypeOK
<1>2. ~(\E i \in DOMAIN stored : Lose(i))
    BY <1>1 DEF Lose
<1>3. ~(\E i \in DOMAIN stored, f \in Fields : Damage(i, f))
    BY <1>1 DEF Damage
<1> QED BY Steps, <1>2, <1>3 DEF AppendWalEntry, BeginReplay, ReadRange, ReadFails,
        ApplyEntry, RejectEntry, CompleteReplay, vars, callVars

\* The loop stays on course, and a replay that ends has looked at everything.
LEMMA CourseStep ==
    ASSUME WholeInv, TypeOK', LogIsBuilt', [Next]_vars, faults' = 0
    PROVE  OnCourse' /\ LookedAtAll'
<1> USE DEF callVars
<1>0. /\ TypeOK /\ LogIsBuilt /\ PrevIsLast /\ seen <= Len(log)
      /\ OnCourse /\ LookedAtAll
    BY FaultsStay DEF WholeInv
<1>t. /\ applied \in Seq(Entry) /\ Len(applied) \in Nat /\ state \in ReplayState
      /\ log \in Seq(Entry) /\ Len(log) \in Nat /\ seen \in Nat
    BY <1>0, ReplayAssumption DEF TypeOK
<1>f. First \in Nat /\ First >= 1 /\ state.start \in Nat
    BY <1>0, FirstIs
<1>1. ASSUME NEW k \in Kind, NEW s \in Shard, AppendWalEntry(k, s)
      PROVE  OnCourse' /\ LookedAtAll'
    <2>1. /\ stored' = log'
          /\ UNCHANGED <<batch, prev, state, shard, phase, applied, seen>>
        BY <1>0, <1>1 DEF AppendWalEntry, OnCourse
    <2>2. First' = First
        BY <2>1 DEF First
    <2>3. \A i \in DOMAIN log : log'[i] = log[i]
        BY <1>0, LogGrows
    <2>4. ASSUME NEW i \in DOMAIN applied
          PROVE  First + i - 1 <= seen /\ applied[i] = log'[First + i - 1]
        <3>1. First + i - 1 <= seen /\ applied[i] = log[First + i - 1]
            BY <1>0 DEF OnCourse
        <3>2. First + i - 1 \in DOMAIN log
            BY <1>0, <1>t, <1>f, <3>1
        <3> QED BY <2>3, <3>1, <3>2
    <2>5. ASSUME phase = "applying", NEW i \in DOMAIN batch
          PROVE  batch[i] = log'[i]
        <3>1. batch[i] = log[i] /\ i \in (First + Len(applied)) .. seen
            BY <1>0, <2>5 DEF OnCourse
        <3>2. i \in DOMAIN log
            BY <1>0, <1>t, <1>f, <3>1
        <3> QED BY <2>3, <3>1, <3>2
    <2>6. OnCourse'
        BY <1>0, <2>1, <2>2, <2>4, <2>5 DEF OnCourse
    <2>7. LookedAtAll'
        BY <1>0, <2>1, <2>2 DEF LookedAtAll
    <2> QED BY <2>6, <2>7
<1>2. ASSUME NEW start \in 0 .. MaxLsn, NEW s \in Shard, BeginReplay(start, s)
      PROVE  OnCourse' /\ LookedAtAll'
    <2>1. /\ applied' = <<>> /\ phase' = "reading" /\ stored' = log'
          /\ state'.at = "InProgress" /\ state'.attempted = 0
        BY <1>0, <1>2 DEF BeginReplay, OnCourse
    <2> QED BY <2>1 DEF OnCourse, LookedAtAll
<1>3. CASE ReadRange
    <2>1. /\ phase = "reading" /\ phase' = "applying" /\ applied = <<>>
          /\ UNCHANGED <<log, stored, prev, state, shard, applied>>
          /\ seen' = Len(log) /\ stored = log
          /\ batch' = [i \in {j \in DOMAIN log : InRange(log[j])} |-> log[i]]
        BY <1>0, <1>3 DEF ReadRange, OnCourse
    <2>2. First' = First
        BY <2>1 DEF First
    <2>3. {j \in DOMAIN log : InRange(log[j])} = First .. Len(log)
        <3>1. \A j \in DOMAIN log : j \in 1 .. Len(log) /\ log[j].lsn = j
            BY <1>0, LogEntry
        <3>2. \A j \in DOMAIN log : InRange(log[j]) <=> j >= state.start
            BY <1>t, <1>f, <3>1 DEF InRange
        <3>3. DOMAIN log = 1 .. Len(log)
            BY <1>t
        <3> QED BY <1>t, <1>f, <3>2, <3>3 DEF First
    <2>4. /\ DOMAIN batch' = First .. Len(log)
          /\ \A i \in DOMAIN batch' : batch'[i] = log[i]
        BY <2>1, <2>3
    <2>5. First .. Len(log) = (First + Len(applied)) .. Len(log)
        BY <1>f, <2>1
    <2>6. state.at = "InProgress" /\ state.attempted = Len(applied)
        BY <1>0, <2>1 DEF OnCourse
    <2>7. DOMAIN applied' = {}
        BY <2>1
    <2>8. OnCourse'
        BY <1>0, <2>1, <2>2, <2>4, <2>5, <2>6, <2>7 DEF OnCourse
    <2> QED BY <2>1, <2>6, <2>8 DEF LookedAtAll
<1>4. CASE ReadFails
    <2>1. phase = "reading" /\ phase' = "idle"
          /\ UNCHANGED <<log, stored, state, applied, seen>>
        BY <1>4 DEF ReadFails
    <2>2. First' = First
        BY <2>1 DEF First
    <2> QED BY <1>0, <2>1, <2>2 DEF OnCourse, LookedAtAll
<1>5. ASSUME NEW i \in DOMAIN batch, ApplyEntry(i)
      PROVE  OnCourse' /\ LookedAtAll'
    <2>1. /\ phase = "applying" /\ Upto(i)
          /\ applied' = Append(applied, batch[i])
          /\ state' = [state EXCEPT !.last = batch[i].lsn, !.attempted = state.attempted + 1]
          /\ batch' = [j \in DOMAIN batch \ {i} |-> batch[j]]
          /\ UNCHANGED <<log, stored, phase, seen>>
        BY <1>5 DEF ApplyEntry
    <2>2. /\ i = First + Len(applied) /\ i \in First .. seen /\ i \in DOMAIN log
          /\ batch[i] = log[i] /\ DOMAIN batch = i .. seen /\ i \in Nat
        BY <1>0, <2>1, NextIsDue
    <2>3. log[i] \in Entry /\ log[i].lsn \in 1 .. MaxLsn
        <3>1. log[i] \in Entry
            BY <1>t, <2>2
        <3> QED BY <3>1 DEF Entry
    <2>4. /\ DOMAIN applied' = 1 .. Len(applied) + 1 /\ Len(applied') = Len(applied) + 1
          /\ \A j \in 1 .. Len(applied) : applied'[j] = applied[j]
          /\ applied'[Len(applied) + 1] = log[i]
        BY <1>t, <2>1, <2>2, <2>3, AppendProperties
    <2>5. state.at = "InProgress" /\ state.attempted = Len(applied)
        BY <1>0, <2>1 DEF OnCourse
    <2>6. /\ state'.at = "InProgress" /\ state'.attempted = Len(applied')
          /\ state'.start = state.start
        <3>1. batch[i].lsn \in 1 .. MaxLsn /\ state.attempted + 1 \in Nat
              /\ state.attempted + 1 = Len(applied')
            BY <1>t, <2>2, <2>3, <2>4, <2>5
        <3>2. /\ state'.start = state.start /\ state'.at = state.at
              /\ state'.attempted = state.attempted + 1
            BY <1>t, <2>1 DEF ReplayState
        <3> QED BY <2>5, <3>1, <3>2
    <2>7. First' = First
        BY <2>6 DEF First
    <2>8. ASSUME NEW j \in DOMAIN applied'
          PROVE  First + j - 1 <= seen /\ applied'[j] = log[First + j - 1]
        <3>1. CASE j \in 1 .. Len(applied)
            BY <1>0, <1>t, <2>4, <3>1 DEF OnCourse
        <3>2. CASE j = Len(applied) + 1
            <4>1. First + j - 1 = i
                BY <1>t, <1>f, <2>2, <3>2
            <4> QED BY <1>t, <2>2, <2>4, <3>2, <4>1
        <3> QED BY <1>t, <2>4, <3>1, <3>2
    <2>9. i .. seen \ {i} = (First + Len(applied')) .. seen
        BY <1>t, <1>f, <2>2, <2>4
    <2>10. DOMAIN batch' = (First + Len(applied')) .. seen
           /\ \A j \in DOMAIN batch' : batch'[j] = log[j]
        BY <1>0, <2>1, <2>2, <2>9 DEF OnCourse
    <2>12. OnCourse'
        BY <1>0, <2>1, <2>6, <2>7, <2>8, <2>10 DEF OnCourse
    <2> QED BY <2>6, <2>12 DEF LookedAtAll
<1>6. ASSUME NEW i \in DOMAIN batch, RejectEntry(i)
      PROVE  OnCourse' /\ LookedAtAll'
    <2>1. /\ phase' = "idle" /\ UNCHANGED <<log, stored, applied, seen>>
          /\ state' = [state EXCEPT !.at = "Failed", !.attempted = @ + 1]
        BY <1>6 DEF RejectEntry
    <2>2. First' = First /\ state'.at = "Failed"
        BY <1>t, <2>1 DEF First, ReplayState
    <2> QED BY <1>0, <2>1, <2>2 DEF OnCourse, LookedAtAll
<1>7. CASE CompleteReplay
    <2>1. /\ phase = "applying" /\ DOMAIN batch = {} /\ phase' = "idle"
          /\ UNCHANGED <<log, stored, applied, seen>>
          /\ state' = [state EXCEPT !.at = "Complete"]
        BY <1>7 DEF CompleteReplay
    <2>2. First' = First /\ state'.attempted = state.attempted
        BY <1>t, <2>1 DEF First, ReplayState
    <2>3. /\ \A x : x \notin (First + Len(applied)) .. seen
          /\ \A i \in DOMAIN applied : First + i - 1 <= seen
          /\ state.attempted = Len(applied)
        BY <1>0, <2>1 DEF OnCourse
    <2> DEFINE n == Len(applied)
               F == First
    <2>4. n \in Nat /\ F \in Nat /\ seen \in Nat
        BY <1>t, <1>f
    <2>5. \A x : x \notin (F + n) .. seen
        BY <2>3
    <2>6. n = 0 \/ F + n - 1 <= seen
        <3>1. n # 0 => n \in DOMAIN applied
            BY <1>t
        <3> QED BY <2>3, <3>1
    <2> HIDE DEF n, F
    <2>7. n = IF F <= seen THEN seen - F + 1 ELSE 0
        <3>1. ~(F + n <= seen)
            BY <2>4, <2>5
        <3> QED BY <2>4, <2>6, <3>1
    <2> QED BY <1>0, <2>1, <2>2, <2>3, <2>7 DEF OnCourse, LookedAtAll, n, F
<1>8. CASE UNCHANGED vars
    <2>1. First' = First
        BY <1>8 DEF vars, First
    <2> QED BY <1>0, <1>8, <2>1 DEF vars, OnCourse, LookedAtAll
<1> QED BY <1>0, Steps, FaultsStay, <1>1, <1>2, <1>3, <1>4, <1>5, <1>6, <1>7, <1>8

\* A replay of undamaged entries stops only at one of another shard.
LEMMA ExplainedStep ==
    ASSUME WholeInv, [Next]_vars
    PROVE  FailuresAreExplained'
<1> USE DEF callVars
<1>0. /\ TypeOK /\ LogIsBuilt /\ PrevIsLast /\ seen <= Len(log)
      /\ faults = 0 => OnCourse
      /\ FailuresAreExplained
    BY DEF WholeInv
<1>t. /\ log \in Seq(Entry) /\ Len(log) \in Nat /\ seen \in Nat /\ faults \in Nat
      /\ state \in ReplayState
    BY <1>0, ReplayAssumption DEF TypeOK
<1>f. First \in Nat /\ First >= 1
    BY <1>0, FirstIs
<1>1. ASSUME NEW i \in DOMAIN batch, RejectEntry(i) PROVE FailuresAreExplained'
    <2>1. /\ phase = "applying" /\ Upto(i) /\ ~Accepted(batch[i])
          /\ UNCHANGED <<log, faults, shard, seen>>
          /\ state' = [state EXCEPT !.at = "Failed", !.attempted = @ + 1]
        BY <1>1 DEF RejectEntry
    <2>2. First' = First
        BY <1>t, <2>1 DEF First, ReplayState
    <2>3. CASE faults = 0
        <3>1. /\ i \in First .. seen /\ batch[i] = log[i]
              /\ InSequence(batch[i]) /\ ChecksumOK(batch[i])
            BY <1>0, <2>1, <2>3, NextIsDue
        <3>2. log[i].shard # shard
            BY <2>1, <3>1 DEF Accepted
        <3> QED BY <2>1, <2>2, <3>1, <3>2 DEF FailuresAreExplained
    <2>4. CASE faults > 0
        BY <2>1, <2>4 DEF FailuresAreExplained
    <2> QED BY <1>t, <2>3, <2>4
<1>2. CASE state'.at # "Failed"
    BY <1>2 DEF FailuresAreExplained
<1>3. CASE faults' > 0
    BY <1>3 DEF FailuresAreExplained
<1>4. ASSUME NEW k \in Kind, NEW s \in Shard, AppendWalEntry(k, s)
      PROVE  FailuresAreExplained'
    <2>1. UNCHANGED <<faults, state, shard, seen>>
        BY <1>4 DEF AppendWalEntry
    <2>2. First' = First
        BY <2>1 DEF First
    <2>3. \A i \in First .. seen : i \in DOMAIN log
        BY <1>0, <1>t, <1>f
    <2>4. \A i \in First .. seen : log'[i] = log[i]
        BY <1>0, <2>3, LogGrows
    <2> QED BY <1>0, <2>1, <2>2, <2>4 DEF FailuresAreExplained
<1>5. ASSUME NEW i \in DOMAIN batch, ApplyEntry(i) PROVE FailuresAreExplained'
    <2>1. CASE faults = 0
        <3>1. state.at = "InProgress"
            BY <1>0, <1>5, <2>1 DEF ApplyEntry, OnCourse
        <3>2. state'.at = "InProgress"
            BY <1>t, <1>5, <3>1 DEF ApplyEntry, ReplayState
        <3> QED BY <1>2, <3>2
    <2>2. CASE faults > 0
        BY <1>3, <1>5, <2>2 DEF ApplyEntry
    <2> QED BY <1>t, <2>1, <2>2
<1>6. CASE ReadRange
    <2>1. CASE faults = 0
        <3>1. state'.at = "InProgress"
            BY <1>0, <1>6, <2>1 DEF ReadRange, OnCourse
        <3> QED BY <1>2, <3>1
    <2>2. CASE faults > 0
        BY <1>3, <1>6, <2>2 DEF ReadRange
    <2> QED BY <1>t, <2>1, <2>2
<1>7. CASE UNCHANGED <<log, faults, state, shard, seen>>
    <2>1. First' = First
        BY <1>7 DEF First
    <2> QED BY <1>0, <1>7, <2>1 DEF FailuresAreExplained
<1>8. CASE CompleteReplay
    BY <1>t, <1>2, <1>8 DEF CompleteReplay, ReplayState
<1>9. ASSUME NEW i \in DOMAIN stored,
             Lose(i) \/ \E f \in Fields : Damage(i, f)
      PROVE  FailuresAreExplained'
    BY <1>t, <1>3, <1>9 DEF Lose, Damage
<1>10. ASSUME NEW start \in 0 .. MaxLsn, NEW s \in Shard, BeginReplay(start, s)
       PROVE  FailuresAreExplained'
    BY <1>2, <1>10 DEF BeginReplay
<1> QED BY Steps, <1>1, <1>4, <1>5, <1>6, <1>7, <1>8, <1>9, <1>10 DEF ReadFails, vars

\* The invariant behind completeness: until the medium loses or damages something
\* the loop of replay_wal is exactly where the log says it should be.
THEOREM WholeInvariant == Spec => []WholeInv
<1>1. Init => WholeInv
    <2>1. SUFFICES ASSUME Init PROVE WholeInv
        OBVIOUS
    <2>2. /\ log = <<>> /\ stored = <<>> /\ batch = <<>> /\ applied = <<>>
          /\ phase = "idle" /\ seen = 0 /\ state.at = "Idle" /\ Len(<<>>) = 0
          /\ DOMAIN <<>> = {}
        BY <2>1 DEF Init
    <2>3. OnCourse /\ LookedAtAll /\ FailuresAreExplained
        BY <2>2 DEF OnCourse, LookedAtAll, FailuresAreExplained
    <2> QED BY <2>1, <2>2, <2>3, InitTyped DEF WholeInv, LogIsBuilt, PrevIsLast
<1>2. WholeInv /\ [Next]_vars => WholeInv'
    <2>1. SUFFICES ASSUME WholeInv, [Next]_vars PROVE WholeInv'
        OBVIOUS
    <2>2. TypeOK /\ LogIsBuilt /\ PrevIsLast /\ seen <= Len(log)
        BY <2>1 DEF WholeInv
    <2>3. TypeOK'
        BY <2>1, <2>2, TypeStep
    <2>4. LogIsBuilt' /\ PrevIsLast'
        BY <2>1, <2>2, <2>3, BuiltStep, PrevStep
    <2>5. faults' = 0 => OnCourse' /\ LookedAtAll'
        BY <2>1, <2>3, <2>4, CourseStep
    <2>6. FailuresAreExplained'
        BY <2>1, ExplainedStep
    <2>7. seen' <= Len(log')
        <3>1. Len(log) \in Nat /\ Len(log') \in Nat /\ seen \in Nat /\ Len(log) <= Len(log')
            BY <2>1, <2>2, <2>3, LogGrows, ReplayAssumption DEF TypeOK
        <3>2. seen' = seen \/ (seen' = Len(log) /\ log' = log)
            BY <2>1, Steps DEF AppendWalEntry, Lose, Damage, BeginReplay, ReadRange,
               ReadFails, ApplyEntry, RejectEntry, CompleteReplay, vars, callVars
        <3> QED BY <2>2, <3>1, <3>2
    <2> QED BY <2>3, <2>4, <2>5, <2>6, <2>7 DEF WholeInv
<1> QED BY <1>1, <1>2, PTL DEF Spec

\* A replay that completes over a sound medium applied everything that had been
\* appended when it read, and counted it.
THEOREM CompleteReplaysAreWhole == Spec => []CompleteIsWhole
<1>1. WholeInv => CompleteIsWhole
    <2>1. SUFFICES ASSUME WholeInv, state.at = "Complete", faults = 0
                   PROVE  /\ applied = SubSeq(log, First, seen)
                          /\ state.attempted = Len(applied)
        BY DEF CompleteIsWhole
    <2>2. TypeOK /\ OnCourse /\ LookedAtAll /\ seen <= Len(log)
        BY <2>1 DEF WholeInv
    <2>3. /\ First \in Nat /\ First >= 1 /\ seen \in Nat
          /\ log \in Seq(Entry) /\ applied \in Seq(Entry) /\ Len(log) \in Nat
        <3>1. First \in Nat /\ First >= 1
            BY <2>2, FirstIs
        <3> QED BY <2>2, <3>1, ReplayAssumption DEF TypeOK
    <2>4. /\ Len(applied) = IF First <= seen THEN seen - First + 1 ELSE 0
          /\ state.attempted = Len(applied)
        BY <2>1, <2>2 DEF LookedAtAll
    <2>5. \A i \in 1 .. Len(applied) : applied[i] = log[First + i - 1]
        BY <2>2, <2>3 DEF OnCourse
    <2>6. CASE First <= seen
        <3>1. First \in 1 .. Len(log) + 1 /\ seen \in First - 1 .. Len(log)
            BY <2>2, <2>3, <2>6
        <3>2. /\ SubSeq(log, First, seen) \in Seq(Entry)
              /\ Len(SubSeq(log, First, seen)) = seen - First + 1
              /\ \A i \in 1 .. seen - First + 1 :
                    SubSeq(log, First, seen)[i] = log[First + i - 1]
            BY <2>3, <2>6, <3>1, SubSeqProperties
        <3> QED BY <2>3, <2>4, <2>5, <2>6, <3>2, SeqEqual
    <2>7. CASE ~(First <= seen)
        <3>1. SubSeq(log, First, seen) = <<>>
            BY <2>3, <2>7, SubSeqEmpty
        <3>2. applied = <<>>
            BY <2>3, <2>4, <2>7, EmptySeq
        <3> QED BY <2>4, <3>1, <3>2
    <2> QED BY <2>6, <2>7
<1> QED BY <1>1, WholeInvariant, PTL

\* A replay fails only because something was lost or damaged or because another
\* shard wrote into the range.
THEOREM FailuresHaveReasons == Spec => []FailuresAreExplained
<1>1. WholeInv => FailuresAreExplained
    BY DEF WholeInv
<1> QED BY <1>1, WholeInvariant, PTL
=============================================================================
