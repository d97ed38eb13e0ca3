----------------------------- MODULE SyncReader -----------------------------
(***************************************************************************)
(* The reading side of WAL-tail replication: SyncDgpHandler::on_wal_tail   *)
(* in crates/octo-network/src/sync/dgp_integration.rs, apply_wal_tail in   *)
(* octo-sync/src/session.rs and the per-peer caches of replay_cache.rs.    *)
(*                                                                         *)
(* An entry is the LSN of it and whether its bytes are still the writer's. *)
(* The network delivers a chunk any number of times, late, out of order,   *)
(* damaged or never, so net only grows.  apply_wal_tail holds the lock of  *)
(* all caches for its loop: one chunk is worked on at a time, entry by     *)
(* entry, while the writer commits and catch-up requests are made and      *)
(* answered.  The database behind the adapter follows the contract of      *)
(* octo-sync/src/adapter.rs: current_lsn is the highest LSN applied.  A    *)
(* cache key is the BLAKE3 hash of an entry: equal for equal bytes only,   *)
(* and which of several is the smallest is left open.                      *)
(***************************************************************************)
EXTENDS Naturals, Sequences, FiniteSets

CONSTANTS
    Sender,       \* peers that send us chunks
    CacheSize,    \* max_entries of a ReplayCache
    MaxCommitted, \* bound: entries the writer commits
    MaxDamaged,   \* bound: damaged copies
    MaxRestarts   \* bound: restarts of the reader

ASSUME ReaderAssumption ==
    {CacheSize, MaxCommitted, MaxDamaged, MaxRestarts} \subseteq Nat

VARIABLES
    committed,  \* the writer's LSN
    net,        \* chunks sent
    asked,      \* asked[p]: from_lsn of a catch-up request on its way, or 0
    cache,      \* cache[p]: peer p's ReplayCache, oldest first, by the bytes hashed
    database,   \* LSNs of the entries the reader's adapter holds
    current,    \* the chunk in apply_wal_tail
    next,       \* the position of the next entry in it; 0 when the lock is free
    tails,      \* whether inbound_wal_tails holds something
    \* Bounds and history, read by the properties only:
    times,      \* times[l]: the writer's entry l was applied (2: or more often)
    damaged,    \* damaged copies so far
    restarts    \* restarts so far

netVars == <<committed, net, asked, damaged>>
dbVars == <<database, times>>
readerVars == <<netVars, cache, dbVars, current, next, tails, restarts>>

-----------------------------------------------------------------------------
Lsn == 1 .. MaxCommitted

\* Bytes that arrive as entry lsn: the writer's; or others, of which a checksum
\* says so, or that lack the magic, or that are too short to have a checksum.
Altered == {"corrupt", "unmarked", "short"}
Bytes == [lsn : Lsn, is : Altered \cup {"sound"}]
Sound(l) == [lsn |-> l, is |-> "sound"]
Chunk == [peer : Sender, entries : Seq(Bytes), decodes : BOOLEAN]

ReaderTypeOK ==
    /\ committed \in 0 .. MaxCommitted
    /\ net \subseteq Chunk
    /\ tails \in BOOLEAN
    /\ asked \in [Sender -> 0 .. MaxCommitted + 1]
    /\ cache \in [Sender -> Seq(Bytes)]
    /\ \A p \in Sender : Len(cache[p]) <= CacheSize
    /\ database \subseteq Lsn
    /\ next \in Nat
    /\ next # 0 => current \in Chunk /\ next <= Len(current.entries) + 1
    /\ times \in [Lsn -> 0 .. 2]
    /\ damaged \in 0 .. MaxDamaged /\ restarts \in 0 .. MaxRestarts

ReaderInit ==
    /\ committed = 0
    /\ net = {} /\ asked = [p \in Sender |-> 0] /\ tails = FALSE
    /\ cache = [p \in Sender |-> <<>>]
    /\ database = {}
    /\ current = {} /\ next = 0
    /\ times = [l \in Lsn |-> 0]
    /\ damaged = 0 /\ restarts = 0

-----------------------------------------------------------------------------
(* The writer and the network *)

\* The chunk with the writer's entries from .. to.
TailChunk(p, from, to) ==
    [peer |-> p, entries |-> [i \in 1 .. to - from + 1 |-> Sound(from + i - 1)],
     decodes |-> TRUE]

\* A commit of n entries; its chunk goes out to every peer we hear from.
Commit(n) ==
    /\ committed + n <= MaxCommitted
    /\ committed' = committed + n
    /\ net' = net \cup {TailChunk(p, committed + 1, committed + n) : p \in Sender}
    /\ UNCHANGED <<asked, damaged, cache, dbVars, current, next, tails, restarts>>

\* The entries that decode reads from a chunk whose count, or a length prefix from
\* position i on, is damaged and still leads nowhere past the end: fewer entries,
\* and entries cut at the wrong places, among them perhaps whole ones.
Misread(es, i) ==
    LET whole == {es[j] : j \in i .. Len(es)}
        pieces == whole \cup {[e EXCEPT !.is = k] : e \in whole, k \in Altered}
        rest == UNION {[1 .. n -> pieces] : n \in 0 .. Len(es) - i + 1}
    IN  {SubSeq(es, 1, i - 1) \o r : r \in
            {q \in rest : \A a, b \in DOMAIN q : a < b => q[a].lsn < q[b].lsn}}

\* What damage makes of a chunk: the bytes of an entry change, the frame can no
\* longer be read, or it reads as something else.
Damaged(m) ==
    LET es == m.entries
    IN  {[m EXCEPT !.entries[i].is = k] : i \in DOMAIN es, k \in Altered}
        \cup {[m EXCEPT !.decodes = FALSE]}
        \cup UNION {{[m EXCEPT !.entries = r] : r \in Misread(es, i)} : i \in DOMAIN es}

\* A copy of a chunk is damaged on its way.
Damage(m) ==
    /\ damaged < MaxDamaged
    /\ \E d \in Damaged(m) : net' = net \cup {d}
    /\ damaged' = damaged + 1
    /\ UNCHANGED <<committed, asked, cache, dbVars, current, next, tails, restarts>>

\* adapter.current_lsn()
CurrentLsn == IF database = {} THEN 0
              ELSE CHOOSE l \in database : \A k \in database : k <= l

\* request_wal_tail_from(current_lsn + 1), sent to a peer.
AskForTail(p) ==
    /\ asked[p] = 0
    /\ asked' = [asked EXCEPT ![p] = CurrentLsn + 1]
    /\ UNCHANGED <<committed, net, damaged, cache, dbVars, current, next, tails,
                   restarts>>

\* handle_wal_tail_request at the writer, by now possibly further on.
AnswerTail(p) ==
    /\ asked[p] # 0
    /\ asked' = [asked EXCEPT ![p] = 0]
    /\ net' = IF asked[p] > committed THEN net
              ELSE net \cup {TailChunk(p, asked[p], committed)}
    /\ UNCHANGED <<committed, damaged, cache, dbVars, current, next, tails, restarts>>

-----------------------------------------------------------------------------
(* on_wal_tail and apply_wal_tail *)

\* WalTailChunk::decode fails: the bytes are kept.
DecodeFails(m) ==
    /\ ~ m.decodes
    /\ tails' = TRUE
    /\ UNCHANGED <<netVars, cache, dbVars, current, next, restarts>>

\* A chunk gets the lock.
BeginApply(m) ==
    /\ m.decodes
    /\ next = 0
    /\ current' = m
    /\ next' = 1
    /\ UNCHANGED <<netVars, cache, dbVars, tails, restarts>>

Working == next # 0 /\ next <= Len(current.entries)

Entry == current.entries[next]

\* cache.contains: other bytes have another id.
Seen == \E i \in DOMAIN cache[current.peer] : cache[current.peer][i] = Entry

\* validate_wal_entry_crc32: an entry that is too short or has no magic is not
\* looked at; the CRC is taken to match the writer's bytes only.
CrcOK == Entry.is \in {"short", "unmarked", "sound"}

\* The entry was applied before.
SkipSeen ==
    /\ Working
    /\ Seen
    /\ next' = next + 1
    /\ UNCHANGED <<netVars, cache, dbVars, current, tails, restarts>>

\* The entry is corrupt.
SkipCorrupt ==
    /\ Working
    /\ ~ Seen
    /\ ~ CrcOK
    /\ next' = next + 1
    /\ UNCHANGED <<netVars, cache, dbVars, current, tails, restarts>>

\* The cache is let grow past its size by one.
Overfull_late(c) == Len(c) > CacheSize + 1

\* entries.len() > max_entries
Overfull(c) == Len(c) > CacheSize

WithoutKey(c, i) == [j \in 1 .. Len(c) - 1 |-> IF j < i THEN c[j] ELSE c[j + 1]]

\* What ReplayCache::insert makes of c, for an id that is not in it: one key
\* goes, the smallest.
Insert(c, id) ==
    LET grown == Append(c, id)
    IN  IF Overfull(grown) THEN {WithoutKey(grown, i) : i \in DOMAIN grown} ELSE {grown}

\* What apply_wal_entry adds to the database: what the adapter makes of bytes that
\* are not the writer's may still carry their LSN.
Taken(e) == IF e.is = "sound" THEN {{e.lsn}} ELSE {{}, {e.lsn}}

\* The entry is applied and remembered.
ApplyEntry ==
    /\ Working
    /\ ~ Seen
    /\ CrcOK
    /\ \E taken \in Taken(Entry) : database' = database \cup taken
    /\ times' = IF Entry.is = "sound"
                THEN [times EXCEPT ![Entry.lsn] = IF @ = 2 THEN 2 ELSE @ + 1]
                ELSE times
    /\ \E c \in Insert(cache[current.peer], Entry) :
        cache' = [cache EXCEPT ![current.peer] = c]
    /\ next' = next + 1
    /\ UNCHANGED <<netVars, current, tails, restarts>>

\* The entry is remembered before it is applied.
CacheAfterFailure_early ==
    [cache EXCEPT ![current.peer] = CHOOSE c \in Insert(@, Entry) : TRUE]

CacheAfterFailure == cache

\* apply_wal_entry fails: the rest of the chunk is given up, its bytes kept.
ApplyFails ==
    /\ Working
    /\ ~ Seen
    /\ CrcOK
    /\ cache' = CacheAfterFailure
    /\ next' = 0
    /\ current' = {}
    /\ tails' = TRUE
    /\ UNCHANGED <<netVars, dbVars, restarts>>

\* The loop ends and the lock is released.
EndApply ==
    /\ next # 0
    /\ next > Len(current.entries)
    /\ next' = 0
    /\ current' = {}
    /\ UNCHANGED <<netVars, cache, dbVars, tails, restarts>>

\* drain_inbound
DrainInbound ==
    /\ tails
    /\ tails' = FALSE
    /\ UNCHANGED <<netVars, cache, dbVars, current, next, restarts>>

\* The reader stops and starts again: only the database survives.
Restart ==
    /\ restarts < MaxRestarts
    /\ restarts' = restarts + 1
    /\ cache' = [p \in Sender |-> <<>>]
    /\ current' = {} /\ next' = 0
    /\ tails' = FALSE
    /\ UNCHANGED <<netVars, dbVars>>

ReaderNext ==
    \/ \E n \in 1 .. 2 : Commit(n)
    \/ \E m \in net : Damage(m)
    \/ \E p \in Sender : AskForTail(p) \/ AnswerTail(p)
    \/ \E m \in net : DecodeFails(m) \/ BeginApply(m)
    \/ SkipSeen \/ SkipCorrupt \/ ApplyEntry \/ ApplyFails \/ EndApply
    \/ DrainInbound \/ Restart

ReaderSpec == ReaderInit /\ [][ReaderNext]_readerVars

-----------------------------------------------------------------------------
(* Properties *)

\* The writer's entries that were applied.
Held == {l \in database : times[l] > 0}

\* A cache only remembers what was applied: an entry whose apply failed, or
\* that a crash cut off, is applied when it is delivered again.
CachedIsApplied ==
    \A p \in Sender : \A i \in DOMAIN cache[p] :
        cache[p][i].is = "sound" => cache[p][i].lsn \in Held

\* An entry of the writer's that apply_wal_tail has passed over was applied: no
\* failure, eviction, restart or other peer, and no damaged entry with its
\* LSN, makes it skip one that the database was not given.
PassedIsHeld ==
    next # 0 =>
        \A i \in 1 .. next - 1 :
            current.entries[i].is = "sound" =>
                current.entries[i].lsn \in Held

\* What it rests on.
ReaderInv == ReaderTypeOK /\ CachedIsApplied /\ PassedIsHeld

-----------------------------------------------------------------------------
(* What comments, tests or RFCs of the repository say, and the code does not   *)
(* do: TLC refutes each of these (README.md, "Disagreements").                 *)

\* "Check the replay cache (skip if already applied)": no entry is handed to
\* the database again.
AppliedOnce == \A l \in Lsn : times[l] <= 1

\* "When the cache exceeds max_entries, the oldest entry by first_seen is
\* evicted": an entry that is applied enters the cache, and what leaves was oldest.
EvictsOldest ==
    [][ApplyEntry =>
           LET p == current.peer
           IN  \/ cache'[p] = Append(cache[p], Entry)
               \/ cache[p] # <<>> /\ cache'[p] = Append(Tail(cache[p]), Entry)]_readerVars

\* "Corrupted entries are skipped (not applied)": only the writer's bytes are.
NothingSpoiled == [][ApplyEntry => Entry.is = "sound"]_readerVars

\* "dedupe by LSN (using the per-peer LSN watermark)", "The Sync protocol never
\* re-orders": an entry is applied on top of lower ones only.
AppliesInLsnOrder ==
    [][\A l \in database' \ database : l > CurrentLsn]_readerVars
=============================================================================
