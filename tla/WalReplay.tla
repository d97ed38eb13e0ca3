----------------------------- MODULE WalReplay -----------------------------
(***************************************************************************)
(* Recovery of a shard from the WAL: replay_wal in                         *)
(* octo-sync/src/substrate/wal_traits.rs, over the entries that            *)
(* Cluster::append_wal_entry builds.                                       *)
(*                                                                         *)
(* log is what was appended; stored is what the WalReader's medium still   *)
(* holds of it, after entries were lost or parts of them damaged.  An      *)
(* entry carries its LSN, type and shard twice, as fields and inside       *)
(* prefix_bytes, and its checksum is a function, taken as injective, of    *)
(* prefix_bytes and payload.  replay_wal reads the medium once and then    *)
(* works through what it read, while others append and the medium decays.  *)
(***************************************************************************)
EXTENDS Integers, Sequences

CONSTANTS
    Shard,      \* ShardKey
    Kind,       \* entry_type
    Junk,       \* what a damaged part holds
    MaxLsn,     \* bound: entries appended
    MaxFaults,  \* bound: faults of the medium
    MaxReplays  \* bound: calls of replay_wal

ASSUME ReplayAssumption == {MaxLsn, MaxFaults, MaxReplays} \subseteq Nat

VARIABLES
    log,      \* Cluster.wal
    stored,   \* the entries a WalReader finds
    batch,    \* the entries read and not yet looked at, by their positions
    prev,     \* prev_lsn
    state,    \* context.replay_state
    shard,    \* shard_key
    \* Bounds and history, read by the properties only:
    phase,    \* where replay_wal stands: "idle", "reading", "applying"
    applied,  \* the entries this call applied
    seen,     \* the length of the log when this call read it
    faults,   \* faults so far
    replays   \* calls so far

callVars == <<batch, prev, state, shard, phase, applied, seen, replays>>
vars == <<log, stored, faults, callVars>>

-----------------------------------------------------------------------------
Prefix == [lsn : 1 .. MaxLsn, kind : Kind, shard : Shard] \cup {Junk}
Payload == 1 .. MaxLsn \cup {Junk}

\* A damaged checksum is nobody's checksum.
ASSUME JunkAssumption == Junk \notin Prefix \X Payload

Entry ==
    [lsn : 1 .. MaxLsn, kind : Kind, shard : Shard, prefix : Prefix,
     payload : Payload, sum : Prefix \X Payload \cup {Junk}]
ReplayState ==
    [at : {"Idle", "InProgress", "Failed", "Complete"},
     start : 0 .. MaxLsn, last : 0 .. MaxLsn, attempted : Nat]

TypeOK ==
    /\ {log, stored, applied} \subseteq Seq(Entry) /\ Len(log) <= MaxLsn
    /\ DOMAIN batch \subseteq Nat /\ batch \in [DOMAIN batch -> Entry]
    /\ {prev, seen} \subseteq 0 .. MaxLsn
    /\ state \in ReplayState
    /\ shard \in Shard
    /\ phase \in {"idle", "reading", "applying"}
    /\ faults \in 0 .. MaxFaults /\ replays \in 0 .. MaxReplays

Init ==
    /\ log = <<>> /\ stored = <<>> /\ batch = <<>> /\ applied = <<>>
    /\ prev = 0 /\ seen = 0 /\ faults = 0 /\ replays = 0
    /\ state = [at |-> "Idle", start |-> 0, last |-> 0, attempted |-> 0]
    /\ shard \in Shard
    /\ phase = "idle"

\* WalEntry::build_v13 and finalize_with_lsns; the payload is new each time.
NewEntry(lsn, k, s) ==
    LET prefix == [lsn |-> lsn, kind |-> k, shard |-> s]
    IN  [lsn |-> lsn, kind |-> k, shard |-> s, prefix |-> prefix,
         payload |-> lsn, sum |-> <<prefix, lsn>>]

NextLsn == Len(log) + 1

\* append_wal_entry
AppendWalEntry(k, s) ==
    LET entry == NewEntry(NextLsn, k, s)
    IN  /\ Len(log) < MaxLsn
        /\ log' = Append(log, entry)
        /\ stored' = Append(stored, entry)
        /\ UNCHANGED <<faults, callVars>>

Without(s, i) == [j \in 1 .. Len(s) - 1 |-> IF j < i THEN s[j] ELSE s[j + 1]]

\* The medium loses an entry.
Lose(i) ==
    /\ faults < MaxFaults
    /\ stored' = Without(stored, i)
    /\ faults' = faults + 1
    /\ UNCHANGED <<log, callVars>>

\* The parts of an entry.
Fields == {"lsn", "kind", "shard", "prefix", "payload", "sum"}

\* What a damaged field may hold: a field replay_wal compares or hands on
\* holds another value of its type, a checksummed part no longer matches.
DamagedTo(f) ==
    CASE f = "lsn" -> 1 .. MaxLsn
      [] f = "kind" -> Kind
      [] f = "shard" -> Shard
      [] OTHER -> {Junk}

\* The medium damages a part of an entry.
Damage(i, f) ==
    /\ faults < MaxFaults
    /\ \E v \in DamagedTo(f) \ {stored[i][f]} : stored' = [stored EXCEPT ![i][f] = v]
    /\ faults' = faults + 1
    /\ UNCHANGED <<log, callVars>>

-----------------------------------------------------------------------------
(* replay_wal *)

\* The entry before the start is taken to be the start itself.
Before_itself(start) == start

Before(start) == IF start = 0 THEN 0 ELSE start - 1

\* It is called, and marks the context.
BeginReplay(start, s) ==
    /\ phase = "idle"
    /\ replays < MaxReplays
    /\ replays' = replays + 1
    /\ phase' = "reading"
    /\ state' = [at |-> "InProgress", start |-> start, last |-> start, attempted |-> 0]
    /\ prev' = Before(start)
    /\ shard' = s
    /\ applied' = <<>>
    /\ UNCHANGED <<log, stored, faults, batch, seen>>

\* The tip is taken for the end of the range, which is exclusive.
InRange_short(e) == e.lsn >= state.start /\ e.lsn < Len(log)

\* read_wal_range(start_lsn, None)
InRange(e) == e.lsn >= state.start /\ e.lsn < Len(log) + 1

\* read_range returns the entries.
ReadRange ==
    /\ phase = "reading"
    /\ phase' = "applying"
    /\ batch' = [i \in {j \in DOMAIN stored : InRange(stored[j])} |-> stored[i]]
    /\ seen' = Len(log)
    /\ UNCHANGED <<log, stored, faults, prev, state, shard, applied, replays>>

\* read_range fails, and so does the call.
ReadFails ==
    /\ phase = "reading"
    /\ phase' = "idle"
    /\ UNCHANGED <<log, stored, faults, batch, prev, state, shard, applied, seen, replays>>

InSequence(e) == e.lsn = prev + 1

\* The checksum is not verified.
ChecksumOK_unchecked(e) == TRUE

ChecksumOK(e) == e.sum = <<e.prefix, e.payload>>

\* The three checks an entry has to pass before it is applied.
Accepted(e) == InSequence(e) /\ ChecksumOK(e) /\ e.shard = shard

\* The loop is at position i of what was read.
Upto(i) == \A j \in DOMAIN batch : i <= j

\* The loop body for an entry that passes: apply_entry cannot fail.
ApplyEntry(i) ==
    /\ phase = "applying"
    /\ Upto(i)
    /\ Accepted(batch[i])
    /\ applied' = Append(applied, batch[i])
    /\ prev' = batch[i].lsn
    /\ state' = [state EXCEPT !.last = batch[i].lsn, !.attempted = @ + 1]
    /\ batch' = [j \in DOMAIN batch \ {i} |-> batch[j]]
    /\ UNCHANGED <<log, stored, faults, shard, phase, seen, replays>>

\* The loop body for an entry that does not: WalCorruption.
RejectEntry(i) ==
    /\ phase = "applying"
    /\ Upto(i)
    /\ ~ Accepted(batch[i])
    /\ state' = [state EXCEPT !.at = "Failed", !.attempted = @ + 1]
    /\ phase' = "idle"
    /\ batch' = <<>>
    /\ UNCHANGED <<log, stored, faults, prev, shard, applied, seen, replays>>

\* The loop ends: last is now tip_lsn, attempted total_entries.
CompleteReplay ==
    /\ phase = "applying"
    /\ DOMAIN batch = {}
    /\ state' = [state EXCEPT !.at = "Complete"]
    /\ phase' = "idle"
    /\ UNCHANGED <<log, stored, faults, batch, prev, shard, applied, seen, replays>>

Next ==
    \/ \E k \in Kind, s \in Shard : AppendWalEntry(k, s)
    \/ \E i \in DOMAIN stored : Lose(i)
    \/ \E i \in DOMAIN stored, f \in Fields : Damage(i, f)
    \/ \E start \in 0 .. MaxLsn, s \in Shard : BeginReplay(start, s)
    \/ ReadRange \/ ReadFails
    \/ \E i \in DOMAIN batch : ApplyEntry(i) \/ RejectEntry(i)
    \/ CompleteReplay

Spec == Init /\ [][Next]_vars

-----------------------------------------------------------------------------
(* Properties *)

First == IF state.start = 0 THEN 1 ELSE state.start

Checksummed(e) == <<e.prefix, e.payload, e.sum>>

\* The fields kept beside prefix_bytes say what prefix_bytes says.
Agrees(e) == e.prefix = [lsn |-> e.lsn, kind |-> e.kind, shard |-> e.shard]

\* "Fail-closed on corruption": whatever the medium lost, and whichever parts of
\* an entry it damaged, each entry a replay applied has the prefix_bytes and the
\* payload of one that was appended; and unless a field beside prefix_bytes was
\* damaged, it is the entry that the shard's writer appended at its place, none
\* left out since the start.
FailClosed ==
    \A i \in DOMAIN applied :
        /\ \E j \in DOMAIN log : Checksummed(applied[i]) = Checksummed(log[j])
        /\ Agrees(applied[i]) =>
            /\ First + i - 1 <= Len(log)
            /\ applied[i] = log[First + i - 1]
            /\ applied[i].prefix.shard = shard

\* A replay that completes over a sound medium applied all that was appended
\* by the time it read, and says how much that was.
CompleteIsWhole ==
    state.at = "Complete" /\ faults = 0 =>
        /\ applied = SubSeq(log, First, seen)
        /\ state.attempted = Len(applied)

\* A replay fails only for a reason: the medium lost or damaged something, or
\* another shard wrote one of the entries it read.
FailuresAreExplained ==
    state.at = "Failed" =>
        faults > 0 \/ \E i \in First .. seen : log[i].shard # shard

-----------------------------------------------------------------------------
(* What they rest on *)

\* An entry the medium holds, or held, of a log: every checksummed part is as it
\* was appended, or is damaged.
Derived(e, l) ==
    \E i \in DOMAIN l :
        /\ e.prefix \in {l[i].prefix, Junk}
        /\ e.payload \in {l[i].payload, Junk}
        /\ e.sum \in {l[i].sum, Junk}

LogIsBuilt ==
    \A i \in DOMAIN log : \E k \in Kind, s \in Shard : log[i] = NewEntry(i, k, s)

\* prev_lsn is the LSN of the last entry applied.
PrevIsLast == phase # "idle" => prev = First + Len(applied) - 1

SoundInv ==
    /\ TypeOK /\ LogIsBuilt /\ PrevIsLast /\ FailClosed
    /\ \A i \in DOMAIN stored : Derived(stored[i], log)
    /\ \A i \in DOMAIN batch : Derived(batch[i], log)

\* As long as nothing was lost or damaged the loop has applied the log from the
\* first entry on and is to look at the rest of what there was to read.
OnCourse ==
    /\ stored = log
    /\ \A i \in DOMAIN applied :
        First + i - 1 <= seen /\ applied[i] = log[First + i - 1]
    /\ phase = "reading" => applied = <<>>
    /\ phase = "applying" =>
        /\ DOMAIN batch = (First + Len(applied)) .. seen
        /\ \A i \in DOMAIN batch : batch[i] = log[i]
    /\ phase # "idle" =>
        state.at = "InProgress" /\ state.attempted = Len(applied)

\* A replay that completed looked at everything from its first entry on.
LookedAtAll ==
    state.at = "Complete" =>
        /\ phase = "idle" /\ state.attempted = Len(applied)
        /\ Len(applied) = IF First <= seen THEN seen - First + 1 ELSE 0

WholeInv ==
    /\ TypeOK /\ LogIsBuilt /\ PrevIsLast /\ seen <= Len(log)
    /\ faults = 0 => OnCourse /\ LookedAtAll
    /\ FailuresAreExplained

-----------------------------------------------------------------------------
(* What comments, tests or RFCs of the repository say, and the code does not   *)
(* do: TLC refutes each of these (README.md, "Disagreements").                 *)

\* "WAL corruption detected (gap, non-monotonic LSN, checksum mismatch)":
\* replay fails only when the medium lost or damaged something.
FailuresAreFaults == state.at = "Failed" => faults > 0

\* "Idle -> InProgress -> {Complete | Failed}": a call that has returned is
\* no longer in progress.
SettledOnReturn == phase = "idle" => state.at # "InProgress"

\* "tampering with LSN / EntryType / ShardKey invalidates the checksum": an entry
\* whose fields were damaged is not applied.
TamperingIsFound == \A i \in DOMAIN applied : Agrees(applied[i])
=============================================================================
