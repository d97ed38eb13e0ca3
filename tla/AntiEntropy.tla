---------------------------- MODULE AntiEntropy ----------------------------
(***************************************************************************)
(* Catching up with a writer's snapshot of one table: build_summary and    *)
(* the segment requests of octo-sync/src/session.rs and                    *)
(* octo-sync/src/segment.rs, with the trees of MerkleSummary.              *)
(*                                                                         *)
(* The snapshot directory and the table are behind DatabaseSyncAdapter     *)
(* (octo-sync/src/adapter.rs): a commit changes the rows that the segments *)
(* hold, a regeneration writes all of them anew, a file may get lost.  The *)
(* reader is not in this repository either: it does what summary.rs and    *)
(* RFC-0862, 4.3.4, tell it to, with the metadata that the summary was     *)
(* built from.  The HMAC of a summary and its lsn_watermark are left out.  *)
(***************************************************************************)
EXTENDS MerkleSummary

CONSTANTS
    Content,      \* what the rows of a segment can be, strings of words
    MaxSegments,  \* bound: segments of the table
    Table,        \* what the table can be, cut into segments
    MaxLsn,       \* bound: commits
    MaxLost,      \* bound: segment files lost
    None

ASSUME SegmentAssumption ==
    /\ {MaxLsn, MaxLost} \subseteq Nat
    /\ MaxSegments \in Nat \ {0}
    /\ Above(MaxSegments - 1)[MaxLevel] = 0   \* at most Branch ^ MaxLevel
    /\ Table \subseteq UNION {[1 .. n -> Content] : n \in 0 .. MaxSegments}
    /\ <<>> \in Table

VARIABLES
    lsn,      \* adapter.current_lsn()
    rows,     \* the table, cut into segments
    snap,     \* the snapshot directory: metadata of its segments with payload
    snap_lsn, \* the LSN at which it was written
    lost,     \* files lost so far
    summary,  \* the last summary: its root and the metadata it is of, or None
    serving,  \* the segment being asked for and what was read for it, or None
    \* The reader:
    mine,     \* its segments
    mark,     \* its LSN watermark
    todo,     \* metadata of the segments it still wants
    pulling,  \* "idle", "pulling", "done" or "failed"
    \* History, read by the properties only:
    aligned   \* whether positions stood for segments, and an equal root for
              \* equal leaves, when it last compared

writerVars == <<lsn, rows, snap, snap_lsn, lost>>
readerVars == <<mine, mark, todo, pulling, aligned>>
vars == <<writerVars, summary, serving, readerVars>>

-----------------------------------------------------------------------------
Index == 0 .. MaxSegments - 1
Lsn == 0 .. MaxLsn
Segment == [index : Index, payload : Content]

\* Segments in a directory: at most one at a position.
IsDirectory(S) == S \subseteq Segment /\ \A m, n \in S : m.index = n.index => m = n

TypeOK ==
    /\ {lsn, snap_lsn, mark} \subseteq Lsn /\ lost \in 0 .. MaxLost
    /\ rows \in Table
    /\ IsDirectory(snap) /\ IsDirectory(mine) /\ IsDirectory(todo)
    /\ summary = None \/ IsDirectory(summary.of)
    /\ serving = None \/ (serving.want \in todo /\ serving.read \subseteq Segment)
    /\ pulling \in {"idle", "pulling", "done", "failed"} /\ aligned \in BOOLEAN

Init ==
    /\ lsn = 0 /\ rows = <<>> /\ snap = {} /\ snap_lsn = 0 /\ lost = 0
    /\ summary = None /\ serving = None
    /\ mine = {} /\ mark = 0 /\ todo = {} /\ pulling = "idle" /\ aligned = TRUE

-----------------------------------------------------------------------------
(* The writer's database *)

\* A transaction changes, adds or removes rows anywhere in the table.
Commit ==
    /\ lsn < MaxLsn
    /\ lsn' = lsn + 1
    /\ rows' \in Table \ {rows}
    /\ UNCHANGED <<snap, snap_lsn, lost, summary, serving, readerVars>>

\* adapter.regenerate_snapshot
Regenerated == {[index |-> i - 1, payload |-> rows[i]] : i \in DOMAIN rows}

\* regenerate_snapshot
RegenerateSnapshot ==
    /\ snap' = Regenerated
    /\ snap_lsn' = lsn
    /\ UNCHANGED <<lsn, rows, lost, summary, serving, readerVars>>

LoseSegment ==
    /\ lost < MaxLost
    /\ lost' = lost + 1
    /\ \E m \in snap : snap' = snap \ {m}
    /\ UNCHANGED <<lsn, rows, snap_lsn, summary, serving, readerVars>>

-----------------------------------------------------------------------------
(* The summary *)

\* build_summary for the segments of the directory; the reader asks for one
\* between two requests.
BuildSummary ==
    /\ serving = None
    /\ summary' = [root |-> Root(FromSegments(snap)), of |-> snap]
    /\ todo' = {} /\ pulling' = "idle"
    /\ UNCHANGED <<writerVars, serving, mine, mark, aligned>>

-----------------------------------------------------------------------------
(* The reader pulls what differs from the last summary *)

\* The segments at the positions of the diff.
Wanted ==
    LET tree == FromSegments(summary.of)
    IN  SegmentsAt(tree, Diff(Leaves(FromSegments(mine)), Leaves(tree)))

\* A leaf at the same position of both trees with the same hash is the same
\* segment: neither directory has a gap, or no payload is in both at different
\* indexes.
Dense(S) == {m.index : m \in S} = 0 .. Cardinality(S) - 1
Aligned(S, T) ==
    \/ Dense(S) /\ Dense(T)
    \/ \A m \in S, n \in T : m.payload = n.payload => m.index = n.index

\* Equal roots are of trees that roots can be compared of.
RootTells(S, T) ==
    Root(FromSegments(S)) = Root(FromSegments(T)) =>
        Comparable(Leaves(FromSegments(S)), Leaves(FromSegments(T)))

Compare ==
    /\ summary # None /\ pulling = "idle"
    /\ todo' = IF Root(FromSegments(mine)) = summary.root THEN {} ELSE Wanted
    /\ pulling' = IF todo' = {} THEN "done" ELSE "pulling"
    /\ aligned' = (Aligned(mine, summary.of) /\ RootTells(mine, summary.of))
    /\ UNCHANGED <<writerVars, summary, serving, mine, mark>>

\* handle_segment_request up to read_snapshot_segment.
ReadSegment ==
    /\ serving = None
    /\ \E m \in todo : serving' = [want |-> m, read |-> {s \in snap : s.index = m.index}]
    /\ UNCHANGED <<writerVars, summary, readerVars>>

\* Whatever is at the position is sent.
RootMatches_any(found, want) == TRUE

\* actual_root = expected_root
RootMatches(found, want) == PayloadHash(found.payload) = PayloadHash(want.payload)

\* The reader's write_snapshot_segment.
Stored(s) == {m \in mine : m.index # s.index} \cup {s}

\* The rest of it, when there is a segment with the expected root.  The LSN it
\* is sent with is the one current_lsn returns now.
SendSegment ==
    /\ serving # None
    /\ \E s \in serving.read :
        /\ RootMatches(s, serving.want)
        /\ mine' = Stored(s)
    /\ mark' = Max({mark, lsn})
    /\ todo' = todo \ {serving.want}
    /\ pulling' = IF todo' = {} THEN "done" ELSE "pulling"
    /\ serving' = None
    /\ UNCHANGED <<writerVars, summary, aligned>>

\* SegmentNotFound: the reader has to ask for a summary again.
SegmentNotFound ==
    /\ serving # None
    /\ \A s \in serving.read : ~RootMatches(s, serving.want)
    /\ serving' = None /\ todo' = {} /\ pulling' = "failed"
    /\ UNCHANGED <<writerVars, summary, mine, mark, aligned>>

Next ==
    \/ Commit \/ RegenerateSnapshot \/ LoseSegment
    \/ BuildSummary \/ Compare \/ ReadSegment \/ SendSegment \/ SegmentNotFound

Spec == Init /\ [][Next]_vars

-----------------------------------------------------------------------------
(* Properties *)

\* Two trees whose roots are of one level have the same root if and only if they
\* have the same leaves, of whatever number, whatever the payloads hold and
\* whichever of the levels are padded.  So has a tree without leaves and any other.
RootsDecide ==
    LET a == Leaves(FromSegments(mine))
        b == Leaves(FromSegments(snap))
    IN  Comparable(a, b) => (ComputeRoot(a) = ComputeRoot(b) <=> a = b)

\* At each level it reaches, diff names the nodes above a leaf that differs or
\* that only one tree has, and no others; it reaches the level at which one
\* node stands for all leaves.
DiffIsExact ==
    LET a == Leaves(FromSegments(mine))
        b == Leaves(FromSegments(snap))
        longest == Max({Len(a), Len(b)})
        changed == {i \in 0 .. longest - 1 :
                        i >= Len(a) \/ i >= Len(b) \/ a[i + 1] # b[i + 1]}
    IN  Diff(a, b) =
            {<<n, Above(i)[n]>> :
                n \in {k \in 0 .. MaxLevel : k > 0 => Above(longest - 1)[k - 1] > 0},
                i \in changed}

\* When every segment that a comparison asked for has been sent, the reader has
\* each segment of the summary at its place, whatever was regenerated, lost or
\* left over from earlier pulls.
PullCompletes ==
    pulling = "done" /\ aligned =>
        \A m \in summary.of : \E s \in mine : s.index = m.index /\ s.payload = m.payload

-----------------------------------------------------------------------------
(* What comments, tests or RFCs of the repository say, and the code does not   *)
(* do: TLC refutes each of these (README.md, "Disagreements").                 *)

\* "the LSN of the highest committed entry included in this" segment, to which
\* the reader advances its watermark: the LSN a segment is sent with is not
\* above the one it was generated at.
WatermarkIsIncluded == [][mark' # mark => mark' <= snap_lsn]_vars

\* "Merkle tree collision in `segment_root`": "Infeasible."  Equal roots are of equal
\* leaves, at whatever levels the roots are.
EveryRootDecides ==
    LET a == Leaves(FromSegments(mine))
        b == Leaves(FromSegments(snap))
    IN  ComputeRoot(a) = ComputeRoot(b) => a = b

\* "descend the Merkle tree to find divergent segments": the same without the
\* condition that positions stand for segments and roots for leaves.
EveryPullCompletes ==
    pulling = "done" =>
        \A m \in summary.of : \E s \in mine : s.index = m.index /\ s.payload = m.payload
=============================================================================
