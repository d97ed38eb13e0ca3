--------------------------- MODULE MerkleSummary ---------------------------
(***************************************************************************)
(* The Merkle tree over the snapshot segments of a table:                  *)
(* MerkleSegmentTree and its helpers in octo-sync/src/summary.rs.          *)
(*                                                                         *)
(* Strings are sequences of 32-byte words, and a word may be a hash.       *)
(* BLAKE3 is taken to be injective, and not to be all zeros for any        *)
(* string.  One and the same hash is taken of payloads and of nodes.       *)
(***************************************************************************)
EXTENDS Integers, Sequences, FiniteSetsExt

CONSTANTS
    Branch,    \* BRANCH_FACTOR, 16 in the code
    MaxLevel   \* the level after which both loops give up, 4 in the code

ASSUME TreeAssumption == Branch \in Nat \ {0, 1} /\ MaxLevel \in Nat

\* BLAKE3-256 of a string.
Blake3(words) == [is |-> "hash", of |-> words]

\* blake3_hash of a segment's payload, and the hash of a chunk in next_level.
PayloadHash(payload) == Blake3(payload)
NodeHash(hashes) == Blake3(hashes)

ZeroHash[level \in 0 .. MaxLevel] ==
    IF level = 0 THEN [is |-> "zero", of |-> <<>>]
                 ELSE NodeHash([k \in 1 .. Branch |-> ZeroHash[level - 1]])

\* div_ceil
Chunks(arr) == (Len(arr) + Branch - 1) \div Branch

\* pad_to_16
PadToBranch(arr, level) ==
    [k \in 1 .. Chunks(arr) * Branch |->
        IF k <= Len(arr) THEN arr[k] ELSE ZeroHash[level]]

\* The hashes of the k-th chunk, at most n of them.
Chunk(arr, k, n) == [j \in 1 .. n |-> arr[(k - 1) * Branch + j]]

\* chunks_exact: an incomplete chunk is left out.
NextLevel_exact(arr) ==
    [k \in 1 .. Len(arr) \div Branch |-> NodeHash(Chunk(arr, k, Branch))]

\* next_level: the last chunk may be incomplete.
NextLevel(arr) ==
    [k \in 1 .. Chunks(arr) |->
        NodeHash(Chunk(arr, k, Min({Branch, Len(arr) - (k - 1) * Branch})))]

\* compute_root: the lists its loop goes through.
Padded(leaves) ==
    LET at[level \in 0 .. MaxLevel + 1] ==
            IF level = 0 THEN leaves
            ELSE LET current == at[level - 1] IN
                 IF Len(current) <= 1 THEN current
                 ELSE NextLevel(PadToBranch(current, level - 1))
    IN  at

\* One round: the root is the first node above the leaves.
ComputeRoot_once(leaves) ==
    IF leaves = <<>> THEN ZeroHash[0] ELSE Padded(leaves)[1][1]

ComputeRoot(leaves) ==
    IF leaves = <<>> THEN ZeroHash[0] ELSE Padded(leaves)[MaxLevel + 1][1]

\* diff: the lists its loop goes through, which it does not pad in between.
Unpadded(leaves) ==
    LET at[level \in 0 .. MaxLevel] ==
            IF level = 0 THEN leaves ELSE NextLevel(at[level - 1])
    IN  at

\* The hash at a position of a level, positions counted from 0.
HashAt(arr, level, i) ==
    IF i < Len(PadToBranch(arr, level)) THEN PadToBranch(arr, level)[i + 1] ELSE ZeroHash[level]

\* The levels the loop of diff reaches.
Compared(a, b) ==
    {level \in 0 .. MaxLevel :
        level > 0 => Len(Unpadded(a)[level - 1]) > 1 \/ Len(Unpadded(b)[level - 1]) > 1}

\* max_len
DiffWidth(a, b) == Max({Chunks(a), Chunks(b)}) * Branch

\* MerkleSegmentTree::diff of trees with the leaves a and b.
Diff(a, b) ==
    IF a = b THEN {}
    ELSE UNION {LET x == Unpadded(a)[level]
                    y == Unpadded(b)[level]
                IN  {<<level, i>> : i \in {j \in 0 .. DiffWidth(x, y) - 1 :
                                            HashAt(x, level, j) # HashAt(y, level, j)}} :
                level \in Compared(a, b)}

\* MerkleSegmentTree::from_segments: metadata in the order of segment_index.
FromSegments(segments) ==
    [k \in 1 .. Cardinality(segments) |->
        CHOOSE m \in segments : Cardinality({n \in segments : n.index <= m.index}) = k]

\* The leaves of a tree, which do not say which segment they are of.
Leaves(tree) == [k \in DOMAIN tree |-> PayloadHash(tree[k].payload)]

Root(tree) == ComputeRoot(Leaves(tree))

\* MerkleSegmentTree::segments_at
SegmentsAt(tree, positions) ==
    {tree[p[2] + 1] : p \in {q \in positions : q[1] = 0 /\ q[2] < Len(tree)}}

-----------------------------------------------------------------------------
\* For the properties: trees whose roots are of one level, or one of which has
\* no leaves.
Comparable(a, b) ==
    \/ a = <<>> \/ b = <<>>
    \/ \A level \in 0 .. MaxLevel : Len(Padded(a)[level]) <= 1 <=> Len(Padded(b)[level]) <= 1

\* The position, at each level, of the node above the leaf at position i.
Above(i) ==
    LET at[level \in 0 .. MaxLevel] ==
            IF level = 0 THEN i ELSE at[level - 1] \div Branch
    IN  at
=============================================================================
