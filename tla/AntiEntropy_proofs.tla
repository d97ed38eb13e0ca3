------------------------ MODULE AntiEntropy_proofs ------------------------
(***************************************************************************)
(* Machine-checked proofs about MerkleSummary and AntiEntropy, for any     *)
(* number of segments, children of a node and levels of a tree.            *)
(*                                                                         *)
(* The levels of a tree are recursive functions.  What is said of every    *)
(* level is shown of the least one for which it would fail: LeastNatural   *)
(* gives it, and LevelInduction states the argument once, for a set of     *)
(* levels.                                                                 *)
(***************************************************************************)
EXTENDS AntiEntropy, FiniteSetTheorems, WellFoundedInduction, TLAPS

-----------------------------------------------------------------------------
(* Arithmetic, and the equations of the recursive functions *)

\* The division that gives a node its parent.
LEMMA DivBounds ==
    ASSUME NEW n \in Nat
    PROVE  /\ n \div Branch \in Nat
           /\ (n \div Branch) * Branch <= n
           /\ n < (n \div Branch) * Branch + Branch
BY TreeAssumption

\* The only number that is within a node of the quotient is the quotient.
LEMMA DivUnique ==
    ASSUME NEW n \in Nat, NEW q \in Nat, q * Branch <= n, n < q * Branch + Branch
    PROVE  n \div Branch = q
BY TreeAssumption, DivBounds

\* A position further right has a parent that is not further left.
LEMMA DivMonotone ==
    ASSUME NEW n \in Nat, NEW m \in Nat, n <= m
    PROVE  n \div Branch <= m \div Branch
BY TreeAssumption, DivBounds

\* The shorter of two lengths.
LEMMA MinOfTwo ==
    ASSUME NEW x \in Int, NEW y \in Int
    PROVE  Min({x, y}) = IF x <= y THEN x ELSE y
BY DEF Min

\* The longer of two lengths.
LEMMA MaxOfTwo ==
    ASSUME NEW x \in Int, NEW y \in Int
    PROVE  Max({x, y}) = IF x <= y THEN y ELSE x
BY DEF Max

\* The nodes of a level that is cut into chunks: one more than the parent of its
\* last.
LEMMA ChunksOf ==
    ASSUME NEW n \in Nat
    PROVE  (n + Branch - 1) \div Branch = IF n = 0 THEN 0 ELSE (n - 1) \div Branch + 1
BY TreeAssumption, DivBounds

\* A set of naturals that is not empty has a least element.
LEMMA LeastNatural ==
    ASSUME NEW T \in SUBSET Nat, T # {}
    PROVE  \E x \in T : \A y \in T : x <= y
<1>1. PICK x \in T : \A y \in T : ~ (<<y, x>> \in OpToRel(<, Nat))
    BY NatLessThanWellFounded, WFMin
<1>2. \A y \in T : ~ (y < x)
    BY <1>1 DEF OpToRel
<1> QED BY <1>2

\* The all-zero array.
ZeroWord == [is |-> "zero", of |-> <<>>]

\* zero_hash satisfies the equations it is written with.
LEMMA ZeroHashDef ==
    /\ ZeroHash[0] = ZeroWord
    /\ \A l \in 1 .. MaxLevel :
            ZeroHash[l] = NodeHash([k \in 1 .. Branch |-> ZeroHash[l - 1]])
<1> DEFINE Step(v, l) == NodeHash([k \in 1 .. Branch |-> v])
           Value(g, l) == IF l = 0 THEN ZeroWord ELSE Step(g[l - 1], l)
           Unfolds(n, g) == g = [l \in 0 .. n |-> Value(g, l)]
           Missing == {n \in Nat : ~ \E g : Unfolds(n, g)}
<1>1. \A n \in Nat : \E g : Unfolds(n, g)
    <2> HIDE DEF Step
    <2>1. SUFFICES ASSUME Missing # {} PROVE FALSE
        OBVIOUS
    <2>2. PICK n \in Missing : \A y \in Missing : n <= y
        <3> HIDE DEF Unfolds
        <3> QED BY <2>1, LeastNatural
    <2>3. n \in Nat \ {0}
        <3>1. Unfolds(0, [l \in 0 .. 0 |-> ZeroWord])
            OBVIOUS
        <3> QED BY <2>2, <3>1
    <2>4. PICK g : Unfolds(n - 1, g)
        <3> HIDE DEF Unfolds
        <3>1. n - 1 \in Nat /\ n - 1 \notin Missing
            BY <2>2, <2>3
        <3> QED BY <3>1
    <2> DEFINE h == [l \in 0 .. n |-> IF l = n THEN Step(g[n - 1], n) ELSE g[l]]
    <2>5. /\ \A l \in 0 .. n - 1 : h[l] = g[l]
          /\ h[n] = Step(g[n - 1], n)
          /\ h = [l \in 0 .. n |-> h[l]]
        BY <2>3
    <2>6. \A l \in 0 .. n - 1 : g[l] = Value(g, l)
        BY <2>4
    <2>7. \A l \in 0 .. n : h[l] = Value(h, l)
        <3> HIDE DEF h
        <3> TAKE l \in 0 .. n
        <3>1. n - 1 \in 0 .. n - 1 /\ (l # n => l \in 0 .. n - 1)
              /\ (l \notin {0, n} => l - 1 \in 0 .. n - 1)
            BY <2>3
        <3> QED BY <3>1, <2>3, <2>5, <2>6
    <2>8. Unfolds(n, h)
        <3> HIDE DEF h
        <3> QED BY <2>5, <2>7
    <2> HIDE DEF Unfolds
    <2> QED BY <2>2, <2>8
<1>2. ZeroHash = CHOOSE g : Unfolds(MaxLevel, g)
    BY DEF ZeroHash, ZeroWord
<1>3. Unfolds(MaxLevel, ZeroHash)
    <2> HIDE DEF Unfolds
    <2> QED BY <1>1, <1>2, TreeAssumption
<1>4. \A l \in 0 .. MaxLevel : ZeroHash[l] = Value(ZeroHash, l)
    <2> HIDE DEF Value
    <2> QED BY <1>3
<1>5. ZeroHash[0] = ZeroWord
    BY <1>4, TreeAssumption
<1>6. \A l \in 1 .. MaxLevel : ZeroHash[l] = Step(ZeroHash[l - 1], l)
    <2> HIDE DEF Step
    <2> QED BY <1>4, TreeAssumption
<1> QED BY <1>5, <1>6

\* So does the loop of compute_root,
LEMMA PaddedDef ==
    ASSUME NEW leaves
    PROVE  /\ Padded(leaves)[0] = leaves
           /\ \A l \in 1 .. MaxLevel + 1 :
                Padded(leaves)[l] =
                    IF Len(Padded(leaves)[l - 1]) <= 1 THEN Padded(leaves)[l - 1]
                    ELSE NextLevel(PadToBranch(Padded(leaves)[l - 1], l - 1))
<1> DEFINE Step(v, l) == IF Len(v) <= 1 THEN v ELSE NextLevel(PadToBranch(v, l - 1))
           Value(g, l) == IF l = 0 THEN leaves ELSE Step(g[l - 1], l)
           Unfolds(n, g) == g = [l \in 0 .. n |-> Value(g, l)]
           Missing == {n \in Nat : ~ \E g : Unfolds(n, g)}
<1>1. \A n \in Nat : \E g : Unfolds(n, g)
    <2> HIDE DEF Step
    <2>1. SUFFICES ASSUME Missing # {} PROVE FALSE
        OBVIOUS
    <2>2. PICK n \in Missing : \A y \in Missing : n <= y
        <3> HIDE DEF Unfolds
        <3> QED BY <2>1, LeastNatural
    <2>3. n \in Nat \ {0}
        <3>1. Unfolds(0, [l \in 0 .. 0 |-> leaves])
            OBVIOUS
        <3> QED BY <2>2, <3>1
    <2>4. PICK g : Unfolds(n - 1, g)
        <3> HIDE DEF Unfolds
        <3>1. n - 1 \in Nat /\ n - 1 \notin Missing
            BY <2>2, <2>3
        <3> QED BY <3>1
    <2> DEFINE h == [l \in 0 .. n |-> IF l = n THEN Step(g[n - 1], n) ELSE g[l]]
    <2>5. /\ \A l \in 0 .. n - 1 : h[l] = g[l]
          /\ h[n] = Step(g[n - 1], n)
          /\ h = [l \in 0 .. n |-> h[l]]
        BY <2>3
    <2>6. \A l \in 0 .. n - 1 : g[l] = Value(g, l)
        BY <2>4
    <2>7. \A l \in 0 .. n : h[l] = Value(h, l)
        <3> HIDE DEF h
        <3> TAKE l \in 0 .. n
        <3>1. n - 1 \in 0 .. n - 1 /\ (l # n => l \in 0 .. n - 1)
              /\ (l \notin {0, n} => l - 1 \in 0 .. n - 1)
            BY <2>3
        <3> QED BY <3>1, <2>3, <2>5, <2>6
    <2>8. Unfolds(n, h)
        <3> HIDE DEF h
        <3> QED BY <2>5, <2>7
    <2> HIDE DEF Unfolds
    <2> QED BY <2>2, <2>8
<1>2. Padded(leaves) = CHOOSE g : Unfolds(MaxLevel + 1, g)
    BY DEF Padded
<1>3. Unfolds(MaxLevel + 1, Padded(leaves))
    <2> HIDE DEF Unfolds
    <2> QED BY <1>1, <1>2, TreeAssumption
<1>4. \A l \in 0 .. MaxLevel + 1 : Padded(leaves)[l] = Value(Padded(leaves), l)
    <2> HIDE DEF Value
    <2> QED BY <1>3
<1>5. Padded(leaves)[0] = leaves
    BY <1>4, TreeAssumption
<1>6. \A l \in 1 .. MaxLevel + 1 : Padded(leaves)[l] = Step(Padded(leaves)[l - 1], l)
    <2> HIDE DEF Step
    <2> QED BY <1>4, TreeAssumption
<1> QED BY <1>5, <1>6

\* that of diff,
LEMMA UnpaddedDef ==
    ASSUME NEW leaves
    PROVE  /\ Unpadded(leaves)[0] = leaves
           /\ \A l \in 1 .. MaxLevel :
                Unpadded(leaves)[l] = NextLevel(Unpadded(leaves)[l - 1])
<1> DEFINE Step(v, l) == NextLevel(v)
           Value(g, l) == IF l = 0 THEN leaves ELSE Step(g[l - 1], l)
           Unfolds(n, g) == g = [l \in 0 .. n |-> Value(g, l)]
           Missing == {n \in Nat : ~ \E g : Unfolds(n, g)}
<1>1. \A n \in Nat : \E g : Unfolds(n, g)
    <2> HIDE DEF Step
    <2>1. SUFFICES ASSUME Missing # {} PROVE FALSE
        OBVIOUS
    <2>2. PICK n \in Missing : \A y \in Missing : n <= y
        <3> HIDE DEF Unfolds
        <3> QED BY <2>1, LeastNatural
    <2>3. n \in Nat \ {0}
        <3>1. Unfolds(0, [l \in 0 .. 0 |-> leaves])
            OBVIOUS
        <3> QED BY <2>2, <3>1
    <2>4. PICK g : Unfolds(n - 1, g)
        <3> HIDE DEF Unfolds
        <3>1. n - 1 \in Nat /\ n - 1 \notin Missing
            BY <2>2, <2>3
        <3> QED BY <3>1
    <2> DEFINE h == [l \in 0 .. n |-> IF l = n THEN Step(g[n - 1], n) ELSE g[l]]
    <2>5. /\ \A l \in 0 .. n - 1 : h[l] = g[l]
          /\ h[n] = Step(g[n - 1], n)
          /\ h = [l \in 0 .. n |-> h[l]]
        BY <2>3
    <2>6. \A l \in 0 .. n - 1 : g[l] = Value(g, l)
        BY <2>4
    <2>7. \A l \in 0 .. n : h[l] = Value(h, l)
        <3> HIDE DEF h
        <3> TAKE l \in 0 .. n
        <3>1. n - 1 \in 0 .. n - 1 /\ (l # n => l \in 0 .. n - 1)
              /\ (l \notin {0, n} => l - 1 \in 0 .. n - 1)
            BY <2>3
        <3> QED BY <3>1, <2>3, <2>5, <2>6
    <2>8. Unfolds(n, h)
        <3> HIDE DEF h
        <3> QED BY <2>5, <2>7
    <2> HIDE DEF Unfolds
    <2> QED BY <2>2, <2>8
<1>2. Unpadded(leaves) = CHOOSE g : Unfolds(MaxLevel, g)
    BY DEF Unpadded
<1>3. Unfolds(MaxLevel, Unpadded(leaves))
    <2> HIDE DEF Unfolds
    <2> QED BY <1>1, <1>2, TreeAssumption
<1>4. \A l \in 0 .. MaxLevel : Unpadded(leaves)[l] = Value(Unpadded(leaves), l)
    <2> HIDE DEF Value
    <2> QED BY <1>3
<1>5. Unpadded(leaves)[0] = leaves
    BY <1>4, TreeAssumption
<1>6. \A l \in 1 .. MaxLevel : Unpadded(leaves)[l] = Step(Unpadded(leaves)[l - 1], l)
    <2> HIDE DEF Step
    <2> QED BY <1>4, TreeAssumption
<1> QED BY <1>5, <1>6

\* and the positions above a leaf.
LEMMA AboveDef ==
    ASSUME NEW i
    PROVE  /\ Above(i)[0] = i
           /\ \A l \in 1 .. MaxLevel : Above(i)[l] = Above(i)[l - 1] \div Branch
<1> DEFINE Step(v, l) == v \div Branch
           Value(g, l) == IF l = 0 THEN i ELSE Step(g[l - 1], l)
           Unfolds(n, g) == g = [l \in 0 .. n |-> Value(g, l)]
           Missing == {n \in Nat : ~ \E g : Unfolds(n, g)}
<1>1. \A n \in Nat : \E g : Unfolds(n, g)
    <2> HIDE DEF Step
    <2>1. SUFFICES ASSUME Missing # {} PROVE FALSE
        OBVIOUS
    <2>2. PICK n \in Missing : \A y \in Missing : n <= y
        <3> HIDE DEF Unfolds
        <3> QED BY <2>1, LeastNatural
    <2>3. n \in Nat \ {0}
        <3>1. Unfolds(0, [l \in 0 .. 0 |-> i])
            OBVIOUS
        <3> QED BY <2>2, <3>1
    <2>4. PICK g : Unfolds(n - 1, g)
        <3> HIDE DEF Unfolds
        <3>1. n - 1 \in Nat /\ n - 1 \notin Missing
            BY <2>2, <2>3
        <3> QED BY <3>1
    <2> DEFINE h == [l \in 0 .. n |-> IF l = n THEN Step(g[n - 1], n) ELSE g[l]]
    <2>5. /\ \A l \in 0 .. n - 1 : h[l] = g[l]
          /\ h[n] = Step(g[n - 1], n)
          /\ h = [l \in 0 .. n |-> h[l]]
        BY <2>3
    <2>6. \A l \in 0 .. n - 1 : g[l] = Value(g, l)
        BY <2>4
    <2>7. \A l \in 0 .. n : h[l] = Value(h, l)
        <3> HIDE DEF h
        <3> TAKE l \in 0 .. n
        <3>1. n - 1 \in 0 .. n - 1 /\ (l # n => l \in 0 .. n - 1)
              /\ (l \notin {0, n} => l - 1 \in 0 .. n - 1)
            BY <2>3
        <3> QED BY <3>1, <2>3, <2>5, <2>6
    <2>8. Unfolds(n, h)
        <3> HIDE DEF h
        <3> QED BY <2>5, <2>7
    <2> HIDE DEF Unfolds
    <2> QED BY <2>2, <2>8
<1>2. Above(i) = CHOOSE g : Unfolds(MaxLevel, g)
    BY DEF Above
<1>3. Unfolds(MaxLevel, Above(i))
    <2> HIDE DEF Unfolds
    <2> QED BY <1>1, <1>2, TreeAssumption
<1>4. \A l \in 0 .. MaxLevel : Above(i)[l] = Value(Above(i), l)
    <2> HIDE DEF Value
    <2> QED BY <1>3
<1>5. Above(i)[0] = i
    BY <1>4, TreeAssumption
<1>6. \A l \in 1 .. MaxLevel : Above(i)[l] = Step(Above(i)[l - 1], l)
    <2> HIDE DEF Step
    <2> QED BY <1>4, TreeAssumption
<1> QED BY <1>5, <1>6

-----------------------------------------------------------------------------
(* The levels of a tree *)

\* What every list of a level has: it is not empty, and its hashes are hashes of
\* something and not the padding of that level.
HashList(arr, l) ==
    /\ Len(arr) \in Nat \ {0}
    /\ arr = [k \in 1 .. Len(arr) |-> arr[k]]
    /\ \A k \in 1 .. Len(arr) : arr[k] # ZeroHash[l] /\ arr[k].is = "hash"

\* A chunk starts with a hash of the list.
LEMMA ChunkStart ==
    ASSUME NEW n \in Nat \ {0}, NEW k \in 1 .. (n - 1) \div Branch + 1
    PROVE  /\ (k - 1) * Branch \in Nat /\ (k - 1) * Branch < n
           /\ n - (k - 1) * Branch \in Nat \ {0}
           /\ Min({Branch, n - (k - 1) * Branch}) \in 1 .. Branch
           /\ (k - 1) * Branch + Min({Branch, n - (k - 1) * Branch}) <= n
<1>1. (n - 1) \div Branch \in Nat /\ ((n - 1) \div Branch) * Branch <= n - 1
    BY DivBounds
<1>2. k - 1 \in Nat /\ k - 1 <= (n - 1) \div Branch
    BY <1>1
<1>3. (k - 1) * Branch \in Nat /\ (k - 1) * Branch <= ((n - 1) \div Branch) * Branch
    BY <1>1, <1>2, TreeAssumption
<1> DEFINE from == (k - 1) * Branch
           last == ((n - 1) \div Branch) * Branch
<1>4. from \in Nat /\ from < n
    <2>1. last \in Nat /\ last <= n - 1
        BY <1>1, TreeAssumption
    <2> HIDE DEF last
    <2> QED BY <1>3, <2>1 DEF last
<1> HIDE DEF from
<1>5. Min({Branch, n - from}) = IF Branch <= n - from THEN Branch ELSE n - from
    BY <1>4, MinOfTwo, TreeAssumption
<1>6. /\ n - from \in Nat \ {0}
      /\ Min({Branch, n - from}) \in 1 .. Branch
      /\ from + Min({Branch, n - from}) <= n
    BY <1>4, <1>5, TreeAssumption
<1> QED BY <1>4, <1>6 DEF from

\* next_level: as many hashes as there are chunks, each over its chunk.
LEMMA NextLevelDef ==
    ASSUME NEW arr, Len(arr) \in Nat \ {0}
    PROVE  /\ Len(NextLevel(arr)) = (Len(arr) - 1) \div Branch + 1
           /\ (Len(arr) - 1) \div Branch + 1 \in Nat \ {0}
           /\ NextLevel(arr) = [k \in 1 .. Len(NextLevel(arr)) |-> NextLevel(arr)[k]]
           /\ \A k \in 1 .. Len(NextLevel(arr)) :
                NextLevel(arr)[k] =
                    NodeHash(Chunk(arr, k, Min({Branch, Len(arr) - (k - 1) * Branch})))
<1> DEFINE n == Chunks(arr)
           e(k) == NodeHash(Chunk(arr, k, Min({Branch, Len(arr) - (k - 1) * Branch})))
<1>1. n = (Len(arr) - 1) \div Branch + 1 /\ n \in Nat \ {0}
    <2>1. n = (Len(arr) - 1) \div Branch + 1
        BY ChunksOf DEF Chunks
    <2>2. (Len(arr) - 1) \div Branch \in Nat
        BY DivBounds
    <2> QED BY <2>1, <2>2
<1>2. NextLevel(arr) = [k \in 1 .. n |-> e(k)]
    BY DEF NextLevel
<1> HIDE DEF n, e
<1>3. Len(NextLevel(arr)) = n
    BY <1>1, <1>2
<1>4. NextLevel(arr) = [k \in 1 .. n |-> NextLevel(arr)[k]]
    BY <1>2
<1>5. \A k \in 1 .. n : NextLevel(arr)[k] = e(k)
    BY <1>2
<1> QED BY <1>1, <1>3, <1>4, <1>5 DEF e

\* pad_to_16: the list, and padding after it.
LEMMA PadToBranchDef ==
    ASSUME NEW arr, NEW l, Len(arr) \in Nat
    PROVE  /\ Len(PadToBranch(arr, l)) \in Nat
           /\ Len(PadToBranch(arr, l)) = Chunks(arr) * Branch
           /\ Len(arr) <= Len(PadToBranch(arr, l))
           /\ \A k \in 1 .. Len(PadToBranch(arr, l)) :
                PadToBranch(arr, l)[k] = IF k <= Len(arr) THEN arr[k] ELSE ZeroHash[l]
<1> DEFINE n == Chunks(arr) * Branch
<1>0. Len(arr) # 0 => (Len(arr) - 1) \div Branch \in Nat /\ Len(arr) - 1 < ((Len(arr) - 1) \div Branch) * Branch + Branch
    BY DivBounds
<1>1. n \in Nat /\ Len(arr) <= n
    BY <1>0, ChunksOf, TreeAssumption DEF Chunks
<1>2. PadToBranch(arr, l) = [k \in 1 .. n |-> IF k <= Len(arr) THEN arr[k] ELSE ZeroHash[l]]
    BY DEF PadToBranch
<1> HIDE DEF n
<1>3. Len(PadToBranch(arr, l)) = n
    BY <1>1, <1>2
<1> QED BY <1>1, <1>2, <1>3 DEF n

\* Padding does not change how many chunks there are.
LEMMA PaddedChunks ==
    ASSUME NEW n \in Nat \ {0}
    PROVE  /\ ((n - 1) \div Branch + 1) * Branch \in Nat \ {0}
           /\ (((n - 1) \div Branch + 1) * Branch - 1) \div Branch = (n - 1) \div Branch
<1> DEFINE q == (n - 1) \div Branch
<1>1. q \in Nat
    BY DivBounds
<1> HIDE DEF q
<1>2. (q + 1) * Branch = q * Branch + Branch /\ q * Branch \in Nat
    BY <1>1, TreeAssumption
<1>3. (q + 1) * Branch - 1 \in Nat /\ (q + 1) * Branch \in Nat \ {0}
    BY <1>1, <1>2, TreeAssumption
<1>4. ((q + 1) * Branch - 1) \div Branch = q
    BY <1>1, <1>2, <1>3, DivUnique, TreeAssumption
<1> QED BY <1>3, <1>4 DEF q

\* The hash of a list that does not start with padding is not padding.
LEMMA NodeAbove ==
    ASSUME NEW s, NEW l \in 0 .. MaxLevel - 1, s[1] # ZeroHash[l]
    PROVE  NodeHash(s).is = "hash" /\ NodeHash(s) # ZeroHash[l + 1]
<1>1. NodeHash(s).is = "hash"
    BY DEF NodeHash, Blake3
<1>2. ZeroHash[l + 1] = NodeHash([k \in 1 .. Branch |-> ZeroHash[l]])
    <2>1. l + 1 \in 1 .. MaxLevel /\ (l + 1) - 1 = l
        BY TreeAssumption
    <2>2. ZeroHash[l + 1] = NodeHash([k \in 1 .. Branch |-> ZeroHash[(l + 1) - 1]])
        BY <2>1, ZeroHashDef
    <2> QED BY <2>1, <2>2
<1>3. [k \in 1 .. Branch |-> ZeroHash[l]][1] = ZeroHash[l]
    BY TreeAssumption
<1>4. NodeHash(s).of[1] = s[1]
      /\ NodeHash([k \in 1 .. Branch |-> ZeroHash[l]]).of[1] = ZeroHash[l]
    BY <1>3 DEF NodeHash, Blake3
<1> QED BY <1>1, <1>2, <1>4

\* next_level makes hashes of one level deeper, one for each chunk.
LEMMA NextLevelList ==
    ASSUME NEW arr, NEW l \in 0 .. MaxLevel - 1, HashList(arr, l)
    PROVE  /\ HashList(NextLevel(arr), l + 1)
           /\ Len(NextLevel(arr)) = (Len(arr) - 1) \div Branch + 1
<1>1. Len(arr) \in Nat \ {0}
    BY DEF HashList
<1>2. ASSUME NEW k \in 1 .. (Len(arr) - 1) \div Branch + 1
      PROVE  /\ NodeHash(Chunk(arr, k, Min({Branch, Len(arr) - (k - 1) * Branch}))).is = "hash"
             /\ NodeHash(Chunk(arr, k, Min({Branch, Len(arr) - (k - 1) * Branch}))) # ZeroHash[l + 1]
    <2> DEFINE s == Chunk(arr, k, Min({Branch, Len(arr) - (k - 1) * Branch}))
    <2>1. s[1] = arr[(k - 1) * Branch + 1] /\ (k - 1) * Branch + 1 \in 1 .. Len(arr)
        BY <1>1, ChunkStart DEF Chunk
    <2>2. s[1] # ZeroHash[l]
        BY <2>1 DEF HashList
    <2> HIDE DEF s
    <2> QED BY <2>2, NodeAbove DEF s
<1> DEFINE next == NextLevel(arr)
<1>3. /\ Len(next) = (Len(arr) - 1) \div Branch + 1 /\ Len(next) \in Nat \ {0}
      /\ next = [k \in 1 .. Len(next) |-> next[k]]
      /\ \A k \in 1 .. Len(next) :
            next[k] = NodeHash(Chunk(arr, k, Min({Branch, Len(arr) - (k - 1) * Branch})))
    BY <1>1, NextLevelDef
<1> HIDE DEF next
<1>4. \A k \in 1 .. Len(next) : next[k] # ZeroHash[l + 1] /\ next[k].is = "hash"
    BY <1>2, <1>3
<1>5. HashList(next, l + 1)
    BY <1>3, <1>4 DEF HashList
<1> QED BY <1>3, <1>5 DEF next

\* So it does when the last chunk is padded with the hash of no data.
LEMMA PaddedNextList ==
    ASSUME NEW arr, NEW l \in 0 .. MaxLevel - 1, HashList(arr, l)
    PROVE  /\ HashList(NextLevel(PadToBranch(arr, l)), l + 1)
           /\ Len(NextLevel(PadToBranch(arr, l))) = (Len(arr) - 1) \div Branch + 1
<1> DEFINE pad == PadToBranch(arr, l)
           m == (Len(arr) - 1) \div Branch + 1
<1>1. Len(arr) \in Nat \ {0} /\ m \in Nat
    BY DivBounds DEF HashList
<1>2. Len(pad) = m * Branch /\ Len(arr) <= Len(pad)
    BY <1>1, PadToBranchDef, ChunksOf DEF Chunks
<1>3. Len(pad) \in Nat \ {0} /\ (Len(pad) - 1) \div Branch + 1 = m
    BY <1>1, <1>2, PaddedChunks
<1>4. ASSUME NEW k \in 1 .. m
      PROVE  /\ NodeHash(Chunk(pad, k, Min({Branch, Len(pad) - (k - 1) * Branch}))).is = "hash"
             /\ NodeHash(Chunk(pad, k, Min({Branch, Len(pad) - (k - 1) * Branch}))) # ZeroHash[l + 1]
    <2> DEFINE s == Chunk(pad, k, Min({Branch, Len(pad) - (k - 1) * Branch}))
    <2> HIDE DEF pad
    <2>1. (k - 1) * Branch + 1 \in 1 .. Len(arr)
        <3>1. (k - 1) * Branch \in Nat /\ (k - 1) * Branch < Len(arr)
            BY <1>1, ChunkStart
        <3> HIDE DEF m
        <3> QED BY <1>1, <3>1
    <2>2. s[1] = pad[(k - 1) * Branch + 1]
        BY <1>3, ChunkStart DEF Chunk
    <2>3. pad[(k - 1) * Branch + 1] = arr[(k - 1) * Branch + 1]
        BY <1>1, <1>2, <2>1, PadToBranchDef DEF pad
    <2>4. s[1] # ZeroHash[l]
        BY <2>1, <2>2, <2>3 DEF HashList
    <2> HIDE DEF s
    <2> QED BY <2>4, NodeAbove DEF s
<1>5. /\ Len(NextLevel(pad)) = m /\ m \in Nat \ {0}
      /\ NextLevel(pad) = [k \in 1 .. m |-> NextLevel(pad)[k]]
      /\ \A k \in 1 .. m :
            NextLevel(pad)[k] = NodeHash(Chunk(pad, k, Min({Branch, Len(pad) - (k - 1) * Branch})))
    <2> HIDE DEF pad
    <2> QED BY <1>3, NextLevelDef
<1> HIDE DEF pad, m
<1>6. HashList(NextLevel(pad), l + 1)
    BY <1>4, <1>5 DEF HashList
<1> QED BY <1>5, <1>6 DEF pad, m

\* Induction over the levels, on the set of those for which something holds.
LEMMA LevelInduction ==
    ASSUME NEW n \in Nat, NEW S, 0 \in S,
           \A l \in 0 .. n - 1 : l \in S => l + 1 \in S
    PROVE  \A l \in 0 .. n : l \in S
<1> DEFINE Not == {l \in Nat : l <= n /\ l \notin S}
<1>1. SUFFICES ASSUME Not # {} PROVE FALSE
    OBVIOUS
<1>2. PICK l \in Not : \A k \in Not : l <= k
    BY <1>1, LeastNatural
<1>3. l # 0
    BY <1>2
<1>4. l - 1 \in 0 .. n - 1 /\ (l - 1) + 1 = l /\ l - 1 \in S
    BY <1>2, <1>3
<1> QED BY <1>2, <1>4

\* The leaves of a directory that fits the tree.
LeafList(a) ==
    /\ Len(a) \in 0 .. MaxSegments
    /\ a = [k \in 1 .. Len(a) |-> a[k]]
    /\ \A k \in 1 .. Len(a) : \E p : a[k] = PayloadHash(p)

\* The payload hashes of a tree are hashes, and none of them is the all-zero array.
LEMMA LeavesAreHashes ==
    ASSUME NEW a, LeafList(a), Len(a) # 0
    PROVE  HashList(a, 0)
<1>1. ASSUME NEW k \in 1 .. Len(a)
      PROVE  a[k] # ZeroHash[0] /\ a[k].is = "hash"
    <2>1. PICK p : a[k] = PayloadHash(p)
        BY DEF LeafList
    <2>2. PayloadHash(p).is = "hash" /\ ZeroWord.is = "zero"
        BY DEF PayloadHash, Blake3, ZeroWord
    <2> QED BY <2>1, <2>2, ZeroHashDef
<1>2. Len(a) \in Nat \ {0} /\ a = [k \in 1 .. Len(a) |-> a[k]]
    BY SegmentAssumption DEF LeafList
<1> QED BY <1>1, <1>2 DEF HashList

\* Positions above a leaf are positions, and in the order of the leaves.
LEMMA AboveMonotone ==
    ASSUME NEW i \in Nat, NEW j \in Nat, i <= j
    PROVE  \A l \in 0 .. MaxLevel :
                Above(i)[l] \in Nat /\ Above(j)[l] \in Nat /\ Above(i)[l] <= Above(j)[l]
<1> DEFINE S == {l \in 0 .. MaxLevel :
                    Above(i)[l] \in Nat /\ Above(j)[l] \in Nat /\ Above(i)[l] <= Above(j)[l]}
<1>1. 0 \in S
    BY AboveDef, TreeAssumption
<1>2. ASSUME NEW l \in 0 .. MaxLevel - 1, l \in S
      PROVE  l + 1 \in S
    <2>1. l + 1 \in 1 .. MaxLevel /\ l + 1 \in 0 .. MaxLevel /\ (l + 1) - 1 = l
        BY TreeAssumption
    <2>2. Above(i)[l + 1] = Above(i)[l] \div Branch /\ Above(j)[l + 1] = Above(j)[l] \div Branch
        BY <2>1, AboveDef
    <2>3. Above(i)[l] \in Nat /\ Above(j)[l] \in Nat /\ Above(i)[l] <= Above(j)[l]
        BY <1>2
    <2>4. /\ Above(i)[l] \div Branch \in Nat /\ Above(j)[l] \div Branch \in Nat
          /\ Above(i)[l] \div Branch <= Above(j)[l] \div Branch
        BY <2>3, DivBounds, DivMonotone
    <2> QED BY <2>1, <2>2, <2>4
<1>3. \A l \in 0 .. MaxLevel : l \in S
    <2> HIDE DEF S
    <2> QED BY <1>1, <1>2, LevelInduction, TreeAssumption
<1> QED BY <1>3

\* At most MaxSegments leaves have one node above them.
LEMMA OneAtTheTop ==
    ASSUME NEW n \in 1 .. MaxSegments
    PROVE  Above(n - 1)[MaxLevel] = 0
<1>1. n - 1 \in Nat /\ MaxSegments - 1 \in Nat /\ n - 1 <= MaxSegments - 1
    BY SegmentAssumption
<1>2. MaxLevel \in 0 .. MaxLevel
    BY TreeAssumption
<1>3. Above(n - 1)[MaxLevel] \in Nat /\ Above(n - 1)[MaxLevel] <= Above(MaxSegments - 1)[MaxLevel]
    BY <1>1, <1>2, AboveMonotone
<1>4. Above(MaxSegments - 1)[MaxLevel] = 0
    BY SegmentAssumption
<1> QED BY <1>3, <1>4

\* The lists of diff's loop.
LEMMA UnpaddedLevels ==
    ASSUME NEW a, LeafList(a), Len(a) # 0
    PROVE  \A l \in 0 .. MaxLevel :
                /\ HashList(Unpadded(a)[l], l)
                /\ Len(Unpadded(a)[l]) = Above(Len(a) - 1)[l] + 1
<1> DEFINE S == {l \in 0 .. MaxLevel :
                    /\ HashList(Unpadded(a)[l], l)
                    /\ Len(Unpadded(a)[l]) = Above(Len(a) - 1)[l] + 1}
<1>0. Len(a) - 1 \in Nat
    BY SegmentAssumption DEF LeafList
<1>1. 0 \in S
    BY <1>0, UnpaddedDef, AboveDef, LeavesAreHashes, TreeAssumption
<1>2. ASSUME NEW l \in 0 .. MaxLevel - 1, l \in S
      PROVE  l + 1 \in S
    <2>1. l + 1 \in 1 .. MaxLevel /\ l + 1 \in 0 .. MaxLevel /\ (l + 1) - 1 = l
        BY TreeAssumption
    <2>2. Unpadded(a)[l + 1] = NextLevel(Unpadded(a)[l])
        BY <2>1, UnpaddedDef
    <2>3. Above(Len(a) - 1)[l + 1] = Above(Len(a) - 1)[l] \div Branch
        BY <2>1, AboveDef
    <2>4. /\ HashList(Unpadded(a)[l], l)
          /\ Len(Unpadded(a)[l]) = Above(Len(a) - 1)[l] + 1
          /\ Above(Len(a) - 1)[l] \in Nat
        BY <1>0, <1>2, AboveMonotone
    <2>5. /\ HashList(Unpadded(a)[l + 1], l + 1)
          /\ Len(Unpadded(a)[l + 1]) = (Len(Unpadded(a)[l]) - 1) \div Branch + 1
        BY <2>2, <2>4, NextLevelList
    <2>6. Len(Unpadded(a)[l]) - 1 = Above(Len(a) - 1)[l]
        BY <2>4
    <2> QED BY <2>1, <2>3, <2>5, <2>6
<1>3. \A l \in 0 .. MaxLevel : l \in S
    <2> HIDE DEF S
    <2> QED BY <1>1, <1>2, LevelInduction, TreeAssumption
<1> QED BY <1>3

\* No leaves, no nodes.
LEMMA NextOfEmpty ==
    ASSUME NEW arr, Len(arr) = 0
    PROVE  Len(NextLevel(arr)) = 0
<1> DEFINE e(k) == NodeHash(Chunk(arr, k, Min({Branch, Len(arr) - (k - 1) * Branch})))
<1>1. Chunks(arr) = 0
    BY ChunksOf DEF Chunks
<1>2. NextLevel(arr) = [k \in 1 .. Chunks(arr) |-> e(k)]
    BY DEF NextLevel
<1> HIDE DEF e
<1> QED BY <1>1, <1>2

\* The tree of no leaves has no node at any level.
LEMMA UnpaddedEmpty ==
    ASSUME NEW a, Len(a) = 0
    PROVE  \A l \in 0 .. MaxLevel : Len(Unpadded(a)[l]) = 0
<1> DEFINE S == {l \in 0 .. MaxLevel : Len(Unpadded(a)[l]) = 0}
<1>1. 0 \in S
    BY UnpaddedDef, TreeAssumption
<1>2. ASSUME NEW l \in 0 .. MaxLevel - 1, l \in S
      PROVE  l + 1 \in S
    <2>1. l + 1 \in 1 .. MaxLevel /\ l + 1 \in 0 .. MaxLevel /\ (l + 1) - 1 = l
        BY TreeAssumption
    <2>2. Unpadded(a)[l + 1] = NextLevel(Unpadded(a)[l])
        BY <2>1, UnpaddedDef
    <2> QED BY <1>2, <2>1, <2>2, NextOfEmpty
<1>3. \A l \in 0 .. MaxLevel : l \in S
    <2> HIDE DEF S
    <2> QED BY <1>1, <1>2, LevelInduction, TreeAssumption
<1> QED BY <1>3

\* The lists of compute_root's loop: one of a single hash stays as it is.
LEMMA PaddedLevels ==
    ASSUME NEW a, LeafList(a), Len(a) # 0
    PROVE  \A l \in 0 .. MaxLevel :
                /\ Len(Padded(a)[l]) = Above(Len(a) - 1)[l] + 1
                /\ \E k \in 0 .. l : /\ HashList(Padded(a)[l], k)
                                     /\ Len(Padded(a)[l]) > 1 => k = l
<1> DEFINE S == {l \in 0 .. MaxLevel :
                    /\ Len(Padded(a)[l]) = Above(Len(a) - 1)[l] + 1
                    /\ \E k \in 0 .. l : /\ HashList(Padded(a)[l], k)
                                         /\ Len(Padded(a)[l]) > 1 => k = l}
<1>0. Len(a) - 1 \in Nat
    BY SegmentAssumption DEF LeafList
<1>1. 0 \in S
    <2>1. Padded(a)[0] = a /\ Above(Len(a) - 1)[0] = Len(a) - 1
        BY PaddedDef, AboveDef
    <2>2. HashList(Padded(a)[0], 0) /\ 0 \in 0 .. 0
        BY <2>1, LeavesAreHashes
    <2> QED BY <1>0, <2>1, <2>2, TreeAssumption
<1>2. ASSUME NEW l \in 0 .. MaxLevel - 1, l \in S
      PROVE  l + 1 \in S
    <2>1. l + 1 \in 1 .. MaxLevel + 1 /\ l + 1 \in 1 .. MaxLevel /\ l + 1 \in 0 .. MaxLevel
          /\ (l + 1) - 1 = l
        BY TreeAssumption
    <2>2. Padded(a)[l + 1] = IF Len(Padded(a)[l]) <= 1 THEN Padded(a)[l]
                             ELSE NextLevel(PadToBranch(Padded(a)[l], l))
        BY <2>1, PaddedDef
    <2>3. Above(Len(a) - 1)[l + 1] = Above(Len(a) - 1)[l] \div Branch
        BY <2>1, AboveDef
    <2>4. PICK k \in 0 .. l : /\ HashList(Padded(a)[l], k)
                              /\ Len(Padded(a)[l]) > 1 => k = l
        BY <1>2
    <2>5. Len(Padded(a)[l]) - 1 = Above(Len(a) - 1)[l] /\ Len(Padded(a)[l]) \in Nat \ {0}
        BY <1>0, <1>2, AboveMonotone
    <2>6. CASE Len(Padded(a)[l]) <= 1
        <3>1. Len(Padded(a)[l]) = 1
            <4> DEFINE n == Len(Padded(a)[l])
            <4>1. n \in Nat \ {0} /\ n <= 1
                BY <2>5, <2>6
            <4> HIDE DEF n
            <4>2. n = 1
                BY <4>1
            <4> QED BY <4>2 DEF n
        <3>2. 0 \div Branch = 0
            BY DivUnique, TreeAssumption
        <3>3. Above(Len(a) - 1)[l + 1] = 0
            BY <2>3, <2>5, <3>1, <3>2
        <3>4. Padded(a)[l + 1] = Padded(a)[l] /\ k \in 0 .. l + 1
            BY <2>2, <2>6
        <3>5. Len(Padded(a)[l + 1]) = Above(Len(a) - 1)[l + 1] + 1 /\ ~(Len(Padded(a)[l + 1]) > 1)
            <4> DEFINE n == Len(Padded(a)[l + 1])
            <4>1. n = 1
                BY <3>1, <3>4
            <4> HIDE DEF n
            <4>2. n = Above(Len(a) - 1)[l + 1] + 1 /\ ~(n > 1)
                BY <3>3, <4>1
            <4> QED BY <4>2 DEF n
        <3> QED BY <2>1, <2>4, <3>4, <3>5
    <2>7. CASE Len(Padded(a)[l]) > 1
        <3>1. /\ HashList(Padded(a)[l + 1], l + 1)
              /\ Len(Padded(a)[l + 1]) = (Len(Padded(a)[l]) - 1) \div Branch + 1
            BY <2>2, <2>4, <2>5, <2>7, PaddedNextList
        <3>2. l + 1 \in 0 .. l + 1
            OBVIOUS
        <3> QED BY <2>1, <2>3, <2>5, <3>1, <3>2
    <2> QED BY <2>5, <2>6, <2>7
<1>3. \A l \in 0 .. MaxLevel : l \in S
    <2> HIDE DEF S
    <2> QED BY <1>1, <1>2, LevelInduction, TreeAssumption
<1> QED BY <1>3

-----------------------------------------------------------------------------
(* Equal roots *)

\* Two nodes of the same hash have the same children (external: the hash does
\* not collide).
LEMMA NodeHashInjective ==
    ASSUME NEW s, NEW t, NodeHash(s) = NodeHash(t)
    PROVE  s = t
<1>1. NodeHash(s).of = s /\ NodeHash(t).of = t
    BY DEF NodeHash, Blake3
<1> QED BY <1>1

\* Which leaves, or nodes, are below the i-th one of the next level.
LEMMA ChildOf ==
    ASSUME NEW m \in Nat, NEW i \in Nat
    PROVE  m \div Branch = i <=> i * Branch <= m /\ m < i * Branch + Branch
BY DivBounds, DivUnique, TreeAssumption

\* A chunk is full or ends where its level does.
LEMMA ChunkCount ==
    ASSUME NEW n \in Nat \ {0}, NEW i \in Nat
    PROVE  i < (n - 1) \div Branch + 1 <=> i * Branch < n
<1> DEFINE q == (n - 1) \div Branch
<1>1. q \in Nat /\ q * Branch <= n - 1 /\ n - 1 < q * Branch + Branch
    BY DivBounds
<1>2. i * Branch \in Nat /\ q * Branch \in Nat
    BY <1>1, TreeAssumption
<1> HIDE DEF q
<1>3. CASE i <= q
    <2>1. i * Branch <= q * Branch
        BY <1>1, <1>3, TreeAssumption
    <2> QED BY <1>1, <1>2, <1>3, <2>1 DEF q
<1>4. CASE i > q
    <2>1. i = q + 1 \/ i >= q + 1
        BY <1>1, <1>4
    <2>2. (q + 1) * Branch = q * Branch + Branch /\ i * Branch >= (q + 1) * Branch
        BY <1>1, <1>4, TreeAssumption
    <2> QED BY <1>1, <1>2, <1>4, <2>2, TreeAssumption DEF q
<1> QED BY <1>1, <1>3, <1>4

\* The hashes below it.
Children(arr, i) == Chunk(arr, i + 1, Min({Branch, Len(arr) - i * Branch}))

\* The children of node k of a level that is padded.
LEMMA ChildrenDef ==
    ASSUME NEW arr, Len(arr) \in Nat \ {0}, NEW i \in Nat, i * Branch < Len(arr)
    PROVE  \E n \in 1 .. Branch :
                /\ n = IF Branch <= Len(arr) - i * Branch THEN Branch ELSE Len(arr) - i * Branch
                /\ Children(arr, i) = [j \in 1 .. n |-> arr[i * Branch + j]]
<1> DEFINE from == i * Branch
<1>1. from \in Nat /\ from < Len(arr) /\ ((i + 1) - 1) * Branch = from
    BY TreeAssumption
<1>2. Children(arr, i) = [j \in 1 .. Min({Branch, Len(arr) - from}) |-> arr[from + j]]
    BY <1>1 DEF Children, Chunk
<1> HIDE DEF from
<1>3. Min({Branch, Len(arr) - from}) = IF Branch <= Len(arr) - from THEN Branch ELSE Len(arr) - from
    BY <1>1, MinOfTwo, TreeAssumption
<1>4. Min({Branch, Len(arr) - from}) \in 1 .. Branch
    BY <1>1, <1>3, TreeAssumption
<1> QED BY <1>2, <1>3, <1>4 DEF from

\* next_level in these terms.
LEMMA NextLevelNode ==
    ASSUME NEW arr, Len(arr) \in Nat \ {0}, NEW i \in Nat
    PROVE  /\ i < Len(NextLevel(arr)) <=> i * Branch < Len(arr)
           /\ i * Branch < Len(arr) => NextLevel(arr)[i + 1] = NodeHash(Children(arr, i))
<1>1. i < Len(NextLevel(arr)) <=> i * Branch < Len(arr)
    BY NextLevelDef, ChunkCount
<1>2. ASSUME i * Branch < Len(arr)
      PROVE  NextLevel(arr)[i + 1] = NodeHash(Children(arr, i))
    <2>1. i + 1 \in 1 .. Len(NextLevel(arr)) /\ (i + 1) - 1 = i
        BY <1>1, <1>2, NextLevelDef
    <2>2. NextLevel(arr)[i + 1] =
            NodeHash(Chunk(arr, i + 1, Min({Branch, Len(arr) - ((i + 1) - 1) * Branch})))
        BY <2>1, NextLevelDef
    <2> QED BY <2>1, <2>2 DEF Children
<1> QED BY <1>1, <1>2

\* Lists of the same length with the same next level are the same.
LEMMA SameNextLevel ==
    ASSUME NEW x, NEW y, Len(x) \in Nat \ {0}, Len(y) = Len(x), NextLevel(x) = NextLevel(y)
    PROVE  \A p \in 1 .. Len(x) : x[p] = y[p]
<1> TAKE p \in 1 .. Len(x)
<1> DEFINE i == (p - 1) \div Branch
           from == i * Branch
<1>1. i \in Nat /\ from \in Nat /\ from <= p - 1 /\ p - 1 < from + Branch
    BY DivBounds, TreeAssumption
<1> HIDE DEF i
<1>2. from < Len(x)
    BY <1>1
<1>3. Children(x, i) = Children(y, i)
    BY <1>1, <1>2, NextLevelNode, NodeHashInjective
<1>4. PICK n \in 1 .. Branch :
        /\ n = IF Branch <= Len(x) - from THEN Branch ELSE Len(x) - from
        /\ Children(x, i) = [j \in 1 .. n |-> x[from + j]]
    BY <1>1, <1>2, ChildrenDef
<1>5. PICK m \in 1 .. Branch :
        /\ m = IF Branch <= Len(y) - from THEN Branch ELSE Len(y) - from
        /\ Children(y, i) = [j \in 1 .. m |-> y[from + j]]
    BY <1>1, <1>2, ChildrenDef
<1> HIDE DEF from
<1>6. p - from \in 1 .. n /\ n = m /\ from + (p - from) = p
    BY <1>1, <1>2, <1>4, <1>5
<1>7. Children(x, i)[p - from] = x[p] /\ Children(y, i)[p - from] = y[p]
    BY <1>4, <1>5, <1>6
<1> QED BY <1>3, <1>7

\* So are lists that are the same when padded.
LEMMA SamePaddedNext ==
    ASSUME NEW l \in 0 .. MaxLevel, NEW x, NEW y, HashList(x, l), HashList(y, l),
           NextLevel(PadToBranch(x, l)) = NextLevel(PadToBranch(y, l))
    PROVE  x = y
<1> DEFINE px == PadToBranch(x, l)
           py == PadToBranch(y, l)
           m == (Len(x) - 1) \div Branch + 1
           n == (Len(y) - 1) \div Branch + 1
<1>1. Len(x) \in Nat \ {0} /\ Len(y) \in Nat \ {0} /\ m \in Nat \ {0} /\ n \in Nat \ {0}
    BY DivBounds DEF HashList
<1>2. /\ Len(px) = m * Branch /\ Len(py) = n * Branch
      /\ Len(x) <= Len(px) /\ Len(y) <= Len(py) /\ Len(px) \in Nat /\ Len(py) \in Nat
    BY <1>1, PadToBranchDef, ChunksOf DEF Chunks
<1>3. Len(px) = Len(py)
    <2>1. Len(px) \in Nat \ {0} /\ (Len(px) - 1) \div Branch + 1 = m
        BY <1>1, <1>2, PaddedChunks
    <2>2. Len(py) \in Nat \ {0} /\ (Len(py) - 1) \div Branch + 1 = n
        BY <1>1, <1>2, PaddedChunks
    <2>3. Len(NextLevel(px)) = m /\ Len(NextLevel(py)) = n
        <3> HIDE DEF px, py, m, n
        <3> QED BY <2>1, <2>2, NextLevelDef
    <2> QED BY <1>2, <2>3
<1>4. \A p \in 1 .. Len(px) : px[p] = py[p]
    <2>1. Len(px) \in Nat \ {0}
        BY <1>1, <1>2
    <2> HIDE DEF px, py
    <2> QED BY <2>1, <1>3, SameNextLevel DEF px, py
<1>5. /\ \A p \in 1 .. Len(px) : px[p] = IF p <= Len(x) THEN x[p] ELSE ZeroHash[l]
      /\ \A p \in 1 .. Len(px) : py[p] = IF p <= Len(y) THEN y[p] ELSE ZeroHash[l]
    BY <1>1, <1>3, PadToBranchDef
<1> HIDE DEF px, py, m, n
<1>6. /\ \A p \in 1 .. Len(x) : x[p] # ZeroHash[l]
      /\ \A p \in 1 .. Len(y) : y[p] # ZeroHash[l]
      /\ x = [p \in 1 .. Len(x) |-> x[p]] /\ y = [p \in 1 .. Len(y) |-> y[p]]
    BY DEF HashList
<1>7. Len(x) <= Len(y)
    <2>1. SUFFICES ASSUME Len(y) < Len(x) PROVE FALSE
        BY <1>1
    <2>2. Len(x) \in 1 .. Len(px) /\ Len(x) \in 1 .. Len(x)
        BY <1>1, <1>2
    <2> QED BY <1>1, <1>4, <1>5, <1>6, <2>1, <2>2
<1>8. Len(y) <= Len(x)
    <2>1. SUFFICES ASSUME Len(x) < Len(y) PROVE FALSE
        BY <1>1
    <2>2. Len(y) \in 1 .. Len(px) /\ Len(y) \in 1 .. Len(y)
        BY <1>1, <1>2, <1>3
    <2> QED BY <1>1, <1>4, <1>5, <1>6, <2>1, <2>2
<1>9. \A p \in 1 .. Len(x) : x[p] = y[p]
    BY <1>1, <1>2, <1>4, <1>5, <1>7, <1>8
<1> QED BY <1>1, <1>6, <1>7, <1>8, <1>9

\* A list with no element is the empty one.
LEMMA NoLeaves ==
    ASSUME NEW a, LeafList(a)
    PROVE  Len(a) = 0 <=> a = <<>>
<1>1. ASSUME Len(a) = 0 PROVE a = <<>>
    <2>1. a = [k \in 1 .. 0 |-> a[k]]
        BY <1>1 DEF LeafList
    <2> QED BY <2>1
<1> QED BY <1>1

\* compute_root ends with one hash: the first of a list of one.
LEMMA RootIsOne ==
    ASSUME NEW a, LeafList(a), Len(a) # 0
    PROVE  /\ ComputeRoot(a) = Padded(a)[MaxLevel][1]
           /\ Len(Padded(a)[MaxLevel]) = 1
           /\ Padded(a)[MaxLevel] = [k \in 1 .. 1 |-> ComputeRoot(a)]
           /\ ComputeRoot(a).is = "hash"
<1>0. Len(a) \in 1 .. MaxSegments /\ a # <<>>
    BY NoLeaves, SegmentAssumption DEF LeafList
<1>1. MaxLevel \in 0 .. MaxLevel /\ MaxLevel + 1 \in 1 .. MaxLevel + 1 /\ (MaxLevel + 1) - 1 = MaxLevel
    BY TreeAssumption
<1>2. PICK k \in 0 .. MaxLevel : HashList(Padded(a)[MaxLevel], k)
    BY <1>1, PaddedLevels
<1>3. Len(Padded(a)[MaxLevel]) = Above(Len(a) - 1)[MaxLevel] + 1
    BY <1>1, PaddedLevels
<1>4. Len(Padded(a)[MaxLevel]) = 1
    BY <1>0, <1>3, OneAtTheTop
<1>5. Padded(a)[MaxLevel + 1] = Padded(a)[MaxLevel]
    <2>1. Padded(a)[MaxLevel + 1] =
            IF Len(Padded(a)[MaxLevel]) <= 1 THEN Padded(a)[MaxLevel]
            ELSE NextLevel(PadToBranch(Padded(a)[MaxLevel], MaxLevel))
        BY <1>1, PaddedDef
    <2> DEFINE n == Len(Padded(a)[MaxLevel])
    <2>2. n = 1
        BY <1>4
    <2> HIDE DEF n
    <2>3. n <= 1
        BY <2>2
    <2> QED BY <2>1, <2>3 DEF n
<1>6. ComputeRoot(a) = Padded(a)[MaxLevel][1]
    BY <1>0, <1>5 DEF ComputeRoot
<1>7. Padded(a)[MaxLevel] = [j \in 1 .. 1 |-> Padded(a)[MaxLevel][j]]
    BY <1>2, <1>4 DEF HashList
<1>8. Padded(a)[MaxLevel] = [j \in 1 .. 1 |-> ComputeRoot(a)]
    <2> DEFINE x == Padded(a)[MaxLevel]
    <2>1. x = [j \in 1 .. 1 |-> x[j]] /\ ComputeRoot(a) = x[1]
        BY <1>6, <1>7
    <2> HIDE DEF x
    <2>2. x = [j \in 1 .. 1 |-> ComputeRoot(a)]
        BY <2>1
    <2> QED BY <2>2 DEF x
<1>9. Padded(a)[MaxLevel][1].is = "hash"
    BY <1>2, <1>4 DEF HashList
<1> QED BY <1>4, <1>6, <1>8, <1>9

\* Both lists have one hash, or both have more.
Abreast(x, y) == Len(x) <= 1 <=> Len(y) <= 1

\* Lists of two trees that a round makes equal were equal before it, if it is a
\* round of both loops or of none.
LEMMA RoundInjective ==
    ASSUME NEW a, NEW b, LeafList(a), LeafList(b), Len(a) # 0, Len(b) # 0,
           NEW l \in 0 .. MaxLevel - 1, Padded(a)[l + 1] = Padded(b)[l + 1],
           Abreast(Padded(a)[l], Padded(b)[l])
    PROVE  Padded(a)[l] = Padded(b)[l]
<1> DEFINE Round(x) == IF Len(x) <= 1 THEN x ELSE NextLevel(PadToBranch(x, l))
           Level(x) == \E k \in 0 .. l : HashList(x, k) /\ (Len(x) > 1 => k = l)
<1>1. l + 1 \in 1 .. MaxLevel + 1 /\ (l + 1) - 1 = l /\ l \in 0 .. MaxLevel
    BY TreeAssumption
<1>2. Padded(a)[l + 1] = Round(Padded(a)[l]) /\ Padded(b)[l + 1] = Round(Padded(b)[l])
    BY <1>1, PaddedDef
<1>3. Level(Padded(a)[l]) /\ Level(Padded(b)[l])
    BY <1>1, PaddedLevels
<1>4. ASSUME NEW x, NEW y, Level(x), Level(y), Len(x) > 1, Len(y) > 1, Round(x) = Round(y)
      PROVE  x = y
    <2>1. HashList(x, l) /\ HashList(y, l)
        BY <1>4
    <2>2. NextLevel(PadToBranch(x, l)) = NextLevel(PadToBranch(y, l))
        <3>1. Len(x) \in Nat /\ Len(y) \in Nat
            BY <2>1 DEF HashList
        <3> QED BY <1>4, <3>1
    <2> QED BY <1>1, <2>1, <2>2, SamePaddedNext
<1>5. ASSUME NEW x, Level(x)
      PROVE  Len(x) \in Nat
    BY <1>5 DEF HashList
<1> DEFINE x == Padded(a)[l]
           y == Padded(b)[l]
<1>6. Level(x) /\ Level(y) /\ Round(x) = Round(y) /\ (Len(x) <= 1 <=> Len(y) <= 1)
    BY <1>2, <1>3 DEF Abreast
<1>7. Len(x) \in Nat /\ Len(y) \in Nat
    <2> HIDE DEF Level
    <2> QED BY <1>5, <1>6
<1> HIDE DEF x, y
<1>8. Len(x) <= 1 /\ Len(y) <= 1 => x = y
    BY <1>6
<1> HIDE DEF Level, Round
<1> QED BY <1>4, <1>6, <1>7, <1>8 DEF x, y

\* The root that compute_root leaves decides whether two trees whose roots are of
\* one level have the same leaves, for lists of any length that the levels have
\* room for and payloads that may hold hashes: the zero hashes that a level is
\* padded with are told from every leaf and node of that level.  A tree without
\* leaves is told from every other.
THEOREM SameRoot ==
    ASSUME NEW a, NEW b, LeafList(a), LeafList(b), Comparable(a, b)
    PROVE  ComputeRoot(a) = ComputeRoot(b) <=> a = b
<1>1. ASSUME NEW x, NEW y, LeafList(x), LeafList(y), Len(x) = 0, Len(y) # 0
      PROVE  ComputeRoot(x) # ComputeRoot(y)
    <2>1. ComputeRoot(x) = ZeroWord
        BY <1>1, NoLeaves, ZeroHashDef DEF ComputeRoot
    <2>2. ComputeRoot(y).is = "hash" /\ ZeroWord.is = "zero"
        BY <1>1, RootIsOne DEF ZeroWord
    <2> QED BY <2>1, <2>2
<1>2. ASSUME Len(a) # 0, Len(b) # 0, ComputeRoot(a) = ComputeRoot(b)
      PROVE  a = b
    <2> DEFINE S == {l \in Nat : l <= MaxLevel /\ Padded(a)[l] = Padded(b)[l]}
    <2>1. MaxLevel \in S
        BY <1>2, RootIsOne, TreeAssumption
    <2>2. PICK l \in S : \A k \in S : l <= k
        BY <2>1, LeastNatural
    <2>3. l = 0
        <3>1. SUFFICES ASSUME l # 0 PROVE FALSE
            OBVIOUS
        <3>2. l - 1 \in 0 .. MaxLevel - 1 /\ (l - 1) + 1 = l /\ Padded(a)[l] = Padded(b)[l]
            BY <2>2, <3>1, TreeAssumption
        <3>3. Padded(a)[l - 1] = Padded(b)[l - 1]
            <4>1. l - 1 \in 0 .. MaxLevel
                BY <3>2, TreeAssumption
            <4>2. Abreast(Padded(a)[l - 1], Padded(b)[l - 1])
                BY <1>2, <4>1, NoLeaves DEF Comparable, Abreast
            <4> QED BY <1>2, <3>2, <4>2, RoundInjective
        <3>4. l - 1 \in S
            BY <3>2, <3>3, TreeAssumption
        <3> QED BY <2>2, <3>4
    <2> QED BY <2>2, <2>3, PaddedDef
<1>3. ASSUME Len(a) = 0, Len(b) = 0
      PROVE  a = b
    BY <1>3, NoLeaves
<1> QED BY <1>1, <1>2, <1>3

-----------------------------------------------------------------------------
(* The diff *)

\* A list of diff's loop, which is empty when the tree is.
IsLevel(arr, l) == HashList(arr, l) \/ Len(arr) = 0

\* Past the end of a list there is padding.
LEMMA HashAtDef ==
    ASSUME NEW arr, Len(arr) \in Nat, NEW l, NEW i \in Nat
    PROVE  HashAt(arr, l, i) = IF i < Len(arr) THEN arr[i + 1] ELSE ZeroHash[l]
<1> DEFINE pad == PadToBranch(arr, l)
<1>1. Len(pad) \in Nat /\ Len(arr) <= Len(pad)
    BY PadToBranchDef
<1>2. i < Len(pad) => pad[i + 1] = IF i + 1 <= Len(arr) THEN arr[i + 1] ELSE ZeroHash[l]
    BY PadToBranchDef
<1>3. HashAt(arr, l, i) = IF i < Len(pad) THEN pad[i + 1] ELSE ZeroHash[l]
    BY DEF HashAt
<1> HIDE DEF pad
<1> QED BY <1>1, <1>2, <1>3

\* The hash at a position of the next level: of the children, if there are any.
LEMMA ParentAt ==
    ASSUME NEW l \in 0 .. MaxLevel - 1, NEW arr, IsLevel(arr, l), NEW i \in Nat
    PROVE  /\ i * Branch < Len(arr) =>
                /\ HashAt(NextLevel(arr), l + 1, i) = NodeHash(Children(arr, i))
                /\ NodeHash(Children(arr, i)) # ZeroHash[l + 1]
           /\ ~(i * Branch < Len(arr)) => HashAt(NextLevel(arr), l + 1, i) = ZeroHash[l + 1]
<1>1. CASE Len(arr) = 0
    <2>1. i * Branch \in Nat
        BY TreeAssumption
    <2>2. Len(NextLevel(arr)) = 0
        BY <1>1, NextOfEmpty
    <2>3. HashAt(NextLevel(arr), l + 1, i) = ZeroHash[l + 1]
        BY <2>2, HashAtDef
    <2> QED BY <1>1, <2>1, <2>3
<1>2. CASE Len(arr) # 0
    <2>1. Len(arr) \in Nat \ {0} /\ HashList(NextLevel(arr), l + 1)
        BY <1>2, NextLevelList DEF IsLevel, HashList
    <2>2. Len(NextLevel(arr)) \in Nat
        BY <2>1 DEF HashList
    <2>3. i < Len(NextLevel(arr)) <=> i * Branch < Len(arr)
        BY <2>1, NextLevelNode
    <2>4. i < Len(NextLevel(arr)) => NextLevel(arr)[i + 1] # ZeroHash[l + 1]
        BY <2>1, <2>2 DEF HashList
    <2>5. i * Branch < Len(arr) => NextLevel(arr)[i + 1] = NodeHash(Children(arr, i))
        BY <2>1, NextLevelNode
    <2>6. HashAt(NextLevel(arr), l + 1, i) =
            IF i < Len(NextLevel(arr)) THEN NextLevel(arr)[i + 1] ELSE ZeroHash[l + 1]
        BY <2>2, HashAtDef
    <2> QED BY <2>3, <2>4, <2>5, <2>6
<1> QED BY <1>1, <1>2

\* Nodes with the same hash have the same hashes below them,
LEMMA SameNode ==
    ASSUME NEW l \in 0 .. MaxLevel - 1, NEW x, NEW y, IsLevel(x, l), IsLevel(y, l), NEW i \in Nat,
           HashAt(NextLevel(x), l + 1, i) = HashAt(NextLevel(y), l + 1, i),
           NEW m \in Nat, m \div Branch = i
    PROVE  HashAt(x, l, m) = HashAt(y, l, m)
<1> DEFINE from == i * Branch
<1>1. from \in Nat /\ from <= m /\ m < from + Branch
    BY ChildOf, TreeAssumption
<1>2. Len(x) \in Nat /\ Len(y) \in Nat
    BY DEF IsLevel, HashList
<1>3. from < Len(x) <=> from < Len(y)
    BY ParentAt
<1>4. CASE ~(from < Len(x))
    <2>1. ~(m < Len(x)) /\ ~(m < Len(y))
        <3> HIDE DEF from
        <3> QED BY <1>1, <1>2, <1>3, <1>4
    <2> QED BY <1>2, <2>1, HashAtDef
<1>5. CASE from < Len(x)
    <2>1. Children(x, i) = Children(y, i)
        BY <1>3, <1>5, ParentAt, NodeHashInjective
    <2>2. PICK n \in 1 .. Branch :
            /\ n = IF Branch <= Len(x) - from THEN Branch ELSE Len(x) - from
            /\ Children(x, i) = [j \in 1 .. n |-> x[from + j]]
        BY <1>1, <1>2, <1>5, ChildrenDef
    <2>3. PICK k \in 1 .. Branch :
            /\ k = IF Branch <= Len(y) - from THEN Branch ELSE Len(y) - from
            /\ Children(y, i) = [j \in 1 .. k |-> y[from + j]]
        BY <1>1, <1>2, <1>3, <1>5, ChildrenDef
    <2> HIDE DEF from
    <2>4. n = k
        <3>1. 1 .. n = 1 .. k
            BY <2>1, <2>2, <2>3
        <3>2. n \in 1 .. n /\ k \in 1 .. k
            OBVIOUS
        <3> QED BY <3>1, <3>2
    <2>5. (m < Len(x) <=> m - from < n) /\ (m < Len(y) <=> m - from < n)
        <3> DEFINE u == Len(x)
                   v == Len(y)
        <3>1. u \in Nat /\ v \in Nat /\ from < u /\ from < v
            BY <1>2, <1>3, <1>5 DEF from
        <3>2. n = IF Branch <= u - from THEN Branch ELSE u - from
            BY <2>2
        <3>3. n = IF Branch <= v - from THEN Branch ELSE v - from
            BY <2>3, <2>4
        <3> HIDE DEF u, v
        <3>4. (m < u <=> m - from < n) /\ (m < v <=> m - from < n)
            BY <1>1, <3>1, <3>2, <3>3, TreeAssumption
        <3> QED BY <3>4 DEF u, v
    <2>6. CASE m - from < n
        <3>1. (m - from) + 1 \in 1 .. n /\ from + ((m - from) + 1) = m + 1
            BY <1>1, <2>6
        <3>2. x[m + 1] = y[m + 1]
            <4> DEFINE j == (m - from) + 1
            <4>1. j \in 1 .. n /\ from + j = m + 1
                BY <3>1
            <4> HIDE DEF j
            <4>2. Children(x, i)[j] = x[from + j]
                BY <2>2, <4>1
            <4>3. Children(y, i)[j] = y[from + j]
                BY <2>3, <2>4, <4>1
            <4> QED BY <2>1, <4>1, <4>2, <4>3
        <3> QED BY <1>2, <2>5, <2>6, <3>2, HashAtDef
    <2>7. CASE ~(m - from < n)
        BY <1>2, <2>5, <2>7, HashAtDef
    <2> QED BY <2>6, <2>7
<1> QED BY <1>4, <1>5

\* Where the shorter of two chunks ends, the longer goes on.
LEMMA ShorterChunk ==
    ASSUME NEW from \in Nat, NEW u \in Nat, NEW v \in Nat,
           NEW n \in 1 .. Branch, n = IF Branch <= u - from THEN Branch ELSE u - from,
           NEW k \in 1 .. Branch, k = IF Branch <= v - from THEN Branch ELSE v - from,
           n < k
    PROVE  from + n = u /\ from + n < v
BY TreeAssumption

\* and nodes with the same hashes below them have the same hash.
LEMMA SameChildren ==
    ASSUME NEW l \in 0 .. MaxLevel - 1, NEW x, NEW y, IsLevel(x, l), IsLevel(y, l), NEW i \in Nat,
           \A m \in Nat : m \div Branch = i => HashAt(x, l, m) = HashAt(y, l, m)
    PROVE  HashAt(NextLevel(x), l + 1, i) = HashAt(NextLevel(y), l + 1, i)
<1> DEFINE from == i * Branch
<1>0. from \in Nat
    BY TreeAssumption
<1>1. \A m \in Nat : from <= m /\ m < from + Branch => HashAt(x, l, m) = HashAt(y, l, m)
    BY ChildOf
<1>2. Len(x) \in Nat /\ Len(y) \in Nat
    BY DEF IsLevel, HashList
<1>3. \A m \in Nat : /\ HashAt(x, l, m) = IF m < Len(x) THEN x[m + 1] ELSE ZeroHash[l]
                     /\ HashAt(y, l, m) = IF m < Len(y) THEN y[m + 1] ELSE ZeroHash[l]
    BY <1>2, HashAtDef
<1>4. \A m \in Nat : /\ m < Len(x) => x[m + 1] # ZeroHash[l]
                     /\ m < Len(y) => y[m + 1] # ZeroHash[l]
    BY <1>2 DEF IsLevel, HashList
<1>5. \A m \in Nat : from <= m /\ m < from + Branch =>
            /\ m < Len(x) <=> m < Len(y)
            /\ m < Len(x) => x[m + 1] = y[m + 1]
    <2> HIDE DEF from
    <2> QED BY <1>1, <1>3, <1>4
<1>6. from < Len(x) <=> from < Len(y)
    <2> HIDE DEF from
    <2> QED BY <1>0, <1>5, TreeAssumption
<1>7. CASE ~(from < Len(x))
    BY <1>6, <1>7, ParentAt
<1>8. CASE from < Len(x)
    <2>1. PICK n \in 1 .. Branch :
            /\ n = IF Branch <= Len(x) - from THEN Branch ELSE Len(x) - from
            /\ Children(x, i) = [j \in 1 .. n |-> x[from + j]]
        BY <1>0, <1>2, <1>8, ChildrenDef
    <2>2. PICK k \in 1 .. Branch :
            /\ k = IF Branch <= Len(y) - from THEN Branch ELSE Len(y) - from
            /\ Children(y, i) = [j \in 1 .. k |-> y[from + j]]
        BY <1>0, <1>2, <1>6, <1>8, ChildrenDef
    <2>3. Children(x, i) = Children(y, i)
        <3> HIDE DEF from
        <3>1. n = k
            <4>1. ~(n < k)
                <5>1. SUFFICES ASSUME n < k PROVE FALSE
                    OBVIOUS
                <5>2. from + n \in Nat /\ from <= from + n /\ from + n < from + Branch
                    BY <1>0, <5>1, TreeAssumption
                <5>3. from + n = Len(x) /\ from + n < Len(y)
                    BY <1>0, <1>2, <2>1, <2>2, <5>1, ShorterChunk
                <5> QED BY <1>2, <1>5, <5>2, <5>3
            <4>2. ~(k < n)
                <5>1. SUFFICES ASSUME k < n PROVE FALSE
                    OBVIOUS
                <5>2. from + k \in Nat /\ from <= from + k /\ from + k < from + Branch
                    BY <1>0, <5>1, TreeAssumption
                <5>3. from + k = Len(y) /\ from + k < Len(x)
                    BY <1>0, <1>2, <2>1, <2>2, <5>1, ShorterChunk
                <5> QED BY <1>2, <1>5, <5>2, <5>3
            <4> QED BY <4>1, <4>2
        <3>2. ASSUME NEW j \in 1 .. n
              PROVE  x[from + j] = y[from + j]
            <4>1. from + (j - 1) \in Nat /\ from <= from + (j - 1) /\ from + (j - 1) < from + Branch
                BY <1>0, TreeAssumption
            <4>2. (from + (j - 1)) + 1 = from + j /\ from + (j - 1) < Len(x)
                BY <1>0, <1>2, <2>1
            <4> QED BY <1>5, <4>1, <4>2
        <3> QED BY <2>1, <2>2, <3>1, <3>2
    <2> QED BY <1>6, <1>8, <2>3, ParentAt
<1> QED BY <1>7, <1>8

\* The leaves that differ or that only one list has.
Changed(a, b) ==
    {i \in 0 .. Max({Len(a), Len(b)}) - 1 :
        i >= Len(a) \/ i >= Len(b) \/ a[i + 1] # b[i + 1]}

Differ(a, b, l, i) == HashAt(Unpadded(a)[l], l, i) # HashAt(Unpadded(b)[l], l, i)

\* The lists that diff compares are such lists at every level.
LEMMA UnpaddedIsLevel ==
    ASSUME NEW a, LeafList(a), NEW l \in 0 .. MaxLevel
    PROVE  IsLevel(Unpadded(a)[l], l)
BY UnpaddedLevels, UnpaddedEmpty DEF IsLevel

\* At the level of the leaves they are the positions with different hashes,
LEMMA ChangedLeaves ==
    ASSUME NEW a, NEW b, LeafList(a), LeafList(b)
    PROVE  /\ Changed(a, b) \subseteq Nat
           /\ \A i \in Nat : Differ(a, b, 0, i) <=> i \in Changed(a, b)
<1>1. Len(a) \in Nat /\ Len(b) \in Nat
    BY SegmentAssumption DEF LeafList
<1> DEFINE n == Max({Len(a), Len(b)})
<1>2. n = IF Len(a) <= Len(b) THEN Len(b) ELSE Len(a)
    BY <1>1, MaxOfTwo
<1> HIDE DEF n
<1>3. Changed(a, b) \subseteq Nat
    BY <1>1, <1>2 DEF Changed, n
<1>4. ASSUME NEW i \in Nat
      PROVE  Differ(a, b, 0, i) <=> i \in Changed(a, b)
    <2>1. /\ HashAt(Unpadded(a)[0], 0, i) = IF i < Len(a) THEN a[i + 1] ELSE ZeroHash[0]
          /\ HashAt(Unpadded(b)[0], 0, i) = IF i < Len(b) THEN b[i + 1] ELSE ZeroHash[0]
        BY <1>1, UnpaddedDef, HashAtDef
    <2>2. /\ i < Len(a) => a[i + 1] # ZeroHash[0]
          /\ i < Len(b) => b[i + 1] # ZeroHash[0]
        BY <1>1, LeavesAreHashes DEF HashList
    <2>3. Differ(a, b, 0, i) <=>
            (i < Len(a) \/ i < Len(b)) /\ (i >= Len(a) \/ i >= Len(b) \/ a[i + 1] # b[i + 1])
        BY <1>1, <2>1, <2>2 DEF Differ
    <2>4. i \in 0 .. n - 1 <=> i < Len(a) \/ i < Len(b)
        BY <1>1, <1>2
    <2> QED BY <2>3, <2>4 DEF Changed, n
<1> QED BY <1>3, <1>4

\* and at every level the nodes above them are.
LEMMA ChangedNodes ==
    ASSUME NEW a, NEW b, LeafList(a), LeafList(b)
    PROVE  \A l \in 0 .. MaxLevel : \A i \in Nat :
                Differ(a, b, l, i) <=> \E m \in Changed(a, b) : Above(m)[l] = i
<1> DEFINE S == {l \in 0 .. MaxLevel : \A i \in Nat :
                    Differ(a, b, l, i) <=> \E m \in Changed(a, b) : Above(m)[l] = i}
<1>1. 0 \in S
    BY ChangedLeaves, AboveDef, TreeAssumption
<1>2. ASSUME NEW l \in 0 .. MaxLevel - 1, l \in S
      PROVE  l + 1 \in S
    <2>1. l + 1 \in 1 .. MaxLevel /\ l + 1 \in 0 .. MaxLevel /\ (l + 1) - 1 = l /\ l \in 0 .. MaxLevel
        BY TreeAssumption
    <2>2. Unpadded(a)[l + 1] = NextLevel(Unpadded(a)[l]) /\ Unpadded(b)[l + 1] = NextLevel(Unpadded(b)[l])
        BY <2>1, UnpaddedDef
    <2>3. IsLevel(Unpadded(a)[l], l) /\ IsLevel(Unpadded(b)[l], l)
        BY <2>1, UnpaddedIsLevel
    <2>4. \A m \in Changed(a, b) : Above(m)[l + 1] = Above(m)[l] \div Branch /\ Above(m)[l] \in Nat
        <3> TAKE m \in Changed(a, b)
        <3>1. m \in Nat
            BY ChangedLeaves
        <3>2. Above(m)[l] \in Nat
            BY <2>1, <3>1, AboveMonotone
        <3>3. Above(m)[l + 1] = Above(m)[l] \div Branch
            BY <2>1, AboveDef
        <3> QED BY <3>2, <3>3
    <2>5. ASSUME NEW i \in Nat
          PROVE  Differ(a, b, l + 1, i) <=> \E m \in Nat : m \div Branch = i /\ Differ(a, b, l, m)
        BY <2>2, <2>3, SameNode, SameChildren DEF Differ
    <2>6. \A i \in Nat : Differ(a, b, l, i) <=> \E m \in Changed(a, b) : Above(m)[l] = i
        BY <1>2
    <2>7. ASSUME NEW i \in Nat
          PROVE  Differ(a, b, l + 1, i) <=> \E m \in Changed(a, b) : Above(m)[l + 1] = i
        BY <2>4, <2>5, <2>6
    <2> QED BY <2>1, <2>7
<1>3. \A l \in 0 .. MaxLevel : l \in S
    <2> HIDE DEF S
    <2> QED BY <1>1, <1>2, LevelInduction, TreeAssumption
<1> QED BY <1>3

\* The levels diff reaches: those below the first with one node.
LEMMA LevelsReached ==
    ASSUME NEW a, NEW b, LeafList(a), LeafList(b), a # b
    PROVE  /\ Max({Len(a), Len(b)}) \in Nat \ {0}
           /\ Compared(a, b) = {k \in 0 .. MaxLevel :
                                    k > 0 => Above(Max({Len(a), Len(b)}) - 1)[k - 1] > 0}
<1> DEFINE n == Max({Len(a), Len(b)})
<1>1. Len(a) \in Nat /\ Len(b) \in Nat
    BY SegmentAssumption DEF LeafList
<1>2. n = IF Len(a) <= Len(b) THEN Len(b) ELSE Len(a)
    BY <1>1, MaxOfTwo
<1>3. ~(Len(a) = 0 /\ Len(b) = 0)
    BY NoLeaves
<1> HIDE DEF n
<1>4. n \in Nat \ {0} /\ Len(a) <= n /\ Len(b) <= n /\ (n = Len(a) \/ n = Len(b))
    BY <1>1, <1>2, <1>3
<1>5. ASSUME NEW c, LeafList(c), Len(c) \in Nat, Len(c) <= n, NEW l \in 0 .. MaxLevel
      PROVE  /\ Len(Unpadded(c)[l]) > 1 => Above(n - 1)[l] > 0
             /\ Len(c) = n /\ Above(n - 1)[l] > 0 => Len(Unpadded(c)[l]) > 1
    <2>1. CASE Len(c) = 0
        <3>1. Len(Unpadded(c)[l]) = 0 /\ n # Len(c)
            BY <1>4, <2>1, UnpaddedEmpty
        <3> QED BY <3>1
    <2>2. CASE Len(c) # 0
        <3>1. /\ Len(c) - 1 \in Nat /\ n - 1 \in Nat /\ Len(c) - 1 <= n - 1
              /\ Len(Unpadded(c)[l]) = Above(Len(c) - 1)[l] + 1
            BY <1>4, <1>5, <2>2, UnpaddedLevels
        <3>2. /\ Above(Len(c) - 1)[l] \in Nat /\ Above(n - 1)[l] \in Nat
              /\ Above(Len(c) - 1)[l] <= Above(n - 1)[l]
            BY <3>1, AboveMonotone
        <3> DEFINE u == Above(Len(c) - 1)[l]
                   v == Above(n - 1)[l]
                   w == Len(Unpadded(c)[l])
        <3>3. u \in Nat /\ v \in Nat /\ u <= v /\ w = u + 1 /\ (Len(c) = n => u = v)
            BY <3>1, <3>2
        <3> HIDE DEF u, v, w
        <3>4. (w > 1 => v > 0) /\ (Len(c) = n /\ v > 0 => w > 1)
            BY <3>3
        <3> QED BY <3>4 DEF u, v, w
    <2> QED BY <2>1, <2>2
<1>6. ASSUME NEW k \in 0 .. MaxLevel, k > 0
      PROVE  (Len(Unpadded(a)[k - 1]) > 1 \/ Len(Unpadded(b)[k - 1]) > 1)
                <=> Above(n - 1)[k - 1] > 0
    <2>1. k - 1 \in 0 .. MaxLevel
        BY <1>6, TreeAssumption
    <2> QED BY <1>1, <1>4, <1>5, <2>1
<1> QED BY <1>4, <1>6 DEF Compared, n

\* What diff returns.
LEMMA DiffMember ==
    ASSUME NEW a, NEW b, LeafList(a), LeafList(b), a # b, NEW p
    PROVE  p \in Diff(a, b) <=>
                \E l \in Compared(a, b) : \E i \in Nat : Differ(a, b, l, i) /\ p = <<l, i>>
<1> DEFINE Width(l) == DiffWidth(Unpadded(a)[l], Unpadded(b)[l])
<1>1. p \in Diff(a, b) <=>
        \E l \in Compared(a, b) : \E i \in 0 .. Width(l) - 1 :
            Differ(a, b, l, i) /\ p = <<l, i>>
    BY DEF Diff, Differ
<1>2. ASSUME NEW l \in Compared(a, b), NEW i \in Nat, Differ(a, b, l, i)
      PROVE  i \in 0 .. Width(l) - 1
    <2>1. l \in 0 .. MaxLevel
        BY DEF Compared
    <2> DEFINE x == Unpadded(a)[l]
               y == Unpadded(b)[l]
    <2>2. Len(x) \in Nat /\ Len(y) \in Nat
        BY <2>1, UnpaddedIsLevel DEF IsLevel, HashList
    <2>3. i < Len(x) \/ i < Len(y)
        BY <1>2, <2>2, HashAtDef DEF Differ
    <2> HIDE DEF x, y
    <2>4. /\ Chunks(x) * Branch \in Nat /\ Len(x) <= Chunks(x) * Branch
          /\ Chunks(y) * Branch \in Nat /\ Len(y) <= Chunks(y) * Branch
        BY <2>2, PadToBranchDef
    <2>5. Chunks(x) \in Nat /\ Chunks(y) \in Nat
        <3>1. ASSUME NEW n \in Nat
              PROVE  (n + Branch - 1) \div Branch \in Nat
            BY DivBounds, TreeAssumption
        <3> QED BY <2>2, <3>1 DEF Chunks
    <2>6. Max({Chunks(x), Chunks(y)}) = IF Chunks(x) <= Chunks(y) THEN Chunks(y) ELSE Chunks(x)
        BY <2>5, MaxOfTwo
    <2>7. /\ DiffWidth(x, y) \in Nat /\ DiffWidth(x, y) >= Chunks(x) * Branch
          /\ DiffWidth(x, y) >= Chunks(y) * Branch
        BY <2>4, <2>5, <2>6, TreeAssumption DEF DiffWidth
    <2>8. i \in 0 .. DiffWidth(x, y) - 1
        <3> DEFINE u == Chunks(x) * Branch
                   v == Chunks(y) * Branch
                   w == DiffWidth(x, y)
        <3>1. /\ u \in Nat /\ v \in Nat /\ w \in Nat /\ w >= u /\ w >= v
              /\ Len(x) <= u /\ Len(y) <= v
            BY <2>4, <2>7
        <3> HIDE DEF u, v, w
        <3>2. i \in 0 .. w - 1
            BY <2>2, <2>3, <3>1
        <3> QED BY <3>2 DEF w
    <2> QED BY <2>8 DEF x, y
<1>3. \A l \in Compared(a, b) : \A i \in 0 .. Width(l) - 1 : i \in Nat
    OBVIOUS
<1> HIDE DEF Width
<1> QED BY <1>1, <1>2, <1>3

\* At each level diff reaches, the nodes above the leaves that differ: what it
\* returns for two lists of leaves.
NodesAbove(a, b) ==
    {<<n, Above(i)[n]>> :
        n \in {k \in 0 .. MaxLevel : k > 0 => Above(Max({Len(a), Len(b)}) - 1)[k - 1] > 0},
        i \in Changed(a, b)}

\* diff returns, at every level it reaches, the nodes above a leaf that differs
\* or that one of the two lists does not have, and nothing else.
THEOREM DiffOfLists ==
    ASSUME NEW a, NEW b, LeafList(a), LeafList(b)
    PROVE  Diff(a, b) = NodesAbove(a, b)
<1>1. CASE a = b
    <2>1. Len(a) \in Nat
        BY SegmentAssumption DEF LeafList
    <2>2. Max({Len(a), Len(b)}) = Len(a)
        BY <1>1, <2>1, MaxOfTwo
    <2>3. Changed(a, b) = {}
        BY <1>1, <2>1, <2>2 DEF Changed
    <2>4. Diff(a, b) = {}
        BY <1>1 DEF Diff
    <2> QED BY <2>3, <2>4 DEF NodesAbove
<1>2. CASE a # b
    <2> DEFINE Levels == {k \in 0 .. MaxLevel :
                            k > 0 => Above(Max({Len(a), Len(b)}) - 1)[k - 1] > 0}
    <2>1. Compared(a, b) = Levels /\ Levels \subseteq 0 .. MaxLevel
        BY <1>2, LevelsReached
    <2> HIDE DEF Levels
    <2>2. ASSUME NEW p
          PROVE  p \in Diff(a, b) <=>
                    \E n \in Levels : \E i \in Changed(a, b) : p = <<n, Above(i)[n]>>
        <3>1. p \in Diff(a, b) <=> \E l \in Levels : \E i \in Nat : Differ(a, b, l, i) /\ p = <<l, i>>
            <4>1. p \in Diff(a, b) <=>
                    \E l \in Compared(a, b) : \E i \in Nat : Differ(a, b, l, i) /\ p = <<l, i>>
                BY <1>2, DiffMember
            <4> QED BY <2>1, <4>1
        <3>2. \A l \in Levels : \A i \in Nat :
                Differ(a, b, l, i) <=> \E m \in Changed(a, b) : Above(m)[l] = i
            BY <2>1, ChangedNodes
        <3>3. \A m \in Changed(a, b) : \A l \in Levels : Above(m)[l] \in Nat
            BY <2>1, ChangedLeaves, AboveMonotone
        <3> QED BY <3>1, <3>2, <3>3
    <2>3. Diff(a, b) = {<<n, Above(i)[n]>> : n \in Levels, i \in Changed(a, b)}
        <3> DEFINE R == {<<n, Above(i)[n]>> : n \in Levels, i \in Changed(a, b)}
        <3>1. \A p : p \in R <=> \E n \in Levels : \E i \in Changed(a, b) : p = <<n, Above(i)[n]>>
            OBVIOUS
        <3> HIDE DEF R
        <3>2. \A p : p \in R <=> p \in Diff(a, b)
            BY <2>2, <3>1
        <3>3. R = Diff(a, b)
            BY <3>2
        <3> QED BY <3>3 DEF R
    <2> QED BY <2>3 DEF Levels, NodesAbove
<1> QED BY <1>1, <1>2

-----------------------------------------------------------------------------
(* The order of the segments *)

Rank(S, m) == Cardinality({n \in S : n.index <= m.index})

\* A directory holds finitely many segments.
LEMMA DirectoryFinite ==
    ASSUME NEW S, IsDirectory(S)
    PROVE  IsFiniteSet(S) /\ Cardinality(S) \in 0 .. MaxSegments
<1> DEFINE f == [m \in S |-> m.index]
<1>1. f \in Injection(S, Index)
    BY DEF IsDirectory, Injection, IsInjective, Segment
<1>2. IsFiniteSet(Index) /\ Cardinality(Index) = MaxSegments
    <2>1. 0 \in Int /\ MaxSegments - 1 \in Int /\ ~(0 > MaxSegments - 1)
          /\ (MaxSegments - 1) - 0 + 1 = MaxSegments
        BY SegmentAssumption
    <2>2. /\ IsFiniteSet(0 .. MaxSegments - 1)
          /\ Cardinality(0 .. MaxSegments - 1) =
                IF 0 > MaxSegments - 1 THEN 0 ELSE (MaxSegments - 1) - 0 + 1
        BY <2>1, FS_Interval
    <2> QED BY <2>1, <2>2 DEF Index
<1>3. IsFiniteSet(S) /\ Cardinality(S) <= MaxSegments
    <2> HIDE DEF f
    <2> QED BY <1>1, <1>2, FS_Injection
<1> QED BY <1>3, FS_CardinalityType, SegmentAssumption

\* sort_by_key has each segment of a directory at its rank.
LEMMA RankIsOrder ==
    ASSUME NEW S, IsDirectory(S)
    PROVE  [m \in S |-> Rank(S, m)] \in Bijection(S, 1 .. Cardinality(S))
<1> DEFINE f == [m \in S |-> Rank(S, m)]
           Upto(m) == {n \in S : n.index <= m.index}
<1>1. IsFiniteSet(S) /\ Cardinality(S) \in Nat
    BY DirectoryFinite
<1>2. \A m \in S : m.index \in Int
    BY DEF IsDirectory, Segment, Index
<1>3. ASSUME NEW m \in S
      PROVE  Rank(S, m) \in 1 .. Cardinality(S)
    <2>1. Upto(m) \in SUBSET S /\ m \in Upto(m)
        BY <1>2
    <2>2. IsFiniteSet(Upto(m)) /\ Cardinality(Upto(m)) <= Cardinality(S)
        BY <1>1, <2>1, FS_Subset
    <2>3. Cardinality(Upto(m)) \in Nat /\ Cardinality(Upto(m)) # 0
        BY <2>1, <2>2, FS_CardinalityType, FS_EmptySet
    <2> QED BY <1>1, <2>2, <2>3 DEF Rank
<1>4. ASSUME NEW m \in S, NEW n \in S, m.index < n.index
      PROVE  Rank(S, m) # Rank(S, n)
    <2>1. Upto(m) \in SUBSET Upto(n) /\ n \in Upto(n) /\ n \notin Upto(m) /\ Upto(n) \in SUBSET S
        BY <1>2, <1>4
    <2>2. IsFiniteSet(Upto(n))
        BY <1>1, <2>1, FS_Subset
    <2>3. Cardinality(Upto(n)) # Cardinality(Upto(m))
        BY <2>1, <2>2, FS_Subset
    <2> QED BY <2>3 DEF Rank
<1>5. \A m, n \in S : m # n => Rank(S, m) # Rank(S, n)
    <2> TAKE m, n \in S
    <2>1. m # n => m.index < n.index \/ n.index < m.index
        BY <1>2 DEF IsDirectory
    <2> QED BY <1>4, <2>1
<1>6. f \in Injection(S, 1 .. Cardinality(S))
    BY <1>3, <1>5 DEF Injection, IsInjective
<1>7. IsFiniteSet(1 .. Cardinality(S)) /\ Cardinality(1 .. Cardinality(S)) = Cardinality(S)
    BY <1>1, FS_Interval
<1>8. f \in Surjection(S, 1 .. Cardinality(S))
    <2> HIDE DEF f
    <2> QED BY <1>6, <1>7, FS_Injection
<1> QED BY <1>6, <1>8 DEF Bijection

\* from_segments puts each segment at the place its name sorts to.
LEMMA FromSegmentsDef ==
    ASSUME NEW S, IsDirectory(S)
    PROVE  /\ Len(FromSegments(S)) = Cardinality(S) /\ DOMAIN FromSegments(S) = 1 .. Cardinality(S)
           /\ \A k \in 1 .. Cardinality(S) :
                FromSegments(S)[k] \in S /\ Rank(S, FromSegments(S)[k]) = k
           /\ \A m \in S : /\ Rank(S, m) \in 1 .. Cardinality(S)
                           /\ FromSegments(S)[Rank(S, m)] = m
<1> DEFINE n == Cardinality(S)
           At(k) == CHOOSE m \in S : Rank(S, m) = k
<1>1. n \in Nat
    BY DirectoryFinite
<1>2. FromSegments(S) = [k \in 1 .. n |-> At(k)]
    BY DEF FromSegments, Rank
<1>3. /\ \A m \in S : Rank(S, m) \in 1 .. n
      /\ \A k \in 1 .. n : \E m \in S : Rank(S, m) = k
      /\ \A m, o \in S : Rank(S, m) = Rank(S, o) => m = o
    <2> DEFINE f == [m \in S |-> Rank(S, m)]
    <2>1. f \in [S -> 1 .. n] /\ IsInjective(f) /\ \A k \in 1 .. n : \E m \in S : f[m] = k
        BY RankIsOrder DEF Bijection, Injection, Surjection
    <2>2. \A m, o \in S : f[m] = f[o] => m = o
        BY <2>1 DEF IsInjective
    <2>3. \A m \in S : f[m] = Rank(S, m)
        OBVIOUS
    <2> HIDE DEF f
    <2> QED BY <2>1, <2>2, <2>3
<1>4. \A k \in 1 .. n : At(k) \in S /\ Rank(S, At(k)) = k
    BY <1>3
<1> HIDE DEF n, At
<1>5. Len(FromSegments(S)) = n /\ DOMAIN FromSegments(S) = 1 .. n
    BY <1>1, <1>2
<1>6. \A k \in 1 .. n : FromSegments(S)[k] = At(k)
    BY <1>2
<1> QED BY <1>3, <1>4, <1>5, <1>6 DEF n

\* Without a gap, the index of a segment is its rank.
LEMMA DenseIndex ==
    ASSUME NEW S, IsDirectory(S), Dense(S), NEW m \in S
    PROVE  m.index = Rank(S, m) - 1
<1> DEFINE Upto == {n \in S : n.index <= m.index}
           f == [n \in Upto |-> n.index]
<1>1. \A n \in S : n.index \in Nat
    BY SegmentAssumption DEF IsDirectory, Segment, Index
<1>2. Cardinality(S) \in Nat /\ m.index \in 0 .. Cardinality(S) - 1
    BY DirectoryFinite DEF Dense
<1>3. f \in Injection(Upto, 0 .. m.index)
    BY <1>1 DEF IsDirectory, Injection, IsInjective
<1>4. ASSUME NEW j \in 0 .. m.index
      PROVE  \E n \in Upto : f[n] = j
    <2>1. j \in {n.index : n \in S}
        BY <1>2 DEF Dense
    <2>2. PICK n \in S : n.index = j
        BY <2>1
    <2> QED BY <2>2
<1>5. f \in Surjection(Upto, 0 .. m.index)
    BY <1>3, <1>4 DEF Injection, Surjection
<1>6. IsFiniteSet(0 .. m.index) /\ Cardinality(0 .. m.index) = m.index + 1
    BY <1>1, FS_Interval
<1>7. Cardinality(Upto) = m.index + 1
    <2> HIDE DEF f, Upto
    <2> QED BY <1>3, <1>5, <1>6, FS_Injection
<1> QED BY <1>1, <1>7 DEF Rank

\* The leaves of a directory.
LEMMA LeavesDef ==
    ASSUME NEW S, IsDirectory(S)
    PROVE  /\ LeafList(Leaves(FromSegments(S)))
           /\ Len(Leaves(FromSegments(S))) = Cardinality(S) /\ Cardinality(S) \in Nat
           /\ \A k \in 1 .. Cardinality(S) :
                Leaves(FromSegments(S))[k] = PayloadHash(FromSegments(S)[k].payload)
<1> DEFINE n == Cardinality(S)
           t == FromSegments(S)
           e(k) == PayloadHash(t[k].payload)
<1>1. n \in 0 .. MaxSegments /\ n \in Nat
    BY DirectoryFinite, SegmentAssumption
<1>2. Leaves(t) = [k \in 1 .. n |-> e(k)]
    BY FromSegmentsDef DEF Leaves
<1>3. \A k \in 1 .. n : \E p : e(k) = PayloadHash(p)
    OBVIOUS
<1> HIDE DEF n, t, e
<1>4. Len(Leaves(t)) = n
    BY <1>1, <1>2
<1>5. \A k \in 1 .. n : Leaves(t)[k] = e(k)
    BY <1>2
<1>6. Leaves(t) = [k \in 1 .. n |-> Leaves(t)[k]]
    BY <1>2
<1>7. LeafList(Leaves(t))
    BY <1>1, <1>3, <1>4, <1>5, <1>6 DEF LeafList
<1> QED BY <1>1, <1>4, <1>5, <1>7 DEF n, t, e

\* A segment with the same leaf at its position of an aligned tree is there.
LEMMA SameLeaf ==
    ASSUME NEW S, NEW T, IsDirectory(S), IsDirectory(T), Aligned(S, T), NEW m \in T,
           Rank(T, m) <= Cardinality(S),
           Leaves(FromSegments(S))[Rank(T, m)] = Leaves(FromSegments(T))[Rank(T, m)]
    PROVE  \E s \in S : s.index = m.index /\ s.payload = m.payload
<1> DEFINE k == Rank(T, m)
           s == FromSegments(S)[k]
<1>1. k \in 1 .. Cardinality(T) /\ FromSegments(T)[k] = m /\ k \in 1 .. Cardinality(S)
    BY FromSegmentsDef, DirectoryFinite
<1>2. s \in S /\ Rank(S, s) = k
    BY <1>1, FromSegmentsDef
<1>3. PayloadHash(s.payload) = PayloadHash(m.payload)
    <2>1. Leaves(FromSegments(S))[k] = PayloadHash(s.payload)
        BY <1>1, LeavesDef
    <2>2. Leaves(FromSegments(T))[k] = PayloadHash(m.payload)
        BY <1>1, LeavesDef
    <2> QED BY <2>1, <2>2
<1>4. s.payload = m.payload
    <2>1. PayloadHash(s.payload).of = s.payload /\ PayloadHash(m.payload).of = m.payload
        BY DEF PayloadHash, Blake3
    <2> QED BY <1>3, <2>1
<1> HIDE DEF s, k
<1>5. s.index = m.index
    <2>1. CASE Dense(S) /\ Dense(T)
        <3>1. s.index = Rank(S, s) - 1 /\ m.index = Rank(T, m) - 1
            BY <1>2, <2>1, DenseIndex
        <3> QED BY <1>2, <3>1 DEF k
    <2>2. CASE \A x \in S, y \in T : x.payload = y.payload => x.index = y.index
        BY <1>2, <1>4, <2>2
    <2> QED BY <2>1, <2>2 DEF Aligned
<1> QED BY <1>2, <1>4, <1>5

-----------------------------------------------------------------------------
(* The specification *)

\* A reader with nothing to ask for is not being served, what it still wants is
\* in the summary it compared itself with, and what was read for it is at the
\* position it asked for.
Pulls ==
    /\ pulling = "idle" => todo = {}
    /\ todo # {} => pulling = "pulling"
    /\ pulling # "idle" => summary # None
    /\ summary # None => summary.root = Root(FromSegments(summary.of))
    /\ summary # None => todo \subseteq summary.of
    /\ serving # None => \A s \in serving.read : s.index = serving.want.index

\* Every segment of the summary is at its place or still wanted.
Accounted ==
    pulling \in {"pulling", "done"} /\ aligned =>
        \A m \in summary.of :
            m \in todo \/ \E s \in mine : s.index = m.index /\ s.payload = m.payload

IInv == TypeOK /\ Pulls /\ Accounted

\* Nothing has been pulled at first.
LEMMA InitIInv == Init => IInv
<1> SUFFICES ASSUME Init PROVE IInv
    OBVIOUS
<1>1. rows \in Table
    BY SegmentAssumption DEF Init
<1>2. TypeOK
    BY <1>1, SegmentAssumption DEF Init, TypeOK, IsDirectory, Lsn
<1>3. Pulls /\ Accounted
    BY DEF Init, Pulls, Accounted
<1> QED BY <1>2, <1>3 DEF IInv

\* The writer's database leaves the reader and its summary alone.
LEMMA CommitStep == IInv /\ Commit => IInv'
<1> SUFFICES ASSUME IInv, Commit PROVE IInv'
    OBVIOUS
<1>1. lsn' \in Lsn
    BY SegmentAssumption DEF IInv, TypeOK, Lsn, Commit
<1>2. TypeOK'
    BY <1>1 DEF IInv, TypeOK, Commit, readerVars
<1>3. Pulls' /\ Accounted'
    BY DEF IInv, Pulls, Accounted, Commit, readerVars
<1> QED BY <1>2, <1>3 DEF IInv

\* A snapshot that is regenerated changes the directory and not the summary
\* that was made of it.
LEMMA RegenerateStep == IInv /\ RegenerateSnapshot => IInv'
<1> SUFFICES ASSUME IInv, RegenerateSnapshot PROVE IInv'
    OBVIOUS
<1>1. PICK n \in 0 .. MaxSegments : rows \in [1 .. n -> Content]
    BY SegmentAssumption DEF IInv, TypeOK
<1>2. ASSUME NEW i \in DOMAIN rows
      PROVE  [index |-> i - 1, payload |-> rows[i]] \in Segment
    <2>1. i \in 1 .. n /\ i - 1 \in Index /\ rows[i] \in Content
        BY <1>1, SegmentAssumption DEF Index
    <2> QED BY <2>1 DEF Segment
<1>3. IsDirectory(Regenerated)
    <2>1. Regenerated \subseteq Segment
        BY <1>2 DEF Regenerated
    <2>2. ASSUME NEW x \in Regenerated, NEW y \in Regenerated, x.index = y.index
          PROVE  x = y
        <3>1. PICK i \in DOMAIN rows : x = [index |-> i - 1, payload |-> rows[i]]
            BY DEF Regenerated
        <3>2. PICK j \in DOMAIN rows : y = [index |-> j - 1, payload |-> rows[j]]
            BY DEF Regenerated
        <3>3. i \in Int /\ j \in Int
            BY <1>1
        <3>4. i - 1 = j - 1
            BY <2>2, <3>1, <3>2
        <3>5. i = j
            BY <3>3, <3>4
        <3> QED BY <3>1, <3>2, <3>5
    <2> QED BY <2>1, <2>2 DEF IsDirectory
<1>4. TypeOK'
    BY <1>3 DEF IInv, TypeOK, RegenerateSnapshot, readerVars, IsDirectory
<1>5. Pulls' /\ Accounted'
    BY DEF IInv, Pulls, Accounted, RegenerateSnapshot, readerVars
<1> QED BY <1>4, <1>5 DEF IInv

\* So does a segment file that is lost.
LEMMA LoseStep == IInv /\ LoseSegment => IInv'
<1> SUFFICES ASSUME IInv, LoseSegment PROVE IInv'
    OBVIOUS
<1>1. lost' \in 0 .. MaxLost
    BY SegmentAssumption DEF IInv, TypeOK, LoseSegment
<1>2. IsDirectory(snap')
    BY DEF IInv, TypeOK, IsDirectory, LoseSegment
<1>3. TypeOK'
    BY <1>1, <1>2 DEF IInv, TypeOK, LoseSegment, readerVars, IsDirectory
<1>4. Pulls' /\ Accounted'
    BY DEF IInv, Pulls, Accounted, LoseSegment, readerVars
<1> QED BY <1>3, <1>4 DEF IInv

\* A summary is of the directory of the moment.
LEMMA SummaryStep == IInv /\ BuildSummary => IInv'
<1> SUFFICES ASSUME IInv, BuildSummary PROVE IInv'
    OBVIOUS
<1>1. summary'.of = snap /\ summary'.root = Root(FromSegments(snap))
    BY DEF BuildSummary
<1>2. IsDirectory(summary'.of)
    BY <1>1 DEF IInv, TypeOK
<1>3. TypeOK'
    BY <1>2 DEF IInv, TypeOK, BuildSummary, writerVars, IsDirectory
<1>4. Pulls'
    BY <1>1 DEF IInv, Pulls, BuildSummary
<1>5. Accounted'
    BY DEF Accounted, BuildSummary
<1> QED BY <1>3, <1>4, <1>5 DEF IInv

\* What a comparison wants is in the summary, and what it does not want the
\* reader has.
LEMMA WantedIsRight ==
    ASSUME IsDirectory(mine), IsDirectory(summary.of)
    PROVE  /\ Wanted \subseteq summary.of
           /\ Aligned(mine, summary.of) /\ RootTells(mine, summary.of) =>
                \A m \in summary.of :
                    \/ Root(FromSegments(mine)) # Root(FromSegments(summary.of)) /\ m \in Wanted
                    \/ \E s \in mine : s.index = m.index /\ s.payload = m.payload
<1> DEFINE T == summary.of
           tree == FromSegments(T)
           a == Leaves(FromSegments(mine))
           b == Leaves(tree)
<1>1. /\ LeafList(a) /\ Len(a) = Cardinality(mine) /\ Cardinality(mine) \in Nat
      /\ LeafList(b) /\ Len(b) = Cardinality(T) /\ Cardinality(T) \in Nat
    BY LeavesDef
<1>2. /\ Len(tree) = Cardinality(T)
      /\ \A k \in 1 .. Cardinality(T) : tree[k] \in T
      /\ \A m \in T : Rank(T, m) \in 1 .. Cardinality(T) /\ tree[Rank(T, m)] = m
    BY FromSegmentsDef
<1>3. Wanted = SegmentsAt(tree, Diff(a, b))
    BY DEF Wanted
<1>4. Diff(a, b) = NodesAbove(a, b)
    BY <1>1, DiffOfLists
<1>5. Wanted \subseteq T
    <2>1. ASSUME NEW p \in Diff(a, b), p[1] = 0, p[2] < Len(tree)
          PROVE  tree[p[2] + 1] \in T
        <3>1. PICK n \in 0 .. MaxLevel, i \in Changed(a, b) : p = <<n, Above(i)[n]>>
            BY <1>4, <2>1 DEF NodesAbove
        <3>2. i \in Nat
            BY <1>1, ChangedLeaves
        <3>3. p[2] \in Nat
            <4>1. Above(i)[n] \in Nat
                BY <3>2, AboveMonotone
            <4> QED BY <3>1, <4>1
        <3>4. p[2] + 1 \in 1 .. Cardinality(T)
            BY <1>1, <1>2, <2>1, <3>3
        <3> QED BY <1>2, <3>4
    <2> HIDE DEF tree, a, b, T
    <2> QED BY <1>3, <2>1 DEF SegmentsAt
<1>6. ASSUME Aligned(mine, T), RootTells(mine, T), NEW m \in T,
             Root(FromSegments(mine)) = Root(tree) \/ m \notin Wanted
      PROVE  \E s \in mine : s.index = m.index /\ s.payload = m.payload
    <2> DEFINE k == Rank(T, m)
    <2>1. k \in 1 .. Cardinality(T) /\ tree[k] = m
        BY <1>2
    <2>2. k <= Cardinality(mine) /\ a[k] = b[k]
        <3>1. CASE Root(FromSegments(mine)) = Root(tree)
            <4>1. ComputeRoot(a) = ComputeRoot(b) /\ Comparable(a, b)
                BY <1>6, <3>1 DEF Root, RootTells
            <4>2. a = b
                BY <1>1, <4>1, SameRoot
            <4> QED BY <1>1, <2>1, <4>2
        <3>2. CASE m \notin Wanted
            <4> HIDE DEF k, a, b, tree, T
            <4>1. k - 1 \notin Changed(a, b)
                <5>1. SUFFICES ASSUME k - 1 \in Changed(a, b) PROVE FALSE
                    OBVIOUS
                <5>2. 0 \in 0 .. MaxLevel /\ Above(k - 1)[0] = k - 1
                    BY AboveDef, TreeAssumption
                <5>3. <<0, k - 1>> \in Diff(a, b)
                    BY <1>4, <5>1, <5>2 DEF NodesAbove
                <5>4. k - 1 < Len(tree) /\ (k - 1) + 1 = k
                    BY <1>1, <1>2, <2>1
                <5>5. tree[k] \in Wanted
                    BY <1>3, <5>3, <5>4 DEF SegmentsAt
                <5> QED BY <2>1, <3>2, <5>5
            <4>2. Max({Len(a), Len(b)}) = IF Len(a) <= Len(b) THEN Len(b) ELSE Len(a)
                BY <1>1, MaxOfTwo
            <4>3. k - 1 \in 0 .. Max({Len(a), Len(b)}) - 1 /\ ~(k - 1 >= Len(b))
                BY <1>1, <2>1, <4>2
            <4>4. ~(k - 1 >= Len(a)) /\ a[(k - 1) + 1] = b[(k - 1) + 1] /\ (k - 1) + 1 = k
                BY <2>1, <4>1, <4>3 DEF Changed
            <4> QED BY <1>1, <2>1, <4>4
        <3> QED BY <1>6, <3>1, <3>2
    <2> QED BY <1>6, <2>2, SameLeaf
<1> QED BY <1>5, <1>6

\* A comparison asks for what the reader does not have.
LEMMA CompareStep == IInv /\ Compare => IInv'
<1> SUFFICES ASSUME IInv, Compare PROVE IInv'
    OBVIOUS
<1>1. /\ summary # None /\ IsDirectory(summary.of) /\ IsDirectory(mine)
      /\ summary.root = Root(FromSegments(summary.of))
      /\ serving = None
    <2>1. todo = {}
        BY DEF IInv, Pulls, Compare
    <2> QED BY <2>1 DEF IInv, TypeOK, Pulls, Compare
<1>2. todo' \subseteq summary.of
    BY <1>1, WantedIsRight DEF Compare
<1>3. IsDirectory(todo')
    BY <1>1, <1>2 DEF IsDirectory
<1>4. TypeOK'
    <2>2. aligned' \in BOOLEAN
        BY DEF Compare
    <2>3. pulling' \in {"idle", "pulling", "done", "failed"}
        BY DEF Compare
    <2> QED BY <1>1, <1>3, <2>2, <2>3 DEF IInv, TypeOK, Compare, writerVars, IsDirectory
<1>5. Pulls'
    BY <1>1, <1>2 DEF IInv, Pulls, Compare
<1>6. Accounted'
    <2>1. SUFFICES ASSUME Aligned(mine, summary.of), RootTells(mine, summary.of),
                          NEW m \in summary.of
                   PROVE  m \in todo' \/ \E s \in mine : s.index = m.index /\ s.payload = m.payload
        BY DEF Accounted, Compare
    <2>2. \/ Root(FromSegments(mine)) # summary.root /\ m \in Wanted
          \/ \E s \in mine : s.index = m.index /\ s.payload = m.payload
        BY <1>1, <2>1, WantedIsRight
    <2> QED BY <2>2 DEF Compare
<1> QED BY <1>4, <1>5, <1>6 DEF IInv

\* The writer reads the segment that was asked for, of the directory as it is by
\* then.
LEMMA ReadStep == IInv /\ ReadSegment => IInv'
<1> SUFFICES ASSUME IInv, ReadSegment PROVE IInv'
    OBVIOUS
<1>1. PICK m \in todo : serving' = [want |-> m, read |-> {s \in snap : s.index = m.index}]
    BY DEF ReadSegment
<1>2. /\ serving'.want = m /\ serving'.read = {s \in snap : s.index = m.index}
    BY <1>1
<1>3. serving'.want \in todo /\ serving'.read \subseteq Segment
    BY <1>2 DEF IInv, TypeOK, IsDirectory
<1>4. TypeOK'
    BY <1>3 DEF IInv, TypeOK, ReadSegment, writerVars, readerVars, IsDirectory
<1>5. Pulls'
    BY <1>2 DEF IInv, Pulls, ReadSegment, readerVars
<1>6. Accounted'
    BY DEF IInv, Accounted, ReadSegment, readerVars
<1> QED BY <1>4, <1>5, <1>6 DEF IInv

\* The segment sent takes the place of the one that was asked for and of no
\* other.
LEMMA SendStep == IInv /\ SendSegment => IInv'
<1> SUFFICES ASSUME IInv, SendSegment PROVE IInv'
    OBVIOUS
<1>1. PICK s \in serving.read : RootMatches(s, serving.want) /\ mine' = Stored(s)
    BY DEF SendSegment
<1>2. /\ serving.want \in todo /\ s \in Segment /\ s.index = serving.want.index
      /\ todo # {} /\ pulling = "pulling" /\ summary # None /\ todo \subseteq summary.of
      /\ IsDirectory(summary.of)
    BY DEF IInv, TypeOK, Pulls, SendSegment
<1>3. s.payload = serving.want.payload
    <2>1. /\ PayloadHash(s.payload) = PayloadHash(serving.want.payload)
          /\ PayloadHash(s.payload).of = s.payload
          /\ PayloadHash(serving.want.payload).of = serving.want.payload
        BY <1>1 DEF RootMatches, PayloadHash, Blake3
    <2> QED BY <2>1
<1>4. IsDirectory(mine')
    BY <1>1, <1>2 DEF IInv, TypeOK, IsDirectory, Stored
<1>5. mark' \in Lsn
    <2>1. lsn \in Int /\ mark \in Int
        BY SegmentAssumption DEF IInv, TypeOK, Lsn
    <2>2. mark' \in {mark, lsn}
        BY <2>1, MaxOfTwo DEF SendSegment
    <2> QED BY <2>2 DEF IInv, TypeOK
<1>6. IsDirectory(todo')
    BY DEF IInv, TypeOK, IsDirectory, SendSegment
<1>7. TypeOK'
    BY <1>4, <1>5, <1>6 DEF IInv, TypeOK, SendSegment, writerVars, IsDirectory
<1>8. Pulls'
    BY <1>2 DEF IInv, Pulls, SendSegment
<1>9. Accounted'
    <2>1. SUFFICES ASSUME aligned, NEW m \in summary.of
                   PROVE  m \in todo' \/ \E x \in mine' : x.index = m.index /\ x.payload = m.payload
        BY DEF Accounted, SendSegment
    <2>2. m \in todo \/ \E x \in mine : x.index = m.index /\ x.payload = m.payload
        BY <1>2, <2>1 DEF IInv, Accounted
    <2>3. s \in mine' /\ \A x \in mine : x.index # s.index => x \in mine'
        BY <1>1 DEF Stored
    <2>4. CASE m.index = s.index
        <3>1. m = serving.want
            BY <1>2, <2>4 DEF IsDirectory
        <3> QED BY <1>2, <1>3, <2>3, <3>1
    <2>5. CASE m.index # s.index
        <3>1. m # serving.want
            BY <1>2, <2>5
        <3>2. m \in todo => m \in todo'
            BY <3>1 DEF SendSegment
        <3> QED BY <2>2, <2>3, <2>5, <3>2
    <2> QED BY <2>4, <2>5
<1> QED BY <1>7, <1>8, <1>9 DEF IInv

\* A segment that is gone ends the pull.
LEMMA NotFoundStep == IInv /\ SegmentNotFound => IInv'
<1> SUFFICES ASSUME IInv, SegmentNotFound PROVE IInv'
    OBVIOUS
<1>1. summary # None
    BY DEF IInv, TypeOK, Pulls, SegmentNotFound
<1>2. TypeOK'
    BY DEF IInv, TypeOK, SegmentNotFound, writerVars, IsDirectory
<1>3. Pulls' /\ Accounted'
    BY <1>1 DEF IInv, Pulls, Accounted, SegmentNotFound
<1> QED BY <1>2, <1>3 DEF IInv

\* A step that changes nothing.
LEMMA StutterStep == IInv /\ UNCHANGED vars => IInv'
BY DEF IInv, TypeOK, Pulls, Accounted, vars, writerVars, readerVars, IsDirectory

\* The invariant is inductive.
LEMMA IInvAlways == Spec => []IInv
<1>1. IInv /\ [Next]_vars => IInv'
    BY CommitStep, RegenerateStep, LoseStep, SummaryStep, CompareStep, ReadStep, SendStep,
       NotFoundStep, StutterStep DEF Next
<1> QED BY InitIInv, <1>1, PTL DEF Spec

\* The reader, the snapshot directory, the summary and the pull keep their types
\* under every step of the writer and of the reader.
THEOREM AntiEntropyTypeCorrect == Spec => []TypeOK
<1>1. IInv => TypeOK
    BY DEF IInv
<1> QED BY <1>1, IInvAlways, PTL

\* Whatever the snapshot directory and the reader have come to, the roots of
\* their summaries, when of one level, are equal exactly when the leaves are: a
\* reader that differs by as little as one padded position is not sent away.
THEOREM RootsDecideAlways == Spec => []RootsDecide
<1>1. IInv => RootsDecide
    <2> SUFFICES ASSUME IInv PROVE RootsDecide
        OBVIOUS
    <2>1. LeafList(Leaves(FromSegments(mine))) /\ LeafList(Leaves(FromSegments(snap)))
        BY LeavesDef DEF IInv, TypeOK
    <2> QED BY <2>1, SameRoot DEF RootsDecide, Root
<1> QED BY <1>1, IInvAlways, PTL

\* Whatever the two sides have come to, diff asks for the nodes above the
\* segments that differ and for no others, at each level up to the one at which
\* one node stands for all.
THEOREM DiffIsExactAlways == Spec => []DiffIsExact
<1>1. IInv => DiffIsExact
    <2> SUFFICES ASSUME IInv PROVE DiffIsExact
        OBVIOUS
    <2>1. LeafList(Leaves(FromSegments(mine))) /\ LeafList(Leaves(FromSegments(snap)))
        BY LeavesDef DEF IInv, TypeOK
    <2>2. Diff(Leaves(FromSegments(mine)), Leaves(FromSegments(snap))) =
            NodesAbove(Leaves(FromSegments(mine)), Leaves(FromSegments(snap)))
        BY <2>1, DiffOfLists
    <2> QED BY <2>2 DEF DiffIsExact, NodesAbove, Changed
<1> QED BY <1>1, IInvAlways, PTL

\* A reader for which handle_segment_request has served everything that diff
\* named has each segment of the summary at its place, although snapshots are
\* regenerated and segments lost between the comparison and the answers.
THEOREM PullCompletesAlways == Spec => []PullCompletes
<1>1. IInv => PullCompletes
    BY DEF IInv, Pulls, Accounted, PullCompletes
<1> QED BY <1>1, IInvAlways, PTL
=============================================================================
