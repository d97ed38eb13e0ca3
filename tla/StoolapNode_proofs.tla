------------------------- MODULE StoolapNode_proofs -------------------------
(***************************************************************************)
(* Machine-checked proofs, for chains of any length and logs of any size:  *)
(* what a database lacks was rejected on the way to it, and a chain of     *)
(* stoolap-node processes whose databases reject nothing keeps gapless     *)
(* replicas and implements ReplicaChain.                                   *)
(***************************************************************************)
EXTENDS StoolapNode, FiniteSetTheorems, WellFoundedInduction, TLAPS

-----------------------------------------------------------------------------
(* Sets of LSNs without gaps *)

\* The highest of the first c LSNs is c.
LEMMA HighestOfPrefix ==
    ASSUME NEW c \in Nat
    PROVE  Highest(1 .. c) = c
<1>1. CASE c = 0
    BY <1>1 DEF Highest
<1>2. CASE c # 0
    <2>1. c \in 1 .. c /\ \A k \in 1 .. c : k <= c
        BY <1>2
    <2>2. 1 .. c # {}
        BY <2>1
    <2>3. \A l \in 1 .. c : (\A k \in 1 .. c : k <= l) => l = c
        BY <2>1
    <2>4. (CHOOSE l \in 1 .. c : \A k \in 1 .. c : k <= l) = c
        BY <2>1, <2>3
    <2> QED BY <2>2, <2>4 DEF Highest
<1> QED BY <1>1, <1>2

\* Gapless LSNs in order.
LEMMA IntervalInOrder ==
    ASSUME NEW a \in Nat, NEW b \in Nat, a <= b
    PROVE  InOrder(a .. b) = [k \in 1 .. b - a + 1 |-> a + k - 1]
<1>1. Cardinality(a .. b) = b - a + 1
    BY FS_Interval
<1>2. \A l \in a .. b : Cardinality({j \in a .. b : j <= l}) = l - a + 1
    <2> TAKE l \in a .. b
    <2>1. {j \in a .. b : j <= l} = a .. l
        OBVIOUS
    <2>2. Cardinality(a .. l) = l - a + 1
        BY FS_Interval
    <2> QED BY <2>1, <2>2
<1>3. \A k \in 1 .. b - a + 1 :
        (CHOOSE l \in a .. b : Cardinality({j \in a .. b : j <= l}) = k) = a + k - 1
    <2> TAKE k \in 1 .. b - a + 1
    <2>1. a + k - 1 \in a .. b
        OBVIOUS
    <2>2. \A l \in a .. b : Cardinality({j \in a .. b : j <= l}) = k <=> l = a + k - 1
        BY <1>2
    <2> QED BY <2>1, <2>2
<1> QED BY <1>1, <1>3 DEF InOrder

\* What a node that holds a gapless log reads out of it.
LEMMA RangeOfPrefix ==
    ASSUME NEW i, NEW c \in 0 .. MaxLsn, db[i] = 1 .. c, NEW sent \in Nat, sent < c
    PROVE  /\ ReadWalRange(i, After(sent), c) \in Seq(Lsn)
           /\ Len(ReadWalRange(i, After(sent), c)) = c - sent
           /\ \A k \in 1 .. c - sent : ReadWalRange(i, After(sent), c)[k] = sent + k
<1>1. c \in Nat /\ MaxLsn \in Nat
    BY NodeAssumption
<1>2. {l \in db[i] : After(sent) <= l /\ l <= c} = (sent + 1) .. c
    BY <1>1 DEF After
<1>3. InOrder((sent + 1) .. c) =
        [k \in 1 .. c - (sent + 1) + 1 |-> sent + 1 + k - 1]
    <2> DEFINE a == sent + 1
    <2>1. a \in Nat /\ a <= c
        BY <1>1
    <2> HIDE DEF a
    <2>2. InOrder(a .. c) = [k \in 1 .. c - a + 1 |-> a + k - 1]
        BY <1>1, <2>1, IntervalInOrder
    <2> QED BY <2>2 DEF a
<1>4. [k \in 1 .. c - (sent + 1) + 1 |-> sent + 1 + k - 1] =
        [k \in 1 .. c - sent |-> sent + k]
    <2>1. c - (sent + 1) + 1 = c - sent
        BY <1>1
    <2>2. \A k \in 1 .. c - sent : sent + 1 + k - 1 = sent + k
        BY <1>1
    <2> QED BY <2>1, <2>2
<1>5. ReadWalRange(i, After(sent), c) = [k \in 1 .. c - sent |-> sent + k]
    BY <1>2, <1>3, <1>4 DEF ReadWalRange
<1>6. c - sent \in Nat /\ \A k \in 1 .. c - sent : sent + k \in Lsn
    BY <1>1 DEF Lsn
<1>7. [k \in 1 .. c - sent |-> sent + k] \in Seq(Lsn)
    BY <1>6
<1>8. Len([k \in 1 .. c - sent |-> sent + k]) = c - sent
    BY <1>6
<1> QED BY <1>5, <1>7, <1>8

-----------------------------------------------------------------------------
(* Gapless replicas *)

\* A node of a gapless chain holds exactly the LSNs up to its current one.
LEMMA HoldsPrefix ==
    ASSUME PrefixReplicas, NEW i \in Node
    PROVE  /\ CurrentLsn(i) \in 0 .. MaxLsn
           /\ db[i] = 1 .. CurrentLsn(i)
<1>1. PICK c \in 0 .. MaxLsn : db[i] = 1 .. c
    BY DEF PrefixReplicas
<1>2. c \in Nat
    BY <1>1, NodeAssumption
<1>3. CurrentLsn(i) = c
    BY <1>1, <1>2, HighestOfPrefix DEF CurrentLsn
<1> QED BY <1>1, <1>3

\* A reader of a gapless chain is not ahead of the node it reads from.
LEMMA ReaderIsBehind ==
    ASSUME PrefixReplicas, NEW i \in Reader
    PROVE  /\ i \in Node /\ i - 1 \in Node
           /\ CurrentLsn(i) <= CurrentLsn(i - 1)
<1>1. i \in Node /\ i - 1 \in Node
    BY NodeAssumption DEF Node, Reader
<1>2. /\ CurrentLsn(i) \in Nat /\ db[i] = 1 .. CurrentLsn(i)
      /\ CurrentLsn(i - 1) \in Nat /\ db[i - 1] = 1 .. CurrentLsn(i - 1)
    BY <1>1, HoldsPrefix, NodeAssumption
<1>3. db[i] \subseteq db[i - 1]
    BY DEF PrefixReplicas
<1> QED BY <1>1, <1>2, <1>3

\* The next LSN added to a gapless database.
LEMMA PrefixGrows ==
    ASSUME NEW c \in Nat
    PROVE  (1 .. c) \cup {c + 1} = 1 .. c + 1
    OBVIOUS

\* A step that leaves the databases alone.
LEMMA SameDatabases ==
    ASSUME db' = db
    PROVE  /\ \A i : CurrentLsn(i)' = CurrentLsn(i)
           /\ PrefixReplicas => PrefixReplicas'
<1>1. \A i : CurrentLsn(i)' = CurrentLsn(i)
    BY DEF CurrentLsn
<1>2. PrefixReplicas => PrefixReplicas'
    BY DEF PrefixReplicas
<1> QED BY <1>1, <1>2

\* A step that lets one node take over the next LSN of the writer or of the
\* node before it.
LEMMA OneGrows ==
    ASSUME PrefixReplicas, NEW n \in Node,
           db \in [Node -> SUBSET Lsn],
           CurrentLsn(n) < MaxLsn,
           n # 1 => CurrentLsn(n) < CurrentLsn(n - 1),
           db' = [db EXCEPT ![n] = @ \cup {CurrentLsn(n) + 1}]
    PROVE  /\ PrefixReplicas'
           /\ CurrentLsn(n)' = CurrentLsn(n) + 1
           /\ \A i \in Node \ {n} : CurrentLsn(i)' = CurrentLsn(i)
<1> DEFINE c == CurrentLsn(n)
<1>0. N \in Nat /\ MaxLsn \in Nat
    BY NodeAssumption
<1>1. c \in 0 .. MaxLsn /\ db[n] = 1 .. c
    BY HoldsPrefix
<1>2. db'[n] = 1 .. c + 1
    <2>1. db'[n] = db[n] \cup {c + 1}
        OBVIOUS
    <2>2. c \in Nat
        BY <1>0, <1>1
    <2> HIDE DEF c
    <2> QED BY <1>1, <2>1, <2>2, PrefixGrows
<1>3. \A i \in Node \ {n} : db'[i] = db[i]
    OBVIOUS
<1>4. c + 1 \in 0 .. MaxLsn
    BY <1>0, <1>1
<1>5. CurrentLsn(n)' = c + 1
    <2>1. Highest(1 .. c + 1) = c + 1
        BY <1>0, <1>4, HighestOfPrefix
    <2> QED BY <1>2, <2>1 DEF CurrentLsn
<1>6. \A i \in Node \ {n} : CurrentLsn(i)' = CurrentLsn(i)
    BY <1>3 DEF CurrentLsn
<1>7. \A i \in Node : \E k \in 0 .. MaxLsn : db'[i] = 1 .. k
    <2> TAKE i \in Node
    <2>1. CASE i = n
        BY <1>2, <1>4, <2>1
    <2>2. CASE i # n
        BY <1>3, <2>2 DEF PrefixReplicas
    <2> QED BY <2>1, <2>2
<1>8. \A i \in Reader : db'[i] \subseteq db'[i - 1]
    <2> TAKE i \in Reader
    <2>1. i \in Node /\ i - 1 \in Node /\ i - 1 # i
        BY <1>0 DEF Reader, Node
    <2>2. db[i] \subseteq db[i - 1]
        BY DEF PrefixReplicas
    <2>3. CASE i = n
        <3>1. n # 1
            BY <1>0, <2>3 DEF Reader
        <3>2. c < CurrentLsn(n - 1) /\ n - 1 \in Node
            BY <2>1, <2>3, <3>1
        <3>3. /\ db[n - 1] = 1 .. CurrentLsn(n - 1)
              /\ CurrentLsn(n - 1) \in 0 .. MaxLsn
            BY <3>2, HoldsPrefix
        <3>4. c + 1 \in db[n - 1]
            <4> HIDE DEF c
            <4> QED BY <1>0, <1>1, <3>2, <3>3
        <3>5. db'[i] = db[i] \cup {c + 1}
            BY <2>3
        <3>6. db'[i - 1] = db[i - 1]
            BY <1>3, <2>1, <2>3
        <3> QED BY <2>2, <2>3, <3>4, <3>5, <3>6
    <2>4. CASE i # n
        <3>1. db'[i] = db[i]
            BY <1>3, <2>1, <2>4
        <3>2. db[i - 1] \subseteq db'[i - 1]
            BY <2>1
        <3> QED BY <2>2, <3>1, <3>2
    <2> QED BY <2>3, <2>4
<1>9. PrefixReplicas'
    BY <1>7, <1>8 DEF PrefixReplicas
<1> QED BY <1>5, <1>6, <1>9

-----------------------------------------------------------------------------
(* The inductive invariant *)

\* A commit: the link of the first reader falls behind, none is disturbed.
LEMMA CommitKeepsInv ==
    ASSUME ChainInv, Commit
    PROVE  ChainInv'
<1>1. 1 \in Node /\ MaxLsn \in Nat /\ N \in Nat
    BY NodeAssumption DEF Node
<1>2. PrefixReplicas /\ TypeOK
    BY DEF ChainInv
<1>3. CurrentLsn(1) \in 0 .. MaxLsn
    BY <1>1, <1>2, HoldsPrefix
<1>4. /\ CurrentLsn(1) < MaxLsn
      /\ db' = [db EXCEPT ![1] = @ \cup {CurrentLsn(1) + 1}]
    BY DEF Commit, NextLsn
<1>5. /\ PrefixReplicas'
      /\ CurrentLsn(1)' = CurrentLsn(1) + 1
      /\ \A i \in Node \ {1} : CurrentLsn(i)' = CurrentLsn(i)
    BY <1>1, <1>2, <1>4, OneGrows DEF TypeOK
<1>6. UNCHANGED <<link, request, last, frames, rejected, restarts>>
    BY DEF Commit, linkVars
<1>7. TypeOK'
    <2>1. CurrentLsn(1) + 1 \in Lsn
        BY <1>1, <1>3, <1>4 DEF Lsn
    <2>2. db' \in [Node -> SUBSET Lsn]
        BY <1>1, <1>2, <1>4, <2>1 DEF TypeOK
    <2> QED BY <1>2, <1>6, <2>2 DEF TypeOK
<1>8. \A i \in Reader : LinkCarriesRest(i)' /\ RequestIsCurrent(i)'
    <2> TAKE i \in Reader
    <2>1. LinkCarriesRest(i) /\ RequestIsCurrent(i)
        BY DEF ChainInv
    <2>2. i \in Node \ {1} /\ i - 1 \in Node
        BY <1>1 DEF Reader, Node
    <2>3. CurrentLsn(i)' = CurrentLsn(i)
        BY <1>5, <2>2
    <2>4. last[i] \in Nat /\ CurrentLsn(i - 1) \in Nat
        BY <1>1, <1>2, <2>2, HoldsPrefix DEF TypeOK
    <2>5. CurrentLsn(i - 1)' \in Nat /\ CurrentLsn(i - 1) <= CurrentLsn(i - 1)'
        BY <1>3, <1>5, <2>2, <2>4
    <2>6. LinkCarriesRest(i)'
        BY <1>6, <2>1, <2>3, <2>4, <2>5 DEF LinkCarriesRest
    <2>7. RequestIsCurrent(i)'
        BY <1>6, <2>1, <2>3 DEF RequestIsCurrent
    <2> QED BY <2>6, <2>7
<1> QED BY <1>5, <1>7, <1>8 DEF ChainInv

\* A request is sent.
LEMMA ConnectKeepsInv ==
    ASSUME ChainInv, NEW n \in Reader, Connect(n)
    PROVE  ChainInv'
<1>1. PrefixReplicas /\ TypeOK /\ n \in Node
    BY NodeAssumption DEF ChainInv, Reader, Node
<1>2. CurrentLsn(n) \in 0 .. MaxLsn
    BY <1>1, HoldsPrefix
<1>3. /\ link' = [link EXCEPT ![n] = "asking"]
      /\ request' = [request EXCEPT ![n] = CurrentLsn(n)]
      /\ UNCHANGED <<db, last, frames, rejected, restarts>>
    BY DEF Connect
<1>4. PrefixReplicas' /\ \A i : CurrentLsn(i)' = CurrentLsn(i)
    BY <1>1, <1>3, SameDatabases
<1>5. TypeOK'
    BY <1>1, <1>2, <1>3 DEF TypeOK
<1>6. \A i \in Reader : LinkCarriesRest(i)' /\ RequestIsCurrent(i)'
    <2> TAKE i \in Reader
    <2>1. LinkCarriesRest(i) /\ RequestIsCurrent(i)
        BY DEF ChainInv
    <2>2. CASE i = n
        <3>1. link'[i] = "asking" /\ request'[i] = CurrentLsn(i)
            BY <1>1, <1>3, <2>2 DEF TypeOK
        <3> QED BY <1>4, <3>1 DEF LinkCarriesRest, RequestIsCurrent
    <2>3. CASE i # n
        <3>1. link'[i] = link[i] /\ request'[i] = request[i]
            BY <1>1, <1>3, <2>3 DEF TypeOK
        <3> QED BY <1>3, <1>4, <2>1, <3>1 DEF LinkCarriesRest, RequestIsCurrent
    <2> QED BY <2>2, <2>3
<1> QED BY <1>4, <1>5, <1>6 DEF ChainInv

\* Links that are new or ended have nothing to keep.
LEMMA CutKeepsInv ==
    ASSUME ChainInv, TypeOK', UNCHANGED <<db, request, last>>,
           NEW S,
           \A i \in Reader \cap S : link'[i] \in {"new", "ended"},
           \A i \in Reader \ S : link'[i] = link[i] /\ frames'[i] = frames[i]
    PROVE  ChainInv'
<1>1. PrefixReplicas' /\ \A i : CurrentLsn(i)' = CurrentLsn(i)
    BY SameDatabases DEF ChainInv
<1>2. \A i \in Reader : LinkCarriesRest(i)' /\ RequestIsCurrent(i)'
    <2> TAKE i \in Reader
    <2>1. LinkCarriesRest(i) /\ RequestIsCurrent(i)
        BY DEF ChainInv
    <2>2. CASE i \in S
        BY <2>2 DEF LinkCarriesRest, RequestIsCurrent
    <2>3. CASE i \notin S
        <3>1. link'[i] = link[i] /\ frames'[i] = frames[i]
            BY <2>3
        <3> QED BY <1>1, <2>1, <3>1 DEF LinkCarriesRest, RequestIsCurrent
    <2> QED BY <2>2, <2>3
<1> QED BY <1>1, <1>2 DEF ChainInv

\* A link breaks.
LEMMA BreakKeepsInv ==
    ASSUME ChainInv, NEW n \in Reader, Break(n)
    PROVE  ChainInv'
<1>1. TypeOK
    BY DEF ChainInv
<1>2. /\ link' = [link EXCEPT ![n] = "ended"]
      /\ frames' = [frames EXCEPT ![n] = <<>>]
      /\ UNCHANGED <<db, request, last, rejected, restarts>>
    BY DEF Break
<1>3. TypeOK'
    BY <1>1, <1>2 DEF TypeOK
<1>4. \A i \in Reader \cap {n} : link'[i] \in {"new", "ended"}
    BY <1>1, <1>2 DEF TypeOK
<1>5. \A i \in Reader \ {n} : link'[i] = link[i] /\ frames'[i] = frames[i]
    BY <1>1, <1>2 DEF TypeOK
<1> QED BY <1>2, <1>3, <1>4, <1>5, CutKeepsInv

\* A process restarts.
LEMMA RestartKeepsInv ==
    ASSUME ChainInv, NEW n \in Node, Restart(n)
    PROVE  ChainInv'
<1>1. TypeOK
    BY DEF ChainInv
<1>2. /\ link' = [j \in Reader |-> IF j = n THEN "new"
                                   ELSE IF j = n + 1 THEN "ended" ELSE link[j]]
      /\ frames' = [j \in Reader |->
                        IF j \in {n, n + 1} THEN <<>> ELSE frames[j]]
      /\ restarts < MaxRestarts /\ restarts' = restarts + 1
      /\ UNCHANGED <<db, request, last, rejected>>
    BY DEF Restart
<1>3. TypeOK'
    <2>1. restarts' \in 0 .. MaxRestarts
        BY <1>1, <1>2, NodeAssumption DEF TypeOK
    <2>2. link' \in [Reader -> {"new", "asking", "up", "ended"}]
        BY <1>1, <1>2 DEF TypeOK
    <2>3. frames' \in [Reader -> Seq(Lsn)]
        BY <1>1, <1>2 DEF TypeOK
    <2> QED BY <1>1, <1>2, <2>1, <2>2, <2>3 DEF TypeOK
<1>4. \A i \in Reader \cap {n, n + 1} : link'[i] \in {"new", "ended"}
    BY <1>2
<1>5. \A i \in Reader \ {n, n + 1} : link'[i] = link[i] /\ frames'[i] = frames[i]
    BY <1>2
<1> QED BY <1>2, <1>3, <1>4, <1>5, CutKeepsInv

\* What a batch puts on a link: the LSNs after sent, in order, up to the
\* current one of the node that serves it.
LEMMA BatchIsRest ==
    ASSUME PrefixReplicas, NEW n \in Reader, NEW sent \in Nat,
           sent <= CurrentLsn(n - 1)
    PROVE  /\ Batch(n, sent) \in Seq(Lsn)
           /\ Len(Batch(n, sent)) = CurrentLsn(n - 1) - sent
           /\ \A k \in 1 .. CurrentLsn(n - 1) - sent : Batch(n, sent)[k] = sent + k
<1> DEFINE c == CurrentLsn(n - 1)
<1>1. n - 1 \in Node /\ MaxLsn \in Nat
    BY NodeAssumption DEF Reader, Node
<1>2. c \in 0 .. MaxLsn /\ db[n - 1] = 1 .. c
    BY <1>1, HoldsPrefix
<1>3. CASE sent < c
    <2>1. Batch(n, sent) = ReadWalRange(n - 1, After(sent), c)
        BY <1>1, <1>2, <1>3 DEF Batch, HasMore
    <2> DEFINE m == n - 1
    <2>2. db[m] = 1 .. c /\ c \in 0 .. MaxLsn /\ sent < c
        BY <1>2, <1>3
    <2> HIDE DEF c, m
    <2>3. /\ ReadWalRange(m, After(sent), c) \in Seq(Lsn)
          /\ Len(ReadWalRange(m, After(sent), c)) = c - sent
          /\ \A k \in 1 .. c - sent : ReadWalRange(m, After(sent), c)[k] = sent + k
        BY <2>2, RangeOfPrefix
    <2> QED BY <2>1, <2>3 DEF c, m
<1>4. CASE sent = c
    <2>1. Batch(n, sent) = <<>>
        BY <1>1, <1>2, <1>4 DEF Batch, HasMore
    <2>2. c - sent = 0
        BY <1>1, <1>2, <1>4
    <2> QED BY <2>1, <2>2
<1> QED BY <1>1, <1>2, <1>3, <1>4

\* A request is answered.
LEMMA ServeInitialKeepsInv ==
    ASSUME ChainInv, NEW n \in Reader, ServeInitial(n)
    PROVE  ChainInv'
<1>1. PrefixReplicas /\ TypeOK /\ MaxLsn \in Nat
    BY NodeAssumption DEF ChainInv
<1>2. n \in Node /\ n - 1 \in Node /\ CurrentLsn(n) <= CurrentLsn(n - 1)
    BY <1>1, ReaderIsBehind
<1>3. CurrentLsn(n) \in 0 .. MaxLsn /\ CurrentLsn(n - 1) \in 0 .. MaxLsn
    BY <1>1, <1>2, HoldsPrefix
<1>4. /\ link[n] = "asking"
      /\ link' = [link EXCEPT ![n] = "up"]
      /\ frames' = [frames EXCEPT ![n] = Batch(n, request[n])]
      /\ last' = [last EXCEPT ![n] = CurrentLsn(n - 1)]
      /\ UNCHANGED <<db, request, rejected, restarts>>
    BY DEF ServeInitial
<1>5. request[n] = CurrentLsn(n)
    BY <1>4 DEF ChainInv, RequestIsCurrent
<1>6. /\ Batch(n, request[n]) \in Seq(Lsn)
      /\ Len(Batch(n, request[n])) = CurrentLsn(n - 1) - CurrentLsn(n)
      /\ \A k \in 1 .. CurrentLsn(n - 1) - CurrentLsn(n) :
            Batch(n, request[n])[k] = CurrentLsn(n) + k
    BY <1>1, <1>2, <1>3, <1>5, BatchIsRest
<1>7. PrefixReplicas' /\ \A i : CurrentLsn(i)' = CurrentLsn(i)
    BY <1>1, <1>4, SameDatabases
<1>8. TypeOK'
    BY <1>1, <1>3, <1>4, <1>6 DEF TypeOK
<1>9. \A i \in Reader : LinkCarriesRest(i)' /\ RequestIsCurrent(i)'
    <2> TAKE i \in Reader
    <2>1. LinkCarriesRest(i) /\ RequestIsCurrent(i)
        BY DEF ChainInv
    <2>2. CASE i = n
        <3>1. /\ link'[n] = "up" /\ last'[n] = CurrentLsn(n - 1)
              /\ frames'[n] = Batch(n, request[n])
            BY <1>1, <1>4 DEF TypeOK
        <3>2. DOMAIN frames'[n] = 1 .. CurrentLsn(n - 1) - CurrentLsn(n)
            BY <1>6, <3>1
        <3>3. LinkCarriesRest(n)'
            BY <1>2, <1>3, <1>6, <1>7, <3>1, <3>2 DEF LinkCarriesRest
        <3> QED BY <2>2, <3>1, <3>3 DEF RequestIsCurrent
    <2>3. CASE i # n
        <3>1. link'[i] = link[i] /\ last'[i] = last[i] /\ frames'[i] = frames[i]
            BY <1>1, <1>4, <2>3 DEF TypeOK
        <3> QED BY <1>4, <1>7, <2>1, <3>1 DEF LinkCarriesRest, RequestIsCurrent
    <2> QED BY <2>2, <2>3
<1> QED BY <1>7, <1>8, <1>9 DEF ChainInv

\* A sequence of consecutive LSNs that goes on consecutively.
LEMMA Continued ==
    ASSUME NEW s \in Seq(Lsn), NEW t \in Seq(Lsn), NEW a \in Nat,
           \A k \in DOMAIN s : s[k] = a + k,
           \A k \in 1 .. Len(t) : t[k] = a + Len(s) + k
    PROVE  /\ s \o t \in Seq(Lsn)
           /\ Len(s \o t) = Len(s) + Len(t)
           /\ \A k \in DOMAIN (s \o t) : (s \o t)[k] = a + k
<1>1. s \o t \in Seq(Lsn) /\ Len(s \o t) = Len(s) + Len(t)
    OBVIOUS
<1>2. \A k \in 1 .. Len(s) + Len(t) : (s \o t)[k] = a + k
    <2> TAKE k \in 1 .. Len(s) + Len(t)
    <2>1. CASE k <= Len(s)
        BY <2>1
    <2>2. CASE k > Len(s)
        <3>1. (s \o t)[k] = t[k - Len(s)]
            BY <2>2
        <3>2. k - Len(s) \in 1 .. Len(t)
            BY <2>2
        <3>3. t[k - Len(s)] = a + Len(s) + (k - Len(s))
            BY <3>2
        <3> QED BY <3>1, <3>3
    <2> QED BY <2>1, <2>2
<1> QED BY <1>1, <1>2

\* A poll finds new entries.
LEMMA ServeMoreKeepsInv ==
    ASSUME ChainInv, NEW n \in Reader, ServeMore(n)
    PROVE  ChainInv'
<1>1. PrefixReplicas /\ TypeOK /\ MaxLsn \in Nat
    BY NodeAssumption DEF ChainInv
<1>2. n \in Node /\ n - 1 \in Node
    BY <1>1, ReaderIsBehind
<1>3. CurrentLsn(n) \in 0 .. MaxLsn /\ CurrentLsn(n - 1) \in 0 .. MaxLsn
    BY <1>1, <1>2, HoldsPrefix
<1>4. /\ link[n] = "up"
      /\ frames' = [frames EXCEPT ![n] = @ \o Batch(n, last[n])]
      /\ last' = [last EXCEPT ![n] = CurrentLsn(n - 1)]
      /\ UNCHANGED <<db, link, request, rejected, restarts>>
    BY DEF ServeMore
<1>5. /\ last[n] \in Nat /\ CurrentLsn(n) <= last[n] /\ last[n] <= CurrentLsn(n - 1)
      /\ frames[n] \in Seq(Lsn) /\ Len(frames[n]) = last[n] - CurrentLsn(n)
      /\ \A k \in DOMAIN frames[n] : frames[n][k] = CurrentLsn(n) + k
    BY <1>1, <1>4 DEF ChainInv, LinkCarriesRest, TypeOK
<1> DEFINE b == Batch(n, last[n])
<1>6. /\ b \in Seq(Lsn) /\ Len(b) = CurrentLsn(n - 1) - last[n]
      /\ \A k \in 1 .. CurrentLsn(n - 1) - last[n] : b[k] = last[n] + k
    BY <1>1, <1>5, BatchIsRest
<1>7. /\ frames[n] \o b \in Seq(Lsn)
      /\ Len(frames[n] \o b) = CurrentLsn(n - 1) - CurrentLsn(n)
      /\ \A k \in DOMAIN (frames[n] \o b) : (frames[n] \o b)[k] = CurrentLsn(n) + k
    <2> HIDE DEF b
    <2>1. \A k \in 1 .. Len(b) : b[k] = CurrentLsn(n) + Len(frames[n]) + k
        BY <1>3, <1>5, <1>6
    <2>2. CurrentLsn(n) \in Nat
        BY <1>3
    <2>3. /\ frames[n] \o b \in Seq(Lsn)
          /\ Len(frames[n] \o b) = Len(frames[n]) + Len(b)
          /\ \A k \in DOMAIN (frames[n] \o b) : (frames[n] \o b)[k] = CurrentLsn(n) + k
        BY <1>5, <1>6, <2>1, <2>2, Continued
    <2> QED BY <1>3, <1>5, <1>6, <2>3
<1>8. PrefixReplicas' /\ \A i : CurrentLsn(i)' = CurrentLsn(i)
    BY <1>1, <1>4, SameDatabases
<1>9. TypeOK'
    BY <1>1, <1>3, <1>4, <1>7 DEF TypeOK
<1>10. \A i \in Reader : LinkCarriesRest(i)' /\ RequestIsCurrent(i)'
    <2> TAKE i \in Reader
    <2>1. LinkCarriesRest(i) /\ RequestIsCurrent(i)
        BY DEF ChainInv
    <2>2. CASE i = n
        <3>1. last'[n] = CurrentLsn(n - 1) /\ frames'[n] = frames[n] \o b
            BY <1>1, <1>4 DEF TypeOK
        <3> HIDE DEF b
        <3>2. LinkCarriesRest(n)'
            BY <1>3, <1>5, <1>7, <1>8, <3>1 DEF LinkCarriesRest
        <3> QED BY <1>4, <2>2, <3>2 DEF RequestIsCurrent
    <2>3. CASE i # n
        <3>1. last'[i] = last[i] /\ frames'[i] = frames[i]
            BY <1>1, <1>4, <2>3 DEF TypeOK
        <3> QED BY <1>4, <1>8, <2>1, <3>1 DEF LinkCarriesRest, RequestIsCurrent
    <2> QED BY <2>2, <2>3
<1> QED BY <1>8, <1>9, <1>10 DEF ChainInv

\* A frame is applied: it is the next entry its reader lacks.
LEMMA ApplyFrameKeepsInv ==
    ASSUME ChainInv, NEW n \in Reader, ApplyFrame(n)
    PROVE  /\ ChainInv'
           /\ CurrentLsn(n) < CurrentLsn(n - 1)
           /\ CurrentLsn(n)' = CurrentLsn(n) + 1
           /\ \A i \in Node \ {n} : CurrentLsn(i)' = CurrentLsn(i)
<1>1. PrefixReplicas /\ TypeOK /\ MaxLsn \in Nat /\ N \in Nat
    BY NodeAssumption DEF ChainInv
<1>2. n \in Node /\ n - 1 \in Node /\ n # 1 /\ n - 1 # n
    BY <1>1 DEF Reader, Node
<1>3. CurrentLsn(n) \in 0 .. MaxLsn /\ CurrentLsn(n - 1) \in 0 .. MaxLsn
    BY <1>1, <1>2, HoldsPrefix
<1>4. /\ link[n] = "up" /\ frames[n] # <<>>
      /\ db' = [db EXCEPT ![n] = @ \cup {Head(frames[n])}]
      /\ frames' = [frames EXCEPT ![n] = Tail(@)]
      /\ UNCHANGED <<link, request, last, rejected, restarts>>
    BY DEF ApplyFrame
<1>5. /\ last[n] \in Nat /\ CurrentLsn(n) <= last[n] /\ last[n] <= CurrentLsn(n - 1)
      /\ frames[n] \in Seq(Lsn) /\ Len(frames[n]) = last[n] - CurrentLsn(n)
      /\ \A k \in DOMAIN frames[n] : frames[n][k] = CurrentLsn(n) + k
    BY <1>1, <1>4 DEF ChainInv, LinkCarriesRest, TypeOK
<1>6. Len(frames[n]) > 0 /\ Head(frames[n]) = CurrentLsn(n) + 1
    <2>1. Len(frames[n]) > 0 /\ 1 \in DOMAIN frames[n]
        BY <1>4, <1>5
    <2>2. frames[n][1] = CurrentLsn(n) + 1
        BY <1>5, <2>1
    <2> QED BY <1>4, <1>5, <2>1, <2>2
<1>7. CurrentLsn(n) < last[n] /\ CurrentLsn(n) < CurrentLsn(n - 1) /\ CurrentLsn(n) < MaxLsn
    BY <1>1, <1>3, <1>5, <1>6
<1>8. /\ PrefixReplicas'
      /\ CurrentLsn(n)' = CurrentLsn(n) + 1
      /\ \A i \in Node \ {n} : CurrentLsn(i)' = CurrentLsn(i)
    BY <1>1, <1>2, <1>4, <1>6, <1>7, OneGrows DEF TypeOK
<1>9. Tail(frames[n]) \in Seq(Lsn) /\ Len(Tail(frames[n])) = Len(frames[n]) - 1
    BY <1>4, <1>5
<1>10. TypeOK'
    <2>1. CurrentLsn(n) + 1 \in Lsn
        BY <1>1, <1>3, <1>7 DEF Lsn
    <2>2. db' \in [Node -> SUBSET Lsn]
        BY <1>1, <1>4, <1>6, <2>1 DEF TypeOK
    <2>3. frames' \in [Reader -> Seq(Lsn)]
        BY <1>1, <1>4, <1>9 DEF TypeOK
    <2> QED BY <1>1, <1>4, <2>2, <2>3 DEF TypeOK
<1>11. \A i \in Reader : LinkCarriesRest(i)' /\ RequestIsCurrent(i)'
    <2> TAKE i \in Reader
    <2>1. LinkCarriesRest(i) /\ RequestIsCurrent(i)
        BY DEF ChainInv
    <2>2. i \in Node /\ i - 1 \in Node /\ i - 1 # i
        BY <1>1 DEF Reader, Node
    <2>3. CASE i = n
        <3>1. link'[n] = "up" /\ last'[n] = last[n] /\ frames'[n] = Tail(frames[n])
            BY <1>1, <1>4 DEF TypeOK
        <3>2. CurrentLsn(n - 1)' = CurrentLsn(n - 1)
            BY <1>2, <1>8
        <3>3. CurrentLsn(n)' <= last[n] /\ Len(frames'[n]) = last[n] - CurrentLsn(n)'
            BY <1>1, <1>3, <1>5, <1>7, <1>8, <1>9, <3>1
        <3>4. \A k \in DOMAIN Tail(frames[n]) :
                Tail(frames[n])[k] = CurrentLsn(n) + 1 + k
            <4> TAKE k \in DOMAIN Tail(frames[n])
            <4>1. k + 1 \in DOMAIN frames[n] /\ Tail(frames[n])[k] = frames[n][k + 1]
                BY <1>5, <1>6, <1>9
            <4>2. frames[n][k + 1] = CurrentLsn(n) + (k + 1)
                BY <1>5, <4>1
            <4>3. k \in Nat /\ CurrentLsn(n) \in Nat
                BY <1>3, <1>9
            <4> QED BY <4>1, <4>2, <4>3
        <3>5. LinkCarriesRest(n)'
            BY <1>5, <1>8, <3>1, <3>2, <3>3, <3>4 DEF LinkCarriesRest
        <3> QED BY <2>3, <3>1, <3>5 DEF RequestIsCurrent
    <2>4. CASE i # n
        <3>1. /\ link'[i] = link[i] /\ last'[i] = last[i] /\ frames'[i] = frames[i]
              /\ request'[i] = request[i] /\ last[i] \in Nat
            BY <1>1, <1>4, <2>4 DEF TypeOK
        <3>2. CurrentLsn(i)' = CurrentLsn(i)
            BY <1>8, <2>2, <2>4
        <3>3. CurrentLsn(i - 1) \in Nat
            BY <1>1, <2>2, HoldsPrefix
        <3>4. CurrentLsn(i - 1)' \in Nat /\ CurrentLsn(i - 1) <= CurrentLsn(i - 1)'
            BY <1>3, <1>8, <2>2, <3>3
        <3>5. LinkCarriesRest(i)'
            BY <2>1, <3>1, <3>2, <3>3, <3>4 DEF LinkCarriesRest
        <3> QED BY <2>1, <3>1, <3>2, <3>5 DEF RequestIsCurrent
    <2> QED BY <2>3, <2>4
<1> QED BY <1>7, <1>8, <1>10, <1>11 DEF ChainInv

\* Databases that reject nothing take no RejectFrame step.
LEMMA NothingRejected ==
    ASSUME MaxRejected = 0, ChainInv, NEW n \in Reader, RejectFrame(n)
    PROVE  FALSE
<1>1. n \in Node /\ MaxLsn \in Nat
    BY NodeAssumption DEF Reader, Node
<1>2. rejected[n] \subseteq 1 .. MaxLsn
    BY <1>1 DEF ChainInv, TypeOK, Lsn
<1>3. IsFiniteSet(1 .. MaxLsn)
    BY <1>1, FS_Interval
<1>4. Cardinality(rejected[n]) \in Nat
    BY <1>2, <1>3, FS_Subset, FS_CardinalityType
<1> QED BY <1>4 DEF RejectFrame

-----------------------------------------------------------------------------
(* Theorems *)

\* A chain starts gapless, with empty links.
LEMMA InitHasInv ==
    ASSUME Init
    PROVE  ChainInv
<1>1. MaxLsn \in Nat /\ N \in Nat /\ MaxRestarts \in Nat
    BY NodeAssumption
<1>2. TypeOK
    BY <1>1 DEF Init, TypeOK
<1>3. \A i \in Reader : i \in Node /\ i - 1 \in Node
    BY <1>1 DEF Reader, Node
<1>4. PrefixReplicas
    <2>1. {} = 1 .. 0 /\ 0 \in 0 .. MaxLsn
        BY <1>1
    <2>2. \A i \in Node : \E c \in 0 .. MaxLsn : db[i] = 1 .. c
        BY <2>1 DEF Init
    <2>3. \A i \in Reader : db[i] \subseteq db[i - 1]
        BY <1>3 DEF Init
    <2> QED BY <2>2, <2>3 DEF PrefixReplicas
<1>5. \A i \in Reader : LinkCarriesRest(i) /\ RequestIsCurrent(i)
    BY DEF Init, LinkCarriesRest, RequestIsCurrent
<1> QED BY <1>2, <1>4, <1>5 DEF ChainInv

\* A step that changes nothing.
LEMMA StutterKeepsInv ==
    ASSUME ChainInv, UNCHANGED vars
    PROVE  ChainInv'
<1>1. UNCHANGED <<db, link, request, last, frames, rejected, restarts>>
    BY DEF vars, linkVars
<1>2. PrefixReplicas' /\ \A i : CurrentLsn(i)' = CurrentLsn(i)
    BY <1>1, SameDatabases DEF ChainInv
<1>3. TypeOK'
    BY <1>1 DEF ChainInv, TypeOK
<1>4. \A i \in Reader : LinkCarriesRest(i)' /\ RequestIsCurrent(i)'
    BY <1>1, <1>2 DEF ChainInv, LinkCarriesRest, RequestIsCurrent
<1> QED BY <1>2, <1>3, <1>4 DEF ChainInv

\* The inductive invariant of chains whose databases reject nothing, for every
\* length of the chain, log, and number of restarts: replicas are gapless, a
\* link that is up carries exactly what its reader lacks of what was sent, and
\* an unanswered request is current.
THEOREM ChainInvariant ==
    ASSUME MaxRejected = 0
    PROVE  Spec => []ChainInv
<1>1. Init => ChainInv
    BY InitHasInv
<1>2. ChainInv /\ [Next]_vars => ChainInv'
    <2> SUFFICES ASSUME ChainInv, [Next]_vars PROVE ChainInv'
        OBVIOUS
    <2>1. CASE Commit
        BY <2>1, CommitKeepsInv
    <2>2. CASE \E i \in Reader : Connect(i)
        BY <2>2, ConnectKeepsInv
    <2>3. CASE \E i \in Reader : Break(i)
        BY <2>3, BreakKeepsInv
    <2>4. CASE \E i \in Reader : ServeInitial(i)
        BY <2>4, ServeInitialKeepsInv
    <2>5. CASE \E i \in Reader : ServeMore(i)
        BY <2>5, ServeMoreKeepsInv
    <2>6. CASE \E i \in Reader : ApplyFrame(i)
        BY <2>6, ApplyFrameKeepsInv
    <2>7. CASE \E i \in Reader : RejectFrame(i)
        BY <2>7, NothingRejected
    <2>8. CASE \E i \in Node : Restart(i)
        BY <2>8, RestartKeepsInv
    <2>9. CASE UNCHANGED vars
        BY <2>9, StutterKeepsInv
    <2> QED BY <2>1, <2>2, <2>3, <2>4, <2>5, <2>6, <2>7, <2>8, <2>9 DEF Next
<1> QED BY <1>1, <1>2, PTL DEF Spec

\* Every replica of such a chain is a gapless prefix of the log it copies,
\* whatever links break and whichever processes restart (serve_writer and
\* serve_reader of stoolap-node).
THEOREM ReplicasAreGapless ==
    ASSUME MaxRejected = 0
    PROVE  Spec => []PrefixReplicas
<1>1. ChainInv => PrefixReplicas
    BY DEF ChainInv
<1> QED BY <1>1, ChainInvariant, PTL

\* Such a chain implements ReplicaChain: every step of it lets no replica
\* change, or lets the writer write, or one node copy the next entry.
THEOREM ImplementsChain ==
    ASSUME MaxRejected = 0
    PROVE  Spec => ImplementsReplicaChain
<1> DEFINE len == [i \in Node |-> CurrentLsn(i)]
<1>1. Init => Chain!Init
    <2> SUFFICES ASSUME Init PROVE Chain!Init
        OBVIOUS
    <2>1. \A i \in Node : CurrentLsn(i) = 0
        BY DEF Init, CurrentLsn, Highest
    <2> QED BY <2>1 DEF Chain!Init, Node
<1>2. ChainInv /\ [Next]_vars => [Chain!Next]_len
    <2> SUFFICES ASSUME ChainInv, [Next]_vars PROVE [Chain!Next]_len
        OBVIOUS
    <2>1. PrefixReplicas /\ TypeOK /\ 1 \in Node /\ MaxLsn \in Nat
        BY NodeAssumption DEF ChainInv, Node
    <2>2. CASE Commit
        <3>1. /\ CurrentLsn(1) < MaxLsn
              /\ db' = [db EXCEPT ![1] = @ \cup {CurrentLsn(1) + 1}]
            BY <2>2 DEF Commit, NextLsn
        <3>2. /\ CurrentLsn(1)' = CurrentLsn(1) + 1
              /\ \A i \in Node \ {1} : CurrentLsn(i)' = CurrentLsn(i)
            BY <2>1, <3>1, OneGrows DEF TypeOK
        <3>3. len' = [len EXCEPT ![1] = @ + 1]
            BY <2>1, <3>2
        <3>4. Chain!Write
            BY <2>1, <3>1, <3>3 DEF Chain!Write
        <3> QED BY <3>4 DEF Chain!Next
    <2>3. CASE \E i \in Reader : ApplyFrame(i)
        <3>1. PICK n \in Reader : ApplyFrame(n)
            BY <2>3
        <3>2. n \in Node /\ n - 1 \in Node /\ n \in 2 .. N
            BY NodeAssumption DEF Reader, Node
        <3>3. /\ CurrentLsn(n) < CurrentLsn(n - 1)
              /\ CurrentLsn(n)' = CurrentLsn(n) + 1
              /\ \A i \in Node \ {n} : CurrentLsn(i)' = CurrentLsn(i)
            BY <3>1, ApplyFrameKeepsInv
        <3>4. len' = [len EXCEPT ![n] = @ + 1]
            BY <3>2, <3>3
        <3>5. Chain!Copy(n)
            BY <3>2, <3>3, <3>4 DEF Chain!Copy
        <3> QED BY <3>2, <3>5 DEF Chain!Next
    <2>4. CASE db' = db
        <3>1. \A i : CurrentLsn(i)' = CurrentLsn(i)
            BY <2>4, SameDatabases
        <3> QED BY <3>1
    <2>5. ASSUME ~Commit, ~(\E i \in Reader : ApplyFrame(i))
          PROVE  db' = db
        BY <2>5 DEF Next, vars, Connect, Break, ServeInitial, ServeMore,
                    RejectFrame, Restart
    <2> QED BY <2>2, <2>3, <2>4, <2>5
<1> QED BY <1>1, <1>2, ChainInvariant, PTL DEF Spec, ImplementsReplicaChain, Chain!Spec

-----------------------------------------------------------------------------
(* Databases that reject entries *)

\* current_lsn is the highest LSN of the database.
LEMMA HighestIsHighest ==
    ASSUME NEW i \in Node, db[i] \subseteq Lsn, HasHighest(i)
    PROVE  /\ CurrentLsn(i) \in 0 .. MaxLsn
           /\ \A k \in db[i] : k <= CurrentLsn(i)
<1>1. MaxLsn \in Nat
    BY NodeAssumption
<1>2. CASE db[i] = {}
    BY <1>1, <1>2 DEF CurrentLsn, Highest
<1>3. CASE db[i] # {}
    <2> DEFINE h == CHOOSE l \in db[i] : \A k \in db[i] : k <= l
    <2>1. \E l \in db[i] : \A k \in db[i] : k <= l
        BY <1>3 DEF HasHighest
    <2>2. h \in db[i] /\ \A k \in db[i] : k <= h
        BY <2>1
    <2>3. CurrentLsn(i) = h
        BY <1>3 DEF CurrentLsn, Highest
    <2> HIDE DEF h
    <2> QED BY <1>1, <2>2, <2>3 DEF Lsn
<1> QED BY <1>2, <1>3

\* The place of an LSN among those of S.
LEMMA Ranks ==
    ASSUME NEW S \in SUBSET Lsn
    PROVE  /\ IsFiniteSet(S) /\ Cardinality(S) \in Nat
           /\ \A l \in S : Cardinality({j \in S : j <= l}) \in 1 .. Cardinality(S)
           /\ \A k, l \in S : k < l =>
                Cardinality({j \in S : j <= k}) < Cardinality({j \in S : j <= l})
<1> DEFINE upto(l) == {j \in S : j <= l}
<1>1. MaxLsn \in Nat /\ S \subseteq 1 .. MaxLsn
    BY NodeAssumption DEF Lsn
<1>2. IsFiniteSet(S) /\ Cardinality(S) \in Nat
    <2>1. IsFiniteSet(1 .. MaxLsn)
        BY <1>1, FS_Interval
    <2>2. IsFiniteSet(S)
        BY <1>1, <2>1, FS_Subset
    <2> QED BY <2>2, FS_CardinalityType
<1>3. \A l \in S : /\ IsFiniteSet(upto(l)) /\ Cardinality(upto(l)) \in Nat
                   /\ Cardinality(upto(l)) <= Cardinality(S)
    <2> TAKE l \in S
    <2>1. upto(l) \in SUBSET S
        OBVIOUS
    <2> HIDE DEF upto
    <2> QED BY <1>2, <2>1, FS_Subset, FS_CardinalityType
<1>4. \A l \in S : Cardinality(upto(l)) # 0
    <2> TAKE l \in S
    <2>1. upto(l) # {}
        BY <1>1
    <2> HIDE DEF upto
    <2> QED BY <1>3, <2>1, FS_EmptySet
<1>5. \A k, l \in S : k < l => Cardinality(upto(k)) < Cardinality(upto(l))
    <2> TAKE k, l \in S
    <2> HAVE k < l
    <2>1. k \in Nat /\ l \in Nat /\ \A j \in S : j \in Nat
        BY <1>1
    <2>2. (\A j \in S : j <= k => j <= l) /\ l <= l /\ ~(l <= k)
        BY <2>1
    <2>3. upto(k) \in SUBSET upto(l) /\ l \in upto(l) /\ l \notin upto(k)
        BY <2>2, Zenon
    <2> HIDE DEF upto
    <2>4. /\ Cardinality(upto(k)) <= Cardinality(upto(l))
          /\ Cardinality(upto(l)) # Cardinality(upto(k))
        BY <1>3, <2>3, FS_Subset
    <2> QED BY <1>3, <2>4
<1>6. \A l \in S : Cardinality(upto(l)) \in 1 .. Cardinality(S)
    <2> HIDE DEF upto
    <2> QED BY <1>2, <1>3, <1>4
<1> QED BY <1>2, <1>5, <1>6

\* InOrder lists every LSN of S, in ascending order: as many places as LSNs,
\* and no two LSNs in one place.
LEMMA InOrderLists ==
    ASSUME NEW S \in SUBSET Lsn
    PROVE  /\ InOrder(S) \in Seq(S)
           /\ \A j, k \in DOMAIN InOrder(S) : j < k => InOrder(S)[j] < InOrder(S)[k]
           /\ \A l \in S : \E k \in DOMAIN InOrder(S) : InOrder(S)[k] = l
<1> DEFINE rank == [l \in S |-> Cardinality({j \in S : j <= l})]
           n == Cardinality(S)
<1>1. /\ IsFiniteSet(S) /\ n \in Nat
      /\ \A l \in S : rank[l] \in 1 .. n
      /\ \A k, l \in S : k < l => rank[k] < rank[l]
    BY Ranks
<1>2. \A l \in S : l \in Nat
    BY NodeAssumption DEF Lsn
<1>3. \A k, l \in S : rank[k] = rank[l] => k = l
    <2> TAKE k, l \in S
    <2> HAVE rank[k] = rank[l]
    <2>1. rank[k] \in Nat /\ rank[l] \in Nat
        BY <1>1
    <2> HIDE DEF rank
    <2>2. ~(k < l) /\ ~(l < k)
        BY <1>1, <2>1
    <2> QED BY <1>2, <2>2
<1>4. rank \in Injection(S, 1 .. n)
    <2>1. rank \in [S -> 1 .. n]
        BY <1>1
    <2> HIDE DEF rank, n
    <2> QED BY <1>3, <2>1 DEF Injection, IsInjective
<1>5. IsFiniteSet(1 .. n) /\ Cardinality(1 .. n) = n
    BY <1>1, FS_Interval
<1>6. rank \in Surjection(S, 1 .. n)
    <2> HIDE DEF rank
    <2> QED BY <1>4, <1>5, FS_Injection
<1>7. \A k \in 1 .. n : \E l \in S : rank[l] = k
    <2> HIDE DEF rank, n
    <2> QED BY <1>6 DEF Surjection
<1>8. InOrder(S) = [k \in 1 .. n |->
            CHOOSE l \in S : Cardinality({j \in S : j <= l}) = k]
    BY DEF InOrder
<1>9. \A k \in 1 .. n : InOrder(S)[k] \in S /\ rank[InOrder(S)[k]] = k
    <2> TAKE k \in 1 .. n
    <2> DEFINE x == CHOOSE l \in S : Cardinality({j \in S : j <= l}) = k
    <2>1. \E l \in S : Cardinality({j \in S : j <= l}) = k
        BY <1>7
    <2>2. x \in S /\ Cardinality({j \in S : j <= x}) = k
        BY <2>1
    <2>3. InOrder(S)[k] = x
        BY <1>8
    <2> HIDE DEF x, n
    <2> QED BY <2>2, <2>3
<1>10. DOMAIN InOrder(S) = 1 .. n
    BY <1>8
<1>11. InOrder(S) \in Seq(S)
    <2> HIDE DEF rank, n
    <2>1. InOrder(S) \in [1 .. n -> S]
        BY <1>8, <1>9, <1>10
    <2> QED BY <1>1, <2>1
<1> HIDE DEF rank, n
<1>12. \A j, k \in 1 .. n : j < k => InOrder(S)[j] < InOrder(S)[k]
    <2> TAKE j, k \in 1 .. n
    <2> HAVE j < k
    <2> DEFINE a == InOrder(S)[j]
               b == InOrder(S)[k]
    <2>1. a \in S /\ b \in S /\ rank[a] = j /\ rank[b] = k
        BY <1>9
    <2> HIDE DEF a, b
    <2>2. j \in Nat /\ k \in Nat
        BY <1>1
    <2>3. ~(b < a) /\ a # b
        BY <1>1, <2>1, <2>2
    <2>4. a < b
        BY <1>2, <2>1, <2>3
    <2> QED BY <2>4 DEF a, b
<1>13. \A l \in S : rank[l] \in 1 .. n /\ InOrder(S)[rank[l]] = l
    <2> TAKE l \in S
    <2>1. rank[l] \in 1 .. n
        BY <1>1
    <2>2. InOrder(S)[rank[l]] \in S /\ rank[InOrder(S)[rank[l]]] = rank[l]
        BY <1>9, <2>1
    <2> QED BY <1>3, <2>1, <2>2
<1> QED BY <1>10, <1>11, <1>12, <1>13

\* What a batch puts on a link: what the node that serves it holds above sent,
\* in ascending order.
LEMMA BatchLists ==
    ASSUME TypeOK, \A i \in Node : HasHighest(i), NEW n \in Reader, NEW sent \in Nat
    PROVE  /\ Batch(n, sent) \in Seq(Lsn)
           /\ \A j, k \in DOMAIN Batch(n, sent) :
                j < k => Batch(n, sent)[j] < Batch(n, sent)[k]
           /\ \A k \in DOMAIN Batch(n, sent) :
                sent < Batch(n, sent)[k] /\ Batch(n, sent)[k] <= CurrentLsn(n - 1)
           /\ \A l \in db[n - 1] : sent < l =>
                \E k \in DOMAIN Batch(n, sent) : Batch(n, sent)[k] = l
<1> DEFINE c == CurrentLsn(n - 1)
           S == {l \in db[n - 1] : After(sent) <= l /\ l <= c}
<1>1. n - 1 \in Node /\ MaxLsn \in Nat
    BY NodeAssumption DEF Reader, Node
<1>2. db[n - 1] \subseteq Lsn
    BY <1>1 DEF TypeOK
<1>3. c \in Nat /\ \A l \in db[n - 1] : l \in Nat /\ l <= c
    <2> DEFINE m == n - 1
    <2>1. m \in Node /\ db[m] \subseteq Lsn /\ HasHighest(m)
        BY <1>1, <1>2
    <2> HIDE DEF m
    <2>2. CurrentLsn(m) \in 0 .. MaxLsn /\ \A k \in db[m] : k <= CurrentLsn(m)
        BY <2>1, HighestIsHighest
    <2>3. \A k \in db[m] : k \in Nat
        BY <1>1, <2>1 DEF Lsn
    <2> QED BY <1>1, <2>2, <2>3 DEF m
<1>4. CASE sent < c
    <2>1. Batch(n, sent) = InOrder(S)
        BY <1>3, <1>4 DEF Batch, HasMore, ReadWalRange
    <2>2. S \in SUBSET Lsn
        BY <1>2
    <2>3. \A l \in S : sent < l /\ l <= c
        BY <1>3 DEF After
    <2>4. \A l \in db[n - 1] : sent < l => l \in S
        BY <1>3 DEF After
    <2> HIDE DEF S, c
    <2>5. /\ InOrder(S) \in Seq(S)
          /\ \A j, k \in DOMAIN InOrder(S) : j < k => InOrder(S)[j] < InOrder(S)[k]
          /\ \A l \in S : \E k \in DOMAIN InOrder(S) : InOrder(S)[k] = l
        BY <2>2, InOrderLists
    <2> DEFINE b == InOrder(S)
    <2>6. /\ b \in Seq(S)
          /\ \A j, k \in DOMAIN b : j < k => b[j] < b[k]
          /\ \A l \in S : \E k \in DOMAIN b : b[k] = l
        BY <2>5
    <2>7. Batch(n, sent) = b
        BY <2>1
    <2> HIDE DEF b
    <2>8. \A k \in DOMAIN b : b[k] \in S
        BY <2>6
    <2>9. b \in Seq(Lsn)
        BY <2>2, <2>6
    <2> QED BY <2>3, <2>4, <2>6, <2>7, <2>8, <2>9 DEF c
<1>5. CASE ~(sent < c)
    <2>1. Batch(n, sent) = <<>>
        BY <1>3, <1>5 DEF Batch, HasMore
    <2>2. \A l \in db[n - 1] : ~(sent < l)
        BY <1>3, <1>5
    <2> QED BY <2>1, <2>2
<1> QED BY <1>4, <1>5

\* A step that takes nothing out of the databases or the rejected entries.
LEMMA AccountsGrow ==
    ASSUME \A i \in Node : db[i] \subseteq db'[i] /\ rejected[i] \subseteq rejected'[i],
           NEW i \in Node, NEW l, Accounted(i, l)
    PROVE  Accounted(i, l)'
<1>1. \A j \in 2 .. i : j \in Node
    BY NodeAssumption DEF Node
<1> QED BY <1>1 DEF Accounted

\* HolesAreRejected in terms of Accounted.
LEMMA HolesAccounted ==
    HolesAreRejected <=> \A i \in Node : \A l \in 1 .. CurrentLsn(i) : Accounted(i, l)
BY DEF HolesAreRejected, Accounted

\* What a node has accounted for, the nodes after it have not to ask for.
LEMMA AccountedBefore ==
    ASSUME NEW i \in Reader, NEW l, Accounted(i - 1, l), l \notin db[i - 1]
    PROVE  Accounted(i, l)
<1>1. \A j \in 2 .. i - 1 : j \in 2 .. i
    BY NodeAssumption DEF Reader
<1> QED BY <1>1 DEF Accounted

\* An LSN is added to one database.
LEMMA OneAdded ==
    ASSUME HolesInv, NEW n \in Node, NEW e \in Lsn,
           db' = [db EXCEPT ![n] = @ \cup {e}],
           \A l \in 1 .. e - 1 : Accounted(n, l),
           rejected' = rejected
    PROVE  /\ HolesAreRejected'
           /\ \A i \in Node : HasHighest(i)'
           /\ \A i \in Node \ {n} : CurrentLsn(i)' = CurrentLsn(i)
           /\ \A i \in Node : CurrentLsn(i) <= CurrentLsn(i)'
                              /\ CurrentLsn(i)' \in 0 .. MaxLsn
<1>1. TypeOK /\ MaxLsn \in Nat /\ e \in Nat
    BY NodeAssumption DEF HolesInv, Lsn
<1>2. /\ db'[n] = db[n] \cup {e} /\ \A i \in Node \ {n} : db'[i] = db[i]
      /\ \A i \in Node : db[i] \subseteq Lsn /\ db'[i] \subseteq Lsn
    BY <1>1 DEF TypeOK
<1>3. \A i \in Node : \A k \in db'[i] : k \in Nat
    BY <1>1, <1>2 DEF Lsn
<1>4. \A i \in Node : /\ CurrentLsn(i) \in 0 .. MaxLsn
                      /\ \A k \in db[i] : k <= CurrentLsn(i)
    BY <1>2, HighestIsHighest DEF HolesInv
<1>5. HasHighest(n)'
    <2>1. CASE db[n] = {}
        BY <1>1, <1>2, <2>1 DEF HasHighest
    <2>2. CASE db[n] # {}
        <3>1. PICK l \in db[n] : \A k \in db[n] : k <= l
            BY <2>2 DEF HolesInv, HasHighest
        <3>2. l \in Nat
            BY <1>2, <1>3
        <3>3. CASE l <= e
            BY <1>1, <1>2, <1>3, <3>1, <3>2, <3>3 DEF HasHighest
        <3>4. CASE e <= l
            BY <1>1, <1>2, <1>3, <3>1, <3>2, <3>4 DEF HasHighest
        <3> QED BY <1>1, <3>2, <3>3, <3>4
    <2> QED BY <2>1, <2>2
<1>6. \A i \in Node : HasHighest(i)'
    BY <1>2, <1>5 DEF HolesInv, HasHighest
<1>7. \A i \in Node \ {n} : CurrentLsn(i)' = CurrentLsn(i)
    BY <1>2 DEF CurrentLsn
<1>8. /\ CurrentLsn(n)' \in 0 .. MaxLsn
      /\ \A k \in db'[n] : k <= CurrentLsn(n)'
      /\ CurrentLsn(n)' \in db'[n]
    <2> DEFINE h == CHOOSE l \in db'[n] : \A k \in db'[n] : k <= l
    <2>1. \E l \in db'[n] : \A k \in db'[n] : k <= l
        BY <1>2, <1>5 DEF HasHighest
    <2>2. h \in db'[n] /\ \A k \in db'[n] : k <= h
        BY <2>1
    <2>3. CurrentLsn(n)' = h
        BY <1>2 DEF CurrentLsn, Highest
    <2> HIDE DEF h
    <2>4. h \in 1 .. MaxLsn
        BY <1>2, <2>2 DEF Lsn
    <2> QED BY <1>1, <2>2, <2>3, <2>4
<1>9. CurrentLsn(n) <= CurrentLsn(n)'
    <2>1. CASE db[n] = {}
        BY <1>1, <1>8, <2>1 DEF CurrentLsn, Highest
    <2>2. CASE db[n] # {}
        <3> DEFINE h == CHOOSE l \in db[n] : \A k \in db[n] : k <= l
        <3>1. \E l \in db[n] : \A k \in db[n] : k <= l
            BY <2>2 DEF HolesInv, HasHighest
        <3>2. h \in db[n]
            BY <3>1
        <3>3. CurrentLsn(n) = h
            BY <2>2 DEF CurrentLsn, Highest
        <3> HIDE DEF h
        <3> QED BY <1>2, <1>8, <3>2, <3>3
    <2> QED BY <2>1, <2>2
<1>10. \A i \in Node : \A l : Accounted(i, l) => Accounted(i, l)'
    BY <1>2, AccountsGrow
<1>11. \A i \in Node : \A l \in 1 .. CurrentLsn(i)' : Accounted(i, l)'
    <2> TAKE i \in Node
    <2> TAKE l \in 1 .. CurrentLsn(i)'
    <2>1. CASE i # n
        <3>1. l \in 1 .. CurrentLsn(i)
            BY <1>7, <2>1
        <3> QED BY <1>10, <3>1, HolesAccounted DEF HolesInv
    <2>2. CASE i = n
        <3>1. CASE CurrentLsn(n)' = e
            <4>1. l = e \/ l \in 1 .. e - 1
                BY <1>1, <2>2, <3>1
            <4>2. e \in db'[n]
                BY <1>2
            <4> QED BY <1>10, <2>2, <4>1, <4>2 DEF Accounted
        <3>2. CASE CurrentLsn(n)' # e
            <4>1. CurrentLsn(n)' \in db[n]
                BY <1>2, <1>8, <3>2
            <4>2. l \in 1 .. CurrentLsn(n)
                BY <1>1, <1>4, <1>8, <2>2, <4>1
            <4> QED BY <1>10, <2>2, <4>2, HolesAccounted DEF HolesInv
        <3> QED BY <3>1, <3>2
    <2> QED BY <2>1, <2>2
<1>12. HolesAreRejected'
    BY <1>11, HolesAccounted DEF HolesAreRejected, Accounted
<1>13. \A i \in Node : CurrentLsn(i) <= CurrentLsn(i)'
                       /\ CurrentLsn(i)' \in 0 .. MaxLsn
    BY <1>4, <1>7, <1>8, <1>9
<1> QED BY <1>6, <1>7, <1>12, <1>13

\* A step that leaves the databases alone and takes back no rejection.
LEMMA HolesFrame ==
    ASSUME HolesInv, db' = db, \A i \in Node : rejected[i] \subseteq rejected'[i]
    PROVE  /\ HolesAreRejected'
           /\ \A i \in Node : HasHighest(i)'
           /\ \A i : CurrentLsn(i)' = CurrentLsn(i)
           /\ \A i \in Node : \A l : Accounted(i, l) => Accounted(i, l)'
<1>1. \A i : CurrentLsn(i)' = CurrentLsn(i)
    BY DEF CurrentLsn
<1>2. \A i \in Node : \A l : Accounted(i, l) => Accounted(i, l)'
    BY AccountsGrow
<1>3. \A i \in Node : \A l \in 1 .. CurrentLsn(i)' : Accounted(i, l)'
    BY <1>1, <1>2, HolesAccounted DEF HolesInv
<1>4. HolesAreRejected'
    BY <1>3 DEF HolesAreRejected, Accounted
<1> QED BY <1>1, <1>2, <1>4 DEF HolesInv, HasHighest

\* The link of a reader that a step does not touch.
LEMMA LinkFrame ==
    ASSUME NEW i \in Reader, LinkAccounts(i), RequestIsCurrent(i),
           link'[i] \in {link[i], "new", "ended"},
           link'[i] = link[i] => frames'[i] = frames[i] /\ last'[i] = last[i]
                                 /\ request'[i] = request[i],
           link'[i] = "asking" => CurrentLsn(i)' = CurrentLsn(i),
           \A l : Accounted(i, l) => Accounted(i, l)'
    PROVE  LinkAccounts(i)' /\ RequestIsCurrent(i)'
BY DEF LinkAccounts, RequestIsCurrent

\* A commit.
LEMMA CommitKeepsHoles ==
    ASSUME HolesInv, Commit
    PROVE  HolesInv'
<1>1. 1 \in Node /\ MaxLsn \in Nat /\ N \in Nat /\ TypeOK
    BY NodeAssumption DEF Node, HolesInv
<1>2. CurrentLsn(1) \in 0 .. MaxLsn
    BY <1>1, HighestIsHighest DEF HolesInv, TypeOK
<1>3. /\ CurrentLsn(1) < MaxLsn
      /\ db' = [db EXCEPT ![1] = @ \cup {CurrentLsn(1) + 1}]
      /\ UNCHANGED <<link, request, last, frames, rejected, restarts>>
    BY DEF Commit, NextLsn, linkVars
<1> DEFINE e == CurrentLsn(1) + 1
<1>4. e \in Lsn /\ 1 .. e - 1 = 1 .. CurrentLsn(1)
    BY <1>1, <1>2, <1>3 DEF Lsn
<1>5. \A l \in 1 .. e - 1 : Accounted(1, l)
    BY <1>1, <1>4, HolesAccounted DEF HolesInv
<1>6. db' = [db EXCEPT ![1] = @ \cup {e}]
    BY <1>3
<1> HIDE DEF e
<1>7. /\ HolesAreRejected'
      /\ \A i \in Node : HasHighest(i)'
      /\ \A i \in Node \ {1} : CurrentLsn(i)' = CurrentLsn(i)
    BY <1>1, <1>3, <1>4, <1>5, <1>6, OneAdded
<1>8. TypeOK'
    <2>1. db' \in [Node -> SUBSET Lsn]
        BY <1>1, <1>4, <1>6 DEF TypeOK
    <2> QED BY <1>1, <1>3, <2>1 DEF TypeOK
<1>9. \A i \in Reader : LinkAccounts(i)' /\ RequestIsCurrent(i)'
    <2> TAKE i \in Reader
    <2>1. i \in Node \ {1}
        BY <1>1 DEF Reader, Node
    <2>2. \A j \in Node : db[j] \subseteq db'[j] /\ rejected[j] \subseteq rejected'[j]
        BY <1>1, <1>3, <1>6 DEF TypeOK
    <2>3. \A l : Accounted(i, l) => Accounted(i, l)'
        BY <2>1, <2>2, AccountsGrow
    <2> QED BY <1>3, <1>7, <2>1, <2>3, LinkFrame DEF HolesInv
<1> QED BY <1>7, <1>8, <1>9 DEF HolesInv

\* A request is sent.
LEMMA ConnectKeepsHoles ==
    ASSUME HolesInv, NEW n \in Reader, Connect(n)
    PROVE  HolesInv'
<1>1. TypeOK /\ n \in Node
    BY NodeAssumption DEF HolesInv, Reader, Node
<1>2. CurrentLsn(n) \in 0 .. MaxLsn
    BY <1>1, HighestIsHighest DEF HolesInv, TypeOK
<1>3. /\ link' = [link EXCEPT ![n] = "asking"]
      /\ request' = [request EXCEPT ![n] = CurrentLsn(n)]
      /\ UNCHANGED <<db, last, frames, rejected, restarts>>
    BY DEF Connect
<1>4. TypeOK'
    BY <1>1, <1>2, <1>3 DEF TypeOK
<1>5. /\ HolesAreRejected'
      /\ \A i \in Node : HasHighest(i)'
      /\ \A i : CurrentLsn(i)' = CurrentLsn(i)
      /\ \A i \in Node : \A l : Accounted(i, l) => Accounted(i, l)'
    BY <1>3, HolesFrame
<1>6. \A i \in Reader : LinkAccounts(i)' /\ RequestIsCurrent(i)'
    <2> TAKE i \in Reader
    <2>1. i \in Node
        BY NodeAssumption DEF Reader, Node
    <2>2. CASE i = n
        <3>1. link'[i] = "asking" /\ request'[i] = CurrentLsn(i)
            BY <1>1, <1>3, <2>2 DEF TypeOK
        <3> QED BY <1>5, <3>1 DEF LinkAccounts, RequestIsCurrent
    <2>3. CASE i # n
        <3>1. link'[i] = link[i] /\ request'[i] = request[i]
            BY <1>1, <1>3, <2>3 DEF TypeOK
        <3> QED BY <1>3, <1>5, <2>1, <3>1, LinkFrame DEF HolesInv
    <2> QED BY <2>2, <2>3
<1> QED BY <1>4, <1>5, <1>6 DEF HolesInv

\* Links break, or a process restarts.
LEMMA CutKeepsHoles ==
    ASSUME HolesInv,
           \/ \E n \in Reader : Break(n)
           \/ \E n \in Node : Restart(n)
    PROVE  HolesInv'
<1>1. TypeOK
    BY DEF HolesInv
<1>2. UNCHANGED <<db, request, last, rejected>>
    BY DEF Break, Restart
<1>3. /\ TypeOK'
      /\ \A i \in Reader : \/ link'[i] \in {"new", "ended"}
                           \/ link'[i] = link[i] /\ frames'[i] = frames[i]
    <2>1. CASE \E n \in Reader : Break(n)
        <3>1. PICK n \in Reader : Break(n)
            BY <2>1
        <3>2. /\ link' = [link EXCEPT ![n] = "ended"]
              /\ frames' = [frames EXCEPT ![n] = <<>>]
              /\ UNCHANGED <<db, request, last, rejected, restarts>>
            BY <3>1 DEF Break
        <3>3. TypeOK'
            BY <1>1, <3>2 DEF TypeOK
        <3>4. \A i \in Reader : \/ link'[i] \in {"new", "ended"}
                                \/ link'[i] = link[i] /\ frames'[i] = frames[i]
            BY <1>1, <3>2 DEF TypeOK
        <3> QED BY <3>3, <3>4
    <2>2. CASE \E n \in Node : Restart(n)
        <3>1. PICK n \in Node : Restart(n)
            BY <2>2
        <3>2. restarts' \in 0 .. MaxRestarts
            BY <1>1, <3>1, NodeAssumption DEF TypeOK, Restart
        <3>3. /\ link' \in [Reader -> {"new", "asking", "up", "ended"}]
              /\ frames' \in [Reader -> Seq(Lsn)]
            BY <1>1, <3>1 DEF TypeOK, Restart
        <3>4. \A i \in Reader : \/ link'[i] \in {"new", "ended"}
                                \/ link'[i] = link[i] /\ frames'[i] = frames[i]
            BY <3>1 DEF Restart
        <3>5. TypeOK'
            BY <1>1, <1>2, <3>2, <3>3 DEF TypeOK
        <3> QED BY <3>4, <3>5
    <2> QED BY <2>1, <2>2
<1>4. /\ HolesAreRejected'
      /\ \A i \in Node : HasHighest(i)'
      /\ \A i : CurrentLsn(i)' = CurrentLsn(i)
      /\ \A i \in Node : \A l : Accounted(i, l) => Accounted(i, l)'
    BY <1>2, HolesFrame
<1>5. \A i \in Reader : LinkAccounts(i)' /\ RequestIsCurrent(i)'
    <2> TAKE i \in Reader
    <2>1. i \in Node
        BY NodeAssumption DEF Reader, Node
    <2>2. CASE link'[i] \in {"new", "ended"}
        BY <2>2 DEF LinkAccounts, RequestIsCurrent
    <2>3. CASE link'[i] = link[i] /\ frames'[i] = frames[i]
        BY <1>2, <1>4, <2>1, <2>3, LinkFrame DEF HolesInv
    <2> QED BY <1>3, <2>2, <2>3
<1> QED BY <1>3, <1>4, <1>5 DEF HolesInv

\* Frames that go on with a batch: what was accounted for up to sent is, with
\* the batch, accounted for up to where the node that serves it stands.
LEMMA ServeAccounts ==
    ASSUME HolesInv, NEW n \in Reader, NEW sent \in Nat, NEW base \in Seq(Lsn),
           \A j, k \in DOMAIN base : j < k => base[j] < base[k],
           \A k \in DOMAIN base : base[k] <= sent /\ base[k] <= CurrentLsn(n - 1),
           \A l \in 1 .. sent :
                Accounted(n, l) \/ \E k \in DOMAIN base : base[k] = l,
           link'[n] = "up", last'[n] = CurrentLsn(n - 1),
           frames'[n] = base \o Batch(n, sent),
           UNCHANGED <<db, rejected>>
    PROVE  LinkAccounts(n)' /\ RequestIsCurrent(n)' /\ frames'[n] \in Seq(Lsn)
<1> DEFINE b == Batch(n, sent)
           f == base \o b
           c == CurrentLsn(n - 1)
<1>1. n \in Node /\ n - 1 \in Node /\ MaxLsn \in Nat /\ TypeOK
    BY NodeAssumption DEF Reader, Node, HolesInv
<1>2. c \in 0 .. MaxLsn
    <2> DEFINE m == n - 1
    <2>1. m \in Node /\ db[m] \subseteq Lsn /\ HasHighest(m)
        BY <1>1 DEF HolesInv, TypeOK
    <2> HIDE DEF m
    <2>2. CurrentLsn(m) \in 0 .. MaxLsn
        BY <2>1, HighestIsHighest
    <2> QED BY <2>2 DEF m
<1>3. /\ b \in Seq(Lsn)
      /\ \A j, k \in DOMAIN b : j < k => b[j] < b[k]
      /\ \A k \in DOMAIN b : sent < b[k] /\ b[k] <= c
      /\ \A l \in db[n - 1] : sent < l => \E k \in DOMAIN b : b[k] = l
    BY <1>1, BatchLists DEF HolesInv
<1>4. \A l \in 1 .. c : Accounted(n - 1, l)
    BY <1>1, HolesAccounted DEF HolesInv
<1>5. frames'[n] = f /\ last'[n] = c
    OBVIOUS
<1> HIDE DEF b, c
<1>6. f \in Seq(Lsn) /\ Len(f) = Len(base) + Len(b)
    BY <1>3
<1>7. /\ \A k \in DOMAIN base : k \in DOMAIN f /\ f[k] = base[k]
      /\ \A k \in DOMAIN b : Len(base) + k \in DOMAIN f /\ f[Len(base) + k] = b[k]
    BY <1>3
<1>8. \A k \in DOMAIN f :
        \/ k \in DOMAIN base /\ f[k] = base[k]
        \/ k - Len(base) \in DOMAIN b /\ f[k] = b[k - Len(base)]
    BY <1>3
<1>9. /\ \A k \in DOMAIN base : k \in Nat /\ k <= Len(base) /\ base[k] \in Nat
      /\ \A k \in DOMAIN b : k \in Nat /\ k >= 1 /\ b[k] \in Nat
      /\ \A k \in DOMAIN f : k \in Nat
    BY <1>1, <1>3, <1>6 DEF Lsn
<1>10. Len(base) \in Nat /\ c \in Nat
    BY <1>2
<1> HIDE DEF f
<1>11. \A j, k \in DOMAIN f : j < k => f[j] < f[k]
    <2> TAKE j, k \in DOMAIN f
    <2> HAVE j < k
    <2>1. CASE k \in DOMAIN base /\ f[k] = base[k]
        <3>1. ~(j - Len(base) \in DOMAIN b)
            BY <1>9, <1>10, <2>1
        <3>2. j \in DOMAIN base /\ f[j] = base[j]
            BY <1>8, <3>1
        <3> QED BY <2>1, <3>2
    <2>2. CASE k - Len(base) \in DOMAIN b /\ f[k] = b[k - Len(base)]
        <3>1. CASE j \in DOMAIN base /\ f[j] = base[j]
            <4>1. base[j] <= sent /\ sent < b[k - Len(base)]
                BY <1>3, <2>2, <3>1
            <4> QED BY <1>9, <2>2, <3>1, <4>1
        <3>2. CASE j - Len(base) \in DOMAIN b /\ f[j] = b[j - Len(base)]
            <4>1. j - Len(base) < k - Len(base)
                BY <1>9, <1>10
            <4> QED BY <1>3, <2>2, <3>2, <4>1
        <3> QED BY <1>8, <3>1, <3>2
    <2> QED BY <1>8, <2>1, <2>2
<1>12. \A k \in DOMAIN f : f[k] <= c
    BY <1>3, <1>8 DEF c
<1>13. \A l \in 1 .. c : Accounted(n, l) \/ \E k \in DOMAIN f : f[k] = l
    <2> TAKE l \in 1 .. c
    <2>1. CASE l <= sent
        <3>1. l \in 1 .. sent
            BY <1>10, <2>1
        <3> QED BY <1>7, <3>1
    <2>2. CASE ~(l <= sent)
        <3>1. CASE l \in db[n - 1]
            <4>1. sent < l
                BY <1>10, <2>2
            <4>2. \E k \in DOMAIN b : b[k] = l
                BY <1>3, <3>1, <4>1
            <4> QED BY <1>7, <4>2
        <3>2. CASE l \notin db[n - 1]
            BY <1>4, <3>2, AccountedBefore
        <3> QED BY <3>1, <3>2
    <2> QED BY <2>1, <2>2
<1>14. \A l : Accounted(n, l)' <=> Accounted(n, l)
    BY DEF Accounted
<1>15. LinkAccounts(n)'
    BY <1>5, <1>11, <1>12, <1>13, <1>14 DEF LinkAccounts
<1>16. RequestIsCurrent(n)'
    BY DEF RequestIsCurrent
<1> QED BY <1>5, <1>6, <1>15, <1>16

\* A request is answered, or a poll finds new entries.
LEMMA ServeKeepsHoles ==
    ASSUME HolesInv, NEW n \in Reader, ServeInitial(n) \/ ServeMore(n)
    PROVE  HolesInv'
<1>1. TypeOK /\ n \in Node /\ n - 1 \in Node /\ MaxLsn \in Nat
    BY NodeAssumption DEF HolesInv, Reader, Node
<1>2. CurrentLsn(n - 1) \in 0 .. MaxLsn /\ CurrentLsn(n) \in 0 .. MaxLsn
    <2> DEFINE m == n - 1
    <2>1. m \in Node /\ db[m] \subseteq Lsn /\ HasHighest(m)
        BY <1>1 DEF HolesInv, TypeOK
    <2> HIDE DEF m
    <2>2. CurrentLsn(m) \in 0 .. MaxLsn
        BY <2>1, HighestIsHighest
    <2>3. CurrentLsn(n) \in 0 .. MaxLsn
        BY <1>1, HighestIsHighest DEF HolesInv, TypeOK
    <2> QED BY <2>2, <2>3 DEF m
<1>3. /\ UNCHANGED <<db, request, rejected, restarts>>
      /\ link' = [link EXCEPT ![n] = "up"]
      /\ last' = [last EXCEPT ![n] = CurrentLsn(n - 1)]
      /\ \A i \in Reader \ {n} : frames'[i] = frames[i]
    BY <1>1 DEF ServeInitial, ServeMore, TypeOK
<1>4. LinkAccounts(n)' /\ RequestIsCurrent(n)' /\ frames'[n] \in Seq(Lsn)
    <2>1. CASE ServeInitial(n)
        <3>1. /\ request[n] = CurrentLsn(n) /\ request[n] \in Nat
              /\ frames'[n] = Batch(n, request[n])
            BY <1>1, <1>2, <2>1 DEF ServeInitial, TypeOK, HolesInv, RequestIsCurrent
        <3>2. Batch(n, request[n]) \in Seq(Lsn)
            BY <1>1, <3>1, BatchLists DEF HolesInv
        <3>3. frames'[n] = <<>> \o Batch(n, request[n])
            BY <3>1, <3>2
        <3>4. \A l \in 1 .. request[n] : Accounted(n, l)
            BY <1>1, <3>1, HolesAccounted DEF HolesInv
        <3>5. /\ <<>> \in Seq(Lsn) /\ DOMAIN <<>> = {}
              /\ link'[n] = "up" /\ last'[n] = CurrentLsn(n - 1)
            BY <1>1, <1>3 DEF TypeOK
        <3> QED BY <1>3, <3>1, <3>3, <3>4, <3>5, ServeAccounts
    <2>2. CASE ServeMore(n)
        <3>1. /\ link[n] = "up" /\ last[n] \in Nat /\ last[n] < CurrentLsn(n - 1)
              /\ frames[n] \in Seq(Lsn)
              /\ frames'[n] = frames[n] \o Batch(n, last[n])
            BY <1>1, <1>2, <2>2 DEF ServeMore, HasMore, TypeOK
        <3>2. /\ \A j, k \in DOMAIN frames[n] : j < k => frames[n][j] < frames[n][k]
              /\ \A k \in DOMAIN frames[n] : frames[n][k] <= last[n]
              /\ \A l \in 1 .. last[n] : \/ Accounted(n, l)
                                         \/ \E k \in DOMAIN frames[n] : frames[n][k] = l
            BY <3>1 DEF HolesInv, LinkAccounts
        <3>3. \A k \in DOMAIN frames[n] : frames[n][k] \in Nat
            BY <1>1, <3>1 DEF Lsn
        <3>4. \A k \in DOMAIN frames[n] : frames[n][k] <= CurrentLsn(n - 1)
            BY <1>2, <3>1, <3>2, <3>3
        <3>5. link'[n] = "up" /\ last'[n] = CurrentLsn(n - 1)
            BY <1>1, <1>3 DEF TypeOK
        <3> QED BY <1>3, <3>1, <3>2, <3>4, <3>5, ServeAccounts
    <2> QED BY <2>1, <2>2
<1>5. TypeOK'
    <2>1. \E g : frames' = [frames EXCEPT ![n] = g]
        BY DEF ServeInitial, ServeMore
    <2>2. frames' \in [Reader -> Seq(Lsn)]
        BY <1>1, <1>4, <2>1 DEF TypeOK
    <2> QED BY <1>1, <1>2, <1>3, <2>2 DEF TypeOK
<1>6. /\ HolesAreRejected'
      /\ \A i \in Node : HasHighest(i)'
      /\ \A i : CurrentLsn(i)' = CurrentLsn(i)
      /\ \A i \in Node : \A l : Accounted(i, l) => Accounted(i, l)'
    BY <1>3, HolesFrame
<1>7. \A i \in Reader \ {n} : LinkAccounts(i)' /\ RequestIsCurrent(i)'
    <2> TAKE i \in Reader \ {n}
    <2>1. i \in Node
        BY NodeAssumption DEF Reader, Node
    <2>2. link'[i] = link[i] /\ last'[i] = last[i] /\ frames'[i] = frames[i]
        BY <1>1, <1>3 DEF TypeOK
    <2> QED BY <1>3, <1>6, <2>1, <2>2, LinkFrame DEF HolesInv
<1> QED BY <1>4, <1>5, <1>6, <1>7 DEF HolesInv

\* The first of ascending frames leaves a link.
LEMMA FirstFrame ==
    ASSUME TypeOK, NEW n \in Reader, LinkAccounts(n), link[n] = "up", frames[n] # <<>>
    PROVE  /\ Head(frames[n]) \in Lsn /\ Head(frames[n]) <= last[n]
           /\ Tail(frames[n]) \in Seq(Lsn)
           /\ \A j, k \in DOMAIN Tail(frames[n]) :
                j < k => Tail(frames[n])[j] < Tail(frames[n])[k]
           /\ \A k \in DOMAIN Tail(frames[n]) : Tail(frames[n])[k] <= last[n]
           /\ \A l \in 1 .. last[n] : \/ Accounted(n, l)
                                      \/ l = Head(frames[n])
                                      \/ \E k \in DOMAIN Tail(frames[n]) :
                                            Tail(frames[n])[k] = l
           /\ \A l \in 1 .. Head(frames[n]) - 1 : Accounted(n, l)
<1> DEFINE f == frames[n]
           t == Tail(f)
<1>1. f \in Seq(Lsn) /\ f # <<>> /\ last[n] \in Nat /\ MaxLsn \in Nat
    BY NodeAssumption DEF TypeOK
<1>2. /\ \A j, k \in DOMAIN f : j < k => f[j] < f[k]
      /\ \A k \in DOMAIN f : f[k] <= last[n]
      /\ \A l \in 1 .. last[n] : Accounted(n, l) \/ \E k \in DOMAIN f : f[k] = l
    BY DEF LinkAccounts
<1> HIDE DEF f
<1>3. /\ Len(f) \in Nat /\ Len(f) >= 1 /\ DOMAIN f = 1 .. Len(f)
      /\ Head(f) = f[1] /\ f[1] \in Lsn
    BY <1>1
<1>4. /\ t \in Seq(Lsn) /\ DOMAIN t = 1 .. Len(f) - 1
      /\ \A k \in 1 .. Len(f) - 1 : t[k] = f[k + 1]
    BY <1>1, <1>3
<1> HIDE DEF t
<1>5. \A k \in DOMAIN t : k \in Nat /\ k + 1 \in DOMAIN f
    BY <1>3, <1>4
<1>6. \A j, k \in DOMAIN t : j < k => t[j] < t[k]
    <2> TAKE j, k \in DOMAIN t
    <2> HAVE j < k
    <2>1. j + 1 < k + 1
        BY <1>5
    <2> QED BY <1>2, <1>4, <1>5, <2>1
<1>7. \A k \in DOMAIN t : t[k] <= last[n]
    BY <1>2, <1>4, <1>5
<1>8. \A k \in DOMAIN f : k = 1 \/ (k - 1 \in DOMAIN t /\ t[k - 1] = f[k])
    BY <1>3, <1>4
<1>9. \A l \in 1 .. last[n] :
        Accounted(n, l) \/ l = f[1] \/ \E k \in DOMAIN t : t[k] = l
    BY <1>2, <1>8
<1>10. \A l \in 1 .. f[1] - 1 : Accounted(n, l)
    <2> TAKE l \in 1 .. f[1] - 1
    <2>1. f[1] \in Nat /\ f[1] <= last[n] /\ 1 \in DOMAIN f
        BY <1>1, <1>2, <1>3 DEF Lsn
    <2>2. l \in 1 .. last[n] /\ l < f[1]
        BY <1>1, <2>1
    <2>3. \A k \in DOMAIN f : f[k] # l
        <3> TAKE k \in DOMAIN f
        <3>1. f[k] \in Nat /\ k \in Nat /\ k >= 1
            BY <1>1, <1>3 DEF Lsn
        <3>2. k = 1 \/ f[1] < f[k]
            BY <1>2, <2>1, <3>1
        <3> QED BY <2>1, <2>2, <3>1, <3>2
    <2> QED BY <1>2, <2>2, <2>3
<1>11. f[1] <= last[n]
    BY <1>2, <1>3
<1> QED BY <1>3, <1>4, <1>6, <1>7, <1>9, <1>10, <1>11 DEF f, t

\* A frame is applied: what lies below it is accounted for.
LEMMA ApplyKeepsHoles ==
    ASSUME HolesInv, NEW n \in Reader, ApplyFrame(n)
    PROVE  HolesInv'
<1> DEFINE e == Head(frames[n])
<1>1. TypeOK /\ n \in Node /\ LinkAccounts(n)
    BY NodeAssumption DEF HolesInv, Reader, Node
<1>2. /\ link[n] = "up" /\ frames[n] # <<>>
      /\ db' = [db EXCEPT ![n] = @ \cup {e}]
      /\ frames' = [frames EXCEPT ![n] = Tail(@)]
      /\ UNCHANGED <<link, request, last, rejected, restarts>>
    BY DEF ApplyFrame
<1>3. /\ e \in Lsn /\ e <= last[n] /\ Tail(frames[n]) \in Seq(Lsn)
      /\ \A l \in 1 .. e - 1 : Accounted(n, l)
    BY <1>1, <1>2, FirstFrame
<1>4. /\ \A j, k \in DOMAIN Tail(frames[n]) :
            j < k => Tail(frames[n])[j] < Tail(frames[n])[k]
      /\ \A k \in DOMAIN Tail(frames[n]) : Tail(frames[n])[k] <= last[n]
      /\ \A l \in 1 .. last[n] :
            \/ Accounted(n, l)
            \/ l = e
            \/ \E k \in DOMAIN Tail(frames[n]) : Tail(frames[n])[k] = l
    BY <1>1, <1>2, FirstFrame
<1> HIDE DEF e
<1>5. /\ HolesAreRejected'
      /\ \A i \in Node : HasHighest(i)'
      /\ \A i \in Node \ {n} : CurrentLsn(i)' = CurrentLsn(i)
    BY <1>1, <1>2, <1>3, OneAdded
<1>6. TypeOK'
    <2>1. db' \in [Node -> SUBSET Lsn]
        BY <1>1, <1>2, <1>3 DEF TypeOK
    <2>2. frames' \in [Reader -> Seq(Lsn)]
        BY <1>1, <1>2, <1>3 DEF TypeOK
    <2> QED BY <1>1, <1>2, <2>1, <2>2 DEF TypeOK
<1>7. \A i \in Node : \A l : Accounted(i, l) => Accounted(i, l)'
    <2>1. \A j \in Node : db[j] \subseteq db'[j] /\ rejected[j] \subseteq rejected'[j]
        BY <1>1, <1>2 DEF TypeOK
    <2> QED BY <2>1, AccountsGrow
<1>8. \A i \in Reader : LinkAccounts(i)' /\ RequestIsCurrent(i)'
    <2> TAKE i \in Reader
    <2>1. i \in Node
        BY NodeAssumption DEF Reader, Node
    <2>2. CASE i = n
        <3>1. link'[n] = "up" /\ last'[n] = last[n] /\ frames'[n] = Tail(frames[n])
            BY <1>1, <1>2 DEF TypeOK
        <3>2. \A l : l = e => Accounted(n, l)'
            BY <1>1, <1>2 DEF Accounted, TypeOK
        <3>3. LinkAccounts(n)'
            BY <1>1, <1>4, <1>7, <3>1, <3>2 DEF LinkAccounts
        <3> QED BY <2>2, <3>1, <3>3 DEF RequestIsCurrent
    <2>3. CASE i # n
        <3>1. frames'[i] = frames[i]
            BY <1>1, <1>2, <2>3 DEF TypeOK
        <3> QED BY <1>2, <1>5, <1>7, <2>1, <2>3, <3>1, LinkFrame DEF HolesInv
    <2> QED BY <2>2, <2>3
<1> QED BY <1>5, <1>6, <1>8 DEF HolesInv

\* A frame is rejected: its LSN is a hole from now on, and accounted for.
LEMMA RejectKeepsHoles ==
    ASSUME HolesInv, NEW n \in Reader, RejectFrame(n)
    PROVE  HolesInv'
<1> DEFINE e == Head(frames[n])
<1>1. TypeOK /\ n \in Node /\ n \in 2 .. n /\ LinkAccounts(n)
    BY NodeAssumption DEF HolesInv, Reader, Node
<1>2. /\ link[n] = "up" /\ frames[n] # <<>>
      /\ rejected' = [rejected EXCEPT ![n] = @ \cup {e}]
      /\ frames' = [frames EXCEPT ![n] = Tail(@)]
      /\ UNCHANGED <<db, link, request, last, restarts>>
    BY DEF RejectFrame
<1>3. e \in Lsn /\ Tail(frames[n]) \in Seq(Lsn)
    BY <1>1, <1>2, FirstFrame
<1>4. /\ \A j, k \in DOMAIN Tail(frames[n]) :
            j < k => Tail(frames[n])[j] < Tail(frames[n])[k]
      /\ \A k \in DOMAIN Tail(frames[n]) : Tail(frames[n])[k] <= last[n]
      /\ \A l \in 1 .. last[n] :
            \/ Accounted(n, l)
            \/ l = e
            \/ \E k \in DOMAIN Tail(frames[n]) : Tail(frames[n])[k] = l
    BY <1>1, <1>2, FirstFrame
<1> HIDE DEF e
<1>5. TypeOK'
    <2>1. rejected' \in [Node -> SUBSET Lsn]
        BY <1>1, <1>2, <1>3 DEF TypeOK
    <2>2. frames' \in [Reader -> Seq(Lsn)]
        BY <1>1, <1>2, <1>3 DEF TypeOK
    <2> QED BY <1>1, <1>2, <2>1, <2>2 DEF TypeOK
<1>6. \A j \in Node : rejected[j] \subseteq rejected'[j]
    BY <1>1, <1>2 DEF TypeOK
<1>7. /\ HolesAreRejected'
      /\ \A i \in Node : HasHighest(i)'
      /\ \A i : CurrentLsn(i)' = CurrentLsn(i)
      /\ \A i \in Node : \A l : Accounted(i, l) => Accounted(i, l)'
    BY <1>2, <1>6, HolesFrame
<1>8. \A i \in Reader : LinkAccounts(i)' /\ RequestIsCurrent(i)'
    <2> TAKE i \in Reader
    <2>1. i \in Node
        BY NodeAssumption DEF Reader, Node
    <2>2. CASE i = n
        <3>1. link'[n] = "up" /\ last'[n] = last[n] /\ frames'[n] = Tail(frames[n])
            BY <1>1, <1>2 DEF TypeOK
        <3>2. \A l : l = e => Accounted(n, l)'
            BY <1>1, <1>2 DEF Accounted, TypeOK
        <3>3. LinkAccounts(n)'
            BY <1>1, <1>4, <1>7, <3>1, <3>2 DEF LinkAccounts
        <3> QED BY <2>2, <3>1, <3>3 DEF RequestIsCurrent
    <2>3. CASE i # n
        <3>1. frames'[i] = frames[i]
            BY <1>1, <1>2, <2>3 DEF TypeOK
        <3> QED BY <1>2, <1>7, <2>1, <3>1, LinkFrame DEF HolesInv
    <2> QED BY <2>2, <2>3
<1> QED BY <1>5, <1>7, <1>8 DEF HolesInv

\* The frames of every link and the databases account for all that was sent, under
\* every step of serve_writer and serve_reader, breaks, restarts and rejections.
THEOREM HolesInvariant == Spec => []HolesInv
<1>1. Init => HolesInv
    <2> SUFFICES ASSUME Init PROVE HolesInv
        OBVIOUS
    <2>1. TypeOK
        BY InitHasInv DEF ChainInv
    <2>2. \A i \in Node : db[i] = {} /\ CurrentLsn(i) = 0
        BY DEF Init, CurrentLsn, Highest
    <2>3. HolesAreRejected /\ \A i \in Node : HasHighest(i)
        BY <2>2 DEF HolesAreRejected, HasHighest
    <2> QED BY <2>1, <2>3 DEF Init, HolesInv, LinkAccounts, RequestIsCurrent
<1>2. HolesInv /\ [Next]_vars => HolesInv'
    <2> SUFFICES ASSUME HolesInv, [Next]_vars PROVE HolesInv'
        OBVIOUS
    <2>1. CASE Commit
        BY <2>1, CommitKeepsHoles
    <2>2. CASE \E i \in Reader : Connect(i)
        BY <2>2, ConnectKeepsHoles
    <2>3. CASE (\E i \in Reader : Break(i)) \/ (\E i \in Node : Restart(i))
        BY <2>3, CutKeepsHoles
    <2>4. CASE \E i \in Reader : ServeInitial(i) \/ ServeMore(i)
        BY <2>4, ServeKeepsHoles
    <2>5. CASE \E i \in Reader : ApplyFrame(i)
        BY <2>5, ApplyKeepsHoles
    <2>6. CASE \E i \in Reader : RejectFrame(i)
        BY <2>6, RejectKeepsHoles
    <2>7. CASE UNCHANGED vars
        <3>1. UNCHANGED <<db, link, request, last, frames, rejected, restarts>>
            BY <2>7 DEF vars, linkVars
        <3>2. TypeOK'
            BY <3>1 DEF HolesInv, TypeOK
        <3>3. /\ HolesAreRejected'
              /\ \A i \in Node : HasHighest(i)'
              /\ \A i : CurrentLsn(i)' = CurrentLsn(i)
              /\ \A i \in Node : \A l : Accounted(i, l) => Accounted(i, l)'
            BY <3>1, HolesFrame
        <3>4. \A i \in Reader : i \in Node
            BY NodeAssumption DEF Reader, Node
        <3>5. \A i \in Reader : LinkAccounts(i)' /\ RequestIsCurrent(i)'
            BY <3>1, <3>3, <3>4, LinkFrame DEF HolesInv
        <3> QED BY <3>2, <3>3, <3>5 DEF HolesInv
    <2> QED BY <2>1, <2>2, <2>3, <2>4, <2>5, <2>6, <2>7 DEF Next
<1> QED BY <1>1, <1>2, PTL DEF Spec

\* Whatever breaks, restarts or is rejected, for chains of any length: below the
\* LSN a database claims to be at, it lacks only what it or a node before it
\* rejected (the request serve_reader sends hides no other hole).
THEOREM OnlyRejectedAreMissing == Spec => []HolesAreRejected
<1>1. HolesInv => HolesAreRejected
    BY DEF HolesInv
<1> QED BY <1>1, HolesInvariant, PTL

\* What a node has is accounted for at the next one once the link between them is
\* idle: it was below last_lsn of serve_writer.
LEMMA IdleLinkIsDone ==
    ASSUME HolesInv, NEW i \in Reader, Idle(i), NEW l \in db[i - 1]
    PROVE  Accounted(i, l)
<1>1. i - 1 \in Node /\ i \in Node
    BY NodeAssumption DEF Reader, Node
<1>2. db[i - 1] \subseteq Lsn /\ HasHighest(i - 1)
    BY <1>1 DEF HolesInv, TypeOK
<1>3. l \in Lsn /\ CurrentLsn(i - 1) \in 0 .. MaxLsn /\ l <= CurrentLsn(i - 1)
    BY <1>1, <1>2, HighestIsHighest
<1>4. last[i] \in 0 .. MaxLsn /\ ~(CurrentLsn(i - 1) > last[i]) /\ MaxLsn \in Nat
    BY NodeAssumption DEF HolesInv, TypeOK, Idle, HasMore
<1>5. l \in 1 .. last[i]
    BY <1>3, <1>4 DEF Lsn
<1>6. Accounted(i, l) \/ \E k \in DOMAIN frames[i] : frames[i][k] = l
    BY <1>5 DEF HolesInv, LinkAccounts, Idle
<1>7. DOMAIN frames[i] = {}
    BY DEF Idle
<1> QED BY <1>6, <1>7

\* A chain of any length whose links are up and idle has brought every entry of the
\* writer to every node, or one on the way rejected it: whatever raced, the loops of
\* serve_writer and serve_reader do not stop short.
THEOREM SettledChainsAreComplete == Spec => []SettledIsComplete
<1>1. ASSUME HolesInv PROVE SettledIsComplete
    <2>1. SUFFICES ASSUME NEW l \in db[1]
                   PROVE  \A i \in Node : (\A j \in 2 .. i : Idle(j)) => Accounted(i, l)
        BY DEF SettledIsComplete
    <2> DEFINE Short == {i \in Nat : /\ i \in Node /\ \A j \in 2 .. i : Idle(j)
                                     /\ ~Accounted(i, l)}
    <2>2. SUFFICES ASSUME Short # {} PROVE FALSE
        BY NodeAssumption DEF Node
    <2>3. PICK i \in Short : \A k \in Short : i <= k
        <3>1. PICK x \in Short : \A y \in Short : ~ (<<y, x>> \in OpToRel(<, Nat))
            BY <2>2, NatLessThanWellFounded, WFMin
        <3>2. \A y \in Short : ~ (y < x)
            BY <3>1 DEF OpToRel
        <3> QED BY <3>2
    <2>4. i \in Reader
        <3>1. Accounted(1, l)
            BY DEF Accounted
        <3> QED BY <2>3, <3>1, NodeAssumption DEF Node, Reader
    <2>5. i - 1 \in Node /\ i - 1 \in Nat /\ ~(i <= i - 1)
        BY <2>4, NodeAssumption DEF Node, Reader
    <2>6. 2 .. i - 1 \subseteq 2 .. i /\ i \in 2 .. i
        BY <2>4, NodeAssumption DEF Reader
    <2>7. Accounted(i - 1, l)
        BY <2>3, <2>5, <2>6
    <2>8. ~Accounted(i, l) /\ Idle(i)
        BY <2>3, <2>6
    <2>9. CASE l \in db[i - 1]
        BY <1>1, <2>4, <2>8, <2>9, IdleLinkIsDone
    <2>10. CASE \E j \in 2 .. i - 1 : l \in rejected[j]
        BY <2>6, <2>8, <2>10 DEF Accounted
    <2> QED BY <2>7, <2>9, <2>10 DEF Accounted
<1> QED BY <1>1, HolesInvariant, PTL
=============================================================================
