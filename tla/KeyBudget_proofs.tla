-------------------------- MODULE KeyBudget_proofs --------------------------
(***************************************************************************)
(* Machine-checked proofs about KeyBudget, for any number of concurrent    *)
(* calls, keys, teams and events, any costs, limits and integer width.     *)
(***************************************************************************)
EXTENDS KeyBudget, TLAPS

\* The steps of the system, one disjunct per operation.
LEMMA Steps ==
    ASSUME [Next]_vars
    PROVE
        \/ \E w \in Worker, e \in Event : Record(w, e) \/ RecordWithTeam(w, e)
        \/ \E w \in Worker, e \in Event : ReadSpend(w, e)
        \/ \E w \in Worker : LockKey(w)
        \/ \E w \in Worker : SumKey(w)
        \/ \E w \in Worker : Insert(w)
        \/ \E w \in Worker, a \in BOOLEAN : Commit(w, a)
        \/ \E w \in Worker : Rollback(w)
        \/ \E w \in Worker : WriteSpend(w)
        \/ \E w \in Worker : Deduct(w)
        \/ \E w \in Worker : Refused(w)
        \/ \E k \in Key : ResetSpend(k)
        \/ \E k \in Key, l \in Limit : UpdateKey(k, l)
        \/ Credit
        \/ UNCHANGED vars
    BY DEF Next, TeamNotFound, Exceed, Abort

\* The constants are numbers, and costs are not negative.
LEMMA Numbers ==
    /\ IntMax \in Nat /\ Price \in Nat /\ TeamLimit \in Int /\ MaxOps \in Nat
    /\ \A l \in Limit : l \in Int
    /\ \A e \in Event : CostOf[e] \in Nat /\ KeyOf[e] \in Key
                        /\ TeamOf[e] \in Team \cup {NoTeam}
    BY BudgetAssumption

LEMMA WrapType ==
    ASSUME NEW n \in Int
    PROVE  Wrap(n) \in Int
    BY Numbers DEF Wrap

\* A wrapped sum that did not overflow is the sum.
LEMMA WrapExact ==
    ASSUME NEW n \in Int, n <= IntMax
    PROVE  Wrap(n) = n
    BY Numbers DEF Wrap

-----------------------------------------------------------------------------
(* Typing *)

\* The return of a call keeps the types of what it resets.
LEMMA ReturnType ==
    ASSUME TypeOK, NEW w \in Worker, Return(w)
    PROVE  /\ pc' \in [Worker -> Place]
           /\ event' \in [Worker -> Event \cup {NoEvent}]
           /\ limit' \in [Worker -> Int] /\ spent' \in [Worker -> Int]
           /\ inserts' \subseteq Worker
<1> USE DEF Return
<1>1. pc' \in [Worker -> Place]
    BY DEF TypeOK, Goto, Place
<1>2. event' \in [Worker -> Event \cup {NoEvent}]
    BY DEF TypeOK
<1>3. limit' \in [Worker -> Int] /\ spent' \in [Worker -> Int]
    BY DEF TypeOK
<1>4. inserts' \subseteq Worker
    BY DEF TypeOK
<1> QED BY <1>1, <1>2, <1>3, <1>4

\* The start of a call.
LEMMA CallType ==
    ASSUME TypeOK, NEW w \in Worker, NEW place \in Place, Call(w, place)
    PROVE  ops' \in 0 .. MaxOps /\ pc' \in [Worker -> Place]
<1>1. ops \in 0 .. MaxOps /\ ops < MaxOps /\ ops' = ops + 1 /\ MaxOps \in Nat
    BY Numbers DEF TypeOK, Call
<1>2. ops' \in 0 .. MaxOps
    BY <1>1
<1>3. pc' \in [Worker -> Place]
    BY DEF TypeOK, Call, Goto
<1> QED BY <1>2, <1>3

\* Row locks given up.
LEMMA UnlockType ==
    ASSUME TypeOK, NEW w \in Worker, Unlock(w)
    PROVE  key_lock' \in [Key -> Worker \cup {Nobody}]
    BY DEF TypeOK, Unlock

\* Typing is preserved by every step, provided a transaction has its event.
LEMMA TypeStep ==
    ASSUME TypeOK, \A w \in Worker : LocksHeld(w), [Next]_vars
    PROVE  TypeOK'
<1> USE Numbers DEF TypeOK, txVars, counterVars, purseVars, ledgerVars
<1>1. ASSUME NEW w \in Worker, NEW e \in Event, Record(w, e) \/ RecordWithTeam(w, e)
      PROVE  TypeOK'
    <2>1. ops' \in 0 .. MaxOps /\ pc' \in [Worker -> Place]
        BY <1>1, CallType DEF Record, RecordWithTeam, Place
    <2>2. event' \in [Worker -> Event \cup {NoEvent}]
        BY <1>1 DEF Record, RecordWithTeam
    <2> QED BY <1>1, <2>1, <2>2 DEF Record, RecordWithTeam
<1>2. ASSUME NEW w \in Worker, NEW e \in Event, ReadSpend(w, e)
      PROVE  TypeOK'
    <2>1. ops' \in 0 .. MaxOps /\ pc' \in [Worker -> Place]
        BY <1>2, CallType DEF ReadSpend, Place
    <2>2. event' \in [Worker -> Event \cup {NoEvent}]
        BY <1>2 DEF ReadSpend
    <2>3. key_spend[KeyOf[e]] \in Int
        OBVIOUS
    <2>4. spent' \in [Worker -> Int] /\ row_seen' \subseteq Worker
        BY <1>2, <2>3 DEF ReadSpend
    <2> QED BY <1>2, <2>1, <2>2, <2>4 DEF ReadSpend
<1>3. ASSUME NEW w \in Worker, LockKey(w) PROVE TypeOK'
    <2>1. event[w] \in Event
        BY <1>3 DEF LockKey, LocksHeld
    <2>2. /\ pc' \in [Worker -> Place]
          /\ key_lock' \in [Key -> Worker \cup {Nobody}]
        BY <1>3 DEF LockKey, Goto, Place
    <2>3. budget[KeyOf[event[w]]] \in Int
        BY <2>1
    <2>4. limit' \in [Worker -> Int]
        BY <1>3, <2>3 DEF LockKey
    <2> QED BY <1>3, <2>2, <2>4 DEF LockKey
<1>4. ASSUME NEW w \in Worker, SumKey(w) PROVE TypeOK'
    <2>e. event[w] \in Event
        BY <1>4 DEF SumKey, LocksHeld
    <2>1. total[KeyOf[event[w]]] \in Int
        BY <2>e
    <2>2. Wrap(total[KeyOf[event[w]]]) \in Int
        BY <2>1, WrapType
    <2>3. pc' \in [Worker -> Place] /\ spent' \in [Worker -> Int]
        BY <1>4, <2>2 DEF SumKey, Goto, Place
    <2> QED BY <1>4, <2>3 DEF SumKey
<1>5. ASSUME NEW w \in Worker, Insert(w) PROVE TypeOK'
    <2>1. pc' \in [Worker -> Place] /\ inserts' \subseteq Worker
        BY <1>5 DEF Insert, Goto, Place
    <2> QED BY <1>5, <2>1 DEF Insert
<1>6. ASSUME NEW w \in Worker, NEW a \in BOOLEAN, Commit(w, a) PROVE TypeOK'
    <2>1. event[w] \in Event
        BY <1>6 DEF Commit, LocksHeld
    <2>2. ledger' \subseteq Event /\ ok' \subseteq Event
        BY <1>6, <2>1 DEF Commit
    <2>3. /\ total' \in [Key -> Nat]
          /\ team_total' \in [Team -> Nat]
        BY <1>6, <2>1 DEF Commit
    <2>4. key_lock' \in [Key -> Worker \cup {Nobody}]
        BY <1>6, UnlockType DEF Commit
    <2>5. Return(w)
        BY <1>6 DEF Commit
    <2> QED BY <1>6, <2>2, <2>3, <2>4, <2>5, ReturnType DEF Commit
<1>7. ASSUME NEW w \in Worker, Rollback(w) PROVE TypeOK'
    <2>1. Return(w) /\ Unlock(w)
        BY <1>7 DEF Rollback
    <2> QED BY <1>7, <2>1, ReturnType, UnlockType DEF Rollback
<1>8. ASSUME NEW w \in Worker, WriteSpend(w) PROVE TypeOK'
    <2>1. Return(w)
        BY <1>8 DEF WriteSpend
    <2>2. event[w] \in Event
        BY <1>8 DEF WriteSpend, LocksHeld
    <2>3. spent[w] + 1 \in Int
        OBVIOUS
    <2>4. /\ key_spend' \in [Key -> Int] /\ counted' \in [Key -> Nat]
          /\ has_row' \subseteq Key /\ moved' \subseteq Worker
          /\ lost' \subseteq Key /\ row_seen' \subseteq Worker
        BY <1>8, <2>2, <2>3 DEF WriteSpend, Written, Counting
    <2> QED BY <1>8, <2>1, <2>4, ReturnType DEF WriteSpend
<1>9. ASSUME NEW w \in Worker, Deduct(w) PROVE TypeOK'
    <2>1. Call(w, "idle") \/ Call(w, "refused")
        BY <1>9 DEF Deduct
    <2>2. ops' \in 0 .. MaxOps /\ pc' \in [Worker -> Place]
        BY <2>1, CallType DEF Place
    <2>3. balance' \in Nat
        BY <1>9 DEF Deduct, Affordable
    <2> QED BY <1>9, <2>2, <2>3 DEF Deduct
<1>10. ASSUME NEW w \in Worker, Refused(w) PROVE TypeOK'
    <2>1. pc' \in [Worker -> Place]
        BY <1>10 DEF Refused, Goto, Place
    <2>2. credited' \subseteq Worker /\ unpaid' \in Nat
        BY <1>10 DEF Refused
    <2> QED BY <1>10, <2>1, <2>2 DEF Refused
<1>11. ASSUME NEW k \in Key, ResetSpend(k) PROVE TypeOK'
    <2>1. /\ key_spend' \in [Key -> Int] /\ counted' \in [Key -> Nat]
          /\ moved' \subseteq Worker
        BY <1>11 DEF ResetSpend, Counting
    <2> QED BY <1>11, <2>1 DEF ResetSpend
<1>12. ASSUME NEW k \in Key, NEW l \in Limit, UpdateKey(k, l) PROVE TypeOK'
    <2>1. budget' \in [Key -> Limit]
        BY <1>12 DEF UpdateKey
    <2> QED BY <1>12, <2>1 DEF UpdateKey
<1>13. CASE Credit
    <2>1. balance' \in Nat /\ credited' \subseteq Worker
        BY <1>13 DEF Credit
    <2> QED BY <1>13, <2>1 DEF Credit
<1>14. CASE UNCHANGED vars
    BY <1>14 DEF vars
<1> HIDE Numbers DEF TypeOK
<1> QED BY Steps, <1>1, <1>2, <1>3, <1>4, <1>5, <1>6, <1>7,
           <1>8, <1>9, <1>10, <1>11, <1>12, <1>13, <1>14

-----------------------------------------------------------------------------
(* The recording transactions *)

\* What the invariant says of one call.
Due(u) == LocksHeld(u) /\ KeyReadStands(u) /\ CommitIsDue(u)

\* A step of somebody else: what call u knows, and what is behind its row locks,
\* stays as it is.
SameCall(u) ==
    /\ pc'[u] = pc[u] /\ event'[u] = event[u]
    /\ limit'[u] = limit[u] /\ spent'[u] = spent[u]
    /\ u \in inserts' <=> u \in inserts

RowsKept(u) ==
    /\ \A k \in Key : key_lock[k] = u =>
            key_lock'[k] = u /\ budget'[k] = budget[k] /\ total'[k] = total[k]
    /\ ledger \subseteq ledger'
    /\ \A f \in ledger' \ ledger : f \in Event /\ key_lock[KeyOf[f]] # u

LEMMA OtherKept ==
    ASSUME TypeOK, TypeOK', NEW u \in Worker, Due(u), SameCall(u), RowsKept(u)
    PROVE  Due(u)'
<1> USE DEF Due, SameCall, RowsKept
<1>1. LocksHeld(u)'
    BY Numbers DEF LocksHeld, Locked
<1>2. pc[u] \in Locked => /\ event[u] \in Event /\ KeyOf[event[u]] \in Key
                          /\ key_lock[KeyOf[event[u]]] = u
    BY Numbers DEF LocksHeld, Locked
<1>3. KeyReadStands(u)'
    BY <1>2 DEF KeyReadStands, Locked
<1>4. CommitIsDue(u)'
    <2>1. u \in inserts' => pc'[u] = "commit"
        BY DEF CommitIsDue
    <2>2. ASSUME pc'[u] = "commit"
          PROVE  /\ WithinBudget(u)'
                 /\ u \in inserts' <=> \A f \in ledger' : ~SameRequest(event'[u], f)
        <3>1. pc[u] = "commit"
            BY <2>2
        <3>2. /\ WithinBudget(u)
              /\ u \in inserts <=> \A f \in ledger : ~SameRequest(event[u], f)
            BY <3>1 DEF CommitIsDue
        <3>3. WithinBudget(u)'
            BY <3>2 DEF WithinBudget
        <3>4. \A f \in ledger' \ ledger : ~SameRequest(event[u], f)
            BY <1>2, <3>1 DEF SameRequest, Locked
        <3> QED BY <3>2, <3>3, <3>4
    <2> QED BY <2>1, <2>2 DEF CommitIsDue
<1> QED BY <1>1, <1>3, <1>4

\* A call that is not in a transaction has nothing due.
LEMMA NothingDue ==
    ASSUME NEW u \in Worker, pc'[u] \in {"idle", "refused", "count"},
           pc'[u] = "count" => event'[u] \in Event, u \notin inserts'
    PROVE  Due(u)'
    BY DEF Due, LocksHeld, KeyReadStands, CommitIsDue, Locked

\* What the return of call w leaves alone.
LEMMA ReturnKeeps ==
    ASSUME TypeOK, NEW w \in Worker, Return(w), NEW u \in Worker, u # w
    PROVE  SameCall(u)
    BY DEF TypeOK, Return, Goto, SameCall

\* What giving up the row locks of w leaves alone.
LEMMA UnlockKeeps ==
    ASSUME NEW w \in Worker, Unlock(w), NEW u \in Worker, u # w
    PROVE  \A k \in Key : key_lock[k] = u => key_lock'[k] = u
    BY DEF Unlock

\* A step that changes no row but gives up or takes locks u does not hold.
LEMMA RowsFrame ==
    ASSUME NEW u \in Worker, UNCHANGED <<budget, ledger, total>>,
           \A k \in Key : key_lock[k] = u => key_lock'[k] = u
    PROVE  RowsKept(u)
    BY DEF RowsKept

\* Row locks are held, and what was read under them stands, after every step.
LEMMA DueStep ==
    ASSUME TypeOK, TypeOK', \A u \in Worker : Due(u), [Next]_vars
    PROVE  \A u \in Worker : Due(u)'
<1> USE DEF txVars, ledgerVars
<1>0. \A u \in Worker : u \in inserts => pc[u] = "commit"
    BY DEF Due, CommitIsDue
<1>1. ASSUME NEW w \in Worker, NEW e \in Event, Record(w, e) \/ RecordWithTeam(w, e)
      PROVE  \A u \in Worker : Due(u)'
    <2>1. \A u \in Worker \ {w} : SameCall(u) /\ RowsKept(u)
        <3>1. \A u \in Worker \ {w} : SameCall(u)
            BY <1>1 DEF TypeOK, Record, RecordWithTeam, Call, Goto, SameCall
        <3>2. \A u \in Worker : RowsKept(u)
            BY <1>1, RowsFrame DEF Record, RecordWithTeam
        <3> QED BY <3>1, <3>2
    <2>2. pc'[w] \in {"team row", "key row"} /\ event'[w] = e /\ w \notin inserts'
        BY <1>0, <1>1 DEF TypeOK, Record, RecordWithTeam, Call, Goto
    <2>3. Due(w)'
        BY <2>2 DEF Due, LocksHeld, KeyReadStands, CommitIsDue, Locked
    <2> QED BY <2>1, <2>3, OtherKept
<1>2. ASSUME NEW w \in Worker, NEW e \in Event, ReadSpend(w, e)
      PROVE  \A u \in Worker : Due(u)'
    <2>1. \A u \in Worker \ {w} : SameCall(u) /\ RowsKept(u)
        <3>1. \A u \in Worker \ {w} : SameCall(u)
            BY <1>2 DEF TypeOK, ReadSpend, Call, Goto, SameCall
        <3>2. \A u \in Worker : RowsKept(u)
            BY <1>2, RowsFrame DEF ReadSpend
        <3> QED BY <3>1, <3>2
    <2>2. pc'[w] = "count" /\ event'[w] = e /\ w \notin inserts'
        BY <1>0, <1>2 DEF TypeOK, ReadSpend, Call, Goto
    <2> QED BY <2>1, <2>2, OtherKept, NothingDue
<1>3. ASSUME NEW w \in Worker, LockKey(w)
      PROVE  \A u \in Worker : Due(u)'
    <2> DEFINE k == KeyOf[event[w]]
    <2>1. /\ pc[w] = "key row" /\ event[w] \in Event /\ k \in Key /\ w \notin inserts
        BY <1>0, <1>3, Numbers DEF LockKey, Due, LocksHeld, Locked
    <2>2. /\ key_lock[k] = Nobody
          /\ key_lock' = [key_lock EXCEPT ![k] = w]
          /\ limit' = [limit EXCEPT ![w] = budget[k]]
          /\ pc' = [pc EXCEPT ![w] = "sum key"]
          /\ UNCHANGED <<event, spent, inserts, budget, ledger, total>>
        BY <1>3 DEF LockKey, Goto
    <2> HIDE DEF k
    <2>3. \A u \in Worker \ {w} : SameCall(u)
        BY <2>2 DEF TypeOK, SameCall
    <2>4. ASSUME NEW u \in Worker \ {w} PROVE RowsKept(u)
        <3>0. key_lock[k] # u /\ key_lock \in [Key -> Worker \cup {Nobody}]
            BY <2>2, BudgetAssumption DEF TypeOK
        <3>1. \A k1 \in Key : key_lock[k1] = u => key_lock'[k1] = u
            BY <2>2, <3>0
        <3> QED BY <2>2, <3>1, RowsFrame
    <2>5. Due(w)'
        <3>1. /\ pc'[w] = "sum key" /\ event'[w] = event[w]
              /\ key_lock'[k] = w /\ w \notin inserts' /\ limit'[w] = budget'[k]
            BY <2>1, <2>2 DEF TypeOK
        <3> QED BY <2>1, <3>1
                DEF k, Due, LocksHeld, KeyReadStands, CommitIsDue, Locked
    <2> QED BY <2>3, <2>4, <2>5, OtherKept
<1>4. ASSUME NEW w \in Worker, SumKey(w)
      PROVE  \A u \in Worker : Due(u)'
    <2>1. pc[w] = "sum key" /\ w \notin inserts /\ LocksHeld(w) /\ KeyReadStands(w)
        BY <1>0, <1>4 DEF SumKey, Due
    <2>2. \A u \in Worker \ {w} : SameCall(u) /\ RowsKept(u)
        <3>1. \A u \in Worker \ {w} : SameCall(u)
            BY <1>4 DEF TypeOK, SumKey, Goto, SameCall
        <3>2. \A u \in Worker : RowsKept(u)
            BY <1>4, RowsFrame DEF SumKey
        <3> QED BY <3>1, <3>2
    <2>3. /\ pc'[w] = "check"
          /\ spent'[w] = Wrap(total[KeyOf[event[w]]])
          /\ UNCHANGED <<event, limit, inserts, key_lock, budget, total>>
        BY <1>4 DEF TypeOK, SumKey, Goto
    <2>4. LocksHeld(w)'
        BY <2>1, <2>3 DEF LocksHeld, Locked
    <2>5. KeyReadStands(w)'
        BY <2>1, <2>3 DEF KeyReadStands, Locked
    <2>6. CommitIsDue(w)'
        BY <2>1, <2>3 DEF CommitIsDue
    <2> QED BY <2>2, <2>4, <2>5, <2>6, OtherKept DEF Due
<1>5. ASSUME NEW w \in Worker, Insert(w)
      PROVE  \A u \in Worker : Due(u)'
    <2>1. pc[w] = "check" /\ w \notin inserts /\ Due(w)
        BY <1>0, <1>5 DEF Insert
    <2>2. \A u \in Worker \ {w} : SameCall(u)
        BY <1>5 DEF TypeOK, Insert, Goto, SameCall
    <2>3. \A u \in Worker : RowsKept(u)
        BY <1>5, RowsFrame DEF Insert
    <2>4. /\ pc'[w] = "commit" /\ WithinBudget(w)
          /\ w \in inserts' <=> \A f \in ledger : ~SameRequest(event[w], f)
          /\ UNCHANGED <<event, limit, spent, key_lock, budget, ledger, total>>
        BY <1>5, <2>1 DEF TypeOK, Insert, Goto, SameRow, SameRequest
    <2>5. LocksHeld(w)'
        BY <2>1, <2>4 DEF Due, LocksHeld, Locked
    <2>6. KeyReadStands(w)'
        BY <2>1, <2>4 DEF Due, KeyReadStands, Locked
    <2>7. CommitIsDue(w)'
        BY <2>4 DEF CommitIsDue, WithinBudget
    <2> QED BY <2>2, <2>3, <2>5, <2>6, <2>7, OtherKept DEF Due
<1>6. ASSUME NEW w \in Worker, NEW a \in BOOLEAN, Commit(w, a)
      PROVE  \A u \in Worker : Due(u)'
    <2> DEFINE e == event[w]
    <2>1. /\ pc[w] = "commit" /\ e \in Event /\ KeyOf[e] \in Key
          /\ key_lock[KeyOf[e]] = w
        BY <1>6, Numbers DEF Commit, Due, LocksHeld, Locked
    <2>2. Return(w) /\ Unlock(w) /\ budget' = budget
        BY <1>6 DEF Commit
    <2>3. /\ ledger \subseteq ledger' /\ ledger' \subseteq ledger \cup {e}
          /\ \A k \in Key \ {KeyOf[e]} : total'[k] = total[k]
        BY <1>6, <2>1 DEF Commit, TypeOK
    <2> HIDE DEF e
    <2>5. ASSUME NEW u \in Worker, u # w PROVE RowsKept(u)
        BY <2>1, <2>2, <2>3, <2>5, UnlockKeeps DEF RowsKept
    <2>6. \A u \in Worker \ {w} : Due(u)'
        BY <2>2, <2>5, ReturnKeeps, OtherKept
    <2>7. pc'[w] = "idle" /\ w \notin inserts'
        BY <2>2 DEF TypeOK, Return, Goto
    <2> QED BY <2>6, <2>7, NothingDue
<1>7. ASSUME NEW w \in Worker, Rollback(w)
      PROVE  \A u \in Worker : Due(u)'
    <2>1. Return(w) /\ Unlock(w)
        BY <1>7 DEF Rollback
    <2>2. \A u \in Worker \ {w} : SameCall(u) /\ RowsKept(u)
        BY <1>7, <2>1, ReturnKeeps, UnlockKeeps, RowsFrame DEF Rollback
    <2>3. pc'[w] = "idle" /\ w \notin inserts'
        BY <2>1 DEF TypeOK, Return, Goto
    <2> QED BY <2>2, <2>3, OtherKept, NothingDue
<1>8. ASSUME NEW w \in Worker, WriteSpend(w)
      PROVE  \A u \in Worker : Due(u)'
    <2>1. Return(w)
        BY <1>8 DEF WriteSpend
    <2>2. \A u \in Worker \ {w} : SameCall(u) /\ RowsKept(u)
        BY <1>8, <2>1, ReturnKeeps, RowsFrame DEF WriteSpend
    <2>3. pc'[w] = "idle" /\ w \notin inserts'
        BY <2>1 DEF TypeOK, Return, Goto
    <2> QED BY <2>2, <2>3, OtherKept, NothingDue
<1>9. ASSUME NEW w \in Worker, Deduct(w) \/ Refused(w)
      PROVE  \A u \in Worker : Due(u)'
    <2>1. \A u \in Worker \ {w} : SameCall(u)
        BY <1>9 DEF TypeOK, Deduct, Refused, Call, Goto, SameCall
    <2>2. \A u \in Worker : RowsKept(u)
        BY <1>9, RowsFrame DEF Deduct, Refused
    <2>3. pc'[w] \in {"idle", "refused"} /\ w \notin inserts'
        BY <1>0, <1>9 DEF TypeOK, Deduct, Refused, Call, Goto
    <2> QED BY <2>1, <2>2, <2>3, OtherKept, NothingDue
<1>10. ASSUME NEW k \in Key, NEW l \in Limit, UpdateKey(k, l)
      PROVE  \A u \in Worker : Due(u)'
    <2>1. \A u \in Worker : SameCall(u)
        BY <1>10 DEF UpdateKey, SameCall
    <2>2. \A u \in Worker : RowsKept(u)
        BY <1>10, BudgetAssumption DEF UpdateKey, TypeOK, RowsKept
    <2> QED BY <2>1, <2>2, OtherKept
<1>11. CASE (\E k \in Key : ResetSpend(k)) \/ Credit \/ UNCHANGED vars
    <2>1. \A u \in Worker : SameCall(u)
        BY <1>11 DEF ResetSpend, Credit, vars, SameCall
    <2>2. \A u \in Worker : RowsKept(u)
        BY <1>11, RowsFrame DEF ResetSpend, Credit, vars
    <2> QED BY <2>1, <2>2, OtherKept
<1> QED BY Steps, <1>1, <1>2, <1>3, <1>4, <1>5, <1>6, <1>7,
           <1>8, <1>9, <1>10, <1>11

\* What a commit does to the sum of its key and to the ledger.
LEMMA CommitHolds ==
    ASSUME BudgetInv, TypeOK', NEW w \in Worker, NEW a \in BOOLEAN, Commit(w, a)
    PROVE  /\ ChargedOnce'
           /\ \A e \in ledger' \ ledger : \/ total'[KeyOf[e]] <= budget[KeyOf[e]]
                                        \/ total'[KeyOf[e]] > IntMax
<1> DEFINE e == event[w]
           k == KeyOf[e]
           c == CostOf[e]
<1>1. /\ TypeOK /\ LocksHeld(w) /\ KeyReadStands(w) /\ CommitIsDue(w)
      /\ ChargedOnce /\ pc[w] = "commit"
    BY DEF BudgetInv, Commit
<1>2. e \in Event /\ k \in Key /\ c \in Nat /\ IntMax \in Nat
    BY <1>1, Numbers DEF LocksHeld, Locked
<1>3. /\ total[k] \in Nat /\ limit[w] = budget[k] /\ budget[k] \in Int
      /\ spent[w] = Wrap(total[k]) /\ Wrap(spent[w] + c) <= limit[w]
    BY <1>1, <1>2, Numbers DEF TypeOK, KeyReadStands, CommitIsDue, WithinBudget, Locked
<1>4. /\ w \in inserts => \A f \in ledger : ~SameRequest(e, f)
      /\ w \notin inserts => \E f \in ledger : SameRequest(e, f)
    BY <1>1 DEF CommitIsDue
<1>5. /\ ledger' = IF w \in inserts THEN ledger \cup {e} ELSE ledger
      /\ w \in inserts => total'[k] = total[k] + c
      /\ ok' = ok \/ ok' = ok \cup {e}
    BY <1>1, <1>2 DEF Commit, TypeOK
<1> HIDE DEF e, k, c
<1>6. ChargedOnce'
    <2>1. \A f, h \in ledger' : SameRequest(f, h) => f = h
        BY <1>1, <1>4, <1>5 DEF ChargedOnce, SameRequest
    <2>2. SameRequest(e, e) /\ ledger \subseteq ledger'
        BY <1>5 DEF SameRequest
    <2>3. \E f \in ledger' : SameRequest(e, f)
        BY <1>4, <1>5, <2>2
    <2>4. \A f \in ok' : \E h \in ledger' : SameRequest(f, h)
        BY <1>1, <1>5, <2>2, <2>3 DEF ChargedOnce
    <2> QED BY <2>1, <2>4 DEF ChargedOnce, SameRequest
<1>7. w \in inserts => total'[k] <= budget[k] \/ total'[k] > IntMax
    <2>1. SUFFICES ASSUME w \in inserts, total[k] + c <= IntMax
                   PROVE  total[k] + c <= budget[k]
        BY <1>2, <1>3, <1>5
    <2>2. total[k] <= IntMax
        BY <1>2, <1>3, <2>1
    <2>3. spent[w] = total[k]
        BY <1>3, <2>2, WrapExact
    <2>4. Wrap(total[k] + c) = total[k] + c
        BY <1>2, <1>3, <2>1, WrapExact
    <2> QED BY <1>3, <2>3, <2>4
<1>8. \A f \in ledger' \ ledger : f = e /\ w \in inserts
    BY <1>5
<1> QED BY <1>6, <1>7, <1>8 DEF k

\* Every step but a commit leaves the ledger and its sums alone.
LEMMA LedgerSteps ==
    ASSUME [Next]_vars
    PROVE  \/ \E w \in Worker, a \in BOOLEAN : Commit(w, a)
           \/ UNCHANGED ledgerVars
<1> USE DEF ledgerVars
<1> QED BY Steps DEF Record, RecordWithTeam, ReadSpend, LockKey, SumKey, Insert,
        Rollback, WriteSpend, Deduct, Refused, ResetSpend, UpdateKey, Credit, vars

LEMMA BudgetStep ==
    ASSUME BudgetInv, [Next]_vars
    PROVE  BudgetInv'
<1>1. TypeOK /\ \A u \in Worker : Due(u) /\ LocksHeld(u)
    BY DEF BudgetInv, Due
<1>2. TypeOK'
    BY <1>1, TypeStep
<1>3. \A u \in Worker : Due(u)'
    BY <1>1, <1>2, DueStep
<1>4. ChargedOnce'
    <2>1. CASE \E w \in Worker, a \in BOOLEAN : Commit(w, a)
        BY <1>2, <2>1, CommitHolds
    <2>2. CASE UNCHANGED ledgerVars
        BY <2>2 DEF ledgerVars, BudgetInv, ChargedOnce
    <2> QED BY <2>1, <2>2, LedgerSteps
<1> QED BY <1>2, <1>3, <1>4 DEF BudgetInv, Due

LEMMA InitTyped ==
    ASSUME Init
    PROVE  TypeOK
<1>1. 0 \in 0 .. MaxOps /\ Purse \in Nat
    BY BudgetAssumption
<1> QED BY <1>1 DEF Init, TypeOK, Place

\* The rows a recording transaction has locked stay its own, and what it read under
\* them stays true, until it ends: storage.rs, record_spend_ledger and
\* record_spend_ledger_with_team, against everything else that uses the tables.
THEOREM BudgetInvariant == Spec => []BudgetInv
<1>1. Init => BudgetInv
    <2>1. SUFFICES ASSUME Init PROVE BudgetInv
        OBVIOUS
    <2>2. /\ \A u \in Worker : /\ pc[u] = "idle" /\ u \notin inserts
          /\ ledger = {} /\ ok = {}
        BY <2>1 DEF Init
    <2>4. \A u \in Worker : LocksHeld(u) /\ KeyReadStands(u) /\ CommitIsDue(u)
        BY <2>2 DEF LocksHeld, KeyReadStands, CommitIsDue, Locked
    <2> QED BY <2>1, <2>2, <2>4, InitTyped DEF BudgetInv, ChargedOnce
<1>2. BudgetInv /\ [Next]_vars => BudgetInv'
    BY BudgetStep
<1> QED BY <1>1, <1>2, PTL DEF Spec

\* A request is charged at most once, and exactly once when a call said so.
THEOREM RequestsAreChargedOnce == Spec => []ChargedOnce
<1>1. BudgetInv => ChargedOnce
    BY DEF BudgetInv
<1> QED BY <1>1, BudgetInvariant, PTL

\* No commit takes a key over the budget it has at that moment, unless the key's
\* sum passes i64::MAX.
THEOREM KeysKeepTheirBudget == Spec => KeyBudgetHolds
<1>1. ASSUME BudgetInv, BudgetInv', [Next]_vars
      PROVE  [\A e \in ledger' \ ledger :
                \/ total'[KeyOf[e]] <= budget[KeyOf[e]]
                \/ total'[KeyOf[e]] > IntMax]_ledger
    <2>1. CASE \E w \in Worker, a \in BOOLEAN : Commit(w, a)
        BY <1>1, <2>1, CommitHolds DEF BudgetInv
    <2>2. CASE UNCHANGED ledgerVars
        BY <2>2 DEF ledgerVars
    <2> QED BY <1>1, <2>1, <2>2, LedgerSteps
<1> QED BY <1>1, BudgetInvariant, PTL DEF Spec, KeyBudgetHolds

-----------------------------------------------------------------------------
(* The counter and the balance *)

Account(u) == CountStands(u) /\ RefusalStands(u)

\* A step of some call that leaves the counters and the balance alone, and does not
\* go to write them.
LEMMA AccountFrame ==
    ASSUME \A u \in Worker : Account(u), CounterIsExact,
           NEW w \in Worker, \A u \in Worker \ {w} : SameCall(u),
           pc'[w] \notin {"count", "refused"},
           UNCHANGED <<key_spend, counted, moved, lost, balance, credited>>
    PROVE  (\A u \in Worker : Account(u)') /\ CounterIsExact'
<1>1. \A u \in Worker \ {w} : Account(u)'
    BY DEF Account, CountStands, RefusalStands, SameCall
<1>2. Account(w)'
    BY DEF Account, CountStands, RefusalStands
<1>3. CounterIsExact'
    BY DEF CounterIsExact
<1> QED BY <1>1, <1>2, <1>3

\* The steps of the recording transactions do.
LEMMA TransactionSteps ==
    ASSUME TypeOK, NEW w \in Worker,
           \/ \E e \in Event : Record(w, e) \/ RecordWithTeam(w, e)
           \/ LockKey(w) \/ SumKey(w) \/ Insert(w)
           \/ \E a \in BOOLEAN : Commit(w, a)
           \/ Rollback(w)
    PROVE  /\ \A u \in Worker \ {w} : SameCall(u)
           /\ pc'[w] \notin {"count", "refused"}
           /\ UNCHANGED <<key_spend, counted, moved, lost, balance, credited>>
<1> USE DEF txVars, counterVars, purseVars, TypeOK, Goto, Call, SameCall
<1>1. ASSUME NEW e \in Event, Record(w, e) \/ RecordWithTeam(w, e)
      PROVE  /\ \A u \in Worker \ {w} : SameCall(u)
             /\ pc'[w] \notin {"count", "refused"}
             /\ UNCHANGED <<key_spend, counted, moved, lost, balance, credited>>
    BY <1>1 DEF Record, RecordWithTeam
<1>2. CASE LockKey(w)
    BY <1>2 DEF LockKey
<1>3. CASE SumKey(w)
    BY <1>3 DEF SumKey
<1>4. CASE Insert(w)
    BY <1>4 DEF Insert
<1>5. CASE \E a \in BOOLEAN : Commit(w, a)
    <2>1. /\ Return(w)
          /\ UNCHANGED <<key_spend, counted, moved, lost, balance, credited>>
        BY <1>5 DEF Commit
    <2> QED BY <2>1 DEF Return
<1>6. CASE Rollback(w)
    <2>1. /\ Return(w)
          /\ UNCHANGED <<key_spend, counted, moved, lost, balance, credited>>
        BY <1>6 DEF Rollback
    <2> QED BY <2>1 DEF Return
<1> HIDE DEF SameCall, TypeOK
<1> QED BY <1>1, <1>2, <1>3, <1>4, <1>5, <1>6

LEMMA AccountStep ==
    ASSUME TypeOK, \A u \in Worker : LocksHeld(u) /\ Account(u), CounterIsExact,
           [Next]_vars
    PROVE  (\A u \in Worker : Account(u)') /\ CounterIsExact'
<1> USE DEF txVars, counterVars, purseVars
<1>1. ASSUME NEW w \in Worker,
             \/ \E e \in Event : Record(w, e) \/ RecordWithTeam(w, e)
             \/ LockKey(w) \/ SumKey(w) \/ Insert(w)
             \/ \E a \in BOOLEAN : Commit(w, a)
             \/ Rollback(w)
      PROVE  (\A u \in Worker : Account(u)') /\ CounterIsExact'
    <2>1. /\ \A u \in Worker \ {w} : SameCall(u)
          /\ pc'[w] \notin {"count", "refused"}
          /\ UNCHANGED <<key_spend, counted, moved, lost, balance, credited>>
        BY <1>1, TransactionSteps
    <2> QED BY <2>1, AccountFrame
<1>2. ASSUME NEW w \in Worker, NEW e \in Event, ReadSpend(w, e)
      PROVE  (\A u \in Worker : Account(u)') /\ CounterIsExact'
    <2>1. \A u \in Worker \ {w} : SameCall(u)
        BY <1>2 DEF TypeOK, ReadSpend, Call, Goto, SameCall
    <2>2. /\ pc'[w] = "count" /\ event'[w] = e /\ spent'[w] = key_spend[KeyOf[e]]
          /\ UNCHANGED <<key_spend, counted, moved, lost, balance, credited>>
        BY <1>2 DEF TypeOK, ReadSpend, Call, Goto
    <2>3. Account(w)'
        BY <2>2 DEF Account, CountStands, RefusalStands
    <2>4. \A u \in Worker \ {w} : Account(u)'
        BY <2>1, <2>2 DEF Account, CountStands, RefusalStands, SameCall
    <2> QED BY <2>2, <2>3, <2>4 DEF CounterIsExact
<1>3. ASSUME NEW w \in Worker, WriteSpend(w)
      PROVE  (\A u \in Worker : Account(u)') /\ CounterIsExact'
    <2> DEFINE k == KeyOf[event[w]]
    <2>1. /\ pc[w] = "count" /\ event[w] \in Event /\ k \in Key /\ Return(w)
          /\ UNCHANGED <<balance, credited>>
        BY <1>3, Numbers DEF WriteSpend, LocksHeld
    <2>2. \A u \in Worker \ {w} : SameCall(u)
        BY <2>1, ReturnKeeps
    <2>3. pc'[w] = "idle"
        BY <2>1 DEF Return, Goto, TypeOK
    <2>4. Account(w)'
        BY <2>3 DEF Account, CountStands, RefusalStands
    <2>5. CASE UNCHANGED <<key_spend, counted, lost>> /\ moved' = moved \ {w}
        <3>1. \A u \in Worker \ {w} : Account(u)'
            BY <2>1, <2>2, <2>5 DEF Account, CountStands, RefusalStands, SameCall
        <3> QED BY <2>4, <2>5, <3>1 DEF CounterIsExact
    <2>6. CASE /\ key_spend' = [key_spend EXCEPT ![k] = spent[w] + 1]
               /\ counted' = [counted EXCEPT ![k] = @ + 1]
               /\ moved' = (moved \cup Counting(k)) \ {w}
               /\ lost' = IF w \in moved THEN lost \cup {k} ELSE lost
        <3>1. \A j \in Key : j # k => key_spend'[j] = key_spend[j]
                                     /\ counted'[j] = counted[j]
            BY <2>6 DEF TypeOK
        <3>2. key_spend'[k] = spent[w] + 1 /\ counted'[k] = counted[k] + 1
            BY <2>1, <2>6 DEF TypeOK
        <3>3. ASSUME NEW u \in Worker \ {w} PROVE Account(u)'
            <4>1. Account(u) /\ LocksHeld(u) /\ SameCall(u)
                BY <2>2
            <4>2. RefusalStands(u)'
                BY <2>1, <4>1 DEF Account, RefusalStands, SameCall
            <4>3. ASSUME pc[u] = "count", u \notin moved'
                  PROVE  spent'[u] = key_spend'[KeyOf[event'[u]]]
                <5>1. u \notin moved /\ KeyOf[event[u]] # k
                    BY <2>6, <4>3 DEF Counting
                <5>2. KeyOf[event[u]] \in Key
                    BY <4>1, <4>3, Numbers DEF LocksHeld
                <5> QED BY <3>1, <4>1, <4>3, <5>1, <5>2
                        DEF Account, CountStands, SameCall
            <4> QED BY <4>1, <4>2, <4>3 DEF Account, CountStands, SameCall
        <3>4. k \notin lost' => spent[w] = key_spend[k] /\ key_spend[k] = counted[k]
            BY <2>1, <2>6 DEF Account, CountStands, CounterIsExact
        <3>5. CounterIsExact'
            BY <2>6, <3>1, <3>2, <3>4 DEF CounterIsExact
        <3> QED BY <2>4, <3>3, <3>5
    <2>7. \/ UNCHANGED <<key_spend, counted, lost>> /\ moved' = moved \ {w}
          \/ /\ key_spend' = [key_spend EXCEPT ![k] = spent[w] + 1]
             /\ counted' = [counted EXCEPT ![k] = @ + 1]
             /\ moved' = (moved \cup Counting(k)) \ {w}
             /\ lost' = IF w \in moved THEN lost \cup {k} ELSE lost
        BY <1>3, Zenon DEF WriteSpend, Written
    <2> QED BY <2>5, <2>6, <2>7
<1>4. ASSUME NEW k \in Key, ResetSpend(k)
      PROVE  (\A u \in Worker : Account(u)') /\ CounterIsExact'
    <2>1. /\ key_spend' = [key_spend EXCEPT ![k] = 0]
          /\ counted' = [counted EXCEPT ![k] = 0]
          /\ moved' = moved \cup Counting(k)
          /\ UNCHANGED <<pc, event, spent, lost, balance, credited>>
        BY <1>4 DEF ResetSpend
    <2>2. /\ \A j \in Key : j # k => key_spend'[j] = key_spend[j]
                                    /\ counted'[j] = counted[j]
          /\ key_spend'[k] = 0 /\ counted'[k] = 0
        BY <2>1 DEF TypeOK
    <2>3. ASSUME NEW u \in Worker PROVE Account(u)'
        <3>1. RefusalStands(u)'
            BY <2>1 DEF Account, RefusalStands
        <3>2. ASSUME pc[u] = "count", u \notin moved'
              PROVE  spent[u] = key_spend'[KeyOf[event[u]]]
            <4>1. u \notin moved /\ KeyOf[event[u]] # k
                BY <2>1, <3>2 DEF Counting
            <4>2. KeyOf[event[u]] \in Key
                BY <3>2, Numbers DEF LocksHeld
            <4> QED BY <2>2, <3>2, <4>1, <4>2 DEF Account, CountStands
        <3> QED BY <2>1, <3>1, <3>2 DEF Account, CountStands
    <2>4. CounterIsExact'
        BY <2>1, <2>2 DEF CounterIsExact
    <2> QED BY <2>3, <2>4
<1>5. ASSUME NEW w \in Worker, Deduct(w)
      PROVE  (\A u \in Worker : Account(u)') /\ CounterIsExact'
    <2>1. /\ \A u \in Worker \ {w} : SameCall(u)
          /\ UNCHANGED <<key_spend, counted, moved, lost, credited>>
        BY <1>5 DEF TypeOK, Deduct, Call, Goto, SameCall
    <2>2. \/ pc'[w] = "idle" /\ balance' = balance - Price
          \/ pc'[w] = "refused" /\ balance' = balance /\ ~(balance >= Price)
        BY <1>5 DEF TypeOK, Deduct, Affordable, Call, Goto
    <2>3. balance \in Nat /\ Price \in Nat
        BY Numbers DEF TypeOK
    <2>4. balance' <= balance /\ balance' \in Int /\ (pc'[w] = "refused" => balance' < Price)
        BY <2>2, <2>3
    <2>5. Account(w)'
        BY <2>2, <2>4 DEF Account, CountStands, RefusalStands
    <2>6. balance < Price => balance' < Price
        BY <2>3, <2>4
    <2>7. \A u \in Worker \ {w} : Account(u)'
        BY <2>1, <2>6 DEF Account, CountStands, RefusalStands, SameCall
    <2> QED BY <2>1, <2>5, <2>7 DEF CounterIsExact
<1>6. ASSUME NEW w \in Worker, Refused(w)
      PROVE  (\A u \in Worker : Account(u)') /\ CounterIsExact'
    <2>1. /\ \A u \in Worker \ {w} : SameCall(u)
          /\ pc'[w] = "idle" /\ credited' = credited \ {w}
          /\ UNCHANGED <<key_spend, counted, moved, lost, balance>>
        BY <1>6 DEF TypeOK, Refused, Goto, SameCall
    <2>2. \A u \in Worker : Account(u)'
        BY <2>1 DEF Account, CountStands, RefusalStands, SameCall
    <2> QED BY <2>1, <2>2 DEF CounterIsExact
<1>7. CASE Credit
    <2>1. /\ credited' = credited \cup {u \in Worker : pc[u] = "refused"}
          /\ UNCHANGED <<pc, event, spent, key_spend, counted, moved, lost>>
        BY <1>7 DEF Credit
    <2>2. \A u \in Worker : Account(u)'
        BY <2>1 DEF Account, CountStands, RefusalStands
    <2> QED BY <2>1, <2>2 DEF CounterIsExact
<1>8. CASE (\E k \in Key, l \in Limit : UpdateKey(k, l)) \/ UNCHANGED vars
    <2>1. UNCHANGED <<pc, event, spent, key_spend, counted, moved, lost, balance, credited>>
        BY <1>8 DEF UpdateKey, vars
    <2> QED BY <2>1 DEF Account, CountStands, RefusalStands, CounterIsExact
<1> QED BY Steps, <1>1, <1>2, <1>3, <1>4, <1>5, <1>6, <1>7, <1>8

\* What a call has read of a counter or of the balance is still so, unless the
\* history variables say who changed it since: storage.rs, record_spend and
\* deduct_octo_w, which take no lock between the two statements.
THEOREM AccountInvariant == Spec => []AccountInv
<1>1. Init => AccountInv
    <2>1. SUFFICES ASSUME Init PROVE AccountInv
        OBVIOUS
    <2>2. \A u \in Worker : pc[u] = "idle"
        BY <2>1 DEF Init
    <2>3. \A u \in Worker : LocksHeld(u) /\ CountStands(u) /\ RefusalStands(u)
        BY <2>2 DEF LocksHeld, CountStands, RefusalStands, Locked
    <2>4. CounterIsExact
        BY <2>1 DEF Init, CounterIsExact
    <2> QED BY <2>1, <2>3, <2>4, InitTyped DEF AccountInv
<1>2. BudgetInv /\ BudgetInv' /\ AccountInv /\ [Next]_vars => AccountInv'
    <2>1. SUFFICES ASSUME BudgetInv, BudgetInv', AccountInv, [Next]_vars
                   PROVE  AccountInv'
        OBVIOUS
    <2>2. TypeOK' /\ \A u \in Worker : LocksHeld(u)'
        BY <2>1 DEF BudgetInv
    <2>3. TypeOK /\ (\A u \in Worker : LocksHeld(u) /\ Account(u)) /\ CounterIsExact
        BY <2>1 DEF AccountInv, Account
    <2>4. (\A u \in Worker : Account(u)') /\ CounterIsExact'
        BY <2>1, <2>3, AccountStep
    <2> QED BY <2>2, <2>4 DEF AccountInv, Account
<1> QED BY <1>1, <1>2, BudgetInvariant, PTL DEF Spec

\* key_spend.total_spend is exact as long as no record_spend writes over what
\* another call wrote since it read.
THEOREM CountersAreExact == Spec => []CounterIsExact
<1>1. AccountInv => CounterIsExact
    BY DEF AccountInv
<1> QED BY <1>1, AccountInvariant, PTL

\* deduct_octo_w says Ok without a deduction only to a call during which somebody
\* paid in.
THEOREM UnpaidWasCredited == Spec => UnpaidNeedsCredit
<1>1. ASSUME AccountInv, [Next]_vars
      PROVE  [unpaid' # unpaid =>
                \E w \in credited : pc[w] = "refused" /\ pc'[w] = "idle"]_unpaid
    <2>1. CASE \E w \in Worker : Refused(w)
        <3>1. PICK w \in Worker : Refused(w)
            BY <2>1
        <3>2. pc[w] = "refused" /\ pc'[w] = "idle" /\ (unpaid' # unpaid => ~Short)
            BY <1>1, <3>1 DEF Refused, Goto, AccountInv, TypeOK
        <3>3. ~Short => w \in credited
            BY <1>1, <3>2 DEF AccountInv, RefusalStands, Short
        <3> QED BY <3>2, <3>3
    <2>2. CASE unpaid' = unpaid
        BY <2>2
    <2> QED BY <1>1, <2>1, <2>2, Steps
            DEF Record, RecordWithTeam, ReadSpend, LockKey, SumKey, Insert, Commit,
                Rollback, WriteSpend, Deduct, ResetSpend, UpdateKey, Credit, vars,
                purseVars
<1> QED BY <1>1, AccountInvariant, PTL DEF Spec, UnpaidNeedsCredit
=============================================================================
