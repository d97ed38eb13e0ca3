----------------------------- MODULE KeyBudget -----------------------------
(***************************************************************************)
(* How the quota router charges an API key:                                *)
(* quota-router-core/src/storage.rs (StoolapKeyStorage), as middleware.rs  *)
(* and balance.rs use it.  Three accounts are kept: the append-only        *)
(* spend_ledger with its recording transaction, the deprecated key_spend   *)
(* counter, and the OCTO-W balance.                                        *)
(*                                                                         *)
(* Each SQL statement is one step: the calls of several routers on one     *)
(* database interleave between statements.  The database is not in this    *)
(* repository; what storage.rs relies on is modelled: a row selected FOR   *)
(* UPDATE is locked until its transaction ends, other statements read what *)
(* is committed, and a transaction that is dropped is rolled back.         *)
(***************************************************************************)
EXTENDS Integers

CONSTANTS
    Worker,      \* calls in progress, of one router or several
    Key, Team,
    Event,       \* spend events
    KeyOf,       \* key_id of an event
    TeamOf,      \* team_id of an event, NoTeam being none
    RequestOf,   \* request_id of an event
    CostOf,      \* cost_amount of an event
    Limit,       \* budget_limits of a key
    TeamLimit,   \* budget_limit of a team
    Purse,       \* OCTO-W balance of the one key that has a balance
    IntMax,      \* i64::MAX
    Price,       \* what one deduction costs
    MaxOps,      \* bound: calls made
    NoTeam, Nobody, NoEvent

ASSUME BudgetAssumption ==
    /\ KeyOf \in [Event -> Key] /\ TeamOf \in [Event -> Team \cup {NoTeam}]
    /\ IntMax \in Nat
    /\ CostOf \in [Event -> 0 .. IntMax] \* cost_amount_i64 refuses any other
    /\ Limit \subseteq 0 .. IntMax /\ Limit # {}
    /\ TeamLimit \in 0 .. IntMax /\ Purse \in Nat /\ Price \in Nat \ {0} /\ MaxOps \in Nat
    /\ NoTeam \notin Team /\ Nobody \notin Worker /\ NoEvent \notin Event

VARIABLES
    ops,         \* calls begun
    pc,          \* where a call is
    event,       \* the event it records
    \* The database:
    budget,      \* api_keys.budget_limit
    ledger,      \* the committed rows of spend_ledger, which only grow, and the
    total,       \* SUM(cost_amount) over them for a key
    team_total,  \* and for a team, before they are cut to 64 bits
    key_lock,    \* who holds a row of api_keys
    key_spend,   \* key_spend.total_spend, and has_row: whether the row exists
    has_row,
    balance,     \* octo_w_balances.balance
    \* What a call has read:
    limit, spent, row_seen,
    inserts,     \* whether its transaction holds an uncommitted row
    \* History, read by the properties only:
    ok,          \* events some call returned Ok for
    counted,     \* amounts recorded in key_spend since the last reset
    moved,       \* calls whose key_spend row was written since they read it
    lost,        \* keys on whose counter such a call wrote
    credited,    \* calls since whose failed UPDATE the balance was credited
    unpaid       \* deductions that returned Ok and took nothing

txVars == <<event, limit, spent, inserts>>
counterVars == <<key_spend, has_row, row_seen, counted, moved, lost>>
purseVars == <<balance, credited, unpaid>>
ledgerVars == <<ledger, total, team_total, ok>>
vars == <<ops, pc, budget, txVars, key_lock, counterVars, purseVars, ledgerVars>>

-----------------------------------------------------------------------------
Place == {"idle", "team row", "key row", "sum key", "check", "commit", "count", "refused"}

\* A 64-bit sum as a release build and, it is assumed, SUM compute it.
Wrap(n) == IF n > IntMax THEN n - 2 * (IntMax + 1) ELSE n

TypeOK ==
    /\ ops \in 0 .. MaxOps
    /\ pc \in [Worker -> Place]
    /\ event \in [Worker -> Event \cup {NoEvent}]
    /\ budget \in [Key -> Limit]
    /\ ledger \subseteq Event /\ ok \subseteq Event
    /\ total \in [Key -> Nat]
    /\ team_total \in [Team -> Nat]
    /\ key_lock \in [Key -> Worker \cup {Nobody}]
    /\ key_spend \in [Key -> Int] /\ has_row \subseteq Key /\ counted \in [Key -> Nat]
    /\ limit \in [Worker -> Int] /\ spent \in [Worker -> Int]
    /\ row_seen \subseteq Worker /\ inserts \subseteq Worker
    /\ moved \subseteq Worker /\ lost \subseteq Key
    /\ balance \in Nat /\ credited \subseteq Worker /\ unpaid \in Nat

Init ==
    /\ ops = 0
    /\ pc = [w \in Worker |-> "idle"]
    /\ event = [w \in Worker |-> NoEvent]
    /\ budget \in [Key -> Limit]
    /\ ledger = {} /\ ok = {}
    /\ total = [k \in Key |-> 0]
    /\ team_total = [t \in Team |-> 0]
    /\ key_lock = [k \in Key |-> Nobody]
    /\ key_spend = [k \in Key |-> 0] /\ has_row = {} /\ counted = [k \in Key |-> 0]
    /\ limit = [w \in Worker |-> 0] /\ spent = [w \in Worker |-> 0]
    /\ row_seen = {} /\ inserts = {} /\ moved = {} /\ lost = {}
    /\ balance = Purse /\ credited = {} /\ unpaid = 0

Goto(w, place) == pc' = [pc EXCEPT ![w] = place]

Call(w, place) ==
    /\ pc[w] = "idle"
    /\ ops < MaxOps
    /\ ops' = ops + 1
    /\ Goto(w, place)

\* A call returns; what it read goes with it.
Return(w) ==
    /\ Goto(w, "idle")
    /\ event' = [event EXCEPT ![w] = NoEvent]
    /\ limit' = [limit EXCEPT ![w] = 0] /\ spent' = [spent EXCEPT ![w] = 0]
    /\ inserts' = inserts \ {w}

-----------------------------------------------------------------------------
(* The recording transactions *)

\* record_spend_ledger, which process_response calls whether or not the event has a
\* team.  An event may be recorded again, by any router, after an error or a
\* crash.
Record(w, e) ==
    /\ Call(w, "key row")
    /\ event' = [event EXCEPT ![w] = e]
    /\ UNCHANGED <<budget, limit, spent, inserts, key_lock, counterVars, purseVars,
                   ledgerVars>>

\* record_spend_ledger_with_team, which nothing in the repository calls.
RecordWithTeam(w, e) ==
    /\ TeamOf[e] # NoTeam
    /\ Call(w, "team row")
    /\ event' = [event EXCEPT ![w] = e]
    /\ UNCHANGED <<budget, limit, spent, inserts, key_lock, counterVars, purseVars,
                   ledgerVars>>

\* The key row is read without FOR UPDATE.
LockKey_unlocked(w) ==
    /\ pc[w] = "key row"
    /\ limit' = [limit EXCEPT ![w] = budget[KeyOf[event[w]]]]
    /\ Goto(w, "sum key")
    /\ UNCHANGED <<ops, budget, event, spent, inserts, key_lock, counterVars, purseVars, ledgerVars>>

\* SELECT budget_limit FROM api_keys ... FOR UPDATE
LockKey(w) ==
    /\ pc[w] = "key row"
    /\ key_lock[KeyOf[event[w]]] = Nobody
    /\ key_lock' = [key_lock EXCEPT ![KeyOf[event[w]]] = w]
    /\ limit' = [limit EXCEPT ![w] = budget[KeyOf[event[w]]]]
    /\ Goto(w, "sum key")
    /\ UNCHANGED <<ops, budget, event, spent, inserts, counterVars, purseVars, ledgerVars>>

\* SELECT SUM(cost_amount) ... WHERE key_id
SumKey(w) ==
    /\ pc[w] = "sum key"
    /\ spent' = [spent EXCEPT ![w] = Wrap(total[KeyOf[event[w]]])]
    /\ Goto(w, "check")
    /\ UNCHANGED <<ops, budget, event, limit, inserts, key_lock, counterVars, purseVars,
                   ledgerVars>>

WithinBudget(w) == Wrap(spent[w] + CostOf[event[w]]) <= limit[w]

\* A transaction that ends gives up its row locks.
Unlock(w) ==
    key_lock' = [k \in Key |-> IF key_lock[k] = w THEN Nobody ELSE key_lock[k]]

\* Dropping the transaction rolls it back.
Rollback(w) ==
    /\ Unlock(w)
    /\ Return(w)
    /\ UNCHANGED <<ops, budget, counterVars, purseVars, ledgerVars>>

\* SELECT budget_limit FROM teams ... FOR UPDATE: the id is bound as text and the
\* column is a BLOB(16), so there is no such row, NotFound, and the transaction
\* gets no further.
TeamNotFound(w) ==
    /\ pc[w] = "team row"
    /\ Rollback(w)

\* BudgetExceeded.
Exceed(w) ==
    /\ pc[w] = "check"
    /\ ~WithinBudget(w)
    /\ Rollback(w)

\* Any other statement fails, or the router dies before the commit.
Abort(w) ==
    /\ pc[w] \in {"team row", "key row", "sum key", "check", "commit"}
    /\ Rollback(w)

SameRow_by_event(e, f) == e = f

\* UNIQUE(key_id, request_id)
SameRow(e, f) == KeyOf[e] = KeyOf[f] /\ RequestOf[e] = RequestOf[f]

\* INSERT INTO spend_ledger; a UniqueConstraint error is taken for the same event
\* having been recorded before.
Insert(w) ==
    /\ pc[w] = "check"
    /\ WithinBudget(w)
    /\ inserts' = IF \E f \in ledger : SameRow(event[w], f) THEN inserts
                  ELSE inserts \cup {w}
    /\ Goto(w, "commit")
    /\ UNCHANGED <<ops, budget, event, limit, spent, key_lock, counterVars, purseVars, ledgerVars>>

\* commit: the row is in the ledger, and the caller learns of it or, the router
\* dying at this very point, does not.
Commit(w, answered) ==
    /\ pc[w] = "commit"
    /\ IF w \in inserts
       THEN LET e == event[w] IN
            /\ ledger' = ledger \cup {e}
            /\ total' = [total EXCEPT ![KeyOf[e]] = @ + CostOf[e]]
            /\ team_total' = IF TeamOf[e] = NoTeam THEN team_total
                             ELSE [team_total EXCEPT ![TeamOf[e]] = @ + CostOf[e]]
       ELSE UNCHANGED <<ledger, total, team_total>>
    /\ ok' = IF answered THEN ok \cup {event[w]} ELSE ok
    /\ Unlock(w)
    /\ Return(w)
    /\ UNCHANGED <<ops, budget, counterVars, purseVars>>

\* update_key with a budget_limit; the UPDATE waits for the row.
UpdateKey(k, l) ==
    /\ key_lock[k] = Nobody
    /\ budget[k] # l
    /\ budget' = [budget EXCEPT ![k] = l]
    /\ UNCHANGED <<ops, pc, txVars, key_lock, counterVars, purseVars, ledgerVars>>

-----------------------------------------------------------------------------
(* The counter *)

\* record_spend of one unit, get_spend.  The event only says which key.
ReadSpend(w, e) ==
    /\ Call(w, "count")
    /\ event' = [event EXCEPT ![w] = e]
    /\ spent' = [spent EXCEPT ![w] = key_spend[KeyOf[e]]]
    /\ row_seen' = IF KeyOf[e] \in has_row THEN row_seen \cup {w} ELSE row_seen
    /\ UNCHANGED <<budget, limit, inserts, key_lock, key_spend,
                   has_row, counted, moved, lost, purseVars, ledgerVars>>

\* Calls that have read the counter of a key and are to write it.
Counting(k) == {w \in Worker : pc[w] = "count" /\ KeyOf[event[w]] = k}

\* What was read is written back.
Written_same(w) == spent[w]

Written(w) == spent[w] + 1

\* record_spend: UPDATE if there was a row, else INSERT, an error if there is one.
WriteSpend(w) ==
    LET k == KeyOf[event[w]] IN
    /\ pc[w] = "count"
    /\ IF w \notin row_seen /\ k \in has_row
       THEN UNCHANGED <<key_spend, has_row, counted, lost>> /\ moved' = moved \ {w}
       ELSE /\ key_spend' = [key_spend EXCEPT ![k] = Written(w)]
            /\ has_row' = has_row \cup {k}
            /\ counted' = [counted EXCEPT ![k] = @ + 1]
            /\ moved' = (moved \cup Counting(k)) \ {w}
            /\ lost' = IF w \in moved THEN lost \cup {k} ELSE lost
    /\ Return(w)
    /\ row_seen' = row_seen \ {w}
    /\ UNCHANGED <<ops, budget, key_lock, purseVars, ledgerVars>>

\* reset_spend, which changes an existing row.
ResetSpend(k) ==
    /\ k \in has_row
    /\ key_spend[k] > 0
    /\ key_spend' = [key_spend EXCEPT ![k] = 0]
    /\ counted' = [counted EXCEPT ![k] = 0]
    /\ moved' = moved \cup Counting(k)
    /\ UNCHANGED <<ops, pc, budget, txVars, key_lock, has_row, row_seen, lost, purseVars,
                   ledgerVars>>

-----------------------------------------------------------------------------
(* OCTO-W *)

Affordable == balance >= Price

\* deduct_octo_w: UPDATE ... WHERE balance >= cost.  It returns the balance when a
\* row was changed.
Deduct(w) ==
    /\ IF Affordable
       THEN balance' = balance - Price /\ Call(w, "idle")
       ELSE Call(w, "refused") /\ UNCHANGED balance
    /\ UNCHANGED <<budget, txVars, key_lock, counterVars, credited, unpaid, ledgerVars>>

\* Whatever the balance, the refusal is not reported.
Short_never == FALSE

Short == balance < Price

\* ... no row changed: the balance is read again to tell why.  Enough of it now is
\* no error.
Refused(w) ==
    /\ pc[w] = "refused"
    /\ unpaid' = IF Short THEN unpaid ELSE unpaid + 1
    /\ credited' = credited \ {w}
    /\ Goto(w, "idle")
    /\ UNCHANGED <<ops, budget, txVars, key_lock, counterVars, balance, ledgerVars>>

\* Somebody tops the balance up.
Credit ==
    /\ balance < Price
    /\ balance' = balance + Price
    /\ credited' = credited \cup {w \in Worker : pc[w] = "refused"}
    /\ UNCHANGED <<ops, pc, budget, txVars, key_lock, counterVars, unpaid, ledgerVars>>

-----------------------------------------------------------------------------
Next ==
    \/ \E w \in Worker :
        \/ \E e \in Event : Record(w, e) \/ RecordWithTeam(w, e) \/ ReadSpend(w, e)
        \/ TeamNotFound(w)
        \/ LockKey(w) \/ SumKey(w) \/ Exceed(w) \/ Insert(w)
        \/ Abort(w) \/ \E answered \in BOOLEAN : Commit(w, answered)
        \/ WriteSpend(w)
        \/ Deduct(w) \/ Refused(w)
    \/ \E k \in Key : ResetSpend(k) \/ \E l \in Limit : UpdateKey(k, l)
    \/ Credit

Spec == Init /\ [][Next]_vars

-----------------------------------------------------------------------------
(* Properties *)

\* A commit never takes a key over the budget_limit in force at the commit, whatever
\* other routers record, retry or change meanwhile ("preventing double-spend in
\* concurrent multi-router deployments"), short of a sum past i64::MAX, where the
\* comparison admits anything.
KeyBudgetHolds ==
    [][\A e \in ledger' \ ledger :
        \/ total'[KeyOf[e]] <= budget[KeyOf[e]]
        \/ total'[KeyOf[e]] > IntMax]_ledger

SameRequest(e, f) == KeyOf[e] = KeyOf[f] /\ RequestOf[e] = RequestOf[f]

\* A request is charged once, and an Ok means that it is charged: an answer lost to a
\* crash and retried, on another router, with other token counts, adds nothing.
ChargedOnce ==
    /\ \A e, f \in ledger : SameRequest(e, f) => e = f
    /\ \A e \in ok : \E f \in ledger : SameRequest(e, f)

\* The counter is exact until some call writes over what another wrote since it read.
CounterIsExact ==
    \A k \in Key \ lost : key_spend[k] = counted[k]

\* deduct_octo_w returns Ok without a deduction only to a call that the balance was
\* credited behind the back of.
UnpaidNeedsCredit ==
    [][unpaid' # unpaid => \E w \in credited : pc[w] = "refused" /\ pc'[w] = "idle"]_unpaid

-----------------------------------------------------------------------------
(* What they rest on *)

\* Where a transaction holds the row of its key.
Locked == {"sum key", "check", "commit"}

LocksHeld(w) ==
    /\ pc[w] \notin {"idle", "refused"} => event[w] \in Event
    /\ pc[w] \in Locked => key_lock[KeyOf[event[w]]] = w

\* What a transaction read under its lock of the key row is still so.
KeyReadStands(w) ==
    /\ pc[w] \in Locked => limit[w] = budget[KeyOf[event[w]]]
    /\ pc[w] \in Locked \ {"sum key"} => spent[w] = Wrap(total[KeyOf[event[w]]])

\* A transaction about to commit was within budget, and holds a row exactly when
\* the ledger has none for its request.
CommitIsDue(w) ==
    /\ w \in inserts => pc[w] = "commit"
    /\ pc[w] = "commit" =>
        /\ WithinBudget(w)
        /\ w \in inserts <=> \A f \in ledger : ~SameRequest(event[w], f)

BudgetInv ==
    /\ TypeOK
    /\ \A w \in Worker : LocksHeld(w) /\ KeyReadStands(w) /\ CommitIsDue(w)
    /\ ChargedOnce

\* A call has read the counter it is about to write, unless that was written since.
CountStands(w) ==
    pc[w] = "count" /\ w \notin moved => spent[w] = key_spend[KeyOf[event[w]]]

\* A call that could not be paid for still cannot, unless somebody paid in since.
RefusalStands(w) ==
    pc[w] = "refused" /\ w \notin credited => balance < Price

AccountInv ==
    /\ TypeOK
    /\ \A w \in Worker : LocksHeld(w) /\ CountStands(w) /\ RefusalStands(w)
    /\ CounterIsExact

-----------------------------------------------------------------------------
(* What comments, tests or RFCs of the repository say, and the code does not   *)
(* do: TLC refutes this (README.md, "Disagreements").                          *)

\* "When a key belongs to a team, both key budget AND team budget must be enforced":
\* what is recorded for a team stays within its limit.
TeamBudgetHolds == \A t \in Team : team_total[t] <= TeamLimit
=============================================================================
