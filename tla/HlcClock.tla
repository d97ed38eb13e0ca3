------------------------------ MODULE HlcClock ------------------------------
(***************************************************************************)
(* The hybrid logical clocks of the writer-election substrate:             *)
(* octo-sync/src/substrate/hlc.rs.                                         *)
(*                                                                         *)
(* A clock is a pair of atomics, last_physical_ms and last_logical, and    *)
(* now() and observe() are sequences of loads and stores on them.  Every   *)
(* load and store is an action here, so the calls of the threads that      *)
(* share a clock interleave as they do on the machine.  The wall clock is  *)
(* SystemTime: it may jump in either direction, so a reading of it is any  *)
(* element of Wall.  A remote timestamp is whatever a peer sent: any       *)
(* physical time of Remotes with any u32, u32::MAX included.               *)
(***************************************************************************)
EXTENDS Naturals

CONSTANTS
    WriterNode,  \* WriterNodeId: one HlcClock each
    Threads,     \* threads sharing each clock
    Wall,        \* readings of the wall clock, in ms
    Remotes,     \* physical times of the timestamps peers send, in ms
    Cap,         \* max_skew_ms
    MaxLogical,  \* u32::MAX
    MaxIssued    \* bound: timestamps issued

ASSUME ClockAssumption ==
    /\ Threads \in Nat \ {0}
    /\ Wall \subseteq Nat /\ Remotes \subseteq Nat
    /\ {Cap, MaxLogical, MaxIssued} \subseteq Nat
    /\ 1 < MaxLogical

VARIABLES
    last_physical,  \* last_physical[n]: the first atomic of n's clock
    last_logical,   \* last_logical[n]: the second
    pc,             \* pc[t]: the load or store thread t performs next
    reg,            \* reg[t]: the locals of its call
    \* History, read by the properties only:
    count,          \* how many timestamps were returned
    issued,         \* the timestamps, each with its place in the order
    highest,        \* highest[n]: the highest wall reading of n's clock
    spoilt,         \* threads whose call overlapped another on its clock, or
                    \* whose logical part wrapped around
    fresh           \* fresh[n]: n's clock still stands for what it issued from
                    \* the fresh[n]-th timestamp on

hlcVars == <<last_physical, last_logical, pc, reg, count, issued, highest,
             spoilt, fresh>>

-----------------------------------------------------------------------------
Thread == WriterNode \X (1 .. Threads)

\* The node a thread runs on.
On(t) == t[1]

Larger(a, b) == IF a >= b THEN a ELSE b

\* A timestamp; nth tells apart two calls that return the same one.
Issue == [physical : Nat, logical : 0 .. MaxLogical - 1, node : WriterNode, nth : Nat]

\* The locals of a call.
Locals == [remote : [physical : Nat, logical : 0 .. MaxLogical,
                     present : BOOLEAN],
           physical : Nat, logical : 0 .. MaxLogical - 1, tie : BOOLEAN]

\* now() has no remote timestamp; observe() has any a peer may send.
NoRemote == [physical |-> 0, logical |-> 0, present |-> FALSE]
Sent == [physical : Remotes, logical : 0 .. MaxLogical]
Remote(e) == [physical |-> e.physical, logical |-> e.logical, present |-> TRUE]

\* No call is in progress.
NoLocals == [remote |-> NoRemote, physical |-> 0, logical |-> 0, tie |-> FALSE]

Before(d, e) ==
    \/ d.physical < e.physical
    \/ d.physical = e.physical /\ d.logical < e.logical

HlcTypeOK ==
    /\ last_physical \in [WriterNode -> Nat]
    /\ last_logical \in [WriterNode -> 0 .. MaxLogical - 1]
    /\ pc \in [Thread ->
            {"idle", "second", "third", "logical", "physical", "done"}]
    /\ reg \in [Thread -> Locals]
    /\ count \in Nat
    /\ issued \subseteq Issue
    /\ highest \in [WriterNode -> Nat]
    /\ spoilt \subseteq Thread
    /\ fresh \in [WriterNode -> Nat]

HlcInit ==
    /\ last_physical = [n \in WriterNode |-> 0]
    /\ last_logical = [n \in WriterNode |-> 0]
    /\ pc = [t \in Thread |-> "idle"]
    /\ reg = [t \in Thread |-> NoLocals]
    /\ count = 0
    /\ issued = {}
    /\ highest = [n \in WriterNode |-> 0]
    /\ spoilt = {}
    /\ fresh = [n \in WriterNode |-> 0]

-----------------------------------------------------------------------------
\* The other threads that are in a call on t's clock.
Rivals(t) == {u \in Thread \ {t} : On(u) = On(t) /\ pc[u] # "idle"}

\* The call reads the wall clock, and loads last_physical for the first time.
Begin(t, wall, remote, floor) ==
    /\ pc[t] = "idle"
    /\ count < MaxIssued
    /\ highest' = [highest EXCEPT ![On(t)] = Larger(@, wall)]
    /\ reg' = [reg EXCEPT ![t] =
                [remote |-> remote,
                 physical |-> Larger(floor, last_physical[On(t)]),
                 logical |-> 0, tie |-> FALSE]]
    /\ pc' = [pc EXCEPT ![t] = "second"]
    /\ spoilt' = spoilt \cup Rivals(t) \cup {u \in {t} : Rivals(t) # {}}
    /\ UNCHANGED <<last_physical, last_logical, count, issued, fresh>>

\* now()
Now(t, wall) == Begin(t, wall, NoRemote, wall)

\* Any remote timestamp is let in.
WithinCap_unchecked(a, b) == TRUE

\* a.abs_diff(b) <= max_skew_ms
WithinCap(a, b) == a <= b + Cap /\ b <= a + Cap

\* observe(): RemoteSkewExceedsCap ends the call before the first load.
Observe(t, wall, e) ==
    /\ WithinCap(e.physical, wall)
    /\ Begin(t, wall, Remote(e), Larger(wall, e.physical))

\* The second load of last_physical: is it the physical time of the call, and
\* is that the remote one too?
LoadSecond(t) ==
    LET r == reg[t]
        same == r.physical = last_physical[On(t)]
        tie == same /\ r.remote.present /\ r.physical = r.remote.physical
    IN  /\ pc[t] = "second"
        /\ reg' = [reg EXCEPT ![t].tie = tie]
        /\ pc' = [pc EXCEPT ![t] =
                CASE tie -> "logical"
                  [] ~tie /\ r.remote.present -> "third"
                  [] ~r.remote.present /\ same -> "logical"
                  [] ~r.remote.present /\ ~same -> "physical"]
        /\ UNCHANGED <<last_physical, last_logical, count, issued, highest,
                       spoilt, fresh>>

\* The call ends without a timestamp and stores nothing.
GiveUp(t) ==
    /\ pc' = [pc EXCEPT ![t] = "idle"]
    /\ reg' = [reg EXCEPT ![t] = NoLocals]
    /\ spoilt' = spoilt \ {t}

\* The counter runs into u32::MAX.
Overflows_never(next) == FALSE

\* The refuse-new guard.
Overflows(next) == next = MaxLogical

\* The u32 that + 1 leaves: a build without overflow checks wraps around.
Wrapped(next) == next % (MaxLogical + 1)

\* The next logical value, or LogicalOverflow when it is u32::MAX.  After a
\* remote u32::MAX the sum is past the type before the guard looks at it: a
\* build with overflow checks panics and one without goes on from 0.
TakeLogical(t, next) ==
    \/ /\ Overflows(next) \/ next > MaxLogical
       /\ GiveUp(t)
    \/ /\ ~Overflows(next)
       /\ reg' = [reg EXCEPT ![t].logical = Wrapped(next)]
       /\ pc' = [pc EXCEPT ![t] = "physical"]
       /\ spoilt' = spoilt \cup {u \in {t} : next > MaxLogical}

\* observe() only: the third load of last_physical decides again.
LoadThird(t) ==
    LET r == reg[t]
    IN  /\ pc[t] = "third"
        /\ \/ /\ r.physical = last_physical[On(t)]
              /\ pc' = [pc EXCEPT ![t] = "logical"]
              /\ UNCHANGED <<reg, spoilt>>
           \/ /\ r.physical # last_physical[On(t)]
              /\ r.physical = r.remote.physical
              /\ TakeLogical(t, r.remote.logical + 1)
           \/ /\ r.physical # last_physical[On(t)]
              /\ r.physical # r.remote.physical
              /\ pc' = [pc EXCEPT ![t] = "physical"]
              /\ UNCHANGED <<reg, spoilt>>
        /\ UNCHANGED <<last_physical, last_logical, count, issued, highest,
                       fresh>>

\* A tie ignores the remote counter.
NextLogical_local(r, last) == last + 1

\* One more than the clock's counter and, on a tie, than the remote one.
NextLogical(r, last) ==
    (IF r.tie THEN Larger(last, r.remote.logical) ELSE last) + 1

\* The load of last_logical.
LoadLogical(t) ==
    /\ pc[t] = "logical"
    /\ TakeLogical(t, NextLogical(reg[t], last_logical[On(t)]))
    /\ UNCHANGED <<last_physical, last_logical, count, issued, highest, fresh>>

\* After the store of a spoilt call the clock may be behind all it issued.
StorePhysical(t) ==
    /\ pc[t] = "physical"
    /\ last_physical' = [last_physical EXCEPT ![On(t)] = reg[t].physical]
    /\ pc' = [pc EXCEPT ![t] = "done"]
    /\ fresh' = IF t \in spoilt THEN [fresh EXCEPT ![On(t)] = count] ELSE fresh
    /\ UNCHANGED <<last_logical, reg, count, issued, highest, spoilt>>

\* The store of last_logical, and the return.  A spoilt call leaves a clock that
\* stands for its own timestamp at most.
StoreLogical(t) ==
    /\ pc[t] = "done"
    /\ last_logical' = [last_logical EXCEPT ![On(t)] = reg[t].logical]
    /\ issued' = issued \cup
            {[physical |-> reg[t].physical, logical |-> reg[t].logical,
              node |-> On(t), nth |-> count]}
    /\ count' = count + 1
    /\ pc' = [pc EXCEPT ![t] = "idle"]
    /\ reg' = [reg EXCEPT ![t] = NoLocals]
    /\ spoilt' = spoilt \ {t}
    /\ fresh' = IF t \notin spoilt THEN fresh
                ELSE [fresh EXCEPT ![On(t)] =
                        IF reg[t].physical = last_physical[On(t)]
                        THEN count ELSE count + 1]
    /\ UNCHANGED <<last_physical, highest>>

HlcNext ==
    \E t \in Thread :
        \/ \E wall \in Wall : Now(t, wall)
        \/ \E wall \in Wall, e \in Sent : Observe(t, wall, e)
        \/ LoadSecond(t)
        \/ LoadThird(t)
        \/ LoadLogical(t)
        \/ StorePhysical(t)
        \/ StoreLogical(t)

HlcSpec == HlcInit /\ [][HlcNext]_hlcVars

-----------------------------------------------------------------------------
(* Properties *)

\* A call that met no other call on its clock, and whose logical part did not
\* wrap around, returns a timestamp after the one it was given and after those
\* its clock issued, whatever the wall clock does: all of them since the last
\* call that was not so lucky, and that one's when it was the last to write both
\* atomics.
StampsIncrease ==
    [][\A t \in Thread :
        (pc[t] = "done" /\ pc'[t] = "idle" /\ t \notin spoilt) =>
            \A e \in issued' \ issued :
                /\ \A d \in issued :
                    d.node = e.node /\ d.nth >= fresh[d.node] => Before(d, e)
                /\ reg[t].remote.present => Before(reg[t].remote, e)]_issued

\* A remote clock cannot drag this one away: a clock is never ahead of the
\* highest wall reading of its own by more than the skew cap.
BoundedDrift ==
    \A n \in WriterNode : last_physical[n] <= highest[n] + Cap

\* The same for the calls in progress.
CallsBounded ==
    \A t \in Thread : reg[t].physical <= highest[On(t)] + Cap

DriftInv ==
    /\ HlcTypeOK
    /\ BoundedDrift
    /\ CallsBounded

\* What StampsIncrease rests on: the clock is not behind what it still stands
\* for, a call that is not spoilt is alone on its clock, and wherever it is its
\* registers move ahead of the clock and of the remote timestamp.
ClockCovers(n) ==
    \A d \in issued : d.node = n /\ d.nth >= fresh[n] =>
        \/ d.physical < last_physical[n]
        \/ d.physical = last_physical[n] /\ d.logical <= last_logical[n]

Counted == \A d \in issued : d.nth < count

Alone(t) == pc[t] # "idle" /\ t \notin spoilt => Rivals(t) = {}

RemoteCovered(r) == r.remote.present => r.physical >= r.remote.physical

RegistersAhead(t) ==
    /\ \A d \in issued :
            d.node = On(t) /\ d.nth >= fresh[On(t)] => Before(d, reg[t])
    /\ reg[t].remote.present => Before(reg[t].remote, reg[t])

\* The remote timestamp has the physical time of the call.
RemoteTie(r) == r.remote.present /\ r.physical = r.remote.physical

OrderAt(t) ==
    /\ pc[t] \in {"second", "third", "logical"} => RemoteCovered(reg[t])
    /\ pc[t] \in {"second", "third", "physical"} =>
            reg[t].physical >= last_physical[On(t)]
    /\ pc[t] = "third" =>
            /\ ~reg[t].tie
            /\ ~(RemoteTie(reg[t]) /\ reg[t].physical = last_physical[On(t)])
    /\ pc[t] = "logical" =>
            /\ reg[t].physical = last_physical[On(t)]
            /\ reg[t].tie <=> RemoteTie(reg[t])
    /\ pc[t] \in {"physical", "done"} => RegistersAhead(t)
    /\ pc[t] = "done" => reg[t].physical = last_physical[On(t)]

OrderInv ==
    /\ HlcTypeOK
    /\ Counted
    /\ \A n \in WriterNode : ClockCovers(n)
    /\ \A t \in Thread : Alone(t) /\ (t \notin spoilt => OrderAt(t))

-----------------------------------------------------------------------------
(* What comments, tests or RFCs of the repository say, and the code does not   *)
(* do: TLC refutes each of these (README.md, "Disagreements").                 *)

\* "Per RFC-0862 R11 M8: thread-safe via atomics": no two calls return the
\* same timestamp.
StampsUnique ==
    \A d, e \in issued :
        (d.node = e.node /\ d.nth # e.nth) => Before(d, e) \/ Before(e, d)

\* "overflow guards on BOTH remote-derived branches": observe() gives up rather
\* than return the remote's physical time with a logical part that is not
\* beyond the remote's.
OverflowIsRefused ==
    [][\A t \in Thread :
        (/\ pc[t] = "done" /\ pc'[t] = "idle"
         /\ reg[t].remote.present /\ reg[t].physical = reg[t].remote.physical) =>
            reg[t].logical > reg[t].remote.logical]_issued
=============================================================================
