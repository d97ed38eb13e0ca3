--------------------------- MODULE Clocks_proofs ---------------------------
(***************************************************************************)
(* Machine-checked proofs about the components that go by clocks which     *)
(* jump, lag and disagree: the hybrid logical clocks, for any number of    *)
(* nodes, any wall clock, skew cap and counter width; the token bucket,    *)
(* for every rate, burst, way of calling it and lag of its callers; and    *)
(* the leases of the writer election, for any number of nodes, shards,     *)
(* trackers and attestations and any lease, skew and bounds.               *)
(***************************************************************************)
EXTENDS HlcClock, RateLimiter, WriterElection, FiniteSetTheorems, TLAPS

-----------------------------------------------------------------------------
(* The hybrid logical clocks *)

\* The registers of a call have their types.
LEMMA Registers ==
    ASSUME HlcTypeOK, NEW t \in Thread
    PROVE  /\ On(t) \in WriterNode
           /\ reg[t].physical \in Nat
           /\ reg[t].logical \in 0 .. MaxLogical - 1
           /\ reg[t].tie \in BOOLEAN
           /\ reg[t].remote.physical \in Nat
           /\ reg[t].remote.logical \in 0 .. MaxLogical
           /\ reg[t].remote.present \in BOOLEAN
           /\ last_physical[On(t)] \in Nat
           /\ last_logical[On(t)] \in 0 .. MaxLogical - 1
    BY DEF HlcTypeOK, Thread, On, Locals

\* Replacing a local by one of its type leaves the locals well typed.
LEMMA LocalsUpdate ==
    ASSUME NEW r \in Locals
    PROVE  /\ \A l \in 0 .. MaxLogical - 1 : [r EXCEPT !.logical = l] \in Locals
           /\ \A b \in BOOLEAN : [r EXCEPT !.tie = b] \in Locals
    BY DEF Locals

\* The call that ends has no locals.
LEMMA NoLocalsType == NoLocals \in Locals
    BY ClockAssumption DEF NoLocals, NoRemote, Locals

\* One more than a u32 is itself, unless it wraps around to 0.
LEMMA Wrap ==
    ASSUME NEW next \in 1 .. MaxLogical + 1
    PROVE  Wrapped(next) = IF next > MaxLogical THEN 0 ELSE next
    BY ClockAssumption DEF Wrapped

\* The counter below u32::MAX stays below it: the guard refuses, or the sum
\* wraps around.
LEMMA LogicalBound ==
    ASSUME HlcTypeOK, NEW t \in Thread, NEW next \in 1 .. MaxLogical + 1,
           TakeLogical(t, next)
    PROVE  /\ pc' \in [Thread -> {"idle", "second", "third", "logical",
                                  "physical", "done"}]
           /\ reg' \in [Thread -> Locals]
           /\ spoilt' \subseteq Thread
<1>1. CASE GiveUp(t)
    BY <1>1, NoLocalsType DEF HlcTypeOK, GiveUp
<1>2. CASE ~GiveUp(t)
    <2>1. /\ ~Overflows(next)
          /\ reg' = [reg EXCEPT ![t].logical = Wrapped(next)]
          /\ pc' = [pc EXCEPT ![t] = "physical"]
          /\ spoilt' \subseteq spoilt \cup {t}
        BY <1>2 DEF TakeLogical
    <2>2. Wrapped(next) \in 0 .. MaxLogical - 1
        BY <2>1, Wrap, ClockAssumption DEF Overflows
    <2>3. [reg[t] EXCEPT !.logical = Wrapped(next)] \in Locals
        BY <2>2, LocalsUpdate DEF HlcTypeOK
    <2>4. reg' = [reg EXCEPT ![t] = [reg[t] EXCEPT !.logical = Wrapped(next)]]
        BY <2>1 DEF HlcTypeOK
    <2> QED BY <2>1, <2>3, <2>4 DEF HlcTypeOK
<1> QED BY <1>1, <1>2

\* HlcTyping is preserved by every step of a thread.
LEMMA HlcTypeStep ==
    ASSUME HlcTypeOK, [HlcNext]_hlcVars
    PROVE  HlcTypeOK'
<1>1. CASE UNCHANGED hlcVars
    BY <1>1 DEF HlcTypeOK, hlcVars
<1>2. SUFFICES ASSUME NEW t \in Thread,
                      \/ \E wall \in Wall : Now(t, wall)
                      \/ \E wall \in Wall, e \in Sent : Observe(t, wall, e)
                      \/ LoadSecond(t)
                      \/ LoadThird(t)
                      \/ LoadLogical(t)
                      \/ StorePhysical(t)
                      \/ StoreLogical(t)
               PROVE  HlcTypeOK'
    BY <1>1 DEF HlcNext
<1> USE ClockAssumption
<1>r. /\ On(t) \in WriterNode
      /\ reg[t].physical \in Nat
      /\ reg[t].logical \in 0 .. MaxLogical - 1
      /\ reg[t].remote.logical \in 0 .. MaxLogical
      /\ last_physical[On(t)] \in Nat
      /\ last_logical[On(t)] \in 0 .. MaxLogical - 1
    BY Registers
<1>3. ASSUME NEW wall \in Wall, Now(t, wall)
      PROVE  HlcTypeOK'
    BY <1>3, <1>r DEF HlcTypeOK, Now, Begin, NoRemote, Larger, Locals, Rivals
<1>4. ASSUME NEW wall \in Wall, NEW e \in Sent, Observe(t, wall, e)
      PROVE  HlcTypeOK'
    <2>1. e.physical \in Nat /\ e.logical \in 0 .. MaxLogical
        BY DEF Sent
    <2> QED BY <1>4, <1>r, <2>1
            DEF HlcTypeOK, Observe, Begin, Remote, Larger, Locals, Rivals
<1>5. CASE LoadSecond(t)
    <2>1. PICK b \in BOOLEAN : reg' = [reg EXCEPT ![t].tie = b]
        BY <1>5 DEF LoadSecond
    <2>2. reg' = [reg EXCEPT ![t] = [reg[t] EXCEPT !.tie = b]]
        BY <2>1 DEF HlcTypeOK
    <2>3. [reg[t] EXCEPT !.tie = b] \in Locals
        BY LocalsUpdate DEF HlcTypeOK
    <2>4. reg' \in [Thread -> Locals]
        BY <2>2, <2>3 DEF HlcTypeOK
    <2> QED BY <1>5, <2>4 DEF HlcTypeOK, LoadSecond
<1>6. CASE LoadThird(t)
    <2>1. reg[t].remote.logical + 1 \in 1 .. MaxLogical + 1
        BY <1>r
    <2>2. CASE TakeLogical(t, reg[t].remote.logical + 1)
        BY <1>6, <2>1, <2>2, LogicalBound DEF HlcTypeOK, LoadThird
    <2>3. CASE ~TakeLogical(t, reg[t].remote.logical + 1)
        BY <1>6, <2>3 DEF HlcTypeOK, LoadThird
    <2> QED BY <2>2, <2>3
<1>7. CASE LoadLogical(t)
    <2>1. NextLogical(reg[t], last_logical[On(t)]) \in 1 .. MaxLogical + 1
        BY <1>r DEF NextLogical, Larger
    <2> QED BY <1>7, <2>1, LogicalBound DEF HlcTypeOK, LoadLogical
<1>8. CASE StorePhysical(t)
    BY <1>8, <1>r DEF HlcTypeOK, StorePhysical
<1>9. CASE StoreLogical(t)
    <2>1. fresh' \in [WriterNode -> Nat]
        BY <1>9, <1>r DEF HlcTypeOK, StoreLogical
    <2>2. issued' \subseteq Issue
        BY <1>9, <1>r DEF HlcTypeOK, StoreLogical, Issue
    <2>3. reg' \in [Thread -> Locals]
        BY <1>9, NoLocalsType DEF HlcTypeOK, StoreLogical
    <2> QED BY <1>9, <1>r, <2>1, <2>2, <2>3 DEF HlcTypeOK, StoreLogical
<1> QED BY <1>2, <1>3, <1>4, <1>5, <1>6, <1>7, <1>8, <1>9

-----------------------------------------------------------------------------
\* What a step does to the physical times: a load keeps those of the
\* registers or ends the call.
LEMMA PhysicalStep ==
    ASSUME HlcTypeOK, NEW t \in Thread, LoadSecond(t) \/ LoadThird(t) \/ LoadLogical(t)
    PROVE  /\ \A u \in Thread : reg'[u].physical \in {0, reg[u].physical}
           /\ UNCHANGED <<last_physical, highest>>
<1>1. \A next : TakeLogical(t, next) =>
        \A u \in Thread : reg'[u].physical \in {0, reg[u].physical}
    BY DEF HlcTypeOK, TakeLogical, GiveUp, Locals, NoLocals
<1>2. CASE LoadSecond(t)
    BY <1>2 DEF HlcTypeOK, LoadSecond, Locals
<1>3. CASE LoadThird(t)
    BY <1>1, <1>3 DEF LoadThird
<1>4. CASE LoadLogical(t)
    BY <1>1, <1>4 DEF LoadLogical
<1> QED BY <1>2, <1>3, <1>4

\* The skew cap bounds the clock and the calls in progress.
LEMMA DriftStep ==
    ASSUME DriftInv, [HlcNext]_hlcVars
    PROVE  BoundedDrift' /\ CallsBounded'
<1> USE ClockAssumption DEF DriftInv, BoundedDrift, CallsBounded
<1>1. CASE UNCHANGED hlcVars
    BY <1>1 DEF hlcVars
<1>2. SUFFICES ASSUME NEW t \in Thread,
                      \/ \E wall \in Wall : Now(t, wall)
                      \/ \E wall \in Wall, e \in Sent : Observe(t, wall, e)
                      \/ LoadSecond(t)
                      \/ LoadThird(t)
                      \/ LoadLogical(t)
                      \/ StorePhysical(t)
                      \/ StoreLogical(t)
               PROVE  BoundedDrift' /\ CallsBounded'
    BY <1>1 DEF HlcNext
<1>r. \A u \in Thread : On(u) \in WriterNode /\ reg[u].physical \in Nat
    BY Registers
<1>3. ASSUME NEW wall \in Wall, NEW remote, NEW floor \in Nat,
             floor <= wall + Cap, Begin(t, wall, remote, floor)
      PROVE  BoundedDrift' /\ CallsBounded'
    <2> DEFINE n == On(t)
    <2>1. /\ highest' = [highest EXCEPT ![n] = Larger(@, wall)]
          /\ last_physical' = last_physical
          /\ \A u \in Thread : reg'[u].physical =
                IF u = t THEN Larger(floor, last_physical[n])
                         ELSE reg[u].physical
        <3> DEFINE new == [remote |-> remote,
                           physical |-> Larger(floor, last_physical[n]),
                           logical |-> 0, tie |-> FALSE]
        <3>1. /\ highest' = [highest EXCEPT ![n] = Larger(@, wall)]
              /\ last_physical' = last_physical
              /\ reg' = [reg EXCEPT ![t] = new]
            BY <1>3 DEF Begin
        <3>2. new.physical = Larger(floor, last_physical[n])
            OBVIOUS
        <3> HIDE DEF new
        <3> QED BY <3>1, <3>2 DEF HlcTypeOK
    <2>2. /\ n \in WriterNode
          /\ \A m \in WriterNode : highest[m] \in Nat /\ last_physical[m] \in Nat
        BY <1>r DEF HlcTypeOK
    <2>3. \A m \in WriterNode : highest'[m] \in Nat /\ highest[m] <= highest'[m]
        <3>1. Larger(highest[n], wall) \in Nat /\ highest[n] <= Larger(highest[n], wall)
            <4>1. wall \in Nat /\ highest[n] \in Nat
                BY <2>2
            <4> QED BY <4>1 DEF Larger
        <3>2. \A m \in WriterNode : highest'[m] =
                IF m = n THEN Larger(highest[n], wall) ELSE highest[m]
            BY <2>1 DEF HlcTypeOK
        <3> HIDE DEF n
        <3> QED BY <2>2, <3>1, <3>2
    <2>4. wall <= highest'[n]
        BY <2>1, <2>2 DEF HlcTypeOK, Larger
    <2>5. BoundedDrift'
        BY <2>1, <2>2, <2>3
    <2>6. Larger(floor, last_physical[n]) <= highest'[n] + Cap
        <3>1. floor <= highest'[n] + Cap
            BY <1>3, <2>2, <2>3, <2>4
        <3>2. last_physical[n] <= highest'[n] + Cap
            BY <2>2, <2>3
        <3> QED BY <3>1, <3>2 DEF Larger
    <2>7. \A u \in Thread : reg[u].physical <= highest'[On(u)] + Cap
        BY <1>r, <2>2, <2>3
    <2>8. CallsBounded'
        BY <2>1, <2>6, <2>7
    <2> QED BY <2>5, <2>8
<1>4. ASSUME NEW wall \in Wall, Now(t, wall)
      PROVE  BoundedDrift' /\ CallsBounded'
    <2>1. wall \in Nat /\ wall <= wall + Cap
        OBVIOUS
    <2> QED BY <1>3, <1>4, <2>1 DEF Now
<1>5. ASSUME NEW wall \in Wall, NEW e \in Sent, Observe(t, wall, e)
      PROVE  BoundedDrift' /\ CallsBounded'
    <2>1. e.physical \in Nat /\ wall \in Nat /\ e.physical <= wall + Cap
        BY <1>5 DEF Sent, Observe, WithinCap
    <2>2. /\ Larger(wall, e.physical) \in Nat
          /\ Larger(wall, e.physical) <= wall + Cap
        BY <2>1 DEF Larger
    <2> QED BY <1>3, <1>5, <2>2 DEF Observe
<1>h. \A u \in Thread : highest[On(u)] \in Nat /\ 0 <= highest[On(u)] + Cap
    BY <1>r DEF HlcTypeOK
<1>6. CASE LoadSecond(t) \/ LoadThird(t) \/ LoadLogical(t)
    <2>1. /\ \A u \in Thread : reg'[u].physical \in {0, reg[u].physical}
          /\ UNCHANGED <<last_physical, highest>>
        BY <1>6, PhysicalStep
    <2> QED BY <1>h, <2>1
<1>7. CASE StorePhysical(t)
    BY <1>7, <1>r DEF StorePhysical, HlcTypeOK
<1>8. CASE StoreLogical(t)
    <2>1. /\ \A u \in Thread : reg'[u].physical \in {0, reg[u].physical}
          /\ UNCHANGED <<last_physical, highest>>
        BY <1>8 DEF StoreLogical, HlcTypeOK, NoLocals
    <2> QED BY <1>h, <2>1
<1> QED BY <1>2, <1>4, <1>5, <1>6, <1>7, <1>8

\* No clock runs ahead of its own wall readings by more than the skew cap,
\* whatever remote timestamps observe() is given and however many threads
\* share the clock.
THEOREM DriftIsBounded == HlcSpec => []BoundedDrift
<1>1. HlcInit => DriftInv
    BY ClockAssumption
       DEF HlcInit, DriftInv, HlcTypeOK, BoundedDrift, CallsBounded, Thread, On,
           Locals, NoRemote, NoLocals
<1>2. DriftInv /\ [HlcNext]_hlcVars => DriftInv'
    BY HlcTypeStep, DriftStep DEF DriftInv
<1>3. DriftInv => BoundedDrift
    BY DEF DriftInv
<1> QED BY <1>1, <1>2, <1>3, PTL DEF HlcSpec

-----------------------------------------------------------------------------
\* The steps of one thread.
Step(t) ==
    \/ \E wall \in Wall : Now(t, wall)
    \/ \E wall \in Wall, e \in Sent : Observe(t, wall, e)
    \/ LoadSecond(t)
    \/ LoadThird(t)
    \/ LoadLogical(t)
    \/ StorePhysical(t)
    \/ StoreLogical(t)

\* What t may write: its own registers and position, its own clock, and the set
\* of spoilt calls, which it leaves or, at its start or when it wraps, enters.
LEMMA StepFrame ==
    ASSUME HlcTypeOK, NEW t \in Thread, Step(t), NEW u \in Thread, u # t
    PROVE  /\ pc'[u] = pc[u] /\ reg'[u] = reg[u]
           /\ u \in spoilt => u \in spoilt'
           /\ pc[t] = "idle" /\ u \in Rivals(t) => u \in spoilt'
<1> USE DEF HlcTypeOK
<1>1. CASE \E wall, remote, floor : Begin(t, wall, remote, floor)
    BY <1>1 DEF Begin
<1>2. CASE LoadSecond(t)
    BY <1>2 DEF LoadSecond
<1>t. \A next : TakeLogical(t, next) =>
        /\ pc'[u] = pc[u] /\ reg'[u] = reg[u]
        /\ u \in spoilt => u \in spoilt'
    BY DEF TakeLogical, GiveUp
<1>3. CASE LoadThird(t)
    BY <1>3, <1>t DEF LoadThird
<1>4. CASE LoadLogical(t)
    BY <1>4, <1>t DEF LoadLogical
<1>5. CASE StorePhysical(t)
    BY <1>5 DEF StorePhysical
<1>6. CASE StoreLogical(t)
    BY <1>6 DEF StoreLogical
<1> QED BY <1>1, <1>2, <1>3, <1>4, <1>5, <1>6 DEF Step, Now, Observe

\* Calls on other clocks find theirs as it was.
LEMMA OtherClocks ==
    ASSUME HlcTypeOK, NEW t \in Thread, Step(t), NEW n \in WriterNode, n # On(t)
    PROVE  /\ last_physical'[n] = last_physical[n]
           /\ last_logical'[n] = last_logical[n]
           /\ fresh'[n] = fresh[n]
           /\ \A d \in issued' : d.node = n => d \in issued
<1> USE DEF HlcTypeOK
<1>1. CASE UNCHANGED <<last_physical, last_logical, fresh, issued>>
    BY <1>1
<1>2. CASE StorePhysical(t)
    BY <1>2 DEF StorePhysical
<1>3. CASE StoreLogical(t)
    BY <1>3 DEF StoreLogical
<1> QED
    BY <1>1, <1>2, <1>3
       DEF Step, Now, Observe, Begin, LoadSecond, LoadThird, LoadLogical

\* A call that is not spoilt stays alone: the start of another spoils it.
LEMMA AloneStep ==
    ASSUME OrderInv, HlcTypeOK', NEW t \in Thread, Step(t), NEW u \in Thread
    PROVE  Alone(u)'
<1> USE DEF OrderInv, HlcTypeOK
<1>1. CASE u # t
    <2>1. /\ pc'[u] = pc[u] /\ (u \in spoilt => u \in spoilt')
          /\ pc[t] = "idle" /\ u \in Rivals(t) => u \in spoilt'
        BY <1>1, StepFrame
    <2>2. SUFFICES ASSUME pc'[u] # "idle", u \notin spoilt'
                   PROVE  Rivals(u)' = {}
        BY DEF Alone
    <2>3. pc[u] # "idle" /\ u \notin spoilt /\ Rivals(u) = {}
        BY <2>1, <2>2 DEF Alone
    <2>4. On(t) # On(u)
        <3>1. SUFFICES ASSUME On(t) = On(u) PROVE FALSE
            OBVIOUS
        <3>2. pc[t] = "idle"
            BY <1>1, <2>3, <3>1 DEF Rivals
        <3>3. u \in Rivals(t)
            BY <1>1, <2>3, <3>1 DEF Rivals
        <3> QED BY <2>1, <2>2, <3>2, <3>3
    <2>5. ASSUME NEW v \in Thread, v # u, On(v) = On(u), pc'[v] # "idle"
          PROVE  FALSE
        <3>1. v # t
            BY <2>4, <2>5
        <3>2. pc'[v] = pc[v]
            BY <3>1, StepFrame
        <3> QED BY <2>3, <2>5, <3>2 DEF Rivals
    <2> QED BY <2>5 DEF Rivals
<1>2. CASE u = t
    <2>1. ASSUME NEW v \in Thread, v # t PROVE pc'[v] = pc[v]
        BY <2>1, StepFrame
    <2>2. Rivals(t)' = Rivals(t)
        BY <2>1 DEF Rivals
    <2>3. CASE \E wall, remote, floor : Begin(t, wall, remote, floor)
        BY <1>2, <2>2, <2>3 DEF Begin, Alone
    <2>4. CASE pc[t] # "idle" /\ (t \in spoilt => pc'[t] = "idle" \/ t \in spoilt')
        BY <1>2, <2>2, <2>4 DEF Alone
    <2>t. \A next : TakeLogical(t, next) =>
            (t \in spoilt => pc'[t] = "idle" \/ t \in spoilt')
        BY DEF TakeLogical, GiveUp
    <2>5. CASE LoadThird(t) \/ LoadLogical(t)
        BY <2>4, <2>5, <2>t DEF LoadThird, LoadLogical
    <2>6. CASE LoadSecond(t) \/ StorePhysical(t) \/ StoreLogical(t)
        BY <2>4, <2>6 DEF LoadSecond, StorePhysical, StoreLogical
    <2> QED BY <2>3, <2>5, <2>6 DEF Step, Now, Observe
<1> QED BY <1>1, <1>2

\* A call that is not spoilt is not disturbed by the step of another thread: if
\* that runs on the same clock it was idle, and its start spoils the call.
LEMMA OthersOrder ==
    ASSUME OrderInv, NEW t \in Thread, Step(t), NEW u \in Thread, u # t,
           u \notin spoilt'
    PROVE  OrderAt(u)'
<1>1. HlcTypeOK /\ u \notin spoilt /\ OrderAt(u) /\ On(u) \in WriterNode
    BY StepFrame, Registers DEF OrderInv
<1>2. pc'[u] = pc[u] /\ reg'[u] = reg[u]
    BY <1>1, StepFrame
<1>3. CASE pc[u] = "idle"
    BY <1>2, <1>3 DEF OrderAt
<1>4. CASE pc[u] # "idle"
    <2>1. On(t) # On(u)
        <3>1. SUFFICES ASSUME On(t) = On(u) PROVE FALSE
            OBVIOUS
        <3>2. Rivals(u) = {}
            BY <1>1, <1>4 DEF OrderInv, Alone
        <3>3. pc[t] = "idle"
            BY <3>1, <3>2 DEF Rivals
        <3>4. u \in Rivals(t)
            BY <1>4, <3>1 DEF Rivals
        <3> QED BY <1>1, <3>3, <3>4, StepFrame
    <2>2. /\ last_physical'[On(u)] = last_physical[On(u)]
          /\ last_logical'[On(u)] = last_logical[On(u)]
          /\ fresh'[On(u)] = fresh[On(u)]
          /\ \A d \in issued' : d.node = On(u) => d \in issued
        BY <1>1, <2>1, OtherClocks
    <2>3. RegistersAhead(u) => RegistersAhead(u)'
        BY <1>2, <2>2 DEF RegistersAhead, Before
    <2>4. RemoteCovered(reg[u]) => RemoteCovered(reg[u])'
        BY <1>2 DEF RemoteCovered
    <2> QED BY <1>1, <1>2, <2>2, <2>3, <2>4 DEF OrderAt, RemoteTie
<1> QED BY <1>3, <1>4

\* A step of t keeps its own call in order: each case is one load or store.
LEMMA BeginOrder ==
    ASSUME HlcTypeOK, NEW t \in Thread, NEW wall, NEW remote,
           NEW floor \in Nat, Begin(t, wall, remote, floor),
           remote.present => floor >= remote.physical,
           remote.physical \in Nat
    PROVE  OrderAt(t)'
<1> DEFINE new == [remote |-> remote,
                   physical |-> Larger(floor, last_physical[On(t)]),
                   logical |-> 0, tie |-> FALSE]
<1>0. /\ pc' = [pc EXCEPT ![t] = "second"] /\ reg' = [reg EXCEPT ![t] = new]
      /\ UNCHANGED last_physical
    BY DEF Begin
<1>1. /\ pc'[t] = "second"
      /\ reg'[t].physical = Larger(floor, last_physical[On(t)])
      /\ reg'[t].remote = remote
      /\ UNCHANGED last_physical
    BY <1>0 DEF HlcTypeOK
<1>3. last_physical[On(t)] \in Nat
    BY Registers
<1>4. RemoteCovered(reg[t])'
    BY <1>1, <1>3 DEF RemoteCovered, Larger
<1>5. (reg[t].physical >= last_physical[On(t)])'
    BY <1>1, <1>3 DEF Larger
<1> QED BY <1>1, <1>4, <1>5 DEF OrderAt

LEMMA LoadSecondOrder ==
    ASSUME HlcTypeOK, NEW t \in Thread, OrderAt(t), ClockCovers(On(t)),
           LoadSecond(t)
    PROVE  OrderAt(t)'
<1> DEFINE r == reg[t]
           same == r.physical = last_physical[On(t)]
           tie == same /\ r.remote.present /\ r.physical = r.remote.physical
<1>1. /\ pc[t] = "second"
      /\ UNCHANGED <<last_physical, last_logical, issued, fresh>>
      /\ reg' = [reg EXCEPT ![t].tie = tie]
      /\ pc'[t] = CASE tie -> "logical"
                    [] ~tie /\ r.remote.present -> "third"
                    [] ~r.remote.present /\ same -> "logical"
                    [] ~r.remote.present /\ ~same -> "physical"
    BY DEF LoadSecond, HlcTypeOK
<1>2. /\ reg'[t].physical = r.physical /\ reg'[t].remote = r.remote
      /\ reg'[t].logical = r.logical /\ reg'[t].tie = tie
    BY <1>1 DEF HlcTypeOK, Locals
<1>4. RemoteCovered(r) /\ RemoteCovered(reg[t])'
    BY <1>1, <1>2 DEF OrderAt, RemoteCovered
<1>5. r.physical >= last_physical[On(t)]
    BY <1>1 DEF OrderAt
<1>6. CASE tie
    BY <1>1, <1>2, <1>4, <1>6 DEF OrderAt, RemoteTie
<1>7. CASE ~tie /\ r.remote.present
    BY <1>1, <1>2, <1>4, <1>5, <1>7 DEF OrderAt, RemoteTie
<1>8. CASE ~r.remote.present /\ same
    BY <1>1, <1>2, <1>4, <1>8 DEF OrderAt, RemoteTie
<1>9. CASE ~r.remote.present /\ ~same
    <2>1. pc'[t] = "physical"
        BY <1>1, <1>9
    <2>2. \A d \in issued : d.node = On(t) /\ d.nth >= fresh[On(t)] =>
            d.physical < r.physical
        BY <1>5, <1>9, Registers DEF ClockCovers, HlcTypeOK, Issue
    <2>3. RegistersAhead(t)'
        BY <1>1, <1>2, <1>9, <2>2 DEF RegistersAhead, Before
    <2> QED BY <1>1, <1>2, <1>5, <2>1, <2>3 DEF OrderAt
<1> QED BY <1>6, <1>7, <1>8, <1>9

\* Taking a logical value that is past the clock's issues and the remote one.
LEMMA TakeOrder ==
    ASSUME HlcTypeOK, NEW t \in Thread, NEW next \in 1 .. MaxLogical + 1,
           TakeLogical(t, next), t \notin spoilt',
           reg[t].physical >= last_physical[On(t)],
           UNCHANGED <<last_physical, last_logical, issued, fresh>>,
           \A d \in issued : d.node = On(t) /\ d.nth >= fresh[On(t)] =>
                Before(d, [physical |-> reg[t].physical, logical |-> next]),
           reg[t].remote.present =>
                Before(reg[t].remote,
                       [physical |-> reg[t].physical, logical |-> next])
    PROVE  OrderAt(t)'
<1>1. CASE GiveUp(t)
    <2>1. pc'[t] = "idle"
        BY <1>1 DEF GiveUp, HlcTypeOK
    <2> QED BY <2>1 DEF OrderAt
<1>2. CASE ~GiveUp(t)
    <2>1. /\ pc'[t] = "physical"
          /\ reg' = [reg EXCEPT ![t].logical = Wrapped(next)]
          /\ ~(next > MaxLogical)
        BY <1>2 DEF TakeLogical, HlcTypeOK
    <2>2. Wrapped(next) = next
        BY <2>1, Wrap
    <2>3. /\ reg'[t].physical = reg[t].physical
          /\ reg'[t].logical = next
          /\ reg'[t].remote = reg[t].remote
        BY <2>1, <2>2 DEF HlcTypeOK, Locals
    <2>4. RegistersAhead(t)'
        BY <2>3 DEF RegistersAhead, Before
    <2> QED BY <2>1, <2>3, <2>4 DEF OrderAt
<1> QED BY <1>1, <1>2

LEMMA LoadThirdOrder ==
    ASSUME HlcTypeOK, NEW t \in Thread, OrderAt(t), ClockCovers(On(t)),
           LoadThird(t), t \notin spoilt'
    PROVE  OrderAt(t)'
<1> DEFINE r == reg[t]
           last == last_physical[On(t)]
<1>1. /\ pc[t] = "third"
      /\ UNCHANGED <<last_physical, last_logical, issued, fresh>>
    BY DEF LoadThird
<1>2. /\ RemoteCovered(r) /\ r.physical >= last
      /\ ~r.tie /\ ~(RemoteTie(r) /\ r.physical = last)
    BY <1>1 DEF OrderAt
<1>r. r.physical \in Nat /\ last \in Nat /\ r.remote.physical \in Nat
      /\ r.remote.logical \in 0 .. MaxLogical
    BY Registers
<1>4. r.physical # last =>
        \A d \in issued : d.node = On(t) /\ d.nth >= fresh[On(t)] =>
            d.physical < r.physical
    BY <1>2, <1>r DEF ClockCovers, HlcTypeOK, Issue
<1>5. CASE r.physical = last
    <2>1. pc'[t] = "logical" /\ reg' = reg
        BY <1>5 DEF LoadThird, HlcTypeOK
    <2>2. RemoteCovered(reg[t])'
        BY <1>2, <2>1 DEF RemoteCovered
    <2> QED BY <1>1, <1>2, <1>5, <2>1, <2>2 DEF OrderAt, RemoteTie
<1>6. CASE r.physical # last /\ r.physical = r.remote.physical
    <2>1. TakeLogical(t, r.remote.logical + 1)
        BY <1>6 DEF LoadThird
    <2>2. r.remote.logical + 1 \in 1 .. MaxLogical + 1
        BY <1>r, ClockAssumption
    <2>3. \A d \in issued : d.node = On(t) /\ d.nth >= fresh[On(t)] =>
            Before(d, [physical |-> r.physical,
                       logical |-> r.remote.logical + 1])
        BY <1>4, <1>6 DEF Before
    <2>4. Before(r.remote, [physical |-> r.physical,
                            logical |-> r.remote.logical + 1])
        BY <1>6, <1>r DEF Before
    <2> QED BY <1>1, <1>2, <2>1, <2>2, <2>3, <2>4, TakeOrder
<1>7. CASE r.physical # last /\ r.physical # r.remote.physical
    <2>1. pc'[t] = "physical" /\ reg' = reg
        BY <1>7 DEF LoadThird, HlcTypeOK
    <2>2. RegistersAhead(t)'
        BY <1>1, <1>2, <1>4, <1>7, <1>r, <2>1
           DEF RegistersAhead, Before, RemoteCovered
    <2> QED BY <1>1, <1>2, <2>1, <2>2 DEF OrderAt
<1> QED BY <1>5, <1>6, <1>7

LEMMA LoadLogicalOrder ==
    ASSUME HlcTypeOK, NEW t \in Thread, OrderAt(t), ClockCovers(On(t)),
           LoadLogical(t), t \notin spoilt'
    PROVE  OrderAt(t)'
<1> DEFINE r == reg[t]
           next == NextLogical(r, last_logical[On(t)])
<1>1. /\ pc[t] = "logical" /\ TakeLogical(t, next)
      /\ UNCHANGED <<last_physical, last_logical, issued, fresh>>
    BY DEF LoadLogical
<1>2. /\ RemoteCovered(r)
      /\ r.physical = last_physical[On(t)]
      /\ r.tie <=> RemoteTie(r)
    BY <1>1 DEF OrderAt
<1>r. /\ r.physical \in Nat /\ r.remote.physical \in Nat
      /\ r.remote.logical \in 0 .. MaxLogical
      /\ last_logical[On(t)] \in 0 .. MaxLogical - 1
    BY Registers
<1>3. /\ next \in 1 .. MaxLogical + 1
      /\ last_logical[On(t)] < next
      /\ r.tie => r.remote.logical < next
    BY <1>r, ClockAssumption DEF NextLogical, Larger
<1>4. \A d \in issued : d.node = On(t) /\ d.nth >= fresh[On(t)] =>
        Before(d, [physical |-> r.physical, logical |-> next])
    <2> HIDE DEF next
    <2> QED BY <1>2, <1>3, <1>r DEF ClockCovers, Before, HlcTypeOK, Issue
<1>5. r.remote.present =>
        Before(r.remote, [physical |-> r.physical, logical |-> next])
    <2> HIDE DEF next
    <2> QED BY <1>2, <1>3, <1>r DEF RemoteCovered, RemoteTie, Before
<1>6. r.physical >= last_physical[On(t)]
    BY <1>2, <1>r
<1> HIDE DEF next
<1> QED BY <1>1, <1>3, <1>4, <1>5, <1>6, TakeOrder

LEMMA StoreOrder ==
    ASSUME HlcTypeOK, NEW t \in Thread, t \notin spoilt, OrderAt(t),
           StorePhysical(t) \/ StoreLogical(t)
    PROVE  OrderAt(t)'
<1>1. CASE StorePhysical(t)
    <2>1. /\ pc[t] = "physical" /\ pc'[t] = "done" /\ reg' = reg
          /\ issued' = issued /\ fresh' = fresh
          /\ last_physical'[On(t)] = reg[t].physical
        BY <1>1, Registers DEF StorePhysical, HlcTypeOK
    <2>2. RegistersAhead(t)'
        BY <2>1 DEF OrderAt, RegistersAhead, Before
    <2> QED BY <2>1, <2>2 DEF OrderAt
<1>2. CASE StoreLogical(t)
    <2>1. pc'[t] = "idle"
        BY <1>2 DEF StoreLogical, HlcTypeOK
    <2> QED BY <2>1 DEF OrderAt
<1> QED BY <1>1, <1>2

\* A step of t keeps its own call in order, as long as it is not spoilt.
LEMMA OwnOrder ==
    ASSUME OrderInv, NEW t \in Thread, Step(t), t \notin spoilt'
    PROVE  OrderAt(t)'
<1>t. HlcTypeOK /\ ClockCovers(On(t))
    BY Registers DEF OrderInv
<1>1. ASSUME NEW wall \in Wall, Now(t, wall)
      PROVE  OrderAt(t)'
    <2>1. wall \in Nat /\ NoRemote.physical \in Nat /\ ~NoRemote.present
        BY ClockAssumption DEF NoRemote
    <2> QED BY <1>1, <1>t, <2>1, BeginOrder DEF Now
<1>2. ASSUME NEW wall \in Wall, NEW e \in Sent, Observe(t, wall, e)
      PROVE  OrderAt(t)'
    <2>1. wall \in Nat /\ e.physical \in Nat
        BY ClockAssumption DEF Sent
    <2>2. /\ Larger(wall, e.physical) \in Nat
          /\ Larger(wall, e.physical) >= e.physical
        BY <2>1 DEF Larger
    <2>3. Remote(e).physical = e.physical
        BY DEF Remote
    <2> QED BY <1>2, <1>t, <2>1, <2>2, <2>3, BeginOrder DEF Observe
<1>3. CASE StoreLogical(t)
    <2>1. pc'[t] = "idle"
        BY <1>3, <1>t DEF StoreLogical, HlcTypeOK
    <2> QED BY <2>1 DEF OrderAt
<1>4. CASE LoadSecond(t) \/ StorePhysical(t)
    <2>1. t \notin spoilt /\ OrderAt(t)
        BY <1>4 DEF LoadSecond, StorePhysical, OrderInv
    <2> QED BY <1>4, <1>t, <2>1, LoadSecondOrder, StoreOrder
<1>5. CASE LoadThird(t) \/ LoadLogical(t)
    <2>1. CASE pc'[t] = "idle"
        BY <2>1 DEF OrderAt
    <2>2. CASE pc'[t] # "idle"
        <3>1. \A next : TakeLogical(t, next) => t \notin spoilt
            BY <1>t, <2>2 DEF TakeLogical, GiveUp, HlcTypeOK
        <3>2. t \notin spoilt /\ OrderAt(t)
            BY <1>5, <3>1 DEF LoadThird, LoadLogical, OrderInv
        <3> QED BY <1>5, <1>t, <3>2, LoadThirdOrder, LoadLogicalOrder
    <2> QED BY <2>1, <2>2
<1> QED BY <1>1, <1>2, <1>3, <1>4, <1>5 DEF Step

\* What a clock stands for is still behind it after a step: only a call that is
\* not spoilt moves it without giving up what was issued before.
LEMMA CoverStep ==
    ASSUME OrderInv, NEW t \in Thread, Step(t)
    PROVE  Counted' /\ \A n \in WriterNode : ClockCovers(n)'
<1>t. /\ HlcTypeOK /\ Counted /\ On(t) \in WriterNode
      /\ \A n \in WriterNode : ClockCovers(n)
      /\ t \notin spoilt => OrderAt(t)
    BY Registers DEF OrderInv
<1>n. /\ count \in Nat
      /\ \A d \in issued : /\ d.nth \in Nat /\ d.physical \in Nat
                           /\ d.logical \in Nat
      /\ reg[t].physical \in Nat /\ reg[t].logical \in Nat
      /\ last_physical[On(t)] \in Nat /\ last_logical[On(t)] \in Nat
    BY <1>t, Registers DEF HlcTypeOK, Issue
<1>1. CASE UNCHANGED <<last_physical, last_logical, fresh, issued, count>>
    BY <1>t, <1>1 DEF ClockCovers, Counted
<1>2. CASE StorePhysical(t)
    <2>1. /\ UNCHANGED <<last_logical, issued, count>>
          /\ last_physical'[On(t)] = reg[t].physical
          /\ pc[t] = "physical"
        BY <1>2, <1>t DEF StorePhysical, HlcTypeOK
    <2>2. Counted'
        BY <1>t, <2>1 DEF Counted
    <2>3. ASSUME NEW n \in WriterNode, n # On(t) PROVE ClockCovers(n)'
        BY <1>t, <2>3, OtherClocks DEF ClockCovers
    <2>4. CASE t \in spoilt
        <3>1. fresh'[On(t)] = count
            BY <1>2, <1>t, <2>4 DEF StorePhysical, HlcTypeOK
        <3>2. \A d \in issued : ~(d.nth >= count)
            BY <1>n, <1>t DEF Counted
        <3>3. ClockCovers(On(t))'
            BY <2>1, <3>1, <3>2 DEF ClockCovers
        <3> QED BY <2>2, <2>3, <3>3
    <2>5. CASE t \notin spoilt
        <3>1. fresh' = fresh /\ reg[t].physical >= last_physical[On(t)]
            BY <1>2, <1>t, <2>1, <2>5 DEF StorePhysical, OrderAt
        <3>2. ClockCovers(On(t))'
            BY <1>n, <1>t, <2>1, <3>1 DEF ClockCovers
        <3> QED BY <2>2, <2>3, <3>2
    <2> QED BY <2>4, <2>5
<1>3. CASE StoreLogical(t)
    <2> DEFINE new == [physical |-> reg[t].physical, logical |-> reg[t].logical,
                       node |-> On(t), nth |-> count]
    <2>1. /\ issued' = issued \cup {new} /\ count' = count + 1
          /\ UNCHANGED last_physical
          /\ last_logical'[On(t)] = reg[t].logical
          /\ pc[t] = "done"
        BY <1>3, <1>t DEF StoreLogical, HlcTypeOK
    <2>n. /\ new.physical = reg[t].physical /\ new.logical = reg[t].logical
          /\ new.nth = count
        OBVIOUS
    <2> HIDE DEF new
    <2>2. Counted'
        BY <1>n, <1>t, <2>1, <2>n DEF Counted
    <2>3. ASSUME NEW n \in WriterNode, n # On(t) PROVE ClockCovers(n)'
        BY <1>t, <2>3, OtherClocks DEF ClockCovers
    <2>4. CASE t \in spoilt
        <3>1. fresh'[On(t)] = IF reg[t].physical = last_physical[On(t)]
                              THEN count ELSE count + 1
            BY <1>3, <1>t, <2>4 DEF StoreLogical, HlcTypeOK
        <3>2. \A d \in issued : ~(d.nth >= count) /\ ~(d.nth >= count + 1)
            BY <1>n, <1>t DEF Counted
        <3>3. ClockCovers(On(t))'
            BY <1>n, <2>1, <2>n, <3>1, <3>2 DEF ClockCovers
        <3> QED BY <2>2, <2>3, <3>3
    <2>5. CASE t \notin spoilt
        <3>1. /\ fresh' = fresh /\ RegistersAhead(t)
              /\ reg[t].physical = last_physical[On(t)]
            BY <1>3, <1>t, <2>1, <2>5 DEF StoreLogical, OrderAt
        <3>2. ClockCovers(On(t))'
            BY <1>n, <2>1, <2>n, <3>1 DEF ClockCovers, RegistersAhead, Before
        <3> QED BY <2>2, <2>3, <3>2
    <2> QED BY <2>4, <2>5
<1> QED
    BY <1>1, <1>2, <1>3
       DEF Step, Now, Observe, Begin, LoadSecond, LoadThird, LoadLogical

\* The order invariant is preserved by every step of any thread.
LEMMA OrderStep ==
    ASSUME OrderInv, [HlcNext]_hlcVars
    PROVE  OrderInv'
<1>1. HlcTypeOK /\ HlcTypeOK'
    BY HlcTypeStep DEF OrderInv
<1>2. CASE UNCHANGED hlcVars
    BY <1>1, <1>2 DEF OrderInv, OrderAt, ClockCovers, RemoteCovered, RemoteTie,
                      RegistersAhead, Before, Alone, Rivals, Counted, hlcVars
<1>3. ASSUME NEW t \in Thread, Step(t), NEW u \in Thread
      PROVE  Alone(u)' /\ (u \notin spoilt' => OrderAt(u)')
    BY <1>1, <1>3, AloneStep, OwnOrder, OthersOrder
<1>4. CASE \E t \in Thread : Step(t)
    BY <1>1, <1>3, <1>4, CoverStep DEF OrderInv
<1> QED BY <1>2, <1>4 DEF HlcNext, Step

\* A timestamp is issued by a store whose registers are ahead.
LEMMA IssueStep ==
    ASSUME OrderInv, [HlcNext]_hlcVars
    PROVE  [\A t \in Thread :
              (pc[t] = "done" /\ pc'[t] = "idle" /\ t \notin spoilt) =>
                \A e \in issued' \ issued :
                  /\ \A d \in issued :
                      d.node = e.node /\ d.nth >= fresh[d.node] => Before(d, e)
                  /\ reg[t].remote.present => Before(reg[t].remote, e)]_issued
<1>1. SUFFICES ASSUME NEW t \in Thread, NEW e \in issued' \ issued,
                      pc[t] = "done", pc'[t] = "idle", t \notin spoilt
               PROVE  /\ \A d \in issued :
                          d.node = e.node /\ d.nth >= fresh[d.node] =>
                            Before(d, e)
                      /\ reg[t].remote.present => Before(reg[t].remote, e)
    OBVIOUS
<1>2. PICK u \in Thread : StoreLogical(u)
    BY <1>1 DEF HlcNext, hlcVars, Now, Observe, Begin, LoadSecond, LoadThird,
                LoadLogical, StorePhysical
<1>3. u = t
    BY <1>1, <1>2 DEF StoreLogical, OrderInv, HlcTypeOK
<1>4. /\ e.physical = reg[t].physical /\ e.logical = reg[t].logical
      /\ e.node = On(t)
    BY <1>1, <1>2, <1>3 DEF StoreLogical
<1>5. RegistersAhead(t)
    BY <1>1 DEF OrderInv, OrderAt
<1> QED BY <1>4, <1>5 DEF RegistersAhead, Before

\* A call that was alone on its clock and did not wrap returns a timestamp after
\* its remote one and after all its clock still stands for, whatever the wall
\* clocks do, whatever timestamps peers send and however many threads share the
\* clock.
THEOREM StampsAreOrdered == HlcSpec => StampsIncrease
<1>1. HlcInit => OrderInv
    BY ClockAssumption
       DEF HlcInit, OrderInv, OrderAt, HlcTypeOK, ClockCovers, Counted, Alone,
           Thread, On, Locals, NoRemote, NoLocals
<1>2. OrderInv /\ [HlcNext]_hlcVars => OrderInv'
    BY OrderStep
<1>3. OrderInv /\ [HlcNext]_hlcVars =>
        [\A t \in Thread :
              (pc[t] = "done" /\ pc'[t] = "idle" /\ t \notin spoilt) =>
                \A e \in issued' \ issued :
                  /\ \A d \in issued :
                      d.node = e.node /\ d.nth >= fresh[d.node] => Before(d, e)
                  /\ reg[t].remote.present => Before(reg[t].remote, e)]_issued
    BY IssueStep
<1> QED BY <1>1, <1>2, <1>3, PTL DEF HlcSpec, StampsIncrease

\* HlcTyping, wherever the calls of any number of threads stand: the registers and
\* the logical counter keep their ranges under any interleaving.
THEOREM HlcTyping == HlcSpec => []HlcTypeOK
<1>1. HlcInit => HlcTypeOK
    BY ClockAssumption DEF HlcInit, HlcTypeOK, Thread, On, Locals, NoRemote, NoLocals
<1>2. HlcTypeOK /\ [HlcNext]_hlcVars => HlcTypeOK'
    BY HlcTypeStep
<1> QED BY <1>1, <1>2, PTL DEF HlcSpec

-----------------------------------------------------------------------------
(* The token bucket *)

\* Products of natural numbers, as far as the proof needs them.
LEMMA Products ==
    ASSUME NEW r \in Nat, NEW a \in Nat, NEW b \in Nat, a <= b
    PROVE  /\ r * a \in Nat /\ r * b \in Nat
           /\ (b - a) * r \in Nat
           /\ (b - a) * r = r * b - r * a
           /\ r * a <= r * b
<1>1. b - a \in Nat
    OBVIOUS
<1>2. (b - a) * r \in Nat /\ r * a \in Nat /\ r * b \in Nat
    BY <1>1
<1>3. (b - a) * r = r * b - r * a
    OBVIOUS
<1> QED BY <1>2, <1>3

\* Rounding down never gains.
LEMMA Quotient ==
    ASSUME NEW x \in Nat
    PROVE  x \div 1000 \in Nat /\ 1000 * (x \div 1000) <= x
    OBVIOUS

\* A sum bounds its terms, and its multiples are bounded like it.
LEMMA Sums ==
    ASSUME NEW a \in Nat, NEW t \in Nat, NEW b \in Nat, a + t <= b
    PROVE  a <= b /\ a + t \in Nat /\ \A c \in Nat : 1000 * (a + t) <= 1000 * b + c
    OBVIOUS

\* What the constants and the variables are.
LEMMA Numbers ==
    ASSUME LimiterTypeOK
    PROVE  /\ Rate \in Nat /\ Burst \in Nat /\ MaxTime \in Nat
           /\ Start \in Nat /\ MaxLag \in Nat /\ MaxLag <= Start
           /\ Earliest \in Nat /\ FreeFill \in Nat
           /\ time \in Start .. MaxTime /\ last_refill \in 0 .. MaxTime
           /\ tokens \in 0 .. Burst /\ admitted \in Nat
           /\ credit \in 0 .. 1000 * Burst
    BY LimiterAssumption DEF LimiterTypeOK, Earliest, FreeFill

\* A refill after the first is paid for by the time since the last one.
LEMMA GainCovered ==
    ASSUME LimiterTypeOK, NEW now \in 0 .. MaxTime, Refills(now), Earliest <= last_refill
    PROVE  /\ Gain(now) \in Nat
           /\ Rate * (now - Earliest) \in Nat
           /\ Rate * (last_refill - Earliest) \in Nat
           /\ 1000 * Gain(now) <=
                  Rate * (now - Earliest) - Rate * (last_refill - Earliest)
<1> DEFINE a == last_refill - Earliest
           b == now - Earliest
<1>1. /\ now \in Nat /\ last_refill \in Nat /\ Rate \in Nat /\ Earliest \in Nat
      /\ last_refill <= now
    BY Numbers DEF Refills
<1>2. a \in Nat /\ b \in Nat /\ a <= b /\ now - last_refill = b - a
    BY <1>1
<1>3. Gain(now) = ((b - a) * Rate) \div 1000
    BY <1>1, <1>2 DEF Gain
<1> HIDE DEF a, b
<1>4. /\ (b - a) * Rate \in Nat /\ Rate * a \in Nat /\ Rate * b \in Nat
      /\ (b - a) * Rate = Rate * b - Rate * a
    BY <1>1, <1>2, Products
<1> DEFINE x == (b - a) * Rate
<1>5. x \div 1000 \in Nat /\ 1000 * (x \div 1000) <= x
    <2> HIDE DEF x
    <2>1. x \in Nat
        BY <1>4 DEF x
    <2> QED BY <2>1, Quotient
<1>6. Gain(now) \in Nat /\ 1000 * Gain(now) <= Rate * b - Rate * a
    BY <1>3, <1>4, <1>5
<1> QED BY <1>4, <1>6 DEF a, b

\* The bucket stays within the burst.
LEMMA RefilledInBurst ==
    ASSUME LimiterTypeOK, NEW now \in 0 .. MaxTime
    PROVE  /\ Refilled(now) \in 0 .. Burst
           /\ ~ Refills(now) => Refilled(now) = tokens
<1>1. Burst \in Nat /\ tokens \in 0 .. Burst /\ Rate \in Nat /\ last_refill \in Nat
    BY Numbers
<1>2. CASE Refills(now)
    <2>1. now \in Nat /\ last_refill <= now
        BY <1>1, <1>2 DEF Refills
    <2>2. (now - last_refill) * Rate \in Nat
        BY <1>1, <2>1, Products
    <2> DEFINE x == (now - last_refill) * Rate
    <2>3. x \div 1000 \in Nat
        <3> HIDE DEF x
        <3>1. x \in Nat
            BY <2>2 DEF x
        <3> QED BY <3>1, Quotient
    <2>4. Gain(now) = x \div 1000
        BY <1>1, <2>1 DEF Gain
    <2>5. Gain(now) \in Nat
        BY <2>3, <2>4
    <2> QED BY <1>1, <1>2, <2>5 DEF Refilled, Smaller
<1>3. CASE ~ Refills(now)
    BY <1>1, <1>3 DEF Refilled
<1> QED BY <1>2, <1>3

\* Once it was refilled, a refill is covered by the time it counts up to.
LEMMA RefilledCovered ==
    ASSUME LimiterTypeOK, RefillsCover, NEW now \in 0 .. MaxTime, Refills(now)
    PROVE  1000 * (admitted + Refilled(now)) <=
               1000 * (Burst + FreeFill) + Rate * (now - Earliest)
<1> DEFINE g == Gain(now)
           a == Rate * (now - Earliest)
           b == Rate * (last_refill - Earliest)
<1>1. g \in Nat /\ a \in Nat /\ b \in Nat /\ 1000 * g <= a - b
    BY GainCovered DEF RefillsCover
<1>2. Refilled(now) = Smaller(tokens + g, Burst)
    BY DEF Refilled
<1>3. 1000 * (admitted + tokens) <= 1000 * (Burst + FreeFill) + b
    BY DEF RefillsCover
<1>4. Burst \in Nat /\ FreeFill \in Nat /\ tokens \in 0 .. Burst /\ admitted \in Nat
    BY Numbers
<1> HIDE DEF g, a, b
<1>5. Refilled(now) \in Nat /\ Refilled(now) <= tokens + g
    BY <1>1, <1>2, <1>4 DEF Smaller
<1>6. 1000 * (admitted + Refilled(now)) <= 1000 * (Burst + FreeFill) + a
    BY <1>1, <1>3, <1>4, <1>5
<1> QED BY <1>6 DEF a

\* A call keeps the invariant: the token it takes pays for the admission.  The
\* call comes through check, with 0, or through check_at.
LEMMA CallKeepsInv ==
    ASSUME LimiterInv, NEW now \in 0 .. MaxTime, now <= time, CheckAt(now),
           Earliest <= now \/ (now = 0 /\ "check" \in Paths)
    PROVE  LimiterInv'
<1> DEFINE filled == Refilled(now)
<1>1. /\ Burst \in Nat /\ tokens \in 0 .. Burst /\ admitted \in Nat
      /\ Rate \in Nat /\ last_refill \in 0 .. MaxTime /\ MaxTime \in Nat
      /\ credit \in 0 .. 1000 * Burst /\ time \in Start .. MaxTime
      /\ Earliest \in Nat /\ FreeFill \in Nat /\ LimiterTypeOK
    BY Numbers DEF LimiterInv
<1>2. /\ filled \in 0 .. Burst
      /\ ~ Refills(now) => filled = tokens
    BY <1>1, RefilledInBurst
<1>3. /\ last_refill' = IF Refills(now) THEN now ELSE last_refill
      /\ prev_now' = now
      /\ verdict' = [ok |-> filled > 0, credit |-> credit]
      /\ time' = time
    BY DEF CheckAt
<1>4. \/ filled = 0 /\ tokens' = 0 /\ UNCHANGED <<admitted, credit>>
      \/ /\ filled > 0 /\ tokens' = filled - 1 /\ admitted' = admitted + 1
         /\ credit' = IF credit >= 1000 THEN credit - 1000 ELSE 0
    BY DEF CheckAt
<1>5. RefillsCover /\ Refills(now) =>
          1000 * (admitted + filled) <=
              1000 * (Burst + FreeFill) + Rate * (now - Earliest)
    BY <1>1, RefilledCovered
<1> HIDE DEF filled
<1>6. /\ tokens' \in 0 .. Burst /\ admitted' \in Nat
      /\ admitted' + tokens' = admitted + filled
    BY <1>1, <1>2, <1>4
<1>7. credit' \in 0 .. 1000 * Burst
    BY <1>1, <1>4
<1>8. verdict' \in [ok : BOOLEAN, credit : 0 .. 1000 * Burst]
    <2>1. (filled > 0) \in BOOLEAN
        OBVIOUS
    <2> QED BY <1>1, <1>3, <2>1
<1>9. LimiterTypeOK'
    BY <1>1, <1>3, <1>6, <1>7, <1>8 DEF LimiterTypeOK
<1>10. last_refill' <= time'
    BY <1>3 DEF LimiterInv
<1>11. CASE RefillsCover
    <2> DEFINE c == Rate * (last_refill' - Earliest)
    <2>1. Earliest <= last_refill'
        <3>1. Refills(now) => now > 0
            BY <1>1 DEF Refills
        <3>2. Refills(now) => Earliest <= now
            BY <3>1
        <3> QED BY <1>3, <1>11, <3>2 DEF RefillsCover
    <2>2. 1000 * (admitted + filled) <= 1000 * (Burst + FreeFill) + c
        <3>1. CASE Refills(now)
            BY <1>3, <1>5, <1>11, <3>1
        <3>2. CASE ~ Refills(now)
            <4>1. last_refill' = last_refill /\ filled = tokens
                BY <1>2, <1>3, <3>2
            <4> QED BY <1>11, <4>1 DEF RefillsCover
        <3> QED BY <3>1, <3>2
    <2>3. 1000 * (admitted' + tokens') <= 1000 * (Burst + FreeFill) + c
        <3> HIDE DEF c
        <3> QED BY <1>6, <2>2
    <2>4. RefillsCover'
        BY <2>1, <2>3 DEF RefillsCover, Earliest, FreeFill
    <2> QED BY <1>9, <1>10, <2>4 DEF LimiterInv
<1>12. CASE NotRefilled
    <2>0. PICK a \in Nat, t \in Nat : a = admitted' /\ t = tokens'
        BY <1>1, <1>6
    <2>1. /\ last_refill = 0 /\ prev_now = 0 /\ admitted <= FreeFill
          /\ admitted + tokens <= Burst
        BY <1>12 DEF NotRefilled
    <2>2. ASSUME Earliest <= now
          PROVE  RefillsCover'
        \* The first refill, or none in the very first millisecond.
        <3> DEFINE c == Rate * (last_refill' - Earliest)
        <3>1. last_refill' = now
            BY <1>3, <2>1 DEF Refills
        <3>2. c \in Nat
            <4>1. now - Earliest \in Nat
                BY <1>1, <2>2
            <4> QED BY <1>1, <3>1, <4>1
        <3>3. admitted' + tokens' <= Burst + FreeFill
            <4>1. admitted + filled <= Burst + FreeFill
                BY <1>1, <1>2, <2>1
            <4> QED BY <1>6, <4>1
        <3>4. 1000 * (admitted' + tokens') <= 1000 * (Burst + FreeFill) + c
            <4> HIDE DEF c
            <4>0. Burst + FreeFill \in Nat
                BY <1>1
            <4>1. a + t <= Burst + FreeFill
                BY <2>0, <3>3
            <4>2. 1000 * (a + t) <= 1000 * (Burst + FreeFill) + c
                BY <3>2, <4>0, <4>1, Sums
            <4> QED BY <2>0, <4>2
        <3> QED BY <2>2, <3>1, <3>4 DEF RefillsCover, Earliest, FreeFill
    <2>3. ASSUME now = 0, "check" \in Paths
          PROVE  NotRefilled'
        <3>1. ~ Refills(now) /\ last_refill' = 0 /\ prev_now' = 0
            BY <1>1, <1>3, <2>1, <2>3 DEF Refills
        <3>2. admitted' + tokens' <= Burst
            BY <1>2, <1>6, <2>1, <3>1
        <3>3. admitted' <= FreeFill
            <4>1. FreeFill = Burst
                BY <2>3 DEF FreeFill
            <4>2. Burst \in Nat /\ a + t <= Burst
                BY <1>1, <2>0, <3>2
            <4>3. a <= Burst
                BY <4>2, Sums
            <4> QED BY <2>0, <4>1, <4>3
        <3> QED BY <3>1, <3>2, <3>3 DEF NotRefilled, FreeFill
    <2> QED BY <1>9, <1>10, <2>2, <2>3 DEF LimiterInv
<1> QED BY <1>11, <1>12 DEF LimiterInv

\* The refills always cover the tokens in the bucket and the admissions.
THEOREM LimiterInvariant == LimiterSpec => []LimiterInv
<1>1. LimiterInit => LimiterInv
    <2> SUFFICES ASSUME LimiterInit PROVE LimiterInv
        OBVIOUS
    <2>1. LimiterTypeOK
        BY LimiterAssumption DEF LimiterInit, LimiterTypeOK
    <2>2. NotRefilled
        BY <2>1, Numbers DEF LimiterInit, NotRefilled
    <2>3. last_refill <= time
        BY <2>1, Numbers DEF LimiterInit
    <2> QED BY <2>1, <2>2, <2>3 DEF LimiterInv
<1>2. LimiterInv /\ [LimiterNext]_limiterVars => LimiterInv'
    <2> SUFFICES ASSUME LimiterInv, [LimiterNext]_limiterVars PROVE LimiterInv'
        OBVIOUS
    <2>1. /\ time \in Start .. MaxTime /\ MaxTime \in Nat /\ Start \in Nat
          /\ MaxLag \in Nat /\ MaxLag <= Start
        BY Numbers DEF LimiterInv
    <2>2. CASE Millisecond
        <3>1. /\ Burst \in Nat /\ Rate \in Nat /\ last_refill \in Nat
              /\ credit \in 0 .. 1000 * Burst /\ last_refill <= time
            BY Numbers DEF LimiterInv
        <3>2. time' \in Start .. MaxTime /\ last_refill' <= time'
            BY <2>1, <2>2, <3>1 DEF Millisecond
        <3>3. credit' \in 0 .. 1000 * Burst
            BY <2>2, <3>1 DEF Millisecond, Smaller
        <3>4. UNCHANGED <<tokens, last_refill, prev_now, admitted, verdict>>
            BY <2>2 DEF Millisecond
        <3>5. LimiterTypeOK'
            BY <3>2, <3>3, <3>4 DEF LimiterInv, LimiterTypeOK
        <3>6. (NotRefilled \/ RefillsCover)'
            BY <3>4 DEF LimiterInv, NotRefilled, RefillsCover, Earliest, FreeFill
        <3> QED BY <3>2, <3>5, <3>6 DEF LimiterInv
    <2>3. CASE "check" \in Paths /\ Check
        <3>1. 0 \in 0 .. MaxTime /\ 0 <= time
            BY <2>1
        <3> QED BY <2>3, <3>1, CallKeepsInv DEF Check
    <2>4. ASSUME NEW lag \in 0 .. MaxLag, CheckAt(time - lag)
          PROVE  LimiterInv'
        <3>1. /\ time - lag \in 0 .. MaxTime /\ time - lag <= time
              /\ Earliest <= time - lag
            BY <2>1, <2>4 DEF Earliest
        <3> QED BY <2>4, <3>1, CallKeepsInv
    <2>5. CASE UNCHANGED limiterVars
        BY <2>5 DEF limiterVars, LimiterInv, LimiterTypeOK, NotRefilled, RefillsCover, Earliest, FreeFill
    <2> QED BY <2>2, <2>3, <2>4, <2>5 DEF LimiterNext
<1> QED BY <1>1, <1>2, PTL DEF LimiterSpec

\* Over its life the limiter admits no more than the burst and the sustained
\* rate allow, whatever the callers' clocks do.
THEOREM RateIsSustained == LimiterSpec => []SustainedRate
<1>1. LimiterInv => SustainedRate
    <2> SUFFICES ASSUME LimiterInv PROVE SustainedRate
        OBVIOUS
    <2> DEFINE b == Rate * (time - Earliest)
    <2>1. /\ Rate \in Nat /\ Burst \in Nat /\ FreeFill \in Nat /\ Earliest \in Nat
          /\ last_refill \in Nat /\ time \in Nat /\ last_refill <= time
          /\ tokens \in Nat /\ admitted \in Nat /\ Earliest <= time
        BY Numbers DEF LimiterInv, Earliest
    <2>2. time - Earliest \in Nat /\ b \in Nat
        BY <2>1
    <2>3. CASE NotRefilled
        <3>1. admitted <= FreeFill
            BY <2>3 DEF NotRefilled
        <3>2. 1000 * admitted <= 1000 * (Burst + FreeFill) + b
            <4> HIDE DEF b
            <4> QED BY <2>1, <2>2, <3>1
        <3> QED BY <3>2 DEF SustainedRate
    <2>4. CASE RefillsCover
        <3> DEFINE a == Rate * (last_refill - Earliest)
        <3>1. Earliest <= last_refill /\ last_refill - Earliest \in Nat
            BY <2>1, <2>4 DEF RefillsCover
        <3>2. last_refill - Earliest <= time - Earliest
            BY <2>1, <3>1
        <3>3. a \in Nat /\ a <= b
            BY <2>1, <2>2, <3>1, <3>2, Products
        <3>4. 1000 * (admitted + tokens) <= 1000 * (Burst + FreeFill) + a
            BY <2>4 DEF RefillsCover
        <3>5. 1000 * admitted <= 1000 * (Burst + FreeFill) + b
            <4> HIDE DEF a, b
            <4> QED BY <2>1, <2>2, <3>3, <3>4
        <3> QED BY <3>5 DEF SustainedRate
    <2> QED BY <2>3, <2>4 DEF LimiterInv
<1> QED BY <1>1, LimiterInvariant, PTL

\* LimiterTyping: the counters stay natural numbers, and tokens within the burst.
THEOREM LimiterTyping == LimiterSpec => []LimiterTypeOK
BY LimiterInvariant, PTL DEF LimiterInv

-----------------------------------------------------------------------------
(* The writer election *)

USE DEF Clock, Term, callVars, Overtake, Refuse

\* The steps of the system, one disjunct per operation.
LEMMA Steps ==
    ASSUME TypeOK, [Next]_vars
    PROVE
        \/ \E n \in Node : Tick(n)
        \/ \E n \in Node, s \in Shard :
                \E op \in {"acquire", "heartbeat"} : Stamp(op, n, s)
        \/ \E c \in calls : AcquireGranted(c)
        \/ \E c \in calls : AcquireRefused(c)
        \/ \E c \in calls : HeartbeatApplied(c)
        \/ \E c \in calls : HeartbeatRefused(c)
        \/ \E n \in Node, s \in Shard : Relinquish(n, s)
        \/ \E kind \in Kind, n \in Node, s \in Shard : SubmitChecked(kind, n, s)
        \/ \E w \in writes : AppendWalEntry(w)
        \/ \E n \in Node, k \in Tracker, a \in Attestation :
            ConsumeNonce(n, k, a)
        \/ \E n \in Node, a \in Attestation : ForceRelinquish(n, a)
        \/ \E n \in Node : Kill(n)
        \/ \E n \in Node : Revive(n)
        \/ \E n \in Node, k \in Tracker : Restart(n, k)
        \/ UNCHANGED vars
    BY DEF TypeOK, Next, LeaseStep, WriteStep, GovernanceStep, FailureStep,
           SubmitRegister, SubmitRevoke, SubmitDrain

\* The bounds are natural numbers.
LEMMA Bounds ==
    MaxSkew \in Nat /\ MaxClock \in Nat /\ MaxTerm \in Nat /\ Lease \in Nat
    BY ElectionAssumption

\* What a call overtakes is still in progress.
LEMMA OvertakenAreCalls ==
    ASSUME NEW c, c.at \in Clock, overtaken \subseteq calls, Overtake(c)
    PROVE  overtaken' \subseteq calls' /\ calls' \subseteq calls
<1>1. ~(c.at < c.at)
    BY Bounds
<1> QED BY <1>1

\* Typing is preserved by every step.
LEMMA TypeStep ==
    ASSUME TypeOK, [Next]_vars
    PROVE  TypeOK'
<1> USE ElectionAssumption DEF TypeOK
<1>1. CASE \E n \in Node : Tick(n)
    <2>1. PICK n \in Node : Tick(n)
        BY <1>1
    <2>2. clock[n] + 1 \in 0 .. MaxClock
        BY <2>1, Bounds DEF Tick
    <2>3. clock' \in [Node -> 0 .. MaxClock]
        BY <2>1, <2>2 DEF Tick
    <2> QED BY <2>1, <2>3 DEF Tick, leaseVars, nonceVars
<1>2. CASE \E n \in Node, s \in Shard, op \in {"acquire", "heartbeat"} :
            Stamp(op, n, s)
    <2>1. PICK n \in Node, s \in Shard, op \in {"acquire", "heartbeat"} :
                Stamp(op, n, s)
        BY <1>2
    <2>2. [op |-> op, node |-> n, shard |-> s, at |-> clock[n]] \in Call
        BY DEF Call
    <2>3. calls' \subseteq Call
        BY <2>1, <2>2 DEF Stamp
    <2> QED BY <2>1, <2>3 DEF Stamp, leaseVars, nonceVars
<1>3. CASE \E c \in calls : AcquireGranted(c)
    <2>1. PICK c \in calls : AcquireGranted(c)
        BY <1>3
    <2>2. c.shard \in Shard /\ c.node \in Node /\ c.at \in Clock
        BY DEF Call
    <2>3. terms[c.shard] + 1 \in Term
        BY <2>1, <2>2, Bounds DEF AcquireGranted, Term
    <2>4. [shard |-> c.shard, term |-> terms[c.shard] + 1,
           node |-> c.node, at |-> c.at] \in Grant
        BY <2>2, <2>3 DEF Grant
    <2>5. /\ grants' \subseteq Grant /\ calls' \subseteq Call
          /\ overtaken' \subseteq calls'
        <3>1. Overtake(c)
            BY <2>1 DEF AcquireGranted
        <3> QED BY <2>1, <2>2, <2>4, <3>1, OvertakenAreCalls DEF AcquireGranted
    <2>6. /\ leaders' \in [Shard -> Node \cup {NoNode}]
          /\ last_heartbeat' \in [Shard -> Clock]
        BY <2>1, <2>2 DEF AcquireGranted
    <2>7. terms' \in [Shard -> Term]
        BY <2>1, <2>3 DEF AcquireGranted
    <2> QED BY <2>1, <2>5, <2>6, <2>7 DEF AcquireGranted, nonceVars
<1>4. CASE \E c \in calls : AcquireRefused(c)
    BY <1>4 DEF AcquireRefused, leaseVars, nonceVars
<1>5. CASE \E c \in calls : HeartbeatApplied(c)
    <2>1. PICK c \in calls : HeartbeatApplied(c)
        BY <1>5
    <2>2. c.shard \in Shard /\ c.node \in Node /\ c.at \in Clock
        BY DEF Call
    <2>3. calls' \subseteq Call /\ overtaken' \subseteq calls'
        BY <2>1, <2>2, OvertakenAreCalls DEF HeartbeatApplied
    <2>4. last_heartbeat' \in [Shard -> Clock]
        BY <2>1, <2>2 DEF HeartbeatApplied
    <2> QED BY <2>1, <2>3, <2>4 DEF HeartbeatApplied, nonceVars
<1>6. CASE \E c \in calls : HeartbeatRefused(c)
    BY <1>6 DEF HeartbeatRefused, leaseVars, nonceVars
<1>7. CASE \E n \in Node, s \in Shard : Relinquish(n, s)
    BY <1>7 DEF Relinquish, ClearLease, nonceVars
<1>8. CASE \E kind \in Kind, n \in Node, s \in Shard : SubmitChecked(kind, n, s)
    <2>1. PICK kind \in Kind, n \in Node, s \in Shard : SubmitChecked(kind, n, s)
        BY <1>8
    <2>2. writes' \subseteq Write
        BY <2>1 DEF SubmitChecked, Write
    <2> QED BY <2>1, <2>2 DEF SubmitChecked, leaseVars, nonceVars
<1>9. CASE \E w \in writes : AppendWalEntry(w)
    <2>1. PICK w \in writes : AppendWalEntry(w)
        BY <1>9
    <2>2. wal' \in Seq(Write) /\ writes' \subseteq Write
        BY <2>1 DEF AppendWalEntry
    <2> QED BY <2>1, <2>2 DEF AppendWalEntry, leaseVars, nonceVars
<1>10. CASE \E n \in Node, k \in Tracker, a \in Attestation :
            ConsumeNonce(n, k, a)
    <2>1. PICK n \in Node, k \in Tracker, a \in Attestation : ConsumeNonce(n, k, a)
        BY <1>10
    <2>2. used' \in [Tracker -> SUBSET Attestation] /\ nonces' \subseteq Attestation
        BY <2>1 DEF ConsumeNonce
    <2>3. consumed' \in [Attestation -> Nat]
        BY <2>1 DEF ConsumeNonce
    <2>4. forcing' \subseteq Node \X Attestation
        BY <2>1 DEF ConsumeNonce
    <2> QED BY <2>1, <2>2, <2>3, <2>4 DEF ConsumeNonce, leaseVars
<1>11. CASE \E n \in Node, a \in Attestation : ForceRelinquish(n, a)
    <2>1. PICK n \in Node, a \in Attestation : ForceRelinquish(n, a)
        BY <1>11
    <2>2. 0 \in Clock
        BY Bounds DEF Clock
    <2>3. /\ leaders' \in [Shard -> Node \cup {NoNode}]
          /\ last_heartbeat' \in [Shard -> Clock]
          /\ terms' \in [Shard -> Term]
        BY <2>1, <2>2 DEF ForceRelinquish, ClearLease
    <2>4. forcing' \subseteq Node \X Attestation
        BY <2>1 DEF ForceRelinquish
    <2> QED BY <2>1, <2>3, <2>4 DEF ForceRelinquish, nonceVars
<1>12. CASE \E n \in Node : Kill(n)
    BY <1>12 DEF Kill, leaseVars, nonceVars
<1>13. CASE \E n \in Node : Revive(n)
    BY <1>13 DEF Revive, leaseVars, nonceVars
<1>14. CASE \E n \in Node, k \in Tracker : Restart(n, k)
    BY <1>14 DEF Restart, Replay, leaseVars
<1>15. CASE UNCHANGED vars
    BY <1>15 DEF vars, leaseVars, nonceVars
<1> QED BY Steps, <1>1, <1>2, <1>3, <1>4, <1>5, <1>6, <1>7,
           <1>8, <1>9, <1>10, <1>11, <1>12, <1>13, <1>14, <1>15

\* No grant gets ahead of its term, and a new one has a term of its own.
LEMMA GrantsStep ==
    ASSUME TypeOK, GrantsBehindTerms, OneLeaderPerTerm, [Next]_vars
    PROVE  GrantsBehindTerms' /\ OneLeaderPerTerm'
<1> USE ElectionAssumption, Bounds
        DEF TypeOK, GrantsBehindTerms, OneLeaderPerTerm
<1>1. CASE \E c \in calls : AcquireGranted(c)
    <2>1. PICK c \in calls : AcquireGranted(c)
        BY <1>1
    <2>2. c.shard \in Shard /\ c.node \in Node /\ c.at \in Clock
        BY DEF Call
    <2> DEFINE new == [shard |-> c.shard, term |-> terms[c.shard] + 1,
                       node |-> c.node, at |-> c.at]
    <2>3. /\ grants' = grants \cup {new}
          /\ terms' = [terms EXCEPT ![c.shard] = @ + 1]
        BY <2>1 DEF AcquireGranted
    <2>4. \A g \in grants : g.shard \in Shard /\ g.term \in 0 .. MaxTerm
        BY DEF Grant
    <2>5. GrantsBehindTerms'
        <3>1. \A s \in Shard : terms[s] \in Nat
            BY DEF Term
        <3>2. \A s \in Shard : terms'[s] \in Nat /\ terms[s] <= terms'[s]
            BY <2>3, <3>1
        <3>3. 1 <= new.term /\ new.term <= terms'[new.shard]
            BY <2>2, <2>3, <3>1
        <3> HIDE ElectionAssumption DEF TypeOK, OneLeaderPerTerm, new
        <3> QED BY <2>3, <2>4, <3>1, <3>2, <3>3
    <2>6. \A g \in grants : ~(g.shard = new.shard /\ g.term = new.term)
        BY <2>2, <2>4
    <2>7. OneLeaderPerTerm'
        BY <2>3, <2>6
    <2> QED BY <2>5, <2>7
<1>2. CASE \E n \in Node, s \in Shard : Relinquish(n, s)
    BY <1>2 DEF Relinquish, ClearLease
<1>3. CASE \E n \in Node, a \in Attestation : ForceRelinquish(n, a)
    BY <1>3 DEF ForceRelinquish, ClearLease
<1>4. CASE UNCHANGED <<terms, grants>>
    BY <1>4
<1> QED
    BY Steps, <1>1, <1>2, <1>3, <1>4
       DEF Tick, Stamp, AcquireRefused, HeartbeatApplied, HeartbeatRefused,
           SubmitChecked, AppendWalEntry, ConsumeNonce, Kill, Revive, Restart,
           vars, leaseVars, nonceVars

\* A leader is always the holder of its shard's latest grant.
LEMMA LeaderStep ==
    ASSUME TypeOK, LeaderHoldsLatestGrant, [Next]_vars
    PROVE  LeaderHoldsLatestGrant'
<1> USE ElectionAssumption, Bounds DEF TypeOK, LeaderHoldsLatestGrant
<1>1. CASE \E c \in calls : AcquireGranted(c)
    <2>1. PICK c \in calls : AcquireGranted(c)
        BY <1>1
    <2>2. c.shard \in Shard /\ c.node \in Node /\ c.at \in Clock
        BY DEF Call
    <2> DEFINE new == [shard |-> c.shard, term |-> terms[c.shard] + 1,
                       node |-> c.node, at |-> c.at]
    <2>3. /\ grants' = grants \cup {new}
          /\ terms' = [terms EXCEPT ![c.shard] = @ + 1]
        BY <2>1 DEF AcquireGranted
    <2>4. leaders' = [leaders EXCEPT ![c.shard] = c.node]
        BY <2>1 DEF AcquireGranted
    <2>5. SUFFICES ASSUME NEW s \in Shard, leaders'[s] # NoNode
                   PROVE  \E g \in grants' : /\ g.shard = s
                                              /\ g.term = terms'[s]
                                              /\ g.node = leaders'[s]
        OBVIOUS
    <2>6. CASE s = c.shard
        <3>1. leaders'[s] = c.node /\ terms'[s] = terms[c.shard] + 1
            BY <2>2, <2>3, <2>4, <2>6
        <3>2. new \in grants'
            BY <2>3
        <3>3. new.shard = s /\ new.term = terms'[s] /\ new.node = leaders'[s]
            BY <2>6, <3>1
        <3> QED BY <3>2, <3>3
    <2>7. CASE s # c.shard
        <3>1. leaders'[s] = leaders[s] /\ terms'[s] = terms[s]
            BY <2>2, <2>3, <2>4, <2>7
        <3>2. PICK g \in grants :
                    g.shard = s /\ g.term = terms[s] /\ g.node = leaders[s]
            BY <2>5, <3>1
        <3>3. g \in grants'
            BY <2>3
        <3> QED BY <3>1, <3>2, <3>3
    <2> QED BY <2>6, <2>7
<1>2. CASE \E n \in Node, s \in Shard : Relinquish(n, s)
    <2>1. PICK n \in Node, s \in Shard : Relinquish(n, s)
        BY <1>2
    <2>2. /\ terms' = terms /\ grants' = grants
          /\ \A t \in Shard : leaders'[t] \in {NoNode, leaders[t]}
        BY <2>1 DEF Relinquish, ClearLease
    <2> QED BY <2>2
<1>3. CASE \E n \in Node, a \in Attestation : ForceRelinquish(n, a)
    <2>1. PICK n \in Node, a \in Attestation : ForceRelinquish(n, a)
        BY <1>3
    <2>2. /\ terms' = terms /\ grants' = grants
          /\ \A t \in Shard : leaders'[t] \in {NoNode, leaders[t]}
        BY <2>1 DEF ForceRelinquish, ClearLease
    <2>3. SUFFICES ASSUME NEW t \in Shard, leaders'[t] # NoNode
                   PROVE  \E g \in grants' : /\ g.shard = t
                                              /\ g.term = terms'[t]
                                              /\ g.node = leaders'[t]
        OBVIOUS
    <2>4. leaders'[t] = leaders[t] /\ leaders[t] # NoNode
        BY <2>2, <2>3
    <2> QED BY <2>2, <2>4
<1>4. CASE UNCHANGED <<leaders, terms, grants>>
    BY <1>4
<1> QED
    BY Steps, <1>1, <1>2, <1>3, <1>4
       DEF Tick, Stamp, AcquireRefused, HeartbeatApplied, HeartbeatRefused,
           SubmitChecked, AppendWalEntry, ConsumeNonce, Kill, Revive, Restart,
           vars, leaseVars, nonceVars

\* Behind every write there is a grant.
LEMMA WritesStep ==
    ASSUME TypeOK, LeaderHoldsLatestGrant, LeaseBehindEveryWrite, [Next]_vars
    PROVE  LeaseBehindEveryWrite'
<1> USE ElectionAssumption, Bounds DEF TypeOK, LeaseBehindEveryWrite, WasGranted
<1>1. CASE \E c \in calls : AcquireGranted(c)
    <2>1. grants \subseteq grants' /\ wal' = wal /\ writes' = writes
        BY <1>1 DEF AcquireGranted
    <2> QED BY <2>1
<1>2. CASE \E kind \in Kind, n \in Node, s \in Shard : SubmitChecked(kind, n, s)
    <2>1. PICK kind \in Kind, n \in Node, s \in Shard : SubmitChecked(kind, n, s)
        BY <1>2
    <2>2. \E g \in grants : g.shard = s /\ g.node = n
        BY <2>1 DEF SubmitChecked, Leads, LeaderHoldsLatestGrant
    <2>3. /\ grants' = grants /\ wal' = wal
          /\ writes' = writes \cup {[kind |-> kind, writer |-> n, shard |-> s]}
        BY <2>1 DEF SubmitChecked, leaseVars
    <2> DEFINE new == [kind |-> kind, writer |-> n, shard |-> s]
    <2>a. new.shard = s /\ new.writer = n
        OBVIOUS
    <2>b. WasGranted(new)'
        BY <2>2, <2>3, <2>a
    <2>4. \A w \in writes' : WasGranted(w)'
        <3>1. \A w \in writes : WasGranted(w)'
            BY <2>3
        <3>2. writes' = writes \cup {new}
            BY <2>3
        <3> HIDE DEF new, WasGranted
        <3> QED BY <3>1, <3>2, <2>b
    <2>5. \A i \in 1 .. Len(wal') : WasGranted(wal[i])'
        BY <2>3
    <2> QED BY <2>4, <2>5
<1>3. CASE \E w \in writes : AppendWalEntry(w)
    <2>1. PICK w \in writes : AppendWalEntry(w)
        BY <1>3
    <2>2. \A i \in 1 .. Len(wal') :
            wal'[i] = w \/ (i \in 1 .. Len(wal) /\ wal'[i] = wal[i])
        BY <2>1 DEF AppendWalEntry
    <2>3. grants' = grants /\ writes' \subseteq writes
        BY <2>1 DEF AppendWalEntry, leaseVars
    <2> QED BY <2>2, <2>3
<1>4. CASE \E n \in Node, k \in Tracker : Restart(n, k)
    <2>1. grants' = grants /\ wal' = wal /\ writes' \subseteq writes
        BY <1>4 DEF Restart, leaseVars
    <2> QED BY <2>1
<1>5. CASE UNCHANGED <<wal, writes, grants>>
    BY <1>5
<1> QED
    BY Steps, <1>1, <1>2, <1>3, <1>4, <1>5
       DEF Tick, Stamp, AcquireRefused, HeartbeatApplied, HeartbeatRefused,
           Relinquish, ConsumeNonce, ForceRelinquish, Kill, Revive, vars,
           leaseVars, nonceVars

\* Clocks keep together and do not fall behind the stamps taken from them.
LEMMA ClockStep ==
    ASSUME TypeOK, StampsBehindClocks, ClocksTogether, [Next]_vars
    PROVE  StampsBehindClocks' /\ ClocksTogether'
<1> USE ElectionAssumption, Bounds
        DEF TypeOK, StampsBehindClocks, ClocksTogether
<1>1. CASE \E n \in Node : Tick(n)
    <2>1. PICK n \in Node : Tick(n)
        BY <1>1
    <2>2. \A m \in Node : clock[m] \in Nat /\ clock'[m] \in Nat
                         /\ clock[m] <= clock'[m]
        BY <2>1 DEF Tick
    <2>3. ClocksTogether'
        BY <2>1, <2>2 DEF Tick
    <2>4. StampsBehindClocks'
        <3>1. calls' = calls
            BY <2>1 DEF Tick
        <3>2. \A c \in calls : c.node \in Node /\ c.at \in Nat
            BY DEF Call
        <3> HIDE ElectionAssumption DEF TypeOK, ClocksTogether
        <3> QED BY <2>2, <3>1, <3>2
    <2> QED BY <2>3, <2>4
<1>2. CASE \E n \in Node, s \in Shard, op \in {"acquire", "heartbeat"} :
            Stamp(op, n, s)
    BY <1>2 DEF Stamp, Call
<1>3. CASE \E c \in calls : AcquireGranted(c)
    BY <1>3 DEF AcquireGranted
<1>4. CASE \E c \in calls : AcquireRefused(c)
    BY <1>4 DEF AcquireRefused
<1>5. CASE \E c \in calls : HeartbeatApplied(c)
    BY <1>5 DEF HeartbeatApplied
<1>6. CASE \E c \in calls : HeartbeatRefused(c)
    BY <1>6 DEF HeartbeatRefused
<1>7. CASE \E n \in Node, k \in Tracker : Restart(n, k)
    BY <1>7 DEF Restart
<1>8. CASE UNCHANGED <<clock, calls>>
    BY <1>8
<1> QED
    BY Steps, <1>1, <1>2, <1>3, <1>4, <1>5, <1>6, <1>7, <1>8
       DEF Relinquish, SubmitChecked, AppendWalEntry, ConsumeNonce,
           ForceRelinquish, Kill, Revive, vars, leaseVars, nonceVars

-----------------------------------------------------------------------------
\* The inductive invariant: the conjuncts are preserved together.
THEOREM ElectionInvariant == Spec => []ElectionInv
<1>1. Init => ElectionInv
    BY ElectionAssumption, Bounds
       DEF Init, ElectionInv, TypeOK, GrantsBehindTerms, OneLeaderPerTerm,
           LeaderHoldsLatestGrant, LeaseBehindEveryWrite, StampsBehindClocks,
           ClocksTogether, WasGranted
<1>2. ElectionInv /\ [Next]_vars => ElectionInv'
    BY TypeStep, GrantsStep, LeaderStep, WritesStep, ClockStep DEF ElectionInv
<1> QED BY <1>1, <1>2, PTL DEF Spec

\* A term of a shard is granted at most once (try_acquire_leader, relinquish,
\* force_relinquish, restarts).
THEOREM ElectionSafety == Spec => []OneLeaderPerTerm
BY ElectionInvariant, PTL DEF ElectionInv

\* Whatever is in the WAL was put there by a node that was once granted the
\* lease of that shard.
THEOREM WritesAreLeased == Spec => []LeaseBehindEveryWrite
BY ElectionInvariant, PTL DEF ElectionInv

\* One takeover: the challenger's stamp is not ahead of its clock, and its
\* clock is not ahead of the leader's by more than the skew.
LEMMA Takeover ==
    ASSUME ElectionInv, [Next]_vars
    PROVE  [\A s \in Shard :
              (leaders[s] # NoNode /\ leaders'[s] \notin {NoNode, leaders[s]}) =>
                clock[leaders[s]] + MaxSkew >= last_heartbeat[s] + Lease]_leaders
<1> USE ElectionAssumption, Bounds DEF ElectionInv, TypeOK
<1>1. SUFFICES ASSUME NEW s \in Shard, leaders[s] # NoNode,
                      leaders'[s] \notin {NoNode, leaders[s]}
               PROVE  clock[leaders[s]] + MaxSkew >= last_heartbeat[s] + Lease
    OBVIOUS
<1>2. CASE \E c \in calls : AcquireGranted(c)
    <2>1. PICK c \in calls : AcquireGranted(c)
        BY <1>2
    <2>2. c.node \in Node /\ c.shard \in Shard /\ c.at \in Nat
        BY DEF Call
    <2>3. c.shard = s
        BY <1>1, <2>1, <2>2 DEF AcquireGranted
    <2>4. c.at >= last_heartbeat[s] + Lease
        BY <1>1, <2>1, <2>2, <2>3 DEF AcquireGranted, MayAcquire, Expired
    <2>5. c.at <= clock[c.node]
        BY DEF StampsBehindClocks
    <2>6. clock[c.node] <= clock[leaders[s]] + MaxSkew
        BY <1>1, <2>2 DEF ClocksTogether
    <2>7. clock[c.node] \in Nat /\ clock[leaders[s]] \in Nat
          /\ last_heartbeat[s] \in Nat
        BY <1>1, <2>2
    <2> HIDE ElectionAssumption DEF ElectionInv, TypeOK
    <2> QED BY <2>2, <2>4, <2>5, <2>6, <2>7
<1>3. CASE \E n \in Node, t \in Shard : Relinquish(n, t)
    BY <1>1, <1>3 DEF Relinquish, ClearLease
<1>4. CASE \E n \in Node, a \in Attestation : ForceRelinquish(n, a)
    BY <1>1, <1>4 DEF ForceRelinquish, ClearLease
<1>5. CASE UNCHANGED leaders
    BY <1>1, <1>5
<1> QED
    BY Steps, <1>2, <1>3, <1>4, <1>5
       DEF Tick, Stamp, AcquireRefused, HeartbeatApplied, HeartbeatRefused,
           SubmitChecked, AppendWalEntry, ConsumeNonce, Kill, Revive, Restart,
           vars, leaseVars

\* A lease is honoured up to the clock skew (try_acquire_leader).
THEOREM LeasesAreHonoured == Spec => LeaseHonoured
<1>1. ElectionInv /\ [Next]_vars =>
        [\A s \in Shard :
            (leaders[s] # NoNode /\ leaders'[s] \notin {NoNode, leaders[s]}) =>
               clock[leaders[s]] + MaxSkew >= last_heartbeat[s] + Lease]_leaders
    BY Takeover
<1> QED BY <1>1, ElectionInvariant, PTL DEF Spec, LeaseHonoured

-----------------------------------------------------------------------------
\* A lease counts from a stamp that its holder took, and the calls the holder
\* still has under way were stamped later, or a later one overtook them.
LEMMA LeaseStampStep ==
    ASSUME HeartbeatInv, [Next]_vars
    PROVE  LeaseBehindClock' /\ CallsAfterLease'
<1> USE ElectionAssumption, Bounds
        DEF HeartbeatInv, TypeOK, LeaseBehindClock, CallsAfterLease
<1>1. CASE \E n \in Node : Tick(n)
    <2>1. PICK n \in Node : Tick(n)
        BY <1>1
    <2>2. \A m \in Node : clock[m] \in Nat /\ clock'[m] \in Nat
                         /\ clock[m] <= clock'[m]
        BY <2>1 DEF Tick
    <2>3. UNCHANGED <<leaders, last_heartbeat, calls, overtaken>>
        BY <2>1 DEF Tick, leaseVars
    <2> QED BY <2>2, <2>3
<1>2. CASE \E n \in Node, s \in Shard, op \in {"acquire", "heartbeat"} :
            Stamp(op, n, s)
    <2>1. PICK n \in Node, s \in Shard, op \in {"acquire", "heartbeat"} :
                Stamp(op, n, s)
        BY <1>2
    <2>2. UNCHANGED <<leaders, last_heartbeat, clock, overtaken>>
        BY <2>1 DEF Stamp, leaseVars
    <2>3. \A c \in calls' : c \in calls
                \/ (c.node = n /\ c.shard = s /\ c.at = clock[n])
        BY <2>1 DEF Stamp
    <2>4. leaders[s] = n => last_heartbeat[s] <= clock[n]
        OBVIOUS
    <2> QED BY <2>2, <2>3, <2>4
<1>3. CASE \E c \in calls : AcquireGranted(c) \/ HeartbeatApplied(c)
    <2>1. PICK c \in calls : AcquireGranted(c) \/ HeartbeatApplied(c)
        BY <1>3
    <2>2. c.shard \in Shard /\ c.node \in Node /\ c.at \in Nat
          /\ c.at <= clock[c.node]
        BY DEF Call, StampsBehindClocks
    <2>3. /\ last_heartbeat' = [last_heartbeat EXCEPT ![c.shard] = c.at]
          /\ leaders' = [leaders EXCEPT ![c.shard] = c.node]
          /\ clock' = clock
          /\ Overtake(c)
        BY <2>1, <2>2 DEF AcquireGranted, HeartbeatApplied, MayHeartbeat
    <2>4. \A d \in calls' :
            /\ d \in calls /\ d.shard \in Shard /\ d.node \in Node /\ d.at \in Nat
            /\ d \in overtaken => d \in overtaken'
            /\ d.node = c.node /\ d.shard = c.shard /\ d.at < c.at => d \in overtaken'
        BY <2>3 DEF Call
    <2>5. LeaseBehindClock'
        BY <2>2, <2>3
    <2>6. CallsAfterLease'
        <3>1. SUFFICES ASSUME NEW d \in calls', leaders'[d.shard] = d.node
                       PROVE  last_heartbeat'[d.shard] <= d.at \/ d \in overtaken'
            BY DEF CallsAfterLease
        <3>2. CASE d.shard = c.shard
            <4>1. last_heartbeat'[d.shard] = c.at /\ d.node = c.node
                BY <2>2, <2>3, <3>1, <3>2
            <4> QED BY <2>2, <2>4, <3>2, <4>1
        <3>3. CASE d.shard # c.shard
            <4>1. /\ last_heartbeat'[d.shard] = last_heartbeat[d.shard]
                  /\ leaders[d.shard] = d.node
                BY <2>2, <2>3, <2>4, <3>1, <3>3
            <4> QED BY <2>4, <4>1
        <3> QED BY <3>2, <3>3
    <2> QED BY <2>5, <2>6
<1>4. CASE \E n \in Node, s \in Shard : Relinquish(n, s)
    <2>1. PICK n \in Node, s \in Shard : Relinquish(n, s)
        BY <1>4
    <2>2. UNCHANGED <<clock, calls, overtaken>>
          /\ \A t \in Shard : \/ leaders'[t] = NoNode
                              \/ /\ leaders'[t] = leaders[t]
                                 /\ last_heartbeat'[t] = last_heartbeat[t]
        BY <2>1 DEF Relinquish, ClearLease
    <2>3. LeaseBehindClock'
        BY <2>2
    <2>4. \A c \in calls : c.shard \in Shard /\ c.node # NoNode
        BY DEF Call
    <2>5. CallsAfterLease'
        BY <2>2, <2>4
    <2> QED BY <2>3, <2>5
<1>5. CASE \E n \in Node, a \in Attestation : ForceRelinquish(n, a)
    <2>1. PICK n \in Node, a \in Attestation : ForceRelinquish(n, a)
        BY <1>5
    <2>2. UNCHANGED <<clock, calls, overtaken>>
          /\ \A t \in Shard : \/ leaders'[t] = NoNode
                              \/ /\ leaders'[t] = leaders[t]
                                 /\ last_heartbeat'[t] = last_heartbeat[t]
        BY <2>1 DEF ForceRelinquish, ClearLease
    <2>3. LeaseBehindClock'
        BY <2>2
    <2>4. \A c \in calls : c.shard \in Shard /\ c.node # NoNode
        BY DEF Call
    <2>5. CallsAfterLease'
        BY <2>2, <2>4
    <2> QED BY <2>3, <2>5
<1>6. CASE /\ UNCHANGED <<clock, leaders, last_heartbeat>>
           /\ calls' \subseteq calls
           /\ \A c \in calls' : c \in overtaken => c \in overtaken'
    BY <1>6
<1> QED
    BY Steps, <1>1, <1>2, <1>3, <1>4, <1>5, <1>6
       DEF AcquireRefused, HeartbeatRefused, SubmitChecked, AppendWalEntry,
           ConsumeNonce, Kill, Revive, Restart, vars, leaseVars, nonceVars

\* The invariant behind HeartbeatExtendsLease.
THEOREM HeartbeatInvariant == Spec => []HeartbeatInv
<1>1. Init => HeartbeatInv
    BY ElectionAssumption, Bounds
       DEF Init, HeartbeatInv, TypeOK, StampsBehindClocks, LeaseBehindClock,
           CallsAfterLease
<1>2. ElectionInv /\ HeartbeatInv /\ [Next]_vars => HeartbeatInv'
    BY TypeStep, ClockStep, LeaseStampStep DEF HeartbeatInv, ElectionInv
<1> QED BY <1>1, <1>2, ElectionInvariant, PTL DEF Spec

\* While a node leads, the stamp its lease counts from falls only when a
\* heartbeat or a renewing try_acquire_leader of that node takes effect after
\* one that was stamped later, however many calls are under way.
THEOREM HeartbeatsExtendLeases == Spec => HeartbeatExtendsLease
<1>1. HeartbeatInv /\ [Next]_vars =>
        [\A s \in Shard :
            (/\ leaders[s] # NoNode /\ leaders'[s] = leaders[s]
             /\ last_heartbeat'[s] < last_heartbeat[s]) =>
                \E c \in overtaken \ calls' : c.node = leaders[s] /\ c.shard = s
          ]_last_heartbeat
    <2> USE ElectionAssumption, Bounds DEF HeartbeatInv, TypeOK
    <2>1. SUFFICES ASSUME HeartbeatInv, [Next]_vars, NEW s \in Shard,
                          leaders[s] # NoNode, leaders'[s] = leaders[s],
                          last_heartbeat'[s] < last_heartbeat[s]
                   PROVE  \E c \in overtaken \ calls' :
                                c.node = leaders[s] /\ c.shard = s
        OBVIOUS
    <2>n. last_heartbeat[s] \in Nat
        BY <2>1
    <2>2. CASE \E c \in calls : AcquireGranted(c) \/ HeartbeatApplied(c)
        <3>1. PICK c \in calls : AcquireGranted(c) \/ HeartbeatApplied(c)
            BY <2>2
        <3>2. c.shard \in Shard /\ c.node \in Node /\ c.at \in Nat
            BY <2>1 DEF Call
        <3>3. /\ last_heartbeat' = [last_heartbeat EXCEPT ![c.shard] = c.at]
              /\ leaders' = [leaders EXCEPT ![c.shard] = c.node]
              /\ c \notin calls'
            BY <2>1, <3>1, <3>2
               DEF AcquireGranted, HeartbeatApplied, MayHeartbeat
        <3>4. leaders[c.shard] = c.node =>
                last_heartbeat[c.shard] <= c.at \/ c \in overtaken
            BY <2>1 DEF CallsAfterLease
        <3>5. c.shard = s /\ c.node = leaders[s] /\ last_heartbeat'[s] = c.at
            BY <2>1, <2>n, <3>2, <3>3
        <3> QED BY <2>1, <2>n, <3>2, <3>3, <3>4, <3>5
    <2>3. CASE \E n \in Node, t \in Shard : Relinquish(n, t)
        BY <2>1, <2>3, <2>n DEF Relinquish, ClearLease
    <2>4. CASE \E n \in Node, a \in Attestation : ForceRelinquish(n, a)
        BY <2>1, <2>4, <2>n DEF ForceRelinquish, ClearLease
    <2>5. CASE UNCHANGED last_heartbeat
        BY <2>1, <2>5, <2>n
    <2> QED
        BY <2>1, Steps, <2>2, <2>3, <2>4, <2>5
           DEF Tick, Stamp, AcquireRefused, HeartbeatRefused, SubmitChecked,
               AppendWalEntry, ConsumeNonce, Kill, Revive, Restart, vars,
               leaseVars
<1> QED BY <1>1, HeartbeatInvariant, PTL DEF Spec, HeartbeatExtendsLease

-----------------------------------------------------------------------------
\* Where all nodes share one nonce tracker, a consumed nonce is remembered: the
\* memory of the tracker is lost with a restart and read back from the records.
LEMMA NonceStep ==
    ASSUME NEW k, Tracker = {k}, NonceInv, [Next]_vars
    PROVE  NonceSingleUse' /\ ConsumedIsRemembered'
<1> USE DEF NonceInv, NonceSingleUse, ConsumedIsRemembered
<1>1. CASE \E n \in Node, j \in Tracker, a \in Attestation :
            ConsumeNonce(n, j, a)
    <2>1. PICK n \in Node, a \in Attestation : ConsumeNonce(n, k, a)
        BY <1>1
    <2>2. consumed[a] = 0
        BY <2>1 DEF ConsumeNonce, TypeOK
    <2>3. /\ consumed' = [consumed EXCEPT ![a] = 1]
          /\ nonces' = nonces \cup {a}
          /\ used' = [used EXCEPT ![k] = @ \cup {a}]
        BY <2>1, <2>2 DEF ConsumeNonce, TypeOK
    <2> QED BY <2>3 DEF TypeOK
<1>2. CASE \E n \in Node, j \in Tracker : Restart(n, j)
    <2>1. consumed' = consumed /\ nonces' = nonces
          /\ used' = [used EXCEPT ![k] = nonces]
        BY <1>2 DEF Restart, Replay
    <2> QED BY <2>1 DEF TypeOK
<1>3. CASE UNCHANGED nonceVars
    BY <1>3 DEF nonceVars
<1> QED
    BY Steps, <1>1, <1>2, <1>3
       DEF NonceInv, Tick, Stamp, AcquireGranted, AcquireRefused,
           HeartbeatApplied, HeartbeatRefused, Relinquish, SubmitChecked,
           AppendWalEntry, ForceRelinquish, Kill, Revive, vars

\* A governance nonce takes effect once, whatever restarts in between, where
\* the nodes share one NonceTracker (with a tracker per node a nonce can be
\* consumed once at each).
THEOREM NoncesAreSingleUse ==
    ASSUME NEW k, Tracker = {k}
    PROVE  Spec => []NonceSingleUse
<1>1. Init => NonceInv
    BY ElectionAssumption, Bounds
       DEF Init, NonceInv, TypeOK, NonceSingleUse, ConsumedIsRemembered
<1>2. NonceInv /\ [Next]_vars => NonceInv'
    BY TypeStep, NonceStep DEF NonceInv
<1>3. NonceInv => NonceSingleUse
    BY DEF NonceInv
<1> QED BY <1>1, <1>2, <1>3, PTL DEF Spec
=============================================================================
