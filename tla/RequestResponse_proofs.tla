----------------------- MODULE RequestResponse_proofs -----------------------
(***************************************************************************)
(* Machine-checked proofs about RequestResponse: the registry and the      *)
(* channels agree, a channel keeps its first reply, and a reply that was   *)
(* delivered or a channel that was closed is accounted for, for any calls, *)
(* ids, senders, timeouts and number of replies.                           *)
(***************************************************************************)
EXTENDS RequestResponse, TLAPS

\* A call gives up: what CancelUnsent and CancelElapsed have in common.
GiveUp(c) ==
    /\ pc[c] \in {"cancelling", "sweeping"}
    /\ Cancel(IdOf[c])
    /\ \/ /\ pc[c] = "cancelling"
          /\ Return(c, "SenderError") \/ Return(c, "Unsupported")
       \/ pc[c] = "sweeping" /\ Return(c, "TimedOut")
    /\ UNCHANGED <<now, sender, on_wire, last_err, reply, deadline, netVars,
                   accepted_in, swept_at>>

\* The steps of the system, one disjunct per operation.
LEMMA Steps ==
    ASSUME [Next]_vars
    PROVE
        \/ \E c \in Call : Begin(c, "sending") \/ Begin(c, "holding")
        \/ \E c \in Call : SkipSender(c)
        \/ \E c \in Call : Transmit(c)
        \/ \E c \in Call : SenderFails(c)
        \/ \E c \in Call : SenderAccepts(c)
        \/ \E c \in Call : SenderAnswers(c)
        \/ \E c \in Call : CompleteSync(c)
        \/ \E c \in Call : NotSent(c)
        \/ \E c \in Call : GiveUp(c)
        \/ \E c \in Call : Receive(c)
        \/ \E c \in Call : Elapse(c)
        \/ \E c \in Call : DropReceiver(c)
        \/ \E c \in Call : DropCall(c)
        \/ \E id \in Id : DispatchResponse(id)
        \/ EvictExpired
        \/ Pass
        \/ UNCHANGED vars
<1>1. ASSUME NEW c \in Call, CancelUnsent(c) \/ CancelElapsed(c)
      PROVE  GiveUp(c)
    BY <1>1 DEF CancelUnsent, CancelElapsed, GiveUp
<1> QED BY <1>1 DEF Next, CallStep

-----------------------------------------------------------------------------
(* Typing *)

ChanState == {Unused, Open, Closed} \cup {Holding(r) : r \in Reply}

\* The states of a channel are told apart by is.
LEMMA Channels ==
    /\ Unused.is = "none" /\ Open.is = "open" /\ Closed.is = "closed"
    /\ \A r : Holding(r).is = "reply"
    BY DEF Unused, Open, Closed, Holding

LEMMA Numbers ==
    /\ NSenders \in Nat /\ Timeout \in Nat /\ SweepAge \in Nat /\ SweepAge > 0
    /\ MaxReplies \in Nat /\ LastSend \in Nat /\ MaxTime \in Nat
    /\ MaxTime = LastSend + Timeout
    /\ \A c \in Call : IdOf[c] \in Id /\ c # NoCall
    BY RequestAssumption DEF MaxTime

LEMMA CompleteType ==
    ASSUME TypeOK, NEW id \in Id, NEW r \in Reply, Complete(id, r)
    PROVE  /\ by_id' \in [Id -> Call \cup {NoCall}]
           /\ chan' \in [Call -> ChanState]
           /\ accepted_in' \in [Call -> Place]
<1>1. /\ by_id \in [Id -> Call \cup {NoCall}] /\ chan \in [Call -> ChanState]
      /\ accepted_in \in [Call -> Place] /\ pc \in [Call -> Place]
    BY DEF TypeOK, ChanState
<1>2. Holding(r) \in ChanState
    BY DEF ChanState
<1>3. by_id' \in [Id -> Call \cup {NoCall}]
    BY <1>1 DEF Complete
<1>4. CASE by_id[id] # NoCall /\ HoldsReceiver(by_id[id])
    <2>1. by_id[id] \in Call
        BY <1>1, <1>4
    <2> QED BY <1>1, <1>2, <1>3, <1>4, <2>1 DEF Complete
<1>5. CASE ~(by_id[id] # NoCall /\ HoldsReceiver(by_id[id]))
    BY <1>1, <1>3, <1>5 DEF Complete
<1> QED BY <1>4, <1>5

LEMMA DropType ==
    ASSUME TypeOK, NEW ids, Drop(ids)
    PROVE  by_id' \in [Id -> Call \cup {NoCall}] /\ chan' \in [Call -> ChanState]
<1>1. by_id \in [Id -> Call \cup {NoCall}] /\ chan \in [Call -> ChanState]
    BY DEF TypeOK, ChanState
<1>2. Closed \in ChanState
    BY DEF ChanState
<1> HIDE DEF ChanState
<1> QED BY <1>1, <1>2 DEF Drop

\* A call that waits set its timer in time.
LEMMA AwaitType ==
    ASSUME TypeOK, NEW c \in Call, now <= LastSend, Await(c)
    PROVE  pc' \in [Call -> Place] /\ deadline' \in [Call -> 0 .. MaxTime]
<1>1. now \in 0 .. MaxTime /\ pc \in [Call -> Place] /\ deadline \in [Call -> 0 .. MaxTime]
    BY DEF TypeOK
<1>2. now + Timeout \in 0 .. MaxTime
    BY <1>1, Numbers
<1> QED BY <1>1, <1>2 DEF Await, Place

LEMMA TypeStep ==
    ASSUME TypeOK, SendingInTime, [Next]_vars
    PROVE  TypeOK'
<1> USE DEF registry, netVars, callVars
<1>t. /\ pc \in [Call -> Place] /\ sender \in [Call -> 1 .. NSenders + 1]
      /\ on_wire \in [Call -> BOOLEAN] /\ last_err \in [Call -> BOOLEAN]
      /\ reply \in [Call -> Reply \cup {NoReply}]
      /\ result \in [Call -> Failure \cup {"none", "dropped", "reply"}]
      /\ now \in 0 .. MaxTime /\ registered_at \in [Call -> 0 .. MaxTime]
      /\ swept_at \in [Call -> 0 .. MaxTime] /\ replies \in 0 .. MaxReplies
      /\ by_id \in [Id -> Call \cup {NoCall}] /\ chan \in [Call -> ChanState]
    BY DEF TypeOK, ChanState
<1>1. ASSUME NEW c \in Call, NEW place \in {"sending", "holding"}, Begin(c, place)
      PROVE  TypeOK'
    <2>1. CASE Registered(IdOf[c])
        <3>1. pc' \in [Call -> Place]
            BY <1>1, <1>t, <2>1 DEF Begin, Return, Place
        <3>2. result' \in [Call -> Failure \cup {"none", "dropped", "reply"}]
            BY <1>1, <1>t, <2>1 DEF Begin, Return, Failure
        <3> QED BY <1>1, <2>1, <3>1, <3>2 DEF Begin, TypeOK
    <2>2. CASE ~Registered(IdOf[c])
        <3>1. pc' \in [Call -> Place]
            BY <1>1, <1>t, <2>2 DEF Begin, Place
        <3>2. by_id' \in [Id -> Call \cup {NoCall}]
            BY <1>1, <1>t, <2>2 DEF Begin, Register
        <3>3. registered_at' \in [Call -> 0 .. MaxTime]
            BY <1>1, <1>t, <2>2 DEF Begin, Register
        <3>4. chan' \in [Call -> ChanState]
            BY <1>1, <1>t, <2>2 DEF Begin, Register, ChanState
        <3> QED BY <1>1, <2>2, <3>1, <3>2, <3>3, <3>4 DEF Begin, TypeOK, ChanState
    <2> QED BY <2>1, <2>2
<1>n. ASSUME NEW c \in Call, Trying(c), NextSender(c)
      PROVE  sender' \in [Call -> 1 .. NSenders + 1] /\ on_wire' \in [Call -> BOOLEAN]
    <2>1. sender[c] + 1 \in 1 .. NSenders + 1
        BY <1>t, <1>n, Numbers DEF Trying
    <2> QED BY <1>t, <1>n, <2>1 DEF NextSender
<1>2. ASSUME NEW c \in Call, SkipSender(c) PROVE TypeOK'
    <2>1. sender' \in [Call -> 1 .. NSenders + 1] /\ on_wire' \in [Call -> BOOLEAN]
        BY <1>2, <1>n DEF SkipSender
    <2> QED BY <1>2, <2>1 DEF SkipSender, TypeOK
<1>3. ASSUME NEW c \in Call, Transmit(c) PROVE TypeOK'
    <2>1. on_wire' \in [Call -> BOOLEAN] /\ requested' \subseteq Id
        BY <1>3, Numbers DEF Transmit, TypeOK
    <2> QED BY <1>3, <2>1 DEF Transmit, TypeOK
<1>4. ASSUME NEW c \in Call, SenderFails(c) PROVE TypeOK'
    <2>1. sender' \in [Call -> 1 .. NSenders + 1] /\ on_wire' \in [Call -> BOOLEAN]
        BY <1>4, <1>n DEF SenderFails
    <2>2. last_err' \in [Call -> BOOLEAN]
        BY <1>4, <1>t DEF SenderFails
    <2> QED BY <1>4, <2>1, <2>2 DEF SenderFails, TypeOK
<1>5. ASSUME NEW c \in Call, SenderAccepts(c) PROVE TypeOK'
    <2>1. pc' \in [Call -> Place] /\ deadline' \in [Call -> 0 .. MaxTime]
        BY <1>5, AwaitType DEF SenderAccepts, Trying, SendingInTime
    <2> QED BY <1>5, <2>1 DEF SenderAccepts, TypeOK
<1>6. ASSUME NEW c \in Call, SenderAnswers(c) PROVE TypeOK'
    <2>1. replies + 1 \in 1 .. MaxReplies
        BY <1>t, <1>6, Numbers DEF SenderAnswers
    <2>2. [id |-> IdOf[c], n |-> replies + 1] \in Reply
        BY <2>1, Numbers DEF Reply
    <2>3. reply' \in [Call -> Reply \cup {NoReply}]
        BY <1>t, <1>6, <2>2 DEF SenderAnswers
    <2>4. pc' \in [Call -> Place] /\ replies' \in 0 .. MaxReplies
        BY <1>t, <1>6, <2>1, Numbers DEF SenderAnswers, Place
    <2> QED BY <1>6, <2>3, <2>4 DEF SenderAnswers, TypeOK
<1>7. ASSUME NEW c \in Call, CompleteSync(c) PROVE TypeOK'
    <2>1. reply[c] \in Reply /\ now <= LastSend
        BY <1>7 DEF CompleteSync, SendingInTime
    <2>2. pc' \in [Call -> Place] /\ deadline' \in [Call -> 0 .. MaxTime]
        BY <1>7, <2>1, AwaitType DEF CompleteSync
    <2>3. /\ by_id' \in [Id -> Call \cup {NoCall}]
          /\ chan' \in [Call -> ChanState]
          /\ accepted_in' \in [Call -> Place]
        BY <1>7, <2>1, Numbers, CompleteType DEF CompleteSync
    <2>4. reply' \in [Call -> Reply \cup {NoReply}]
        BY <1>t, <1>7 DEF CompleteSync
    <2> QED BY <1>7, <2>2, <2>3, <2>4 DEF CompleteSync, Complete, TypeOK, ChanState
<1>8. ASSUME NEW c \in Call, NotSent(c) \/ Elapse(c) \/ DropReceiver(c) PROVE TypeOK'
    <2>1. pc' \in [Call -> Place]
        BY <1>t, <1>8 DEF NotSent, Elapse, DropReceiver, Place
    <2> QED BY <1>8, <2>1 DEF NotSent, Elapse, DropReceiver, TypeOK
<1>r. ASSUME NEW c \in Call, NEW what \in Failure \cup {"none", "dropped", "reply"},
             Return(c, what)
      PROVE  /\ pc' \in [Call -> Place]
             /\ result' \in [Call -> Failure \cup {"none", "dropped", "reply"}]
    BY <1>t, <1>r DEF Return, Place
<1>9. ASSUME NEW c \in Call, GiveUp(c) PROVE TypeOK'
    <2>1. /\ pc' \in [Call -> Place]
          /\ result' \in [Call -> Failure \cup {"none", "dropped", "reply"}]
        BY <1>9, <1>r DEF GiveUp, Failure
    <2>2. by_id' \in [Id -> Call \cup {NoCall}] /\ chan' \in [Call -> ChanState]
        BY <1>9, DropType DEF GiveUp, Cancel
    <2> QED BY <1>9, <2>1, <2>2 DEF GiveUp, Cancel, Drop, TypeOK, ChanState
<1>10. ASSUME NEW c \in Call, Receive(c) \/ DropCall(c) PROVE TypeOK'
    <2>1. /\ pc' \in [Call -> Place]
          /\ result' \in [Call -> Failure \cup {"none", "dropped", "reply"}]
        BY <1>10, <1>r DEF Receive, DropCall, Failure
    <2> QED BY <1>10, <2>1 DEF Receive, DropCall, TypeOK
<1>11. ASSUME NEW id \in Id, DispatchResponse(id) PROVE TypeOK'
    <2>1. replies + 1 \in 1 .. MaxReplies
        BY <1>t, <1>11, Numbers DEF DispatchResponse
    <2>2. [id |-> id, n |-> replies + 1] \in Reply
        BY <2>1 DEF Reply
    <2>3. /\ by_id' \in [Id -> Call \cup {NoCall}]
          /\ chan' \in [Call -> ChanState]
          /\ accepted_in' \in [Call -> Place]
        BY <1>11, <2>2, CompleteType DEF DispatchResponse
    <2>4. replies' \in 0 .. MaxReplies
        BY <1>t, <1>11, <2>1, Numbers DEF DispatchResponse
    <2> QED BY <1>11, <2>3, <2>4 DEF DispatchResponse, Complete, TypeOK, ChanState
<1>12. CASE EvictExpired
    <2>1. by_id' \in [Id -> Call \cup {NoCall}] /\ chan' \in [Call -> ChanState]
        BY <1>12, DropType DEF EvictExpired
    <2>2. swept_at' \in [Call -> 0 .. MaxTime]
        BY <1>t, <1>12 DEF EvictExpired
    <2> QED BY <1>12, <2>1, <2>2 DEF EvictExpired, Drop, TypeOK, ChanState
<1>13. CASE Pass
    <2>1. now' \in 0 .. MaxTime
        BY <1>t, <1>13, Numbers DEF Pass
    <2> QED BY <1>13, <2>1 DEF Pass, TypeOK
<1>14. CASE UNCHANGED vars
    BY <1>14 DEF vars, TypeOK
<1> QED BY Steps, <1>1, <1>2, <1>3, <1>4, <1>5, <1>6, <1>7, <1>8, <1>9, <1>10, <1>11,
           <1>12, <1>13, <1>14

LEMMA SendingStep ==
    ASSUME TypeOK, TypeOK', SendingInTime, [Next]_vars
    PROVE  SendingInTime'
<1> USE DEF registry, netVars, callVars
<1>t. /\ pc \in [Call -> Place] /\ reply \in [Call -> Reply \cup {NoReply}]
      /\ now \in Nat /\ LastSend \in Nat
    BY Numbers DEF TypeOK
<1>q. ASSUME now' = now, NEW c \in Call,
             \A d \in Call \ {c} : pc'[d] = pc[d] /\ reply'[d] = reply[d],
             pc'[c] \in {"sending", "completing"} => now <= LastSend,
             pc'[c] = "completing" => reply'[c] \in Reply
      PROVE  SendingInTime'
    BY <1>q DEF SendingInTime
<1>1. ASSUME NEW c \in Call, Begin(c, "sending") \/ Begin(c, "holding")
      PROVE  SendingInTime'
    <2>1. /\ now' = now /\ now < LastSend /\ reply' = reply
          /\ pc'[c] \in {"sending", "holding", "done"}
          /\ \A d \in Call \ {c} : pc'[d] = pc[d]
        BY <1>1, <1>t DEF Begin, Return
    <2> QED BY <1>q, <1>t, <2>1
<1>2. ASSUME NEW c \in Call, SenderAnswers(c) PROVE SendingInTime'
    <2>1. replies + 1 \in 1 .. MaxReplies
        BY <1>2, Numbers DEF SenderAnswers, TypeOK
    <2>2. [id |-> IdOf[c], n |-> replies + 1] \in Reply
        BY <2>1, Numbers DEF Reply
    <2>3. /\ now' = now /\ pc[c] = "sending" /\ pc'[c] = "completing"
          /\ reply'[c] \in Reply
          /\ \A d \in Call \ {c} : pc'[d] = pc[d] /\ reply'[d] = reply[d]
        BY <1>2, <1>t, <2>2 DEF SenderAnswers, Trying
    <2> QED BY <1>q, <2>3 DEF SendingInTime
<1>3. ASSUME NEW c \in Call, SenderAccepts(c) \/ CompleteSync(c) PROVE SendingInTime'
    <2>1. /\ now' = now /\ pc'[c] = "awaiting"
          /\ \A d \in Call \ {c} : pc'[d] = pc[d] /\ reply'[d] = reply[d]
        BY <1>3, <1>t DEF SenderAccepts, CompleteSync, Await
    <2> QED BY <1>q, <2>1
<1>4. ASSUME NEW c \in Call, NotSent(c) \/ Elapse(c) \/ DropReceiver(c)
      PROVE  SendingInTime'
    <2>1. /\ now' = now /\ reply' = reply
          /\ pc'[c] \in {"cancelling", "elapsed", "sweeping"}
          /\ \A d \in Call \ {c} : pc'[d] = pc[d]
        BY <1>4, <1>t DEF NotSent, Elapse, DropReceiver
    <2> QED BY <1>q, <2>1
<1>5. ASSUME NEW c \in Call, GiveUp(c) \/ Receive(c) \/ DropCall(c) PROVE SendingInTime'
    <2>1. /\ now' = now /\ reply' = reply /\ pc'[c] = "done"
          /\ \A d \in Call \ {c} : pc'[d] = pc[d]
        BY <1>5, <1>t DEF GiveUp, Receive, DropCall, Return
    <2> QED BY <1>q, <2>1
<1>6. CASE Pass
    <2>1. /\ now' = now + 1 /\ UNCHANGED <<pc, reply>>
          /\ now < LastSend \/ \A c \in Call : pc[c] \notin {"sending", "completing"}
        BY <1>6 DEF Pass
    <2> QED BY <1>t, <2>1 DEF SendingInTime
<1>7. CASE UNCHANGED <<now, pc, reply>>
    BY <1>7 DEF SendingInTime
<1> QED BY Steps, <1>1, <1>2, <1>3, <1>4, <1>5, <1>6, <1>7
        DEF SkipSender, Transmit, SenderFails, DispatchResponse, EvictExpired, vars

-----------------------------------------------------------------------------
(* The registry, the channels and the calls *)

\* What the invariant says of one call.
Fits(c) == PlaceFits(c) /\ AcceptedFits(c) /\ ClosedFits(c)

Agree == EntriesAreOpen /\ \A c \in Call : Fits(c)

\* A step of call c that leaves the registry and the channels alone.
Quiet(c) ==
    /\ UNCHANGED <<by_id, registered_at, chan, accepted_in, swept_at>>
    /\ \A d \in Call \ {c} : pc'[d] = pc[d] /\ result'[d] = result[d]
    /\ pc[c] # "done" /\ pc'[c] # "idle"
    /\ HoldsReceiver(c)' => HoldsReceiver(c)
    /\ result'[c] = "none" <=> pc'[c] # "done"
    /\ pc'[c] = "done" => result'[c] = "dropped" \/ chan[c].is # "open"
    /\ result'[c] = "Closed" => chan[c].is = "closed"
    /\ chan[c].is = "reply" =>
        /\ pc'[c] \notin {"sending", "cancelling", "elapsed", "sweeping"} \/ AcceptedFits(c)'
        /\ pc'[c] = "done" => result'[c] \in {"reply", "dropped"}

LEMMA QuietStep ==
    ASSUME TypeOK, Agree, NEW c \in Call, Quiet(c)
    PROVE  Agree'
<1>0. /\ \A d \in Call : IdOf[d] \in Id /\ d # NoCall
      /\ UNCHANGED <<by_id, registered_at, chan, accepted_in, swept_at>>
      /\ \A d \in Call \ {c} : pc'[d] = pc[d] /\ result'[d] = result[d]
    BY Numbers DEF Quiet
<1>1. EntriesAreOpen'
    <2>1. \A d \in Call : HoldsReceiver(d)' => HoldsReceiver(d)
        BY <1>0 DEF Quiet, HoldsReceiver
    <2> QED BY <1>0, <2>1 DEF Agree, EntriesAreOpen, Registered
<1>2. PlaceFits(c)'
    <2>1. chan[c].is # "open" => by_id[IdOf[c]] # c
        BY <1>0 DEF Agree, EntriesAreOpen, Registered
    <2> QED BY <1>0, <2>1 DEF Quiet, PlaceFits
<1>3. AcceptedFits(c)'
    BY DEF Quiet, AcceptedFits
<1>4. result[c] = "none"
    BY DEF Agree, Fits, PlaceFits, Quiet
<1>5. \A d \in Call : ClosedFits(d)'
    <2>1. \A d \in Call : result[d] \in GaveUp => d # c /\ result'[d] = result[d]
        BY <1>0, <1>4 DEF GaveUp
    <2> QED BY <1>0, <2>1 DEF Agree, Fits, ClosedFits
<1>6. \A d \in Call \ {c} : PlaceFits(d)' /\ AcceptedFits(d)'
    BY <1>0 DEF Agree, Fits, PlaceFits, AcceptedFits
<1> QED BY <1>1, <1>2, <1>3, <1>5, <1>6 DEF Agree, Fits

\* The steps of a call that touch neither.
LEMMA QuietSteps ==
    ASSUME TypeOK, Agree, NEW c \in Call,
           \/ SkipSender(c) \/ Transmit(c) \/ SenderFails(c)
           \/ SenderAccepts(c) \/ SenderAnswers(c) \/ NotSent(c)
           \/ Receive(c) \/ Elapse(c) \/ DropReceiver(c) \/ DropCall(c)
    PROVE  Agree'
<1> USE DEF registry, netVars, callVars
<1>t. pc \in [Call -> Place] /\ result \in [Call -> Failure \cup {"none", "dropped", "reply"}]
    BY DEF TypeOK
<1>f. PlaceFits(c) /\ AcceptedFits(c)
    BY DEF Agree, Fits
<1>1. CASE SkipSender(c) \/ Transmit(c) \/ SenderFails(c)
    <2>1. /\ UNCHANGED <<by_id, registered_at, chan, accepted_in, swept_at, pc, result>>
          /\ pc[c] = "sending"
        BY <1>1 DEF SkipSender, Transmit, SenderFails, Trying
    <2>2. AcceptedFits(c)'
        BY <1>f, <2>1 DEF AcceptedFits
    <2>3. Quiet(c)
        BY <1>f, <2>1, <2>2 DEF Quiet, HoldsReceiver, PlaceFits
    <2> QED BY <2>3, QuietStep
<1>2. CASE SenderAccepts(c) \/ SenderAnswers(c) \/ NotSent(c)
    <2>1. /\ UNCHANGED <<by_id, registered_at, chan, accepted_in, swept_at, result>>
          /\ pc[c] = "sending" /\ pc'[c] \in {"awaiting", "completing", "cancelling"}
          /\ \A d \in Call \ {c} : pc'[d] = pc[d]
        BY <1>2, <1>t DEF SenderAccepts, SenderAnswers, NotSent, Trying, Await
    <2>2. AcceptedFits(c)'
        BY <1>f, <2>1 DEF AcceptedFits
    <2>3. Quiet(c)
        BY <1>f, <2>1, <2>2 DEF Quiet, HoldsReceiver, PlaceFits
    <2> QED BY <2>3, QuietStep
<1>3. CASE Receive(c)
    <2>1. /\ UNCHANGED <<by_id, registered_at, chan, accepted_in, swept_at>>
          /\ pc[c] \in {"awaiting", "holding"} /\ pc'[c] = "done"
          /\ \/ chan[c].is = "reply" /\ result'[c] = "reply"
             \/ chan[c].is = "closed" /\ result'[c] = "Closed"
          /\ \A d \in Call \ {c} : pc'[d] = pc[d] /\ result'[d] = result[d]
        BY <1>3, <1>t DEF Receive, Return
    <2>2. Quiet(c)
        BY <2>1 DEF Quiet, HoldsReceiver
    <2> QED BY <2>2, QuietStep
<1>4. CASE Elapse(c)
    <2>1. /\ UNCHANGED <<by_id, registered_at, chan, accepted_in, swept_at, result>>
          /\ pc[c] = "awaiting" /\ pc'[c] = "elapsed" /\ chan[c].is = "open"
          /\ \A d \in Call \ {c} : pc'[d] = pc[d]
        BY <1>4, <1>t DEF Elapse, Ripe
    <2>2. Quiet(c)
        BY <1>f, <2>1 DEF Quiet, HoldsReceiver, PlaceFits
    <2> QED BY <2>2, QuietStep
<1>5. CASE DropReceiver(c)
    <2>1. /\ UNCHANGED <<by_id, registered_at, chan, accepted_in, swept_at, result>>
          /\ pc[c] = "elapsed" /\ pc'[c] = "sweeping"
          /\ \A d \in Call \ {c} : pc'[d] = pc[d]
        BY <1>5, <1>t DEF DropReceiver
    <2>2. AcceptedFits(c)'
        BY <1>f, <2>1 DEF AcceptedFits
    <2>3. Quiet(c)
        BY <1>f, <2>1, <2>2 DEF Quiet, HoldsReceiver, PlaceFits
    <2> QED BY <2>3, QuietStep
<1>6. CASE DropCall(c)
    <2>1. /\ UNCHANGED <<by_id, registered_at, chan, accepted_in, swept_at>>
          /\ pc[c] # "done" /\ pc'[c] = "done" /\ result'[c] = "dropped"
          /\ \A d \in Call \ {c} : pc'[d] = pc[d] /\ result'[d] = result[d]
        BY <1>6, <1>t DEF DropCall, Return
    <2>2. Quiet(c)
        BY <2>1 DEF Quiet, HoldsReceiver
    <2> QED BY <2>2, QuietStep
<1> QED BY <1>1, <1>2, <1>3, <1>4, <1>5, <1>6

\* A call registers, or finds its id taken.
LEMMA BeginStep ==
    ASSUME TypeOK, Agree, NEW c \in Call, NEW place \in {"sending", "holding"},
           Begin(c, place)
    PROVE  Agree'
<1>t. /\ pc \in [Call -> Place] /\ by_id \in [Id -> Call \cup {NoCall}]
      /\ result \in [Call -> Failure \cup {"none", "dropped", "reply"}]
      /\ DOMAIN chan = Call /\ DOMAIN registered_at = Call
      /\ IdOf[c] \in Id /\ c # NoCall
    BY Numbers DEF TypeOK
<1>f. chan[c].is = "none" /\ pc[c] = "idle"
    BY DEF Agree, Fits, PlaceFits, Begin
<1>1. CASE Registered(IdOf[c])
    <2>1. /\ UNCHANGED <<by_id, registered_at, chan, accepted_in, swept_at>>
          /\ pc'[c] = "done" /\ result'[c] = "AlreadyRegistered"
          /\ \A d \in Call \ {c} : pc'[d] = pc[d] /\ result'[d] = result[d]
        BY <1>1, <1>t DEF Begin, Return, registry
    <2>2. Quiet(c)
        BY <1>f, <2>1 DEF Quiet, HoldsReceiver
    <2> QED BY <2>2, QuietStep
<1>2. CASE ~Registered(IdOf[c])
    <2>1. /\ by_id[IdOf[c]] = NoCall
          /\ by_id' = [by_id EXCEPT ![IdOf[c]] = c]
          /\ chan'[c] = Open /\ pc'[c] = place
          /\ \A d \in Call \ {c} : /\ chan'[d] = chan[d] /\ pc'[d] = pc[d]
                                  /\ registered_at'[d] = registered_at[d]
          /\ UNCHANGED <<result, accepted_in, swept_at>>
        BY <1>2, <1>t DEF Begin, Register, Registered
    <2>2. /\ by_id'[IdOf[c]] = c
          /\ \A i \in Id \ {IdOf[c]} : by_id'[i] = by_id[i]
        BY <1>t, <2>1
    <2>3. \A i \in Id : Registered(i) => /\ by_id[i] \in Call \ {c} /\ IdOf[by_id[i]] = i
                                        /\ chan[by_id[i]].is = "open"
        BY <1>t, <1>f DEF Agree, EntriesAreOpen, Registered
    <2>4. chan'[c].is = "open"
        BY <2>1, Channels
    <2>5. EntriesAreOpen'
        <3>1. ASSUME NEW i \in Id, by_id'[i] # NoCall
              PROVE  IdOf[by_id'[i]] = i /\ chan'[by_id'[i]].is = "open"
            BY <2>1, <2>2, <2>3, <2>4, <3>1 DEF Registered
        <3>2. ASSUME NEW d \in Call, HoldsReceiver(d)', chan'[d].is = "open"
              PROVE  by_id'[IdOf[d]] = d
            <4>1. CASE d = c
                BY <2>2, <4>1
            <4>2. CASE d # c
                <5>1. by_id[IdOf[d]] = d /\ IdOf[d] \in Id /\ d # NoCall
                    BY <2>1, <3>2, <4>2, Numbers DEF Agree, EntriesAreOpen, HoldsReceiver
                <5> QED BY <2>1, <2>2, <5>1
            <4> QED BY <4>1, <4>2
        <3> QED BY <3>1, <3>2 DEF EntriesAreOpen, Registered
    <2>6. Fits(c)'
        BY <1>f, <2>1, <2>4 DEF Agree, Fits, PlaceFits, AcceptedFits, ClosedFits
    <2>7. ASSUME NEW d \in Call \ {c} PROVE Fits(d)'
        <3>1. PlaceFits(d)'
            <4>1. by_id'[IdOf[d]] = d => by_id[IdOf[d]] = d
                BY <2>2, Numbers
            <4> QED BY <2>1, <4>1 DEF Agree, Fits, PlaceFits
        <3>2. AcceptedFits(d)' /\ ClosedFits(d)'
            BY <2>1 DEF Agree, Fits, AcceptedFits, ClosedFits
        <3> QED BY <3>1, <3>2 DEF Fits
    <2> QED BY <2>5, <2>6, <2>7 DEF Agree
<1> QED BY <1>1, <1>2

\* A reply reaches the registry, from a sender or from the network.
LEMMA CompleteStep ==
    ASSUME TypeOK, Agree, NEW id \in Id, NEW r, Complete(id, r),
           UNCHANGED <<result, swept_at>>,
           \A d \in Call : \/ pc'[d] = pc[d]
                           \/ pc[d] = "completing" /\ pc'[d] = "awaiting"
    PROVE  Agree'
<1>t. /\ by_id \in [Id -> Call \cup {NoCall}] /\ DOMAIN chan = Call
      /\ DOMAIN accepted_in = Call
      /\ \A d \in Call : IdOf[d] \in Id /\ d # NoCall
    BY Numbers DEF TypeOK
<1> DEFINE c == by_id[id]
<1>1. /\ by_id'[id] = NoCall /\ \A i \in Id \ {id} : by_id'[i] = by_id[i]
      /\ registered_at' = registered_at
    BY <1>t DEF Complete
<1>2. \A d \in Call :
        /\ HoldsReceiver(d)' <=> HoldsReceiver(d)
        /\ pc'[d] = "done" <=> pc[d] = "done"
        /\ pc'[d] = "idle" <=> pc[d] = "idle"
        /\ pc'[d] \in {"sending", "cancelling", "elapsed", "sweeping"} => pc'[d] = pc[d]
    BY DEF HoldsReceiver
<1>3. \A d \in Call : by_id[IdOf[d]] = d /\ d # c => by_id'[IdOf[d]] = d
    BY <1>t, <1>1
<1>4. ASSUME NEW d \in Call, chan'[d] = chan[d], accepted_in'[d] = accepted_in[d]
      PROVE  Fits(d)'
    <2>1. PlaceFits(d)'
        <3>1. by_id'[IdOf[d]] = d => by_id[IdOf[d]] = d
            BY <1>t, <1>1
        <3> QED BY <1>2, <1>4, <3>1 DEF Agree, Fits, PlaceFits
    <2>2. AcceptedFits(d)'
        BY <1>2, <1>4 DEF Agree, Fits, AcceptedFits
    <2>3. ClosedFits(d)'
        BY <1>1, <1>4 DEF Agree, Fits, ClosedFits
    <2> QED BY <2>1, <2>2, <2>3 DEF Fits
<1>5. CASE c # NoCall /\ HoldsReceiver(c)
    <2>1. /\ c \in Call /\ chan'[c] = Holding(r) /\ accepted_in'[c] = pc[c]
          /\ \A d \in Call \ {c} : chan'[d] = chan[d] /\ accepted_in'[d] = accepted_in[d]
        BY <1>t, <1>5 DEF Complete
    <2>2. IdOf[c] = id /\ chan[c].is = "open" /\ chan'[c].is = "reply"
        BY <1>5, <2>1, Channels DEF Agree, EntriesAreOpen, Registered
    <2> HIDE DEF c
    <2>3. EntriesAreOpen'
        <3>1. ASSUME NEW i \in Id, by_id'[i] # NoCall
              PROVE  IdOf[by_id'[i]] = i /\ chan'[by_id'[i]].is = "open"
            <4>1. i # id /\ by_id'[i] = by_id[i]
                BY <1>1, <3>1
            <4>2. by_id[i] \in Call /\ IdOf[by_id[i]] = i /\ chan[by_id[i]].is = "open"
                BY <1>t, <3>1, <4>1 DEF Agree, EntriesAreOpen, Registered
            <4>3. by_id[i] # c
                BY <2>2, <4>1, <4>2
            <4> QED BY <2>1, <4>1, <4>2, <4>3
        <3>2. ASSUME NEW d \in Call, HoldsReceiver(d)', chan'[d].is = "open"
              PROVE  by_id'[IdOf[d]] = d
            <4>1. d # c
                BY <2>2, <3>2
            <4>2. by_id[IdOf[d]] = d
                BY <1>2, <2>1, <3>2, <4>1 DEF Agree, EntriesAreOpen
            <4> QED BY <1>3, <4>1, <4>2
        <3> QED BY <3>1, <3>2 DEF EntriesAreOpen, Registered
    <2>4. ASSUME NEW d \in Call, d = c PROVE Fits(d)'
        <3>1. /\ pc[d] \notin {"idle", "done", "sweeping"} /\ result[d] = "none"
              /\ chan'[d].is = "reply" /\ accepted_in'[d] = pc[d]
            BY <1>5, <2>1, <2>2, <2>4 DEF HoldsReceiver, Agree, Fits, PlaceFits
        <3>2. PlaceFits(d)'
            BY <1>2, <3>1 DEF PlaceFits
        <3>3. AcceptedFits(d)'
            BY <1>2, <3>1 DEF AcceptedFits
        <3>4. ClosedFits(d)'
            BY <3>1 DEF ClosedFits
        <3> QED BY <3>2, <3>3, <3>4 DEF Fits
    <2> QED BY <1>4, <2>1, <2>3, <2>4 DEF Agree
<1>6. CASE ~(c # NoCall /\ HoldsReceiver(c))
    <2>1. chan' = chan /\ accepted_in' = accepted_in
        BY <1>6 DEF Complete
    <2>2. EntriesAreOpen'
        <3>1. ASSUME NEW i \in Id, by_id'[i] # NoCall
              PROVE  IdOf[by_id'[i]] = i /\ chan'[by_id'[i]].is = "open"
            BY <1>1, <2>1, <3>1 DEF Agree, EntriesAreOpen, Registered
        <3>2. ASSUME NEW d \in Call, HoldsReceiver(d)', chan'[d].is = "open"
              PROVE  by_id'[IdOf[d]] = d
            <4>1. HoldsReceiver(d) /\ by_id[IdOf[d]] = d
                BY <1>2, <2>1, <3>2 DEF Agree, EntriesAreOpen
            <4>2. d # c
                BY <1>t, <1>6, <4>1
            <4> QED BY <1>3, <4>1, <4>2
        <3> QED BY <3>1, <3>2 DEF EntriesAreOpen, Registered
    <2> QED BY <1>4, <2>1, <2>2 DEF Agree
<1> QED BY <1>5, <1>6

\* What taking entries out does.
LEMMA DropEffect ==
    ASSUME TypeOK, Agree, NEW ids \in SUBSET Id, Drop(ids)
    PROVE  /\ \A d \in Call :
                IF IdOf[d] \in ids /\ by_id[IdOf[d]] = d
                THEN chan'[d].is = "closed" /\ chan[d].is = "open"
                ELSE chan'[d] = chan[d]
           /\ \A i \in Id : by_id'[i] = IF i \in ids THEN NoCall ELSE by_id[i]
           /\ registered_at' = registered_at
<1>1. \A i \in Id : by_id[i] # NoCall => IdOf[by_id[i]] = i /\ chan[by_id[i]].is = "open"
    BY DEF Agree, EntriesAreOpen, Registered
<1>2. \A d \in Call : IdOf[d] \in Id /\ d # NoCall
    BY Numbers
<1>3. \A d \in Call : chan'[d] = IF \E i \in ids : by_id[i] = d THEN Closed ELSE chan[d]
    BY DEF Drop
<1>4. \A d \in Call : (\E i \in ids : by_id[i] = d) <=> IdOf[d] \in ids /\ by_id[IdOf[d]] = d
    BY <1>1, <1>2
<1>5. \A d \in Call : IdOf[d] \in ids /\ by_id[IdOf[d]] = d =>
                        chan'[d].is = "closed" /\ chan[d].is = "open"
    BY <1>1, <1>2, <1>3, <1>4, Channels
<1>6. \A d \in Call : ~(IdOf[d] \in ids /\ by_id[IdOf[d]] = d) => chan'[d] = chan[d]
    BY <1>3, <1>4
<1>7. /\ \A i \in Id : by_id'[i] = IF i \in ids THEN NoCall ELSE by_id[i]
      /\ registered_at' = registered_at
    BY DEF Drop
<1> QED BY <1>5, <1>6, <1>7

LEMMA DropEntries ==
    ASSUME TypeOK, Agree, NEW ids \in SUBSET Id, Drop(ids),
           \A d \in Call : HoldsReceiver(d)' => HoldsReceiver(d)
    PROVE  EntriesAreOpen'
<1>0. \A d \in Call : IdOf[d] \in Id /\ d # NoCall
    BY Numbers
<1>1. /\ \A d \in Call :
            IF IdOf[d] \in ids /\ by_id[IdOf[d]] = d
            THEN chan'[d].is = "closed" /\ chan[d].is = "open"
            ELSE chan'[d] = chan[d]
      /\ \A i \in Id : by_id'[i] = IF i \in ids THEN NoCall ELSE by_id[i]
    BY DropEffect
<1>2. ASSUME NEW i \in Id, by_id'[i] # NoCall
      PROVE  IdOf[by_id'[i]] = i /\ chan'[by_id'[i]].is = "open"
    <2>1. i \notin ids /\ by_id'[i] = by_id[i]
        BY <1>1, <1>2
    <2>2. by_id[i] \in Call /\ IdOf[by_id[i]] = i /\ chan[by_id[i]].is = "open"
        BY <1>2, <2>1 DEF Agree, EntriesAreOpen, Registered, TypeOK
    <2> QED BY <1>1, <2>1, <2>2
<1>3. ASSUME NEW d \in Call, HoldsReceiver(d)', chan'[d].is = "open"
      PROVE  by_id'[IdOf[d]] = d
    <2>1. ~(IdOf[d] \in ids /\ by_id[IdOf[d]] = d) /\ chan'[d] = chan[d]
        BY <1>1, <1>3
    <2>2. by_id[IdOf[d]] = d
        BY <1>3, <2>1 DEF Agree, EntriesAreOpen
    <2> QED BY <1>0, <1>1, <2>1, <2>2
<1> QED BY <1>2, <1>3 DEF EntriesAreOpen, Registered

\* A call that could not send, or whose time is up, cancels whatever entry there is
\* under its id.
LEMMA GiveUpStep ==
    ASSUME TypeOK, Agree, NEW c \in Call, GiveUp(c)
    PROVE  Agree'
<1>0. \A d \in Call : IdOf[d] \in Id /\ d # NoCall
    BY Numbers
<1>1. /\ pc[c] \in {"cancelling", "sweeping"} /\ pc'[c] = "done"
      /\ \/ pc[c] = "cancelling" /\ result'[c] \in {"SenderError", "Unsupported"}
         \/ pc[c] = "sweeping" /\ result'[c] = "TimedOut"
      /\ \A d \in Call \ {c} : pc'[d] = pc[d] /\ result'[d] = result[d]
      /\ UNCHANGED <<accepted_in, swept_at>>
    BY DEF GiveUp, Return, TypeOK
<1>2. Drop({IdOf[c]}) /\ {IdOf[c]} \in SUBSET Id
    BY <1>0 DEF GiveUp, Cancel
<1>3. \A d \in Call : HoldsReceiver(d)' => HoldsReceiver(d)
    BY <1>1 DEF HoldsReceiver
<1>4. EntriesAreOpen'
    BY <1>2, <1>3, DropEntries
<1>5. /\ \A d \in Call :
            IF IdOf[d] = IdOf[c] /\ by_id[IdOf[d]] = d
            THEN chan'[d].is = "closed" /\ chan[d].is = "open"
            ELSE chan'[d] = chan[d]
      /\ \A i \in Id : by_id'[i] = IF i = IdOf[c] THEN NoCall ELSE by_id[i]
      /\ registered_at' = registered_at
    BY <1>2, DropEffect
<1>6. result[c] = "none" /\ result'[c] \in GaveUp
    BY <1>1 DEF Agree, Fits, PlaceFits, GaveUp
<1>7. ASSUME NEW d \in Call PROVE PlaceFits(d)'
    <2>1. PlaceFits(d) /\ (by_id'[IdOf[d]] = d => by_id[IdOf[d]] = d /\ d # c)
        BY <1>0, <1>5 DEF Agree, Fits
    <2>2. chan'[d].is \in {"none", "closed"} \/ chan'[d].is = chan[d].is
        BY <1>5
    <2>3. CASE d = c
        BY <1>0, <1>1, <1>5, <2>3 DEF PlaceFits
    <2>4. CASE d # c
        <3>1. pc'[d] = pc[d] /\ result'[d] = result[d]
            BY <1>1, <2>4
        <3>2. pc[d] = "idle" => chan'[d].is = "none"
            BY <1>5, <2>1 DEF PlaceFits
        <3>3. result[d] = "Closed" => chan'[d].is = "closed"
            BY <1>5, <2>1 DEF PlaceFits
        <3> QED BY <2>1, <3>1, <3>2, <3>3 DEF PlaceFits
    <2> QED BY <2>3, <2>4
<1>8. ASSUME NEW d \in Call PROVE AcceptedFits(d)'
    <2>1. SUFFICES ASSUME chan'[d].is = "reply" PROVE AcceptedFits(d)'
        BY DEF AcceptedFits
    <2>2. chan[d].is = "reply" /\ AcceptedFits(d)
        BY <1>5, <2>1 DEF Agree, Fits
    <2>3. CASE d = c
        BY <1>1, <2>2, <2>3 DEF AcceptedFits
    <2>4. CASE d # c
        BY <1>1, <2>2, <2>4 DEF AcceptedFits
    <2> QED BY <2>3, <2>4
<1>9. ASSUME NEW d \in Call PROVE ClosedFits(d)'
    <2>1. SUFFICES ASSUME chan'[d].is = "closed" PROVE ClosedFits(d)'
        BY DEF ClosedFits
    <2>2. CASE d = c
        BY <1>6, <2>2 DEF ClosedFits
    <2>3. CASE d # c /\ IdOf[d] = IdOf[c]
        BY <1>6, <2>3 DEF ClosedFits
    <2>4. CASE d # c /\ IdOf[d] # IdOf[c]
        <3>1. chan[d].is = "closed" /\ ClosedFits(d)
            BY <1>5, <2>1, <2>4 DEF Agree, Fits
        <3>2. \A e \in Call : result[e] \in GaveUp => result'[e] = result[e]
            BY <1>1, <1>6 DEF GaveUp
        <3> QED BY <1>1, <1>5, <3>1, <3>2 DEF ClosedFits
    <2> QED BY <2>2, <2>3, <2>4
<1> QED BY <1>4, <1>7, <1>8, <1>9 DEF Agree, Fits

\* The sweeper.
LEMMA EvictStep ==
    ASSUME TypeOK, Agree, EvictExpired
    PROVE  Agree'
<1>0. \A d \in Call : IdOf[d] \in Id /\ d # NoCall
    BY Numbers
<1>1. /\ UNCHANGED <<pc, result, accepted_in>> /\ Drop(Expired)
      /\ Expired \in SUBSET Id
      /\ swept_at' = [c \in Call |-> IF \E i \in Expired : by_id[i] = c
                                    THEN now ELSE swept_at[c]]
    BY DEF EvictExpired, Expired, callVars
<1>2. EntriesAreOpen'
    <2>1. \A d \in Call : HoldsReceiver(d)' => HoldsReceiver(d)
        BY <1>1 DEF HoldsReceiver
    <2> QED BY <1>1, <2>1, DropEntries
<1>3. /\ \A d \in Call :
            IF IdOf[d] \in Expired /\ by_id[IdOf[d]] = d
            THEN chan'[d].is = "closed" /\ chan[d].is = "open"
            ELSE chan'[d] = chan[d]
      /\ \A i \in Id : by_id'[i] = IF i \in Expired THEN NoCall ELSE by_id[i]
      /\ registered_at' = registered_at
    BY <1>1, DropEffect
<1>4. \A d \in Call : (\E i \in Expired : by_id[i] = d) =>
                        IdOf[d] \in Expired /\ by_id[IdOf[d]] = d
    BY <1>0, <1>1 DEF Agree, EntriesAreOpen, Registered
<1>5. ASSUME NEW d \in Call PROVE PlaceFits(d)'
    <2>1. PlaceFits(d) /\ (by_id'[IdOf[d]] = d => by_id[IdOf[d]] = d)
        BY <1>0, <1>3 DEF Agree, Fits
    <2>2. pc[d] = "idle" => chan'[d].is = "none"
        BY <1>3, <2>1 DEF PlaceFits
    <2>3. result[d] = "Closed" => chan'[d].is = "closed"
        BY <1>3, <2>1 DEF PlaceFits
    <2> QED BY <1>1, <2>1, <2>2, <2>3 DEF PlaceFits
<1>6. ASSUME NEW d \in Call PROVE AcceptedFits(d)'
    BY <1>1, <1>3 DEF Agree, Fits, AcceptedFits
<1>7. ASSUME NEW d \in Call PROVE ClosedFits(d)'
    <2>1. SUFFICES ASSUME chan'[d].is = "closed" PROVE ClosedFits(d)'
        BY DEF ClosedFits
    <2>2. CASE IdOf[d] \in Expired /\ by_id[IdOf[d]] = d
        <3>1. now - registered_at[d] >= SweepAge /\ swept_at'[d] = now
            BY <1>1, <2>2 DEF Expired
        <3>2. now \in Nat /\ registered_at[d] \in Nat
            BY Numbers DEF TypeOK
        <3>3. swept_at'[d] > 0 /\ swept_at'[d] - registered_at'[d] >= SweepAge
            BY <1>3, <3>1, <3>2, Numbers
        <3> QED BY <3>3 DEF ClosedFits
    <2>3. CASE ~(IdOf[d] \in Expired /\ by_id[IdOf[d]] = d)
        <3>1. chan[d].is = "closed" /\ ClosedFits(d) /\ swept_at'[d] = swept_at[d]
            BY <1>1, <1>3, <1>4, <2>1, <2>3 DEF Agree, Fits
        <3> QED BY <1>1, <1>3, <3>1 DEF ClosedFits
    <2> QED BY <2>2, <2>3
<1> QED BY <1>2, <1>5, <1>6, <1>7 DEF Agree, Fits

LEMMA AgreeStep ==
    ASSUME TypeOK, SendingInTime, Agree, [Next]_vars
    PROVE  Agree'
<1> USE DEF registry, netVars, callVars
<1>t. pc \in [Call -> Place]
    BY DEF TypeOK
<1>1. ASSUME NEW c \in Call, CompleteSync(c) PROVE Agree'
    <2>1. /\ Complete(IdOf[c], reply[c]) /\ UNCHANGED <<result, swept_at>>
          /\ \A d \in Call : \/ pc'[d] = pc[d]
                             \/ pc[d] = "completing" /\ pc'[d] = "awaiting"
        BY <1>1, <1>t DEF CompleteSync, Await
    <2> QED BY <2>1, Numbers, CompleteStep
<1>2. ASSUME NEW id \in Id, DispatchResponse(id) PROVE Agree'
    <2>1. /\ Complete(id, [id |-> id, n |-> replies + 1])
          /\ UNCHANGED <<result, swept_at, pc>>
        BY <1>2 DEF DispatchResponse
    <2> QED BY <2>1, CompleteStep
<1>3. CASE Pass \/ UNCHANGED vars
    <2>1. UNCHANGED <<by_id, registered_at, chan, pc, result, accepted_in, swept_at>>
        BY <1>3 DEF Pass, vars
    <2> QED BY <2>1 DEF Agree, EntriesAreOpen, Registered, HoldsReceiver, Fits, PlaceFits,
            AcceptedFits, ClosedFits
<1> QED BY Steps, <1>1, <1>2, <1>3, BeginStep, QuietSteps, GiveUpStep, EvictStep

\* The invariant: PendingRequests, the oneshot channels and the calls of
\* request_response and register_response_handler agree on who waits for what.
THEOREM RequestInvariant == Spec => []RequestInv
<1>1. Init => RequestInv
    <2>1. SUFFICES ASSUME Init PROVE RequestInv
        OBVIOUS
    <2>2. 0 \in 0 .. MaxTime /\ 0 \in 0 .. MaxReplies /\ 1 \in 1 .. NSenders + 1
        BY Numbers
    <2>3. TypeOK
        BY <2>1, <2>2 DEF Init, TypeOK, Place
    <2>4. \A c \in Call : /\ pc[c] = "idle" /\ result[c] = "none" /\ chan[c].is = "none"
                          /\ by_id[IdOf[c]] # c
        BY <2>1, Numbers, Channels DEF Init
    <2>5. SendingInTime /\ EntriesAreOpen
        BY <2>1, <2>4 DEF Init, SendingInTime, EntriesAreOpen, Registered, HoldsReceiver
    <2>6. \A c \in Call : PlaceFits(c) /\ AcceptedFits(c) /\ ClosedFits(c)
        BY <2>4 DEF PlaceFits, AcceptedFits, ClosedFits
    <2> QED BY <2>3, <2>5, <2>6 DEF RequestInv
<1>2. RequestInv /\ [Next]_vars => RequestInv'
    <2>1. SUFFICES ASSUME RequestInv, [Next]_vars PROVE RequestInv'
        OBVIOUS
    <2>2. TypeOK /\ SendingInTime /\ Agree
        BY <2>1 DEF RequestInv, Agree, Fits
    <2>3. TypeOK'
        BY <2>1, <2>2, TypeStep
    <2>4. SendingInTime' /\ Agree'
        BY <2>1, <2>2, <2>3, SendingStep, AgreeStep
    <2> QED BY <2>3, <2>4 DEF RequestInv, Agree, Fits
<1> QED BY <1>1, <1>2, PTL DEF Spec

\* A call's channel is open exactly as long as the registry has its entry, and only
\* a dropped future leaves an entry behind.
THEOREM RegistryAgrees == Spec => []RegistryMatchesChannels
<1>1. RequestInv => RegistryMatchesChannels
    <2>1. SUFFICES ASSUME RequestInv, NEW c \in Call
                   PROVE  /\ HoldsReceiver(c) => (chan[c].is = "open" <=> by_id[IdOf[c]] = c)
                          /\ by_id[IdOf[c]] = c =>
                                pc[c] \notin {"idle", "done"} \/ result[c] = "dropped"
        BY DEF RegistryMatchesChannels
    <2>2. EntriesAreOpen /\ PlaceFits(c)
        BY <2>1 DEF RequestInv
    <2>3. by_id[IdOf[c]] = c => chan[c].is = "open"
        BY <2>2, Numbers DEF EntriesAreOpen, Registered
    <2> QED BY <2>2, <2>3 DEF EntriesAreOpen, PlaceFits
<1> QED BY <1>1, RequestInvariant, PTL

\* A reply that dispatch_response reports as delivered is what the call returns, but
\* for the two windows the property names.
THEOREM DeliveredRepliesAreReturned == Spec => []DeliveredIsReturned
<1>1. RequestInv => DeliveredIsReturned
    BY DEF RequestInv, AcceptedFits, DeliveredIsReturned
<1> QED BY <1>1, RequestInvariant, PTL

\* Every Closed that a call returns has a cause: an earlier failure with the same
\* envelope id, or the sweeper, and then the sweeper was not early.
THEOREM ClosedHasACause == Spec => []ClosedIsExplained
<1>1. RequestInv => ClosedIsExplained
    <2>1. SUFFICES ASSUME RequestInv, NEW c \in Call, result[c] = "Closed"
                   PROVE  \/ \E d \in Call \ {c} :
                                /\ IdOf[d] = IdOf[c]
                                /\ result[d] \in {"SenderError", "Unsupported", "TimedOut"}
                          \/ /\ swept_at[c] > 0
                             /\ \/ deadline[c] = 0
                                \/ swept_at[c] >= deadline[c]
                                \/ deadline[c] - registered_at[c] > SweepAge
        BY DEF ClosedIsExplained
    <2>2. ClosedFits(c) /\ chan[c].is = "closed"
        BY <2>1 DEF RequestInv, PlaceFits
    <2>3. /\ swept_at[c] \in Nat /\ deadline[c] \in Nat /\ registered_at[c] \in Nat
          /\ SweepAge \in Nat
        BY <2>1, Numbers DEF RequestInv, TypeOK
    <2>4. swept_at[c] - registered_at[c] >= SweepAge =>
            \/ swept_at[c] >= deadline[c]
            \/ deadline[c] - registered_at[c] > SweepAge
        BY <2>3
    <2> QED BY <2>1, <2>2, <2>4 DEF ClosedFits, GaveUp
<1> QED BY <1>1, RequestInvariant, PTL
=============================================================================
