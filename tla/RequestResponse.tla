-------------------------- MODULE RequestResponse --------------------------
(***************************************************************************)
(* Request/reply correlation of a NodeTransport: PendingRequests in        *)
(* octo-transport/src/request_response.rs, and request_response,           *)
(* register_response_handler, dispatch_response and evict_expired_pending  *)
(* in node_transport.rs.                                                   *)
(*                                                                         *)
(* Every use of the registry is one critical section of the `pending`      *)
(* mutex without an await in it: one action.  Everything else a call does  *)
(* is a step of its own, and a call's future may be dropped at any await.  *)
(* A call is named by its oneshot channel; several calls may use one       *)
(* envelope_id, which the resolver derives from the chain walk             *)
(* (octo-identity-resolver-node/src/backend.rs), so a retry repeats it.    *)
(***************************************************************************)
EXTENDS Integers

CONSTANTS
    Call,         \* invocations of request_response or register_response_handler
    Id,           \* envelope ids
    IdOf,         \* the envelope id each call uses
    NSenders,     \* senders.len()
    Timeout,      \* the timeout of a call
    SweepAge,     \* the timeout given to evict_expired_pending
    MaxReplies,   \* bound: replies made
    LastSend,     \* bound: the time at which every sender has returned
    NoCall        \* no entry

ASSUME RequestAssumption ==
    /\ IdOf \in [Call -> Id]
    /\ NSenders \in Nat \ {0}
    /\ {Timeout, SweepAge} \subseteq Nat \ {0}
    /\ {MaxReplies, LastSend} \subseteq Nat
    /\ NoCall \notin Call

VARIABLES
    now,
    by_id,        \* the registry: the call whose oneshot sender is held for an id
    registered_at,
    chan,         \* the oneshot channel of a call: None, Open, Closed or a reply
    pc,           \* where a call is
    sender,       \* the sender a call tries
    on_wire,      \* whether that sender has put the request on the wire
    last_err,     \* whether a sender failed with an error other than Unsupported
    reply,        \* the synchronous reply a call is about to complete with
    deadline,     \* when tokio's timeout elapses
    result,       \* what a call returned
    requested,    \* ids some peer has received a request for
    replies,      \* how many replies were made
    \* History, read by the properties only:
    accepted_in,  \* where the call was when its channel took a reply
    swept_at      \* when the sweeper evicted its entry, 0 being never

registry == <<by_id, registered_at>>
netVars == <<requested, replies>>
callVars == <<pc, sender, on_wire, last_err, reply, deadline, result>>
vars == <<now, registry, chan, callVars, netVars, accepted_in, swept_at>>

-----------------------------------------------------------------------------
MaxTime == LastSend + Timeout
Reply == [id : Id, n : 1 .. MaxReplies]
NoReply == [id |-> CHOOSE i \in Id : TRUE, n |-> 0]
Unused == [id |-> NoReply.id, n |-> 0, is |-> "none"]

\* The states of a channel that holds no reply; a reply is told from them by is.
Open == [Unused EXCEPT !.is = "open"]
Closed == [Unused EXCEPT !.is = "closed"]
Holding(r) == [id |-> r.id, n |-> r.n, is |-> "reply"]

Failure == {"AlreadyRegistered", "SenderError", "Unsupported", "Closed", "TimedOut"}
Place == {"idle", "sending", "completing", "cancelling", "awaiting", "elapsed",
          "sweeping", "holding", "done"}

TypeOK ==
    /\ now \in 0 .. MaxTime
    /\ by_id \in [Id -> Call \cup {NoCall}]
    /\ registered_at \in [Call -> 0 .. MaxTime]
    /\ chan \in [Call -> {Unused, Open, Closed} \cup {Holding(r) : r \in Reply}]
    /\ pc \in [Call -> Place]
    /\ sender \in [Call -> 1 .. NSenders + 1]
    /\ on_wire \in [Call -> BOOLEAN] /\ last_err \in [Call -> BOOLEAN]
    /\ reply \in [Call -> Reply \cup {NoReply}]
    /\ deadline \in [Call -> 0 .. MaxTime]
    /\ result \in [Call -> Failure \cup {"none", "dropped", "reply"}]
    /\ requested \subseteq Id
    /\ replies \in 0 .. MaxReplies
    /\ accepted_in \in [Call -> Place]
    /\ swept_at \in [Call -> 0 .. MaxTime]

Init ==
    /\ now = 0
    /\ by_id = [i \in Id |-> NoCall]
    /\ registered_at = [c \in Call |-> 0]
    /\ chan = [c \in Call |-> Unused]
    /\ pc = [c \in Call |-> "idle"]
    /\ sender = [c \in Call |-> 1]
    /\ on_wire = [c \in Call |-> FALSE] /\ last_err = [c \in Call |-> FALSE]
    /\ reply = [c \in Call |-> NoReply]
    /\ deadline = [c \in Call |-> 0]
    /\ result = [c \in Call |-> "none"]
    /\ requested = {}
    /\ replies = 0
    /\ accepted_in = [c \in Call |-> "idle"]
    /\ swept_at = [c \in Call |-> 0]

-----------------------------------------------------------------------------
(* PendingRequests *)

\* The call still holds the receiver of its channel.  request_response drops it
\* when the timeout has elapsed, before it sweeps, or when it returns.
HoldsReceiver(c) ==
    pc[c] \in {"sending", "completing", "cancelling", "awaiting", "elapsed", "holding"}

Registered(id) == by_id[id] # NoCall

\* register, there being no entry.
Register(c) ==
    /\ by_id' = [by_id EXCEPT ![IdOf[c]] = c]
    /\ registered_at' = [registered_at EXCEPT ![c] = now]
    /\ chan' = [chan EXCEPT ![c] = Open]

\* complete: Unknown changes nothing, ReceiverDropped takes the entry out.
Complete(id, r) ==
    LET c == by_id[id] IN
    /\ by_id' = [by_id EXCEPT ![id] = NoCall]
    /\ IF c # NoCall /\ HoldsReceiver(c)
       THEN /\ chan' = [chan EXCEPT ![c] = Holding(r)]
            /\ accepted_in' = [accepted_in EXCEPT ![c] = pc[c]]
       ELSE UNCHANGED <<chan, accepted_in>>
    /\ UNCHANGED registered_at

\* Entries are taken out: their senders are dropped, which closes the channels.
Drop(ids) ==
    /\ by_id' = [i \in Id |-> IF i \in ids THEN NoCall ELSE by_id[i]]
    /\ chan' = [c \in Call |-> IF \E i \in ids : by_id[i] = c THEN Closed ELSE chan[c]]
    /\ UNCHANGED registered_at

\* The entry is left to the sweeper.
Cancel_skipped(id) == UNCHANGED <<registry, chan>>

\* cancel: whatever call's entry there is for the id by now.
Cancel(id) == Drop({id})

\* Entries younger than the timeout are the ones thrown out.
Expired_inverted == {i \in Id : Registered(i) /\ now - registered_at[by_id[i]] < SweepAge}

\* What retain keeps is younger than the timeout.
Expired == {i \in Id : Registered(i) /\ now - registered_at[by_id[i]] >= SweepAge}

-----------------------------------------------------------------------------
(* request_response *)

Return(c, what) ==
    /\ pc' = [pc EXCEPT ![c] = "done"]
    /\ result' = [result EXCEPT ![c] = what]

\* The registration of request_response (place "sending") or of
\* register_response_handler (place "holding").
Begin(c, place) ==
    /\ pc[c] = "idle"
    /\ now < LastSend
    /\ IF Registered(IdOf[c])
       THEN Return(c, "AlreadyRegistered") /\ UNCHANGED <<registry, chan>>
       ELSE /\ Register(c)
            /\ pc' = [pc EXCEPT ![c] = place]
            /\ UNCHANGED result
    /\ UNCHANGED <<now, sender, on_wire, last_err, reply, deadline, netVars,
                   accepted_in, swept_at>>

Trying(c) == pc[c] = "sending" /\ sender[c] <= NSenders

NextSender(c) ==
    /\ sender' = [sender EXCEPT ![c] = @ + 1]
    /\ on_wire' = [on_wire EXCEPT ![c] = FALSE]

\* A sender that is not healthy, or returns Unsupported.
SkipSender(c) ==
    /\ Trying(c)
    /\ ~on_wire[c]
    /\ NextSender(c)
    /\ UNCHANGED <<now, registry, chan, pc, last_err, reply, deadline, result, netVars,
                   accepted_in, swept_at>>

\* send_request puts the request on the wire and a peer gets it.
Transmit(c) ==
    /\ Trying(c)
    /\ ~on_wire[c]
    /\ on_wire' = [on_wire EXCEPT ![c] = TRUE]
    /\ requested' = requested \cup {IdOf[c]}
    /\ UNCHANGED <<now, registry, chan, pc, sender, last_err, reply, deadline, result,
                   replies, accepted_in, swept_at>>

\* send_request fails, before or after the request is on the wire.
SenderFails(c) ==
    /\ Trying(c)
    /\ NextSender(c)
    /\ last_err' = [last_err EXCEPT ![c] = TRUE]
    /\ UNCHANGED <<now, registry, chan, pc, reply, deadline, result, netVars,
                   accepted_in, swept_at>>

\* Entering tokio's timeout.
Await(c) ==
    /\ pc' = [pc EXCEPT ![c] = "awaiting"]
    /\ deadline' = [deadline EXCEPT ![c] = now + Timeout]

\* send_request returns an empty payload: the reply is to be dispatched.
SenderAccepts(c) ==
    /\ Trying(c) /\ on_wire[c]
    /\ Await(c)
    /\ UNCHANGED <<now, registry, chan, sender, on_wire, last_err, reply, result,
                   netVars, accepted_in, swept_at>>

\* send_request returns the reply itself.
SenderAnswers(c) ==
    /\ Trying(c) /\ on_wire[c]
    /\ replies < MaxReplies
    /\ replies' = replies + 1
    /\ reply' = [reply EXCEPT ![c] = [id |-> IdOf[c], n |-> replies + 1]]
    /\ pc' = [pc EXCEPT ![c] = "completing"]
    /\ UNCHANGED <<now, registry, chan, sender, on_wire, last_err, deadline, result,
                   requested, accepted_in, swept_at>>

\* ... and request_response completes the registration with it, if it is there.
CompleteSync(c) ==
    /\ pc[c] = "completing"
    /\ Complete(IdOf[c], reply[c])
    /\ Await(c)
    /\ reply' = [reply EXCEPT ![c] = NoReply]
    /\ UNCHANGED <<now, sender, on_wire, last_err, result, netVars, swept_at>>

\* No sender took the request.
NotSent(c) ==
    /\ pc[c] = "sending" /\ sender[c] > NSenders
    /\ pc' = [pc EXCEPT ![c] = "cancelling"]
    /\ UNCHANGED <<now, registry, chan, sender, on_wire, last_err, reply, deadline,
                   result, netVars, accepted_in, swept_at>>

CancelUnsent(c) ==
    /\ pc[c] = "cancelling"
    /\ Cancel(IdOf[c])
    /\ Return(c, IF last_err[c] THEN "SenderError" ELSE "Unsupported")
    /\ UNCHANGED <<now, sender, on_wire, last_err, reply, deadline, netVars,
                   accepted_in, swept_at>>

\* The receiver resolves, for request_response or for the owner of a handler.
Receive(c) ==
    /\ pc[c] \in {"awaiting", "holding"}
    /\ \/ chan[c].is = "reply" /\ Return(c, "reply")
       \/ chan[c].is = "closed" /\ Return(c, "Closed")
    /\ UNCHANGED <<now, registry, chan, sender, on_wire, last_err, reply, deadline,
                   netVars, accepted_in, swept_at>>

\* The timer is polled before the receiver.
Ripe_timer_first(c) == now >= deadline[c]

\* tokio polls the receiver before the timer.
Ripe(c) == now >= deadline[c] /\ chan[c].is = "open"

\* The receiver is awaited without a timeout.
Elapse_never(c) == FALSE

\* The timeout elapses ...
Elapse(c) ==
    /\ pc[c] = "awaiting"
    /\ Ripe(c)
    /\ pc' = [pc EXCEPT ![c] = "elapsed"]
    /\ UNCHANGED <<now, registry, chan, sender, on_wire, last_err, reply, deadline,
                   result, netVars, accepted_in, swept_at>>

\* ... the receiver goes with the timeout's future ...
DropReceiver(c) ==
    /\ pc[c] = "elapsed"
    /\ pc' = [pc EXCEPT ![c] = "sweeping"]
    /\ UNCHANGED <<now, registry, chan, sender, on_wire, last_err, reply, deadline,
                   result, netVars, accepted_in, swept_at>>

\* ... and the entry is cancelled once the lock is had.
CancelElapsed(c) ==
    /\ pc[c] = "sweeping"
    /\ Cancel(IdOf[c])
    /\ Return(c, "TimedOut")
    /\ UNCHANGED <<now, sender, on_wire, last_err, reply, deadline, netVars,
                   accepted_in, swept_at>>

\* The caller drops the future at an await, or the handler's receiver.
DropCall(c) ==
    /\ pc[c] \notin {"idle", "elapsed", "done"}
    /\ Return(c, "dropped")
    /\ UNCHANGED <<now, registry, chan, sender, on_wire, last_err, reply, deadline,
                   netVars, accepted_in, swept_at>>

-----------------------------------------------------------------------------
(* The rest of the transport *)

\* dispatch_response with a reply of a peer that got the request: late, again,
\* or while the call is still in its loop over the senders.
DispatchResponse(id) ==
    /\ id \in requested
    /\ replies < MaxReplies
    /\ replies' = replies + 1
    /\ Complete(id, [id |-> id, n |-> replies + 1])
    /\ UNCHANGED <<now, callVars, requested, swept_at>>

\* evict_expired_pending
EvictExpired ==
    /\ Expired # {}
    /\ Drop(Expired)
    /\ swept_at' = [c \in Call |-> IF \E i \in Expired : by_id[i] = c
                                   THEN now ELSE swept_at[c]]
    /\ UNCHANGED <<now, callVars, netVars, accepted_in>>

\* Time passes; the senders of a call have returned by LastSend.
Pass ==
    /\ now < MaxTime
    /\ now < LastSend \/ \A c \in Call : pc[c] \notin {"sending", "completing"}
    /\ now' = now + 1
    /\ UNCHANGED <<registry, chan, callVars, netVars, accepted_in, swept_at>>

CallStep(c) ==
    \/ SkipSender(c) \/ SenderFails(c) \/ SenderAccepts(c) \/ SenderAnswers(c)
    \/ CompleteSync(c) \/ NotSent(c) \/ CancelUnsent(c)
    \/ Elapse(c) \/ DropReceiver(c) \/ CancelElapsed(c)
    \/ pc[c] = "awaiting" /\ Receive(c)

Next ==
    \/ \E c \in Call :
        \/ Begin(c, "sending") \/ Begin(c, "holding")
        \/ Transmit(c)
        \/ CallStep(c)
        \/ pc[c] = "holding" /\ Receive(c)
        \/ DropCall(c)
    \/ \E id \in Id : DispatchResponse(id)
    \/ EvictExpired
    \/ Pass

Spec == Init /\ [][Next]_vars

\* Senders return, the runtime polls every future and its timers fire.  Nothing
\* obliges a peer to reply, a caller to drop its future, or anybody to sweep.
FairSpec == Spec /\ WF_vars(Pass) /\ \A c \in Call : WF_vars(CallStep(c))

-----------------------------------------------------------------------------
(* Properties *)

\* The registry and the channels agree: a call's channel is open exactly as long
\* as the registry has its entry, so a reply that comes finds the call.  A call
\* that has returned left no entry behind; only one whose future was dropped did.
RegistryMatchesChannels ==
    \A c \in Call :
        /\ HoldsReceiver(c) => (chan[c].is = "open" <=> by_id[IdOf[c]] = c)
        /\ by_id[IdOf[c]] = c => pc[c] \notin {"idle", "done"} \/ result[c] = "dropped"

\* A reply dispatch_response reports as delivered is the one the call returns.  It
\* is lost only if it came before the call found that no sender had taken the
\* request, or in the instant between the timer and the drop of the receiver.
DeliveredIsReturned ==
    \A c \in Call : (chan[c].is = "reply" /\ pc[c] = "done") =>
        \/ result[c] \in {"reply", "dropped"}
        \/ result[c] \in {"SenderError", "Unsupported"}
            /\ accepted_in[c] \in {"sending", "cancelling"}
        \/ result[c] = "TimedOut" /\ accepted_in[c] = "elapsed"

\* A call fails on a closed channel only if a call with the same envelope id failed
\* before it, whose late cancel took the entry, or if the sweeper came: at or after
\* the call's deadline, or because the call spent more time in its senders than the
\* sweeper allows beyond the timeout.
ClosedIsExplained ==
    \A c \in Call : result[c] = "Closed" =>
        \/ \E d \in Call \ {c} :
            IdOf[d] = IdOf[c] /\ result[d] \in {"SenderError", "Unsupported", "TimedOut"}
        \/ /\ swept_at[c] > 0
           /\ \/ deadline[c] = 0 \* a handler
              \/ swept_at[c] >= deadline[c]
              \/ deadline[c] - registered_at[c] > SweepAge

\* Every call of request_response that is not dropped returns, whatever peers do.
CallsReturn ==
    \A c \in Call : pc[c] = "sending" ~> pc[c] = "done"

-----------------------------------------------------------------------------
(* What they rest on *)

\* What a call that completes at once has at hand, and by when it is sent.
SendingInTime ==
    \A c \in Call :
        /\ pc[c] \in {"sending", "completing"} => now <= LastSend
        /\ pc[c] = "completing" => reply[c] \in Reply

\* An entry is under its call's id and its channel is open, and a receiver that
\* waits on an open channel has its entry.
EntriesAreOpen ==
    /\ \A i \in Id : Registered(i) => IdOf[by_id[i]] = i /\ chan[by_id[i]].is = "open"
    /\ \A c \in Call : HoldsReceiver(c) /\ chan[c].is = "open" => by_id[IdOf[c]] = c

\* What the channel and the result of a call say of where it is.
PlaceFits(c) ==
    /\ pc[c] = "idle" => chan[c].is = "none"
    /\ result[c] = "none" <=> pc[c] # "done"
    /\ pc[c] = "done" /\ by_id[IdOf[c]] = c => result[c] = "dropped"
    /\ result[c] = "Closed" => chan[c].is = "closed"

\* Where a call can be whose channel took a reply while it was at accepted_in.
AcceptedFits(c) ==
    chan[c].is = "reply" =>
        /\ pc[c] = "sending" => accepted_in[c] = "sending"
        /\ pc[c] = "cancelling" => accepted_in[c] \in {"sending", "cancelling"}
        /\ pc[c] \in {"elapsed", "sweeping"} => accepted_in[c] = "elapsed"
        /\ pc[c] = "done" =>
            \/ result[c] \in {"reply", "dropped"}
            \/ result[c] \in {"SenderError", "Unsupported"}
                /\ accepted_in[c] \in {"sending", "cancelling"}
            \/ result[c] = "TimedOut" /\ accepted_in[c] = "elapsed"

GaveUp == {"SenderError", "Unsupported", "TimedOut"}

\* Who closed a channel: its call, another with the same id, or the sweeper.
ClosedFits(c) ==
    chan[c].is = "closed" =>
        \/ result[c] \in GaveUp
        \/ \E d \in Call \ {c} : IdOf[d] = IdOf[c] /\ result[d] \in GaveUp
        \/ swept_at[c] > 0 /\ swept_at[c] - registered_at[c] >= SweepAge

RequestInv ==
    /\ TypeOK /\ SendingInTime /\ EntriesAreOpen
    /\ \A c \in Call : PlaceFits(c) /\ AcceptedFits(c) /\ ClosedFits(c)
=============================================================================
