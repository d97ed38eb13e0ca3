---------------------------- MODULE RateLimiter ----------------------------
(***************************************************************************)
(* The token bucket of one subscriber: RateLimiter in                      *)
(* octo-sync/src/stream.rs.  check_at holds the bucket's three mutexes for *)
(* its whole body, so a call is one action.                                *)
(*                                                                         *)
(* The model adds the time of the world and credit, an ideal bucket in     *)
(* thousandths of a token that gains Rate every millisecond and loses 1000 *)
(* with every admission.  The clock a caller hands to check_at may lag     *)
(* behind the time, and so run backwards, but is not ahead of it.          *)
(***************************************************************************)
EXTENDS Naturals

CONSTANTS
    Rate,     \* rate_per_sec
    Burst,    \* burst
    Paths,    \* how it is called: "check" (on_commit), "check_at", or both
    Start,    \* the Unix millisecond in which it is built
    MaxLag,   \* how far a caller's clock lags at most, in ms
    MaxTime   \* bound: the last millisecond

ASSUME LimiterAssumption ==
    /\ {Rate, Burst, Start, MaxLag, MaxTime} \subseteq Nat
    /\ MaxLag <= Start /\ Start <= MaxTime
    /\ Paths \subseteq {"check", "check_at"}

VARIABLES
    time,         \* the time of the world, in Unix ms
    tokens,       \* current token count
    last_refill,  \* last_refill_ms
    prev_now,     \* prev_now_ms, None being 0
    \* History, read by the properties only:
    admitted,     \* envelopes admitted so far
    credit,       \* the ideal bucket, in thousandths of a token
    verdict       \* what the last call returned, and the credit it met

limiterVars == <<time, tokens, last_refill, prev_now, admitted, credit, verdict>>

-----------------------------------------------------------------------------
Smaller(a, b) == IF a <= b THEN a ELSE b

LimiterTypeOK ==
    /\ time \in Start .. MaxTime
    /\ tokens \in 0 .. Burst
    /\ last_refill \in 0 .. MaxTime
    /\ prev_now \in 0 .. MaxTime
    /\ admitted \in Nat
    /\ credit \in 0 .. 1000 * Burst
    /\ verdict \in [ok : BOOLEAN, credit : 0 .. 1000 * Burst]

\* RateLimiter::new
LimiterInit ==
    /\ time = Start
    /\ tokens = Burst
    /\ last_refill = 0
    /\ prev_now = 0
    /\ admitted = 0
    /\ credit = 1000 * Burst
    /\ verdict = [ok |-> TRUE, credit |-> 1000 * Burst]

\* A millisecond passes.
Millisecond ==
    /\ time < MaxTime
    /\ time' = time + 1
    /\ credit' = Smaller(1000 * Burst, credit + Rate)
    /\ UNCHANGED <<tokens, last_refill, prev_now, admitted, verdict>>

\* A clock that moved backwards refills too, once it moves on.
Refills_backwards(now) == now > prev_now

\* The clock is ahead of the last refill and did not move backwards.
Refills(now) == now > last_refill /\ now > prev_now

\* What the bucket gains at now.
Gain(now) ==
    IF now >= last_refill THEN ((now - last_refill) * Rate) \div 1000 ELSE 0

\* The tokens after the refill.
Refilled(now) ==
    IF Refills(now) THEN Smaller(tokens + Gain(now), Burst) ELSE tokens

\* check_at
CheckAt(now) ==
    LET filled == Refilled(now)
    IN  /\ last_refill' = IF Refills(now) THEN now ELSE last_refill
        /\ prev_now' = now
        /\ verdict' = [ok |-> filled > 0, credit |-> credit]
        /\ \/ /\ filled = 0
              /\ tokens' = 0
              /\ UNCHANGED <<admitted, credit>>
           \/ /\ filled > 0
              /\ tokens' = filled - 1
              /\ admitted' = admitted + 1
              /\ credit' = IF credit >= 1000 THEN credit - 1000 ELSE 0
        /\ UNCHANGED time

\* check
Check == CheckAt(0)

LimiterNext ==
    \/ Millisecond
    \/ "check" \in Paths /\ Check
    \/ "check_at" \in Paths /\ \E lag \in 0 .. MaxLag : CheckAt(time - lag)

LimiterSpec == LimiterInit /\ [][LimiterNext]_limiterVars

-----------------------------------------------------------------------------
(* Properties *)

\* The lowest time a caller of check_at can name.
Earliest == Start - MaxLag

\* last_refill_ms is 0 at first, so the first check_at fills the bucket: a
\* burst is spent twice when check has emptied it before.
FreeFill == IF "check" \in Paths THEN Burst ELSE 0

\* Over its life the limiter admits no more than the burst and the sustained
\* rate allow, whatever the callers' clocks do: a lagging clock gains its lag
\* once, not with every step back.
SustainedRate ==
    1000 * admitted <= 1000 * (Burst + FreeFill) + Rate * (time - Earliest)

\* What it rests on before the first refill...
NotRefilled ==
    /\ last_refill = 0 /\ prev_now = 0
    /\ admitted <= FreeFill
    /\ admitted + tokens <= Burst

\* ... and after it: the refills cover the tokens and the admissions.
RefillsCover ==
    /\ Earliest <= last_refill
    /\ 1000 * (admitted + tokens) <=
            1000 * (Burst + FreeFill) + Rate * (last_refill - Earliest)

LimiterInv ==
    /\ LimiterTypeOK
    /\ last_refill <= time
    /\ NotRefilled \/ RefillsCover

-----------------------------------------------------------------------------
(* What comments, tests or RFCs of the repository say, and the code does not   *)
(* do: TLC refutes each of these (README.md, "Disagreements").                 *)

\* "100 envelopes/s sustained, 500 burst": the limiter is never stricter: it
\* refuses an envelope only when the ideal bucket holds less than a token.
RefusalJustified == ~verdict.ok => verdict.credit < 1000
=============================================================================
