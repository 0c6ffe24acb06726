----------------------------- MODULE RateLimiter -----------------------------
(* TokenBucketRateLimiter of src/mock_model_smoke/src/core/rate-limiter.mjs. *)
(* The bucket is refilled only when somebody calls acquire.  Amounts are     *)
(* integers: a token is Cost units and a tick of the clock brings Rate       *)
(* units, so any rational requestsPerSecond has an instance; rounding of the *)
(* floating-point numbers is left out.                                       *)
EXTENDS Integers

CONSTANTS
    Callers,
    Capacity,  \* burst, in units
    Rate,      \* units per tick
    Cost       \* units per token; every caller acquires one token

ASSUME LimiterAssumption ==
    /\ Capacity \in Nat /\ Rate \in Nat \ {0} /\ Cost \in Nat \ {0}
    /\ Cost <= Capacity   \* capacity = max(1, burst)

VARIABLES
    tokens,
    elapsed,   \* ticks since lastRefillMs, up to a full bucket's worth
    caller,    \* calling, asleep in acquire, or granted
    sleep      \* ticks until the timer of a sleeping caller may fire

limiterVars == <<tokens, elapsed, caller, sleep>>

AtMost(limit, n) == IF n > limit THEN limit ELSE n
RoundUp(n, d) == (n + d - 1) \div d

LimiterTypeOK ==
    /\ tokens \in 0 .. Capacity
    /\ elapsed \in 0 .. Capacity
    /\ caller \in [Callers -> {"calling", "asleep", "granted"}]
    /\ sleep \in [Callers -> 0 .. Cost]

LimiterInit ==
    /\ tokens = Capacity /\ elapsed = 0
    /\ caller = [c \in Callers |-> "calling"]
    /\ sleep = [c \in Callers |-> 0]

\* What refill makes of tokens; lastRefillMs becomes now.
Refilled == AtMost(Capacity, tokens + elapsed * Rate)

\* One round of acquire's loop, up to its return or its sleep.
MayTry(c) ==
    \/ caller[c] = "calling"
    \/ caller[c] = "asleep" /\ sleep[c] = 0

\* Variant: the time of the last refill is not moved.
RefillForgets == UNCHANGED elapsed
RefillTime == elapsed' = 0

Grant(c) ==
    /\ MayTry(c)
    /\ Refilled >= Cost
    /\ tokens' = Refilled - Cost
    /\ RefillTime
    /\ caller' = [caller EXCEPT ![c] = "granted"]
    /\ UNCHANGED sleep

GoToSleep(c) ==
    /\ MayTry(c)
    /\ Refilled < Cost
    /\ tokens' = Refilled
    /\ RefillTime
    /\ caller' = [caller EXCEPT ![c] = "asleep"]
    /\ sleep' = [sleep EXCEPT ![c] = RoundUp(Cost - Refilled, Rate)]

\* The clock, as long as somebody may look at it.  More than Capacity ticks
\* fill any bucket, so they count as that.
Tick ==
    /\ \E c \in Callers : caller[c] # "granted"
    /\ elapsed' = AtMost(Capacity, elapsed + 1)
    /\ sleep' = [c \in Callers |-> IF sleep[c] > 0 THEN sleep[c] - 1 ELSE 0]
    /\ UNCHANGED <<tokens, caller>>

LimiterNext == (\E c \in Callers : Grant(c) \/ GoToSleep(c)) \/ Tick

LimiterSpec == LimiterInit /\ [][LimiterNext]_limiterVars

\* The lazily refilled bucket implements the ideal one: no caller passes that
\* the ideal bucket would hold back.
Granted == {c \in Callers : caller[c] = "granted"}
Ideal == INSTANCE TokenBucket WITH level <- Refilled, passed <- Granted
=============================================================================
