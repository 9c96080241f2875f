----------------------------- MODULE RateLimiter -----------------------------
(***************************************************************************)
(* The token buckets of the API (internal/ratelimit), as the middleware    *)
(* uses them.  Time is counted in ticks short enough for one unit of the   *)
(* allowance to come back in each: Period \div Rate ticks make one action, *)
(* so Cost is that quotient.  Every rule of limiter.go divides evenly, to  *)
(* the nanosecond; the rounding of float64 is left out.                    *)
(*                                                                         *)
(* `mu' is held from the reading of the clock to the return of Allow and   *)
(* of Sweep, so each is one step, and time.Now is monotonic.               *)
(***************************************************************************)
EXTENDS Integers

CONSTANTS
  Callers,    \* the keys of the map: client addresses or principals
  Burst,      \* actions available at once
  Cost,       \* units of one action
  Second,     \* ticks in a second
  IdleTimes,  \* what Sweep may be called with
  MaxTime,    \* bound of the clock
  None

Full == Burst * Cost

ASSUME LimiterAssumption ==
  /\ Burst \in Nat \ {0} /\ Cost \in Nat \ {0} /\ Second \in Nat \ {0} /\ MaxTime \in Nat
  /\ IdleTimes \subseteq Nat
  /\ None \notin [tokens : Nat, lastSeen : Nat]

VARIABLES
  clock,
  buckets,  \* the map: a bucket, or None for a key that has none
  answer,   \* of the middleware, to the last request
  taken,    \* history: the units every caller was allowed since the start
  permitted \* history: every action allowed, with what its caller had taken by then

limiterVars == <<clock, buckets, answer, taken, permitted>>

Bucket == [tokens : 0..Full, lastSeen : Nat]

\* Mutant: an allowance keeps growing while nobody asks.
Uncapped(b) == b.tokens + (clock - b.lastSeen)

\* What a bucket holds by now; computed when it is touched, never in between.
refilled(b) ==
  LET elapsed == clock - b.lastSeen
  IN  IF elapsed <= 0 THEN b.tokens
      ELSE IF b.tokens + elapsed < Full THEN b.tokens + elapsed ELSE Full

\* A key without a bucket gets a full one.
BucketOf(k) == IF buckets[k] = None THEN [tokens |-> Full, lastSeen |-> clock] ELSE buckets[k]

TokensOf(k) == refilled(BucketOf(k))

\* Retry-After: the wait in whole seconds, and one more.
RetryAfter(wait) == (wait \div Second) + 1

LimiterInit ==
  /\ clock = 0
  /\ buckets = [k \in Callers |-> None]
  /\ answer = None
  /\ taken = [k \in Callers |-> 0]
  /\ permitted = {}

Elapse ==
  /\ clock < MaxTime
  /\ clock' = clock + 1
  /\ UNCHANGED <<buckets, answer, taken, permitted>>

\* A request that there are tokens for.
Allow(k) ==
  /\ TokensOf(k) >= Cost
  /\ buckets' = [buckets EXCEPT ![k] = [tokens |-> TokensOf(k) - Cost, lastSeen |-> clock]]
  /\ answer' = [key |-> k, allowed |-> TRUE, at |-> clock]
  /\ taken' = [taken EXCEPT ![k] = @ + Cost]
  /\ permitted' = permitted \cup {[key |-> k, at |-> clock, total |-> taken[k] + Cost]}
  /\ UNCHANGED clock

\* A request that is refused, with 429 and the time to come back.
Deny(k) ==
  /\ TokensOf(k) < Cost
  /\ buckets' = [buckets EXCEPT ![k] = [tokens |-> TokensOf(k), lastSeen |-> clock]]
  /\ answer' = [key |-> k, allowed |-> FALSE, at |-> clock + RetryAfter(Cost - TokensOf(k)) * Second]
  /\ UNCHANGED <<clock, taken, permitted>>

\* Mutant: an idle bucket is forgotten whatever it lacks.
SweepAnyIdle(idleFor) ==
  /\ buckets' = [k \in Callers |->
       IF buckets[k] # None /\ buckets[k].lastSeen < clock - idleFor THEN None ELSE buckets[k]]
  /\ UNCHANGED <<clock, answer, taken, permitted>>

\* Sweep: forget the buckets that are as good as new and were not touched lately.
SweepIdle(idleFor) ==
  /\ buckets' = [k \in Callers |->
       IF /\ buckets[k] # None
          /\ buckets[k].lastSeen < clock - idleFor
          /\ refilled(buckets[k]) >= Full
       THEN None ELSE buckets[k]]
  /\ UNCHANGED <<clock, answer, taken, permitted>>

LimiterNext ==
  \/ Elapse
  \/ \E k \in Callers : Allow(k) \/ Deny(k)
  \/ \E idleFor \in IdleTimes : SweepIdle(idleFor)

LimiterSpec == LimiterInit /\ [][LimiterNext]_limiterVars

-----------------------------------------------------------------------------
(* Properties *)

LimiterTypeOK ==
  /\ clock \in Nat
  /\ buckets \in [Callers -> Bucket \cup {None}]
  /\ taken \in [Callers -> Nat]
  /\ permitted \subseteq [key : Callers, at : Nat, total : Nat]

\* Buckets that are refilled only when touched, and forgotten when idle, give
\* every answer that an allowance refilled at every tick and never forgotten
\* would give, the time to come back included.
Promised == INSTANCE Allowance WITH
  Keys  <- Callers,
  Slack <- Second,
  level <- [k \in Callers |-> TokensOf(k)],
  clock <- clock,
  reply <- answer
ImplementsAllowance == Promised!Spec

\* Between any two actions that were allowed to a key, both included, no more
\* was allowed than the burst and what came back in between: no sequence of
\* requests, waits and sweeps gives an allowance back early.
InAnyWindow ==
  \A a, b \in permitted :
    a.key = b.key /\ a.total <= b.total => (b.total - a.total) + Cost <= Full + (b.at - a.at)
=============================================================================
