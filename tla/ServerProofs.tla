----------------------------- MODULE ServerProofs -----------------------------
(***************************************************************************)
(* Theorems of RateLimiter, for every rule, set of keys and pattern of     *)
(* sweeps, and of Migrations, for any processes and builds.                *)
(***************************************************************************)
EXTENDS RateLimiter, Migrations, TLAPS, SequenceTheorems

-----------------------------------------------------------------------------
(* The rate limiter *)

\* No bucket was seen, and nothing allowed, at a moment still to come.
NothingAhead ==
  /\ \A k \in Callers : buckets[k] # None => buckets[k].lastSeen <= clock
  /\ \A a \in permitted : a.at <= clock /\ a.total <= taken[a.key]

\* What a key was allowed since any of its actions, that one included, and what
\* it may still spend at once are within the burst and what came back since.
Reserve ==
  \A a \in permitted : (taken[a.key] - a.total) + Cost + TokensOf(a.key) <= Full + (clock - a.at)

WInv == LimiterTypeOK /\ NothingAhead /\ Reserve /\ InAnyWindow

LEMMA FullFacts == Full \in Nat /\ Cost \in Nat /\ Cost > 0 /\ Cost <= Full
<1>1. Burst \in Nat /\ Burst >= 1 /\ Cost \in Nat /\ Cost >= 1
  BY LimiterAssumption
<1>2. Burst * Cost \in Nat /\ Cost <= Burst * Cost
  BY <1>1
<1>. QED
  BY <1>1, <1>2 DEF Full

LEMMA BucketIsNotNil == ASSUME NEW b \in Bucket PROVE b # None
<1>1. b \in [tokens : Nat, lastSeen : Nat]
  BY FullFacts DEF Bucket
<1>. QED
  BY <1>1, LimiterAssumption

\* What a bucket holds is between nothing and the burst.
LEMMA RefilledRange ==
  ASSUME NEW b \in Bucket, clock \in Nat
  PROVE  refilled(b) \in 0..Full
<1>1. b.tokens \in 0..Full /\ b.lastSeen \in Nat
  BY DEF Bucket
<1>. QED
  BY <1>1, FullFacts DEF refilled

LEMMA TokensRange ==
  ASSUME LimiterTypeOK, NEW k \in Callers
  PROVE  TokensOf(k) \in 0..Full
<1>1. BucketOf(k) \in Bucket
  BY FullFacts DEF BucketOf, Bucket, LimiterTypeOK
<1>. QED
  BY <1>1, RefilledRange DEF TokensOf, LimiterTypeOK

\* A tick brings one unit back, whether or not the bucket is touched.
LEMMA ElapseBringsBack ==
  ASSUME LimiterTypeOK, NothingAhead, Elapse, NEW k \in Callers
  PROVE  TokensOf(k)' = IF TokensOf(k) < Full THEN TokensOf(k) + 1 ELSE Full
<1>1. clock \in Nat /\ clock' = clock + 1 /\ buckets' = buckets
  BY DEF Elapse, LimiterTypeOK
<1>2. CASE buckets[k] = None
  <2>1. TokensOf(k) = Full
    BY <1>1, <1>2, FullFacts DEF TokensOf, BucketOf, refilled
  <2>2. TokensOf(k)' = Full
    BY <1>1, <1>2, FullFacts DEF TokensOf, BucketOf, refilled
  <2>. QED
    BY <2>1, <2>2, FullFacts
<1>3. CASE buckets[k] # None
  <2>1. PICK b : b = buckets[k]
    OBVIOUS
  <2>2. b \in Bucket /\ b.tokens \in 0..Full /\ b.lastSeen \in Nat /\ b.lastSeen <= clock
    BY <1>3, <2>1 DEF LimiterTypeOK, NothingAhead, Bucket
  <2>3. TokensOf(k) = refilled(b)
    BY <1>3, <2>1 DEF TokensOf, BucketOf
  <2>4. TokensOf(k)' = refilled(b)'
    BY <1>1, <1>3, <2>1 DEF TokensOf, BucketOf, refilled
  <2>5. refilled(b)' = IF refilled(b) < Full THEN refilled(b) + 1 ELSE Full
    BY <1>1, <2>2, FullFacts DEF refilled
  <2>. QED
    BY <2>3, <2>4, <2>5
<1>. QED
  BY <1>2, <1>3

\* A request leaves its key with what it stored, and the other keys alone.
LEMMA TouchStores ==
  ASSUME LimiterTypeOK, clock' = clock, NEW k \in Callers, NEW n \in 0..Full,
         buckets' = [buckets EXCEPT ![k] = [tokens |-> n, lastSeen |-> clock]], NEW l \in Callers
  PROVE  TokensOf(l)' = IF l = k THEN n ELSE TokensOf(l)
<1>1. clock \in Nat /\ clock - clock = 0
  BY DEF LimiterTypeOK
<1>2. CASE l = k
  <2>1. PICK b : b = [tokens |-> n, lastSeen |-> clock]
    OBVIOUS
  <2>2. b \in Bucket /\ b.tokens = n /\ b.lastSeen = clock
    BY <1>1, <2>1 DEF Bucket
  <2>3. buckets'[l] = b /\ b # None
    BY <1>2, <2>1, <2>2, BucketIsNotNil DEF LimiterTypeOK
  <2>4. refilled(b)' = n
    BY <1>1, <2>2 DEF refilled
  <2>5. TokensOf(l)' = refilled(b)'
    BY <2>3 DEF TokensOf, BucketOf, refilled
  <2>. QED
    BY <1>2, <2>4, <2>5
<1>3. CASE l # k
  <2>1. buckets'[l] = buckets[l]
    BY <1>3 DEF LimiterTypeOK
  <2>2. TokensOf(l)' = TokensOf(l)
    BY <2>1 DEF TokensOf, BucketOf, refilled
  <2>. QED
    BY <1>3, <2>2
<1>. QED
  BY <1>2, <1>3

\* Forgetting a bucket that is as good as new changes what no key may spend.
LEMMA SweepIsUnseen ==
  ASSUME LimiterTypeOK, NEW d \in IdleTimes, SweepIdle(d), NEW k \in Callers
  PROVE  TokensOf(k)' = TokensOf(k)
<1>1. clock' = clock /\ clock \in Nat
  BY DEF SweepIdle, LimiterTypeOK
<1>2. CASE buckets'[k] = buckets[k]
  BY <1>1, <1>2 DEF TokensOf, BucketOf, refilled
<1>3. CASE buckets'[k] # buckets[k]
  <2>1. buckets[k] # None /\ buckets'[k] = None /\ refilled(buckets[k]) >= Full
    BY <1>3 DEF SweepIdle
  <2>2. buckets[k] \in Bucket
    BY <2>1 DEF LimiterTypeOK
  <2>3. TokensOf(k) = Full
    BY <1>1, <2>1, <2>2, RefilledRange, FullFacts DEF TokensOf, BucketOf
  <2>4. TokensOf(k)' = Full
    BY <1>1, <2>1, FullFacts DEF TokensOf, BucketOf, refilled
  <2>. QED
    BY <2>3, <2>4
<1>. QED
  BY <1>2, <1>3

LEMMA WInvInit == LimiterInit => WInv
<1>. SUFFICES ASSUME LimiterInit PROVE WInv
  OBVIOUS
<1>1. LimiterTypeOK /\ NothingAhead
  BY DEF LimiterInit, LimiterTypeOK, NothingAhead
<1>2. Reserve /\ InAnyWindow
  BY DEF LimiterInit, Reserve, InAnyWindow
<1>. QED
  BY <1>1, <1>2 DEF WInv

\* Time passes: every key may spend at most one unit more.
LEMMA ElapseKeeps == ASSUME WInv, Elapse PROVE WInv'
<1>1. /\ clock \in Nat /\ clock' = clock + 1
      /\ buckets' = buckets /\ taken' = taken /\ permitted' = permitted
  BY DEF Elapse, WInv, LimiterTypeOK
<1>2. LimiterTypeOK' /\ NothingAhead'
  BY <1>1 DEF WInv, LimiterTypeOK, NothingAhead, Bucket
<1>3. ASSUME NEW a \in permitted
      PROVE  (taken[a.key] - a.total) + Cost + TokensOf(a.key)' <= Full + (clock' - a.at)
  <2>1. a.key \in Callers /\ a.total \in Nat /\ a.at \in Nat /\ taken[a.key] \in Nat
    BY <1>3 DEF WInv, LimiterTypeOK
  <2>2. TokensOf(a.key) \in 0..Full /\ TokensOf(a.key)' <= TokensOf(a.key) + 1
    BY <2>1, TokensRange, ElapseBringsBack, FullFacts DEF WInv
  <2>3. TokensOf(a.key)' \in Int
    BY <2>1, <2>2, ElapseBringsBack, FullFacts DEF WInv
  <2>4. (taken[a.key] - a.total) + Cost + TokensOf(a.key) <= Full + (clock - a.at)
    BY <1>3 DEF WInv, Reserve
  <2>. QED
    BY <1>1, <2>1, <2>2, <2>3, <2>4, FullFacts
<1>4. Reserve'
  BY <1>1, <1>3 DEF Reserve
<1>5. InAnyWindow'
  BY <1>1 DEF WInv, InAnyWindow
<1>. QED
  BY <1>2, <1>4, <1>5 DEF WInv

\* A request that is allowed: what it takes from the bucket is what is added to
\* what its key was allowed since any of its actions.
LEMMA AllowKeeps == ASSUME WInv, NEW k \in Callers, Allow(k) PROVE WInv'
<1>. DEFINE left == TokensOf(k) - Cost
            new  == [key |-> k, at |-> clock, total |-> taken[k] + Cost]
<1>1. LimiterTypeOK /\ NothingAhead /\ Reserve /\ InAnyWindow
  BY DEF WInv
<1>2. TokensOf(k) \in 0..Full /\ TokensOf(k) >= Cost /\ taken[k] \in Nat /\ clock \in Nat
  BY <1>1, TokensRange DEF Allow, LimiterTypeOK
<1>3. left \in 0..Full /\ left \in Int /\ TokensOf(k) = left + Cost
  BY <1>2, FullFacts
<1>4. /\ clock' = clock
      /\ buckets' = [buckets EXCEPT ![k] = [tokens |-> left, lastSeen |-> clock]]
      /\ taken' = [taken EXCEPT ![k] = taken[k] + Cost]
      /\ permitted' = permitted \cup {new}
  BY DEF Allow
<1>5. \A l \in Callers : TokensOf(l)' = IF l = k THEN left ELSE TokensOf(l)
  BY <1>1, <1>3, <1>4, TouchStores
<1>6. /\ taken' \in [Callers -> Nat] /\ taken'[k] = taken[k] + Cost
      /\ \A l \in Callers : l # k => taken'[l] = taken[l]
  BY <1>1, <1>2, <1>4, FullFacts DEF LimiterTypeOK
<1>7. new.key = k /\ new.at = clock /\ new.total = taken[k] + Cost /\ new.total \in Nat
  BY <1>2, FullFacts
<1>8. LimiterTypeOK'
  <2>1. [tokens |-> left, lastSeen |-> clock] \in Bucket
    BY <1>2, <1>3 DEF Bucket
  <2>2. buckets' \in [Callers -> Bucket \cup {None}]
    BY <1>1, <1>4, <2>1 DEF LimiterTypeOK
  <2>3. new \in [key : Callers, at : Nat, total : Nat]
    BY <1>2, <1>7
  <2>4. permitted' \subseteq [key : Callers, at : Nat, total : Nat]
    BY <1>1, <1>4, <2>3 DEF LimiterTypeOK
  <2>. QED
    BY <1>2, <1>4, <1>6, <2>2, <2>4 DEF LimiterTypeOK, Bucket
<1>. HIDE DEF left, new
<1>9. NothingAhead'
  <2>1. ASSUME NEW l \in Callers, buckets'[l] # None PROVE buckets'[l].lastSeen <= clock
    <3>1. CASE l = k
      BY <1>1, <1>2, <1>4, <3>1 DEF LimiterTypeOK
    <3>2. CASE l # k
      BY <1>1, <1>4, <2>1, <3>2 DEF LimiterTypeOK, NothingAhead
    <3>. QED
      BY <3>1, <3>2
  <2>2. ASSUME NEW a \in permitted' PROVE a.at <= clock /\ a.total <= taken'[a.key]
    <3>1. CASE a = new
      BY <1>2, <1>6, <1>7, <3>1
    <3>2. CASE a \in permitted
      <4>1. a.key \in Callers /\ a.total \in Nat /\ a.at <= clock /\ a.total <= taken[a.key]
        BY <1>1, <3>2 DEF LimiterTypeOK, NothingAhead
      <4>. QED
        BY <1>2, <1>6, <4>1, FullFacts
    <3>. QED
      BY <1>4, <2>2, <3>1, <3>2
  <2>. QED
    BY <1>4, <2>1, <2>2 DEF NothingAhead
<1>10. ASSUME NEW a \in permitted
       PROVE  (taken'[a.key] - a.total) + Cost + TokensOf(a.key)' <= Full + (clock - a.at)
  <2>1. /\ a.key \in Callers /\ a.total \in Nat /\ a.at \in Nat /\ taken[a.key] \in Nat
        /\ (taken[a.key] - a.total) + Cost + TokensOf(a.key) <= Full + (clock - a.at)
    BY <1>1, <1>10 DEF LimiterTypeOK, Reserve
  <2>2. CASE a.key = k
    BY <1>2, <1>3, <1>5, <1>6, <2>1, <2>2, FullFacts
  <2>3. CASE a.key # k
    BY <1>5, <1>6, <2>1, <2>3
  <2>. QED
    BY <2>2, <2>3
<1>11. (taken'[k] - new.total) + Cost + TokensOf(k)' <= Full + (clock - new.at)
  BY <1>2, <1>3, <1>5, <1>6, <1>7, FullFacts
<1>12. Reserve'
  <2>. SUFFICES ASSUME NEW a \in permitted'
                PROVE  (taken'[a.key] - a.total) + Cost + TokensOf(a.key)' <= Full + (clock - a.at)
    BY <1>4 DEF Reserve
  <2>1. CASE a = new
    BY <1>7, <1>11, <2>1
  <2>2. CASE a \in permitted
    BY <1>10, <2>2
  <2>. QED
    BY <1>4, <2>1, <2>2
\* The window from an earlier action to this one.
<1>13. ASSUME NEW a \in permitted, a.key = k
       PROVE  (new.total - a.total) + Cost <= Full + (new.at - a.at)
  <2>1. /\ a.total \in Nat /\ a.at \in Nat
        /\ (taken[k] - a.total) + Cost + TokensOf(k) <= Full + (clock - a.at)
    BY <1>1, <1>13 DEF LimiterTypeOK, Reserve
  <2>. QED
    BY <1>2, <1>7, <2>1, FullFacts
<1>14. InAnyWindow'
  <2>. SUFFICES ASSUME NEW a \in permitted', NEW b \in permitted', a.key = b.key, a.total <= b.total
                PROVE  (b.total - a.total) + Cost <= Full + (b.at - a.at)
    BY DEF InAnyWindow
  <2>1. CASE a \in permitted /\ b \in permitted
    BY <1>1, <2>1 DEF InAnyWindow
  <2>2. CASE a \in permitted /\ b = new
    BY <1>7, <1>13, <2>2
  <2>3. CASE a = new /\ b = new
    BY <1>2, <1>7, <2>3, FullFacts
  <2>4. CASE a = new /\ b \in permitted
    <3>1. b.key = k /\ b.total \in Nat /\ b.total <= taken[k]
      BY <1>1, <1>7, <2>4 DEF LimiterTypeOK, NothingAhead
    <3>. QED
      BY <1>2, <1>7, <2>4, <3>1, FullFacts
  <2>. QED
    BY <1>4, <2>1, <2>2, <2>3, <2>4
<1>. QED
  BY <1>8, <1>9, <1>12, <1>14 DEF WInv

\* A request that is refused and a sweep: no key may spend less or more.
LEMMA SameTokensKeep ==
  ASSUME WInv, LimiterTypeOK', clock' = clock, taken' = taken, permitted' = permitted,
         \A k \in Callers : TokensOf(k)' = TokensOf(k),
         \A k \in Callers : buckets'[k] # None => buckets'[k].lastSeen <= clock
  PROVE  WInv'
<1>1. NothingAhead'
  BY DEF WInv, NothingAhead
<1>2. InAnyWindow'
  BY DEF WInv, InAnyWindow
<1>3. \A a \in permitted : a.key \in Callers
  BY DEF WInv, LimiterTypeOK
<1>4. Reserve'
  BY <1>3 DEF WInv, Reserve
<1>. QED
  BY <1>1, <1>2, <1>4 DEF WInv

\* What a refused request leaves in the bucket is what was there by then.
LEMMA RefuseStores ==
  ASSUME WInv, NEW k \in Callers, Deny(k)
  PROVE  /\ LimiterTypeOK' /\ \A l \in Callers : TokensOf(l)' = TokensOf(l)
         /\ \A l \in Callers : buckets'[l] # None => buckets'[l].lastSeen <= clock
<1>1. LimiterTypeOK /\ NothingAhead /\ clock \in Nat
  BY DEF WInv, LimiterTypeOK
<1>2. TokensOf(k) \in 0..Full
  BY <1>1, TokensRange
<1>3. PICK n \in 0..Full : n = TokensOf(k)
  BY <1>2
<1>4. /\ clock' = clock /\ taken' = taken /\ permitted' = permitted
      /\ buckets' = [buckets EXCEPT ![k] = [tokens |-> n, lastSeen |-> clock]]
  BY <1>3 DEF Deny
<1>5. \A l \in Callers : TokensOf(l)' = TokensOf(l)
  BY <1>1, <1>3, <1>4, TouchStores
<1>6. [tokens |-> n, lastSeen |-> clock] \in Bucket
  BY <1>1, <1>3 DEF Bucket
<1>7. buckets' \in [Callers -> Bucket \cup {None}]
  BY <1>1, <1>4, <1>6 DEF LimiterTypeOK
<1>8. LimiterTypeOK'
  BY <1>1, <1>4, <1>7 DEF LimiterTypeOK, Bucket
<1>9. ASSUME NEW l \in Callers, buckets'[l] # None PROVE buckets'[l].lastSeen <= clock
  <2>1. CASE l = k
    BY <1>1, <1>4, <2>1 DEF LimiterTypeOK
  <2>2. CASE l # k
    BY <1>1, <1>4, <1>9, <2>2 DEF LimiterTypeOK, NothingAhead
  <2>. QED
    BY <2>1, <2>2
<1>. QED
  BY <1>5, <1>8, <1>9

LEMMA RefuseKeeps == ASSUME WInv, NEW k \in Callers, Deny(k) PROVE WInv'
BY RefuseStores, SameTokensKeep DEF Deny

LEMMA SweepKeeps == ASSUME WInv, NEW d \in IdleTimes, SweepIdle(d) PROVE WInv'
<1>1. LimiterTypeOK /\ NothingAhead
  BY DEF WInv
<1>2. clock' = clock /\ taken' = taken /\ permitted' = permitted
  BY DEF SweepIdle
<1>3. \A k \in Callers : buckets'[k] \in {buckets[k], None}
  BY DEF SweepIdle
<1>4. buckets' \in [Callers -> Bucket \cup {None}]
  BY <1>1, <1>3 DEF SweepIdle, LimiterTypeOK
<1>5. LimiterTypeOK'
  BY <1>1, <1>2, <1>4 DEF LimiterTypeOK, Bucket
<1>6. \A k \in Callers : TokensOf(k)' = TokensOf(k)
  BY <1>1, SweepIsUnseen
<1>7. \A k \in Callers : buckets'[k] # None => buckets'[k].lastSeen <= clock
  BY <1>1, <1>3 DEF NothingAhead
<1>. QED
  BY <1>2, <1>5, <1>6, <1>7, SameTokensKeep

-----------------------------------------------------------------------------
(* Theorems of the rate limiter *)

\* Whatever is asked, waited and swept, at any rule: the invariant the two
\* theorems below rest on, which ties what a bucket holds to all its key was
\* allowed before.
THEOREM LimiterInductive == LimiterSpec => []WInv
<1>1. LimiterInit => WInv
  BY WInvInit
<1>2. WInv /\ [LimiterNext]_limiterVars => WInv'
  <2>. SUFFICES ASSUME WInv, [LimiterNext]_limiterVars PROVE WInv'
    OBVIOUS
  <2>1. CASE Elapse
    BY <2>1, ElapseKeeps
  <2>2. ASSUME NEW k \in Callers, Allow(k) PROVE WInv'
    BY <2>2, AllowKeeps
  <2>3. ASSUME NEW k \in Callers, Deny(k) PROVE WInv'
    BY <2>3, RefuseKeeps
  <2>4. ASSUME NEW d \in IdleTimes, SweepIdle(d) PROVE WInv'
    BY <2>4, SweepKeeps
  <2>5. CASE UNCHANGED limiterVars
    BY <2>5 DEF limiterVars, WInv, LimiterTypeOK, NothingAhead, Reserve, InAnyWindow, TokensOf,
                BucketOf, refilled, Bucket
  <2>. QED
    BY <2>1, <2>2, <2>3, <2>4, <2>5 DEF LimiterNext
<1>. QED
  BY <1>1, <1>2, PTL DEF LimiterSpec

\* Between any two actions allowed to a key, both included, no more was allowed
\* than the burst and what came back in between.
THEOREM WindowsAreBounded == LimiterSpec => []InAnyWindow
<1>1. WInv => InAnyWindow
  BY DEF WInv
<1>. QED
  BY <1>1, LimiterInductive, PTL

\* A refusal names a moment at which the action is possible, and which is less
\* than a second away from the first such moment.
LEMMA RetryAfterFits ==
  ASSUME NEW wait \in Nat
  PROVE  /\ RetryAfter(wait) * Second \in Nat
         /\ RetryAfter(wait) * Second >= wait
         /\ RetryAfter(wait) * Second <= wait + Second
<1>1. Second \in Nat /\ Second > 0
  BY LimiterAssumption
<1>2. PICK q : q = wait \div Second
  OBVIOUS
<1>3. q \in Nat /\ q * Second <= wait /\ wait < q * Second + Second
  BY <1>1, <1>2
<1>4. RetryAfter(wait) * Second = q * Second + Second
  BY <1>1, <1>2, <1>3 DEF RetryAfter
<1>. QED
  BY <1>1, <1>3, <1>4

LEMMA RefuseIsRefusal ==
  ASSUME WInv, NEW k \in Callers, Deny(k)
  PROVE  Promised!Next
<1>1. TokensOf(k) \in Nat /\ TokensOf(k) < Cost /\ Cost - TokensOf(k) \in Nat /\ clock \in Nat
  BY TokensRange, FullFacts DEF WInv, LimiterTypeOK, Deny
<1>2. /\ answer'.key = k /\ ~answer'.allowed
      /\ answer'.at = clock + RetryAfter(Cost - TokensOf(k)) * Second
  BY DEF Deny
<1>3. /\ answer'.at >= clock + (Cost - TokensOf(k))
      /\ answer'.at <= clock + (Cost - TokensOf(k)) + Second
  <2>1. Second \in Nat
    BY LimiterAssumption
  <2>. QED
    BY <1>1, <1>2, <2>1, RetryAfterFits
<1>4. clock' = clock /\ [l \in Callers |-> TokensOf(l)]' = [l \in Callers |-> TokensOf(l)]
  BY RefuseStores DEF Deny
<1>5. Promised!Refuse(k)
  BY <1>1, <1>2, <1>3, <1>4 DEF Promised!Refuse
<1>. QED
  BY <1>5 DEF Promised!Next

LEMMA AllowIsPermit ==
  ASSUME WInv, NEW k \in Callers, Allow(k)
  PROVE  Promised!Next
<1>1. LimiterTypeOK /\ TokensOf(k) \in 0..Full /\ TokensOf(k) >= Cost
  BY TokensRange DEF WInv, Allow
<1>2. PICK n \in 0..Full : n = TokensOf(k) - Cost
  BY <1>1, FullFacts
<1>3. \A l \in Callers : TokensOf(l)' = IF l = k THEN n ELSE TokensOf(l)
  BY <1>1, <1>2, TouchStores DEF Allow
<1>4. [l \in Callers |-> TokensOf(l)]' = [[l \in Callers |-> TokensOf(l)] EXCEPT ![k] = @ - Cost]
  BY <1>2, <1>3
<1>5. clock' = clock /\ answer'.key = k /\ answer'.allowed
  BY DEF Allow
<1>6. Promised!Permit(k)
  BY <1>1, <1>4, <1>5 DEF Promised!Permit
<1>. QED
  BY <1>6 DEF Promised!Next

\* Lazy refilling and sweeping cannot be told from an allowance that is
\* refilled at every tick and never forgotten: every answer is one that such an
\* allowance gives.
THEOREM LimiterKeepsItsPromise == LimiterSpec => ImplementsAllowance
<1>1. LimiterInit => Promised!Init
  BY FullFacts DEF LimiterInit, Promised!Init, TokensOf, BucketOf, refilled
<1>2. WInv /\ [LimiterNext]_limiterVars => [Promised!Next]_Promised!allowanceVars
  <2>. SUFFICES ASSUME WInv, [LimiterNext]_limiterVars
                PROVE  Promised!Next \/ UNCHANGED Promised!allowanceVars
    OBVIOUS
  <2>1. CASE Elapse
    <3>1. \A k \in Callers : TokensOf(k)' = IF TokensOf(k) < Full THEN TokensOf(k) + 1 ELSE Full
      BY <2>1, ElapseBringsBack DEF WInv
    <3>2. Promised!Tick
      BY <2>1, <3>1 DEF Elapse, Promised!Tick
    <3>. QED
      BY <3>2 DEF Promised!Next
  <2>2. ASSUME NEW k \in Callers, Allow(k) PROVE Promised!Next
    BY <2>2, AllowIsPermit
  <2>3. ASSUME NEW k \in Callers, Deny(k) PROVE Promised!Next
    BY <2>3, RefuseIsRefusal
  <2>4. ASSUME NEW d \in IdleTimes, SweepIdle(d) PROVE UNCHANGED Promised!allowanceVars
    <3>1. \A k \in Callers : TokensOf(k)' = TokensOf(k)
      BY <2>4, SweepIsUnseen DEF WInv
    <3>. QED
      BY <2>4, <3>1 DEF SweepIdle, Promised!allowanceVars
  <2>5. CASE UNCHANGED limiterVars
    BY <2>5 DEF limiterVars, Promised!allowanceVars, TokensOf, BucketOf, refilled
  <2>. QED
    BY <2>1, <2>2, <2>3, <2>4, <2>5 DEF LimiterNext
<1>. QED
  BY <1>1, <1>2, LimiterInductive, PTL DEF LimiterSpec, ImplementsAllowance, Promised!Spec

-----------------------------------------------------------------------------
(* Migrations *)

Stages == {"off", "connected", "locked", "looping", "executed"}

MigrationsTypeOK ==
  /\ schema \in Seq(File)
  /\ table \subseteq File
  /\ at \in [Processes -> Stages]
  /\ build \in [Processes -> Builds]
  /\ recorded \in [Processes -> SUBSET File]
  /\ next \in [Processes -> Nat \ {0}]

\* schema_migrations lists what was executed: the row and the effects of a file
\* are of one transaction.
TableTells == \A f \in File : f \in table <=> Executed(f)

\* Whoever is past the lock holds it.
Holding == \A p \in Processes : at[p] \in {"locked", "looping", "executed"} => holder = p

\* What p has gone through.
Behind(p) == {Files[build[p]][j] : j \in 1..(next[p] - 1)}

\* Past the reading: the table is what the process read of it and what it has
\* gone through since, and a file it executes is in neither.
Position(p) ==
  /\ next[p] <= Len(Files[build[p]]) + 1
  /\ table = recorded[p] \cup Behind(p)
  /\ at[p] = "executed" => next[p] <= Len(Files[build[p]]) /\ ~Recorded(p)

InPlace == \A p \in Processes : at[p] \in {"looping", "executed"} => Position(p)

\* Whoever has not read yet looks at the first file.
AtTheStart == \A p \in Processes : at[p] \in {"connected", "locked"} => next[p] = 1

MInv == MigrationsTypeOK /\ TableTells /\ Holding /\ AtTheStart /\ InPlace

LEMMA FilesAreFiles ==
  ASSUME NEW b \in Builds
  PROVE  /\ Files[b] \in Seq(File) /\ Len(Files[b]) \in Nat
         /\ \A i \in 1..Len(Files[b]) : Files[b][i] \in File
<1>1. Files[b] \in Seq(File)
  BY MigrationAssumption
<1>. QED
  BY <1>1

LEMMA MInvInit == MigrateInit => MInv
<1>. SUFFICES ASSUME MigrateInit PROVE MInv
  OBVIOUS
<1>1. schema \in Seq(File) /\ Len(schema) = 0
  BY DEF MigrateInit
<1>2. MigrationsTypeOK
  BY <1>1 DEF MigrateInit, MigrationsTypeOK, Stages
<1>3. TableTells
  BY <1>1 DEF MigrateInit, TableTells, Executed
<1>4. Holding /\ AtTheStart /\ InPlace
  BY DEF MigrateInit, Holding, AtTheStart, InPlace
<1>. QED
  BY <1>2, <1>3, <1>4 DEF MInv

\* Names are sorted in a build: the primary key of schema_migrations is never
\* what stops a process that holds the lock.
LEMMA NameIsNew ==
  ASSUME MInv, NEW p \in Processes, at[p] = "executed"
  PROVE  /\ next[p] \in 1..Len(Files[build[p]]) /\ FileOf(p) \in File
         /\ \A row \in table : row.filename # FileOf(p).filename
<1>1. /\ Position(p) /\ next[p] \in Nat \ {0} /\ build[p] \in Builds
  BY DEF MInv, InPlace, MigrationsTypeOK
<1>2. next[p] \in 1..Len(Files[build[p]])
  BY <1>1, FilesAreFiles DEF Position
<1>3. FileOf(p) \in File
  BY <1>1, <1>2, FilesAreFiles DEF FileOf
<1>4. ASSUME NEW row \in Behind(p) PROVE row.filename # FileOf(p).filename
  <2>1. PICK j \in 1..(next[p] - 1) : row = Files[build[p]][j]
    BY DEF Behind
  <2>2. j \in 1..Len(Files[build[p]]) /\ j < next[p]
    BY <1>2
  <2>3. row.filename < FileOf(p).filename
    BY <1>1, <1>2, <2>1, <2>2, MigrationAssumption DEF FileOf
  <2>4. row \in File
    BY <1>1, <2>1, <2>2, FilesAreFiles
  <2>. QED
    BY <1>3, <2>3, <2>4 DEF File
<1>5. ASSUME NEW row \in recorded[p] PROVE row.filename # FileOf(p).filename
  BY <1>1 DEF Position, Recorded
<1>6. table = recorded[p] \cup Behind(p)
  BY <1>1 DEF Position
<1>. QED
  BY <1>2, <1>3, <1>4, <1>5, <1>6

\* What a process has gone through was executed.
LEMMA BehindWasExecuted ==
  ASSUME MInv, NEW p \in Processes, at[p] \in {"looping", "executed"}, NEW f \in Behind(p)
  PROVE  Executed(f)
<1>1. f \in table
  BY DEF MInv, InPlace, Position
<1>. QED
  BY <1>1 DEF MInv, TableTells, MigrationsTypeOK

LEMMA CommitAppends ==
  ASSUME MInv, NEW p \in Processes, Commit(p)
  PROVE  /\ schema' \in Seq(File) /\ Len(schema') = Len(schema) + 1 /\ Len(schema) \in Nat
         /\ \A i \in 1..Len(schema) : schema'[i] = schema[i]
         /\ schema'[Len(schema) + 1] = FileOf(p)
<1>1. at[p] = "executed" /\ schema' = Append(schema, FileOf(p)) /\ schema \in Seq(File)
  BY DEF Commit, MInv, MigrationsTypeOK
<1>2. FileOf(p) \in File
  BY <1>1, NameIsNew
<1>. QED
  BY <1>1, <1>2

LEMMA CommitTells == ASSUME MInv, NEW p \in Processes, Commit(p) PROVE TableTells'
<1>1. /\ Len(schema') = Len(schema) + 1 /\ Len(schema) \in Nat
      /\ \A i \in 1..Len(schema) : schema'[i] = schema[i]
      /\ schema'[Len(schema) + 1] = FileOf(p)
  BY CommitAppends
<1>2. ASSUME NEW f \in File PROVE Executed(f)' <=> Executed(f) \/ f = FileOf(p)
  <2>1. ASSUME Executed(f) PROVE Executed(f)'
    <3>1. PICK k \in 1..Len(schema) : schema[k] = f
      BY <2>1 DEF Executed
    <3>2. k \in 1..Len(schema') /\ schema'[k] = f
      BY <1>1, <3>1
    <3>. QED
      BY <3>2 DEF Executed
  <2>2. ASSUME f = FileOf(p) PROVE Executed(f)'
    <3>1. Len(schema) + 1 \in 1..Len(schema')
      BY <1>1
    <3>. QED
      BY <1>1, <2>2, <3>1 DEF Executed
  <2>3. ASSUME Executed(f)' PROVE Executed(f) \/ f = FileOf(p)
    <3>1. PICK k \in 1..Len(schema') : schema'[k] = f
      BY <2>3 DEF Executed
    <3>2. CASE k \in 1..Len(schema)
      BY <1>1, <3>1, <3>2 DEF Executed
    <3>3. CASE k = Len(schema) + 1
      BY <1>1, <3>1, <3>3
    <3>. QED
      BY <1>1, <3>2, <3>3
  <2>. QED
    BY <2>1, <2>2, <2>3
<1>3. table' = table \cup {FileOf(p)}
  BY DEF Commit
<1>. QED
  BY <1>2, <1>3 DEF MInv, TableTells

\* One file more is behind.
LEMMA BehindGrows ==
  ASSUME MInv, NEW p \in Processes, next[p] \in 1..Len(Files[build[p]]),
         build' = build, next'[p] = next[p] + 1
  PROVE  Behind(p)' = Behind(p) \cup {FileOf(p)} /\ next'[p] <= Len(Files[build[p]]) + 1
<1>1. next[p] \in Nat \ {0} /\ Len(Files[build[p]]) \in Nat
  BY FilesAreFiles DEF MInv, MigrationsTypeOK
<1>2. 1..(next'[p] - 1) = (1..(next[p] - 1)) \cup {next[p]}
  BY <1>1
<1>. QED
  BY <1>1, <1>2 DEF Behind, FileOf

LEMMA CommitKeeps == ASSUME MInv, NEW p \in Processes, Commit(p) PROVE MInv'
<1>1. /\ at[p] = "executed" /\ at' = [at EXCEPT ![p] = "looping"]
      /\ next' = [next EXCEPT ![p] = next[p] + 1] /\ table' = table \cup {FileOf(p)}
      /\ holder' = holder /\ build' = build /\ recorded' = recorded
  BY DEF Commit
<1>2. MigrationsTypeOK /\ Holding /\ InPlace
  BY DEF MInv
<1>3. next[p] \in 1..Len(Files[build[p]]) /\ FileOf(p) \in File
  BY <1>1, NameIsNew
<1>4. MigrationsTypeOK'
  <2>1. schema' \in Seq(File)
    BY CommitAppends
  <2>2. table' \subseteq File
    BY <1>1, <1>2, <1>3 DEF MigrationsTypeOK
  <2>3. at' \in [Processes -> Stages]
    BY <1>1, <1>2 DEF MigrationsTypeOK, Stages
  <2>4. next' \in [Processes -> Nat \ {0}]
    BY <1>1, <1>2 DEF MigrationsTypeOK
  <2>. QED
    BY <1>1, <1>2, <2>1, <2>2, <2>3, <2>4 DEF MigrationsTypeOK
<1>5. holder = p /\ \A q \in Processes : q # p => at'[q] \notin {"locked", "looping", "executed"}
  BY <1>1, <1>2 DEF Holding, MigrationsTypeOK
<1>6. Holding'
  BY <1>1, <1>5 DEF Holding
<1>7. Position(p)'
  <2>1. next'[p] = next[p] + 1 /\ at'[p] = "looping" /\ recorded'[p] = recorded[p] /\ Position(p)
    BY <1>1, <1>2 DEF MigrationsTypeOK, InPlace
  <2>2. Behind(p)' = Behind(p) \cup {FileOf(p)} /\ next'[p] <= Len(Files[build[p]]) + 1
    BY <1>1, <1>3, <2>1, BehindGrows
  <2>. QED
    BY <1>1, <2>1, <2>2 DEF Position
<1>8. InPlace'
  BY <1>5, <1>7 DEF InPlace
<1>9. AtTheStart'
  BY <1>1, <1>5 DEF AtTheStart, MInv, MigrationsTypeOK
<1>. QED
  BY <1>4, <1>6, <1>8, <1>9, CommitTells DEF MInv

\* A step of one process that commits nothing, as the others see it.
LEMMA OthersKeepPlace ==
  ASSUME MInv, NEW p \in Processes, schema' = schema, table' = table,
         \A q \in Processes : q # p => /\ at'[q] = at[q] /\ build'[q] = build[q]
                                       /\ recorded'[q] = recorded[q] /\ next'[q] = next[q],
         at'[p] \in {"looping", "executed"} => Position(p)'
  PROVE  InPlace'
<1>. SUFFICES ASSUME NEW q \in Processes, at'[q] \in {"looping", "executed"} PROVE Position(q)'
  BY DEF InPlace
<1>1. CASE q # p
  BY <1>1 DEF MInv, InPlace, Position, Recorded, Behind, FileOf
<1>. QED
  BY <1>1

\* Every step but a commit keeps what the database holds and one process moves.
LEMMA QuietStep ==
  ASSUME MInv, NEW p \in Processes, NEW b \in Builds,
         Connect(p, b) \/ Lock(p) \/ ReadRecorded(p) \/ Skip(p) \/ Execute(p) \/ Close(p)
  PROVE  /\ MigrationsTypeOK' /\ schema' = schema /\ table' = table
         /\ \A q \in Processes : q # p => /\ at'[q] = at[q] /\ build'[q] = build[q]
                                          /\ recorded'[q] = recorded[q] /\ next'[q] = next[q]
<1>1. MigrationsTypeOK
  BY DEF MInv
<1>2. CASE Connect(p, b)
  BY <1>1, <1>2 DEF Connect, MigrationsTypeOK, Stages
<1>3. CASE Lock(p)
  BY <1>1, <1>3 DEF Lock, MigrationsTypeOK, Stages
<1>4. CASE ReadRecorded(p)
  BY <1>1, <1>4 DEF ReadRecorded, MigrationsTypeOK, Stages
<1>5. CASE Skip(p)
  BY <1>1, <1>5 DEF Skip, MigrationsTypeOK, Stages
<1>6. CASE Execute(p)
  BY <1>1, <1>6 DEF Execute, MigrationsTypeOK, Stages
<1>7. CASE Close(p)
  BY <1>1, <1>7 DEF Close, MigrationsTypeOK, Stages
<1>. QED
  BY <1>2, <1>3, <1>4, <1>5, <1>6, <1>7

\* The lock stays with whoever is past it.
LEMMA QuietHolding ==
  ASSUME MInv, NEW p \in Processes, NEW b \in Builds,
         Connect(p, b) \/ Lock(p) \/ ReadRecorded(p) \/ Skip(p) \/ Execute(p) \/ Close(p)
  PROVE  Holding'
<1>1. Holding /\ at \in [Processes -> Stages] /\ p # Nobody
  BY MigrationAssumption DEF MInv, MigrationsTypeOK
<1>2. \A q \in Processes : q # p => at'[q] = at[q]
  BY QuietStep
<1>3. CASE Connect(p, b)
  BY <1>1, <1>3 DEF Connect, Holding
<1>4. CASE Lock(p)
  <2>1. \A q \in Processes : at[q] \notin {"locked", "looping", "executed"}
    BY <1>1, <1>4, MigrationAssumption DEF Lock, Holding
  <2>. QED
    BY <1>1, <1>2, <1>4, <2>1 DEF Lock, Holding
<1>5. CASE ReadRecorded(p) \/ Skip(p) \/ Execute(p)
  <2>1. holder' = holder /\ at[p] \in {"locked", "looping"}
    BY <1>5 DEF ReadRecorded, Skip, Execute
  <2>. QED
    BY <1>1, <1>2, <2>1 DEF Holding
<1>6. CASE Close(p)
  <2>1. at'[p] = "off" /\ holder' = IF holder = p THEN Nobody ELSE holder
    BY <1>1, <1>6 DEF Close
  <2>. QED
    BY <1>1, <1>2, <2>1 DEF Holding
<1>. QED
  BY <1>3, <1>4, <1>5, <1>6

LEMMA ReadInPlace == ASSUME MInv, NEW p \in Processes, ReadRecorded(p) PROVE Position(p)'
<1>1. /\ next' = next /\ table' = table /\ build' = build
      /\ recorded'[p] = table /\ at'[p] = "looping"
  BY DEF ReadRecorded, MInv, MigrationsTypeOK
<1>2. Len(Files[build[p]]) \in Nat
  BY FilesAreFiles DEF MInv, MigrationsTypeOK
<1>3. next[p] = 1
  BY DEF ReadRecorded, MInv, AtTheStart
<1>4. Behind(p)' = {}
  BY <1>1, <1>3 DEF Behind
<1>. QED
  BY <1>1, <1>2, <1>3, <1>4 DEF Position

\* A file is passed by only if it is, word for word, the one that was executed.
LEMMA SkipInPlace == ASSUME MInv, NEW p \in Processes, Skip(p) PROVE Position(p)'
<1>1. /\ table' = table /\ build' = build /\ recorded' = recorded
      /\ next'[p] = next[p] + 1 /\ at'[p] = "looping" /\ FileOf(p) \in recorded[p]
  BY DEF Skip, MInv, MigrationsTypeOK
<1>2. Position(p) /\ next[p] \in 1..Len(Files[build[p]])
  BY FilesAreFiles DEF Skip, MInv, InPlace, MigrationsTypeOK
<1>3. Behind(p)' = Behind(p) \cup {FileOf(p)} /\ next'[p] <= Len(Files[build[p]]) + 1
  BY <1>1, <1>2, BehindGrows
<1>. QED
  BY <1>1, <1>2, <1>3 DEF Position

LEMMA ExecuteInPlace == ASSUME MInv, NEW p \in Processes, Execute(p) PROVE Position(p)'
<1>1. /\ table' = table /\ build' = build /\ recorded' = recorded /\ next' = next
  BY DEF Execute
<1>2. Position(p) /\ ~Recorded(p) /\ next[p] <= Len(Files[build[p]])
  BY DEF Execute, MInv, InPlace
<1>. QED
  BY <1>1, <1>2 DEF Position, Recorded, Behind, FileOf

LEMMA QuietKeeps ==
  ASSUME MInv, NEW p \in Processes, NEW b \in Builds,
         Connect(p, b) \/ Lock(p) \/ ReadRecorded(p) \/ Skip(p) \/ Execute(p) \/ Close(p)
  PROVE  MInv'
<1>1. MigrationsTypeOK' /\ schema' = schema /\ table' = table /\ Holding'
  BY QuietStep, QuietHolding
<1>2. TableTells'
  BY <1>1 DEF MInv, TableTells, Executed
<1>3. at'[p] \in {"looping", "executed"} => Position(p)'
  <2>1. CASE Connect(p, b) \/ Lock(p) \/ Close(p)
    BY <2>1 DEF Connect, Lock, Close, MInv, MigrationsTypeOK
  <2>. QED
    BY <2>1, ReadInPlace, SkipInPlace, ExecuteInPlace
<1>4. InPlace'
  BY <1>1, <1>3, QuietStep, OthersKeepPlace
<1>5. AtTheStart'
  <2>. SUFFICES ASSUME NEW q \in Processes, at'[q] \in {"connected", "locked"} PROVE next'[q] = 1
    BY DEF AtTheStart
  <2>1. CASE q # p
    BY <2>1, QuietStep DEF MInv, AtTheStart
  <2>2. CASE q = p
    BY <2>2 DEF Connect, Lock, ReadRecorded, Skip, Execute, Close, MInv, AtTheStart, MigrationsTypeOK
  <2>. QED
    BY <2>1, <2>2
<1>. QED
  BY <1>1, <1>2, <1>4, <1>5 DEF MInv

-----------------------------------------------------------------------------
(* Theorems of the migrations *)

\* Any number of processes of any builds, interrupted anywhere: the table of
\* migrations tells what was executed, and a process past the lock is where the
\* database is.
THEOREM MigrationsInductive == MigrateSpec => []MInv
<1>1. MigrateInit => MInv
  BY MInvInit
<1>2. MInv /\ [MigrateNext]_migrateVars => MInv'
  <2>. SUFFICES ASSUME MInv, [MigrateNext]_migrateVars PROVE MInv'
    OBVIOUS
  <2>1. ASSUME NEW p \in Processes, Commit(p) PROVE MInv'
    BY <2>1, CommitKeeps
  <2>2. ASSUME NEW p \in Processes, NEW b \in Builds, Connect(p, b) PROVE MInv'
    BY <2>2, QuietKeeps
  <2>3. ASSUME NEW p \in Processes,
               Lock(p) \/ ReadRecorded(p) \/ Skip(p) \/ Execute(p) \/ Close(p)
        PROVE  MInv'
    <3>1. build[p] \in Builds
      BY DEF MInv, MigrationsTypeOK
    <3>. QED
      BY <2>3, <3>1, QuietKeeps
  <2>4. CASE UNCHANGED migrateVars
    BY <2>4 DEF migrateVars, MInv, MigrationsTypeOK, TableTells, Executed, Holding,
                AtTheStart, InPlace, Position, Recorded, Behind, FileOf
  <2>. QED
    BY <2>1, <2>2, <2>3, <2>4 DEF MigrateNext
<1>. QED
  BY <1>1, <1>2, PTL DEF MigrateSpec

\* What a step does to the schema.
OnItsBase ==
  \E b \in Builds : \E i \in 1..Len(Files[b]) :
    /\ schema' = Append(schema, Files[b][i])
    /\ \A j \in 1..(i - 1) : Executed(Files[b][j])
    /\ \A k \in 1..Len(schema) : schema[k].filename # Files[b][i].filename

LEMMA CommitOnItsBase ==
  ASSUME MInv, [MigrateNext]_migrateVars, schema' # schema
  PROVE  OnItsBase
<1>1. PICK p \in Processes : Commit(p)
  BY DEF MigrateNext, migrateVars, Connect, Lock, ReadRecorded, Skip, Execute, Close
<1>2. at[p] = "executed" /\ schema' = Append(schema, FileOf(p)) /\ build[p] \in Builds
  BY <1>1 DEF Commit, MInv, MigrationsTypeOK
<1>3. /\ next[p] \in 1..Len(Files[build[p]])
      /\ \A row \in table : row.filename # FileOf(p).filename
  BY <1>2, NameIsNew
<1>4. \A j \in 1..(next[p] - 1) : Executed(Files[build[p]][j])
  BY <1>2, BehindWasExecuted DEF Behind
<1>5. ASSUME NEW k \in 1..Len(schema) PROVE schema[k].filename # FileOf(p).filename
  <2>1. schema[k] \in File
    BY DEF MInv, MigrationsTypeOK
  <2>2. schema[k] \in table
    BY <2>1 DEF MInv, TableTells, Executed
  <2>. QED
    BY <1>3, <2>2
<1>. QED
  BY <1>2, <1>3, <1>4, <1>5 DEF OnItsBase, FileOf

\* The schema moves by one whole file at a time, never by two of one name, and
\* each is executed on top of everything that came before it in its build.
THEOREM EachFileIsOnItsBase == MigrateSpec => EachFileOnItsBase
<1>1. MigrateInit => schema = <<>>
  BY DEF MigrateInit
<1>2. MInv /\ [MigrateNext]_migrateVars => [OnItsBase]_schema
  BY CommitOnItsBase
<1>. QED
  BY <1>1, <1>2, MigrationsInductive, PTL DEF MigrateSpec, EachFileOnItsBase, OnItsBase

\* Under the lock no INSERT into schema_migrations meets its primary key.
THEOREM NoNameTwice ==
  MigrateSpec => [](\A p \in Processes : at[p] = "executed" =>
                      \A row \in table : row.filename # FileOf(p).filename)
<1>1. MInv => \A p \in Processes : at[p] = "executed" =>
                \A row \in table : row.filename # FileOf(p).filename
  BY NameIsNew
<1>. QED
  BY <1>1, MigrationsInductive, PTL

-----------------------------------------------------------------------------
(* Builds of one line of development *)

\* s is the beginning of t.
Begins(s, t) == Len(s) <= Len(t) /\ \A i \in 1..Len(s) : s[i] = t[i]

\* What one build would have made of the database, or nothing yet.
OneBuildsSchema == schema = <<>> \/ \E b \in Builds : Begins(schema, Files[b])

\* Where the builds number their files alike, a file on its base is the next one.
LEMMA NumberedStep ==
  ASSUME \A b \in Builds : \A i \in 1..Len(Files[b]) : Files[b][i].filename = i,
         schema \in Seq(File), OneBuildsSchema, OnItsBase
  PROVE  OneBuildsSchema'
<1>. PICK b \in Builds : \E i \in 1..Len(Files[b]) :
       /\ schema' = Append(schema, Files[b][i])
       /\ \A j \in 1..(i - 1) : Executed(Files[b][j])
       /\ \A k \in 1..Len(schema) : schema[k].filename # Files[b][i].filename
  BY DEF OnItsBase
<1>1. PICK i \in 1..Len(Files[b]) :
        /\ schema' = Append(schema, Files[b][i])
        /\ \A j \in 1..(i - 1) : Executed(Files[b][j])
        /\ \A k \in 1..Len(schema) : schema[k].filename # Files[b][i].filename
  OBVIOUS
<1>2. Len(schema) \in Nat /\ Len(Files[b]) \in Nat /\ Files[b][i] \in File
  BY FilesAreFiles
<1>3. \A k \in 1..Len(schema) : schema[k].filename = k
  <2>1. CASE schema = <<>>
    BY <2>1
  <2>2. CASE \E c \in Builds : Begins(schema, Files[c])
    <3>1. PICK c \in Builds : Begins(schema, Files[c])
      BY <2>2
    <3>2. Len(schema) <= Len(Files[c]) /\ Len(Files[c]) \in Nat
      BY <3>1, FilesAreFiles DEF Begins
    <3>. QED
      BY <1>2, <3>1, <3>2 DEF Begins
  <2>. QED
    BY <2>1, <2>2 DEF OneBuildsSchema
\* Executed files are found where their names say.
<1>4. ASSUME NEW j \in 1..(i - 1) PROVE j \in 1..Len(schema) /\ schema[j] = Files[b][j]
  <2>1. PICK k \in 1..Len(schema) : schema[k] = Files[b][j]
    BY <1>1 DEF Executed
  <2>2. j \in 1..Len(Files[b])
    BY <1>2
  <2>3. k = j
    BY <1>3, <2>1, <2>2
  <2>. QED
    BY <2>1, <2>3
<1>5. i = Len(schema) + 1
  <2>1. i \notin 1..Len(schema)
    BY <1>1, <1>3
  <2>2. CASE i > Len(schema) + 1
    <3>1. Len(schema) + 1 \in 1..(i - 1)
      BY <1>2, <2>2
    <3>2. Len(schema) + 1 \in 1..Len(schema)
      BY <1>4, <3>1
    <3>. QED
      BY <1>2, <3>2
  <2>. QED
    BY <1>2, <2>1, <2>2
<1>6. /\ Len(schema') = Len(schema) + 1
      /\ \A k \in 1..Len(schema) : schema'[k] = schema[k]
      /\ schema'[Len(schema) + 1] = Files[b][i]
  BY <1>1, <1>2
<1>7. ASSUME NEW k \in 1..(Len(schema) + 1) PROVE schema'[k] = Files[b][k]
  <2>1. CASE k \in 1..Len(schema)
    BY <1>2, <1>4, <1>5, <1>6, <2>1
  <2>2. CASE k = Len(schema) + 1
    BY <1>5, <1>6, <2>2
  <2>. QED
    BY <1>2, <2>1, <2>2
<1>8. Begins(schema', Files[b])
  BY <1>2, <1>5, <1>6, <1>7 DEF Begins
<1>. QED
  BY <1>8 DEF OneBuildsSchema

\* Where the builds number their files alike, as the files of the repository are
\* numbered, the database is at every moment what one build would have made.
THEOREM SchemaIsOneBuilds ==
  ASSUME \A b \in Builds : \A i \in 1..Len(Files[b]) : Files[b][i].filename = i
  PROVE  MigrateSpec => []OneBuildsSchema
<1>1. MigrateInit => OneBuildsSchema
  BY DEF MigrateInit, OneBuildsSchema
<1>2. MInv /\ OneBuildsSchema /\ [MigrateNext]_migrateVars => OneBuildsSchema'
  <2>. SUFFICES ASSUME MInv, OneBuildsSchema, [MigrateNext]_migrateVars PROVE OneBuildsSchema'
    OBVIOUS
  <2>1. CASE schema' = schema
    BY <2>1 DEF OneBuildsSchema, Begins
  <2>2. CASE schema' # schema
    <3>1. schema \in Seq(File)
      BY DEF MInv, MigrationsTypeOK
    <3>2. OnItsBase
      BY <2>2, CommitOnItsBase
    <3>. QED
      BY <3>1, <3>2, NumberedStep
  <2>. QED
    BY <2>1, <2>2
<1>. QED
  BY <1>1, <1>2, MigrationsInductive, PTL DEF MigrateSpec
=============================================================================
