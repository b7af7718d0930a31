---------------------------- MODULE RequestLimiter ----------------------------
(***************************************************************************)
(* httpapi.requestLimiter: one token bucket per address or subject, refilled *)
(* when it is looked at, and dropped when it was not looked at for TrimAge. *)
(* Allow reads the clock before it takes the lock, so requests are decided  *)
(* in another order than they read the clock, and the time since the last   *)
(* look may be negative.                                                    *)
(*                                                                         *)
(* Time and tokens are whole numbers here; the code's are fractions.  The   *)
(* clock starts at 1: lastTrim = 0 is the zero time of a new limiter.       *)
(***************************************************************************)
EXTENDS Integers, Sequences

CONSTANTS
    Requests,   \* requests that may be under way at the same time
    Keys,       \* addresses, or subjects
    NoKey,
    PerSec,     \* tokens a bucket gains in one unit of time
    Burst,      \* tokens a bucket holds
    TrimAge,    \* ten minutes, in the same unit
    Skew,       \* bound: how long a request may take from the clock to the lock
    MaxTime     \* bound on the clock

ASSUME NoKeyAssumption == NoKey \notin Keys
ASSUME NumbersAssumption ==
    /\ PerSec \in Nat \ {0} /\ Burst \in Nat \ {0}
    /\ TrimAge \in Nat /\ Skew \in Nat /\ MaxTime \in Nat
\* A bucket is full again long before it is dropped: with the limits of
\* NewWithOptions, 12 tokens return in 12 of the 600 seconds.
ASSUME TrimAssumption == PerSec * (TrimAge - 2 * Skew) >= Burst

VARIABLES
    clock,
    waiting,    \* request -> the key and the time it came with, while it waits
    buckets,    \* key -> its bucket, NoBucket without one
    lastTrim,
    grants      \* history: key -> the times of the requests that were allowed

limiterVars == <<clock, waiting, buckets, lastTrim, grants>>

NoBucket == [tokens |-> 0, last |-> 0]

Idle == [key |-> NoKey, now |-> 0]

LimiterInit ==
    /\ clock = 1
    /\ waiting = [r \in Requests |-> Idle]
    /\ buckets = [k \in Keys |-> NoBucket]
    /\ lastTrim = 0
    /\ grants = [k \in Keys |-> << >>]

\* The bound Skew: a request that waits for the lock does not wait longer.
Tick ==
    /\ clock < MaxTime
    /\ \A r \in Requests : waiting[r] # Idle => clock - waiting[r].now < Skew
    /\ clock' = clock + 1
    /\ UNCHANGED <<waiting, buckets, lastTrim, grants>>

\* The clock is read outside of the lock.
ReadClock(r, k) ==
    /\ waiting[r] = Idle
    /\ waiting' = [waiting EXCEPT ![r] = [key |-> k, now |-> clock]]
    /\ UNCHANGED <<clock, buckets, lastTrim, grants>>

\* Mutated form: buckets are dropped as soon as time has passed.
StaleAtOnce(bucket, now) == bucket # NoBucket /\ now > bucket.last

Stale(bucket, now) == bucket # NoBucket /\ now - bucket.last > TrimAge

Trimmed(now) ==
    IF lastTrim = 0 \/ now - lastTrim > TrimAge
    THEN [k \in Keys |-> IF Stale(buckets[k], now) THEN NoBucket ELSE buckets[k]]
    ELSE buckets

\* Mutated form: a time before the last look takes no tokens back.
RefilledForwardOnly(bucket, now) ==
    LET tokens == bucket.tokens + (now - bucket.last) * PerSec IN
    IF now < bucket.last THEN bucket.tokens ELSE IF tokens < Burst THEN tokens ELSE Burst

Refilled(bucket, now) ==
    LET tokens == bucket.tokens + (now - bucket.last) * PerSec IN
    IF tokens < Burst THEN tokens ELSE Burst

\* Everything Allow does with the lock.
Allow(r) ==
    LET k == waiting[r].key
        now == waiting[r].now
        kept == Trimmed(now)
        tokens == IF kept[k] = NoBucket THEN Burst ELSE Refilled(kept[k], now) IN
    /\ waiting[r] # Idle
    /\ waiting' = [waiting EXCEPT ![r] = Idle]
    /\ lastTrim' = IF lastTrim = 0 \/ now - lastTrim > TrimAge THEN now ELSE lastTrim
    /\ \/ /\ tokens < 1
          /\ buckets' = [kept EXCEPT ![k] = [tokens |-> tokens, last |-> now]]
          /\ UNCHANGED grants
       \/ /\ tokens >= 1
          /\ buckets' = [kept EXCEPT ![k] = [tokens |-> tokens - 1, last |-> now]]
          /\ grants' = [grants EXCEPT ![k] = Append(@, now)]
    /\ UNCHANGED clock

LimiterNext ==
    \/ Tick
    \/ \E r \in Requests : Allow(r) \/ \E k \in Keys : ReadClock(r, k)

LimiterSpec == LimiterInit /\ [][LimiterNext]_limiterVars

-----------------------------------------------------------------------------
(* Properties. *)

\* Whatever was decided in which order, and however often the bucket was
\* dropped, no stretch of time sees more requests of one key allowed than the
\* burst and what the rate gives in that stretch.
RateIsBounded ==
    \A k \in Keys : \A i, m \in DOMAIN grants[k] :
        i <= m => m - i + 1 <= Burst + PerSec * (grants[k][m] - grants[k][i])

\* A request more would exceed the limit in no stretch of time up to now.
HasRoom(k, now) ==
    \A i \in DOMAIN grants[k] :
        Len(grants[k]) - i + 2 <= Burst + PerSec * (now - grants[k][i])

\* Buckets decide exactly as one would who remembers every allowed request for
\* ever: a request is refused only if some stretch of time is used up, and
\* dropping a bucket never shows.
BucketsForgetNothing ==
    [][\A r \in Requests :
           waiting[r] # Idle /\ waiting'[r] = Idle =>
               LET k == waiting[r].key IN
               HasRoom(k, waiting[r].now) <=> grants'[k] # grants[k]]_limiterVars
=============================================================================
