------------------------- MODULE RequestLimiterProofs -------------------------
(***************************************************************************)
(* The limiter keeps the limit, and forgets nothing by dropping buckets, for *)
(* any requests, keys, rate, burst and clock.                               *)
(*                                                                         *)
(* A bucket with t tokens, last looked at at time l, says the same as the    *)
(* whole list of allowed requests: t is the largest number of further        *)
(* requests that keeps every stretch of time up to l within the limit.       *)
(* Bounded says that it is not too large, Exact that it is not too small.    *)
(* What makes the difference is a bucket that is dropped: TrimAssumption is   *)
(* what it takes for it to be full whoever looks next, however late.         *)
(***************************************************************************)
EXTENDS RequestLimiter, TLAPS

Bounded(g, t, at) ==
    \A i \in 1..Len(g) : Len(g) - i + 1 + t <= Burst + PerSec * (at - g[i])

Exact(g, t, at) ==
    \E i \in 1..Len(g) : Len(g) - i + 1 + t = Burst + PerSec * (at - g[i])

\* tokens may be below zero, because a request may be late: never by more than
\* what returns in the time that it is late.
BucketInv(k) ==
    IF buckets[k] = NoBucket THEN Bounded(grants[k], Burst, clock - Skew)
    ELSE /\ buckets[k].last \in 1..clock
         /\ buckets[k].tokens + PerSec * Skew >= 0
         /\ buckets[k].tokens + PerSec * (clock - buckets[k].last) >= 0
         /\ Bounded(grants[k], buckets[k].tokens, buckets[k].last)
         /\ Exact(grants[k], buckets[k].tokens, buckets[k].last)

WaitingInv(r) ==
    waiting[r] # Idle =>
        /\ waiting[r].key \in Keys
        /\ waiting[r].now \in 1..clock
        /\ clock - waiting[r].now <= Skew

LimiterTypeOK ==
    /\ clock \in Nat /\ clock >= 1
    /\ waiting \in [Requests -> [key : Keys \cup {NoKey}, now : Nat]]
    /\ buckets \in [Keys -> [tokens : Int, last : Int]]
    /\ lastTrim \in Int
    /\ grants \in [Keys -> Seq(Int)]

LimiterInv ==
    /\ LimiterTypeOK
    /\ \A r \in Requests : WaitingInv(r)
    /\ \A k \in Keys : BucketInv(k)
    /\ RateIsBounded

-----------------------------------------------------------------------------
(* What a stretch of time gives. *)

LEMMA Splits ==
    ASSUME NEW a \in Int, NEW b \in Int, NEW c \in Int
    PROVE  PerSec * (a - c) = PerSec * (a - b) + PerSec * (b - c)
BY NumbersAssumption

LEMMA Grows ==
    ASSUME NEW a \in Int, NEW b \in Int, a >= b
    PROVE  PerSec * a >= PerSec * b
BY NumbersAssumption

LEMMA NotNegative ==
    ASSUME NEW a \in Int, a >= 0
    PROVE  PerSec * a \in Int /\ PerSec * a >= 0
BY NumbersAssumption

-----------------------------------------------------------------------------
(* Lists of allowed requests. *)

\* Fewer tokens, or the same and what returned since.
LEMMA BoundedLater ==
    ASSUME NEW g \in Seq(Int), NEW t \in Int, NEW u \in Int, NEW at \in Int, NEW now \in Int,
           Bounded(g, t, at), u <= t + PerSec * (now - at)
    PROVE  Bounded(g, u, now)
<1> SUFFICES ASSUME NEW i \in 1..Len(g)
             PROVE  Len(g) - i + 1 + u <= Burst + PerSec * (now - g[i])
  BY DEF Bounded
<1>1. g[i] \in Int /\ Len(g) \in Nat
  OBVIOUS
<1>2. Len(g) - i + 1 + t <= Burst + PerSec * (at - g[i])
  BY DEF Bounded
<1>3. PerSec * (now - g[i]) = PerSec * (now - at) + PerSec * (at - g[i])
  BY <1>1, Splits
<1> DEFINE later == PerSec * (now - at)
           earlier == PerSec * (at - g[i])
           whole == PerSec * (now - g[i])
<1>4. later \in Int /\ earlier \in Int
  BY <1>1, NumbersAssumption
<1>5. u <= t + later /\ Len(g) - i + 1 + t <= Burst + earlier
  BY <1>2
<1>6. whole = later + earlier
  BY <1>3
<1>7. Len(g) - i + 1 + u <= Burst + whole
  <2> HIDE DEF later, earlier, whole
  <2> QED  BY <1>1, <1>4, <1>5, <1>6, NumbersAssumption
<1> QED  BY <1>7

LEMMA ExactLater ==
    ASSUME NEW g \in Seq(Int), NEW t \in Int, NEW at \in Int, NEW now \in Int, Exact(g, t, at)
    PROVE  Exact(g, t + PerSec * (now - at), now)
<1>1. PICK i \in 1..Len(g) : Len(g) - i + 1 + t = Burst + PerSec * (at - g[i])
  BY DEF Exact
<1>2. g[i] \in Int /\ Len(g) \in Nat
  OBVIOUS
<1>3. PerSec * (now - g[i]) = PerSec * (now - at) + PerSec * (at - g[i])
  BY <1>2, Splits
<1> DEFINE later == PerSec * (now - at)
           earlier == PerSec * (at - g[i])
           whole == PerSec * (now - g[i])
<1>4. later \in Int /\ earlier \in Int
  BY <1>2, NumbersAssumption
<1>5. Len(g) - i + 1 + t = Burst + earlier /\ whole = later + earlier
  BY <1>1, <1>3
<1>6. Len(g) - i + 1 + (t + later) = Burst + whole
  <2> HIDE DEF later, earlier, whole
  <2> QED  BY <1>2, <1>4, <1>5, NumbersAssumption
<1> QED  BY <1>6 DEF Exact

\* One more request is allowed and takes a token.
LEMMA BoundedGrant ==
    ASSUME NEW g \in Seq(Int), NEW t \in Int, NEW now \in Int, Bounded(g, t, now), t <= Burst
    PROVE  Bounded(Append(g, now), t - 1, now)
<1> SUFFICES ASSUME NEW i \in 1..(Len(g) + 1)
             PROVE  Len(g) + 1 - i + 1 + (t - 1) <= Burst + PerSec * (now - Append(g, now)[i])
  BY DEF Bounded
<1>1. CASE i = Len(g) + 1
  <2>1. Append(g, now)[i] = now /\ PerSec * (now - now) = 0
    BY <1>1, NumbersAssumption
  <2> QED  BY <1>1, <2>1, NumbersAssumption
<1>2. CASE i # Len(g) + 1
  <2>1. i \in 1..Len(g) /\ Append(g, now)[i] = g[i] /\ g[i] \in Int
    BY <1>2
  <2>2. Len(g) - i + 1 + t <= Burst + PerSec * (now - g[i])
    BY <2>1 DEF Bounded
  <2>3. PerSec * (now - g[i]) \in Int
    BY <2>1, NumbersAssumption
  <2> QED  BY <2>1, <2>2, <2>3, NumbersAssumption
<1> QED  BY <1>1, <1>2

LEMMA ExactGrant ==
    ASSUME NEW g \in Seq(Int), NEW t \in Int, NEW now \in Int, t = Burst \/ Exact(g, t, now)
    PROVE  Exact(Append(g, now), t - 1, now)
<1> DEFINE h == Append(g, now)
<1>1. Len(h) = Len(g) + 1 /\ Len(g) \in Nat
  OBVIOUS
<1>2. CASE t = Burst
  <2>1. h[Len(g) + 1] = now /\ PerSec * (now - now) = 0
    BY NumbersAssumption
  <2>2. Len(h) - (Len(g) + 1) + 1 + (t - 1) = Burst + PerSec * (now - h[Len(g) + 1])
    BY <1>1, <1>2, <2>1, NumbersAssumption
  <2>3. Len(g) + 1 \in 1..Len(h)
    BY <1>1
  <2> QED  BY <2>2, <2>3 DEF Exact
<1>3. CASE Exact(g, t, now)
  <2>1. PICK i \in 1..Len(g) : Len(g) - i + 1 + t = Burst + PerSec * (now - g[i])
    BY <1>3 DEF Exact
  <2>2. i \in 1..Len(h) /\ h[i] = g[i] /\ g[i] \in Int
    BY <1>1
  <2>3. PerSec * (now - g[i]) \in Int
    BY <2>2, NumbersAssumption
  <2>4. Len(h) - i + 1 + (t - 1) = Burst + PerSec * (now - h[i])
    BY <1>1, <2>1, <2>2, <2>3, NumbersAssumption
  <2> QED  BY <2>2, <2>4 DEF Exact
<1> QED  BY <1>2, <1>3

-----------------------------------------------------------------------------
(* Looking at a bucket. *)

Tokens(k, now) ==
    IF Trimmed(now)[k] = NoBucket THEN Burst ELSE Refilled(Trimmed(now)[k], now)

\* A dropped bucket is as good as a full one.
LEMMA DroppedIsFull ==
    ASSUME LimiterInv, NEW k \in Keys, NEW now \in 1..clock, Stale(buckets[k], now)
    PROVE  Bounded(grants[k], Burst, clock - Skew)
<1> DEFINE b == buckets[k]
<1>1. b.tokens \in Int /\ b.last \in Int /\ grants[k] \in Seq(Int) /\ clock \in Nat
  BY DEF LimiterInv, LimiterTypeOK
<1>2. b # NoBucket /\ now - b.last > TrimAge
  BY DEF Stale
<1>3. b.tokens + PerSec * Skew >= 0 /\ Bounded(grants[k], b.tokens, b.last)
  BY <1>2 DEF LimiterInv, BucketInv
<1>4. (clock - Skew) - b.last >= (TrimAge - 2 * Skew) + Skew
  BY <1>1, <1>2, NumbersAssumption
<1> DEFINE since == (clock - Skew) - b.last
           enough == (TrimAge - 2 * Skew) + Skew
<1>5. PerSec * since >= PerSec * enough
  <2>1. since \in Int /\ enough \in Int /\ since >= enough
    BY <1>1, <1>4, NumbersAssumption
  <2> HIDE DEF since, enough
  <2> QED  BY <2>1, Grows
<1>6. PerSec * ((TrimAge - 2 * Skew) + Skew) = PerSec * (TrimAge - 2 * Skew) + PerSec * Skew
  BY NumbersAssumption
<1>7. /\ PerSec * ((clock - Skew) - b.last) \in Int
      /\ PerSec * (TrimAge - 2 * Skew) \in Int /\ PerSec * Skew \in Int
  BY <1>1, NumbersAssumption
<1>8. Burst <= b.tokens + PerSec * ((clock - Skew) - b.last)
  BY <1>1, <1>3, <1>5, <1>6, <1>7, TrimAssumption, NumbersAssumption
<1> QED  BY <1>1, <1>3, <1>8, BoundedLater, NumbersAssumption

\* The buckets a request finds after the trim are as good as those before.
LEMMA TrimmedInv ==
    ASSUME LimiterInv, NEW now \in 1..clock
    PROVE  /\ Trimmed(now) \in [Keys -> [tokens : Int, last : Int]]
           /\ \A k \in Keys : \/ Trimmed(now)[k] = buckets[k]
                              \/ /\ Trimmed(now)[k] = NoBucket
                                 /\ Bounded(grants[k], Burst, clock - Skew)
BY DroppedIsFull DEF LimiterInv, LimiterTypeOK, Trimmed, NoBucket

\* The tokens a request finds say what the list of allowed requests says.
LEMMA TokensInv ==
    ASSUME LimiterInv, NEW k \in Keys, NEW now \in 1..clock, clock - now <= Skew
    PROVE  LET t == Tokens(k, now) g == grants[k] IN
           /\ t \in Int /\ t <= Burst
           /\ Bounded(g, t, now)
           /\ t = Burst \/ Exact(g, t, now)
           /\ t + PerSec * (clock - now) >= 0
           /\ t + PerSec * Skew >= 0
<1> DEFINE b == Trimmed(now)[k]
           t == Tokens(k, now)
           g == grants[k]
<1>1. g \in Seq(Int) /\ clock \in Nat /\ now \in Int
  BY DEF LimiterInv, LimiterTypeOK
<1>2. \/ b = buckets[k]
      \/ b = NoBucket /\ Bounded(g, Burst, clock - Skew)
  BY TrimmedInv
<1>3. b.tokens \in Int /\ b.last \in Int
  BY TrimmedInv
<1>4. PerSec * (clock - now) \in Int /\ PerSec * (clock - now) >= 0
  BY <1>1, NotNegative
<1>5. PerSec * Skew \in Int /\ PerSec * Skew >= PerSec * (clock - now)
  BY <1>1, Grows, NumbersAssumption
<1>6. CASE b = NoBucket
  <2>1. t = Burst
    BY <1>6 DEF Tokens
  <2>2. Bounded(g, Burst, clock - Skew)
    BY <1>2, <1>6 DEF LimiterInv, BucketInv
  <2>3. PerSec * (now - (clock - Skew)) >= 0 /\ PerSec * (now - (clock - Skew)) \in Int
    BY <1>1, NotNegative, NumbersAssumption
  <2>4. Burst <= Burst + PerSec * (now - (clock - Skew))
    BY <2>3, NumbersAssumption
  <2>5. Bounded(g, Burst, now)
    BY <1>1, <2>2, <2>4, BoundedLater, NumbersAssumption
  <2> QED  BY <1>4, <1>5, <2>1, <2>5, NumbersAssumption
<1>7. CASE b # NoBucket
  <2> DEFINE x == b.tokens + (now - b.last) * PerSec
  <2>1. b = buckets[k]
    BY <1>2, <1>7
  <2>2. t = IF x < Burst THEN x ELSE Burst
    BY <1>7 DEF Tokens, Refilled
  <2>3. /\ b.tokens + PerSec * (clock - b.last) >= 0
        /\ Bounded(g, b.tokens, b.last) /\ Exact(g, b.tokens, b.last)
    BY <1>7, <2>1 DEF LimiterInv, BucketInv
  <2>4. x = b.tokens + PerSec * (now - b.last) /\ x \in Int
    BY <1>1, <1>3, NumbersAssumption
  <2> HIDE DEF x
  <2>5. t \in Int /\ t <= x /\ t <= Burst
    BY <2>2, <2>4, NumbersAssumption
  <2>6. Bounded(g, t, now)
    BY <1>1, <1>3, <2>3, <2>4, <2>5, BoundedLater
  <2>7. t = Burst \/ Exact(g, t, now)
    BY <1>1, <1>3, <2>2, <2>3, <2>4, ExactLater
  <2>8. PerSec * (clock - b.last) = PerSec * (clock - now) + PerSec * (now - b.last)
    <3>1. \A a, c \in Int : PerSec * (a - c) = PerSec * (a - now) + PerSec * (now - c)
      BY <1>1, Splits
    <3>2. clock \in Int
      BY <1>1
    <3> QED  BY <1>3, <3>1, <3>2, Zenon
  <2>9. PerSec * (now - b.last) \in Int
    BY <1>1, <1>3, NumbersAssumption
  <2>10. x + PerSec * (clock - now) >= 0
    BY <1>3, <1>4, <2>3, <2>4, <2>8, <2>9
  <2>11. t + PerSec * (clock - now) >= 0
    BY <1>4, <2>2, <2>4, <2>10, NumbersAssumption
  <2> QED  BY <1>4, <1>5, <2>5, <2>6, <2>7, <2>11
<1> QED  BY <1>6, <1>7

-----------------------------------------------------------------------------
(* The invariant. *)

LEMMA LimiterInitial == LimiterInit => LimiterInv
<1> SUFFICES ASSUME LimiterInit PROVE LimiterInv
  OBVIOUS
<1> USE DEF LimiterInit
<1>1. LimiterTypeOK
  BY DEF LimiterTypeOK, Idle, NoBucket
<1>2. \A r \in Requests : WaitingInv(r)
  BY DEF WaitingInv
<1>3. \A k \in Keys : BucketInv(k)
  BY DEF BucketInv, Bounded
<1>4. RateIsBounded
  BY DEF RateIsBounded
<1> QED  BY <1>1, <1>2, <1>3, <1>4 DEF LimiterInv

LEMMA TickInv == LimiterInv /\ Tick => LimiterInv'
<1> SUFFICES ASSUME LimiterInv, Tick PROVE LimiterInv'
  OBVIOUS
<1>1. clock \in Nat /\ clock' = clock + 1 /\ UNCHANGED <<waiting, buckets, lastTrim, grants>>
  BY DEF LimiterInv, LimiterTypeOK, Tick
<1>2. LimiterTypeOK'
  BY <1>1 DEF LimiterInv, LimiterTypeOK
<1>3. \A r \in Requests : WaitingInv(r)'
  BY <1>1, NumbersAssumption DEF LimiterInv, LimiterTypeOK, WaitingInv, Tick
<1>4. ASSUME NEW k \in Keys PROVE BucketInv(k)'
  <2>1. grants[k] \in Seq(Int) /\ buckets[k].last \in Int /\ buckets[k].tokens \in Int
    BY DEF LimiterInv, LimiterTypeOK
  <2>2. CASE buckets[k] = NoBucket
    <3>1. Bounded(grants[k], Burst, clock - Skew)
      BY <2>2 DEF LimiterInv, BucketInv
    <3>2. PerSec * ((clock + 1 - Skew) - (clock - Skew)) \in Nat
      BY <1>1, NumbersAssumption
    <3>3. Bounded(grants[k], Burst, clock + 1 - Skew)
      BY <1>1, <2>1, <3>1, <3>2, BoundedLater, NumbersAssumption
    <3>4. grants'[k] = grants[k] /\ clock' = clock + 1 /\ buckets'[k] = NoBucket
      BY <1>1, <2>2
    <3>5. Bounded(grants'[k], Burst, clock' - Skew)
      BY <1>1, <3>3, <3>4, NumbersAssumption
    <3> QED  BY <3>4, <3>5 DEF BucketInv, Bounded
  <2>3. CASE buckets[k] # NoBucket
    <3> DEFINE b == buckets[k]
    <3>1. /\ b.last \in 1..clock /\ b.tokens + PerSec * Skew >= 0
          /\ b.tokens + PerSec * (clock - b.last) >= 0
          /\ Bounded(grants[k], b.tokens, b.last) /\ Exact(grants[k], b.tokens, b.last)
      BY <2>3 DEF LimiterInv, BucketInv
    <3>2. \A t, l \in Int : t + PerSec * (clock - l) >= 0 => t + PerSec * (clock' - l) >= 0
      BY <1>1, NumbersAssumption
    <3>3. b.tokens + PerSec * (clock' - b.last) >= 0
      BY <2>1, <3>1, <3>2, Zenon
    <3>4. b = buckets'[k] /\ grants[k] = grants'[k] /\ b.last \in 1..clock'
      BY <1>1, <3>1
    <3>5. /\ buckets'[k] # NoBucket /\ buckets'[k].last \in 1..clock'
          /\ buckets'[k].tokens + PerSec * Skew >= 0
          /\ buckets'[k].tokens + PerSec * (clock' - buckets'[k].last) >= 0
          /\ Bounded(grants'[k], buckets'[k].tokens, buckets'[k].last)
          /\ Exact(grants'[k], buckets'[k].tokens, buckets'[k].last)
      BY <2>3, <3>1, <3>3, <3>4, Zenon
    <3> QED  BY <3>5 DEF BucketInv, Bounded, Exact
  <2> QED  BY <2>2, <2>3
<1>5. RateIsBounded'
  BY <1>1 DEF LimiterInv, RateIsBounded
<1> QED  BY <1>2, <1>3, <1>4, <1>5 DEF LimiterInv

LEMMA ReadClockInv ==
    ASSUME LimiterInv, NEW r \in Requests, NEW k \in Keys, ReadClock(r, k)
    PROVE  LimiterInv'
<1>1. /\ clock \in Nat /\ clock >= 1 /\ UNCHANGED <<clock, buckets, lastTrim, grants>>
      /\ waiting' = [waiting EXCEPT ![r] = [key |-> k, now |-> clock]]
  BY DEF LimiterInv, LimiterTypeOK, ReadClock
<1>2. LimiterTypeOK'
  BY <1>1 DEF LimiterInv, LimiterTypeOK
<1>3. ASSUME NEW q \in Requests PROVE WaitingInv(q)'
  <2>1. WaitingInv(q) /\ waiting \in [Requests -> [key : Keys \cup {NoKey}, now : Nat]]
    BY DEF LimiterInv, LimiterTypeOK
  <2>2. CASE q = r
    <3>1. waiting'[q].key = k /\ waiting'[q].now = clock
      BY <1>1, <2>1, <2>2
    <3> QED  BY <1>1, <3>1, NumbersAssumption DEF WaitingInv
  <2>3. CASE q # r
    BY <1>1, <2>1, <2>3 DEF WaitingInv
  <2> QED  BY <2>2, <2>3
<1>4. \A q \in Keys : BucketInv(q)'
  BY <1>1 DEF LimiterInv, BucketInv, Bounded, Exact
<1>5. RateIsBounded'
  BY <1>1 DEF LimiterInv, RateIsBounded
<1> QED  BY <1>2, <1>3, <1>4, <1>5 DEF LimiterInv

\* What Allow does, said with the tokens it finds.
LEMMA AllowTakes ==
    ASSUME LimiterInv, NEW r \in Requests, Allow(r)
    PROVE  LET k == waiting[r].key now == waiting[r].now t == Tokens(k, now) IN
           /\ k \in Keys /\ now \in 1..clock /\ clock - now <= Skew
           /\ \/ /\ t < 1
                 /\ buckets' = [Trimmed(now) EXCEPT ![k] = [tokens |-> t, last |-> now]]
                 /\ grants' = grants
              \/ /\ t >= 1
                 /\ buckets' = [Trimmed(now) EXCEPT ![k] = [tokens |-> t - 1, last |-> now]]
                 /\ grants' = [grants EXCEPT ![k] = Append(@, now)]
           /\ waiting' = [waiting EXCEPT ![r] = Idle]
           /\ clock' = clock
           /\ lastTrim' \in {now, lastTrim}
<1>1. waiting[r] # Idle
  BY DEF Allow
<1>2. WaitingInv(r)
  BY DEF LimiterInv
<1> QED  BY <1>1, <1>2 DEF Allow, Tokens, WaitingInv

LEMMA AllowInv ==
    ASSUME LimiterInv, NEW r \in Requests, Allow(r)
    PROVE  LimiterInv'
<1> DEFINE k == waiting[r].key
           now == waiting[r].now
           t == Tokens(k, now)
           kept == Trimmed(now)
<1>1. k \in Keys /\ now \in 1..clock /\ clock - now <= Skew
  BY AllowTakes
<1>2. waiting' = [waiting EXCEPT ![r] = Idle] /\ clock' = clock /\ lastTrim' \in {now, lastTrim}
  BY AllowTakes
<1>3. \/ /\ t < 1
         /\ buckets' = [kept EXCEPT ![k] = [tokens |-> t, last |-> now]]
         /\ grants' = grants
      \/ /\ t >= 1
         /\ buckets' = [kept EXCEPT ![k] = [tokens |-> t - 1, last |-> now]]
         /\ grants' = [grants EXCEPT ![k] = Append(@, now)]
  BY AllowTakes
<1>4. /\ kept \in [Keys -> [tokens : Int, last : Int]]
      /\ \A q \in Keys : \/ kept[q] = buckets[q]
                        \/ /\ kept[q] = NoBucket
                           /\ Bounded(grants[q], Burst, clock - Skew)
  <2> HIDE DEF now
  <2> QED  BY <1>1, TrimmedInv
<1>5. /\ t \in Int /\ t <= Burst /\ Bounded(grants[k], t, now)
      /\ t = Burst \/ Exact(grants[k], t, now)
      /\ t + PerSec * (clock - now) >= 0 /\ t + PerSec * Skew >= 0
  BY <1>1, TokensInv
<1>6. /\ clock \in Nat /\ grants \in [Keys -> Seq(Int)] /\ lastTrim \in Int
      /\ waiting \in [Requests -> [key : Keys \cup {NoKey}, now : Nat]]
      /\ LimiterTypeOK
  BY DEF LimiterInv, LimiterTypeOK
<1> HIDE DEF k, now, t, kept
<1>7. now \in Int /\ now >= 1 /\ now <= clock
  BY <1>1, <1>6
<1>8. PerSec * (clock - now) \in Nat /\ PerSec * Skew \in Nat
  BY <1>6, <1>7, NotNegative, NumbersAssumption
<1>9. \E u \in Int :
          /\ buckets'[k] = [tokens |-> u, last |-> now]
          /\ buckets' = [kept EXCEPT ![k] = [tokens |-> u, last |-> now]]
          /\ u + PerSec * (clock - now) >= 0 /\ u + PerSec * Skew >= 0
          /\ Bounded(grants'[k], u, now) /\ Exact(grants'[k], u, now)
  <2>1. CASE t < 1 /\ buckets' = [kept EXCEPT ![k] = [tokens |-> t, last |-> now]] /\ grants' = grants
    <3>1. Exact(grants[k], t, now)
      BY <1>5, <2>1, NumbersAssumption
    <3> QED  BY <1>1, <1>4, <1>5, <2>1, <3>1
  <2>2. CASE /\ t >= 1 /\ buckets' = [kept EXCEPT ![k] = [tokens |-> t - 1, last |-> now]]
             /\ grants' = [grants EXCEPT ![k] = Append(@, now)]
    <3>1. grants'[k] = Append(grants[k], now) /\ grants[k] \in Seq(Int)
      BY <1>1, <1>6, <2>2
    <3>2. Bounded(grants'[k], t - 1, now)
      BY <1>5, <1>7, <3>1, BoundedGrant
    <3>3. Exact(grants'[k], t - 1, now)
      BY <1>5, <1>7, <3>1, ExactGrant
    <3>4. t - 1 \in Int /\ t - 1 + PerSec * (clock - now) >= 0 /\ t - 1 + PerSec * Skew >= 0
      BY <1>5, <1>8, <2>2
    <3>5. buckets'[k] = [tokens |-> t - 1, last |-> now]
      BY <1>1, <1>4, <2>2
    <3> QED  BY <2>2, <3>2, <3>3, <3>4, <3>5
  <2> QED  BY <1>3, <2>1, <2>2
<1>10. \A q \in Keys : q # k => buckets'[q] = kept[q] /\ grants'[q] = grants[q]
  BY <1>1, <1>3, <1>4, <1>6
<1>11. LimiterTypeOK'
  <2>1. grants' \in [Keys -> Seq(Int)]
    <3>1. grants[k] \in Seq(Int) /\ Append(grants[k], now) \in Seq(Int)
      BY <1>1, <1>6, <1>7
    <3> QED  BY <1>1, <1>3, <1>6, <3>1
  <2>2. buckets' \in [Keys -> [tokens : Int, last : Int]]
    <3>1. PICK u \in Int : buckets' = [kept EXCEPT ![k] = [tokens |-> u, last |-> now]]
      BY <1>9
    <3> QED  BY <1>4, <1>7, <3>1
  <2>3. waiting' \in [Requests -> [key : Keys \cup {NoKey}, now : Nat]]
    BY <1>2, <1>6 DEF Idle
  <2> QED  BY <1>2, <1>6, <1>7, <2>1, <2>2, <2>3 DEF LimiterTypeOK
<1>12. ASSUME NEW q \in Requests PROVE WaitingInv(q)'
  <2>1. WaitingInv(q)
    BY DEF LimiterInv
  <2> QED  BY <1>2, <1>6, <2>1 DEF WaitingInv
<1>13. ASSUME NEW q \in Keys PROVE BucketInv(q)'
  <2>1. CASE q = k
    <3>1. PICK u \in Int :
              /\ buckets'[k] = [tokens |-> u, last |-> now]
              /\ u + PerSec * (clock - now) >= 0 /\ u + PerSec * Skew >= 0
              /\ Bounded(grants'[k], u, now) /\ Exact(grants'[k], u, now)
      BY <1>9
    <3>2. buckets'[k].tokens = u /\ buckets'[k].last = now
      BY <3>1
    <3>3. buckets'[k] # NoBucket
      BY <1>7, <3>2 DEF NoBucket
    <3>4. now \in 1..clock
      BY <1>6, <1>7
    <3> QED  BY <1>2, <2>1, <3>1, <3>2, <3>3, <3>4 DEF BucketInv, Bounded, Exact
  <2>2. CASE q # k
    <3>1. buckets'[q] = kept[q] /\ grants'[q] = grants[q]
      BY <1>10, <2>2
    <3>2. BucketInv(q)
      BY DEF LimiterInv
    <3>3. CASE kept[q] = buckets[q]
      BY <1>2, <3>1, <3>2, <3>3 DEF BucketInv, Bounded, Exact
    <3>4. CASE kept[q] = NoBucket /\ Bounded(grants[q], Burst, clock - Skew)
      BY <1>2, <3>1, <3>4 DEF BucketInv, Bounded
    <3> QED  BY <1>4, <3>3, <3>4
  <2> QED  BY <2>1, <2>2
<1>14. RateIsBounded'
  <2> SUFFICES ASSUME NEW q \in Keys, NEW i \in DOMAIN grants'[q], NEW m \in DOMAIN grants'[q], i <= m
               PROVE  m - i + 1 <= Burst + PerSec * (grants'[q][m] - grants'[q][i])
    BY DEF RateIsBounded
  <2> DEFINE g == grants[q]
  <2>1. g \in Seq(Int)
    BY <1>6
  <2>2. \A x, y \in DOMAIN g : x <= y => y - x + 1 <= Burst + PerSec * (g[y] - g[x])
    BY DEF LimiterInv, RateIsBounded
  <2>3. CASE grants'[q] = g
    BY <2>2, <2>3
  <2>4. CASE grants'[q] # g
    <3>1. q = k /\ t >= 1 /\ grants'[q] = Append(g, now)
      BY <1>1, <1>3, <1>6, <1>10, <2>4
    <3> DEFINE h == Append(g, now)
    <3>2. i \in 1..(Len(g) + 1) /\ m \in 1..(Len(g) + 1) /\ Len(g) \in Nat
      BY <2>1, <3>1, <1>7
    <3>3. CASE m = Len(g) + 1
      <4>1. Bounded(h, t - 1, now)
        BY <1>5, <1>7, <2>1, <3>1, BoundedGrant
      <4>2. Len(h) = Len(g) + 1 /\ h[m] = now /\ h \in Seq(Int) /\ h[i] \in Int
        BY <1>7, <2>1, <3>2, <3>3
      <4>3. Len(h) - i + 1 + (t - 1) <= Burst + PerSec * (now - h[i])
        BY <3>2, <4>1, <4>2 DEF Bounded
      <4> HIDE DEF h
      <4>4. PerSec * (now - h[i]) \in Int
        BY <1>7, <4>2, NumbersAssumption
      <4>5. m - i + 1 <= Burst + PerSec * (now - h[i])
        <5> DEFINE given == PerSec * (now - h[i])
        <5>1. given \in Int /\ Len(h) - i + 1 + (t - 1) <= Burst + given
          BY <4>3, <4>4
        <5>2. Len(h) = m /\ m \in Nat /\ i \in Nat /\ t \in Int /\ t >= 1
          BY <1>5, <3>1, <3>2, <3>3, <4>2
        <5> HIDE DEF given
        <5>3. m - i + 1 <= Burst + given
          BY <5>1, <5>2, NumbersAssumption
        <5> QED  BY <5>3 DEF given
      <4> QED  BY <3>1, <4>2, <4>5 DEF h
    <3>4. CASE m # Len(g) + 1
      <4>1. i \in DOMAIN g /\ m \in DOMAIN g /\ h[i] = g[i] /\ h[m] = g[m]
        BY <2>1, <3>2, <3>4
      <4> QED  BY <2>2, <3>1, <4>1
    <3> QED  BY <3>3, <3>4
  <2> QED  BY <2>3, <2>4
<1> QED  BY <1>11, <1>12, <1>13, <1>14 DEF LimiterInv

\* The invariant is inductive.
THEOREM LimiterInvariant == LimiterSpec => []LimiterInv
<1>1. LimiterInv /\ [LimiterNext]_limiterVars => LimiterInv'
  <2> SUFFICES ASSUME LimiterInv, [LimiterNext]_limiterVars PROVE LimiterInv'
    OBVIOUS
  <2>1. CASE UNCHANGED limiterVars
    BY <2>1 DEF LimiterInv, LimiterTypeOK, WaitingInv, BucketInv, Bounded, Exact, RateIsBounded, limiterVars
  <2> QED  BY <2>1, TickInv, ReadClockInv, AllowInv DEF LimiterNext
<1> QED  BY <1>1, LimiterInitial, PTL DEF LimiterSpec

\* No stretch of time sees more requests of one key allowed than the burst and
\* what the rate gives in it.
THEOREM RateBounded == LimiterSpec => []RateIsBounded
BY LimiterInvariant, PTL DEF LimiterInv

-----------------------------------------------------------------------------
(* Refusals. *)

LEMMA DecidesByRoom ==
    ASSUME LimiterInv, NEW r \in Requests, Allow(r)
    PROVE  HasRoom(waiting[r].key, waiting[r].now) <=> Tokens(waiting[r].key, waiting[r].now) >= 1
<1> DEFINE k == waiting[r].key
           now == waiting[r].now
           t == Tokens(k, now)
           g == grants[k]
<1>1. k \in Keys /\ now \in 1..clock /\ clock - now <= Skew
  BY AllowTakes
<1>2. /\ t \in Int /\ t <= Burst /\ Bounded(g, t, now)
      /\ t = Burst \/ Exact(g, t, now)
  BY <1>1, TokensInv
<1>3. g \in Seq(Int) /\ now \in Int /\ Len(g) \in Nat
  BY <1>1 DEF LimiterInv, LimiterTypeOK
<1>4. HasRoom(k, now) <=> \A i \in 1..Len(g) : Len(g) - i + 2 <= Burst + PerSec * (now - g[i])
  <2>1. DOMAIN g = 1..Len(g)
    BY <1>3
  <2> QED  BY <2>1, Zenon DEF HasRoom
<1> HIDE DEF k, now, t, g
<1>5. \A i \in 1..Len(g) : PerSec * (now - g[i]) \in Int
  BY <1>3, NumbersAssumption
<1>6. ASSUME t >= 1, NEW i \in 1..Len(g)
      PROVE  Len(g) - i + 2 <= Burst + PerSec * (now - g[i])
  <2> DEFINE given == PerSec * (now - g[i])
  <2>1. given \in Int /\ Len(g) - i + 1 + t <= Burst + given
    BY <1>2, <1>5 DEF Bounded
  <2> HIDE DEF given
  <2>2. Len(g) - i + 2 <= Burst + given
    BY <1>2, <1>3, <1>6, <2>1, NumbersAssumption
  <2> QED  BY <2>2 DEF given
<1>7. ASSUME ~(t >= 1)
      PROVE  \E i \in 1..Len(g) : ~(Len(g) - i + 2 <= Burst + PerSec * (now - g[i]))
  <2>1. Exact(g, t, now)
    BY <1>2, <1>7, NumbersAssumption
  <2>2. PICK i \in 1..Len(g) : Len(g) - i + 1 + t = Burst + PerSec * (now - g[i])
    BY <2>1 DEF Exact
  <2> DEFINE given == PerSec * (now - g[i])
  <2>3. given \in Int /\ Len(g) - i + 1 + t = Burst + given
    BY <1>5, <2>2
  <2> HIDE DEF given
  <2>4. ~(Len(g) - i + 2 <= Burst + given)
    BY <1>2, <1>3, <1>7, <2>3, NumbersAssumption
  <2> QED  BY <2>4 DEF given
<1> QED  BY <1>4, <1>6, <1>7 DEF k, now, t

\* A request is refused exactly if some stretch of time is used up: dropping
\* buckets never shows.
THEOREM NothingForgotten == LimiterSpec => BucketsForgetNothing
<1>1. ASSUME LimiterInv, [LimiterNext]_limiterVars,
             NEW r \in Requests, waiting[r] # Idle, waiting'[r] = Idle
      PROVE  HasRoom(waiting[r].key, waiting[r].now)
                 <=> grants'[waiting[r].key] # grants[waiting[r].key]
  <2>1. waiting \in [Requests -> [key : Keys \cup {NoKey}, now : Nat]] /\ grants \in [Keys -> Seq(Int)]
    BY <1>1 DEF LimiterInv, LimiterTypeOK
  <2>2. ASSUME NEW q \in Requests, NEW k \in Keys, ReadClock(q, k)
        PROVE  FALSE
    <3>1. waiting' = [waiting EXCEPT ![q] = [key |-> k, now |-> clock]] /\ waiting[q] = Idle
      BY <2>2 DEF ReadClock
    <3>2. q # r
      BY <1>1, <3>1
    <3> QED  BY <1>1, <2>1, <3>1, <3>2
  <2>3. ASSUME NEW q \in Requests, Allow(q)
        PROVE  q = r
    BY <1>1, <2>1, <2>3 DEF Allow
  <2>4. Allow(r)
    BY <1>1, <2>2, <2>3 DEF LimiterNext, limiterVars, Tick
  <2> DEFINE k == waiting[r].key
             now == waiting[r].now
             t == Tokens(k, now)
  <2>5. k \in Keys /\ now \in 1..clock /\ clock - now <= Skew
    BY <1>1, <2>4, AllowTakes
  <2>6. t \in Int
    BY <1>1, <2>5, TokensInv
  <2>7. \/ t < 1 /\ grants' = grants
        \/ t >= 1 /\ grants' = [grants EXCEPT ![k] = Append(@, now)]
    BY <1>1, <2>4, AllowTakes
  <2>8. HasRoom(k, now) <=> t >= 1
    BY <1>1, <2>4, DecidesByRoom
  <2>9. now \in Int
    BY <1>1, <2>1
  <2> HIDE DEF k, now, t
  <2>10. Append(grants[k], now) # grants[k]
    <3>1. grants[k] \in Seq(Int) /\ Len(Append(grants[k], now)) = Len(grants[k]) + 1
      BY <2>1, <2>5, <2>9
    <3> QED  BY <3>1
  <2>11. HasRoom(k, now) <=> grants'[k] # grants[k]
    BY <2>1, <2>5, <2>6, <2>7, <2>8, <2>10
  <2> QED  BY <2>11 DEF k, now
<1> DEFINE Decided ==
    \A r \in Requests :
        waiting[r] # Idle /\ waiting'[r] = Idle =>
            LET k == waiting[r].key IN
            HasRoom(k, waiting[r].now) <=> grants'[k] # grants[k]
<1>2. LimiterInv /\ [LimiterNext]_limiterVars => Decided
  BY <1>1
<1> HIDE DEF Decided
<1>3. LimiterSpec => [][Decided]_limiterVars
  BY <1>2, LimiterInvariant, PTL DEF LimiterSpec
<1> QED  BY <1>3 DEF Decided, BucketsForgetNothing
=============================================================================
