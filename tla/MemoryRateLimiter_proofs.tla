----------------------- MODULE MemoryRateLimiter_proofs -----------------------
(***************************************************************************)
(* The in-process limiter keeps its table small and clean and cannot be    *)
(* told from one that remembers every client, proved for any number of     *)
(* clients, any rate, burst, cap and clock.                                *)
(***************************************************************************)
EXTENDS MemoryRateLimiter, FiniteSetTheorems, WellFoundedInduction, TLAPS

-----------------------------------------------------------------------------
(* The arithmetic of one bucket.                                           *)

LEMMA CapacityIsPositive ==
  OneToken \in Nat \ {0} /\ Capacity \in Nat \ {0}
BY BucketAssumption DEF OneToken, Capacity

LEMMA Monotone ==
  ASSUME NEW a \in Nat, NEW b \in Nat, NEW p \in Nat, a <= b
  PROVE  a * p <= b * p /\ a * p \in Nat
OBVIOUS

LEMMA OneMore ==
  ASSUME NEW a \in Nat, NEW p \in Nat
  PROVE  (a + 1) * p = a * p + p /\ a * p \in Nat
OBVIOUS

LEMMA BothMore ==
  ASSUME NEW a \in Nat, NEW b \in Nat, NEW p \in Nat
  PROVE  (a + b) * p = a * p + b * p /\ a * p \in Nat /\ b * p \in Nat
OBVIOUS

\* What a bucket that was last used by t holds at t.
LEMMA LevelIs ==
  ASSUME NEW b \in Bucket, NEW t \in Nat, b.last_seen <= t
  PROVE  /\ t - b.last_seen \in Nat /\ (t - b.last_seen) * PerMinute \in Nat
         /\ Level(b, t) = AtMost(Capacity, b.tokens + (t - b.last_seen) * PerMinute)
         /\ Level(b, t) \in 0..Capacity
<1> DEFINE e == t - b.last_seen
           refill == e * PerMinute
<1>1. e \in Nat /\ AtLeast(0, t - b.last_seen) = e
  BY DEF Bucket, AtLeast
<1>2. refill \in Nat
  <2> HIDE DEF e
  <2>1. QED
    BY <1>1, Monotone, BucketAssumption
<1>3. Level(b, t) = AtMost(Capacity, b.tokens + refill)
  BY <1>1 DEF Level
<1>4. b.tokens \in 0..Capacity
  BY DEF Bucket
<1>5. Level(b, t) \in 0..Capacity
  <2> HIDE DEF refill
  <2>1. QED
    BY <1>2, <1>3, <1>4, CapacityIsPositive DEF AtMost
<1>6. QED
  BY <1>1, <1>2, <1>3, <1>5

\* A tick refills PerMinute units, up to a full bucket.
LEMMA LevelAfterTick ==
  ASSUME NEW b \in Bucket, NEW t \in Nat, b.last_seen <= t
  PROVE  Level(b, t + 1) = AtMost(Capacity, Level(b, t) + PerMinute)
<1> DEFINE e == t - b.last_seen
<1>1. b.last_seen \in Nat /\ b.tokens \in 0..Capacity
  BY DEF Bucket
<1>2. e \in Nat /\ (t + 1) - b.last_seen = e + 1 /\ b.last_seen <= t + 1 /\ t + 1 \in Nat
  BY <1>1
<1>3. /\ Level(b, t) = AtMost(Capacity, b.tokens + e * PerMinute)
      /\ Level(b, t + 1) = AtMost(Capacity, b.tokens + (e + 1) * PerMinute)
  <2>1. Level(b, t + 1) = AtMost(Capacity, b.tokens + ((t + 1) - b.last_seen) * PerMinute)
    BY <1>2, LevelIs
  <2>2. QED
    BY <2>1, <1>2, LevelIs
<1> HIDE DEF e
<1>4. (e + 1) * PerMinute = e * PerMinute + PerMinute /\ e * PerMinute \in Nat
  BY <1>2, OneMore, BucketAssumption
<1>5. QED
  BY <1>1, <1>3, <1>4, CapacityIsPositive, BucketAssumption DEF AtMost

\* A refilled bucket is full.
LEMMA RefilledIsFull ==
  ASSUME NEW b \in Bucket, NEW t \in Nat, b.last_seen <= t, Refilled(b.last_seen, t)
  PROVE  Level(b, t) = Capacity
<1> DEFINE refill == (t - b.last_seen) * PerMinute
<1>1. refill \in Nat /\ Level(b, t) = AtMost(Capacity, b.tokens + refill) /\ refill >= Capacity
  BY LevelIs DEF Refilled
<1>2. b.tokens \in 0..Capacity
  BY DEF Bucket
<1> HIDE DEF refill
<1>3. QED
  BY <1>1, <1>2, CapacityIsPositive DEF AtMost

\* A bucket seen later than one that has not refilled has not refilled either.
LEMMA RefilledInOrder ==
  ASSUME NEW s \in Nat, NEW l \in Nat, NEW t \in Nat, s <= l, l <= t, Refilled(l, t)
  PROVE  Refilled(s, t)
<1> DEFINE d == t - l
           e == t - s
<1>1. d \in Nat /\ e \in Nat /\ d <= e /\ d * PerMinute >= Capacity
  BY DEF Refilled
<1> HIDE DEF d, e
<1>2. d * PerMinute <= e * PerMinute /\ d * PerMinute \in Nat /\ e * PerMinute \in Nat
  BY <1>1, Monotone, BucketAssumption
<1>3. e * PerMinute >= Capacity
  BY <1>1, <1>2, CapacityIsPositive
<1>4. QED
  BY <1>3 DEF Refilled, e

\* What was just stored is all there is, and has not refilled.
LEMMA JustStored ==
  ASSUME NEW b \in Bucket, NEW t \in Nat, b.last_seen = t
  PROVE  Level(b, t) = b.tokens /\ ~Refilled(b.last_seen, t)
<1>1. t - b.last_seen = 0 /\ 0 * PerMinute = 0 /\ b.last_seen <= t /\ b.tokens \in 0..Capacity
  BY BucketAssumption DEF Bucket
<1>2. Level(b, t) = AtMost(Capacity, b.tokens + 0)
  BY <1>1, LevelIs
<1>3. QED
  BY <1>1, <1>2, CapacityIsPositive DEF AtMost, Refilled

\* Waiting as long as it takes refills what is missing.
LEMMA WaitIsEnough ==
  ASSUME NEW missing \in Nat
  PROVE  /\ Wait(missing) \in Nat
         /\ (Wait(missing) * TicksPerSecond) * PerMinute \in Nat
         /\ (Wait(missing) * TicksPerSecond) * PerMinute >= missing
<1> DEFINE s == PerMinute * TicksPerSecond
           q == (missing + s - 1) \div s
<1>1. s \in Nat \ {0}
  BY BucketAssumption
<1>2. Wait(missing) = AtLeast(1, q)
  BY DEF Wait
<1>3. q \in Int /\ q * s >= missing
  <2> HIDE DEF s
  <2>1. missing + s - 1 \in Nat
    BY <1>1
  <2>2. q \in Int /\ q * s + ((missing + s - 1) % s) = missing + s - 1
    BY <1>1, <2>1
  <2>3. (missing + s - 1) % s \in 0..(s - 1)
    BY <1>1, <2>1
  <2>4. q * s \in Int
    BY <1>1, <2>2
  <2>5. QED
    BY <1>1, <2>2, <2>3, <2>4
<1> HIDE DEF q
<1>4. Wait(missing) \in Nat /\ q <= Wait(missing)
  BY <1>2, <1>3 DEF AtLeast
<1>5. Wait(missing) * s \in Nat /\ Wait(missing) * s >= missing
  <2> HIDE DEF s
  <2>1. CASE q >= 0
    BY <1>1, <1>3, <1>4, <2>1, Monotone
  <2>2. CASE q < 0
    <3>1. 0 - q \in Nat /\ (0 - q) * s \in Nat /\ q * s = 0 - ((0 - q) * s)
      BY <1>1, <1>3, <2>2, Monotone
    <3>2. missing = 0
      BY <1>3, <3>1
    <3>3. QED
      BY <1>1, <1>4, <3>2, Monotone
  <2>3. QED
    BY <1>3, <2>1, <2>2
<1>6. (Wait(missing) * TicksPerSecond) * PerMinute = Wait(missing) * s
  BY <1>4, BucketAssumption
<1>7. QED
  BY <1>4, <1>5, <1>6

\* No request costs more than a full bucket.
LEMMA CostIs ==
  ASSUME NEW cost \in Costs
  PROVE  cost \in Nat /\ cost * OneToken \in Nat /\ cost * OneToken <= Capacity
<1>1. cost \in Nat /\ cost <= Burst /\ Burst \in Nat /\ OneToken \in Nat
  BY LimiterAssumption, BucketAssumption, CapacityIsPositive
<1>2. QED
  BY <1>1, Monotone DEF Capacity

\* What an answer takes and what a refusal promises.
LEMMA SpendIs ==
  ASSUME NEW level \in 0..Capacity, NEW cost \in Costs
  PROVE  LET spent == Spend(level, cost) IN
         /\ spent.tokens \in 0..Capacity /\ spent.limit \in RateLimit
         /\ spent.limit.allowed =>
              spent.tokens = level - cost * OneToken /\ level >= cost * OneToken
         /\ ~spent.limit.allowed =>
              /\ spent.tokens = level /\ level < cost * OneToken
              /\ spent.tokens + (spent.limit.retry_after * TicksPerSecond) * PerMinute
                   >= cost * OneToken
<1> DEFINE need == cost * OneToken
<1>1. need \in Nat /\ Capacity \in Nat /\ level \in Nat /\ level <= Capacity
  BY CostIs, CapacityIsPositive
<1>2. CASE level >= need
  <2>1. Spend(level, cost) = [tokens |-> level - need,
                              limit |-> [allowed |-> TRUE, retry_after |-> 0]]
    BY <1>2 DEF Spend
  <2> HIDE DEF need
  <2>2. level - need \in 0..Capacity
    BY <1>1, <1>2
  <2>3. QED
    BY <1>2, <2>1, <2>2 DEF RateLimit, need
<1>3. CASE level < need
  <2> DEFINE wait == Wait(need - level)
  <2>1. Spend(level, cost) = [tokens |-> level,
                              limit |-> [allowed |-> FALSE, retry_after |-> wait]]
    BY <1>1, <1>3 DEF Spend
  <2>2. need - level \in Nat
    BY <1>1, <1>3
  <2>3. wait \in Nat /\ (wait * TicksPerSecond) * PerMinute \in Nat
        /\ (wait * TicksPerSecond) * PerMinute >= need - level
    BY <2>2, WaitIsEnough
  <2> HIDE DEF need, wait
  <2>4. level + (wait * TicksPerSecond) * PerMinute >= need
    BY <1>1, <2>3
  <2>5. QED
    BY <1>1, <1>3, <2>1, <2>3, <2>4 DEF RateLimit, need
<1>4. QED
  BY <1>1, <1>2, <1>3

-----------------------------------------------------------------------------
(* Sequences of buckets.                                                   *)

\* A set of numbers has a first.
LEMMA FirstOf ==
  ASSUME NEW N \in Nat, NEW S \in SUBSET (0..N), S # {}
  PROVE  \E m \in S : \A k \in S : m <= k
<1> DEFINE Below == [m \in 0..N |-> 0..m]
           belows == {Below[m] : m \in S}
<1>1. IsFiniteSet(0..N)
  BY FS_Interval
<1>2. \A m \in 0..N : Below[m] \in SUBSET (0..N)
  OBVIOUS
<1>3. belows \subseteq FiniteSubsetsOf(0..N) /\ belows # {}
  <2> HIDE DEF Below
  <2>1. \A m \in 0..N : Below[m] \in FiniteSubsetsOf(0..N)
    BY <1>1, <1>2, FS_Subset DEF FiniteSubsetsOf
  <2>2. QED
    BY <2>1
<1>4. PICK least \in belows : \A x \in belows : ~(<<x, least>> \in StrictSubsetOrdering(0..N))
  <2> HIDE DEF belows
  <2>1. QED
    BY <1>1, <1>3, FS_StrictSubsetOrderingWellFounded, WFMin
<1>5. PICK m \in S : least = Below[m]
  BY <1>4
<1>6. ASSUME NEW k \in S, k < m PROVE FALSE
  <2>1. Below[k] \subseteq Below[m] /\ m \in Below[m] /\ m \notin Below[k]
    BY <1>6
  <2>2. <<Below[k], Below[m]>> \in StrictSubsetOrdering(0..N)
    BY <2>1, <1>2 DEF StrictSubsetOrdering
  <2>3. QED
    BY <2>2, <1>4, <1>5
<1>7. \A k \in S : ~(k < m)
  BY <1>6
<1>8. QED
  BY <1>7

\* Concatenation, position by position.
LEMMA Joined ==
  ASSUME NEW T, NEW a \in Seq(T), NEW b \in Seq(T)
  PROVE  /\ a \o b \in Seq(T) /\ Len(a \o b) = Len(a) + Len(b)
         /\ \A i \in 1..Len(a) : (a \o b)[i] = a[i]
         /\ \A i \in 1..Len(b) : (a \o b)[Len(a) + i] = b[i]
<1>1. a \o b \in Seq(T) /\ Len(a \o b) = Len(a) + Len(b)
  OBVIOUS
<1>2. \A i \in 1..Len(a) : (a \o b)[i] = a[i]
  OBVIOUS
<1>3. \A i \in 1..Len(b) : (a \o b)[Len(a) + i] = b[i]
  OBVIOUS
<1>4. QED
  BY <1>1, <1>2, <1>3

\* The table as it is between two checks: no bucket from the future, the oldest
\* first, one for each client.
Ordered(bs, t) ==
  /\ bs \in Seq(Bucket)
  /\ \A i \in 1..Len(bs) : bs[i].last_seen <= t
  /\ \A i, j \in 1..Len(bs) : i <= j => bs[i].last_seen <= bs[j].last_seen
  /\ \A i, j \in 1..Len(bs) : bs[i].client = bs[j].client => i = j

Members(bs) == {bs[i] : i \in 1..Len(bs)}

\* BucketOf at any time.
At(bs, c, t) ==
  IF Tracks(bs, c) THEN bs[Place(bs, c)]
  ELSE [client |-> c, tokens |-> Capacity, last_seen |-> t]

\* Only the members of an ordered table matter.
LEMMA AtIs ==
  ASSUME NEW t \in Nat, NEW bs, Ordered(bs, t), NEW c \in Clients
  PROVE  /\ Tracks(bs, c) <=> \E b \in Members(bs) : b.client = c
         /\ \A b \in Members(bs) : b.client = c => At(bs, c, t) = b
         /\ ~Tracks(bs, c) => /\ At(bs, c, t) \in Bucket
                              /\ At(bs, c, t).last_seen = t
                              /\ At(bs, c, t).tokens = Capacity
<1>1. Tracks(bs, c) <=> \E b \in Members(bs) : b.client = c
  BY DEF Tracks, Members
<1>2. ASSUME NEW b \in Members(bs), b.client = c PROVE At(bs, c, t) = b
  <2>1. PICK i \in 1..Len(bs) : bs[i] = b
    BY DEF Members
  <2>2. Tracks(bs, c)
    BY <1>1, <1>2
  <2>3. Place(bs, c) \in 1..Len(bs) /\ bs[Place(bs, c)].client = c
    BY <1>2, <2>1 DEF Place
  <2>4. Place(bs, c) = i
    BY <1>2, <2>1, <2>3 DEF Ordered
  <2>5. QED
    BY <2>1, <2>2, <2>4 DEF At
<1>3. ASSUME ~Tracks(bs, c)
      PROVE  /\ At(bs, c, t) \in Bucket /\ At(bs, c, t).last_seen = t
             /\ At(bs, c, t).tokens = Capacity
  BY <1>3, CapacityIsPositive DEF At, Bucket
<1>4. QED
  BY <1>1, <1>2, <1>3

LEMMA MembersAre ==
  ASSUME NEW t \in Nat, NEW bs, Ordered(bs, t), NEW b \in Members(bs)
  PROVE  /\ b \in Bucket /\ b.last_seen <= t
         /\ \A a \in Members(bs) : a.client = b.client => a = b
<1>1. PICK i \in 1..Len(bs) : b = bs[i]
  BY DEF Members
<1>2. b \in Bucket /\ b.last_seen <= t
  BY <1>1 DEF Ordered
<1>3. ASSUME NEW j \in 1..Len(bs), bs[j].client = b.client PROVE bs[j] = b
  BY <1>1, <1>3 DEF Ordered
<1>4. QED
  BY <1>2, <1>3 DEF Members

\* A table without its front.
LEMMA FromIs ==
  ASSUME NEW bs \in Seq(Bucket), NEW i \in 1..(Len(bs) + 1)
  PROVE  /\ From(bs, i) \in Seq(Bucket) /\ Len(From(bs, i)) = Len(bs) + 1 - i
         /\ \A j \in 1..Len(From(bs, i)) : /\ j + i - 1 \in i..Len(bs)
                                           /\ From(bs, i)[j] = bs[j + i - 1]
BY DEF From

LEMMA FromKeepsOrder ==
  ASSUME NEW t \in Nat, NEW bs, Ordered(bs, t), NEW i \in 1..(Len(bs) + 1)
  PROVE  /\ Ordered(From(bs, i), t)
         /\ Members(From(bs, i)) = {bs[j] : j \in i..Len(bs)}
<1> DEFINE rest == From(bs, i)
<1>1. bs \in Seq(Bucket) /\ Len(bs) \in Nat
  BY DEF Ordered
<1>2. /\ rest \in Seq(Bucket) /\ Len(rest) = Len(bs) + 1 - i
      /\ \A j \in 1..Len(rest) : j + i - 1 \in i..Len(bs) /\ rest[j] = bs[j + i - 1]
  BY <1>1, FromIs
<1> HIDE DEF rest
<1>3. \A j \in 1..Len(rest) : j + i - 1 \in 1..Len(bs) /\ rest[j] = bs[j + i - 1]
  BY <1>2
<1>4. Ordered(rest, t)
  <2>1. \A j \in 1..Len(rest) : rest[j].last_seen <= t
    BY <1>3 DEF Ordered
  <2>2. ASSUME NEW j \in 1..Len(rest), NEW k \in 1..Len(rest), j <= k
        PROVE  rest[j].last_seen <= rest[k].last_seen
    <3>1. j + i - 1 <= k + i - 1
      BY <2>2
    <3>2. QED
      BY <1>3, <3>1 DEF Ordered
  <2>3. ASSUME NEW j \in 1..Len(rest), NEW k \in 1..Len(rest),
               rest[j].client = rest[k].client
        PROVE  j = k
    <3>1. j + i - 1 = k + i - 1
      BY <1>3, <2>3 DEF Ordered
    <3>2. QED
      BY <3>1
  <2>4. QED
    BY <1>2, <2>1, <2>2, <2>3 DEF Ordered
<1>5. ASSUME NEW j \in i..Len(bs) PROVE bs[j] \in Members(rest)
  <2>1. j - i + 1 \in 1..Len(rest) /\ (j - i + 1) + i - 1 = j
    BY <1>1, <1>2
  <2>2. rest[j - i + 1] = bs[j]
    BY <1>2, <2>1
  <2>3. QED
    BY <2>1, <2>2 DEF Members
<1>6. \A b \in Members(rest) : \E j \in i..Len(bs) : b = bs[j]
  BY <1>2 DEF Members
<1>7. QED
  BY <1>4, <1>5, <1>6 DEF rest

\* A table without a client's bucket.
LEMMA WithoutIs ==
  ASSUME NEW t \in Nat, NEW bs, Ordered(bs, t), NEW c \in Clients
  PROVE  /\ Ordered(Without(bs, c), t)
         /\ Members(Without(bs, c)) = {b \in Members(bs) : b.client # c}
         /\ Len(Without(bs, c)) = IF Tracks(bs, c) THEN Len(bs) - 1 ELSE Len(bs)
<1>1. bs \in Seq(Bucket) /\ Len(bs) \in Nat
  BY DEF Ordered
<1>2. CASE ~Tracks(bs, c)
  <2>1. Without(bs, c) = bs
    BY <1>2 DEF Without
  <2>2. \A b \in Members(bs) : b.client # c
    BY <1>2 DEF Tracks, Members
  <2>3. QED
    BY <1>2, <2>1, <2>2
<1>3. CASE Tracks(bs, c)
  <2> DEFINE p == Place(bs, c)
             front == SubSeq(bs, 1, p - 1)
             back == From(bs, p + 1)
             rest == front \o back
             Old == [j \in 1..(Len(bs) - 1) |-> IF j < p THEN j ELSE j + 1]
  <2>1. p \in 1..Len(bs) /\ bs[p].client = c
    BY <1>3 DEF Tracks, Place
  <2>2. Without(bs, c) = rest
    BY <1>3 DEF Without
  <2> HIDE DEF p
  <2>3. /\ front \in Seq(Bucket) /\ Len(front) = p - 1
        /\ \A j \in 1..(p - 1) : front[j] = bs[j]
    BY <1>1, <2>1
  <2>4. /\ back \in Seq(Bucket) /\ Len(back) = Len(bs) - p
        /\ \A j \in 1..(Len(bs) - p) : back[j] = bs[j + p]
    <3>1. p + 1 \in 1..(Len(bs) + 1)
      BY <1>1, <2>1
    <3>2. /\ back \in Seq(Bucket) /\ Len(back) = Len(bs) + 1 - (p + 1)
          /\ \A j \in 1..Len(back) : back[j] = bs[j + (p + 1) - 1]
      BY <1>1, <3>1, FromIs
    <3> HIDE DEF back
    <3>3. QED
      BY <1>1, <2>1, <3>2
  <2> HIDE DEF front, back
  <2>5. /\ rest \in Seq(Bucket) /\ Len(rest) = Len(bs) - 1
        /\ \A j \in 1..(p - 1) : rest[j] = bs[j]
        /\ \A j \in 1..(Len(bs) - p) : rest[(p - 1) + j] = bs[j + p]
    <3>1. /\ rest \in Seq(Bucket) /\ Len(rest) = Len(front) + Len(back)
          /\ \A j \in 1..Len(front) : rest[j] = front[j]
          /\ \A j \in 1..Len(back) : rest[Len(front) + j] = back[j]
      <4>1. front \in Seq(Bucket) /\ back \in Seq(Bucket)
        BY <2>3, <2>4
      <4>2. QED
        BY <4>1, Joined
    <3> HIDE DEF rest
    <3>2. Len(rest) = Len(bs) - 1
      BY <1>1, <2>1, <2>3, <2>4, <3>1
    <3>3. ASSUME NEW j \in 1..(p - 1) PROVE rest[j] = bs[j]
      BY <2>3, <3>1
    <3>4. ASSUME NEW j \in 1..(Len(bs) - p) PROVE rest[(p - 1) + j] = bs[j + p]
      BY <2>3, <2>4, <3>1
    <3>5. QED
      BY <3>1, <3>2, <3>3, <3>4
  <2> HIDE DEF rest
  <2>6. ASSUME NEW j \in 1..(Len(bs) - 1)
        PROVE  rest[j] = bs[Old[j]] /\ Old[j] \in 1..Len(bs) \ {p}
    <3>1. CASE j < p
      <4>1. j \in 1..(p - 1) /\ Old[j] = j /\ j \in 1..Len(bs) \ {p}
        BY <1>1, <2>1, <3>1
      <4>2. QED
        BY <2>5, <4>1
    <3>2. CASE j >= p
      <4> DEFINE d == j - (p - 1)
      <4>1. d \in 1..(Len(bs) - p) /\ (p - 1) + d = j /\ d + p = j + 1
        BY <1>1, <2>1, <3>2
      <4>2. rest[j] = bs[j + 1]
        <5> HIDE DEF d
        <5>1. QED
          BY <2>5, <4>1
      <4>3. Old[j] = j + 1 /\ j + 1 \in 1..Len(bs) \ {p}
        BY <1>1, <2>1, <3>2
      <4>4. QED
        BY <4>2, <4>3
    <3>3. QED
      BY <1>1, <2>1, <3>1, <3>2
  <2>7. \A j, k \in 1..(Len(bs) - 1) : /\ (j <= k) => (Old[j] <= Old[k])
                                       /\ (Old[j] = Old[k]) => (j = k)
    BY <1>1, <2>1
  <2>8. \A j \in 1..Len(bs) \ {p} : \E k \in 1..(Len(bs) - 1) : Old[k] = j
    <3>1. ASSUME NEW j \in 1..Len(bs), j < p
          PROVE  j \in 1..(Len(bs) - 1) /\ Old[j] = j
      BY <1>1, <2>1, <3>1
    <3>2. ASSUME NEW j \in 1..Len(bs), j > p
          PROVE  j - 1 \in 1..(Len(bs) - 1) /\ Old[j - 1] = j
      BY <1>1, <2>1, <3>2
    <3> HIDE DEF Old
    <3>3. QED
      BY <1>1, <2>1, <3>1, <3>2
  <2> HIDE DEF Old
  <2>9. Ordered(rest, t)
    <3>0. \A j, k \in 1..Len(rest) : /\ (j <= k) => (Old[j] <= Old[k])
                                     /\ (Old[j] = Old[k]) => (j = k)
      <4>1. Len(rest) = Len(bs) - 1
        BY <2>5
      <4>2. QED
        BY <2>7, <4>1
    <3>1. \A j \in 1..Len(rest) : rest[j] = bs[Old[j]] /\ Old[j] \in 1..Len(bs)
      BY <2>5, <2>6
    <3>2. \A j \in 1..Len(rest) : rest[j].last_seen <= t
      BY <3>1 DEF Ordered
    <3>3. ASSUME NEW j \in 1..Len(rest), NEW k \in 1..Len(rest), j <= k
          PROVE  rest[j].last_seen <= rest[k].last_seen
      <4>1. Old[j] <= Old[k]
        BY <3>0, <3>3
      <4>2. QED
        BY <3>1, <4>1 DEF Ordered
    <3>4. ASSUME NEW j \in 1..Len(rest), NEW k \in 1..Len(rest),
                 rest[j].client = rest[k].client
          PROVE  j = k
      <4>1. /\ rest[j] = bs[Old[j]] /\ Old[j] \in 1..Len(bs)
            /\ rest[k] = bs[Old[k]] /\ Old[k] \in 1..Len(bs)
        BY <3>1
      <4>2. Old[j] = Old[k]
        BY <3>4, <4>1 DEF Ordered
      <4>3. QED
        BY <3>0, <4>2
    <3>5. QED
      BY <2>5, <3>2, <3>3, <3>4 DEF Ordered
  <2>10. ASSUME NEW b \in Members(rest) PROVE b \in Members(bs) /\ b.client # c
    <3>1. PICK j \in 1..Len(rest) : b = rest[j]
      BY DEF Members
    <3>2. b = bs[Old[j]] /\ Old[j] \in 1..Len(bs) \ {p}
      BY <2>5, <2>6, <3>1
    <3>3. b.client # c
      BY <2>1, <3>2 DEF Ordered
    <3>4. QED
      BY <3>2, <3>3 DEF Members
  <2>11. ASSUME NEW b \in Members(bs), b.client # c PROVE b \in Members(rest)
    <3>1. PICK j \in 1..Len(bs) : bs[j] = b
      BY DEF Members
    <3>2. PICK k \in 1..(Len(bs) - 1) : Old[k] = j
      BY <2>1, <2>8, <2>11, <3>1
    <3>3. QED
      BY <2>5, <2>6, <3>1, <3>2 DEF Members
  <2>12. QED
    BY <1>3, <2>2, <2>5, <2>9, <2>10, <2>11
<1>4. QED
  BY <1>2, <1>3

\* A bucket used now goes to the end.
LEMMA StoreIs ==
  ASSUME NEW t \in Nat, NEW bs, Ordered(bs, t), NEW b \in Bucket, b.last_seen = t
  PROVE  /\ Ordered(Store(bs, b), t)
         /\ Members(Store(bs, b)) = {a \in Members(bs) : a.client # b.client} \cup {b}
         /\ Len(Store(bs, b)) = IF Tracks(bs, b.client) THEN Len(bs) ELSE Len(bs) + 1
<1> DEFINE rest == Without(bs, b.client)
           new == Append(rest, b)
<1>1. /\ Ordered(rest, t) /\ Members(rest) = {a \in Members(bs) : a.client # b.client}
      /\ Len(rest) = IF Tracks(bs, b.client) THEN Len(bs) - 1 ELSE Len(bs)
      /\ Len(bs) \in Nat
  <2>1. b.client \in Clients
    BY DEF Bucket
  <2>2. Len(bs) \in Nat
    BY DEF Ordered
  <2>3. QED
    BY <2>1, <2>2, WithoutIs
<1>2. Store(bs, b) = new
  BY DEF Store
<1> HIDE DEF rest
<1>3. rest \in Seq(Bucket) /\ Len(rest) \in Nat
  BY <1>1 DEF Ordered
<1>4. /\ new \in Seq(Bucket) /\ Len(new) = Len(rest) + 1 /\ new[Len(rest) + 1] = b
      /\ \A j \in 1..Len(rest) : new[j] = rest[j]
  BY <1>3
<1> HIDE DEF new
<1>5. \A j \in 1..Len(new) : j \in 1..Len(rest) \/ j = Len(rest) + 1
  BY <1>3, <1>4
<1>6. \A j \in 1..Len(rest) : rest[j] \in Members(rest) /\ rest[j].client # b.client
  BY <1>1 DEF Members
<1>7. Members(new) = Members(rest) \cup {b}
  <2>1. ASSUME NEW a \in Members(new) PROVE a \in Members(rest) \cup {b}
    <3>1. PICK j \in 1..Len(new) : a = new[j]
      BY DEF Members
    <3>2. QED
      BY <3>1, <1>4, <1>5, <1>6
  <2>2. ASSUME NEW a \in Members(rest) PROVE a \in Members(new)
    <3>1. PICK j \in 1..Len(rest) : a = rest[j]
      BY DEF Members
    <3>2. j \in 1..Len(new)
      BY <1>3, <1>4
    <3>3. QED
      BY <3>1, <3>2, <1>4 DEF Members
  <2>3. b \in Members(new)
    BY <1>3, <1>4 DEF Members
  <2>4. QED
    BY <2>1, <2>2, <2>3
<1>8. Ordered(new, t)
  <2>1. ASSUME NEW j \in 1..Len(new) PROVE new[j].last_seen <= t
    BY <1>1, <1>4, <1>5 DEF Ordered
  <2>2. ASSUME NEW j \in 1..Len(new), NEW k \in 1..Len(new), j <= k
        PROVE  new[j].last_seen <= new[k].last_seen
    <3>1. CASE k = Len(rest) + 1
      BY <3>1, <1>4, <2>1
    <3>2. CASE k \in 1..Len(rest)
      <4>1. j \in 1..Len(rest)
        BY <2>2, <3>2, <1>3
      <4>2. QED
        BY <4>1, <3>2, <2>2, <1>1, <1>4 DEF Ordered
    <3>3. QED
      BY <3>1, <3>2, <1>5
  <2>3. ASSUME NEW j \in 1..Len(new), NEW k \in 1..Len(new), new[j].client = new[k].client
        PROVE  j = k
    BY <1>1, <1>4, <1>5, <1>6, <2>3 DEF Ordered
  <2>4. QED
    BY <1>4, <2>1, <2>2, <2>3 DEF Ordered
<1>9. Len(new) = IF Tracks(bs, b.client) THEN Len(bs) ELSE Len(bs) + 1
  BY <1>1, <1>4
<1>10. QED
  BY <1>1, <1>2, <1>7, <1>8, <1>9

-----------------------------------------------------------------------------
(* Eviction.                                                               *)

LEMMA FirstKeptIs ==
  ASSUME NEW bs, now \in Nat, Ordered(bs, now)
  PROVE  /\ FirstKept(bs) \in 1..(Len(bs) + 1)
         /\ \A j \in 1..(FirstKept(bs) - 1) : Refilled(bs[j].last_seen, now)
         /\ FirstKept(bs) <= Len(bs) => ~Refilled(bs[FirstKept(bs)].last_seen, now)
<1> DEFINE n == Len(bs) + 1
           stops == {i \in 1..n : i <= Len(bs) => ~Refilled(bs[i].last_seen, now)}
<1>1. Len(bs) \in Nat /\ n \in Nat /\ n > Len(bs)
  BY DEF Ordered
<1>2. stops \in SUBSET (0..n) /\ n \in stops
  BY <1>1
<1>3. PICK m \in stops : \A k \in stops : m <= k
  <2> HIDE DEF n, stops
  <2>1. QED
    BY <1>1, <1>2, FirstOf
<1>4. m \in 1..n /\ m \in Nat /\ (m <= Len(bs) => ~Refilled(bs[m].last_seen, now))
  BY <1>1, <1>3
<1>5. ASSUME NEW j \in 1..(m - 1) PROVE Refilled(bs[j].last_seen, now)
  <2>1. j \in 1..n /\ j < m /\ j <= Len(bs)
    BY <1>1, <1>4
  <2>2. j \notin stops
    <3> HIDE DEF stops
    <3>1. QED
      BY <1>3, <1>4, <2>1
  <2>3. QED
    BY <2>1, <2>2
<1>6. QED
  BY <1>4, <1>5 DEF FirstKept

\* Dropping refilled buckets from the front drops every refilled bucket.
LEMMA DropIdleIs ==
  ASSUME NEW bs, now \in Nat, Ordered(bs, now)
  PROVE  /\ Ordered(DropIdle(bs), now) /\ Len(DropIdle(bs)) <= Len(bs)
         /\ Members(DropIdle(bs)) = {b \in Members(bs) : ~Refilled(b.last_seen, now)}
<1> DEFINE m == FirstKept(bs)
           rest == From(bs, m)
<1>1. bs \in Seq(Bucket) /\ Len(bs) \in Nat
  BY DEF Ordered
<1>2. /\ m \in 1..(Len(bs) + 1)
      /\ \A j \in 1..(m - 1) : Refilled(bs[j].last_seen, now)
      /\ m <= Len(bs) => ~Refilled(bs[m].last_seen, now)
  BY FirstKeptIs
<1> HIDE DEF m
<1>3. /\ Ordered(rest, now) /\ Members(rest) = {bs[j] : j \in m..Len(bs)}
      /\ Len(rest) = Len(bs) + 1 - m
  BY <1>1, <1>2, FromIs, FromKeepsOrder
<1>4. DropIdle(bs) = rest
  BY DEF DropIdle, m
<1> HIDE DEF rest
<1>5. ASSUME NEW j \in m..Len(bs) PROVE bs[j] \in Members(bs) /\ ~Refilled(bs[j].last_seen, now)
  <2>1. m \in 1..Len(bs) /\ j \in 1..Len(bs) /\ m <= j
    BY <1>1, <1>2
  <2>2. bs[m].last_seen <= bs[j].last_seen /\ bs[j].last_seen <= now
        /\ bs[m] \in Bucket /\ bs[j] \in Bucket
    BY <2>1 DEF Ordered
  <2>3. bs[m].last_seen \in Nat /\ bs[j].last_seen \in Nat
    BY <2>2 DEF Bucket
  <2>4. ~Refilled(bs[j].last_seen, now)
    BY <1>2, <2>1, <2>2, <2>3, RefilledInOrder
  <2>5. QED
    BY <2>1, <2>4 DEF Members
<1>6. ASSUME NEW b \in Members(bs), ~Refilled(b.last_seen, now)
      PROVE  \E j \in m..Len(bs) : b = bs[j]
  <2>1. PICK j \in 1..Len(bs) : b = bs[j]
    BY DEF Members
  <2>2. j \notin 1..(m - 1)
    BY <1>2, <1>6, <2>1
  <2>3. j \in m..Len(bs)
    BY <1>1, <1>2, <2>1, <2>2
  <2>4. QED
    BY <2>1, <2>3
<1>7. Len(rest) <= Len(bs)
  BY <1>1, <1>2, <1>3
<1>8. QED
  BY <1>3, <1>4, <1>5, <1>6, <1>7

\* A table that tracks a client in each of its places, and not the one that
\* asks, is one of more clients than it has places.
LEMMA MoreClientsThanPlaces ==
  ASSUME NEW t \in Nat, NEW bs, Ordered(bs, t), NEW c \in Clients, ~Tracks(bs, c)
  PROVE  Cardinality(Clients) > Len(bs)
<1> DEFINE others == Clients \ {c}
           f == [i \in 1..Len(bs) |-> bs[i].client]
<1>1. Len(bs) \in Nat /\ \A i \in 1..Len(bs) : bs[i] \in Bucket
  BY DEF Ordered
<1>2. \A i \in 1..Len(bs) : bs[i].client \in others
  BY <1>1 DEF Tracks, Bucket
<1>3. \A i, j \in 1..Len(bs) : f[i] = f[j] => i = j
  BY DEF Ordered
<1>4. f \in [1..Len(bs) -> others]
  BY <1>2
<1> HIDE DEF f
<1>5. f \in Injection(1..Len(bs), others)
  BY <1>3, <1>4 DEF Injection, IsInjective
<1>6. /\ IsFiniteSet(others) /\ Cardinality(others) = Cardinality(Clients) - 1
      /\ Cardinality(Clients) \in Nat
  BY LimiterAssumption, FS_RemoveElement, FS_CardinalityType
<1>7. Cardinality(1..Len(bs)) = Len(bs)
  <2>1. Cardinality(1..Len(bs)) = IF 1 > Len(bs) THEN 0 ELSE Len(bs) - 1 + 1
    <3>1. 1 \in Int /\ Len(bs) \in Int
      BY <1>1
    <3>2. QED
      BY <3>1, FS_Interval
  <2>2. QED
    BY <1>1, <2>1
<1> HIDE DEF others
<1>8. Cardinality(1..Len(bs)) <= Cardinality(others)
  BY <1>5, <1>6, FS_Injection
<1>9. QED
  BY <1>1, <1>6, <1>7, <1>8

\* Making room for the client that asks forgets at most one other, and only
\* when there are more clients than places.
LEMMA DropOverflowIs ==
  ASSUME NEW t \in Nat, NEW bs, Ordered(bs, t), Len(bs) <= MaxClients, NEW c \in Clients
  PROVE  /\ Ordered(DropOverflow(bs, c), t) /\ Len(DropOverflow(bs, c)) <= MaxClients
         /\ ~Tracks(DropOverflow(bs, c), c) => Len(DropOverflow(bs, c)) + 1 <= MaxClients
         /\ \/ Members(DropOverflow(bs, c)) = Members(bs)
            \/ /\ Cardinality(Clients) > MaxClients
               /\ \E b \in Members(bs) :
                    b.client # c /\ Members(DropOverflow(bs, c)) = Members(bs) \ {b}
<1>1. bs \in Seq(Bucket) /\ Len(bs) \in Nat /\ MaxClients \in Nat \ {0}
  BY LimiterAssumption DEF Ordered
<1> DEFINE full == ~Tracks(bs, c) /\ Len(bs) + 1 > MaxClients
<1>2. CASE ~full
  <2>1. DropOverflow(bs, c) = bs
    BY <1>2 DEF DropOverflow
  <2>2. QED
    BY <1>1, <1>2, <2>1
<1>3. CASE full
  <2> DEFINE rest == From(bs, 2)
  <2>1. Len(bs) = MaxClients /\ Len(bs) + 2 - MaxClients = 2 /\ 2 \in 1..(Len(bs) + 1)
    BY <1>1, <1>3
  <2>2. DropOverflow(bs, c) = rest
    BY <1>3, <2>1 DEF DropOverflow
  <2>3. /\ Ordered(rest, t) /\ Members(rest) = {bs[j] : j \in 2..Len(bs)}
        /\ Len(rest) = Len(bs) + 1 - 2
    <3>1. Len(rest) = Len(bs) + 1 - 2
      BY <1>1, <2>1, FromIs
    <3>2. Ordered(rest, t) /\ Members(rest) = {bs[j] : j \in 2..Len(bs)}
      BY <2>1, FromKeepsOrder
    <3>3. QED
      BY <3>1, <3>2
  <2> HIDE DEF rest
  <2>4. bs[1] \in Members(bs) /\ bs[1].client # c
    <3>1. 1 \in 1..Len(bs)
      BY <1>1, <2>1
    <3>2. QED
      BY <1>3, <3>1 DEF Members, Tracks
  <2>5. ASSUME NEW j \in 2..Len(bs) PROVE bs[j] \in Members(bs) /\ bs[j] # bs[1]
    <3>1. j \in 1..Len(bs) /\ 1 \in 1..Len(bs) /\ j # 1
      BY <1>1, <2>1
    <3>2. QED
      BY <3>1 DEF Members, Ordered
  <2>6. ASSUME NEW b \in Members(bs), b # bs[1] PROVE \E j \in 2..Len(bs) : b = bs[j]
    <3>1. PICK j \in 1..Len(bs) : b = bs[j]
      BY DEF Members
    <3>2. j \in 2..Len(bs)
      BY <1>1, <2>6, <3>1
    <3>3. QED
      BY <3>1, <3>2
  <2>7. Members(rest) = Members(bs) \ {bs[1]}
    BY <2>3, <2>5, <2>6
  <2>8. Cardinality(Clients) > MaxClients
    BY <1>3, <2>1, MoreClientsThanPlaces
  <2>9. Len(rest) <= MaxClients /\ Len(rest) + 1 <= MaxClients
    BY <1>1, <2>1, <2>3
  <2>10. QED
    BY <2>2, <2>3, <2>4, <2>7, <2>8, <2>9
<1>4. QED
  BY <1>2, <1>3

-----------------------------------------------------------------------------
(* A check, and what stays true.                                           *)

\* A bucket that will hold what its client was promised when it is due.
Keeps(b, p) ==
  /\ b.last_seen <= p.due
  /\ b.tokens + (p.due - b.last_seen) * PerMinute >= p.cost * OneToken

MInv ==
  /\ now \in 0..MaxTime
  /\ Ordered(buckets, now) /\ Len(buckets) <= MaxClients
  /\ verdict \in [Clients -> RateLimit \cup {NoAnswer}]
  /\ promise \in [Clients -> [cost : Costs, due : Nat] \cup {NoPromise}]
  /\ \A c \in Clients : promise[c] # NoPromise =>
       \A b \in Members(buckets) : b.client = c => Keeps(b, promise[c])

\* What making room for a client leaves: its own bucket if it has not refilled,
\* and everyone else's but one.
LEMMA EvictIs ==
  ASSUME MInv, NEW c \in Clients
  PROVE  /\ Ordered(Evict(c), now)
         /\ Len(Evict(c)) <= MaxClients
         /\ ~Tracks(Evict(c), c) => Len(Evict(c)) + 1 <= MaxClients
         /\ \E gone \in SUBSET {b \in Members(buckets) : b.client # c} :
              /\ Members(Evict(c)) =
                   {b \in Members(buckets) : ~Refilled(b.last_seen, now)} \ gone
              /\ \/ gone = {}
                 \/ Cardinality(Clients) > MaxClients /\ \E b \in gone : gone = {b}
<1> DEFINE idle == DropIdle(buckets)
           kept == DropOverflow(idle, c)
           awake == {b \in Members(buckets) : ~Refilled(b.last_seen, now)}
<1>1. /\ now \in Nat /\ Ordered(buckets, now) /\ Len(buckets) <= MaxClients
      /\ Len(buckets) \in Nat /\ MaxClients \in Nat
  BY LimiterAssumption DEF MInv, Ordered
<1>2. Ordered(idle, now) /\ Len(idle) <= Len(buckets) /\ Members(idle) = awake
  BY <1>1, DropIdleIs
<1> HIDE DEF idle
<1>3. Len(idle) <= MaxClients
  <2>1. Len(idle) \in Nat
    BY <1>2 DEF Ordered
  <2>2. QED
    BY <1>1, <1>2, <2>1
<1>4. /\ Ordered(kept, now) /\ Len(kept) <= MaxClients
      /\ ~Tracks(kept, c) => Len(kept) + 1 <= MaxClients
      /\ \/ Members(kept) = awake
         \/ /\ Cardinality(Clients) > MaxClients
            /\ \E b \in awake : b.client # c /\ Members(kept) = awake \ {b}
  BY <1>1, <1>2, <1>3, DropOverflowIs
<1>5. Evict(c) = kept
  BY DEF Evict, idle
<1> HIDE DEF kept
<1>6. CASE Members(kept) = awake
  <2>1. {} \in SUBSET {b \in Members(buckets) : b.client # c} /\ awake = awake \ {}
    OBVIOUS
  <2>2. QED
    BY <1>4, <1>5, <1>6, <2>1
<1>7. CASE /\ Cardinality(Clients) > MaxClients
           /\ \E b \in awake : b.client # c /\ Members(kept) = awake \ {b}
  <2>1. PICK b \in awake : b.client # c /\ Members(kept) = awake \ {b}
    BY <1>7
  <2>2. {b} \in SUBSET {a \in Members(buckets) : a.client # c}
    BY <2>1
  <2>3. QED
    BY <1>4, <1>5, <1>7, <2>1, <2>2
<1>8. QED
  BY <1>4, <1>6, <1>7

\* What a client's bucket holds at any time.
Holds(bs, c, t) == Level(At(bs, c, t), t)

LEMMA HoldsIs ==
  ASSUME NEW t \in Nat, NEW bs, Ordered(bs, t), NEW c \in Clients
  PROVE  /\ At(bs, c, t) \in Bucket /\ At(bs, c, t).last_seen <= t
         /\ Holds(bs, c, t) \in 0..Capacity
         /\ ~Tracks(bs, c) => Holds(bs, c, t) = Capacity
<1>1. CASE Tracks(bs, c)
  <2>1. PICK b \in Members(bs) : b.client = c /\ At(bs, c, t) = b
    BY <1>1, AtIs
  <2>2. b \in Bucket /\ b.last_seen <= t
    BY <2>1, MembersAre
  <2>3. Level(b, t) \in 0..Capacity
    BY <2>2, LevelIs
  <2>4. QED
    BY <1>1, <2>1, <2>2, <2>3 DEF Holds
<1>2. CASE ~Tracks(bs, c)
  <2> DEFINE b == At(bs, c, t)
  <2>1. b \in Bucket /\ b.last_seen = t /\ b.tokens = Capacity
    BY <1>2, AtIs
  <2> HIDE DEF b
  <2>2. Level(b, t) = Capacity
    BY <2>1, JustStored
  <2>3. Capacity \in 0..Capacity /\ t <= t
    BY CapacityIsPositive
  <2>4. QED
    BY <2>1, <2>2, <2>3 DEF Holds, b
<1>3. QED
  BY <1>1, <1>2

\* The level of a client whose bucket was kept, or dropped because it had
\* refilled, is what it was.
LEMMA DroppingIsUnseen ==
  ASSUME NEW t \in Nat, NEW bs, Ordered(bs, t), NEW kept, Ordered(kept, t),
         NEW c \in Clients,
         \A b \in Members(kept) : b \in Members(bs),
         \A b \in Members(bs) :
           b.client = c => b \in Members(kept) \/ Refilled(b.last_seen, t)
  PROVE  Holds(kept, c, t) = Holds(bs, c, t)
<1>1. CASE Tracks(kept, c)
  <2>1. PICK b \in Members(kept) : b.client = c /\ At(kept, c, t) = b
    BY <1>1, AtIs
  <2>2. At(bs, c, t) = b
    BY <2>1, AtIs
  <2>3. QED
    BY <2>1, <2>2 DEF Holds
<1>2. CASE ~Tracks(kept, c)
  <2>1. Holds(kept, c, t) = Capacity
    BY <1>2, HoldsIs
  <2>2. CASE ~Tracks(bs, c)
    BY <2>1, <2>2, HoldsIs
  <2>3. CASE Tracks(bs, c)
    <3>1. PICK b \in Members(bs) : b.client = c /\ At(bs, c, t) = b
      BY <2>3, AtIs
    <3>2. b \notin Members(kept)
      BY <1>2, <3>1, AtIs
    <3>3. b \in Bucket /\ b.last_seen <= t /\ Refilled(b.last_seen, t)
      BY <3>1, <3>2, MembersAre
    <3>4. Level(b, t) = Capacity
      BY <3>3, RefilledIsFull
    <3>5. QED
      BY <2>1, <3>1, <3>4 DEF Holds
  <2>4. QED
    BY <2>2, <2>3
<1>3. QED
  BY <1>1, <1>2

\* The clients one check may reset.
Forgettable(c) ==
  {S \in SUBSET (Clients \ {c}) :
     Cardinality(S) <= (IF Cardinality(Clients) > MaxClients THEN 1 ELSE 0)}

\* What a check makes of the table, whichever bucket it drops.
Replaces(bs, after, c, new, forgotten, t) ==
  /\ Ordered(after, t) /\ Len(after) <= MaxClients
  /\ new \in Members(after)
  /\ \A b \in Members(after) :
       b = new \/ (b \in Members(bs) /\ b.client # c /\ ~Refilled(b.last_seen, t))
  /\ \A b \in Members(bs) : b.client # c =>
       b \in Members(after) \/ Refilled(b.last_seen, t) \/ b.client \in forgotten
  /\ \A b \in Members(after) : b.client \notin forgotten

LEMMA StoreReplaces ==
  ASSUME MInv, NEW c \in Clients, NEW new \in Bucket, new.client = c, new.last_seen = now
  PROVE  \E forgotten \in Forgettable(c) :
           Replaces(buckets, Store(Evict(c), new), c, new, forgotten, now)
<1> DEFINE kept == Evict(c)
           after == Store(kept, new)
           awake == {b \in Members(buckets) : ~Refilled(b.last_seen, now)}
<1>1. now \in Nat /\ Ordered(buckets, now)
  BY LimiterAssumption DEF MInv
<1>2. /\ Ordered(kept, now) /\ Len(kept) <= MaxClients
      /\ ~Tracks(kept, c) => Len(kept) + 1 <= MaxClients
  BY EvictIs
<1>3. PICK gone \in SUBSET {b \in Members(buckets) : b.client # c} :
        /\ Members(kept) = awake \ gone
        /\ \/ gone = {}
           \/ Cardinality(Clients) > MaxClients /\ \E b \in gone : gone = {b}
  BY EvictIs
<1> HIDE DEF kept
<1>4. /\ Ordered(after, now)
      /\ Members(after) = {a \in Members(kept) : a.client # c} \cup {new}
      /\ Len(after) = IF Tracks(kept, c) THEN Len(kept) ELSE Len(kept) + 1
  BY <1>1, <1>2, StoreIs
<1> HIDE DEF after
<1>5. Len(after) <= MaxClients
  BY <1>2, <1>4
<1> DEFINE forgotten == {b.client : b \in gone}
<1>6. forgotten \in Forgettable(c)
  <2>1. forgotten \in SUBSET (Clients \ {c})
    <3>1. \A b \in gone : b \in Bucket /\ b.client # c
      BY <1>1, <1>3, MembersAre
    <3>2. QED
      BY <3>1 DEF Bucket
  <2>2. CASE gone = {}
    <3>1. forgotten = {} /\ Cardinality({}) = 0
      BY <2>2, FS_EmptySet
    <3>2. QED
      BY <2>1, <3>1 DEF Forgettable
  <2>3. CASE Cardinality(Clients) > MaxClients /\ \E b \in gone : gone = {b}
    <3>1. PICK b \in gone : gone = {b}
      BY <2>3
    <3>2. forgotten = {b.client}
      BY <3>1
    <3>3. Cardinality({b.client}) = 1
      BY FS_Singleton
    <3>4. QED
      BY <2>1, <2>3, <3>2, <3>3 DEF Forgettable
  <2>4. QED
    BY <1>3, <2>2, <2>3
<1>7. ASSUME NEW b \in Members(after)
      PROVE  /\ \/ b = new
                \/ b \in Members(buckets) /\ b.client # c /\ ~Refilled(b.last_seen, now)
             /\ b.client \notin forgotten
  <2>1. CASE b = new
    BY <1>3, <2>1
  <2>2. CASE b \in Members(kept) /\ b.client # c
    <3>1. b \in Members(buckets) /\ ~Refilled(b.last_seen, now) /\ b \notin gone
      BY <1>3, <2>2
    <3>2. ASSUME NEW a \in gone, a.client = b.client PROVE FALSE
      <4>1. a \in Members(buckets)
        BY <1>3
      <4>2. a = b
        BY <1>1, <3>1, <3>2, <4>1, MembersAre
      <4>3. QED
        BY <3>1, <4>2
    <3>3. QED
      BY <2>2, <3>1, <3>2
  <2>3. QED
    BY <1>4, <2>1, <2>2
<1>8. ASSUME NEW b \in Members(buckets), b.client # c
      PROVE  b \in Members(after) \/ Refilled(b.last_seen, now) \/ b.client \in forgotten
  BY <1>3, <1>4, <1>8
<1>9. new \in Members(after)
  BY <1>4
<1> HIDE DEF forgotten
<1>10. Replaces(buckets, after, c, new, forgotten, now)
  BY <1>4, <1>5, <1>7, <1>8, <1>9 DEF Replaces
<1>11. QED
  BY <1>6, <1>10 DEF after, kept

\* A check spends from what its client's bucket holds and stores the rest.
LEMMA CheckIs ==
  ASSUME MInv, NEW c \in Clients, NEW cost \in Costs, Check(c, cost)
  PROVE  LET spent == Spend(Holds(buckets, c, now), cost) IN
         /\ now' = now /\ now \in Nat
         /\ verdict' = [verdict EXCEPT ![c] = spent.limit]
         /\ promise' = [promise EXCEPT ![c] =
              IF spent.limit.allowed THEN NoPromise
              ELSE [cost |-> cost,
                    due |-> now + spent.limit.retry_after * TicksPerSecond]]
         /\ \E new \in Bucket, forgotten \in Forgettable(c) :
              /\ new.client = c /\ new.tokens = spent.tokens /\ new.last_seen = now
              /\ Replaces(buckets, buckets', c, new, forgotten, now)
<1> DEFINE kept == Evict(c)
           bucket == BucketOf(kept, c)
           spent == Spend(Holds(buckets, c, now), cost)
           new == [client |-> c, tokens |-> spent.tokens, last_seen |-> now]
<1>1. now \in Nat /\ Ordered(buckets, now) /\ Ordered(kept, now)
  BY LimiterAssumption, EvictIs DEF MInv
<1>2. bucket = At(kept, c, now)
  BY DEF BucketOf, At
<1>3. bucket.last_seen <= now /\ bucket.last_seen \in Nat
  <2>1. bucket \in Bucket /\ bucket.last_seen <= now
    BY <1>1, <1>2, HoldsIs
  <2>2. QED
    BY <2>1 DEF Bucket
<1>4. Level(bucket, now) = Holds(buckets, c, now)
  <2>1. PICK gone \in SUBSET {b \in Members(buckets) : b.client # c} :
          Members(kept) = {b \in Members(buckets) : ~Refilled(b.last_seen, now)} \ gone
    BY EvictIs
  <2> HIDE DEF kept
  <2>2. Holds(kept, c, now) = Holds(buckets, c, now)
    BY <1>1, <2>1, DroppingIsUnseen
  <2>3. QED
    BY <1>2, <2>2 DEF Holds
<1>5. AtLeast(now, bucket.last_seen) = now
  BY <1>1, <1>3 DEF AtLeast
<1>6. /\ buckets' = Store(kept, new) /\ now' = now
      /\ verdict' = [verdict EXCEPT ![c] = spent.limit]
      /\ promise' = [promise EXCEPT ![c] =
           IF spent.limit.allowed THEN NoPromise
           ELSE [cost |-> cost,
                 due |-> now + spent.limit.retry_after * TicksPerSecond]]
  <2> HIDE DEF kept
  <2>1. /\ buckets' = Store(kept, [client |-> c,
                                   tokens |-> Spend(Level(bucket, now), cost).tokens,
                                   last_seen |-> AtLeast(now, bucket.last_seen)])
        /\ verdict' = [verdict EXCEPT ![c] = Spend(Level(bucket, now), cost).limit]
        /\ promise' = [promise EXCEPT ![c] =
             IF Spend(Level(bucket, now), cost).limit.allowed THEN NoPromise
             ELSE [cost |-> cost,
                   due |-> now + Spend(Level(bucket, now), cost).limit.retry_after
                                   * TicksPerSecond]]
        /\ now' = now
    BY DEF Check, kept
  <2> HIDE DEF bucket
  <2>2. QED
    BY <1>4, <1>5, <2>1
<1>7. new \in Bucket /\ new.client = c /\ new.tokens = spent.tokens /\ new.last_seen = now
  <2>1. Holds(buckets, c, now) \in 0..Capacity
    BY <1>1, HoldsIs
  <2>2. spent.tokens \in 0..Capacity
    BY <2>1, SpendIs
  <2> HIDE DEF spent
  <2>3. QED
    BY <1>1, <2>2 DEF Bucket
<1> HIDE DEF new
<1>8. PICK forgotten \in Forgettable(c) :
        Replaces(buckets, Store(kept, new), c, new, forgotten, now)
  BY <1>7, StoreReplaces
<1> HIDE DEF kept, spent
<1>9. Replaces(buckets, buckets', c, new, forgotten, now)
  BY <1>6, <1>8
<1>10. \E b \in Bucket, f \in Forgettable(c) :
         /\ b.client = c /\ b.tokens = spent.tokens /\ b.last_seen = now
         /\ Replaces(buckets, buckets', c, b, f, now)
  BY <1>7, <1>9
<1>11. QED
  BY <1>1, <1>6, <1>10 DEF spent

LEMMA InitMakesIt == Init => MInv
<1> SUFFICES ASSUME Init PROVE MInv
  OBVIOUS
<1>1. now \in 0..MaxTime /\ buckets = <<>> /\ buckets \in Seq(Bucket) /\ Len(buckets) = 0
  BY LimiterAssumption DEF Init
<1>2. Ordered(buckets, now) /\ Len(buckets) <= MaxClients
  BY <1>1, LimiterAssumption DEF Ordered
<1>3. \A c \in Clients : promise[c] = NoPromise
  BY DEF Init
<1>4. /\ verdict \in [Clients -> RateLimit \cup {NoAnswer}]
      /\ promise \in [Clients -> [cost : Costs, due : Nat] \cup {NoPromise}]
  BY DEF Init
<1>5. QED
  BY <1>1, <1>2, <1>3, <1>4 DEF MInv

LEMMA TickKeeps ==
  ASSUME MInv, Tick
  PROVE  MInv'
<1>1. now \in Nat /\ now' = now + 1 /\ now' \in 0..MaxTime
      /\ UNCHANGED <<buckets, verdict, promise>>
  BY LimiterAssumption DEF MInv, Tick
<1>2. Ordered(buckets, now')
  <2>1. \A i \in 1..Len(buckets) : buckets[i].last_seen <= now /\ buckets[i] \in Bucket
    BY DEF MInv, Ordered
  <2>2. \A i \in 1..Len(buckets) : buckets[i].last_seen <= now'
    BY <1>1, <2>1 DEF Bucket
  <2>3. QED
    BY <2>2 DEF MInv, Ordered
<1>3. QED
  BY <1>1, <1>2 DEF MInv, Members, Keeps, Ordered

\* A refusal promises what the bucket it leaves will hold by then.
LEMMA CheckKeeps ==
  ASSUME MInv, NEW c \in Clients, NEW cost \in Costs, Check(c, cost)
  PROVE  MInv'
<1> DEFINE spent == Spend(Holds(buckets, c, now), cost)
           due == now + spent.limit.retry_after * TicksPerSecond
<1>1. /\ now' = now /\ now \in Nat
      /\ verdict' = [verdict EXCEPT ![c] = spent.limit]
      /\ promise' = [promise EXCEPT ![c] =
           IF spent.limit.allowed THEN NoPromise ELSE [cost |-> cost, due |-> due]]
  BY CheckIs
<1>2. PICK new \in Bucket, forgotten \in Forgettable(c) :
        /\ new.client = c /\ new.tokens = spent.tokens /\ new.last_seen = now
        /\ Replaces(buckets, buckets', c, new, forgotten, now)
  BY CheckIs
<1>3. Holds(buckets, c, now) \in 0..Capacity
  BY <1>1, HoldsIs DEF MInv
<1>4. /\ spent.tokens \in 0..Capacity /\ spent.limit \in RateLimit
      /\ ~spent.limit.allowed =>
           spent.tokens + (spent.limit.retry_after * TicksPerSecond) * PerMinute
             >= cost * OneToken
  BY <1>3, SpendIs
<1> HIDE DEF spent
<1>5. due \in Nat /\ due >= now /\ due - now = spent.limit.retry_after * TicksPerSecond
  <2>1. spent.limit.retry_after \in Nat /\ TicksPerSecond \in Nat
    BY <1>4, BucketAssumption DEF RateLimit
  <2>2. spent.limit.retry_after * TicksPerSecond \in Nat
    BY <2>1, Monotone
  <2>3. QED
    BY <1>1, <2>2
<1>6. ~spent.limit.allowed => Keeps(new, [cost |-> cost, due |-> due])
  BY <1>1, <1>2, <1>4, <1>5 DEF Keeps
<1> HIDE DEF due
<1>7. /\ verdict' \in [Clients -> RateLimit \cup {NoAnswer}]
      /\ promise' \in [Clients -> [cost : Costs, due : Nat] \cup {NoPromise}]
  <2>1. [cost |-> cost, due |-> due] \in [cost : Costs, due : Nat]
    BY <1>5
  <2>2. QED
    BY <1>1, <1>4, <2>1 DEF MInv
<1>8. ASSUME NEW d \in Clients, promise'[d] # NoPromise,
             NEW b \in Members(buckets'), b.client = d
      PROVE  Keeps(b, promise'[d])
  <2>1. b = new \/ (b \in Members(buckets) /\ b.client # c)
    BY <1>2 DEF Replaces
  <2>2. CASE d = c
    <3>1. b = new
      BY <1>8, <2>1, <2>2
    <3>2. promise'[d] = IF spent.limit.allowed THEN NoPromise
                        ELSE [cost |-> cost, due |-> due]
      BY <1>1, <2>2 DEF MInv
    <3>3. QED
      BY <1>6, <1>8, <3>1, <3>2
  <2>3. CASE d # c
    <3>1. b \in Members(buckets) /\ promise'[d] = promise[d]
      BY <1>1, <1>2, <1>8, <2>1, <2>3 DEF MInv
    <3>2. QED
      BY <1>8, <3>1 DEF MInv
  <2>4. QED
    BY <2>2, <2>3
<1>9. Ordered(buckets', now) /\ Len(buckets') <= MaxClients
  BY <1>2 DEF Replaces
<1>10. \A d \in Clients : promise'[d] # NoPromise =>
         \A b \in Members(buckets') : b.client = d => Keeps(b, promise'[d])
  BY <1>8
<1>11. now' \in 0..MaxTime /\ Ordered(buckets', now')
  BY <1>1, <1>9 DEF MInv
<1>12. QED
  BY <1>7, <1>9, <1>10, <1>11 DEF MInv, Members, Keeps, Ordered

LEMMA Invariance == Spec => []MInv
<1>1. MInv /\ [Next]_vars => MInv'
  <2> SUFFICES ASSUME MInv, [Next]_vars PROVE MInv'
    OBVIOUS
  <2>1. CASE UNCHANGED vars
    BY <2>1 DEF MInv, vars, Members, Keeps, Ordered
  <2>2. CASE Tick
    BY <2>2, TickKeeps
  <2>3. ASSUME NEW c \in Clients, NEW cost \in Costs, Check(c, cost) PROVE MInv'
    BY <2>3, CheckKeeps
  <2>4. QED
    BY <2>1, <2>2, <2>3 DEF Next
<1>2. QED
  BY <1>1, InitMakesIt, PTL DEF Spec

-----------------------------------------------------------------------------
(* The theorems.                                                           *)

\* Clock, table, answers and promises keep their types.
THEOREM TypeCorrect == Spec => []TypeOK
<1>1. MInv => TypeOK
  BY DEF MInv, TypeOK, Ordered
<1>2. QED
  BY <1>1, Invariance, PTL

\* The table never outgrows its cap and holds one bucket per client
\* (RateLimiter._evict).
THEOREM TableIsBounded == Spec => []BucketsBounded
<1>1. MInv => BucketsBounded
  BY DEF MInv, BucketsBounded, Ordered
<1>2. QED
  BY <1>1, Invariance, PTL

\* Once a check is over, no bucket that has long refilled is kept anywhere in
\* the table, although only its front was looked at (RateLimiter._evict and
\* move_to_end).
THEOREM FrontIsEnough == Spec => NothingIdleIsKept
<1> DEFINE Clean ==
      buckets' # buckets => \A i \in 1..Len(buckets') : ~Refilled(buckets'[i].last_seen, now)
<1>1. MInv /\ [Next]_vars => [Clean]_vars
  <2> SUFFICES ASSUME MInv, [Next]_vars PROVE Clean \/ UNCHANGED vars
    OBVIOUS
  <2>1. CASE UNCHANGED vars
    BY <2>1
  <2>2. CASE Tick
    BY <2>2 DEF Tick
  <2>3. ASSUME NEW c \in Clients, NEW cost \in Costs, Check(c, cost) PROVE Clean
    <3>1. PICK new \in Bucket, forgotten \in Forgettable(c) :
            new.last_seen = now /\ Replaces(buckets, buckets', c, new, forgotten, now)
      BY <2>3, CheckIs
    <3>2. now \in Nat
      BY LimiterAssumption DEF MInv
    <3>3. ~Refilled(new.last_seen, now)
      BY <3>1, <3>2, JustStored
    <3>4. \A b \in Members(buckets') : ~Refilled(b.last_seen, now)
      BY <3>1, <3>3 DEF Replaces
    <3>5. QED
      BY <3>4 DEF Members
  <2>4. QED
    BY <2>1, <2>2, <2>3 DEF Next
<1>2. QED
  BY <1>1, Invariance, PTL DEF Spec, NothingIdleIsKept

\* A promise that is due is covered by what the bucket holds.
LEMMA DueIsCovered ==
  ASSUME MInv, NEW c \in Clients, promise[c] # NoPromise, now >= promise[c].due
  PROVE  /\ promise[c].cost \in Costs
         /\ promise[c].cost * OneToken <= Holds(buckets, c, now)
<1> DEFINE p == promise[c]
<1>1. p.cost \in Costs /\ p.due \in Nat /\ now \in Nat /\ Ordered(buckets, now)
  BY LimiterAssumption DEF MInv
<1>2. p.cost * OneToken \in Nat /\ p.cost * OneToken <= Capacity
  BY <1>1, CostIs
<1>3. CASE ~Tracks(buckets, c)
  BY <1>1, <1>2, <1>3, HoldsIs
<1>4. CASE Tracks(buckets, c)
  <2>1. PICK b \in Members(buckets) : b.client = c /\ At(buckets, c, now) = b
    BY <1>1, <1>4, AtIs
  <2>2. b \in Bucket /\ b.last_seen <= now /\ Keeps(b, p)
    BY <1>1, <2>1, MembersAre DEF MInv
  <2>3. b.last_seen \in Nat /\ b.tokens \in Nat
    BY <2>2, CapacityIsPositive DEF Bucket
  <2> DEFINE early == p.due - b.last_seen
             late == now - b.last_seen
             refilled == late * PerMinute
  <2>4. early \in Nat /\ late \in Nat /\ early <= late
    BY <1>1, <2>2, <2>3 DEF Keeps
  <2>5. b.tokens + early * PerMinute >= p.cost * OneToken
    BY <2>2 DEF Keeps
  <2>6. Level(b, now) = AtMost(Capacity, b.tokens + refilled)
    BY <1>1, <2>2, LevelIs
  <2> HIDE DEF early, late
  <2>7. early * PerMinute <= refilled /\ early * PerMinute \in Nat /\ refilled \in Nat
    BY <2>4, Monotone, BucketAssumption
  <2> HIDE DEF refilled
  <2>8. b.tokens + refilled >= p.cost * OneToken
    BY <1>2, <2>3, <2>5, <2>7
  <2>9. p.cost * OneToken <= Level(b, now)
    BY <1>2, <2>3, <2>6, <2>7, <2>8, CapacityIsPositive DEF AtMost
  <2>10. QED
    BY <1>1, <2>1, <2>9 DEF Holds
<1>5. QED
  BY <1>3, <1>4

\* A refused client that comes back when it was told to, and asks for no more,
\* is admitted (RateLimiter._spend, retry_after).
THEOREM PromisesAreKept == Spec => RetryIsHonoured
<1> DEFINE Kept ==
      \A c \in Clients, cost \in Costs :
        /\ Check(c, cost)
        /\ promise[c] # NoPromise /\ cost <= promise[c].cost /\ now >= promise[c].due
        => verdict'[c].allowed
<1>1. MInv => Kept
  <2> SUFFICES ASSUME MInv, NEW c \in Clients, NEW cost \in Costs, Check(c, cost),
                      promise[c] # NoPromise, cost <= promise[c].cost,
                      now >= promise[c].due
               PROVE  verdict'[c].allowed
    OBVIOUS
  <2> DEFINE held == Holds(buckets, c, now)
  <2>1. promise[c].cost \in Costs /\ promise[c].cost * OneToken <= held
    BY DueIsCovered
  <2>2. held \in 0..Capacity /\ Capacity \in Nat
    BY HoldsIs, CapacityIsPositive, LimiterAssumption DEF MInv
  <2>3. verdict'[c] = Spend(held, cost).limit
    <3>1. verdict' = [verdict EXCEPT ![c] = Spend(held, cost).limit]
      BY CheckIs
    <3>2. QED
      BY <3>1 DEF MInv
  <2> HIDE DEF held
  <2>4. /\ cost * OneToken <= promise[c].cost * OneToken
        /\ cost * OneToken \in Nat /\ promise[c].cost * OneToken \in Nat
    BY <2>1, CostIs, Monotone, CapacityIsPositive
  <2>5. held >= cost * OneToken
    BY <2>1, <2>2, <2>4
  <2>6. ~Spend(held, cost).limit.allowed => held < cost * OneToken
    BY <2>2, SpendIs
  <2>7. QED
    BY <2>2, <2>3, <2>4, <2>5, <2>6
<1>2. QED
  BY <1>1, Invariance, PTL DEF RetryIsHonoured

-----------------------------------------------------------------------------
(* The limiter that forgets nobody.                                        *)

LEMMA HoldsNow ==
  /\ \A c : Level(BucketOf(buckets, c), now) = Holds(buckets, c, now)
  /\ \A c : Level(BucketOf(buckets, c), now)' = Holds(buckets', c, now')
BY DEF BucketOf, Holds, At

LEMMA SameArithmetic ==
  /\ \A n, limit : Ideal!AtMost(limit, n) = AtMost(limit, n)
  /\ \A level, cost : Ideal!Spend(level, cost) = Spend(level, cost)
  /\ Ideal!Capacity = Capacity
BY DEF Ideal!AtMost, AtMost, Ideal!Spend, Spend, Ideal!Wait, Wait, Ideal!AtLeast, AtLeast,
       Ideal!OneToken, OneToken, Ideal!Capacity, Capacity

\* A tick refills every bucket, kept or forgotten.
LEMMA TickRefills ==
  ASSUME MInv, Tick, NEW c \in Clients
  PROVE  Holds(buckets', c, now') = AtMost(Capacity, Holds(buckets, c, now) + PerMinute)
<1>1. now \in Nat /\ now' = now + 1 /\ now + 1 \in Nat /\ buckets' = buckets
      /\ Ordered(buckets, now)
  BY LimiterAssumption DEF MInv, Tick
<1>2. Ordered(buckets, now + 1)
  <2>1. MInv'
    BY TickKeeps
  <2>2. QED
    BY <1>1, <2>1 DEF MInv, Ordered
<1>3. CASE Tracks(buckets, c)
  <2>1. PICK b \in Members(buckets) : b.client = c /\ At(buckets, c, now) = b
    BY <1>1, <1>3, AtIs
  <2>2. At(buckets, c, now + 1) = b /\ b \in Bucket /\ b.last_seen <= now
    BY <1>1, <1>2, <2>1, AtIs, MembersAre
  <2>3. Level(b, now + 1) = AtMost(Capacity, Level(b, now) + PerMinute)
    BY <1>1, <2>2, LevelAfterTick
  <2>4. QED
    BY <1>1, <2>1, <2>2, <2>3 DEF Holds
<1>4. CASE ~Tracks(buckets, c)
  <2>1. Holds(buckets, c, now) = Capacity /\ Holds(buckets, c, now + 1) = Capacity
    BY <1>1, <1>2, <1>4, HoldsIs
  <2>2. QED
    BY <1>1, <2>1, CapacityIsPositive, BucketAssumption DEF AtMost
<1>5. QED
  BY <1>3, <1>4

\* A check takes from one client, and resets whom it forgets.
LEMMA CheckSpends ==
  ASSUME MInv, NEW c \in Clients, NEW cost \in Costs, Check(c, cost)
  PROVE  \E forgotten \in Forgettable(c) : \A d \in Clients :
           Holds(buckets', d, now') =
             IF d = c THEN Spend(Holds(buckets, c, now), cost).tokens
             ELSE IF d \in forgotten THEN Capacity ELSE Holds(buckets, d, now)
<1>1. now \in Nat /\ now' = now /\ Ordered(buckets, now)
  BY CheckIs DEF MInv
<1> DEFINE spent == Spend(Holds(buckets, c, now), cost)
<1>2. PICK new \in Bucket, forgotten \in Forgettable(c) :
        /\ new.client = c /\ new.tokens = spent.tokens /\ new.last_seen = now
        /\ Replaces(buckets, buckets', c, new, forgotten, now)
  BY CheckIs
<1> HIDE DEF spent
<1>3. Ordered(buckets', now) /\ new \in Members(buckets')
  BY <1>2 DEF Replaces
<1>4. Holds(buckets', c, now) = spent.tokens
  <2>1. At(buckets', c, now) = new
    BY <1>1, <1>2, <1>3, AtIs
  <2>2. QED
    BY <1>1, <1>2, <2>1, JustStored DEF Holds
<1>5. ASSUME NEW d \in Clients, d # c, d \in forgotten
      PROVE  Holds(buckets', d, now) = Capacity
  <2>1. \A b \in Members(buckets') : b.client # d
    BY <1>2, <1>5 DEF Replaces
  <2>2. ~Tracks(buckets', d)
    BY <1>1, <1>3, <2>1, AtIs
  <2>3. QED
    BY <1>1, <1>3, <2>2, HoldsIs
<1>6. ASSUME NEW d \in Clients, d # c, d \notin forgotten
      PROVE  Holds(buckets', d, now) = Holds(buckets, d, now)
  <2>1. ASSUME ~Tracks(buckets', d) PROVE Holds(buckets, d, now) = Capacity
    <3>1. CASE ~Tracks(buckets, d)
      BY <1>1, <3>1, HoldsIs
    <3>2. CASE Tracks(buckets, d)
      <4>1. PICK b \in Members(buckets) : b.client = d /\ At(buckets, d, now) = b
        BY <1>1, <3>2, AtIs
      <4>2. b \notin Members(buckets')
        BY <1>1, <1>3, <2>1, <4>1, AtIs
      <4>3. Refilled(b.last_seen, now) /\ b \in Bucket /\ b.last_seen <= now
        BY <1>1, <1>2, <1>6, <4>1, <4>2, MembersAre DEF Replaces
      <4>4. QED
        BY <1>1, <4>1, <4>3, RefilledIsFull DEF Holds
    <3>3. QED
      BY <3>1, <3>2
  <2>2. ASSUME Tracks(buckets', d) PROVE Holds(buckets', d, now) = Holds(buckets, d, now)
    <3>1. PICK b \in Members(buckets') : b.client = d /\ At(buckets', d, now) = b
      BY <1>1, <1>3, <2>2, AtIs
    <3>2. b \in Members(buckets)
      BY <1>2, <1>6, <3>1 DEF Replaces
    <3>3. At(buckets, d, now) = b
      BY <1>1, <3>1, <3>2, AtIs
    <3>4. QED
      BY <3>1, <3>3 DEF Holds
  <2>3. QED
    BY <1>1, <1>3, <2>1, <2>2, HoldsIs
<1>7. QED
  BY <1>1, <1>4, <1>5, <1>6 DEF spent

\* Forgetting refilled buckets, and one other when the table is full, cannot be
\* told from a limiter that keeps a bucket for every client (RateLimiter._evict:
\* "they are indistinguishable from new").
THEOREM ForgettingIsUnseen == Spec => ImplementsIdeal
<1> DEFINE Levels == [c \in Clients |-> Level(BucketOf(buckets, c), now)]
<1>1. ASSUME Init PROVE Ideal!Init
  <2>1. \A c \in Clients : Level(BucketOf(buckets, c), now) = Capacity
    <3>1. now \in Nat /\ Ordered(buckets, now)
      BY <1>1, InitMakesIt, LimiterAssumption DEF MInv
    <3>2. \A c \in Clients : ~Tracks(buckets, c)
      BY <1>1 DEF Init, Tracks
    <3>3. QED
      BY <3>1, <3>2, HoldsIs, HoldsNow
  <2>2. QED
    BY <1>1, <2>1, SameArithmetic DEF Init, Ideal!Init
<1>2. ASSUME MInv, Tick PROVE Ideal!Tick
  <2>1. \A c \in Clients : Level(BucketOf(buckets, c), now)' =
                             AtMost(Capacity, Levels[c] + PerMinute)
    BY <1>2, TickRefills, HoldsNow
  <2>2. Levels' = [c \in Clients |-> AtMost(Capacity, Levels[c] + PerMinute)]
    BY <2>1
  <2>3. verdict' = verdict
    BY <1>2 DEF Tick
  <2>4. QED
    BY <2>2, <2>3, SameArithmetic DEF Ideal!Tick
<1>3. ASSUME MInv, NEW c \in Clients, NEW cost \in Costs, Check(c, cost)
      PROVE  Ideal!Check(c, cost)
  <2>1. PICK forgotten \in Forgettable(c) : \A d \in Clients :
          Holds(buckets', d, now') =
            IF d = c THEN Spend(Holds(buckets, c, now), cost).tokens
            ELSE IF d \in forgotten THEN Capacity ELSE Holds(buckets, d, now)
    BY <1>3, CheckSpends
  <2>2. \A d \in Clients : Levels[d] = Holds(buckets, d, now)
    BY HoldsNow
  <2>3. Levels' = [d \in Clients |->
                     IF d = c THEN Spend(Levels[c], cost).tokens
                     ELSE IF d \in forgotten THEN Capacity ELSE Levels[d]]
    BY <2>1, <2>2, HoldsNow
  <2>4. verdict' = [verdict EXCEPT ![c] = Spend(Levels[c], cost).limit]
    BY <1>3, <2>2, CheckIs
  <2>5. forgotten \in Ideal!MayForget(c)
    BY DEF Forgettable, Ideal!MayForget, Ideal!Cardinality, Cardinality
  <2>6. QED
    BY <2>3, <2>4, <2>5, SameArithmetic DEF Ideal!Check
<1>4. MInv /\ [Next]_vars => [Ideal!Next]_(Ideal!idealVars)
  <2> SUFFICES ASSUME MInv, [Next]_vars PROVE Ideal!Next \/ UNCHANGED Ideal!idealVars
    OBVIOUS
  <2>1. CASE UNCHANGED vars
    BY <2>1 DEF vars, Ideal!idealVars, BucketOf, Tracks, Place
  <2>2. CASE Tick
    BY <1>2, <2>2 DEF Ideal!Next
  <2>3. CASE \E c \in Clients, cost \in Costs : Check(c, cost)
    BY <1>3, <2>3 DEF Ideal!Next
  <2>4. QED
    BY <2>1, <2>2, <2>3 DEF Next
<1>5. QED
  BY <1>1, <1>4, Invariance, PTL DEF Spec, ImplementsIdeal, Ideal!Spec
=============================================================================
