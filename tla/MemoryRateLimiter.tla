-------------------------- MODULE MemoryRateLimiter ---------------------------
(***************************************************************************)
(* The in-process rate limiter: buckets in the order they were last used,  *)
(* the oldest first.  A check runs under one lock and is one step; the     *)
(* clock is monotonic.                                                     *)
(***************************************************************************)
EXTENDS TokenBucket, Sequences, FiniteSets

CONSTANTS
  Clients,      \* addresses that ask
  Costs,        \* tokens a request may cost
  MaxClients,   \* buckets that are kept at most
  MaxTime,      \* bound: the clock stops here
  NoAnswer,     \* a client that has not been answered yet
  NoPromise     \* a client that has not been told when to return

ASSUME LimiterAssumption ==
  /\ IsFiniteSet(Clients)
  /\ Costs \subseteq 1..Burst
  /\ MaxClients \in Nat \ {0} /\ MaxTime \in Nat

VARIABLES
  now,       \* time.monotonic, in ticks
  buckets,   \* the OrderedDict of buckets, oldest first
  verdict,   \* the last answer each client got
  promise    \* history: when a refused client was told to come back

vars == <<now, buckets, verdict, promise>>

Bucket == [client : Clients, tokens : 0..Capacity, last_seen : Nat]

TypeOK ==
  /\ now \in 0..MaxTime
  /\ buckets \in Seq(Bucket)
  /\ verdict \in [Clients -> RateLimit \cup {NoAnswer}]
  /\ promise \in [Clients -> [cost : Costs, due : Nat] \cup {NoPromise}]

Init ==
  /\ now = 0
  /\ buckets = <<>>
  /\ verdict = [c \in Clients |-> NoAnswer]
  /\ promise = [c \in Clients |-> NoPromise]

Tick ==
  /\ now < MaxTime
  /\ now' = now + 1
  /\ UNCHANGED <<buckets, verdict, promise>>

-----------------------------------------------------------------------------
(* Eviction.                                                               *)

Tracks(bs, c) == \E i \in 1..Len(bs) : bs[i].client = c

From(bs, i) == SubSeq(bs, i, Len(bs))

\* The first bucket, from the front, that has not refilled.
FirstKept(bs) ==
  CHOOSE i \in 1..(Len(bs) + 1) :
    /\ \A j \in 1..(i - 1) : Refilled(bs[j].last_seen, now)
    /\ i <= Len(bs) => ~Refilled(bs[i].last_seen, now)

DropIdle(bs) == From(bs, FirstKept(bs))

\* Mutation: no slot is reserved for the caller.
DropOverCap(bs, c) == IF Len(bs) > MaxClients THEN From(bs, 2) ELSE bs

\* One bucket must go when a new client would be one too many.
DropOverflow(bs, c) ==
  IF ~Tracks(bs, c) /\ Len(bs) + 1 > MaxClients
  THEN From(bs, Len(bs) + 2 - MaxClients)
  ELSE bs

\* Mutation: only the front is looked at, whoever has refilled.
EvictOverflowOnly(c) == DropOverflow(buckets, c)

Evict(c) == DropOverflow(DropIdle(buckets), c)

-----------------------------------------------------------------------------
(* check                                                                   *)

Place(bs, c) == CHOOSE i \in 1..Len(bs) : bs[i].client = c

\* The bucket of a client, a full one if there is none.
BucketOf(bs, c) ==
  IF Tracks(bs, c) THEN bs[Place(bs, c)]
  ELSE [client |-> c, tokens |-> Capacity, last_seen |-> now]

\* Mutation: the bucket stays where it was.
StoreInPlace(bs, bucket) ==
  IF Tracks(bs, bucket.client)
  THEN [i \in 1..Len(bs) |-> IF bs[i].client = bucket.client THEN bucket ELSE bs[i]]
  ELSE Append(bs, bucket)

Without(bs, c) ==
  IF Tracks(bs, c)
  THEN SubSeq(bs, 1, Place(bs, c) - 1) \o From(bs, Place(bs, c) + 1)
  ELSE bs

\* A bucket that was used moves to the end.
Store(bs, bucket) == Append(Without(bs, bucket.client), bucket)

Check(c, cost) ==
  LET kept == Evict(c)
      bucket == BucketOf(kept, c)
      spent == Spend(Level(bucket, now), cost)
  IN
  /\ buckets' = Store(kept, [client |-> c, tokens |-> spent.tokens,
                             last_seen |-> AtLeast(now, bucket.last_seen)])
  /\ verdict' = [verdict EXCEPT ![c] = spent.limit]
  /\ promise' = [promise EXCEPT ![c] =
       IF spent.limit.allowed THEN NoPromise
       ELSE [cost |-> cost,
             due |-> now + spent.limit.retry_after * TicksPerSecond]]
  /\ UNCHANGED now

Next == Tick \/ \E c \in Clients, cost \in Costs : Check(c, cost)

Spec == Init /\ [][Next]_vars

-----------------------------------------------------------------------------
(* What must hold.                                                         *)

\* The table never outgrows its cap, not even for the request that fills it,
\* and holds one bucket per client (_evict: "so the dictionary never exceeds the
\* cap").
BucketsBounded ==
  /\ Len(buckets) <= MaxClients
  /\ \A i, j \in 1..Len(buckets) : buckets[i].client = buckets[j].client => i = j

\* Looking at the front is enough: once a check is over, no bucket that has long
\* refilled is still kept, anywhere in the table (_evict stops at the first
\* bucket that has not).
NothingIdleIsKept ==
  [][buckets' # buckets =>
       \A i \in 1..Len(buckets') : ~Refilled(buckets'[i].last_seen, now)]_vars

\* A refused client that waits as long as it was told to, and asks for no more,
\* is admitted (retry_after, sent as Retry-After with status 429).
RetryIsHonoured ==
  [][\A c \in Clients, cost \in Costs :
       /\ Check(c, cost)
       /\ promise[c] # NoPromise /\ cost <= promise[c].cost /\ now >= promise[c].due
       => verdict'[c].allowed]_vars

\* Forgetting refilled buckets cannot be told from remembering every client for
\* ever (_evict: "they are indistinguishable from new").
Ideal == INSTANCE IdealLimiter
           WITH level <- [c \in Clients |-> Level(BucketOf(buckets, c), now)]
ImplementsIdeal == Ideal!Spec
=============================================================================
