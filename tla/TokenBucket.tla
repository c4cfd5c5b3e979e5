----------------------------- MODULE TokenBucket ------------------------------
(***************************************************************************)
(* The arithmetic both rate limiters share.  Tokens are counted in units   *)
(* of which a clock tick refills exactly PerMinute, so the code's rational *)
(* numbers are integers here (the rounding of its floats is left out).     *)
(***************************************************************************)
EXTENDS Integers

CONSTANTS
  PerMinute,       \* tokens refilled in a minute
  Burst,           \* tokens a bucket holds
  TicksPerSecond   \* how finely the clock is read

ASSUME BucketAssumption ==
  PerMinute \in Nat \ {0} /\ Burst \in Nat \ {0} /\ TicksPerSecond \in Nat \ {0}

OneToken == 60 * TicksPerSecond
Capacity == Burst * OneToken

RateLimit == [allowed : BOOLEAN, retry_after : Nat]

AtMost(limit, n) == IF n <= limit THEN n ELSE limit
AtLeast(limit, n) == IF n >= limit THEN n ELSE limit

\* Mutation: the wait is rounded down.
WaitRoundedDown(missing) == AtLeast(1, missing \div (PerMinute * TicksPerSecond))

\* Whole seconds until that many units are refilled, rounded up.
Wait(missing) ==
  LET perSecond == PerMinute * TicksPerSecond IN
  AtLeast(1, (missing + perSecond - 1) \div perSecond)

\* What a bucket holds by now.  A clock that stepped back refills nothing.
Level(bucket, now) ==
  AtMost(Capacity, bucket.tokens + AtLeast(0, now - bucket.last_seen) * PerMinute)

\* Spend cost tokens of a level: what is left, and the answer.
Spend(level, cost) ==
  IF level >= cost * OneToken
  THEN [tokens |-> level - cost * OneToken,
        limit |-> [allowed |-> TRUE, retry_after |-> 0]]
  ELSE [tokens |-> level,
        limit |-> [allowed |-> FALSE,
                   retry_after |-> Wait(cost * OneToken - level)]]

\* Mutation: one token's worth of time is taken for a whole burst's.
RefilledOneToken(last_seen, now) == (now - last_seen) * PerMinute >= OneToken

\* Long enough unseen to have refilled from empty: indistinguishable from new.
Refilled(last_seen, now) == (now - last_seen) * PerMinute >= Capacity
=============================================================================
