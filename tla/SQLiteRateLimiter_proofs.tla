----------------------- MODULE SQLiteRateLimiter_proofs -----------------------
(***************************************************************************)
(* Nobody is granted more than the burst and the refill, proved for any    *)
(* number of workers and clients, any rate, burst, cap and clock.          *)
(***************************************************************************)
EXTENDS SQLiteRateLimiter, FiniteSetTheorems, WellFoundedInduction, TLAPS

-----------------------------------------------------------------------------
(* The arithmetic of one bucket.                                           *)

LEMMA CapacityIsPositive ==
  OneToken \in Nat \ {0} /\ Capacity \in Nat \ {0}
BY BucketAssumption DEF OneToken, Capacity

LEMMA Monotone ==
  ASSUME NEW a \in Nat, NEW b \in Nat, NEW p \in Nat, a <= b
  PROVE  a * p <= b * p /\ a * p \in Nat
OBVIOUS

LEMMA OneMore ==
  ASSUME NEW a \in Nat, NEW p \in Nat
  PROVE  (a + 1) * p = a * p + p /\ a * p \in Nat
OBVIOUS

\* Time that passed for a bucket.
Elapsed(b, t) == AtLeast(0, t - b.last_seen)

LEMMA LevelIs ==
  ASSUME NEW b \in Row, NEW t \in Nat
  PROVE  /\ Elapsed(b, t) \in Nat /\ Elapsed(b, t) * PerMinute \in Nat
         /\ Level(b, t) = AtMost(Capacity, b.tokens + Elapsed(b, t) * PerMinute)
         /\ Level(b, t) \in 0..Capacity
<1>1. Elapsed(b, t) \in Nat
  BY LimiterAssumption DEF Elapsed, AtLeast, Row
<1>2. Elapsed(b, t) * PerMinute \in Nat
  BY <1>1, Monotone, BucketAssumption
<1>3. Level(b, t) = AtMost(Capacity, b.tokens + Elapsed(b, t) * PerMinute)
  BY DEF Level, Elapsed
<1>4. b.tokens \in 0..Capacity
  BY DEF Row
<1> DEFINE refill == Elapsed(b, t) * PerMinute
<1>5. Level(b, t) = AtMost(Capacity, b.tokens + refill) /\ refill \in Nat
  BY <1>2, <1>3
<1>6. Level(b, t) \in 0..Capacity
  <2> HIDE DEF refill
  <2>1. QED
    BY <1>4, <1>5, CapacityIsPositive DEF AtMost
<1>7. QED
  BY <1>1, <1>2, <1>3, <1>6

\* A tick refills PerMinute units at most.
LEMMA LevelAfterTick ==
  ASSUME NEW b \in Row, NEW t \in Nat
  PROVE  Level(b, t + 1) <= AtMost(Capacity, Level(b, t) + PerMinute)
<1> DEFINE e == Elapsed(b, t)
           f == Elapsed(b, t + 1)
<1>1. e \in Nat /\ f \in Nat /\ f <= e + 1
  BY LevelIs, LimiterAssumption DEF Elapsed, AtLeast, Row
<1> HIDE DEF e, f
<1>2. f * PerMinute <= (e + 1) * PerMinute /\ f * PerMinute \in Nat
  BY <1>1, Monotone, BucketAssumption
<1>3. (e + 1) * PerMinute = e * PerMinute + PerMinute /\ e * PerMinute \in Nat
  BY <1>1, OneMore, BucketAssumption
<1>4. /\ Level(b, t) = AtMost(Capacity, b.tokens + e * PerMinute)
      /\ Level(b, t + 1) = AtMost(Capacity, b.tokens + f * PerMinute)
  BY LevelIs DEF e, f
<1>5. b.tokens \in 0..Capacity /\ PerMinute \in Nat
  BY BucketAssumption DEF Row
<1>6. QED
  BY <1>2, <1>3, <1>4, <1>5, CapacityIsPositive DEF AtMost

\* A clock set back refills nothing.
LEMMA LevelSetBack ==
  ASSUME NEW b \in Row, NEW t \in Nat, NEW u \in Nat, u <= t
  PROVE  Level(b, u) <= Level(b, t)
<1> DEFINE e == Elapsed(b, u)
           f == Elapsed(b, t)
<1>1. e \in Nat /\ f \in Nat /\ e <= f
  BY LevelIs, LimiterAssumption DEF Elapsed, AtLeast, Row
<1> HIDE DEF e, f
<1>2. e * PerMinute <= f * PerMinute /\ e * PerMinute \in Nat /\ f * PerMinute \in Nat
  BY <1>1, Monotone, BucketAssumption
<1>3. /\ Level(b, u) = AtMost(Capacity, b.tokens + e * PerMinute)
      /\ Level(b, t) = AtMost(Capacity, b.tokens + f * PerMinute)
  BY LevelIs DEF e, f
<1>4. b.tokens \in 0..Capacity
  BY DEF Row
<1>5. QED
  BY <1>2, <1>3, <1>4, CapacityIsPositive DEF AtMost

\* A refilled bucket is full.
LEMMA RefilledIsFull ==
  ASSUME NEW b \in Row, NEW t \in Nat, Refilled(b.last_seen, t)
  PROVE  Level(b, t) = Capacity
<1> DEFINE d == t - b.last_seen
<1>1. d \in Int /\ d * PerMinute >= Capacity
  BY LimiterAssumption DEF Refilled, Row
<1> HIDE DEF d
<1>2. d >= 0
  <2>1. SUFFICES ASSUME d < 0 PROVE FALSE
    BY <1>1
  <2>2. 0 - d \in Nat
    BY <1>1, <2>1
  <2>3. (0 - d) * PerMinute \in Nat /\ d * PerMinute = 0 - ((0 - d) * PerMinute)
    BY <1>1, <2>2, Monotone, BucketAssumption
  <2>4. QED
    BY <1>1, <2>3, CapacityIsPositive
<1>3. Elapsed(b, t) = d
  BY <1>1, <1>2 DEF Elapsed, AtLeast, d
<1>4. b.tokens \in 0..Capacity
  BY DEF Row
<1> DEFINE refill == d * PerMinute
<1>5. /\ Level(b, t) = AtMost(Capacity, b.tokens + refill)
      /\ refill \in Nat /\ refill >= Capacity
  <2>1. Elapsed(b, t) * PerMinute = refill
    BY <1>3
  <2>2. QED
    BY <2>1, <1>1, LevelIs
<1> HIDE DEF refill
<1>6. QED
  BY <1>4, <1>5, CapacityIsPositive DEF AtMost

\* What was just stored is all there is.
LEMMA LevelOfStored ==
  ASSUME NEW b \in Row, NEW t \in Nat, t <= b.last_seen
  PROVE  Level(b, t) = b.tokens
<1>1. Elapsed(b, t) = 0 /\ b.tokens \in 0..Capacity
  BY LimiterAssumption DEF Elapsed, AtLeast, Row
<1>2. QED
  BY <1>1, LevelIs, CapacityIsPositive, BucketAssumption DEF AtMost

\* Waiting as long as it takes refills what is missing.
LEMMA WaitIsEnough ==
  ASSUME NEW missing \in Nat
  PROVE  /\ Wait(missing) \in Nat
         /\ (Wait(missing) * TicksPerSecond) * PerMinute \in Nat
         /\ (Wait(missing) * TicksPerSecond) * PerMinute >= missing
<1> DEFINE s == PerMinute * TicksPerSecond
           q == (missing + s - 1) \div s
<1>1. s \in Nat \ {0}
  BY BucketAssumption
<1>2. Wait(missing) = AtLeast(1, q)
  BY DEF Wait
<1>3. q \in Int /\ q * s >= missing
  <2> HIDE DEF s
  <2>1. missing + s - 1 \in Nat
    BY <1>1
  <2>2. q \in Int /\ q * s + ((missing + s - 1) % s) = missing + s - 1
    BY <1>1, <2>1
  <2>3. (missing + s - 1) % s \in 0..(s - 1)
    BY <1>1, <2>1
  <2>4. q * s \in Int
    BY <1>1, <2>2
  <2>5. QED
    BY <1>1, <2>2, <2>3, <2>4
<1> HIDE DEF q
<1>4. Wait(missing) \in Nat /\ q <= Wait(missing)
  BY <1>2, <1>3 DEF AtLeast
<1>5. Wait(missing) * s \in Nat /\ Wait(missing) * s >= missing
  <2> HIDE DEF s
  <2>1. CASE q >= 0
    BY <1>1, <1>3, <1>4, <2>1, Monotone
  <2>2. CASE q < 0
    <3>1. 0 - q \in Nat /\ (0 - q) * s \in Nat /\ q * s = 0 - ((0 - q) * s)
      BY <1>1, <1>3, <2>2, Monotone
    <3>2. missing = 0
      BY <1>3, <3>1
    <3>3. QED
      BY <1>1, <1>4, <3>2, Monotone
  <2>3. QED
    BY <1>3, <2>1, <2>2
<1>6. (Wait(missing) * TicksPerSecond) * PerMinute = Wait(missing) * s
  BY <1>4, BucketAssumption
<1>7. QED
  BY <1>4, <1>5, <1>6

-----------------------------------------------------------------------------
(* The inductive invariant.                                                *)

Check ==
  [pc : {"idle", "waiting", "begun", "spent"}, client : Clients, cost : Costs,
   at : 0..MaxTime, forgotten : SUBSET Clients, row : Row \cup {NoRow}, limit : RateLimit]

Promise == [cost : Costs, due : Nat]

Typed ==
  /\ now \in 0..MaxTime /\ rows \in Table
  /\ check \in [Workers -> Check]
  /\ allowance \in [Clients -> Int] /\ left \in [Workers -> Int]
  /\ promise \in [Clients -> Promise \cup {NoPromise}]

\* A worker in its transaction holds the lock, so there is one at a time.
Locked == \A w \in Workers : check[w].pc \in {"begun", "spent"} => writer = w

\* What the table would grant at a time; a client without a row is new.
Grants(row, t) == IF row = NoRow THEN Capacity ELSE Level(row, t)

\* The table grants a client no more than it is still allowed.
Covered(c) == Grants(rows[c], now) <= allowance[c]

\* A row of a client that was promised something will hold enough in time.
Enough(row, p) ==
  row # NoRow =>
    /\ row.last_seen <= p.due
    /\ row.tokens + (p.due - row.last_seen) * PerMinute >= p.cost * OneToken

Promised(c) == promise[c] # NoPromise => Enough(rows[c], promise[c])

\* What is known of a transaction that is ready to commit.
SpentSound(w) ==
  LET t == check[w]  p == promise[t.client] IN
  t.pc = "spent" =>
    /\ t.row \in Row /\ Level(t.row, now) <= left[w]
    /\ \A c \in Clients : rows[c] # NoRow /\ Refilled(rows[c].last_seen, t.at)
         => Capacity <= allowance[c]
    /\ ~t.limit.allowed =>
         /\ t.row.tokens + (t.limit.retry_after * TicksPerSecond) * PerMinute
              >= t.cost * OneToken
         /\ p # NoPromise /\ t.cost <= p.cost => t.at < p.due

IInv ==
  /\ Typed /\ Locked
  /\ \A c \in Clients : Covered(c) /\ Promised(c)
  /\ \A w \in Workers : SpentSound(w)

\* A commit grants what it took from the allowance, and no other transaction
\* is under way.
LEMMA Alone ==
  ASSUME IInv, NEW w \in Workers, check[w].pc \in {"begun", "spent"},
         NEW v \in Workers \ {w}
  PROVE  check[v].pc \notin {"begun", "spent"}
BY DEF IInv, Locked

LEMMA GrantsBounds ==
  ASSUME NEW row \in Row \cup {NoRow}, NEW t \in Nat
  PROVE  Grants(row, t) \in 0..Capacity /\ Grants(row, t) \in Nat
BY LevelIs, CapacityIsPositive DEF Grants

-----------------------------------------------------------------------------
(* Time.                                                                   *)

LEMMA TickKeeps ==
  ASSUME IInv, Tick
  PROVE  IInv'
<1>1. now \in Nat /\ now' = now + 1 /\ now' \in 0..MaxTime /\ PerMinute \in Nat
  BY LimiterAssumption, BucketAssumption DEF Tick, IInv, Typed
<1>2. /\ \A c \in Clients : allowance'[c] = AtMost(Capacity, allowance[c] + PerMinute)
      /\ \A w \in Workers : left'[w] =
           IF check[w].pc = "spent" THEN AtMost(Capacity, left[w] + PerMinute) ELSE left[w]
      /\ UNCHANGED <<rows, writer, check, promise>>
  BY DEF Tick
<1>3. Typed'
  <2>1. \A c \in Clients : allowance'[c] \in Int
    BY <1>1, <1>2, CapacityIsPositive DEF AtMost, IInv, Typed
  <2>2. \A w \in Workers : left'[w] \in Int
    BY <1>1, <1>2, CapacityIsPositive DEF AtMost, IInv, Typed
  <2>3. allowance' \in [Clients -> Int]
    BY <2>1 DEF Tick
  <2>4. left' \in [Workers -> Int]
    BY <2>2 DEF Tick
  <2>5. QED
    BY <1>1, <1>2, <2>3, <2>4 DEF IInv, Typed
<1>4. ASSUME NEW c \in Clients PROVE Covered(c)'
  <2>1. Grants(rows[c], now) <= allowance[c] /\ rows[c] \in Row \cup {NoRow}
    BY DEF IInv, Typed, Covered, Table
  <2>2. Grants(rows[c], now + 1) <= AtMost(Capacity, Grants(rows[c], now) + PerMinute)
    BY <1>1, <2>1, LevelAfterTick, CapacityIsPositive DEF Grants, AtMost
  <2>3. allowance[c] \in Int /\ Grants(rows[c], now) \in Nat /\ Grants(rows[c], now + 1) \in Nat
    BY <1>1, <2>1, GrantsBounds DEF IInv, Typed
  <2>4. Grants(rows[c], now + 1) <= allowance'[c]
    BY <1>1, <1>2, <2>1, <2>2, <2>3, CapacityIsPositive DEF AtMost
  <2>5. QED
    BY <1>1, <1>2, <2>4 DEF Covered
<1>5. ASSUME NEW w \in Workers PROVE SpentSound(w)'
  <2> SUFFICES ASSUME check[w].pc = "spent" PROVE SpentSound(w)'
    BY <1>2 DEF SpentSound
  <2>1. SpentSound(w) /\ check[w].row \in Row /\ Level(check[w].row, now) <= left[w]
    BY DEF IInv, SpentSound
  <2>2. Level(check[w].row, now + 1) <= AtMost(Capacity, Level(check[w].row, now) + PerMinute)
    BY <1>1, <2>1, LevelAfterTick
  <2>3. /\ left[w] \in Int /\ Level(check[w].row, now) \in Nat
        /\ Level(check[w].row, now + 1) \in Nat
    BY <1>1, <2>1, LevelIs DEF IInv, Typed
  <2>4. Level(check[w].row, now + 1) <= left'[w]
    BY <1>1, <1>2, <2>1, <2>2, <2>3, CapacityIsPositive DEF AtMost
  <2>5. \A c \in Clients : Capacity <= allowance[c] => Capacity <= allowance'[c]
    BY <1>1, <1>2, CapacityIsPositive DEF AtMost, IInv, Typed
  <2>6. QED
    BY <1>1, <1>2, <2>1, <2>4, <2>5 DEF SpentSound
<1>6. QED
  BY <1>2, <1>3, <1>4, <1>5 DEF IInv, Locked, Promised

LEMMA SetBackKeeps ==
  ASSUME IInv, NEW t \in 0..MaxTime, SetBack(t)
  PROVE  IInv'
<1>1. now \in Nat /\ t \in Nat /\ t <= now /\ now' = t
  BY LimiterAssumption DEF SetBack, IInv, Typed
<1>2. /\ \A c \in Clients : promise'[c] = NoPromise
      /\ UNCHANGED <<rows, writer, check, allowance, left>>
  BY DEF SetBack
<1>3. Typed'
  BY <1>1, <1>2 DEF SetBack, IInv, Typed
<1>4. ASSUME NEW c \in Clients PROVE Covered(c)'
  <2>1. /\ Grants(rows[c], now) <= allowance[c] /\ rows[c] \in Row \cup {NoRow}
        /\ allowance[c] \in Int
    BY DEF IInv, Typed, Covered, Table
  <2>2. Grants(rows[c], t) <= Grants(rows[c], now)
    BY <1>1, <2>1, LevelSetBack, CapacityIsPositive DEF Grants
  <2>3. Grants(rows[c], t) \in Nat /\ Grants(rows[c], now) \in Nat
    BY <1>1, <2>1, GrantsBounds
  <2>4. Grants(rows[c], t) <= allowance[c]
    BY <2>1, <2>2, <2>3
  <2>5. QED
    BY <1>1, <1>2, <2>4 DEF Covered
<1>5. ASSUME NEW w \in Workers PROVE SpentSound(w)'
  <2> SUFFICES ASSUME check[w].pc = "spent" PROVE SpentSound(w)'
    BY <1>2 DEF SpentSound
  <2>1. /\ SpentSound(w) /\ check[w].row \in Row /\ Level(check[w].row, now) <= left[w]
        /\ left[w] \in Int /\ check[w].client \in Clients
    BY DEF IInv, SpentSound, Typed, Check
  <2>2. Level(check[w].row, t) <= Level(check[w].row, now)
    BY <1>1, <2>1, LevelSetBack
  <2>3. Level(check[w].row, t) \in Nat /\ Level(check[w].row, now) \in Nat
    BY <1>1, <2>1, LevelIs
  <2>4. Level(check[w].row, t) <= left[w]
    BY <2>1, <2>2, <2>3
  <2>5. QED
    BY <1>1, <1>2, <2>1, <2>4 DEF SpentSound
<1>6. QED
  BY <1>2, <1>3, <1>4, <1>5 DEF IInv, Locked, Promised

-----------------------------------------------------------------------------
(* The steps of a check.                                                   *)

LEMMA IdleIsTyped ==
  Idle \in Check /\ Idle.pc = "idle"
<1>1. Idle.client \in Clients /\ Idle.cost \in Costs
  BY LimiterAssumption DEF Idle
<1>2. QED
  BY <1>1, LimiterAssumption DEF Idle, Check, RateLimit, NoLimit

\* A step of one worker that leaves the tables alone.
LEMMA OneWorker ==
  ASSUME IInv, NEW w \in Workers, NEW t \in Check, NEW n \in Int,
         check' = [check EXCEPT ![w] = t], left' = [left EXCEPT ![w] = n],
         UNCHANGED <<now, rows, allowance, promise>>, Locked', SpentSound(w)'
  PROVE  IInv'
<1>1. /\ check' \in [Workers -> Check] /\ left' \in [Workers -> Int]
      /\ \A v \in Workers \ {w} : check'[v] = check[v] /\ left'[v] = left[v]
  BY DEF IInv, Typed
<1>2. Typed'
  BY <1>1 DEF IInv, Typed
<1>3. \A v \in Workers : SpentSound(v)'
  BY <1>1 DEF IInv, SpentSound
<1>4. \A c \in Clients : (Covered(c) /\ Promised(c))'
  BY DEF IInv, Covered, Promised
<1>5. QED
  BY <1>2, <1>3, <1>4 DEF IInv

LEMMA LeftAlone ==
  ASSUME IInv, NEW w \in Workers
  PROVE  left[w] \in Int /\ left = [left EXCEPT ![w] = left[w]]
BY DEF IInv, Typed

LEMMA RequestKeeps ==
  ASSUME IInv, NEW w \in Workers, NEW c \in Clients, NEW cost \in Costs, Request(w, c, cost)
  PROVE  IInv'
<1> DEFINE t == [Idle EXCEPT !.pc = "waiting", !.client = c, !.cost = cost]
<1>1. t \in Check /\ t.pc = "waiting"
  <2> DEFINE u == [Idle EXCEPT !.pc = "waiting", !.client = c]
  <2>1. u \in Check /\ u.pc = "waiting"
    BY IdleIsTyped DEF Check
  <2>2. t = [u EXCEPT !.cost = cost]
    OBVIOUS
  <2> HIDE DEF t, u
  <2>3. QED
    BY <2>1, <2>2 DEF Check
<1>2. check' = [check EXCEPT ![w] = t]
  BY DEF Request
<1> HIDE DEF t
<1>3. /\ UNCHANGED <<now, rows, writer, allowance, promise>>
      /\ left' = [left EXCEPT ![w] = left[w]] /\ left[w] \in Int
  BY LeftAlone DEF Request
<1>4. check'[w] = t /\ \A v \in Workers \ {w} : check'[v] = check[v]
  BY <1>2 DEF IInv, Typed
<1>5. Locked' /\ SpentSound(w)'
  BY <1>1, <1>3, <1>4 DEF IInv, Locked, SpentSound
<1>6. QED
  BY <1>1, <1>2, <1>3, <1>5, OneWorker

LEMMA BeginKeeps ==
  ASSUME IInv, NEW w \in Workers, Begin(w)
  PROVE  IInv'
<1> DEFINE t == [check[w] EXCEPT !.pc = "begun"]
<1>1. t \in Check /\ t.pc = "begun"
  BY DEF Check, IInv, Typed
<1>2. check' = [check EXCEPT ![w] = t]
  BY DEF Begin
<1> HIDE DEF t
<1>3. /\ UNCHANGED <<now, rows, allowance, promise>>
      /\ left' = [left EXCEPT ![w] = left[w]] /\ left[w] \in Int
      /\ writer = NoWorker /\ writer' = w
  BY LeftAlone DEF Begin
<1>4. check'[w] = t /\ \A v \in Workers \ {w} : check'[v] = check[v]
  BY <1>2 DEF IInv, Typed
<1>5. Locked'
  BY <1>3, <1>4, LimiterAssumption DEF IInv, Locked
<1>6. SpentSound(w)'
  BY <1>1, <1>4 DEF SpentSound
<1>7. QED
  BY <1>1, <1>2, <1>3, <1>5, <1>6, OneWorker

LEMMA GiveUpKeeps ==
  ASSUME IInv, NEW w \in Workers, GiveUp(w)
  PROVE  IInv'
<1>1. /\ check' = [check EXCEPT ![w] = Idle] /\ left' = [left EXCEPT ![w] = 0]
      /\ UNCHANGED <<now, rows, allowance, promise>>
      /\ writer' = IF writer = w THEN NoWorker ELSE writer
  BY DEF GiveUp
<1>2. check'[w] = Idle /\ \A v \in Workers \ {w} : check'[v] = check[v]
  BY <1>1 DEF IInv, Typed
<1>3. Locked' /\ SpentSound(w)'
  BY <1>1, <1>2, IdleIsTyped DEF IInv, Locked, SpentSound
<1>4. 0 \in Int /\ Idle \in Check
  BY IdleIsTyped
<1>5. QED
  BY <1>1, <1>3, <1>4, OneWorker

LEMMA CostIs ==
  ASSUME NEW cost \in Costs
  PROVE  cost \in Nat /\ cost * OneToken \in Nat /\ cost * OneToken <= Capacity
<1>1. cost \in Nat /\ cost <= Burst /\ Burst \in Nat /\ OneToken \in Nat
  BY LimiterAssumption, BucketAssumption, CapacityIsPositive
<1>2. QED
  BY <1>1, Monotone DEF Capacity

LEMMA SpendIs ==
  ASSUME NEW level \in 0..Capacity, NEW cost \in Costs
  PROVE  LET spent == Spend(level, cost) IN
         /\ spent.tokens \in 0..Capacity /\ spent.limit \in RateLimit
         /\ spent.limit.allowed =>
              spent.tokens = level - cost * OneToken /\ level >= cost * OneToken
         /\ ~spent.limit.allowed =>
              /\ spent.tokens = level /\ level < cost * OneToken
              /\ spent.tokens + (spent.limit.retry_after * TicksPerSecond) * PerMinute
                   >= cost * OneToken
<1> DEFINE need == cost * OneToken
<1>1. need \in Nat /\ Capacity \in Nat /\ level \in Nat /\ level <= Capacity
  BY CostIs, CapacityIsPositive
<1>2. CASE level >= need
  <2>1. Spend(level, cost) = [tokens |-> level - need,
                              limit |-> [allowed |-> TRUE, retry_after |-> 0]]
    BY <1>2 DEF Spend
  <2> HIDE DEF need
  <2>2. level - need \in 0..Capacity
    BY <1>1, <1>2
  <2>3. QED
    BY <1>2, <2>1, <2>2 DEF RateLimit, need
<1>3. CASE level < need
  <2> DEFINE wait == Wait(need - level)
  <2>1. Spend(level, cost) = [tokens |-> level,
                              limit |-> [allowed |-> FALSE, retry_after |-> wait]]
    BY <1>1, <1>3 DEF Spend
  <2>2. need - level \in Nat
    BY <1>1, <1>3
  <2>3. wait \in Nat /\ (wait * TicksPerSecond) * PerMinute \in Nat
        /\ (wait * TicksPerSecond) * PerMinute >= need - level
    BY <2>2, WaitIsEnough
  <2> HIDE DEF need, wait
  <2>4. level + (wait * TicksPerSecond) * PerMinute >= need
    BY <1>1, <2>3
  <2>5. QED
    BY <1>1, <1>3, <2>1, <2>3, <2>4 DEF RateLimit, need
<1>4. QED
  BY <1>1, <1>2, <1>3

\* The row a check spends from, and what it grants.
RowOf(t) ==
  IF t.client \in Kept(rows) THEN rows[t.client]
  ELSE [tokens |-> Capacity, last_seen |-> now]

LEMMA RowOfIs ==
  ASSUME IInv, NEW t \in Check
  PROVE  /\ RowOf(t) \in Row /\ Level(RowOf(t), now) = Grants(rows[t.client], now)
         /\ rows[t.client] # NoRow /\ ~Refilled(rows[t.client].last_seen, now)
              => RowOf(t) = rows[t.client]
<1>1. now \in Nat /\ now \in 0..MaxTime /\ t.client \in Clients
      /\ rows[t.client] \in Row \cup {NoRow}
  <2>1. t.client \in Clients
    BY DEF Check
  <2>2. now \in 0..MaxTime /\ rows \in Table
    BY DEF IInv, Typed
  <2>3. now \in Nat
    BY <2>2, LimiterAssumption
  <2>4. rows[t.client] \in Row \cup {NoRow}
    BY <2>1, <2>2 DEF Table
  <2>5. QED
    BY <2>1, <2>2, <2>3, <2>4
<1> DEFINE full == [tokens |-> Capacity, last_seen |-> now]
<1>2. full \in Row /\ Level(full, now) = Capacity
  <2>1. full \in Row /\ full.last_seen = now /\ full.tokens = Capacity
    BY <1>1, CapacityIsPositive DEF Row
  <2>2. now <= now
    BY <1>1
  <2> HIDE DEF full
  <2>3. QED
    BY <1>1, <2>1, <2>2, LevelOfStored
<1>3. CASE t.client \in Kept(rows)
  <2>1. RowOf(t) = rows[t.client] /\ rows[t.client] \in Row /\ rows[t.client] # NoRow
    BY <1>1, <1>3 DEF RowOf, Kept
  <2>2. QED
    BY <2>1 DEF Grants
<1>4. CASE t.client \notin Kept(rows)
  <2>1. RowOf(t) = full
    BY <1>4 DEF RowOf
  <2>2. rows[t.client] = NoRow \/ Refilled(rows[t.client].last_seen, now)
    BY <1>1, <1>4 DEF Kept
  <2>3. Grants(rows[t.client], now) = Capacity
    BY <1>1, <2>2, RefilledIsFull DEF Grants
  <2> HIDE DEF full
  <2>4. QED
    BY <1>2, <2>1, <2>2, <2>3
<1>5. QED
  BY <1>3, <1>4

\* A client that was promised something and comes back in time finds it.
LEMMA PromiseHolds ==
  ASSUME IInv, NEW c \in Clients, promise[c] # NoPromise, promise[c].due <= now
  PROVE  promise[c].cost * OneToken <= Grants(rows[c], now)
<1> DEFINE p == promise[c]
           row == rows[c]
           need == p.cost * OneToken
<1>1. /\ p \in Promise /\ row \in Row \cup {NoRow} /\ now \in Nat /\ Enough(row, p)
  BY LimiterAssumption DEF IInv, Typed, Table, Promised
<1>2. need \in Nat /\ need <= Capacity /\ p.due \in Nat /\ p.due <= now
  BY <1>1, CostIs DEF Promise
<1>3. CASE row = NoRow
  BY <1>2, <1>3 DEF Grants
<1>4. CASE row # NoRow
  <2>1. row \in Row /\ row.last_seen \in Nat /\ row.tokens \in Nat /\ row.last_seen <= p.due
    BY <1>1, <1>4, CapacityIsPositive, LimiterAssumption DEF Enough, Row
  <2>2. row.tokens + (p.due - row.last_seen) * PerMinute >= need
    BY <1>1, <1>4 DEF Enough
  <2> DEFINE d == p.due - row.last_seen
             e == Elapsed(row, now)
  <2>3. d \in Nat /\ e \in Nat /\ d <= e
    BY <1>1, <1>2, <2>1 DEF Elapsed, AtLeast
  <2>4. row.tokens + d * PerMinute >= need
    BY <2>2
  <2> HIDE DEF d, e
  <2>5. d * PerMinute \in Nat /\ e * PerMinute \in Nat /\ d * PerMinute <= e * PerMinute
    BY <2>3, Monotone, BucketAssumption
  <2>6. Level(row, now) = AtMost(Capacity, row.tokens + e * PerMinute)
    BY <1>1, <2>1, LevelIs DEF e
  <2> HIDE DEF need, row
  <2>7. need <= Level(row, now)
    BY <1>2, <2>1, <2>4, <2>5, <2>6, CapacityIsPositive DEF AtMost
  <2>8. QED
    BY <1>4, <2>7 DEF Grants, need, row
<1>5. QED
  BY <1>3, <1>4

LEMMA SpendTokensKeeps ==
  ASSUME IInv, NEW w \in Workers, SpendTokens(w)
  PROVE  IInv'
<1> DEFINE t == check[w]
           c == t.client
           row == RowOf(t)
           level == Level(row, now)
           spent == Spend(level, t.cost)
           stored == [tokens |-> spent.tokens, last_seen |-> Seen(row)]
           gone == Overflow(rows, Kept(rows), c)
           u == [t EXCEPT !.pc = "spent", !.at = now, !.limit = spent.limit,
                          !.forgotten = gone, !.row = stored]
           n == allowance[c] - (IF spent.limit.allowed THEN t.cost * OneToken ELSE 0)
<1>1. /\ t \in Check /\ c \in Clients /\ t.cost \in Costs /\ t.pc = "begun"
      /\ now \in Nat /\ now \in 0..MaxTime /\ allowance[c] \in Int
      /\ Grants(rows[c], now) <= allowance[c]
  BY LimiterAssumption DEF SpendTokens, IInv, Typed, Check, Covered
<1>2. /\ check' = [check EXCEPT ![w] = u] /\ left' = [left EXCEPT ![w] = n]
      /\ UNCHANGED <<now, rows, writer, allowance, promise>>
  BY DEF SpendTokens, RowOf
<1>3. row \in Row /\ level = Grants(rows[c], now) /\ level \in 0..Capacity
  BY <1>1, RowOfIs, LevelIs
<1>4. /\ spent.tokens \in 0..Capacity /\ spent.limit \in RateLimit
      /\ spent.limit.allowed =>
           spent.tokens = level - t.cost * OneToken /\ level >= t.cost * OneToken
      /\ ~spent.limit.allowed =>
           /\ spent.tokens = level /\ level < t.cost * OneToken
           /\ spent.tokens + (spent.limit.retry_after * TicksPerSecond) * PerMinute
                >= t.cost * OneToken
  <2> HIDE DEF level, t
  <2>1. QED
    BY <1>1, <1>3, SpendIs
<1>5. stored \in Row /\ stored.tokens = spent.tokens /\ now <= stored.last_seen
  BY <1>1, <1>3, <1>4 DEF Seen, AtLeast, Row
<1>6. gone \subseteq Clients
  BY DEF Overflow, Kept
<1>7. /\ u \in Check /\ u.pc = "spent" /\ u.at = now /\ u.limit = spent.limit
      /\ u.row = stored /\ u.client = c /\ u.cost = t.cost
  <2> HIDE DEF spent, stored, gone, t
  <2> DEFINE v == [t EXCEPT !.pc = "spent", !.at = now]
             x == [v EXCEPT !.limit = spent.limit, !.forgotten = gone]
  <2>1. v \in Check /\ v.pc = "spent" /\ v.at = now /\ v.client = t.client /\ v.cost = t.cost
    BY <1>1 DEF Check
  <2>2. /\ x \in Check /\ x.pc = v.pc /\ x.at = v.at /\ x.limit = spent.limit
        /\ x.client = v.client /\ x.cost = v.cost
    <3> HIDE DEF v
    <3>1. QED
      BY <1>4, <1>6, <2>1 DEF Check
  <2>3. u = [x EXCEPT !.row = stored]
    OBVIOUS
  <2> HIDE DEF v, x, u
  <2>4. QED
    BY <1>5, <2>1, <2>2, <2>3 DEF Check
<1> HIDE DEF u
<1>8. n \in Int /\ stored.tokens <= n
  BY <1>1, <1>3, <1>4, <1>5, CostIs
<1> HIDE DEF n
<1>9. /\ check'[w] = u /\ left'[w] = n
      /\ \A v \in Workers \ {w} : check'[v] = check[v]
  BY <1>2 DEF IInv, Typed
<1>10. Locked'
  BY <1>1, <1>2, <1>9 DEF IInv, Locked
<1>11. SpentSound(w)'
  <2>1. Level(stored, now) <= n
    BY <1>1, <1>5, <1>8, LevelOfStored
  <2>2. ASSUME NEW d \in Clients, rows[d] # NoRow, Refilled(rows[d].last_seen, now)
        PROVE  Capacity <= allowance[d]
    <3>1. rows[d] \in Row /\ Grants(rows[d], now) <= allowance[d]
      BY <2>2 DEF IInv, Typed, Table, Covered
    <3>2. Level(rows[d], now) = Capacity
      BY <1>1, <2>2, <3>1, RefilledIsFull
    <3>3. QED
      BY <2>2, <3>1, <3>2 DEF Grants
  <2>3. ASSUME ~spent.limit.allowed, promise[c] # NoPromise, t.cost <= promise[c].cost
        PROVE  now < promise[c].due
    <3>1. promise[c] \in Promise
      BY <1>1, <2>3 DEF IInv, Typed
    <3>2. promise[c].due \in Nat /\ promise[c].cost \in Costs
      BY <3>1 DEF Promise
    <3>3. t.cost * OneToken <= promise[c].cost * OneToken
      BY <1>1, <2>3, <3>2, CostIs, Monotone, CapacityIsPositive
    <3>4. level < t.cost * OneToken
      BY <1>4, <2>3
    <3>5. ~(promise[c].due <= now)
      <4>1. SUFFICES ASSUME promise[c].due <= now PROVE FALSE
        OBVIOUS
      <4>2. promise[c].cost * OneToken <= level
        BY <1>1, <1>3, <2>3, <4>1, PromiseHolds
      <4> HIDE DEF level, c, t
      <4>3. QED
        BY <1>1, <1>3, <3>2, <3>3, <3>4, <4>2, CostIs
    <3>6. QED
      BY <1>1, <3>2, <3>5
  <2> HIDE DEF stored, spent, level, row, c
  <2>4. QED
    BY <1>2, <1>4, <1>5, <1>7, <1>9, <2>1, <2>2, <2>3 DEF SpentSound
<1> HIDE DEF t, c, row, level, spent, stored, gone
<1>12. QED
  BY <1>2, <1>7, <1>8, <1>10, <1>11, OneWorker

LEMMA CommitKeeps ==
  ASSUME IInv, NEW w \in Workers, Commit(w)
  PROVE  IInv'
<1> DEFINE t == check[w]
           c == t.client
           wait == t.limit.retry_after * TicksPerSecond
           vow == [cost |-> t.cost, due |-> now + wait]
<1>1. /\ t \in Check /\ c \in Clients /\ t.cost \in Costs /\ t.pc = "spent"
      /\ t.row \in Row /\ t.limit \in RateLimit /\ Level(t.row, now) <= left[w]
      /\ writer = w /\ left[w] \in Int
  BY DEF Commit, IInv, Typed, Check, SpentSound, Locked
<1>2. now \in Nat /\ now \in 0..MaxTime /\ wait \in Nat /\ vow \in Promise
  <2>1. now \in 0..MaxTime /\ now \in Nat
    BY LimiterAssumption DEF IInv, Typed
  <2>2. wait \in Nat
    BY <1>1, Monotone, BucketAssumption DEF RateLimit
  <2> HIDE DEF wait, t
  <2>3. QED
    BY <1>1, <2>1, <2>2 DEF Promise
<1>3. /\ rows' = After(t) /\ writer' = NoWorker /\ now' = now
      /\ check' = [check EXCEPT ![w] = Idle]
      /\ promise' = [promise EXCEPT ![c] =
           IF t.limit.allowed \/ t.row.last_seen > now THEN NoPromise ELSE vow]
      /\ \A d \in Clients : allowance'[d] =
           IF d \in t.forgotten THEN Capacity ELSE IF d = c THEN left[w] ELSE allowance[d]
  BY <1>1 DEF Commit
<1>4. /\ check'[w] = Idle
      /\ \A v \in Workers \ {w} : check'[v] = check[v] /\ check[v].pc \notin {"begun", "spent"}
  BY <1>1, <1>3, Alone DEF IInv, Typed
<1>5. \A d \in Clients :
        /\ d = c => rows'[d] = t.row
        /\ d # c => rows'[d] = NoRow \/ rows'[d] = rows[d]
        /\ d # c /\ rows'[d] # rows[d] =>
             \/ d \in t.forgotten
             \/ rows[d] # NoRow /\ Refilled(rows[d].last_seen, t.at)
  BY <1>3 DEF After
<1>6. Typed'
  <2>1. rows' \in Table
    <3>1. \A d \in Clients : rows'[d] \in Row \cup {NoRow}
      BY <1>1, <1>5 DEF IInv, Typed, Table
    <3>2. DOMAIN rows' = Clients /\ rows' = [d \in Clients |-> rows'[d]]
      BY <1>3 DEF After
    <3>3. QED
      BY <3>1, <3>2 DEF Table
  <2>2. allowance' \in [Clients -> Int]
    <3>1. \A d \in Clients : allowance'[d] \in Int
      BY <1>1, <1>3, CapacityIsPositive DEF IInv, Typed
    <3>2. DOMAIN allowance' = Clients /\ allowance' = [d \in Clients |-> allowance'[d]]
      BY DEF Commit
    <3>3. QED
      BY <3>1, <3>2
  <2>3. left' \in [Workers -> Int]
    <3>1. left' = [v \in Workers |-> IF v = w THEN 0 ELSE left[v]]
      BY <1>4 DEF Commit
    <3>2. QED
      BY <3>1 DEF IInv, Typed
  <2>4. check' \in [Workers -> Check]
    BY <1>3, IdleIsTyped DEF IInv, Typed
  <2>5. promise' \in [Clients -> Promise \cup {NoPromise}]
    <3> HIDE DEF vow, t
    <3>1. QED
      BY <1>2, <1>3 DEF IInv, Typed
  <2>6. QED
    BY <1>2, <1>3, <2>1, <2>2, <2>3, <2>4, <2>5 DEF Typed
<1>7. Locked' /\ \A v \in Workers : SpentSound(v)'
  BY <1>4, IdleIsTyped DEF Locked, SpentSound
<1>8. ASSUME NEW d \in Clients PROVE Covered(d)'
  <2>1. /\ rows[d] \in Row \cup {NoRow} /\ Grants(rows[d], now) <= allowance[d]
    BY DEF IInv, Typed, Table, Covered
  <2>2. CASE d = c
    <3>1. Level(t.row, now) <= allowance'[d]
      <4>1. Level(t.row, now) <= Capacity
        BY <1>1, <1>2, LevelIs, CapacityIsPositive
      <4>2. QED
        BY <1>1, <1>3, <2>2, <4>1
    <3>2. Grants(t.row, now) = Level(t.row, now)
      BY <1>1, NoRowAssumption DEF Grants
    <3>3. QED
      BY <1>3, <1>5, <2>2, <3>1, <3>2 DEF Covered
  <2>3. CASE d # c /\ rows'[d] # rows[d]
    <3>1. rows'[d] = NoRow /\ Grants(NoRow, now) = Capacity
      BY <1>5, <2>3 DEF Grants
    <3>2. Capacity <= allowance'[d]
      <4>1. CASE d \in t.forgotten
        BY <1>3, <4>1, CapacityIsPositive
      <4>2. CASE d \notin t.forgotten
        <5>1. rows[d] # NoRow /\ Refilled(rows[d].last_seen, t.at)
          BY <1>5, <2>3, <4>2
        <5>2. Capacity <= allowance[d]
          BY <1>1, <5>1 DEF IInv, SpentSound
        <5>3. QED
          BY <1>3, <2>3, <4>2, <5>2
      <4>3. QED
        BY <4>1, <4>2
    <3>3. QED
      BY <1>3, <3>1, <3>2 DEF Covered
  <2>4. CASE d # c /\ rows'[d] = rows[d]
    <3>1. Grants(rows[d], now) <= Capacity
      BY <1>2, <2>1, GrantsBounds, CapacityIsPositive
    <3>2. Grants(rows[d], now) <= allowance'[d]
      BY <1>3, <2>1, <2>4, <3>1
    <3>3. QED
      BY <1>3, <2>4, <3>2 DEF Covered
  <2>5. QED
    BY <2>2, <2>3, <2>4
<1>9. ASSUME NEW d \in Clients PROVE Promised(d)'
  <2>1. CASE d # c
    <3>1. promise'[d] = promise[d]
      BY <1>3, <2>1 DEF IInv, Typed
    <3>2. Enough(rows'[d], promise[d]) \/ promise[d] = NoPromise
      BY <1>5, <2>1 DEF IInv, Promised, Enough
    <3>3. QED
      BY <3>1, <3>2 DEF Promised
  <2>2. CASE d = c
    <3>1. promise'[d] = IF t.limit.allowed \/ t.row.last_seen > now THEN NoPromise ELSE vow
      BY <1>1, <1>3, <2>2 DEF IInv, Typed
    <3>2. rows'[d] = t.row
      BY <1>5, <2>2
    <3>3. ASSUME ~t.limit.allowed, ~(t.row.last_seen > now) PROVE Enough(t.row, vow)
      <4>1. /\ t.row.tokens + wait * PerMinute >= t.cost * OneToken
            /\ t.row.last_seen \in Nat /\ t.row.tokens \in Nat /\ t.row.last_seen <= now
        BY <1>1, <1>2, <3>3, LimiterAssumption, CapacityIsPositive DEF IInv, SpentSound, Row
      <4> DEFINE e == vow.due - t.row.last_seen
      <4>2. /\ vow.due = now + wait /\ vow.cost = t.cost
        OBVIOUS
      <4> HIDE DEF wait, vow, t
      <4>3. e \in Nat /\ wait <= e /\ t.row.last_seen <= vow.due
        BY <1>2, <4>1, <4>2
      <4> HIDE DEF e
      <4>4. wait * PerMinute <= e * PerMinute /\ wait * PerMinute \in Nat /\ e * PerMinute \in Nat
        BY <1>2, <4>3, Monotone, BucketAssumption
      <4>5. t.cost * OneToken \in Nat
        BY <1>1, CostIs
      <4>6. t.row.tokens + e * PerMinute >= vow.cost * OneToken
        BY <4>1, <4>2, <4>4, <4>5
      <4>7. QED
        BY <4>3, <4>6 DEF Enough, e
    <3> HIDE DEF vow
    <3>4. QED
      BY <3>1, <3>2, <3>3 DEF Promised
  <2>3. QED
    BY <2>1, <2>2
<1>10. QED
  BY <1>6, <1>7, <1>8, <1>9 DEF IInv

-----------------------------------------------------------------------------
LEMMA InitKeeps == Init => IInv
<1> SUFFICES ASSUME Init PROVE IInv
  OBVIOUS
<1>1. Typed
  <2>1. now \in 0..MaxTime /\ rows \in Table
    BY LimiterAssumption DEF Init, Table
  <2>2. check \in [Workers -> Check]
    BY IdleIsTyped DEF Init
  <2>3. allowance \in [Clients -> Int] /\ left \in [Workers -> Int]
    BY CapacityIsPositive DEF Init
  <2>4. promise \in [Clients -> Promise \cup {NoPromise}]
    BY DEF Init
  <2>5. QED
    BY <2>1, <2>2, <2>3, <2>4 DEF Typed
<1>2. Locked /\ \A w \in Workers : SpentSound(w)
  BY IdleIsTyped DEF Init, Locked, SpentSound
<1>3. \A c \in Clients : Covered(c) /\ Promised(c)
  BY CapacityIsPositive DEF Init, Covered, Grants, Promised
<1>4. QED
  BY <1>1, <1>2, <1>3 DEF IInv

LEMMA StepKeeps == IInv /\ [Next]_vars => IInv'
<1> SUFFICES ASSUME IInv, [Next]_vars PROVE IInv'
  OBVIOUS
<1>1. CASE UNCHANGED vars
  BY <1>1 DEF vars, IInv, Typed, Locked, Covered, Promised, SpentSound
<1>2. CASE Next
  BY <1>2, TickKeeps, SetBackKeeps, RequestKeeps, BeginKeeps, SpendTokensKeeps,
     CommitKeeps, GiveUpKeeps DEF Next
<1>3. QED
  BY <1>1, <1>2

LEMMA Invariance == Spec => []IInv
BY InitKeeps, StepKeeps, PTL DEF Spec

-----------------------------------------------------------------------------
(* What follows.                                                           *)

\* All workers together never grant more than the burst and the refill
\* (SQLiteRateLimiter.check).
THEOREM NobodyIsOverGranted == Spec => []NeverOverGranted
<1>1. IInv => NeverOverGranted
  <2> SUFFICES ASSUME IInv, NEW c \in Clients PROVE allowance[c] >= 0
    BY DEF NeverOverGranted
  <2>1. /\ rows[c] \in Row \cup {NoRow} /\ now \in Nat /\ allowance[c] \in Int
        /\ Grants(rows[c], now) <= allowance[c]
    BY LimiterAssumption DEF IInv, Typed, Table, Covered
  <2>2. Grants(rows[c], now) \in Nat
    BY <2>1, GrantsBounds
  <2>3. QED
    BY <2>1, <2>2
<1>2. QED
  BY <1>1, Invariance, PTL

\* What one worker promises in retry_after, every worker keeps
\* (SQLiteRateLimiter.check).
THEOREM PromisesAreKept == Spec => []RetryIsHonoured
<1>1. IInv => RetryIsHonoured
  BY DEF IInv, SpentSound, RetryIsHonoured
<1>2. QED
  BY <1>1, Invariance, PTL

-----------------------------------------------------------------------------
(* The table under its cap.                                                *)

\* Of a finite set in which Before[d] are the members before d, at most all but k
\* have k or more before them: those before the first such member have fewer.
LEMMA RankedLast ==
  ASSUME NEW S, IsFiniteSet(S), NEW Before \in [S -> SUBSET S], NEW k \in Int,
         \A d \in S : d \notin Before[d] /\ \A e \in Before[d] : Before[e] \subseteq Before[d],
         NEW m \in S, Cardinality(Before[m]) >= k
  PROVE  Cardinality({d \in S : Cardinality(Before[d]) >= k}) <= Cardinality(S) - k
<1> DEFINE last == {d \in S : Cardinality(Before[d]) >= k}
           fronts == {Before[d] : d \in last}
<1>1. last \subseteq S /\ last # {}
  OBVIOUS
<1>2. fronts \subseteq FiniteSubsetsOf(S) /\ fronts # {}
  BY <1>1, FS_Subset DEF FiniteSubsetsOf
<1>3. PICK front \in fronts : \A f \in fronts : ~(<<f, front>> \in StrictSubsetOrdering(S))
  <2> HIDE DEF fronts
  <2>1. QED
    BY <1>2, FS_StrictSubsetOrderingWellFounded, WFMin
<1>4. PICK first \in last : front = Before[first]
  BY <1>3
<1>5. ASSUME NEW e \in last, e \in Before[first] PROVE FALSE
  <2>1. Before[e] \subseteq Before[first] /\ Before[e] # Before[first]
    BY <1>1, <1>5
  <2>2. Before[e] \in fronts /\ Before[e] \in SUBSET S /\ Before[first] \in SUBSET S
    BY <1>1
  <2>3. <<Before[e], Before[first]>> \in StrictSubsetOrdering(S)
    BY <2>1, <2>2 DEF StrictSubsetOrdering
  <2>4. QED
    BY <1>3, <1>4, <2>2, <2>3
<1>6. last \subseteq S \ Before[first] /\ Cardinality(Before[first]) >= k
  BY <1>1, <1>5
<1>7. IsFiniteSet(Before[first]) /\ S \cap Before[first] = Before[first]
  BY <1>1, FS_Subset
<1>8. /\ IsFiniteSet(S \ Before[first])
      /\ Cardinality(S \ Before[first]) = Cardinality(S) - Cardinality(Before[first])
  BY <1>7, FS_Difference
<1>9. Cardinality(last) <= Cardinality(S \ Before[first]) /\ IsFiniteSet(last)
  BY <1>6, <1>8, FS_Subset
<1>10. /\ Cardinality(last) \in Nat /\ Cardinality(S) \in Nat
       /\ Cardinality(Before[first]) \in Nat
  BY <1>7, <1>9, FS_CardinalityType
<1>11. QED
  BY <1>6, <1>8, <1>9, <1>10

\* The clients with a row in a table.
Rowed(table) == {c \in Clients : table[c] # NoRow}

Fits(table) == Cardinality(Rowed(table)) <= MaxClients

\* What a worker is about to commit fits as well: nobody else can write meanwhile.
RoomMade == \A w \in Workers : check[w].pc = "spent" => Fits(After(check[w]))

CapInv == Fits(rows) /\ RoomMade

\* The oldest rows that make room are enough.
LEMMA OverflowIsEnough ==
  ASSUME rows \in Table, NEW S, S \subseteq Rowed(rows), NEW c \in Clients \ S
  PROVE  Cardinality(S \ Overflow(rows, S, c)) <= MaxClients - 1
<1> DEFINE Before == [d \in S |-> {e \in S : Older(rows, e, d)}]
           k == Cardinality(S) + 1 - MaxClients
           stay == {d \in S : Cardinality(Before[d]) >= k}
<1>1. /\ IsFiniteSet(S) /\ Cardinality(S) \in Nat /\ MaxClients \in Nat \ {0}
      /\ \A d \in S : rows[d].last_seen \in Nat /\ d \in Nat
  <2>1. IsFiniteSet(S)
    BY LimiterAssumption, FS_Subset DEF Rowed
  <2>2. \A d \in S : rows[d].last_seen \in Nat /\ d \in Nat
    BY LimiterAssumption DEF Rowed, Table, Row
  <2>3. QED
    BY <2>1, <2>2, FS_CardinalityType, LimiterAssumption
<1>2. \A d \in S : /\ Before[d] \in SUBSET S
                   /\ Cardinality(Before[d]) \in Nat
  BY <1>1, FS_Subset, FS_CardinalityType
<1>3. S \ Overflow(rows, S, c) = stay
  BY <1>1, <1>2 DEF Overflow
<1>4. ASSUME NEW d \in S
      PROVE  d \notin Before[d] /\ \A e \in Before[d] : Before[e] \subseteq Before[d]
  BY <1>1 DEF Older
<1>5. Before \in [S -> SUBSET S] /\ k \in Int
  BY <1>1
<1> HIDE DEF Before, k
<1>6. CASE stay = {}
  <2>1. S \ Overflow(rows, S, c) = {} /\ Cardinality({}) = 0
    BY <1>3, <1>6, FS_EmptySet
  <2> HIDE DEF stay
  <2>2. Cardinality(S \ Overflow(rows, S, c)) = 0
    BY <2>1
  <2>3. QED
    BY <1>1, <2>2
<1>7. ASSUME NEW m \in stay PROVE Cardinality(stay) <= MaxClients - 1
  <2>1. m \in S /\ Cardinality(Before[m]) >= k
    BY <1>7
  <2>2. Cardinality(stay) <= Cardinality(S) - k
    BY <1>1, <1>4, <1>5, <2>1, RankedLast
  <2>3. Cardinality(S) - k = MaxClients - 1
    BY <1>1 DEF k
  <2>4. QED
    BY <2>2, <2>3
<1>8. QED
  BY <1>3, <1>6, <1>7

\* What the caller writes beside the rows it keeps fits.
LEMMA SpendingMakesRoom ==
  ASSUME IInv, Fits(rows), NEW t \in Check, t.at = now, t.row # NoRow,
         t.forgotten = Overflow(rows, Kept(rows), t.client)
  PROVE  Fits(After(t))
<1> DEFINE S == Kept(rows)
           c == t.client
<1>1. c \in Clients /\ rows \in Table /\ S \subseteq Rowed(rows) /\ Rowed(rows) \subseteq Clients
  BY DEF IInv, Typed, Check, Kept, Rowed
<1>2. /\ IsFiniteSet(Rowed(rows)) /\ IsFiniteSet(S)
      /\ Cardinality(S) \in Nat /\ Cardinality(S) <= MaxClients
  <2>1. IsFiniteSet(Rowed(rows))
    BY <1>1, LimiterAssumption, FS_Subset
  <2>2. IsFiniteSet(S) /\ Cardinality(S) <= Cardinality(Rowed(rows))
    BY <1>1, <2>1, FS_Subset
  <2>3. Cardinality(S) \in Nat /\ Cardinality(Rowed(rows)) \in Nat
    BY <2>1, <2>2, FS_CardinalityType
  <2>4. QED
    BY <2>1, <2>2, <2>3, LimiterAssumption DEF Fits
<1>3. Rowed(After(t)) \subseteq (S \ t.forgotten) \cup {c}
  BY DEF Rowed, After, Kept
<1>4. CASE c \in S
  <2>1. Rowed(After(t)) \subseteq S
    BY <1>3, <1>4
  <2>2. Cardinality(Rowed(After(t))) <= Cardinality(S) /\ IsFiniteSet(Rowed(After(t)))
    BY <1>2, <2>1, FS_Subset
  <2>3. Cardinality(Rowed(After(t))) \in Nat
    BY <2>2, FS_CardinalityType
  <2>4. QED
    BY <1>2, <2>2, <2>3, LimiterAssumption DEF Fits
<1>5. CASE c \notin S
  <2> DEFINE stay == S \ t.forgotten
  <2>1. Cardinality(stay) <= MaxClients - 1
    BY <1>1, <1>5, OverflowIsEnough
  <2>2. IsFiniteSet(stay)
    BY <1>2, FS_Subset
  <2> HIDE DEF stay
  <2>3. /\ IsFiniteSet(stay \cup {c}) /\ Cardinality(stay) \in Nat
        /\ Cardinality(stay \cup {c}) <= Cardinality(stay) + 1
    BY <2>2, FS_AddElement, FS_CardinalityType
  <2>4. /\ Cardinality(Rowed(After(t))) <= Cardinality(stay \cup {c})
        /\ IsFiniteSet(Rowed(After(t)))
    BY <1>3, <2>3, FS_Subset DEF stay
  <2>5. Cardinality(Rowed(After(t))) \in Nat /\ Cardinality(stay \cup {c}) \in Nat
    BY <2>3, <2>4, FS_CardinalityType
  <2>6. QED
    BY <2>1, <2>3, <2>4, <2>5, LimiterAssumption DEF Fits
<1>6. QED
  BY <1>4, <1>5

\* Every step keeps the table, and what is about to replace it, under the cap.
LEMMA StepKeepsRoom ==
  ASSUME IInv, IInv', CapInv, [Next]_vars
  PROVE  CapInv'
<1>1. ASSUME UNCHANGED rows, \A w \in Workers : check'[w].pc = "spent" => check'[w] = check[w]
      PROVE  CapInv'
  BY <1>1 DEF CapInv, RoomMade, Fits, Rowed, After
<1>2. CASE UNCHANGED vars
  BY <1>1, <1>2 DEF vars
<1>3. CASE Tick \/ \E t \in 0..MaxTime : SetBack(t)
  BY <1>1, <1>3 DEF Tick, SetBack
<1>4. ASSUME NEW w \in Workers, NEW c \in Clients, NEW cost \in Costs, Request(w, c, cost)
      PROVE  CapInv'
  <2>1. check'[w].pc = "waiting" /\ \A v \in Workers \ {w} : check'[v] = check[v]
    BY <1>4, IdleIsTyped DEF Request, IInv, Typed, Check
  <2>2. QED
    BY <1>1, <1>4, <2>1 DEF Request
<1>5. ASSUME NEW w \in Workers, Begin(w) PROVE CapInv'
  <2>1. check'[w].pc = "begun" /\ \A v \in Workers \ {w} : check'[v] = check[v]
    BY <1>5 DEF Begin, IInv, Typed, Check
  <2>2. QED
    BY <1>1, <1>5, <2>1 DEF Begin
<1>6. ASSUME NEW w \in Workers, GiveUp(w) PROVE CapInv'
  <2>1. check'[w].pc = "idle" /\ \A v \in Workers \ {w} : check'[v] = check[v]
    BY <1>6, IdleIsTyped DEF GiveUp, IInv, Typed
  <2>2. QED
    BY <1>1, <1>6, <2>1 DEF GiveUp
<1>7. ASSUME NEW w \in Workers, SpendTokens(w) PROVE CapInv'
  <2>1. /\ UNCHANGED <<now, rows>> /\ \A v \in Workers \ {w} : check'[v] = check[v]
    BY <1>7 DEF SpendTokens, IInv, Typed
  <2>2. /\ check'[w].at = now /\ check'[w].client = check[w].client
        /\ check'[w].forgotten = Overflow(rows, Kept(rows), check[w].client)
        /\ check'[w].pc = "spent" /\ check'[w] \in Check
    BY <1>7 DEF SpendTokens, IInv, Typed, Check
  <2>3. check'[w].row # NoRow
    BY <2>2, NoRowAssumption DEF IInv, SpentSound
  <2>4. Fits(After(check'[w]))
    BY <2>2, <2>3, SpendingMakesRoom DEF CapInv
  <2>5. Fits(After(check[w]))' /\ Fits(rows)'
    BY <2>1, <2>4 DEF CapInv, Fits, Rowed, After
  <2>6. ASSUME NEW v \in Workers \ {w}, check[v].pc = "spent"
        PROVE  Fits(After(check[v]))'
    BY <2>1, <2>6 DEF CapInv, RoomMade, Fits, Rowed, After
  <2>7. QED
    BY <2>1, <2>5, <2>6 DEF CapInv, RoomMade
<1>8. ASSUME NEW w \in Workers, Commit(w) PROVE CapInv'
  <2>1. rows' = After(check[w]) /\ check[w].pc = "spent" /\ check' = [check EXCEPT ![w] = Idle]
    BY <1>8 DEF Commit
  <2>2. Fits(rows)'
    BY <2>1 DEF CapInv, RoomMade, Fits, Rowed
  <2>3. \A v \in Workers : check'[v].pc # "spent"
    BY <2>1, Alone, IdleIsTyped DEF IInv, Typed
  <2>4. QED
    BY <2>2, <2>3 DEF CapInv, RoomMade
<1>9. QED
  BY <1>2, <1>3, <1>4, <1>5, <1>6, <1>7, <1>8 DEF Next

\* The table all workers share never outgrows its cap, whatever they interleave
\* (SQLiteRateLimiter._evict and its check).
THEOREM TableIsBounded == Spec => []RowsBounded
<1>1. Init => CapInv
  <2> SUFFICES ASSUME Init PROVE CapInv
    OBVIOUS
  <2>1. Rowed(rows) = {} /\ \A w \in Workers : check[w].pc = "idle"
    BY IdleIsTyped DEF Init, Rowed
  <2>2. QED
    BY <2>1, FS_EmptySet, LimiterAssumption DEF CapInv, Fits, RoomMade
<1>2. CapInv => RowsBounded
  BY DEF CapInv, Fits, Rowed, RowsBounded
<1>3. IInv /\ IInv' /\ CapInv /\ [Next]_vars => CapInv'
  BY StepKeepsRoom
<1>4. QED
  BY <1>1, <1>2, <1>3, Invariance, PTL DEF Spec

-----------------------------------------------------------------------------
(* Types.                                                                  *)

LEMMA WriterIsAWorker == Spec => [](writer \in Workers \cup {NoWorker})
<1>1. Init => writer \in Workers \cup {NoWorker}
  BY DEF Init
<1>2. writer \in Workers \cup {NoWorker} /\ [Next]_vars => (writer \in Workers \cup {NoWorker})'
  <2> SUFFICES ASSUME writer \in Workers \cup {NoWorker}, [Next]_vars
               PROVE  writer' \in Workers \cup {NoWorker}
    OBVIOUS
  <2>1. CASE \E w \in Workers : Begin(w) \/ Commit(w) \/ GiveUp(w)
    BY <2>1 DEF Begin, Commit, GiveUp
  <2>2. CASE writer' = writer
    BY <2>2
  <2>3. QED
    BY <2>1, <2>2 DEF Next, Tick, SetBack, Request, SpendTokens, vars
<1>3. QED
  BY <1>1, <1>2, PTL DEF Spec

\* The table, the clock and the transactions hold what their columns say: no row
\* above the capacity or ahead of any clock (SQLiteRateLimiter.check).
THEOREM TypeCorrect == Spec => []TypeOK
<1>1. IInv /\ writer \in Workers \cup {NoWorker} => TypeOK
  BY DEF IInv, Typed, Check, Promise, TypeOK
<1>2. QED
  BY <1>1, Invariance, WriterIsAWorker, PTL
=============================================================================
