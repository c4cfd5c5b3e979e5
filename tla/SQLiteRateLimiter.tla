-------------------------- MODULE SQLiteRateLimiter ---------------------------
(***************************************************************************)
(* The rate limiter that several processes share through the moderation    *)
(* database.  A check is one write transaction: it waits for the lock,     *)
(* reads the wall clock, forgets refilled rows, makes room, spends and     *)
(* commits.  The wall clock advances with time but may be set back; a      *)
(* check may fail or its process die at any point, and the rows survive.   *)
(***************************************************************************)
EXTENDS TokenBucket, FiniteSets

CONSTANTS
  Workers,      \* threads of the web workers
  Clients,      \* addresses that ask: naturals, for their rank in string order
  Costs,        \* tokens a request may cost
  MaxClients,   \* rows that are kept at most
  MaxTime,      \* bound: the wall clock stops here
  NoWorker,     \* the write lock is free
  NoRow,        \* a client without a row
  NoPromise     \* a client that has not been told when to return

ASSUME LimiterAssumption ==
  /\ IsFiniteSet(Clients) /\ Clients \subseteq Nat /\ Clients # {}
  /\ Costs \subseteq 1..Burst /\ Costs # {}
  /\ MaxClients \in Nat \ {0} /\ MaxTime \in Nat
  /\ NoWorker \notin Workers

VARIABLES
  now,        \* the wall clock, in ticks
  rows,       \* the committed rate_limits table
  writer,     \* who holds the write lock
  check,      \* what each worker is doing
  allowance,  \* history: what an ideal limiter would still allow each client
  left,       \* history: the same for each worker's client, once it commits
  promise     \* history: when a refused client was told to come back

vars == <<now, rows, writer, check, allowance, left, promise>>

Row == [tokens : 0..Capacity, last_seen : 0..MaxTime]
Table == [Clients -> Row \cup {NoRow}]

ASSUME NoRowAssumption == NoRow \notin Row

NoLimit == [allowed |-> FALSE, retry_after |-> 0]

Idle ==
  [pc |-> "idle", client |-> CHOOSE c \in Clients : TRUE,
   cost |-> CHOOSE k \in Costs : TRUE, at |-> 0, forgotten |-> {},
   row |-> NoRow, limit |-> NoLimit]

TypeOK ==
  /\ now \in 0..MaxTime
  /\ rows \in Table
  /\ writer \in Workers \cup {NoWorker}
  /\ check \in [Workers ->
       [pc : {"idle", "waiting", "begun", "spent"}, client : Clients, cost : Costs,
        at : 0..MaxTime,               \* when the clock was read
        forgotten : SUBSET Clients,    \* rows deleted to make room
        row : Row \cup {NoRow},        \* the row to be written
        limit : RateLimit]]
  /\ allowance \in [Clients -> Int] /\ left \in [Workers -> Int]
  /\ promise \in [Clients -> [cost : Costs, due : Nat] \cup {NoPromise}]

Init ==
  /\ now = 0
  /\ rows = [c \in Clients |-> NoRow]
  /\ writer = NoWorker
  /\ check = [w \in Workers |-> Idle]
  /\ allowance = [c \in Clients |-> Capacity]
  /\ left = [w \in Workers |-> 0]
  /\ promise = [c \in Clients |-> NoPromise]

-----------------------------------------------------------------------------
(* Time.                                                                   *)

Tick ==
  /\ now < MaxTime
  /\ now' = now + 1
  /\ allowance' = [c \in Clients |-> AtMost(Capacity, allowance[c] + PerMinute)]
  /\ left' = [w \in Workers |->
                IF check[w].pc = "spent" THEN AtMost(Capacity, left[w] + PerMinute)
                ELSE left[w]]
  /\ UNCHANGED <<rows, writer, check, promise>>

\* An administrator or NTP sets the clock back: what was promised is void.
SetBack(t) ==
  /\ t < now
  /\ now' = t
  /\ promise' = [c \in Clients |-> NoPromise]
  /\ UNCHANGED <<rows, writer, check, allowance, left>>

-----------------------------------------------------------------------------
(* The check of one request.                                               *)

Request(w, c, cost) ==
  /\ check[w].pc = "idle"
  /\ check' = [check EXCEPT ![w] = [Idle EXCEPT !.pc = "waiting", !.client = c,
                                                !.cost = cost]]
  /\ UNCHANGED <<now, rows, writer, allowance, left, promise>>

\* Mutation: the statements run without a transaction around them.
NoTransaction(w) ==
  /\ check[w].pc = "waiting"
  /\ check' = [check EXCEPT ![w].pc = "begun"]
  /\ UNCHANGED <<now, rows, writer, allowance, left, promise>>

\* BEGIN IMMEDIATE.
Begin(w) ==
  /\ check[w].pc = "waiting"
  /\ writer = NoWorker /\ writer' = w
  /\ check' = [check EXCEPT ![w].pc = "begun"]
  /\ UNCHANGED <<now, rows, allowance, left, promise>>

\* The rows that remain when the refilled ones are deleted.
Kept(table) ==
  {c \in Clients : table[c] # NoRow /\ ~Refilled(table[c].last_seen, now)}

Older(table, c, d) ==
  \/ table[c].last_seen < table[d].last_seen
  \/ table[c].last_seen = table[d].last_seen /\ c < d

\* Mutation: the caller's own row is not counted.
OverflowCountedLate(table, S, c) ==
  {d \in S : c \notin S /\
     Cardinality({e \in S : Older(table, e, d)}) < Cardinality(S) - MaxClients}

\* The oldest rows, as many as a new client would be too many.
Overflow(table, S, c) ==
  {d \in S : c \notin S /\
     Cardinality({e \in S : Older(table, e, d)}) < Cardinality(S) + 1 - MaxClients}

\* Mutation: last_seen follows the clock, even backwards.
LastSeen(row) == now

Seen(row) == AtLeast(now, row.last_seen)

SpendTokens(w) ==
  LET t == check[w]
      kept == Kept(rows)
      row == IF t.client \in kept THEN rows[t.client]
             ELSE [tokens |-> Capacity, last_seen |-> now]
      spent == Spend(Level(row, now), t.cost)
  IN
  /\ t.pc = "begun"
  /\ check' = [check EXCEPT ![w] =
       [t EXCEPT !.pc = "spent", !.at = now, !.limit = spent.limit,
                 !.forgotten = Overflow(rows, kept, t.client),
                 !.row = [tokens |-> spent.tokens, last_seen |-> Seen(row)]]]
  /\ left' = [left EXCEPT ![w] = allowance[t.client] -
                IF spent.limit.allowed THEN t.cost * OneToken ELSE 0]
  /\ UNCHANGED <<now, rows, writer, allowance, promise>>

\* What the table holds after the transaction of t.
After(t) ==
  [c \in Clients |->
     IF c = t.client THEN t.row
     ELSE IF c \in t.forgotten THEN NoRow
     ELSE IF rows[c] # NoRow /\ Refilled(rows[c].last_seen, t.at) THEN NoRow
     ELSE rows[c]]

Commit(w) ==
  LET t == check[w]  c == t.client IN
  /\ t.pc = "spent"
  /\ rows' = After(t)
  /\ writer' = IF writer = w THEN NoWorker ELSE writer
  /\ allowance' = [d \in Clients |->
       IF d \in t.forgotten THEN Capacity
       ELSE IF d = c THEN left[w] ELSE allowance[d]]
  /\ promise' = [promise EXCEPT ![c] =
       IF t.limit.allowed \/ t.row.last_seen > now THEN NoPromise
       ELSE [cost |-> t.cost, due |-> now + t.limit.retry_after * TicksPerSecond]]
  /\ check' = [check EXCEPT ![w] = Idle]
  /\ left' = [v \in Workers |->
       IF v = w THEN 0
       ELSE IF check[v].pc = "spent" /\ check[v].client = c /\ t.limit.allowed
       THEN left[v] - t.cost * OneToken ELSE left[v]]
  /\ UNCHANGED now

\* Busy, failed or dead: nothing is spent and nobody is answered.
GiveUp(w) ==
  /\ check[w].pc # "idle"
  /\ writer' = IF writer = w THEN NoWorker ELSE writer
  /\ check' = [check EXCEPT ![w] = Idle]
  /\ left' = [left EXCEPT ![w] = 0]
  /\ UNCHANGED <<now, rows, allowance, promise>>

Next ==
  \/ Tick
  \/ \E t \in 0..MaxTime : SetBack(t)
  \/ \E w \in Workers :
       \/ \E c \in Clients, cost \in Costs : Request(w, c, cost)
       \/ Begin(w) \/ SpendTokens(w) \/ Commit(w) \/ GiveUp(w)

Spec == Init /\ [][Next]_vars

-----------------------------------------------------------------------------
(* What must hold.                                                         *)

\* All workers together, across crashes, idle eviction and clocks set back, never
\* grant a client more than its burst plus the refill of the time that really
\* passed (SQLiteRateLimiter: "One token allowance across processes and restarts
\* on the same host").
NeverOverGranted == \A c \in Clients : allowance[c] >= 0

\* The shared table never outgrows its cap.
RowsBounded == Cardinality({c \in Clients : rows[c] # NoRow}) <= MaxClients

\* A client that was refused and waited as long as it was told is not refused
\* again, whichever worker serves it.  (A clock that was set back voids what was
\* promised, and promises nothing until it has caught up with the row.)
RetryIsHonoured ==
  \A w \in Workers :
    LET t == check[w]  p == promise[t.client] IN
    t.pc = "spent" /\ ~t.limit.allowed /\ p # NoPromise /\ t.cost <= p.cost
      => t.at < p.due
=============================================================================
