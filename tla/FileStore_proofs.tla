--------------------------- MODULE FileStore_proofs ---------------------------
(***************************************************************************)
(* What the run checks of FileStore on a small instance, proved for every  *)
(* number of threads, reviews and batches.  That what is queued was logged *)
(* holds beside operators who log what they score into the same files; the *)
(* rest is proved of a web process that has its files to itself.           *)
(***************************************************************************)
EXTENDS FileStore, FiniteSetTheorems, WellFoundedInduction, TLAPS

-----------------------------------------------------------------------------
(* The two loops.                                                          *)

\* A set of numbers up to N that is not empty has a first one.
LEMMA FirstOf ==
  ASSUME NEW N \in Nat, NEW S \in SUBSET (0..N), S # {}
  PROVE  \E m \in S : \A k \in S : m <= k
<1> DEFINE Below == [m \in 0..N |-> 0..m]
           belows == {Below[m] : m \in S}
<1>1. IsFiniteSet(0..N)
  BY FS_Interval
<1>2. \A m \in 0..N : Below[m] \in SUBSET (0..N)
  OBVIOUS
<1>3. belows \subseteq FiniteSubsetsOf(0..N) /\ belows # {}
  <2> HIDE DEF Below
  <2>1. \A m \in 0..N : Below[m] \in FiniteSubsetsOf(0..N)
    BY <1>1, <1>2, FS_Subset DEF FiniteSubsetsOf
  <2>2. QED
    BY <2>1
<1>4. PICK least \in belows : \A x \in belows : ~(<<x, least>> \in StrictSubsetOrdering(0..N))
  <2> HIDE DEF belows
  <2>1. QED
    BY <1>1, <1>3, FS_StrictSubsetOrderingWellFounded, WFMin
<1>5. PICK m \in S : least = Below[m]
  BY <1>4
<1>6. ASSUME NEW k \in S, k < m PROVE FALSE
  <2>1. Below[k] \subseteq Below[m] /\ m \in Below[m] /\ m \notin Below[k]
    BY <1>6
  <2>2. <<Below[k], Below[m]>> \in StrictSubsetOrdering(0..N)
    BY <2>1, <1>2 DEF StrictSubsetOrdering
  <2>3. QED
    BY <2>2, <1>4, <1>5
<1>7. \A k \in S : ~(k < m)
  BY <1>6
<1>8. QED
  BY <1>7

\* What holds of nothing and of one step more holds after every step up to N.
LEMMA StepByStep ==
  ASSUME NEW N \in Nat, NEW S, 0 \in S,
         \A n \in 0..N : n > 0 /\ n - 1 \in S => n \in S
  PROVE  0..N \subseteq S
<1> DEFINE rest == (0..N) \ S
<1>1. CASE rest # {}
  <2>1. PICK m \in rest : \A k \in rest : m <= k
    <3>1. rest \in SUBSET (0..N)
      OBVIOUS
    <3>2. QED
      BY <1>1, <3>1, FirstOf
  <2>2. m \in 0..N /\ m > 0 /\ m - 1 \notin rest /\ m - 1 \in 0..N
    BY <2>1
  <2>3. QED
    BY <2>1, <2>2
<1>2. QED
  BY <1>1

\* Concatenation, position by position.
LEMMA Joined ==
  ASSUME NEW T, NEW a \in Seq(T), NEW b \in Seq(T)
  PROVE  /\ a \o b \in Seq(T) /\ Len(a \o b) = Len(a) + Len(b)
         /\ \A i \in 1..Len(a) : (a \o b)[i] = a[i]
         /\ \A i \in 1..Len(b) : (a \o b)[Len(a) + i] = b[i]
<1>1. a \o b \in Seq(T) /\ Len(a \o b) = Len(a) + Len(b)
  OBVIOUS
<1>2. \A i \in 1..Len(a) : (a \o b)[i] = a[i]
  OBVIOUS
<1>3. \A i \in 1..Len(b) : (a \o b)[Len(a) + i] = b[i]
  OBVIOUS
<1>4. QED
  BY <1>1, <1>2, <1>3

\* Appending to the second of two sequences.
LEMMA JoinedLast ==
  ASSUME NEW T, NEW a \in Seq(T), NEW b \in Seq(T), NEW x \in T
  PROVE  a \o Append(b, x) = Append(a \o b, x)
<1>1. Append(b, x) \in Seq(T) /\ Len(Append(b, x)) = Len(b) + 1
  OBVIOUS
<1>2. /\ \A i \in 1..Len(b) : Append(b, x)[i] = b[i]
      /\ Append(b, x)[Len(b) + 1] = x
  OBVIOUS
<1> DEFINE left == a \o Append(b, x)
           right == Append(a \o b, x)
<1>3. /\ left \in Seq(T) /\ Len(left) = Len(a) + (Len(b) + 1)
      /\ \A i \in 1..Len(a) : left[i] = a[i]
      /\ \A i \in 1..(Len(b) + 1) : left[Len(a) + i] = Append(b, x)[i]
  BY <1>1, Joined
<1>4. /\ a \o b \in Seq(T) /\ Len(a \o b) = Len(a) + Len(b)
      /\ \A i \in 1..Len(a) : (a \o b)[i] = a[i]
      /\ \A i \in 1..Len(b) : (a \o b)[Len(a) + i] = b[i]
  BY Joined
<1>5. /\ right \in Seq(T) /\ Len(right) = Len(a) + Len(b) + 1
      /\ \A i \in 1..(Len(a) + Len(b)) : right[i] = (a \o b)[i]
      /\ right[Len(a) + Len(b) + 1] = x
  BY <1>4
<1>6. Len(a) \in Nat /\ Len(b) \in Nat
  OBVIOUS
<1> HIDE DEF left, right
<1>7. ASSUME NEW i \in 1..Len(left) PROVE left[i] = right[i]
  <2>1. CASE i <= Len(a)
    BY <2>1, <1>3, <1>4, <1>5, <1>6
  <2>2. CASE i > Len(a)
    <3> DEFINE j == i - Len(a)
    <3>1. j \in 1..(Len(b) + 1) /\ i = Len(a) + j
      BY <2>2, <1>3, <1>6
    <3> HIDE DEF j
    <3>2. CASE j <= Len(b)
      <4>1. j \in 1..Len(b) /\ i \in 1..(Len(a) + Len(b))
        BY <3>1, <3>2, <1>6
      <4>2. left[i] = b[j] /\ right[i] = b[j]
        BY <4>1, <3>1, <1>2, <1>3, <1>4, <1>5
      <4>3. QED
        BY <4>2
    <3>3. CASE j = Len(b) + 1
      BY <3>1, <3>3, <1>2, <1>3, <1>5, <1>6
    <3>4. QED
      BY <3>1, <3>2, <3>3, <1>6
  <2>3. QED
    BY <2>1, <2>2, <1>6, <1>3
<1>8. left = right
  BY <1>3, <1>5, <1>6, <1>7
<1>9. QED
  BY <1>8 DEF left, right

\* The records of a batch as a function of their position: the loop of append
\* has exactly one outcome, as no record depends on a later one.
RecordsOf(tail, batch, record) ==
  record = [i \in 1..Len(batch) |->
              NewRecord(tail.records + i, batch[i],
                        IF i = 1 THEN tail.head_hash ELSE record[i - 1].record_hash)]

LEMMA RecordsExist ==
  ASSUME NEW tail \in Anchor, NEW batch \in Seq(Decision)
  PROVE  RecordsOf(tail, batch, Records(tail, batch))
<1> DEFINE told == [n \in Nat |-> [j \in 1..n |-> <<tail.records + j, batch[j]>>]]
           hash == [n \in Nat |-> tail.head_hash \o told[n]]
           record == [i \in 1..Len(batch) |-> NewRecord(tail.records + i, batch[i], hash[i - 1])]
<1>1. \A n \in Nat : n <= Len(batch) => told[n] \in Seq(Payload)
  <2> SUFFICES ASSUME NEW n \in Nat, n <= Len(batch) PROVE told[n] \in Seq(Payload)
    OBVIOUS
  <2>1. \A j \in 1..n : <<tail.records + j, batch[j]>> \in Payload
    BY DEF Payload, Anchor
  <2>2. QED
    BY <2>1
<1>2. tail.head_hash \in Seq(Payload)
  BY DEF Anchor, Hash
<1>3. hash[0] = tail.head_hash
  <2>1. told[0] = <<>>
    OBVIOUS
  <2>2. QED
    BY <1>2, <2>1
<1>4. ASSUME NEW i \in 1..Len(batch)
      PROVE  Append(hash[i - 1], <<tail.records + i, batch[i]>>) = hash[i]
  <2> DEFINE entry == <<tail.records + i, batch[i]>>
  <2>1. i \in Nat /\ i - 1 \in Nat /\ i <= Len(batch) /\ i - 1 <= Len(batch)
    OBVIOUS
  <2>2. told[i] = Append(told[i - 1], entry)
    BY <2>1
  <2>3. told[i - 1] \in Seq(Payload) /\ entry \in Payload
    BY <2>1, <1>1 DEF Payload, Anchor
  <2>4. \A a, b \in Seq(Payload), x \in Payload : a \o Append(b, x) = Append(a \o b, x)
    BY JoinedLast
  <2> HIDE DEF told, entry
  <2>5. tail.head_hash \o Append(told[i - 1], entry) = Append(tail.head_hash \o told[i - 1], entry)
    BY <2>3, <2>4, <1>2
  <2>6. QED
    BY <2>1, <2>2, <2>5 DEF entry
<1> HIDE DEF hash
<1>5. ASSUME NEW i \in 1..Len(batch)
      PROVE  record[i] = NewRecord(tail.records + i, batch[i],
                           IF i = 1 THEN tail.head_hash ELSE record[i - 1].record_hash)
  <2>1. CASE i = 1
    BY <2>1, <1>3
  <2>2. CASE i # 1
    <3>1. i - 1 \in 1..Len(batch)
      BY <2>2
    <3>2. record[i - 1].record_hash = hash[i - 1]
      BY <3>1, <1>4 DEF NewRecord, RecordHash
    <3>3. QED
      BY <2>2, <3>2
  <2>3. QED
    BY <2>1, <2>2
<1>6. RecordsOf(tail, batch, record)
  BY <1>5 DEF RecordsOf
<1>7. QED
  BY <1>6 DEF Records, RecordsOf

\* The records of a batch continue the numbering and take its decisions in order.
LEMMA RecordsAre ==
  ASSUME NEW tail \in Anchor, NEW batch \in Seq(Decision)
  PROVE  LET lines == Records(tail, batch) IN
         /\ lines \in Seq(AuditRecord) /\ Len(lines) = Len(batch)
         /\ \A i \in 1..Len(batch) : /\ lines[i].sequence = tail.records + i
                                    /\ lines[i].decision = batch[i]
<1> DEFINE lines == Records(tail, batch)
           good == {n \in 0..Len(batch) : n = 0 \/ lines[n] \in AuditRecord}
<1>1. RecordsOf(tail, batch, lines)
  BY RecordsExist
<1> HIDE DEF lines
<1>2. ASSUME NEW i \in 1..Len(batch)
      PROVE  lines[i] = NewRecord(tail.records + i, batch[i],
                          IF i = 1 THEN tail.head_hash ELSE lines[i - 1].record_hash)
  BY <1>1 DEF RecordsOf
<1>3. ASSUME NEW n \in 1..Len(batch), NEW hash \in Hash
      PROVE  NewRecord(tail.records + n, batch[n], hash) \in AuditRecord
  <2>1. tail.records + n \in Nat /\ batch[n] \in Decision
    BY DEF Anchor
  <2>2. <<tail.records + n, batch[n]>> \in Payload
    BY <2>1 DEF Payload
  <2>3. RecordHash(hash, tail.records + n, batch[n]) \in Hash
    BY <2>2 DEF RecordHash, Hash
  <2>4. QED
    BY <2>1, <2>3 DEF NewRecord, AuditRecord
<1>4. ASSUME NEW n \in 0..Len(batch), n > 0, n - 1 \in good PROVE n \in good
  <2>1. n \in 1..Len(batch)
    BY <1>4
  <2>2. CASE n = 1
    <3>1. tail.head_hash \in Hash
      BY DEF Anchor
    <3>2. QED
      BY <2>1, <2>2, <3>1, <1>2, <1>3
  <2>3. CASE n # 1
    <3>1. lines[n - 1].record_hash \in Hash
      BY <2>1, <2>3, <1>4 DEF AuditRecord
    <3>2. QED
      BY <2>1, <2>3, <3>1, <1>2, <1>3
  <2>4. QED
    BY <2>2, <2>3
<1>5. 0..Len(batch) \subseteq good
  <2>1. 0 \in good /\ Len(batch) \in Nat
    OBVIOUS
  <2> HIDE DEF good
  <2>2. QED
    BY <2>1, <1>4, StepByStep
<1>6. \A i \in 1..Len(batch) : lines[i] \in AuditRecord
  BY <1>5
<1>7. lines \in Seq(AuditRecord) /\ Len(lines) = Len(batch)
  BY <1>1, <1>6 DEF RecordsOf
<1>8. ASSUME NEW i \in 1..Len(batch)
      PROVE  lines[i].sequence = tail.records + i /\ lines[i].decision = batch[i]
  <2> DEFINE hash == IF i = 1 THEN tail.head_hash ELSE lines[i - 1].record_hash
  <2>1. lines[i] = NewRecord(tail.records + i, batch[i], hash)
    BY <1>2
  <2> HIDE DEF hash
  <2>2. QED
    BY <2>1 DEF NewRecord
<1>9. QED
  BY <1>7, <1>8 DEF lines

\* The queue after each decision of a batch: the loop of enqueue.
QueuesOf(items, batch, now, queue) ==
  queue = [n \in 0..Len(batch) |->
             IF n = 0 THEN items ELSE Enqueue(queue[n - 1], batch[n], now)]

LEMMA QueuesExist ==
  ASSUME NEW items, NEW batch \in Seq(Decision), NEW now
  PROVE  \E queue : /\ QueuesOf(items, batch, now, queue)
                    /\ EnqueueAll(items, batch, now) = queue[Len(batch)]
<1> DEFINE UpTo(n, f) == f = [k \in 0..n |-> IF k = 0 THEN items ELSE Enqueue(f[k - 1], batch[k], now)]
           none == [k \in 0..0 |-> items]
           reached == {n \in 0..Len(batch) : \E f : UpTo(n, f)}
<1>1. 0 \in reached
  <2>1. UpTo(0, none) /\ 0 \in 0..Len(batch)
    OBVIOUS
  <2> HIDE DEF UpTo, none
  <2>2. QED
    BY <2>1
<1>2. ASSUME NEW n \in 0..Len(batch), n > 0, n - 1 \in reached PROVE n \in reached
  <2>1. PICK f : UpTo(n - 1, f)
    BY <1>2
  <2> DEFINE g == [k \in 0..n |-> IF k = n THEN Enqueue(f[n - 1], batch[n], now) ELSE f[k]]
  <2>2. ASSUME NEW k \in 0..n
        PROVE  g[k] = IF k = 0 THEN items ELSE Enqueue(g[k - 1], batch[k], now)
    <3>1. CASE k = n
      BY <3>1, <1>2
    <3>2. CASE k # n
      <4>1. k \in 0..(n - 1) /\ (k # 0 => k - 1 \in 0..n /\ k - 1 # n)
        BY <3>2
      <4>2. f[k] = IF k = 0 THEN items ELSE Enqueue(f[k - 1], batch[k], now)
        BY <4>1, <2>1
      <4>3. QED
        BY <3>2, <4>1, <4>2
    <3>3. QED
      BY <3>1, <3>2
  <2>3. UpTo(n, g)
    BY <2>2
  <2> HIDE DEF UpTo, g
  <2>4. QED
    BY <2>3
<1>3. Len(batch) \in reached
  <2>1. Len(batch) \in Nat /\ Len(batch) \in 0..Len(batch)
    OBVIOUS
  <2> HIDE DEF reached
  <2>2. 0..Len(batch) \subseteq reached
    BY <2>1, <1>1, <1>2, StepByStep
  <2>3. QED
    BY <2>1, <2>2
<1>4. PICK f : UpTo(Len(batch), f)
  BY <1>3
<1>5. \E made : QueuesOf(items, batch, now, made)
  BY <1>4 DEF QueuesOf
<1>6. QED
  BY <1>5 DEF EnqueueAll, QueuesOf

\* What one decision does to the queue (ReviewQueue.enqueue, one turn of the loop).
LEMMA EnqueueIs ==
  ASSUME NEW items \in Queue, NEW d \in Decision, NEW now \in Times
  PROVE  LET later == Enqueue(items, d, now) IN
         /\ later \in Queue
         /\ \A r \in Reviews : items[r] # NoItem => later[r] = items[r]
         /\ \A r \in Reviews : later[r] = items[r] \/ later[r].decision = d
<1>1. NewItem(d, now) \in QueueItem /\ NewItem(d, now).decision = d
  BY DEF NewItem, QueueItem, QueueState
<1>2. d.review_id \in Reviews /\ d.requires_human_review \in BOOLEAN
  BY DEF Decision
<1>3. QED
  BY <1>1, <1>2 DEF Enqueue, Queue

\* A batch leaves what is queued alone; what it adds is queued for a decision of it.
LEMMA EnqueueAllIs ==
  ASSUME NEW items \in Queue, NEW batch \in Seq(Decision), NEW now \in Times
  PROVE  LET later == EnqueueAll(items, batch, now) IN
         /\ later \in Queue
         /\ \A r \in Reviews : items[r] # NoItem => later[r] = items[r]
         /\ \A r \in Reviews :
              later[r] = items[r] \/ \E i \in 1..Len(batch) : later[r].decision = batch[i]
<1>1. PICK queue : /\ QueuesOf(items, batch, now, queue)
                   /\ EnqueueAll(items, batch, now) = queue[Len(batch)]
  BY QueuesExist
<1> DEFINE Kept(q) == \A r \in Reviews : items[r] # NoItem => q[r] = items[r]
           Known(q) == \A r \in Reviews :
             q[r] = items[r] \/ \E i \in 1..Len(batch) : q[r].decision = batch[i]
           good == {n \in 0..Len(batch) : queue[n] \in Queue /\ Kept(queue[n]) /\ Known(queue[n])}
<1>2. 0 \in good
  <2>1. 0 \in 0..Len(batch) /\ queue[0] = items
    BY <1>1 DEF QueuesOf
  <2>2. QED
    BY <2>1
<1>3. ASSUME NEW n \in 0..Len(batch), n > 0, n - 1 \in good PROVE n \in good
  <2> DEFINE before == queue[n - 1]
             after == queue[n]
  <2>1. after = Enqueue(before, batch[n], now)
    BY <1>1, <1>3 DEF QueuesOf
  <2>2. n \in 1..Len(batch) /\ batch[n] \in Decision
    BY <1>3
  <2>3. before \in Queue /\ Kept(before) /\ Known(before)
    BY <1>3
  <2> HIDE DEF before, after
  <2>4. /\ after \in Queue
        /\ \A r \in Reviews : before[r] # NoItem => after[r] = before[r]
        /\ \A r \in Reviews : after[r] = before[r] \/ after[r].decision = batch[n]
    BY <2>1, <2>2, <2>3, EnqueueIs
  <2>5. Kept(after)
    BY <2>3, <2>4
  <2>6. Known(after)
    BY <2>2, <2>3, <2>4
  <2>7. QED
    BY <2>4, <2>5, <2>6 DEF after
<1>4. Len(batch) \in good
  <2>1. Len(batch) \in Nat /\ Len(batch) \in 0..Len(batch)
    OBVIOUS
  <2> HIDE DEF good
  <2>2. 0..Len(batch) \subseteq good
    BY <2>1, <1>2, <1>3, StepByStep
  <2>3. QED
    BY <2>1, <2>2
<1>5. QED
  BY <1>1, <1>4

\* The fields of a call (Calls is a union of four kinds of record).
LEMMA CallFields ==
  ASSUME NEW call \in Calls
  PROVE  /\ call.op \in {"enqueue", "claim", "release", "resolve"}
         /\ call.op = "enqueue" => /\ call.batch \in Batches /\ call.batch \in Seq(Decision)
                                   /\ call.files \in Destinations \cup {BothFiles}
         /\ call.op = "claim" => call.moderator \in Moderators
         /\ call.op = "release" => call.review_id \in Reviews
         /\ call.op = "resolve" => /\ call.review_id \in Reviews
                                   /\ call.moderator \in Moderators
                                   /\ call.outcome \in Outcomes
BY FileStoreAssumption DEF Calls

\* What a call that is not refused makes of the queue: what was queued keeps its
\* decision, what is new comes from the batch, and a verdict is left alone.
Follows(items, call, later) ==
  /\ later \in Queue
  /\ \A r \in Queued(later) :
       \/ r \in Queued(items) /\ later[r].decision = items[r].decision
       \/ /\ call.op = "enqueue"
          /\ \E i \in 1..Len(call.batch) : later[r].decision = call.batch[i]
  /\ \A r \in InState(items, "resolved") : later[r] = items[r]

LEMMA AppliedFollows ==
  ASSUME NEW items \in Queue, NEW call \in Calls, NEW now \in Times, ~Refused(items, call)
  PROVE  Follows(items, call, Applied(items, call, now))
<1> DEFINE later == Applied(items, call, now)
<1>1. CASE call.op = "enqueue"
  <2>1. later = EnqueueAll(items, call.batch, now)
    BY <1>1 DEF Applied
  <2>2. call.batch \in Seq(Decision)
    BY <1>1, CallFields
  <2> HIDE DEF later
  <2>3. /\ later \in Queue
        /\ \A r \in Reviews : items[r] # NoItem => later[r] = items[r]
        /\ \A r \in Reviews :
             later[r] = items[r] \/ \E i \in 1..Len(call.batch) : later[r].decision = call.batch[i]
    BY <2>1, <2>2, EnqueueAllIs
  <2>4. QED
    BY <1>1, <2>3 DEF Follows, Queued, InState, later
<1>2. CASE call.op = "claim"
  <2> DEFINE front == Slice(items, InState(items, "pending"), 0, call.limit)
  <2>1. later = ClaimFront(items, call.moderator, call.limit)
    BY <1>2 DEF Applied
  <2>2. call.moderator \in Moderators
    BY <1>2, CallFields
  <2>3. \A r \in front : items[r] \in QueueItem /\ items[r] # NoItem /\ items[r].state = "pending"
    BY DEF Slice, InState, Queue
  <2>4. \A r \in front : /\ Claim(items[r], call.moderator) \in QueueItem
                         /\ Claim(items[r], call.moderator).decision = items[r].decision
    BY <2>2, <2>3 DEF Claim, QueueItem, QueueState
  <2> HIDE DEF front
  <2>5. later = [r \in Reviews |-> IF r \in front THEN Claim(items[r], call.moderator) ELSE items[r]]
    BY <2>1 DEF ClaimFront, front
  <2> HIDE DEF later
  <2>6. later \in Queue
    BY <2>4, <2>5 DEF Queue
  <2>7. \A r \in Queued(later) : r \in Queued(items) /\ later[r].decision = items[r].decision
    BY <2>3, <2>4, <2>5 DEF Queued
  <2>8. \A r \in InState(items, "resolved") : later[r] = items[r]
    BY <2>3, <2>5 DEF InState
  <2>9. QED
    BY <2>6, <2>7, <2>8 DEF Follows, later
<1>3. CASE call.op = "release"
  <2> DEFINE q == call.review_id
  <2>1. q \in InState(items, "claimed") /\ later = [items EXCEPT ![q] = Release(@)]
    BY <1>3 DEF Applied, Refused
  <2>2. q \in Reviews /\ items[q] \in QueueItem /\ items[q].state = "claimed" /\ items[q] # NoItem
    BY <2>1 DEF InState, Queue
  <2>3. Release(items[q]) \in QueueItem /\ Release(items[q]).decision = items[q].decision
    BY <2>2 DEF Release, QueueItem, QueueState
  <2> HIDE DEF later, q
  <2>4. QED
    BY <2>1, <2>2, <2>3, NoItemAssumption DEF Follows, Queue, Queued, InState, later
<1>4. CASE call.op = "resolve"
  <2> DEFINE q == call.review_id
             verdict == Resolve(items[q], call.moderator, call.outcome)
  <2>1. q \in Queued(items) \ InState(items, "resolved") /\ later = [items EXCEPT ![q] = verdict]
    BY <1>4 DEF Applied, Refused
  <2>2. q \in Reviews /\ items[q] \in QueueItem /\ items[q] # NoItem /\ q \notin InState(items, "resolved")
    BY <2>1 DEF Queued, Queue
  <2>3. verdict \in QueueItem /\ verdict.decision = items[q].decision
    BY <2>2, <1>4, CallFields DEF Resolve, QueueItem, QueueState
  <2> HIDE DEF later, q, verdict
  <2>4. QED
    BY <2>1, <2>2, <2>3, NoItemAssumption DEF Follows, Queue, Queued, InState, later
<1>5. QED
  BY <1>1, <1>2, <1>3, <1>4, CallFields

-----------------------------------------------------------------------------
(* Where a call stands.                                                    *)

\* The steps a call may still have before it, on the web and on the command line.
WebStages ==
  {<<"lock", "load", "check", "write", "anchor", "save">>,
   <<"load", "check", "write", "anchor", "save">>,
   <<"check", "write", "anchor", "save">>,
   <<"write", "anchor", "save">>,
   <<"lock", "load", "save">>, <<"load", "save">>, <<"anchor", "save">>, <<"save">>, <<>>}
Stages ==
  WebStages \cup {<<"check", "write", "anchor", "load", "save">>,
                 <<"write", "anchor", "load", "save">>, <<"anchor", "load", "save">>,
                 <<"check", "write", "anchor">>, <<"write", "anchor">>, <<"anchor">>}

\* The steps ahead include the write to the log.
Writes(s) == s # <<>> /\ (Len(s) > 4 \/ Head(s) \in {"check", "write"})

\* What follows each step.
LEMMA StageFollows ==
  ASSUME NEW s \in Stages, s # <<>>
  PROVE  /\ Tail(s) \in Stages /\ Head(s) \in StepNames
         /\ s \in WebStages => Tail(s) \in WebStages
         /\ Head(s) # "write" => (Writes(s) <=> Writes(Tail(s)))
         /\ Head(s) \in {"check", "write"} => Writes(s)
         /\ Head(s) \in {"anchor", "save"} => ~Writes(s)
         /\ Head(s) = "write" => ~Writes(Tail(s))
         /\ Head(s) = "lock" => Tail(s) # <<>> /\ Head(Tail(s)) = "load"
         /\ Head(s) = "load" => Tail(s) # <<>> /\ Head(Tail(s)) \in {"check", "save"}
         /\ Head(s) = "check" => Tail(s) # <<>> /\ Head(Tail(s)) = "write"
         /\ Head(s) = "write" => Tail(s) # <<>> /\ Head(Tail(s)) = "anchor"
         /\ Head(s) = "anchor" => Tail(s) = <<>> \/ Head(Tail(s)) \in {"load", "save"}
         /\ Head(s) = "save" => Len(s) = 1 /\ Tail(s) = <<>>
         /\ Len(s) = 1 <=> Tail(s) = <<>>
         /\ Tail(s) # <<>> => Head(Tail(s)) # "lock"
<1> USE DEF Writes, StepNames
<1>1. CASE s = <<"lock", "load", "check", "write", "anchor", "save">>
  <2>1. Tail(s) = <<"load", "check", "write", "anchor", "save">>
    BY <1>1
  <2>2. QED
    BY <1>1, <2>1 DEF Stages, WebStages
<1>2. CASE s = <<"load", "check", "write", "anchor", "save">>
  <2>1. Tail(s) = <<"check", "write", "anchor", "save">>
    BY <1>2
  <2>2. QED
    BY <1>2, <2>1 DEF Stages, WebStages
<1>3. CASE s = <<"check", "write", "anchor", "save">>
  <2>1. Tail(s) = <<"write", "anchor", "save">>
    BY <1>3
  <2>2. QED
    BY <1>3, <2>1 DEF Stages, WebStages
<1>4. CASE s = <<"write", "anchor", "save">>
  <2>1. Tail(s) = <<"anchor", "save">>
    BY <1>4
  <2>2. QED
    BY <1>4, <2>1 DEF Stages, WebStages
<1>5. CASE s = <<"anchor", "save">>
  <2>1. Tail(s) = <<"save">>
    BY <1>5
  <2>2. QED
    BY <1>5, <2>1 DEF Stages, WebStages
<1>6. CASE s = <<"lock", "load", "save">>
  <2>1. Tail(s) = <<"load", "save">>
    BY <1>6
  <2>2. QED
    BY <1>6, <2>1 DEF Stages, WebStages
<1>7. CASE s = <<"save">>
  <2>1. Tail(s) = <<>>
    BY <1>7
  <2>2. QED
    BY <1>7, <2>1 DEF Stages, WebStages
<1>8. CASE s = <<"check", "write", "anchor", "load", "save">>
  <2>1. Tail(s) = <<"write", "anchor", "load", "save">>
    BY <1>8
  <2>2. s \notin WebStages
    BY <1>8 DEF WebStages
  <2>3. QED
    BY <1>8, <2>1, <2>2 DEF Stages
<1>9. CASE s = <<"write", "anchor", "load", "save">>
  <2>1. Tail(s) = <<"anchor", "load", "save">>
    BY <1>9
  <2>2. s \notin WebStages
    BY <1>9 DEF WebStages
  <2>3. QED
    BY <1>9, <2>1, <2>2 DEF Stages
<1>10. CASE s = <<"load", "save">>
  <2>1. Tail(s) = <<"save">>
    BY <1>10
  <2>2. QED
    BY <1>10, <2>1 DEF Stages, WebStages
<1>11. CASE s = <<"anchor", "load", "save">>
  <2>1. Tail(s) = <<"load", "save">>
    BY <1>11
  <2>2. QED
    BY <1>11, <2>1 DEF Stages, WebStages
<1>12. CASE s = <<"check", "write", "anchor">>
  <2>1. Tail(s) = <<"write", "anchor">> /\ s \notin WebStages
    BY <1>12 DEF WebStages
  <2>2. QED
    BY <1>12, <2>1 DEF Stages
<1>13. CASE s = <<"write", "anchor">>
  <2>1. Tail(s) = <<"anchor">> /\ s \notin WebStages
    BY <1>13 DEF WebStages
  <2>2. QED
    BY <1>13, <2>1 DEF Stages
<1>14. CASE s = <<"anchor">>
  <2>1. Tail(s) = <<>>
    BY <1>14
  <2>2. QED
    BY <1>14, <2>1 DEF Stages, WebStages
<1> HIDE DEF Writes, StepNames
<1>15. QED
  BY <1>1, <1>2, <1>3, <1>4, <1>5, <1>6, <1>7, <1>8, <1>9, <1>10, <1>11, <1>12, <1>13, <1>14
  DEF Stages, WebStages

\* The steps a call sets out with.
Plan(a, call, plan) ==
  /\ plan \in Stages /\ plan # <<>> /\ Head(plan) \in {"lock", "load", "check"}
  /\ a \in Workers => plan \in WebStages
  /\ a \in Workers <=> Head(plan) = "lock"
  /\ Writes(plan) => call.op = "enqueue" /\ call.batch # <<>>
  /\ ~Writes(plan) /\ call.op = "enqueue" => call.batch = <<>> \/ "log" \notin call.files

\* The sequences of steps that are put together of two.
LEMMA Together ==
  /\ <<"lock">> \o <<"load", "save">> = <<"lock", "load", "save">>
  /\ <<"lock">> \o <<"load", "check", "write", "anchor", "save">>
       = <<"lock", "load", "check", "write", "anchor", "save">>
  /\ <<"check", "write", "anchor">> \o <<"load", "save">>
       = <<"check", "write", "anchor", "load", "save">>
  /\ \A s \in Seq(StepNames) : <<>> \o s = s /\ s \o <<>> = s
<1>1. <<"lock">> \o <<"load", "save">>
        = <<"lock", "load", "save">>
  <2> DEFINE front == <<"lock">>
             rest == <<"load", "save">>
             whole == front \o rest
  <2>1. front \in Seq(StepNames) /\ rest \in Seq(StepNames)
    BY DEF StepNames
  <2>2. whole \in Seq(StepNames) /\ Len(whole) = 3
    BY <2>1, Joined
  <2>3. /\ \A i \in 1..1 : whole[i] = front[i]
        /\ \A i \in 1..2 : whole[1 + i] = rest[i]
    BY <2>1, Joined
  <2> HIDE DEF whole
  <2>4. whole[1] = "lock"
    BY <2>3
  <2>5. whole[2] = "load" /\ whole[3] = "save"
    BY <2>3
  <2>6. whole = <<"lock", "load", "save">>
    BY <2>2, <2>4, <2>5
  <2>7. QED
    BY <2>6 DEF whole
<1>2. <<"lock">> \o <<"load", "check", "write", "anchor", "save">>
        = <<"lock", "load", "check", "write", "anchor", "save">>
  <2> DEFINE front == <<"lock">>
             rest == <<"load", "check", "write", "anchor", "save">>
             whole == front \o rest
  <2>1. front \in Seq(StepNames) /\ rest \in Seq(StepNames)
    BY DEF StepNames
  <2>2. whole \in Seq(StepNames) /\ Len(whole) = 6
    BY <2>1, Joined
  <2>3. /\ \A i \in 1..1 : whole[i] = front[i]
        /\ \A i \in 1..5 : whole[1 + i] = rest[i]
    BY <2>1, Joined
  <2> HIDE DEF whole
  <2>4. whole[1] = "lock"
    BY <2>3
  <2>5. whole[2] = "load" /\ whole[3] = "check" /\ whole[4] = "write" /\ whole[5] = "anchor" /\ whole[6] = "save"
    BY <2>3
  <2>6. whole = <<"lock", "load", "check", "write", "anchor", "save">>
    BY <2>2, <2>4, <2>5
  <2>7. QED
    BY <2>6 DEF whole
<1>3. <<"check", "write", "anchor">> \o <<"load", "save">>
        = <<"check", "write", "anchor", "load", "save">>
  <2> DEFINE front == <<"check", "write", "anchor">>
             rest == <<"load", "save">>
             whole == front \o rest
  <2>1. front \in Seq(StepNames) /\ rest \in Seq(StepNames)
    BY DEF StepNames
  <2>2. whole \in Seq(StepNames) /\ Len(whole) = 5
    BY <2>1, Joined
  <2>3. /\ \A i \in 1..3 : whole[i] = front[i]
        /\ \A i \in 1..2 : whole[3 + i] = rest[i]
    BY <2>1, Joined
  <2> HIDE DEF whole
  <2>4. whole[1] = "check" /\ whole[2] = "write" /\ whole[3] = "anchor"
    BY <2>3
  <2>5. whole[4] = "load" /\ whole[5] = "save"
    BY <2>3
  <2>6. whole = <<"check", "write", "anchor", "load", "save">>
    BY <2>2, <2>4, <2>5
  <2>7. QED
    BY <2>6 DEF whole
<1>4. ASSUME NEW s \in Seq(StepNames) PROVE <<>> \o s = s /\ s \o <<>> = s
  <2> DEFINE before == <<>> \o s
             after == s \o <<>>
  <2>1. <<>> \in Seq(StepNames) /\ Len(<<>>) = 0 /\ Len(s) \in Nat
    OBVIOUS
  <2>2. /\ before \in Seq(StepNames) /\ Len(before) = Len(s)
        /\ \A i \in 1..Len(s) : before[0 + i] = s[i]
    BY <2>1, Joined
  <2>3. /\ after \in Seq(StepNames) /\ Len(after) = Len(s)
        /\ \A i \in 1..Len(s) : after[i] = s[i]
    BY <2>1, Joined
  <2> HIDE DEF before, after
  <2>4. before = s /\ after = s
    BY <2>2, <2>3
  <2>5. QED
    BY <2>4 DEF before, after
<1>5. QED
  BY <1>1, <1>2, <1>3, <1>4

LEMMA FirstStage ==
  ASSUME NEW a \in Actors, NEW call \in Calls, Steps(a, call) # <<>>,
         a \in Workers /\ call.op = "enqueue" => call.files = BothFiles
  PROVE  Plan(a, call, (IF a \in Workers THEN <<"lock">> ELSE <<>>) \o Steps(a, call))
<1> DEFINE steps == Steps(a, call)
           plan == (IF a \in Workers THEN <<"lock">> ELSE <<>>) \o steps
           logs == call.op = "enqueue" /\ call.batch # <<>> /\ "log" \in call.files
<1>1. /\ <<"load", "save">> \in Seq(StepNames) /\ <<"check", "write", "anchor">> \in Seq(StepNames)
      /\ <<"check", "write", "anchor", "load", "save">> \in Seq(StepNames)
  BY DEF StepNames
<1>2. CASE a \in Workers
  <2>1. a \notin Operators /\ "log" \in BothFiles
    BY <1>2, FileStoreAssumption DEF BothFiles
  <2>2. CASE logs
    <3>1. plan = <<"lock", "load", "check", "write", "anchor", "save">>
      BY <1>2, <2>1, <2>2, Together DEF Steps, EnqueueSteps
    <3> HIDE DEF plan
    <3>2. Plan(a, call, <<"lock", "load", "check", "write", "anchor", "save">>)
      BY <1>2, <2>2 DEF Plan, Stages, WebStages, Writes
    <3>3. QED
      BY <3>1, <3>2 DEF plan
  <2>3. CASE ~logs
    <3>1. call.op # "enqueue" \/ call.batch = <<>>
      BY <1>2, <2>1, <2>3
    <3>2. plan = <<"lock", "load", "save">>
      BY <1>2, <2>1, <3>1, Together DEF Steps, EnqueueSteps
    <3> HIDE DEF plan
    <3>3. Plan(a, call, <<"lock", "load", "save">>)
      BY <1>2, <3>1 DEF Plan, Stages, WebStages, Writes
    <3>4. QED
      BY <3>2, <3>3 DEF plan
  <2>4. QED
    BY <2>2, <2>3
<1>3. CASE a \notin Workers
  <2>1. a \in Operators
    BY <1>3 DEF Actors
  <2>2. CASE logs /\ "queue" \in call.files
    <3>1. plan = <<"check", "write", "anchor", "load", "save">>
      BY <1>1, <1>3, <2>1, <2>2, Together DEF Steps, ScoreSteps
    <3> HIDE DEF plan
    <3>2. Plan(a, call, <<"check", "write", "anchor", "load", "save">>)
      BY <1>3, <2>2 DEF Plan, Stages, Writes
    <3>3. QED
      BY <3>1, <3>2 DEF plan
  <2>3. CASE logs /\ "queue" \notin call.files
    <3>1. plan = <<"check", "write", "anchor">>
      BY <1>1, <1>3, <2>1, <2>3, Together DEF Steps, ScoreSteps
    <3> HIDE DEF plan
    <3>2. Plan(a, call, <<"check", "write", "anchor">>)
      BY <1>3, <2>3 DEF Plan, Stages, Writes
    <3>3. QED
      BY <3>1, <3>2 DEF plan
  <2>4. CASE ~logs
    <3>1. steps = <<"load", "save">>
      <4>1. CASE call.op = "enqueue"
        <5>1. steps = <<>> \o (IF "queue" \in call.files THEN <<"load", "save">> ELSE <<>>)
          BY <2>1, <2>4, <4>1 DEF Steps, ScoreSteps
        <5>2. <<>> \o <<>> = <<>> /\ <<>> \o <<"load", "save">> = <<"load", "save">>
          BY <1>1, Together
        <5> HIDE DEF steps
        <5>3. steps # <<>>
          BY DEF steps
        <5>4. QED
          BY <5>1, <5>2, <5>3
      <4>2. CASE call.op # "enqueue"
        BY <4>2 DEF Steps
      <4>3. QED
        BY <4>1, <4>2
    <3>2. plan = <<"load", "save">>
      BY <1>1, <1>3, <3>1, Together
    <3> HIDE DEF plan
    <3>3. Plan(a, call, <<"load", "save">>)
      BY <1>3, <2>4 DEF Plan, Stages, WebStages, Writes
    <3>4. QED
      BY <3>2, <3>3 DEF plan
  <2>5. QED
    BY <2>2, <2>3, <2>4
<1>4. QED
  BY <1>2, <1>3

-----------------------------------------------------------------------------
(* Types.                                                                  *)

Operation ==
  [call : Calls \cup {NoCall}, todo : Seq(StepNames), items : Queue, lines : Seq(AuditRecord)]
Disk ==
  [items : Queue, log : Seq(AuditRecord), ended : BOOLEAN, spoiled : BOOLEAN,
   anchor : Anchor \cup {NoAnchor}]

\* What an actor is at: some stage of a call, which has a batch if it is to log one.
OnCourse(a, o) ==
  /\ o \in Operation /\ o.todo \in Stages /\ (a \in Workers => o.todo \in WebStages)
  /\ o.todo # <<>> /\ Head(o.todo) = "lock" => a \in Workers
  /\ o.todo # <<>> => o.call \in Calls
  /\ Writes(o.todo) => o.call.op = "enqueue" /\ o.call.batch # <<>>

TypeInv ==
  /\ disk \in Disk /\ lock \in Workers \cup {NoWorker} /\ interrupted \in BOOLEAN
  /\ op = [a \in Actors |-> op[a]] /\ \A a \in Actors : OnCourse(a, op[a])

LEMMA IdleOnCourse == (\A a : OnCourse(a, Idle)) /\ Idle.todo = <<>> /\ ~Writes(<<>>)
<1>1. EmptyQueue \in Queue
  BY DEF EmptyQueue, Queue
<1>2. <<>> \in Stages /\ <<>> \in WebStages
  BY DEF Stages, WebStages
<1>3. QED
  BY <1>1, <1>2 DEF OnCourse, Operation, Idle, Writes

LEMMA StagesTyped == Stages \subseteq Seq(StepNames)
BY DEF Stages, WebStages, StepNames

\* The end of a log is where an anchor may stand.
LEMMA LastTyped ==
  ASSUME NEW log \in Seq(AuditRecord)
  PROVE  LastRecord(log) \in Anchor
<1>1. CASE log = <<>>
  BY <1>1 DEF LastRecord, Anchor, GenesisAnchor, GenesisHash, Hash
<1>2. CASE log # <<>>
  <2>1. log[Len(log)] \in AuditRecord
    BY <1>2
  <2>2. QED
    BY <1>2, <2>1 DEF LastRecord, AnchorAt, Anchor, AuditRecord
<1>3. QED
  BY <1>1, <1>2

\* Going on to the next step with the same call, and a queue and lines that are
\* what they should be, stays on course.
LEMMA GoesOnCourse ==
  ASSUME NEW a, NEW o, OnCourse(a, o), o.todo # <<>>,
         NEW items \in Queue, NEW lines \in Seq(AuditRecord)
  PROVE  OnCourse(a, [call |-> o.call, todo |-> Tail(o.todo), items |-> items, lines |-> lines])
<1> DEFINE later == [call |-> o.call, todo |-> Tail(o.todo), items |-> items, lines |-> lines]
<1>1. o.todo \in Stages /\ Tail(o.todo) \in Stages
  BY StageFollows DEF OnCourse
<1>2. /\ Writes(Tail(o.todo)) => Writes(o.todo)
      /\ a \in Workers => Tail(o.todo) \in WebStages
      /\ Tail(o.todo) # <<>> => Head(Tail(o.todo)) # "lock"
  BY <1>1, StageFollows DEF OnCourse
<1>3. Tail(o.todo) \in Seq(StepNames)
  BY <1>1, StagesTyped
<1>4. o.call \in Calls
  BY DEF OnCourse
<1>5. later \in Operation
  BY <1>3, <1>4 DEF Operation
<1>6. QED
  BY <1>1, <1>2, <1>4, <1>5 DEF OnCourse

\* What a step writes into the operation of an actor.
Becomes(a, o) == /\ op'[a] = o /\ op' = [b \in Actors |-> op'[b]]
                 /\ \A b \in Actors : b # a => op'[b] = op[b]

Later(a, items, lines) ==
  [call |-> op[a].call, todo |-> Tail(op[a].todo), items |-> items, lines |-> lines]

LEMMA EndsBecomes ==
  ASSUME TypeInv, NEW a \in Actors, Ends(a)
  PROVE  Becomes(a, Idle) /\ lock' = IF lock = a THEN NoWorker ELSE lock
BY DEF Becomes, Ends, Unlocked, TypeInv

LEMMA GoesBecomes ==
  ASSUME TypeInv, NEW a \in Actors
  PROVE  /\ Goes(a, op[a]) => Becomes(a, Later(a, op[a].items, op[a].lines))
         /\ \A items : Goes(a, [op[a] EXCEPT !.items = items]) => Becomes(a, Later(a, items, op[a].lines))
         /\ \A lines : Goes(a, [op[a] EXCEPT !.lines = lines]) => Becomes(a, Later(a, op[a].items, lines))
<1>1. op[a] \in Operation
  BY DEF TypeInv, OnCourse
<1>2. Goes(a, op[a]) => Becomes(a, Later(a, op[a].items, op[a].lines))
  BY <1>1 DEF Goes, Becomes, Later, TypeInv, Operation
<1>3. ASSUME NEW items PROVE
        Goes(a, [op[a] EXCEPT !.items = items]) => Becomes(a, Later(a, items, op[a].lines))
  BY <1>1 DEF Goes, Becomes, Later, TypeInv, Operation
<1>4. ASSUME NEW lines PROVE
        Goes(a, [op[a] EXCEPT !.lines = lines]) => Becomes(a, Later(a, op[a].items, lines))
  BY <1>1 DEF Goes, Becomes, Later, TypeInv, Operation
<1>5. QED
  BY <1>2, <1>3, <1>4

\* The call goes on, or it is over.
LEMMA ProceedsBecomes ==
  ASSUME TypeInv, NEW a \in Actors, op[a].todo # <<>>, Proceeds(a)
  PROVE  \/ Ends(a) /\ Tail(op[a].todo) = <<>>
         \/ /\ Becomes(a, Later(a, op[a].items, op[a].lines)) /\ lock' = lock
            /\ Tail(op[a].todo) # <<>>
<1>1. op[a].todo \in Stages
  BY DEF TypeInv, OnCourse
<1>2. QED
  BY <1>1, StageFollows, GoesBecomes DEF Proceeds

LEMMA BecomesTyped ==
  ASSUME TypeInv, NEW a \in Actors, NEW o, OnCourse(a, o), Becomes(a, o),
         disk' \in Disk, lock' \in Workers \cup {NoWorker}, interrupted' \in BOOLEAN
  PROVE  TypeInv'
BY DEF TypeInv, Becomes

LEMMA EndsTyped ==
  ASSUME TypeInv, NEW a \in Actors, Ends(a), disk' \in Disk, interrupted' \in BOOLEAN
  PROVE  TypeInv'
<1>1. Becomes(a, Idle) /\ lock' \in Workers \cup {NoWorker}
  BY EndsBecomes DEF TypeInv
<1>2. QED
  BY <1>1, IdleOnCourse, BecomesTyped

\* A call begins with a plan, an empty queue and no lines.
LEMMA StartBecomes ==
  ASSUME TypeInv, NEW a \in Actors, NEW call \in Calls, Start(a, call)
  PROVE  \E plan : /\ Plan(a, call, plan)
                   /\ Becomes(a, [call |-> call, todo |-> plan, items |-> EmptyQueue, lines |-> <<>>])
<1> DEFINE plan == (IF a \in Workers THEN <<"lock">> ELSE <<>>) \o Steps(a, call)
           begun == [call |-> call, todo |-> plan, items |-> EmptyQueue, lines |-> <<>>]
<1>1. Plan(a, call, plan)
  BY FirstStage DEF Start
<1>2. op' = [op EXCEPT ![a] = begun]
  BY DEF Start
<1> HIDE DEF plan
<1>3. Becomes(a, begun)
  BY <1>2 DEF Becomes, TypeInv
<1>4. QED
  BY <1>1, <1>3

\* What is read from the log is where its next records start.
LEMMA ChainedTyped ==
  ASSUME TypeInv, NEW a \in Actors, Due(a, "check")
  PROVE  /\ op[a].call \in Calls /\ op[a].call.op = "enqueue"
         /\ op[a].call.batch \in Seq(Decision) /\ op[a].call.batch # <<>>
         /\ LastRecord(disk.log) \in Anchor
         /\ Chained(a) \in Seq(AuditRecord) /\ Len(Chained(a)) = Len(op[a].call.batch)
<1>1. OnCourse(a, op[a]) /\ op[a].todo # <<>> /\ Head(op[a].todo) = "check"
  BY DEF Due, TypeInv
<1>2. op[a].call \in Calls /\ op[a].call.op = "enqueue" /\ op[a].call.batch # <<>>
  BY <1>1, StageFollows DEF OnCourse
<1>3. op[a].call.batch \in Seq(Decision)
  BY <1>2, CallFields
<1>4. LastRecord(disk.log) \in Anchor
  BY LastTyped DEF TypeInv, Disk
<1>5. QED
  BY <1>2, <1>3, <1>4, RecordsAre DEF Chained

\* What is read from the queue file is a queue.
LEMMA LoadBecomes ==
  ASSUME TypeInv, NEW a \in Actors, Load(a), ~Refused(disk.items, op[a].call)
  PROVE  \E items : /\ Follows(disk.items, op[a].call, items)
                    /\ Becomes(a, Later(a, items, op[a].lines))
<1>1. op[a].call \in Calls /\ disk.items \in Queue
  BY DEF Load, Due, TypeInv, OnCourse, Disk
<1>2. PICK now \in Times :
        Goes(a, [op[a] EXCEPT !.items = Applied(disk.items, op[a].call, now)])
  BY DEF Load
<1>3. Follows(disk.items, op[a].call, Applied(disk.items, op[a].call, now))
  BY <1>1, AppliedFollows
<1>4. Becomes(a, Later(a, Applied(disk.items, op[a].call, now), op[a].lines))
  BY <1>2, GoesBecomes
<1>5. QED
  BY <1>3, <1>4

\* A part of the lines that are to be written.
LEMMA PartTyped ==
  ASSUME NEW lines \in Seq(AuditRecord), NEW k \in 0..Len(lines)
  PROVE  /\ SubSeq(lines, 1, k) \in Seq(AuditRecord) /\ Len(SubSeq(lines, 1, k)) = k
         /\ \A i \in 1..k : SubSeq(lines, 1, k)[i] = lines[i]
OBVIOUS

ActorStep(a) ==
  \/ \E call \in Calls : Start(a, call)
  \/ Enter(a) \/ Load(a) \/ CheckLog(a) \/ WriteLog(a) \/ WriteAnchor(a)
  \/ Save(a) \/ CutShort(a) \/ Fail(a)

\* A step of an actor keeps the types.
LEMMA StepTyped ==
  ASSUME TypeInv, NEW a \in Actors, ActorStep(a)
  PROVE  TypeInv'
<1> DEFINE o == op[a]
<1>1. /\ OnCourse(a, o) /\ o \in Operation /\ disk \in Disk /\ lock \in Workers \cup {NoWorker}
      /\ interrupted \in BOOLEAN /\ o.items \in Queue /\ o.lines \in Seq(AuditRecord)
  BY DEF TypeInv, OnCourse, Operation
<1>2. \A items \in Queue, lines \in Seq(AuditRecord) :
        o.todo # <<>> => OnCourse(a, Later(a, items, lines))
  BY <1>1, GoesOnCourse DEF Later
<1>3. ASSUME NEW call \in Calls, Start(a, call) PROVE TypeInv'
  <2>1. PICK plan : /\ Plan(a, call, plan)
                    /\ Becomes(a, [call |-> call, todo |-> plan, items |-> EmptyQueue, lines |-> <<>>])
    BY <1>3, StartBecomes
  <2> DEFINE begun == [call |-> call, todo |-> plan, items |-> EmptyQueue, lines |-> <<>>]
  <2>2. EmptyQueue \in Queue /\ plan \in Seq(StepNames)
    BY <2>1, StagesTyped DEF Plan, EmptyQueue, Queue
  <2>3. begun \in Operation
    BY <2>2 DEF Operation
  <2>4. OnCourse(a, begun)
    BY <2>1, <2>3 DEF OnCourse, Plan
  <2>5. QED
    BY <1>1, <1>3, <2>1, <2>4, BecomesTyped DEF Start
<1>4. CASE Enter(a)
  <2>1. o.todo # <<>> /\ a \in Workers /\ Becomes(a, Later(a, o.items, o.lines))
    <3>1. o.todo # <<>> /\ Becomes(a, Later(a, o.items, o.lines))
      BY <1>4, GoesBecomes DEF Enter, Due
    <3>2. Head(o.todo) = "lock"
      BY <1>4 DEF Enter, Due
    <3>3. QED
      BY <3>1, <3>2, <1>1 DEF OnCourse
  <2>2. QED
    BY <1>1, <1>2, <1>4, <2>1, BecomesTyped DEF Enter
<1>5. CASE Load(a)
  <2>1. disk' \in Disk /\ interrupted' \in BOOLEAN
    BY <1>1, <1>5 DEF Load
  <2>2. CASE Refused(disk.items, o.call)
    BY <1>5, <2>1, <2>2, EndsTyped DEF Load
  <2>3. CASE ~Refused(disk.items, o.call)
    <3>1. PICK items : /\ Follows(disk.items, o.call, items)
                       /\ Becomes(a, Later(a, items, o.lines))
      BY <1>5, <2>3, LoadBecomes
    <3>2. items \in Queue /\ o.todo # <<>> /\ lock' = lock
      BY <1>5, <2>3, <3>1 DEF Load, Due, Follows
    <3>3. QED
      BY <1>1, <1>2, <2>1, <3>1, <3>2, BecomesTyped
  <2>4. QED
    BY <2>2, <2>3
<1>6. CASE CheckLog(a)
  <2>1. disk' \in Disk /\ interrupted' \in BOOLEAN
    BY <1>1, <1>6 DEF CheckLog
  <2>2. CASE Ends(a)
    BY <2>1, <2>2, EndsTyped
  <2>3. CASE Goes(a, [op[a] EXCEPT !.lines = Chained(a)]) /\ UNCHANGED lock
    <3>1. Becomes(a, Later(a, o.items, Chained(a))) /\ o.todo # <<>>
      BY <1>6, <2>3, GoesBecomes DEF CheckLog, Due
    <3>2. Chained(a) \in Seq(AuditRecord)
      BY <1>6, ChainedTyped DEF CheckLog
    <3>3. QED
      BY <1>1, <1>2, <2>1, <2>3, <3>1, <3>2, BecomesTyped
  <2>4. QED
    BY <1>6, <2>2, <2>3 DEF CheckLog
<1>7. CASE WriteLog(a)
  <2>1. disk.log \o o.lines \in Seq(AuditRecord)
    BY <1>1, Joined DEF Disk
  <2>2. disk' \in Disk
    BY <1>1, <1>7, <2>1 DEF WriteLog, Disk
  <2>3. Becomes(a, Later(a, o.items, o.lines)) /\ o.todo # <<>>
    BY <1>7, GoesBecomes DEF WriteLog, Due
  <2>4. QED
    BY <1>1, <1>2, <1>7, <2>2, <2>3, BecomesTyped DEF WriteLog
<1>8. CASE WriteAnchor(a)
  <2>1. LastRecord(o.lines) \in Anchor
    BY <1>1, LastTyped
  <2>2. disk' \in Disk /\ interrupted' \in BOOLEAN
    BY <1>1, <1>8, <2>1 DEF WriteAnchor, Disk
  <2>3. o.todo # <<>> /\ Proceeds(a)
    BY <1>8 DEF WriteAnchor, Due
  <2>4. CASE Ends(a)
    BY <2>2, <2>4, EndsTyped
  <2>5. CASE Becomes(a, Later(a, o.items, o.lines)) /\ lock' = lock
    BY <1>1, <1>2, <2>2, <2>3, <2>5, BecomesTyped
  <2>6. QED
    BY <2>3, <2>4, <2>5, ProceedsBecomes
<1>9. CASE Save(a)
  <2>1. disk' \in Disk /\ interrupted' \in BOOLEAN
    BY <1>1, <1>9 DEF Save, Disk
  <2>2. Ends(a)
    BY <1>1, <1>9, StageFollows DEF Save, Due, OnCourse, Proceeds
  <2>3. QED
    BY <2>1, <2>2, EndsTyped
<1>10. CASE CutShort(a)
  <2>1. PICK k \in 0..Len(o.lines), torn \in BOOLEAN, ended \in BOOLEAN :
          disk' = [disk EXCEPT !.log = @ \o SubSeq(o.lines, 1, k), !.ended = ended,
                              !.spoiled = @ \/ torn \/ ~disk.ended]
    BY <1>10 DEF CutShort
  <2>2. disk.log \o SubSeq(o.lines, 1, k) \in Seq(AuditRecord)
    BY <1>1, PartTyped, Joined DEF Disk
  <2>3. disk' \in Disk
    BY <1>1, <2>1, <2>2 DEF Disk
  <2>4. QED
    BY <1>10, <2>3, EndsTyped DEF CutShort
<1>11. CASE Fail(a)
  BY <1>1, <1>11, EndsTyped DEF Fail
<1>12. QED
  BY <1>3, <1>4, <1>5, <1>6, <1>7, <1>8, <1>9, <1>10, <1>11 DEF ActorStep

\* So do a restart and the repair of the anchor.
LEMMA OutsideTyped ==
  ASSUME TypeInv, Crash \/ ReAnchor
  PROVE  TypeInv'
<1>1. CASE Crash
  BY <1>1, IdleOnCourse DEF Crash, TypeInv
<1>2. CASE ReAnchor
  <2>1. LastRecord(disk.log) \in Anchor
    BY LastTyped DEF TypeInv, Disk
  <2>2. disk' \in Disk
    BY <1>2, <2>1 DEF ReAnchor, TypeInv, Disk
  <2>3. QED
    BY <1>2, <2>2 DEF ReAnchor, TypeInv
<1>3. QED
  BY <1>1, <1>2

LEMMA AlwaysTyped == Spec => []TypeInv
<1>1. Init => TypeInv
  <2>1. EmptyQueue \in Queue
    BY DEF EmptyQueue, Queue
  <2> SUFFICES ASSUME Init PROVE TypeInv
    OBVIOUS
  <2>2. disk \in Disk
    BY <2>1 DEF Init, Disk
  <2>3. op = [a \in Actors |-> op[a]] /\ \A a \in Actors : OnCourse(a, op[a])
    BY IdleOnCourse DEF Init
  <2>4. QED
    BY <2>2, <2>3 DEF Init, TypeInv
<1>2. TypeInv /\ [Next]_vars => TypeInv'
  <2>1. ASSUME TypeInv, Next PROVE TypeInv'
    BY <2>1, StepTyped, OutsideTyped DEF Next, ActorStep
  <2>2. ASSUME TypeInv, UNCHANGED vars PROVE TypeInv'
    BY <2>2 DEF vars, TypeInv
  <2>3. QED
    BY <2>1, <2>2
<1>3. QED
  BY <1>1, <1>2, PTL DEF Spec

\* The files, the lock and every call under way have the types of the code's data:
\* FileStore, and _cmd_score and _cmd_queue of the command line.
THEOREM TypeCorrect == Spec => []TypeOK
<1>1. TypeInv => TypeOK
  BY DEF TypeInv, TypeOK, OnCourse, Operation, Disk
<1>2. QED
  BY <1>1, AlwaysTyped, PTL

-----------------------------------------------------------------------------
(* What is queued was logged.                                              *)

InLog(log, d) == \E i \in 1..Len(log) : log[i].decision = d

\* What a call carries: the records about to be written are its batch's; once they
\* are behind it, its batch is in the log; its copy of the queue holds what is in
\* the log or about to be.
Sound(o, log) ==
  /\ o.todo # <<>> /\ Head(o.todo) = "write" =>
       /\ Len(o.lines) = Len(o.call.batch)
       /\ \A i \in 1..Len(o.call.batch) : o.lines[i].decision = o.call.batch[i]
  /\ o.call.op = "enqueue" /\ ~Writes(o.todo) =>
       \A i \in 1..Len(o.call.batch) : InLog(log, o.call.batch[i])
  /\ \A r \in Queued(o.items) :
       \/ InLog(log, o.items[r].decision)
       \/ /\ Writes(o.todo)
          /\ \E i \in 1..Len(o.call.batch) : o.items[r].decision = o.call.batch[i]

LoggedInv == QueuedOnlyIfLogged /\ \A a \in Actors : Sound(op[a], disk.log)

\* What is in the log stays there when the log grows.
LEMMA StaysInLog ==
  ASSUME NEW log \in Seq(AuditRecord), NEW more \in Seq(AuditRecord)
  PROVE  /\ \A d : InLog(log, d) => InLog(log \o more, d)
         /\ \A i \in 1..Len(more) : InLog(log \o more, more[i].decision)
<1>1. /\ Len(log \o more) = Len(log) + Len(more) /\ Len(log) \in Nat /\ Len(more) \in Nat
      /\ \A i \in 1..Len(log) : (log \o more)[i] = log[i]
      /\ \A i \in 1..Len(more) : (log \o more)[Len(log) + i] = more[i]
  BY Joined
<1>2. ASSUME NEW d, InLog(log, d) PROVE InLog(log \o more, d)
  BY <1>1, <1>2 DEF InLog
<1>3. ASSUME NEW i \in 1..Len(more) PROVE InLog(log \o more, more[i].decision)
  <2>1. Len(log) + i \in 1..Len(log \o more) /\ (log \o more)[Len(log) + i] = more[i]
    BY <1>1
  <2>2. QED
    BY <2>1 DEF InLog
<1>4. QED
  BY <1>2, <1>3

\* A call stays sound, and the queue stays logged, when the log only grows.
LEMMA SoundStays ==
  ASSUME NEW o, NEW log, NEW longer, \A d : InLog(log, d) => InLog(longer, d), Sound(o, log)
  PROVE  Sound(o, longer)
BY DEF Sound

LEMMA IdleSound == \A log : Sound(Idle, log)
<1>1. Queued(EmptyQueue) = {}
  BY DEF Queued, EmptyQueue
<1>2. QED
  BY <1>1 DEF Sound, Idle, NoCall

LEMMA BecomesSound ==
  ASSUME TypeInv, LoggedInv, NEW a \in Actors, NEW o, Becomes(a, o),
         \A d : InLog(disk.log, d) => InLog(disk'.log, d), Sound(o, disk'.log)
  PROVE  \A b \in Actors : Sound(op'[b], disk'.log)
<1> SUFFICES ASSUME NEW b \in Actors PROVE Sound(op'[b], disk'.log)
  OBVIOUS
<1>1. CASE b = a
  BY <1>1 DEF Becomes
<1>2. CASE b # a
  BY <1>2, SoundStays DEF Becomes, LoggedInv
<1>3. QED
  BY <1>1, <1>2

\* Operators who name these files to the score command name the log among them.
EverybodyLogs == \A files \in Destinations : "log" \in files

\* A step of an actor queues nothing that is not in the log.
LEMMA StepLogged ==
  ASSUME EverybodyLogs, TypeInv, LoggedInv, NEW a \in Actors, ActorStep(a)
  PROVE  LoggedInv'
<1> DEFINE o == op[a]
           todo == Tail(o.todo)
<1>1. /\ OnCourse(a, o) /\ o.todo \in Stages /\ o.items \in Queue /\ o.lines \in Seq(AuditRecord)
      /\ disk.log \in Seq(AuditRecord) /\ disk \in Disk /\ Sound(o, disk.log)
  BY DEF TypeInv, OnCourse, Operation, Disk, LoggedInv
<1>2. ASSUME disk'.items = disk.items, \A d : InLog(disk.log, d) => InLog(disk'.log, d)
      PROVE  QueuedOnlyIfLogged'
  BY <1>2 DEF LoggedInv, QueuedOnlyIfLogged, InLog
<1>3. ASSUME Ends(a), \A d : InLog(disk.log, d) => InLog(disk'.log, d)
      PROVE  \A b \in Actors : Sound(op'[b], disk'.log)
  BY <1>3, EndsBecomes, IdleSound, BecomesSound
<1>4. ASSUME NEW call \in Calls, Start(a, call) PROVE LoggedInv'
  <2>1. PICK plan : /\ Plan(a, call, plan)
                    /\ Becomes(a, [call |-> call, todo |-> plan, items |-> EmptyQueue, lines |-> <<>>])
    BY <1>4, StartBecomes
  <2> DEFINE begun == [call |-> call, todo |-> plan, items |-> EmptyQueue, lines |-> <<>>]
  <2>2. Queued(EmptyQueue) = {}
    BY DEF Queued, EmptyQueue
  <2>3. call.op = "enqueue" => "log" \in call.files
    BY CallFields DEF EverybodyLogs, BothFiles
  <2>4. Sound(begun, disk.log)
    BY <2>1, <2>2, <2>3 DEF Sound, Plan
  <2>5. disk' = disk
    BY <1>4 DEF Start
  <2>6. QED
    BY <1>2, <2>1, <2>4, <2>5, BecomesSound DEF LoggedInv
<1>5. CASE Enter(a)
  <2>1. Becomes(a, Later(a, o.items, o.lines)) /\ o.todo # <<>> /\ Head(o.todo) = "lock" /\ disk' = disk
    BY <1>5, GoesBecomes DEF Enter, Due
  <2>2. Head(todo) = "load" /\ (Writes(todo) <=> Writes(o.todo))
    BY <1>1, <2>1, StageFollows
  <2>3. Sound(Later(a, o.items, o.lines), disk.log)
    BY <1>1, <2>2 DEF Sound, Later
  <2>4. QED
    BY <1>2, <2>1, <2>3, BecomesSound DEF LoggedInv
<1>6. CASE Load(a)
  <2>1. disk' = disk /\ o.todo # <<>> /\ Head(o.todo) = "load" /\ o.call \in Calls
    BY <1>1, <1>6 DEF Load, Due, OnCourse
  <2>2. CASE Refused(disk.items, o.call)
    BY <1>2, <1>3, <1>6, <2>1, <2>2 DEF Load, LoggedInv
  <2>3. CASE ~Refused(disk.items, o.call)
    <3>1. PICK items : /\ Follows(disk.items, o.call, items)
                       /\ Becomes(a, Later(a, items, o.lines))
      BY <1>6, <2>3, LoadBecomes
    <3>2. Head(todo) # "write" /\ (Writes(todo) <=> Writes(o.todo))
      BY <1>1, <2>1, StageFollows
    <3>3. ASSUME NEW r \in Queued(items)
          PROVE  \/ InLog(disk.log, items[r].decision)
                 \/ /\ Writes(todo)
                    /\ \E i \in 1..Len(o.call.batch) : items[r].decision = o.call.batch[i]
      <4>1. CASE r \in Queued(disk.items) /\ items[r].decision = disk.items[r].decision
        BY <4>1 DEF LoggedInv, QueuedOnlyIfLogged, InLog
      <4>2. CASE /\ o.call.op = "enqueue"
                 /\ \E i \in 1..Len(o.call.batch) : items[r].decision = o.call.batch[i]
        BY <1>1, <3>2, <4>2 DEF Sound
      <4>3. QED
        BY <3>1, <4>1, <4>2 DEF Follows
    <3>4. Sound(Later(a, items, o.lines), disk.log)
      BY <1>1, <3>2, <3>3 DEF Sound, Later
    <3>5. QED
      BY <1>2, <2>1, <3>1, <3>4, BecomesSound DEF LoggedInv
  <2>4. QED
    BY <2>2, <2>3
<1>7. CASE CheckLog(a)
  <2>1. disk' = disk /\ o.todo # <<>> /\ Head(o.todo) = "check" /\ Due(a, "check")
    BY <1>7 DEF CheckLog, Due
  <2>2. CASE Ends(a)
    BY <1>2, <1>3, <2>1, <2>2 DEF LoggedInv
  <2>3. CASE Goes(a, [op[a] EXCEPT !.lines = Chained(a)])
    <3>1. Becomes(a, Later(a, o.items, Chained(a)))
      BY <2>3, GoesBecomes
    <3>2. Writes(o.todo) <=> Writes(todo)
      BY <1>1, <2>1, StageFollows
    <3>3. Writes(todo)
      BY <1>1, <2>1, <3>2, StageFollows
    <3>4. /\ Len(Chained(a)) = Len(o.call.batch)
          /\ \A i \in 1..Len(o.call.batch) : Chained(a)[i].decision = o.call.batch[i]
      BY <2>1, ChainedTyped, RecordsAre DEF Chained
    <3>5. Sound(Later(a, o.items, Chained(a)), disk.log)
      BY <1>1, <3>2, <3>3, <3>4 DEF Sound, Later
    <3>6. QED
      BY <1>2, <2>1, <3>1, <3>5, BecomesSound DEF LoggedInv
  <2>4. QED
    BY <1>7, <2>2, <2>3 DEF CheckLog
<1>8. CASE WriteLog(a)
  <2>1. /\ Becomes(a, Later(a, o.items, o.lines)) /\ o.todo # <<>> /\ Head(o.todo) = "write"
        /\ disk'.items = disk.items /\ disk'.log = disk.log \o o.lines
    BY <1>1, <1>8, GoesBecomes DEF WriteLog, Due, Disk
  <2>2. /\ \A d : InLog(disk.log, d) => InLog(disk'.log, d)
        /\ \A i \in 1..Len(o.lines) : InLog(disk'.log, o.lines[i].decision)
    BY <1>1, <2>1, StaysInLog
  <2>3. \A i \in 1..Len(o.call.batch) : InLog(disk'.log, o.call.batch[i])
    BY <1>1, <2>1, <2>2 DEF Sound
  <2>4. Head(todo) = "anchor"
    BY <1>1, <2>1, StageFollows
  <2>5. \A r \in Queued(o.items) : InLog(disk'.log, o.items[r].decision)
    BY <1>1, <2>2, <2>3 DEF Sound
  <2>6. Sound(Later(a, o.items, o.lines), disk'.log)
    BY <2>3, <2>4, <2>5 DEF Sound, Later
  <2>7. QED
    BY <1>2, <2>1, <2>2, <2>6, BecomesSound DEF LoggedInv
<1>9. CASE WriteAnchor(a)
  <2>1. /\ o.todo # <<>> /\ Head(o.todo) = "anchor" /\ Proceeds(a)
        /\ disk'.items = disk.items /\ disk'.log = disk.log
    BY <1>1, <1>9 DEF WriteAnchor, Due, Disk
  <2>2. Head(todo) # "write" \/ todo = <<>>
    BY <1>1, <2>1, StageFollows
  <2>3. Writes(todo) <=> Writes(o.todo)
    BY <1>1, <2>1, StageFollows
  <2>4. CASE Ends(a)
    BY <1>2, <1>3, <2>1, <2>4 DEF LoggedInv
  <2>5. CASE Becomes(a, Later(a, o.items, o.lines))
    <3>1. Sound(Later(a, o.items, o.lines), disk.log)
      BY <1>1, <2>2, <2>3 DEF Sound, Later
    <3>2. QED
      BY <1>2, <2>1, <2>5, <3>1, BecomesSound DEF LoggedInv
  <2>6. QED
    BY <2>1, <2>4, <2>5, ProceedsBecomes
<1>10. CASE Save(a)
  <2>1. /\ o.todo # <<>> /\ Head(o.todo) = "save"
        /\ disk'.items = o.items /\ disk'.log = disk.log
    BY <1>1, <1>10 DEF Save, Due, Disk
  <2>2. Len(o.todo) = 1 /\ ~Writes(o.todo)
    BY <1>1, <2>1, StageFollows
  <2>3. QueuedOnlyIfLogged'
    BY <1>1, <2>1, <2>2 DEF Sound, QueuedOnlyIfLogged, InLog
  <2>4. Ends(a)
    BY <1>10, <2>2 DEF Save, Proceeds
  <2>5. QED
    BY <1>3, <2>1, <2>3, <2>4 DEF LoggedInv
<1>11. CASE CutShort(a)
  <2>1. PICK k \in 0..Len(o.lines), torn \in BOOLEAN, ended \in BOOLEAN :
          disk' = [disk EXCEPT !.log = @ \o SubSeq(o.lines, 1, k), !.ended = ended,
                              !.spoiled = @ \/ torn \/ ~disk.ended]
    BY <1>11 DEF CutShort
  <2>2. disk'.items = disk.items /\ disk'.log = disk.log \o SubSeq(o.lines, 1, k)
    BY <1>1, <2>1 DEF Disk
  <2>3. \A d : InLog(disk.log, d) => InLog(disk'.log, d)
    <3>1. SubSeq(o.lines, 1, k) \in Seq(AuditRecord)
      BY <1>1, PartTyped
    <3>2. QED
      BY <1>1, <2>2, <3>1, StaysInLog
  <2>4. Ends(a)
    BY <1>11 DEF CutShort
  <2>5. QED
    BY <1>2, <1>3, <2>2, <2>3, <2>4 DEF LoggedInv
<1>12. CASE Fail(a)
  BY <1>2, <1>3, <1>12 DEF Fail, LoggedInv
<1>13. QED
  BY <1>4, <1>5, <1>6, <1>7, <1>8, <1>9, <1>10, <1>11, <1>12 DEF ActorStep

LEMMA OutsideLogged ==
  ASSUME TypeInv, LoggedInv, Crash \/ ReAnchor
  PROVE  LoggedInv'
<1>1. CASE Crash
  BY <1>1, IdleSound DEF Crash, LoggedInv, QueuedOnlyIfLogged
<1>2. CASE ReAnchor
  <2>1. disk'.items = disk.items /\ disk'.log = disk.log /\ op' = op
    BY <1>2 DEF ReAnchor, TypeInv, Disk
  <2>2. QED
    BY <2>1 DEF LoggedInv, QueuedOnlyIfLogged
<1>3. QED
  BY <1>1, <1>2

\* Whatever threads and operators do to the files, and wherever a call is cut short,
\* no review is queued whose record was not written to the log, as long as operators
\* who score into these files name the log: FileStore.enqueue appends before it saves,
\* _cmd_score appends before it loads the queue (but only with --audit-log).
THEOREM QueuedWasLogged ==
  ASSUME EverybodyLogs
  PROVE  Spec => []QueuedOnlyIfLogged
<1>1. Init => LoggedInv
  BY IdleSound DEF Init, LoggedInv, QueuedOnlyIfLogged, Queued, EmptyQueue
<1>2. TypeInv /\ LoggedInv /\ [Next]_vars => LoggedInv'
  <2>1. ASSUME TypeInv, LoggedInv, Next PROVE LoggedInv'
    BY <2>1, StepLogged, OutsideLogged DEF Next, ActorStep
  <2>2. ASSUME LoggedInv, UNCHANGED vars PROVE LoggedInv'
    BY <2>2 DEF vars, LoggedInv, QueuedOnlyIfLogged
  <2>3. QED
    BY <2>1, <2>2
<1>3. LoggedInv => QueuedOnlyIfLogged
  BY DEF LoggedInv
<1>4. QED
  BY <1>1, <1>2, <1>3, AlwaysTyped, PTL DEF Spec

-----------------------------------------------------------------------------
(* A web process that has its files to itself.                             *)

\* The records are numbered by their position in the log.
Numbered(log) == \A i \in 1..Len(log) : log[i].sequence = i

\* The anchor of the first n records.
AnchorUpTo(log, n) == IF n = 0 THEN GenesisAnchor ELSE AnchorAt(log[n])

Anchored(d) ==
  d.anchor # NoAnchor =>
    d.anchor.records <= Len(d.log) /\ d.anchor = AnchorUpTo(d.log, d.anchor.records)

\* An anchor is owed: the log does not match the one it has.
Owing(d) == d.anchor # NoAnchor => d.spoiled \/ d.anchor # LastRecord(d.log)

AtWork(o) == o.todo # <<>> /\ Head(o.todo) # "lock"

\* What a thread at work knows of the files: the log it checked is the log it
\* writes to, the anchor it writes is the end of that log, and the queue it saves
\* has every verdict of the file it read.
Right(o, d) ==
  /\ Head(o.todo) = "write" => /\ ~d.spoiled /\ d.anchor \in {NoAnchor, LastRecord(d.log)}
                              /\ o.lines = Records(LastRecord(d.log), o.call.batch)
  /\ Head(o.todo) = "anchor" => /\ o.lines # <<>> /\ d.log # <<>>
                               /\ o.lines[Len(o.lines)] = d.log[Len(d.log)]
  /\ Head(o.todo) \in {"check", "write", "anchor", "save"} =>
       \A r \in InState(d.items, "resolved") : o.items[r] = d.items[r]

Orderly == \A a \in Actors : AtWork(op[a]) => lock = a /\ Right(op[a], disk)

AloneInv ==
  /\ Numbered(disk.log) /\ Anchored(disk) /\ (interrupted => Owing(disk))
  /\ Orderly

\* The end of a numbered log is the anchor of all of it.
LEMMA LastIs ==
  ASSUME NEW log \in Seq(AuditRecord), Numbered(log)
  PROVE  LastRecord(log) = AnchorUpTo(log, Len(log)) /\ LastRecord(log).records = Len(log)
<1>1. CASE log = <<>>
  BY <1>1 DEF LastRecord, AnchorUpTo, GenesisAnchor
<1>2. CASE log # <<>>
  <2>1. Len(log) \in 1..Len(log)
    BY <1>2
  <2>2. QED
    BY <1>2, <2>1 DEF LastRecord, AnchorUpTo, AnchorAt, Numbered
<1>3. QED
  BY <1>1, <1>2

\* Records that continue the numbering keep a log numbered and its beginning as it is.
LEMMA NumberedOn ==
  ASSUME NEW log \in Seq(AuditRecord), Numbered(log), NEW part \in Seq(AuditRecord),
         \A i \in 1..Len(part) : part[i].sequence = Len(log) + i
  PROVE  /\ Numbered(log \o part) /\ log \o part \in Seq(AuditRecord)
         /\ Len(log \o part) = Len(log) + Len(part)
         /\ LastRecord(log \o part).records = Len(log) + Len(part)
         /\ \A n \in 0..Len(log) : AnchorUpTo(log \o part, n) = AnchorUpTo(log, n)
<1> DEFINE longer == log \o part
<1>1. /\ longer \in Seq(AuditRecord) /\ Len(longer) = Len(log) + Len(part)
      /\ \A i \in 1..Len(log) : longer[i] = log[i]
      /\ \A i \in 1..Len(part) : longer[Len(log) + i] = part[i]
  BY Joined
<1>2. Len(log) \in Nat /\ Len(part) \in Nat
  OBVIOUS
<1> HIDE DEF longer
<1>3. ASSUME NEW i \in 1..Len(longer) PROVE longer[i].sequence = i
  <2>1. CASE i <= Len(log)
    BY <2>1, <1>1, <1>2 DEF Numbered
  <2>2. CASE i > Len(log)
    <3>1. i - Len(log) \in 1..Len(part) /\ i = Len(log) + (i - Len(log))
      BY <2>2, <1>1, <1>2
    <3>2. longer[Len(log) + (i - Len(log))] = part[i - Len(log)]
      BY <3>1, <1>1
    <3>3. QED
      BY <3>1, <3>2
  <2>3. QED
    BY <2>1, <2>2, <1>1, <1>2
<1>4. Numbered(longer)
  BY <1>3 DEF Numbered
<1>5. LastRecord(longer).records = Len(log) + Len(part)
  BY <1>1, <1>4, LastIs
<1>6. \A n \in 0..Len(log) : AnchorUpTo(longer, n) = AnchorUpTo(log, n)
  BY <1>1, <1>2 DEF AnchorUpTo
<1>7. QED
  BY <1>1, <1>4, <1>5, <1>6 DEF longer

\* Records of a batch, or the first of them, keep the log numbered and its anchor in
\* place; whole records leave the anchor behind.
LEMMA Grown ==
  ASSUME NEW d \in Disk, Numbered(d.log), Anchored(d),
         d.anchor \in {NoAnchor, LastRecord(d.log)},
         NEW batch \in Seq(Decision), NEW k \in 0..Len(batch),
         NEW e \in Disk, k > 0 \/ e.spoiled, e.anchor = d.anchor,
         NEW part, part = SubSeq(Records(LastRecord(d.log), batch), 1, k), e.log = d.log \o part
  PROVE  Numbered(e.log) /\ Anchored(e) /\ Owing(e)
<1> DEFINE lines == Records(LastRecord(d.log), batch)
<1>1. d.log \in Seq(AuditRecord) /\ Len(d.log) \in Nat /\ LastRecord(d.log) \in Anchor
  BY LastTyped DEF Disk
<1>2. LastRecord(d.log).records = Len(d.log) /\ LastRecord(d.log) = AnchorUpTo(d.log, Len(d.log))
  BY <1>1, LastIs
<1>3. /\ lines \in Seq(AuditRecord) /\ Len(lines) = Len(batch)
      /\ \A i \in 1..Len(batch) : lines[i].sequence = Len(d.log) + i
  BY <1>1, <1>2, RecordsAre
<1>4. part = SubSeq(lines, 1, k)
  OBVIOUS
<1> HIDE DEF lines
<1>5. /\ part \in Seq(AuditRecord) /\ Len(part) = k
      /\ \A i \in 1..k : part[i].sequence = Len(d.log) + i
  <2>1. k \in 0..Len(lines)
    BY <1>3
  <2>2. /\ SubSeq(lines, 1, k) \in Seq(AuditRecord) /\ Len(SubSeq(lines, 1, k)) = k
        /\ \A i \in 1..k : SubSeq(lines, 1, k)[i] = lines[i]
    BY <1>3, <2>1, PartTyped
  <2>3. \A i \in 1..k : part[i] = lines[i] /\ i \in 1..Len(batch)
    BY <1>4, <2>2
  <2>4. \A i \in 1..k : part[i].sequence = Len(d.log) + i
    BY <1>3, <2>3
  <2>5. QED
    BY <1>4, <2>2, <2>4
<1>6. /\ Numbered(d.log \o part) /\ Len(d.log \o part) = Len(d.log) + k
      /\ LastRecord(d.log \o part).records = Len(d.log) + k
      /\ \A n \in 0..Len(d.log) : AnchorUpTo(d.log \o part, n) = AnchorUpTo(d.log, n)
  <2>1. \A i \in 1..Len(part) : part[i].sequence = Len(d.log) + i
    BY <1>5
  <2>2. d.log \in Seq(AuditRecord) /\ Numbered(d.log) /\ part \in Seq(AuditRecord)
    BY <1>1, <1>5
  <2>3. /\ Numbered(d.log \o part) /\ Len(d.log \o part) = Len(d.log) + Len(part)
        /\ LastRecord(d.log \o part).records = Len(d.log) + Len(part)
        /\ \A n \in 0..Len(d.log) : AnchorUpTo(d.log \o part, n) = AnchorUpTo(d.log, n)
    BY <2>1, <2>2, NumberedOn
  <2>4. QED
    BY <1>5, <2>3
<1>7. /\ Numbered(e.log) /\ Len(e.log) = Len(d.log) + k
      /\ LastRecord(e.log).records = Len(d.log) + k
      /\ AnchorUpTo(e.log, Len(d.log)) = AnchorUpTo(d.log, Len(d.log))
  <2>1. e.log = d.log \o part
    OBVIOUS
  <2>2. Len(d.log) \in 0..Len(d.log)
    BY <1>1
  <2>3. AnchorUpTo(d.log \o part, Len(d.log)) = AnchorUpTo(d.log, Len(d.log))
    BY <1>6, <2>2, Zenon
  <2>4. QED
    BY <1>6, <2>1, <2>3, Zenon
<1>8. Anchored(e)
  <2>1. e.anchor # NoAnchor => e.anchor = LastRecord(d.log)
    OBVIOUS
  <2>2. Len(d.log) <= Len(e.log)
    <3> DEFINE n == Len(d.log)
               m == Len(e.log)
    <3>1. n \in Nat /\ m = n + k
      BY <1>1, <1>7
    <3> HIDE DEF n, m
    <3>2. n <= m
      BY <3>1
    <3>3. QED
      BY <3>2 DEF n, m
  <2>3. QED
    BY <1>2, <1>7, <2>1, <2>2 DEF Anchored
<1>9. Owing(e)
  BY <1>1, <1>2, <1>7 DEF Owing
<1>10. QED
  BY <1>7, <1>8, <1>9

\* While a thread is at work no other is.
LEMMA OneAtWork ==
  ASSUME Orderly, NEW a \in Actors, AtWork(op[a]), NEW b \in Actors, b # a
  PROVE  ~AtWork(op[b])
BY DEF Orderly

\* The thread at work goes on with what is right for the files as they are then.
LEMMA WorkGoesOn ==
  ASSUME Orderly, NEW a \in Actors, NEW o, Becomes(a, o), AtWork(op[a]),
         AtWork(o) => lock' = a /\ Right(o, disk')
  PROVE  Orderly'
<1> SUFFICES ASSUME NEW b \in Actors, AtWork(op'[b]) PROVE lock' = b /\ Right(op'[b], disk')
  BY DEF Orderly
<1>1. CASE b = a
  BY <1>1 DEF Becomes
<1>2. CASE b # a
  BY <1>2, OneAtWork DEF Becomes
<1>3. QED
  BY <1>1, <1>2

\* A call that ends leaves the others as they are, or is the only one at work.
LEMMA WorkEnds ==
  ASSUME TypeInv, Orderly, NEW a \in Actors, Ends(a), disk' = disk \/ AtWork(op[a])
  PROVE  Orderly'
<1>1. Becomes(a, Idle) /\ lock' = IF lock = a THEN NoWorker ELSE lock
  BY EndsBecomes
<1>2. ~AtWork(Idle)
  BY IdleOnCourse DEF AtWork
<1>3. CASE AtWork(op[a])
  BY <1>1, <1>2, <1>3, WorkGoesOn
<1>4. CASE disk' = disk
  <2> SUFFICES ASSUME NEW b \in Actors, AtWork(op'[b]) PROVE lock' = b /\ Right(op'[b], disk')
    BY DEF Orderly
  <2>1. b # a /\ op'[b] = op[b]
    BY <1>1, <1>2 DEF Becomes
  <2>2. lock = b /\ Right(op[b], disk)
    BY <2>1 DEF Orderly
  <2>3. QED
    BY <1>1, <1>4, <2>1, <2>2
<1>5. QED
  BY <1>3, <1>4

\* A log that was extended ends in the last of the new records.
LEMMA JoinedEnd ==
  ASSUME NEW log \in Seq(AuditRecord), NEW lines \in Seq(AuditRecord), Len(lines) > 0
  PROVE  /\ lines # <<>> /\ log \o lines # <<>>
         /\ lines[Len(lines)] = (log \o lines)[Len(log \o lines)]
<1> DEFINE longer == log \o lines
<1>1. /\ longer \in Seq(AuditRecord) /\ Len(longer) = Len(log) + Len(lines)
      /\ \A i \in 1..Len(lines) : longer[Len(log) + i] = lines[i]
  BY Joined
<1>2. Len(log) \in Nat /\ Len(lines) \in 1..Len(lines)
  OBVIOUS
<1> HIDE DEF longer
<1>3. Len(longer) > 0 /\ longer[Len(longer)] = lines[Len(lines)]
  BY <1>1, <1>2
<1>4. lines # <<>> /\ longer # <<>>
  BY <1>1, <1>3
<1>5. QED
  BY <1>3, <1>4 DEF longer

\* What the write step of a thread that has the files to itself makes of them.
WriterKnows(a) ==
  /\ AtWork(op[a]) /\ disk.anchor \in {NoAnchor, LastRecord(disk.log)}
  /\ op[a].call.batch \in Seq(Decision) /\ op[a].call.batch # <<>>
  /\ op[a].lines = Records(LastRecord(disk.log), op[a].call.batch)
  /\ Len(op[a].lines) = Len(op[a].call.batch)
  /\ ~interrupted \/ disk.anchor = NoAnchor

LEMMA AtTheLog ==
  ASSUME TypeInv, AloneInv, NEW a \in Actors, Due(a, "write")
  PROVE  WriterKnows(a)
<1> DEFINE o == op[a]
<1>1. /\ OnCourse(a, o) /\ o.todo # <<>> /\ Head(o.todo) = "write" /\ AtWork(o)
      /\ disk.log \in Seq(AuditRecord)
  BY DEF Due, TypeInv, AtWork, Disk
<1>2. o.call \in Calls /\ o.call.op = "enqueue" /\ o.call.batch # <<>>
  BY <1>1, StageFollows DEF OnCourse
<1>3. o.call.batch \in Seq(Decision)
  BY <1>2, CallFields
<1>4. Right(o, disk)
  BY <1>1 DEF AloneInv, Orderly
<1>5. LastRecord(disk.log) \in Anchor
  BY <1>1, LastTyped
<1>6. Len(Records(LastRecord(disk.log), o.call.batch)) = Len(o.call.batch)
  BY <1>3, <1>5, RecordsAre
<1>7. ~interrupted \/ disk.anchor = NoAnchor
  BY <1>1, <1>4 DEF AloneInv, Owing, Right
<1>8. QED
  BY <1>1, <1>2, <1>3, <1>4, <1>6, <1>7 DEF Right, WriterKnows

\* A step of a thread keeps the files and what it knows of them in agreement.
LEMMA StepAlone ==
  ASSUME Operators = {}, TypeInv, AloneInv, NEW a \in Actors, ActorStep(a)
  PROVE  AloneInv'
<1> DEFINE o == op[a]
           todo == Tail(o.todo)
<1>1. /\ OnCourse(a, o) /\ o.todo \in Stages /\ o.items \in Queue /\ o.lines \in Seq(AuditRecord)
      /\ disk.log \in Seq(AuditRecord) /\ disk \in Disk /\ disk' \in Disk /\ a \in Workers
      /\ o.todo \in WebStages
  BY StepTyped DEF TypeInv, OnCourse, Operation, Disk, Actors
<1>2. /\ Numbered(disk.log) /\ Anchored(disk) /\ (interrupted => Owing(disk)) /\ Orderly
      /\ AtWork(o) => lock = a /\ Right(o, disk)
  BY DEF AloneInv, Orderly
<1>3. ASSUME disk'.log = disk.log, disk'.anchor = disk.anchor, disk'.spoiled = disk.spoiled,
             interrupted' = interrupted
      PROVE  Numbered(disk'.log) /\ Anchored(disk') /\ (interrupted' => Owing(disk'))
  BY <1>2, <1>3 DEF Anchored, Owing
<1>4. ASSUME NEW call \in Calls, Start(a, call) PROVE AloneInv'
  <2>1. PICK plan : /\ Plan(a, call, plan)
                    /\ Becomes(a, [call |-> call, todo |-> plan, items |-> EmptyQueue, lines |-> <<>>])
    BY <1>4, StartBecomes
  <2> DEFINE begun == [call |-> call, todo |-> plan, items |-> EmptyQueue, lines |-> <<>>]
  <2>2. ~AtWork(begun)
    BY <1>1, <2>1 DEF Plan, AtWork
  <2>3. disk' = disk /\ lock' = lock /\ interrupted' = interrupted
    BY <1>4 DEF Start
  <2>4. Orderly'
    BY <1>2, <2>1, <2>2, <2>3 DEF Orderly, Becomes
  <2>5. QED
    BY <1>3, <2>3, <2>4 DEF AloneInv
<1>5. CASE Enter(a)
  <2>1. Becomes(a, Later(a, o.items, o.lines)) /\ o.todo # <<>> /\ Head(o.todo) = "lock"
    BY <1>5, GoesBecomes DEF Enter, Due
  <2>2. lock = NoWorker /\ lock' = a /\ disk' = disk /\ interrupted' = interrupted
    BY <1>5 DEF Enter
  <2>3. Head(todo) = "load"
    BY <1>1, <2>1, StageFollows
  <2>4. Right(Later(a, o.items, o.lines), disk)
    BY <2>3 DEF Right, Later
  <2>5. \A b \in Actors : ~AtWork(op[b])
    BY <1>2, <2>2, FileStoreAssumption DEF Orderly, Actors
  <2>6. Orderly'
    BY <2>1, <2>2, <2>4, <2>5 DEF Orderly, Becomes
  <2>7. QED
    BY <1>3, <2>2, <2>6 DEF AloneInv
<1>6. CASE Load(a)
  <2>1. /\ disk' = disk /\ interrupted' = interrupted /\ o.todo # <<>> /\ Head(o.todo) = "load"
        /\ AtWork(o)
    BY <1>6 DEF Load, Due, AtWork
  <2>2. CASE Refused(disk.items, o.call)
    <3>1. Orderly'
      BY <1>2, <1>6, <2>1, <2>2, WorkEnds DEF Load
    <3>2. QED
      BY <1>3, <2>1, <3>1 DEF AloneInv
  <2>3. CASE ~Refused(disk.items, o.call)
    <3>1. PICK items : /\ Follows(disk.items, o.call, items)
                       /\ Becomes(a, Later(a, items, o.lines))
      BY <1>6, <2>3, LoadBecomes
    <3>2. Head(todo) \in {"check", "save"}
      BY <1>1, <2>1, StageFollows
    <3>3. Right(Later(a, items, o.lines), disk)
      BY <3>1, <3>2 DEF Right, Later, Follows
    <3>4. lock' = lock
      BY <1>6, <2>3 DEF Load
    <3>5. Orderly'
      BY <1>2, <2>1, <3>1, <3>3, <3>4, WorkGoesOn
    <3>6. QED
      BY <1>3, <2>1, <3>5 DEF AloneInv
  <2>4. QED
    BY <2>2, <2>3
<1>7. CASE CheckLog(a)
  <2>1. /\ disk' = disk /\ interrupted' = interrupted /\ o.todo # <<>> /\ Head(o.todo) = "check"
        /\ AtWork(o)
    BY <1>7 DEF CheckLog, Due, AtWork
  <2>2. CASE Ends(a)
    <3>1. Orderly'
      BY <1>2, <2>1, <2>2, WorkEnds
    <3>2. QED
      BY <1>3, <2>1, <3>1 DEF AloneInv
  <2>3. CASE /\ ~(disk.spoiled \/ disk.anchor \notin {NoAnchor, LastRecord(disk.log)})
             /\ Goes(a, [op[a] EXCEPT !.lines = Chained(a)]) /\ UNCHANGED lock
    <3>1. Becomes(a, Later(a, o.items, Chained(a)))
      BY <2>3, GoesBecomes
    <3>2. Head(todo) = "write"
      BY <1>1, <2>1, StageFollows
    <3>3. Right(Later(a, o.items, Chained(a)), disk)
      BY <1>2, <2>1, <2>3, <3>2 DEF Right, Later, Chained
    <3>4. Orderly'
      BY <1>2, <2>1, <2>3, <3>1, <3>3, WorkGoesOn
    <3>5. QED
      BY <1>3, <2>1, <3>4 DEF AloneInv
  <2>4. QED
    BY <1>7, <2>2, <2>3 DEF CheckLog
<1>8. CASE WriteLog(a)
  <2>1. /\ Becomes(a, Later(a, o.items, o.lines)) /\ o.todo # <<>> /\ Head(o.todo) = "write"
        /\ Due(a, "write") /\ lock' = lock
        /\ disk'.log = disk.log \o o.lines /\ disk'.items = disk.items
        /\ disk'.anchor = disk.anchor
    BY <1>1, <1>8, GoesBecomes DEF WriteLog, Due, Disk
  <2>2. WriterKnows(a)
    BY <2>1, AtTheLog
  <2> DEFINE batch == o.call.batch
  <2>3. /\ o.lines = Records(LastRecord(disk.log), batch) /\ Len(o.lines) = Len(batch)
        /\ batch \in Seq(Decision) /\ Len(batch) > 0 /\ AtWork(o)
        /\ disk.anchor \in {NoAnchor, LastRecord(disk.log)}
    BY <1>1, <2>1, <2>2 DEF WriterKnows, Disk
  <2>4. SubSeq(o.lines, 1, Len(batch)) = o.lines
    BY <1>1, <2>3
  <2>5. Numbered(disk'.log) /\ Anchored(disk') /\ Owing(disk')
    <3>1. Len(batch) \in 0..Len(batch)
      BY <2>3
    <3> HIDE DEF batch
    <3>2. QED
      BY <1>1, <1>2, <2>1, <2>3, <2>4, <3>1, Grown
  <2>6. Head(todo) = "anchor"
    BY <1>1, <2>1, StageFollows
  <2>7. /\ o.lines # <<>> /\ disk'.log # <<>>
        /\ o.lines[Len(o.lines)] = disk'.log[Len(disk'.log)]
    <3>1. Len(o.lines) > 0
      BY <2>3
    <3>2. QED
      BY <1>1, <2>1, <3>1, JoinedEnd
  <2>8. Right(Later(a, o.items, o.lines), disk')
    BY <1>2, <2>1, <2>3, <2>6, <2>7 DEF Right, Later
  <2>9. Orderly'
    BY <1>2, <2>1, <2>3, <2>8, WorkGoesOn
  <2>10. QED
    BY <2>5, <2>9 DEF AloneInv
<1>9. CASE WriteAnchor(a)
  <2>1. /\ o.todo # <<>> /\ Head(o.todo) = "anchor" /\ Proceeds(a) /\ interrupted' = FALSE
        /\ disk'.log = disk.log /\ disk'.items = disk.items /\ disk'.anchor = LastRecord(o.lines)
    BY <1>1, <1>9 DEF WriteAnchor, Due, Disk
  <2>2. AtWork(o) /\ Right(o, disk)
    BY <1>2, <2>1 DEF AtWork
  <2>3. LastRecord(o.lines) = LastRecord(disk.log)
    BY <2>1, <2>2 DEF Right, LastRecord
  <2>4. Anchored(disk')
    BY <1>1, <1>2, <2>1, <2>3, LastIs DEF Anchored
  <2>5. Orderly'
    <3>1. CASE Ends(a)
      BY <1>2, <2>2, <3>1, WorkEnds
    <3>2. CASE /\ Becomes(a, Later(a, o.items, o.lines)) /\ lock' = lock
               /\ todo # <<>>
      <4>1. Head(todo) \in {"load", "save"}
        BY <1>1, <2>1, <3>2, StageFollows
      <4>2. Right(Later(a, o.items, o.lines), disk')
        BY <2>1, <2>2, <4>1 DEF Right, Later
      <4>3. QED
        BY <1>2, <2>2, <3>2, <4>2, WorkGoesOn
    <3>3. QED
      BY <2>1, <3>1, <3>2, ProceedsBecomes
  <2>6. QED
    BY <1>2, <2>1, <2>4, <2>5 DEF AloneInv
<1>10. CASE Save(a)
  <2>1. /\ o.todo # <<>> /\ Head(o.todo) = "save" /\ interrupted' = interrupted
        /\ disk'.log = disk.log /\ disk'.anchor = disk.anchor /\ disk'.spoiled = disk.spoiled
    BY <1>1, <1>10 DEF Save, Due, Disk
  <2>2. Ends(a) /\ AtWork(o)
    BY <1>1, <1>10, <2>1, StageFollows DEF Save, AtWork, Proceeds
  <2>3. Orderly'
    BY <1>2, <2>2, WorkEnds
  <2>4. QED
    BY <1>3, <2>1, <2>3 DEF AloneInv
<1>11. CASE CutShort(a)
  <2>1. PICK k \in 0..Len(o.lines), torn \in BOOLEAN, ended \in BOOLEAN :
          /\ k > 0 \/ torn
          /\ disk' = [disk EXCEPT !.log = @ \o SubSeq(o.lines, 1, k), !.ended = ended,
                                 !.spoiled = @ \/ torn \/ ~disk.ended]
    BY <1>11 DEF CutShort
  <2>2. /\ disk'.log = disk.log \o SubSeq(o.lines, 1, k) /\ disk'.anchor = disk.anchor
        /\ torn => disk'.spoiled
    BY <1>1, <2>1 DEF Disk
  <2>3. WriterKnows(a) /\ Ends(a)
    BY <1>11, AtTheLog DEF CutShort
  <2> DEFINE batch == o.call.batch
  <2>4. /\ o.lines = Records(LastRecord(disk.log), batch) /\ Len(o.lines) = Len(batch)
        /\ batch \in Seq(Decision) /\ AtWork(o)
        /\ disk.anchor \in {NoAnchor, LastRecord(disk.log)}
    BY <2>3 DEF WriterKnows
  <2>5. Numbered(disk'.log) /\ Anchored(disk') /\ Owing(disk')
    <3> DEFINE part == SubSeq(o.lines, 1, k)
    <3>1. k \in 0..Len(batch) /\ (k > 0 \/ disk'.spoiled)
      BY <2>1, <2>2, <2>4
    <3>2. part = SubSeq(Records(LastRecord(disk.log), batch), 1, k)
      BY <2>4
    <3>3. disk'.log = disk.log \o part
      BY <2>2
    <3> HIDE DEF batch, part
    <3>4. QED
      BY <1>1, <1>2, <2>2, <2>4, <3>1, <3>2, <3>3, Grown
  <2>6. Orderly'
    BY <1>2, <2>3, <2>4, WorkEnds
  <2>7. QED
    BY <2>5, <2>6 DEF AloneInv
<1>12. CASE Fail(a)
  <2>1. disk' = disk /\ interrupted' = interrupted /\ Ends(a)
    BY <1>12 DEF Fail
  <2>2. Orderly'
    BY <1>2, <2>1, WorkEnds
  <2>3. QED
    BY <1>3, <2>1, <2>2 DEF AloneInv
<1>13. QED
  BY <1>4, <1>5, <1>6, <1>7, <1>8, <1>9, <1>10, <1>11, <1>12 DEF ActorStep

LEMMA OutsideAlone ==
  ASSUME Operators = {}, TypeInv, AloneInv, Crash \/ ReAnchor
  PROVE  AloneInv'
<1>1. ~AtWork(Idle)
  BY IdleOnCourse DEF AtWork
<1>2. CASE Crash
  <2>1. disk' = disk /\ interrupted' = interrupted /\ \A a \in Actors : op'[a] = Idle
    BY <1>2 DEF Crash, Actors
  <2>2. QED
    BY <1>1, <2>1 DEF AloneInv, Orderly
<1>3. CASE ReAnchor
  <2>1. disk.log \in Seq(AuditRecord) /\ Numbered(disk.log)
    BY DEF TypeInv, Disk, AloneInv
  <2>2. /\ disk'.log = disk.log /\ disk'.anchor = LastRecord(disk.log) /\ interrupted' = FALSE
        /\ op' = op /\ \A a \in Actors : op[a] = Idle
    BY <1>3 DEF ReAnchor, TypeInv, Disk
  <2>3. Anchored(disk')
    BY <2>1, <2>2, LastIs DEF Anchored
  <2>4. QED
    BY <1>1, <2>1, <2>2, <2>3 DEF AloneInv, Orderly
<1>4. QED
  BY <1>2, <1>3

LEMMA AlwaysAlone ==
  ASSUME Operators = {}
  PROVE  Spec => []AloneInv
<1>1. Init => AloneInv
  BY IdleOnCourse DEF Init, AloneInv, Orderly, AtWork, Numbered, Anchored
<1>2. TypeInv /\ AloneInv /\ [Next]_vars => AloneInv'
  <2>1. ASSUME TypeInv, AloneInv, Next PROVE AloneInv'
    BY <2>1, StepAlone, OutsideAlone DEF Next, ActorStep
  <2>2. ASSUME AloneInv, UNCHANGED vars PROVE AloneInv'
    BY <2>2 DEF vars, AloneInv, Orderly
  <2>3. QED
    BY <2>1, <2>2
<1>3. QED
  BY <1>1, <1>2, AlwaysTyped, PTL DEF Spec

\* A web process that has its files to itself never anchors more than was written to
\* the file of the log: AuditLog.append syncs the lines before it writes their anchor,
\* and write_anchor reads the log it anchors.
THEOREM AnchorNeverLeads ==
  ASSUME Operators = {}
  PROVE  Spec => []AnchorDescribesAPrefix
<1>1. TypeInv /\ AloneInv => AnchorDescribesAPrefix
  <2> SUFFICES ASSUME TypeInv, AloneInv, disk.anchor # NoAnchor
               PROVE  /\ disk.anchor.records <= Len(disk.log)
                      /\ disk.anchor = LastRecord(SubSeq(disk.log, 1, disk.anchor.records))
    BY DEF AnchorDescribesAPrefix
  <2> DEFINE n == disk.anchor.records
             part == SubSeq(disk.log, 1, n)
  <2>1. disk.log \in Seq(AuditRecord) /\ n \in Nat
    BY DEF TypeInv, Disk, Anchor
  <2>2. n <= Len(disk.log) /\ disk.anchor = AnchorUpTo(disk.log, n)
    BY DEF AloneInv, Anchored
  <2>3. n \in 0..Len(disk.log)
    BY <2>1, <2>2
  <2>4. /\ part \in Seq(AuditRecord) /\ Len(part) = n
        /\ \A i \in 1..n : part[i] = disk.log[i]
    BY <2>1, <2>3, PartTyped
  <2> HIDE DEF part
  <2>5. LastRecord(part) = AnchorUpTo(disk.log, n)
    <3>1. CASE n = 0
      BY <2>4, <3>1 DEF LastRecord, AnchorUpTo
    <3>2. CASE n # 0
      BY <2>1, <2>4, <3>2 DEF LastRecord, AnchorUpTo
    <3>3. QED
      BY <3>1, <3>2
  <2>6. QED
    BY <2>2, <2>5 DEF part
<1>2. QED
  BY <1>1, AlwaysTyped, AlwaysAlone, PTL

\* Nothing is added to the file of an anchored log after an append that was
\* interrupted, until somebody re-anchors it: append refuses a log that cannot be read
\* or does not match its anchor, and an interrupted append leaves either a spoiled line
\* or more records than the anchor has.
THEOREM InterruptionStops ==
  ASSUME Operators = {}
  PROVE  Spec => InterruptedLogIsNotExtended
<1> DEFINE File(d) == <<d.log, d.ended, d.spoiled>>
<1>1. ASSUME TypeInv, AloneInv, [Next]_vars, interrupted, disk.anchor # NoAnchor
      PROVE  File(disk') = File(disk)
  <2>1. \A a \in Actors : ~Due(a, "write")
    BY <1>1, AtTheLog DEF WriterKnows
  <2>2. disk \in Disk
    BY <1>1 DEF TypeInv
  <2>3. ASSUME NEW a \in Actors, ActorStep(a) PROVE File(disk') = File(disk)
    BY <2>1, <2>2, <2>3
    DEF ActorStep, Start, Enter, Load, CheckLog, WriteLog, WriteAnchor, Save, CutShort, Fail, Disk
  <2>4. CASE Crash \/ ReAnchor
    BY <2>2, <2>4 DEF Crash, ReAnchor, Disk
  <2>5. CASE UNCHANGED vars
    BY <2>5 DEF vars
  <2>6. QED
    BY <1>1, <2>3, <2>4, <2>5 DEF Next, ActorStep
<1>2. TypeInv /\ AloneInv /\ [Next]_vars =>
        [interrupted /\ disk.anchor # NoAnchor =>
           disk'.log = disk.log /\ disk'.ended = disk.ended /\ disk'.spoiled = disk.spoiled]_vars
  BY <1>1
<1>3. QED
  BY <1>2, AlwaysTyped, AlwaysAlone, PTL DEF Spec, InterruptedLogIsNotExtended

\* No verdict is lost to a stale copy while only threads of one process work on the
\* files: FileStore holds its lock from the read of the queue to its save.
THEOREM VerdictsStay ==
  ASSUME Operators = {}
  PROVE  Spec => VerdictsAreKept
<1>1. ASSUME TypeInv, AloneInv, [Next]_vars, NEW r \in InState(disk.items, "resolved")
      PROVE  disk'.items[r] = disk.items[r]
  <2>1. disk \in Disk
    BY <1>1 DEF TypeInv
  <2>2. ASSUME NEW a \in Actors, Save(a) PROVE disk'.items[r] = disk.items[r]
    <3>1. /\ op[a].todo # <<>> /\ Head(op[a].todo) = "save" /\ AtWork(op[a])
          /\ disk'.items = op[a].items
      BY <2>1, <2>2 DEF Save, Due, AtWork, Disk
    <3>2. Right(op[a], disk)
      BY <1>1, <3>1 DEF AloneInv, Orderly
    <3>3. QED
      BY <1>1, <3>1, <3>2 DEF Right
  <2>3. ASSUME NEW a \in Actors, ActorStep(a), ~Save(a) PROVE disk'.items = disk.items
    BY <2>1, <2>3
    DEF ActorStep, Start, Enter, Load, CheckLog, WriteLog, WriteAnchor, CutShort, Fail, Disk
  <2>4. CASE Crash \/ ReAnchor
    BY <2>1, <2>4 DEF Crash, ReAnchor, Disk
  <2>5. CASE UNCHANGED vars
    BY <2>5 DEF vars
  <2>6. QED
    BY <1>1, <2>2, <2>3, <2>4, <2>5 DEF Next, ActorStep
<1>2. TypeInv /\ AloneInv /\ [Next]_vars =>
        [\A r \in InState(disk.items, "resolved") : disk'.items[r] = disk.items[r]]_vars
  BY <1>1
<1>3. QED
  BY <1>2, AlwaysTyped, AlwaysAlone, PTL DEF Spec, VerdictsAreKept

\* "An interrupted append is reported as corruption/staleness rather than silently
\* accepted" does hold of a log that was anchored before: it does not verify.  (Of
\* the very first append it does not: run file_store_interrupted.)
THEOREM ReportedOnceAnchored ==
  ASSUME Operators = {}
  PROVE  Spec => [](interrupted /\ disk.anchor # NoAnchor => ~Verified)
<1>1. TypeInv /\ AloneInv => (interrupted /\ disk.anchor # NoAnchor => ~Verified)
  <2> SUFFICES ASSUME TypeInv, AloneInv, interrupted, disk.anchor # NoAnchor, Verified
               PROVE  FALSE
    OBVIOUS
  <2> DEFINE log == disk.log
             anchor == disk.anchor
  <2>1. ~disk.spoiled /\ ChainIntact(log) /\ Verdict(log, anchor) = "intact"
    BY DEF Verified
  <2>2. log \in Seq(AuditRecord) /\ Len(log) \in Nat
        /\ anchor = [records |-> anchor.records, head_hash |-> anchor.head_hash]
        /\ anchor.records \in Nat
    BY DEF TypeInv, Disk, Anchor
  <2>3. anchor # LastRecord(log)
    BY <2>1 DEF AloneInv, Owing
  <2> HIDE DEF log, anchor
  <2>4. ~(Len(log) < anchor.records) /\ ~(Len(log) > anchor.records)
        /\ HashBefore(log, Len(log) + 1) = anchor.head_hash
    BY <2>1 DEF Verdict
  <2>5. Len(log) = anchor.records
    BY <2>2, <2>4
  <2>6. CASE log = <<>>
    BY <2>2, <2>3, <2>4, <2>5, <2>6 DEF LastRecord, GenesisAnchor, HashBefore
  <2>7. CASE log # <<>>
    <3>1. Len(log) \in 1..Len(log) /\ log[Len(log)].sequence = Len(log)
      BY <2>1, <2>2, <2>7 DEF ChainIntact
    <3>2. HashBefore(log, Len(log) + 1) = log[Len(log)].record_hash
      BY <3>1 DEF HashBefore
    <3>3. QED
      BY <2>2, <2>3, <2>4, <2>5, <2>7, <3>1, <3>2 DEF LastRecord, AnchorAt
  <2>8. QED
    BY <2>6, <2>7
<1>2. QED
  BY <1>1, AlwaysTyped, AlwaysAlone, PTL
=============================================================================
