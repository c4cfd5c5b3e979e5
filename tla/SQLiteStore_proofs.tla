-------------------------- MODULE SQLiteStore_proofs --------------------------
(***************************************************************************)
(* What the runs check of SQLiteStore on small instances, proved for every *)
(* number of workers, reviews and batches.                                 *)
(***************************************************************************)
EXTENDS SQLiteStore, FiniteSetTheorems, TLAPS

-----------------------------------------------------------------------------
(* The chain.                                                              *)

\* A log verifies against its anchor exactly when the chain is intact and the
\* anchor gives its length and the hash it ends in (verify_records).
LEMMA IntactMeans ==
  ASSUME NEW log, NEW anchor
  PROVE  Verdict(log, anchor) = "intact" <=>
           /\ ChainIntact(log)
           /\ ~(Len(log) < anchor.records) /\ ~(Len(log) > anchor.records)
           /\ HashBefore(log, Len(log) + 1) = anchor.head_hash
BY DEF Verdict

\* The empty log of a new database verifies.
LEMMA EmptyIntact == Verdict(<<>>, GenesisAnchor) = "intact"
BY IntactMeans DEF ChainIntact, HashBefore, GenesisAnchor

\* The record made for a decision is a record.
LEMMA NewRecordTyped ==
  ASSUME NEW anchor \in Anchor, NEW d \in Decision
  PROVE  NewRecord(anchor.records + 1, d, anchor.head_hash) \in AuditRecord
<1>1. <<anchor.records + 1, d>> \in Payload
  BY DEF Payload, Anchor
<1>2. RecordHash(anchor.head_hash, anchor.records + 1, d) \in Hash
  BY <1>1 DEF RecordHash, Hash, Anchor
<1>3. QED
  BY <1>2 DEF NewRecord, AuditRecord, Anchor

\* Appending the next record to a log that verifies gives a log that verifies
\* against the anchor advanced to that record (SQLiteStore.enqueue).
LEMMA AppendIntact ==
  ASSUME NEW log \in Seq(AuditRecord), NEW anchor \in Anchor,
         Verdict(log, anchor) = "intact", NEW d \in Decision
  PROVE  LET record == NewRecord(anchor.records + 1, d, anchor.head_hash) IN
         /\ record \in AuditRecord
         /\ Verdict(Append(log, record), AnchorAt(record)) = "intact"
<1> DEFINE record == NewRecord(anchor.records + 1, d, anchor.head_hash)
           longer == Append(log, record)
<1>1. /\ record.sequence = anchor.records + 1
      /\ record.previous_hash = anchor.head_hash
      /\ ContentIntact(record)
  BY DEF NewRecord, ContentIntact
<1>2. record \in AuditRecord
  BY NewRecordTyped
<1>3. /\ ChainIntact(log) /\ Len(log) = anchor.records
      /\ HashBefore(log, Len(log) + 1) = anchor.head_hash
  BY IntactMeans DEF Anchor
<1>4. /\ longer \in Seq(AuditRecord) /\ Len(longer) = Len(log) + 1
      /\ \A i \in 1..Len(log) : longer[i] = log[i]
      /\ longer[Len(log) + 1] = record
  BY <1>2
<1>5. \A i \in 1..(Len(log) + 1) : HashBefore(longer, i) = HashBefore(log, i)
  BY <1>4 DEF HashBefore
<1>6. ChainIntact(longer)
  BY <1>1, <1>3, <1>4, <1>5 DEF ChainIntact
<1>7. HashBefore(longer, Len(longer) + 1) = record.record_hash
  BY <1>4 DEF HashBefore
<1> HIDE DEF record, longer
<1>8. Verdict(longer, AnchorAt(record)) = "intact"
  BY <1>1, <1>3, <1>4, <1>6, <1>7, IntactMeans DEF Anchor, AnchorAt
<1>9. QED
  BY <1>2, <1>8 DEF record, longer

-----------------------------------------------------------------------------
(* The queue.                                                              *)

\* Adding a decision to a queue keeps it a queue.
LEMMA EnqueueTyped ==
  ASSUME NEW items \in Queue, NEW d \in Decision, NEW now \in Times
  PROVE  Enqueue(items, d, now) \in Queue
<1>1. NewItem(d, now) \in QueueItem
  BY DEF NewItem, QueueItem, QueueState
<1>2. d.review_id \in Reviews /\ d.requires_human_review \in BOOLEAN
  BY DEF Decision
<1>3. QED
  BY <1>1, <1>2 DEF Enqueue, Queue

\* Adding a decision to a queue that agrees with a log, and the record of that
\* decision to the log, keeps them in agreement and loses no item.
LEMMA EnqueueMatches ==
  ASSUME NEW items \in Queue, NEW log \in Seq(AuditRecord),
         NEW d \in Decision, NEW now \in Times,
         NEW record \in AuditRecord, record.decision = d
  PROVE  QueueMatchesLog(items, log) =>
           QueueMatchesLog(Enqueue(items, d, now), Append(log, record))
<1> DEFINE later == Enqueue(items, d, now)
           longer == Append(log, record)
<1>1. NewItem(d, now) \in QueueItem
  BY DEF NewItem, QueueItem, QueueState
<1>2. d.review_id \in Reviews /\ d.requires_human_review \in BOOLEAN
  BY DEF Decision
<1>3. later \in Queue
  BY EnqueueTyped
<1>4. /\ longer \in Seq(AuditRecord) /\ Len(longer) = Len(log) + 1
      /\ \A i \in 1..Len(log) : longer[i] = log[i]
      /\ longer[Len(log) + 1] = record
  OBVIOUS
<1>5. \A r \in Reviews :
        \/ later[r] = items[r]
        \/ r = d.review_id /\ later[r] = NewItem(d, now)
  BY <1>2 DEF Enqueue, Queue
<1>6. d.requires_human_review => later[d.review_id] # NoItem
  BY <1>1, <1>2, NoItemAssumption DEF Enqueue, Queue
<1>7. Queued(items) \subseteq Queued(later)
  BY <1>1, <1>5, NoItemAssumption DEF Queued
<1>8. ASSUME QueueMatchesLog(items, log) PROVE QueueMatchesLog(later, longer)
  <2> HIDE DEF later, longer
  <2>1. ASSUME NEW r \in Queued(later)
        PROVE  \E i \in 1..Len(longer) : longer[i].decision = later[r].decision
    <3>1. CASE later[r] = items[r]
      <4>1. r \in Queued(items)
        BY <2>1, <3>1 DEF Queued
      <4>2. PICK i \in 1..Len(log) : log[i].decision = items[r].decision
        BY <1>8, <4>1 DEF QueueMatchesLog
      <4>3. QED
        BY <4>2, <3>1, <1>4
    <3>2. CASE later[r] = NewItem(d, now)
      BY <3>2, <1>4 DEF NewItem
    <3>3. QED
      BY <3>1, <3>2, <1>5, <2>1 DEF Queued
  <2>2. ASSUME NEW i \in 1..Len(longer), longer[i].decision.requires_human_review
        PROVE  longer[i].decision.review_id \in Queued(later)
    <3>1. CASE i \in 1..Len(log)
      BY <3>1, <2>2, <1>8, <1>4, <1>7 DEF QueueMatchesLog
    <3>2. CASE i = Len(log) + 1
      BY <3>2, <2>2, <1>2, <1>4, <1>6 DEF Queued
    <3>3. QED
      BY <3>1, <3>2, <1>4
  <2>3. QED
    BY <2>1, <2>2 DEF QueueMatchesLog
<1>9. QED
  BY <1>3, <1>4, <1>8

\* A queue operation that keeps every item and what it was queued for keeps the
\* queue in agreement with the log.
LEMMA MovesMatch ==
  ASSUME NEW before \in Queue, NEW after \in Queue, NEW log,
         Queued(after) = Queued(before),
         \A r \in Queued(before) : after[r].decision = before[r].decision
  PROVE  QueueMatchesLog(before, log) => QueueMatchesLog(after, log)
BY DEF QueueMatchesLog

\* Claiming the front of the queue keeps every item and its decision.
LEMMA ClaimFrontKeeps ==
  ASSUME NEW items \in Queue, NEW m \in Moderators, NEW n
  PROVE  LET after == ClaimFront(items, m, n) IN
         /\ after \in Queue
         /\ Queued(after) = Queued(items)
         /\ \A r \in Queued(items) : after[r].decision = items[r].decision
<1> DEFINE front == Slice(items, InState(items, "pending"), 0, n)
           after == ClaimFront(items, m, n)
<1>1. \A r \in front : r \in Reviews /\ items[r] \in QueueItem
  BY DEF Slice, InState, Queue
<1>2. \A r \in front : /\ Claim(items[r], m) \in QueueItem
                       /\ Claim(items[r], m).decision = items[r].decision
  BY <1>1 DEF Claim, QueueItem, QueueState
<1> HIDE DEF front
<1>3. \A r \in Reviews :
        after[r] = IF r \in front THEN Claim(items[r], m) ELSE items[r]
  BY DEF ClaimFront, front
<1>4. after \in Queue
  BY <1>2, <1>3 DEF ClaimFront, Queue, front
<1>5. QED
  BY <1>1, <1>2, <1>3, <1>4, NoItemAssumption DEF Queued, front

\* Releasing or resolving one queued item keeps every item and its decision.
LEMMA OneItemKeeps ==
  ASSUME NEW items \in Queue, NEW r \in Queued(items),
         NEW item \in QueueItem, item.decision = items[r].decision
  PROVE  LET after == [items EXCEPT ![r] = item] IN
         /\ after \in Queue
         /\ Queued(after) = Queued(items)
         /\ \A q \in Queued(items) : after[q].decision = items[q].decision
<1>1. r \in Reviews
  BY DEF Queued
<1>2. QED
  BY <1>1, NoItemAssumption DEF Queue, Queued

\* What resolving, or releasing, makes of an item is an item for the same decision.
LEMMA ResolveTyped ==
  ASSUME NEW item \in QueueItem, NEW m \in Moderators, NEW o \in Outcomes
  PROVE  /\ Resolve(item, m, o) \in QueueItem
         /\ Resolve(item, m, o).decision = item.decision
BY DEF Resolve, QueueItem, QueueState

\* The same of a release.
LEMMA ReleaseTyped ==
  ASSUME NEW item \in QueueItem
  PROVE  /\ Release(item) \in QueueItem
         /\ Release(item).decision = item.decision
BY DEF Release, QueueItem, QueueState

-----------------------------------------------------------------------------
(* Type correctness.                                                       *)

\* A worker at rest, and the database it was given, are of their types.
LEMMA IdleTyped == EmptyDatabase \in Database /\ Idle \in Transaction
<1>1. EmptyDatabase \in Database
  BY DEF EmptyDatabase, Database, EmptyQueue, Queue, GenesisAnchor, Anchor,
         GenesisHash, Hash
<1>2. QED
  BY <1>1 DEF Idle, Transaction, GenesisAnchor, Anchor, GenesisHash, Hash, Statuses

\* A worker whose transaction becomes another one of the type keeps the type.
LEMMA BecomesTyped ==
  ASSUME TypeOK, NEW w \in Workers, NEW t \in Transaction, Becomes(w, t)
  PROVE  txn' \in [Workers -> Transaction]
BY DEF Becomes, TypeOK

\* Ending a call leaves every worker with a well-formed transaction.
LEMMA AnswerTyped ==
  ASSUME TypeOK, NEW w \in Workers, NEW status \in Statuses, Answer(w, status)
  PROVE  txn' \in [Workers -> Transaction]
<1>1. [Idle EXCEPT !.pc = "answered", !.status = status] \in Transaction
  BY IdleTyped DEF Transaction
<1>2. QED
  BY <1>1, BecomesTyped DEF Answer

\* So does rolling back, which touches neither database nor damage.
LEMMA RollbackTyped ==
  ASSUME TypeOK, NEW w \in Workers, NEW status \in Statuses, Rollback(w, status)
  PROVE  TypeOK'
BY AnswerTyped DEF Rollback, Unlock, TypeOK

\* An updated queue makes a well-formed view.
LEMMA SaveTyped ==
  ASSUME TypeOK, NEW w \in Workers, NEW items \in Queue, Save(w, items),
         UNCHANGED <<db, writer, damage>>
  PROVE  TypeOK'
<1>1. txn[w] \in Transaction
  BY DEF TypeOK
<1>2. [txn[w] EXCEPT !.view.items = items, !.pc = "committing"] \in Transaction
  BY <1>1 DEF Transaction, Database
<1>3. QED
  BY <1>2, BecomesTyped DEF Save, TypeOK

\* What a call carries, by its kind.
LEMMA CallFields ==
  ASSUME NEW call \in Calls \cup {NoCall}
  PROVE  /\ call.op = "enqueue" => call.batch \in Batches
         /\ call.op = "claim" => call.moderator \in Moderators
         /\ call.op = "resolve" => call.moderator \in Moderators
         /\ call.op = "resolve" => call.outcome \in Outcomes
BY DEF Calls, NoCall

\* The decision whose turn it is, while a batch is inserted, and its record.
LEMMA Insertion ==
  ASSUME TypeOK, NEW w \in Workers, txn[w].call.op = "enqueue", HasCurrent(txn[w])
  PROVE  LET t == txn[w]
             record == NewRecord(t.tail.records + 1, Current(t), t.tail.head_hash)
         IN /\ Current(t) \in Decision
            /\ record \in AuditRecord /\ record.decision = Current(t)
<1> DEFINE t == txn[w]
<1>1. t \in Transaction
  BY DEF TypeOK
<1>2. /\ t.call \in Calls \cup {NoCall}
      /\ t.done < Len(t.call.batch) /\ t.done \in Nat /\ t.tail \in Anchor
  BY <1>1 DEF Transaction, HasCurrent
<1>3. t.call.batch \in Batches
  BY <1>2, CallFields
<1>4. t.call.batch \in Seq(Decision)
  BY <1>3, StoreAssumption
<1>5. Current(t) \in Decision
  BY <1>2, <1>4 DEF Current
<1>6. QED
  BY <1>2, <1>5, NewRecordTyped DEF NewRecord

\* Every step of a running call keeps the types.
LEMMA StepTyped ==
  ASSUME TypeOK, NEW w \in Workers, Step(w)
  PROVE  TypeOK'
<1> DEFINE t == txn[w]
<1>1. t \in Transaction /\ t.view \in Database /\ t.call \in Calls \cup {NoCall}
  BY DEF TypeOK, Transaction
<1>2. CASE BeginWrite(w)
  <2>1. [t EXCEPT !.pc = "begun", !.view = db] \in Transaction
    BY <1>1 DEF Transaction, TypeOK
  <2>2. QED
    BY <1>2, <2>1, BecomesTyped DEF BeginWrite, TypeOK
<1>3. CASE BeginRead(w)
  <2>1. [t EXCEPT !.pc = "begun", !.view = db] \in Transaction
    BY <1>1 DEF Transaction, TypeOK
  <2>2. QED
    BY <1>3, <2>1, BecomesTyped DEF BeginRead, TypeOK
<1>4. CASE Busy(w)
  BY <1>4, AnswerTyped DEF Busy, TypeOK, Statuses
<1>5. CASE StartEnqueue(w)
  <2>1. CASE LastRecord(View(w).log) = View(w).head
    <3>1. [t EXCEPT !.pc = "inserting", !.tail = View(w).head] \in Transaction
      BY <1>1 DEF Transaction, Database, View
    <3>2. QED
      BY <1>5, <2>1, <3>1, BecomesTyped DEF StartEnqueue, TypeOK
  <2>2. CASE LastRecord(View(w).log) # View(w).head
    <3>1. Rollback(w, "refused")
      BY <1>5, <2>2 DEF StartEnqueue
    <3>2. QED
      BY <3>1, RollbackTyped DEF Statuses
  <2>3. QED
    BY <2>1, <2>2
<1>6. CASE InsertRecord(w)
  <2> DEFINE record == NewRecord(t.tail.records + 1, Current(t), t.tail.head_hash)
             after == [t EXCEPT !.view.log = Append(t.view.log, record),
                                !.tail = AnchorAt(record), !.pc = "queueing"]
  <2>1. record \in AuditRecord
    BY <1>6, Insertion DEF InsertRecord, At
  <2>2. Becomes(w, after) /\ UNCHANGED <<db, writer, damage>>
    BY <1>6 DEF InsertRecord
  <2> HIDE DEF record
  <2>3. AnchorAt(record) \in Anchor /\ Append(t.view.log, record) \in Seq(AuditRecord)
    BY <1>1, <2>1 DEF AnchorAt, AuditRecord, Anchor, Database
  <2>4. after \in Transaction
    BY <1>1, <2>3 DEF Transaction, Database
  <2>5. QED
    BY <2>2, <2>4, BecomesTyped DEF TypeOK
<1>6a. CASE QueueDecision(w)
  <2>1. Current(t) \in Decision
    BY <1>6a, Insertion DEF QueueDecision, At
  <2>2. PICK now \in Times :
          Becomes(w, [t EXCEPT !.view.items = Enqueue(t.view.items, Current(t), now),
                               !.done = @ + 1, !.pc = "inserting"])
    BY <1>6a DEF QueueDecision
  <2> DEFINE items == Enqueue(t.view.items, Current(t), now)
             after == [t EXCEPT !.view.items = items, !.done = t.done + 1,
                                !.pc = "inserting"]
  <2>3. items \in Queue /\ t.done + 1 \in Nat
    BY <1>1, <2>1, EnqueueTyped DEF Database, Transaction
  <2> HIDE DEF items
  <2>4. after \in Transaction
    BY <1>1, <2>3 DEF Transaction, Database
  <2>5. Becomes(w, after)
    BY <2>2 DEF items
  <2>6. QED
    BY <1>6a, <2>4, <2>5, BecomesTyped DEF QueueDecision, TypeOK
<1>7. CASE UpdateHead(w)
  <2>1. [t EXCEPT !.view.head = t.tail, !.pc = "committing"] \in Transaction
    BY <1>1 DEF Transaction, Database
  <2>2. QED
    BY <1>7, <2>1, BecomesTyped DEF UpdateHead, TypeOK
<1>8. CASE ClaimItems(w)
  <2>1. t.call.moderator \in Moderators
    BY <1>1, <1>8, CallFields DEF ClaimItems, At
  <2>2. ClaimFront(t.view.items, t.call.moderator, t.call.limit) \in Queue
    BY <1>1, <2>1, ClaimFrontKeeps DEF Database
  <2>3. QED
    BY <1>8, <2>2, SaveTyped DEF ClaimItems, View
<1>9. CASE ReleaseItem(w)
  <2> DEFINE r == t.call.review_id
             items == View(w).items
  <2>1. CASE r \in InState(items, "claimed")
    <3>1. items \in Queue /\ r \in Queued(items) /\ items[r] \in QueueItem
      BY <1>1, <2>1 DEF InState, Queued, View, Database, Queue
    <3>2. [items EXCEPT ![r] = Release(items[r])] \in Queue
      BY <3>1, ReleaseTyped, OneItemKeeps
    <3>3. QED
      BY <1>9, <2>1, <3>2, SaveTyped DEF ReleaseItem
  <2>2. CASE ~(r \in InState(items, "claimed"))
    <3>1. Rollback(w, "refused")
      BY <1>9, <2>2 DEF ReleaseItem
    <3>2. QED
      BY <3>1, RollbackTyped DEF Statuses
  <2>3. QED
    BY <2>1, <2>2
<1>10. CASE ResolveItem(w)
  <2> DEFINE r == t.call.review_id
             items == View(w).items
             open == Queued(items) \ InState(items, "resolved")
             item == Resolve(items[r], t.call.moderator, t.call.outcome)
  <2>1. CASE r \in open
    <3>1. items \in Queue /\ r \in Queued(items) /\ items[r] \in QueueItem
      BY <1>1, <2>1 DEF Queued, View, Database, Queue
    <3>2. t.call.moderator \in Moderators /\ t.call.outcome \in Outcomes
      BY <1>1, <1>10, CallFields DEF ResolveItem, At
    <3>3. [items EXCEPT ![r] = item] \in Queue
      BY <3>1, <3>2, ResolveTyped, OneItemKeeps
    <3>4. QED
      BY <1>10, <2>1, <3>3, SaveTyped DEF ResolveItem
  <2>2. CASE ~(r \in open)
    <3>1. Rollback(w, "refused")
      BY <1>10, <2>2 DEF ResolveItem
    <3>2. QED
      BY <3>1, RollbackTyped DEF Statuses
  <2>3. QED
    BY <2>1, <2>2
<1>11. CASE ReadPage(w)
  <2> DEFINE asked == t.call.page
             page == Slice(View(w).items, Matching(View(w).items, asked.state),
                           asked.offset, asked.limit)
  <2>1. page \subseteq Reviews
    BY DEF Slice, Matching, Queued, InState
  <2> HIDE DEF page
  <2>2. [t EXCEPT !.page = page, !.pc = "reading"] \in Transaction
    BY <1>1, <2>1 DEF Transaction
  <2>3. QED
    BY <1>11, <2>2, BecomesTyped DEF ReadPage, TypeOK, page
<1>12. CASE ReadStats(w)
  <2> DEFINE matching == Matching(View(w).items, t.call.page.state)
             total == Cardinality(matching)
  <2>1. matching \subseteq Reviews
    BY DEF Matching, Queued, InState
  <2>2. total \in Nat
    BY <2>1, QueueAssumption, FS_Subset, FS_CardinalityType
  <2> HIDE DEF total
  <2>3. [t EXCEPT !.total = total, !.status = "ok", !.view = EmptyDatabase,
                  !.pc = "answered"] \in Transaction
    BY <1>1, <2>2, IdleTyped DEF Transaction, Statuses
  <2>4. QED
    BY <1>12, <2>3, BecomesTyped DEF ReadStats, TypeOK, total
<1>13. CASE ReadAnchor(w)
  <2>1. [t EXCEPT !.tail = View(w).head, !.pc = "reading"] \in Transaction
    BY <1>1 DEF View, Transaction, Database
  <2>2. QED
    BY <1>13, <2>1, BecomesTyped DEF ReadAnchor, TypeOK
<1>14. CASE ReadRecords(w)
  <2> DEFINE verdict == Verdict(View(w).log, t.tail)
  <2>1. verdict \in Verdicts
    BY DEF Verdict, Verdicts
  <2> HIDE DEF verdict
  <2>2. [Idle EXCEPT !.pc = "answered", !.status = "ok", !.verdict = verdict]
          \in Transaction
    BY <2>1, IdleTyped DEF Transaction, Statuses
  <2>3. QED
    BY <1>14, <2>2, BecomesTyped DEF ReadRecords, TypeOK, verdict
<1>15. CASE Commit(w)
  BY <1>1, <1>15, AnswerTyped DEF Commit, Unlock, View, TypeOK, Statuses
<1>16. CASE Return(w)
  BY <1>16, IdleTyped, BecomesTyped DEF Return, TypeOK
<1>17. QED
  BY <1>2, <1>3, <1>4, <1>5, <1>6, <1>6a, <1>7, <1>8, <1>9, <1>10, <1>11, <1>12,
     <1>13, <1>14, <1>15, <1>16 DEF Step

\* A new call, a failed statement or a dead process keeps the types.
LEMMA OutsideTyped ==
  ASSUME TypeOK, NEW w \in Workers,
         (\E call \in Calls : Request(w, call)) \/ Fail(w) \/ Crash(w)
  PROVE  TypeOK'
<1>1. ASSUME NEW call \in Calls, Request(w, call) PROVE TypeOK'
  <2>1. [Idle EXCEPT !.pc = "waiting", !.call = call] \in Transaction
    BY IdleTyped DEF Transaction
  <2>2. QED
    BY <1>1, <2>1, BecomesTyped DEF Request, TypeOK
<1>2. CASE Fail(w)
  BY <1>2, RollbackTyped DEF Fail, Statuses
<1>3. CASE Crash(w)
  BY <1>3, IdleTyped, BecomesTyped DEF Crash, Unlock, TypeOK
<1>4. QED
  BY <1>1, <1>2, <1>3

\* A log that loses or changes a record is still a sequence of records.
LEMMA AccidentTyped ==
  ASSUME TypeOK, Accident
  PROVE  TypeOK'
<1> DEFINE log == db.log
<1>1. db \in Database /\ log \in Seq(AuditRecord) /\ Len(log) \in Nat
  BY DEF TypeOK, Database
<1>2. PICK i \in 1..Len(log) :
        LoseRow(i) \/ \E decision \in Decision : EditRow(i, decision)
  BY DEF Accident
<1>3. CASE LoseRow(i)
  <2> DEFINE shorter == [j \in 1..(Len(log) - 1) |->
                           IF j < i THEN log[j] ELSE log[j + 1]]
  <2>1. \A j \in 1..(Len(log) - 1) : shorter[j] \in AuditRecord
    BY <1>1
  <2>2. Len(log) - 1 \in Nat
    BY <1>1, <1>2
  <2>3. shorter \in [1..(Len(log) - 1) -> AuditRecord]
    BY <2>1
  <2> HIDE DEF shorter
  <2>4. shorter \in Seq(AuditRecord)
    BY <2>2, <2>3
  <2>5. db' = [db EXCEPT !.log = shorter]
    BY <1>3 DEF LoseRow, shorter
  <2>6. QED
    BY <1>1, <1>3, <2>4, <2>5 DEF LoseRow, TypeOK, Database
<1>4. ASSUME NEW decision \in Decision, EditRow(i, decision) PROVE TypeOK'
  <2> DEFINE edited == [log EXCEPT ![i].decision = decision]
  <2>0. log[i] \in AuditRecord
    BY <1>1, <1>2
  <2>1. [log[i] EXCEPT !.decision = decision] \in AuditRecord
    BY <2>0 DEF AuditRecord
  <2>2. edited \in Seq(AuditRecord)
    BY <1>1, <1>2, <2>1
  <2> HIDE DEF edited
  <2>3. db' = [db EXCEPT !.log = edited]
    BY <1>4 DEF EditRow, edited
  <2>4. QED
    BY <1>1, <1>4, <2>2, <2>3 DEF EditRow, TypeOK, Database
<1>5. QED
  BY <1>2, <1>3, <1>4

\* Every variable keeps its type: the store never holds a malformed item, record
\* or anchor, whatever runs against it.
THEOREM TypeCorrect == Spec => []TypeOK
<1>1. Init => TypeOK
  BY IdleTyped DEF Init, TypeOK
<1>2. TypeOK /\ [Next]_vars => TypeOK'
  <2> SUFFICES ASSUME TypeOK, [Next]_vars PROVE TypeOK'
    OBVIOUS
  <2>1. CASE Accident
    BY <2>1, AccidentTyped
  <2>2. ASSUME NEW w \in Workers, Step(w) PROVE TypeOK'
    BY <2>2, StepTyped
  <2>3. ASSUME NEW w \in Workers,
               (\E call \in Calls : Request(w, call)) \/ Fail(w) \/ Crash(w)
        PROVE  TypeOK'
    BY <2>3, OutsideTyped
  <2>4. CASE UNCHANGED vars
    BY <2>4 DEF vars, TypeOK
  <2>5. QED
    BY <2>1, <2>2, <2>3, <2>4 DEF Next
<1>3. QED
  BY <1>1, <1>2, PTL DEF Spec

-----------------------------------------------------------------------------
(* The log, its head and the queue always agree.  The strengthening says   *)
(* the same of every connection's private view: while a batch is being     *)
(* inserted the running sequence and hash stand in for the head that has   *)
(* not been updated yet, and between its two INSERTs a decision is logged  *)
(* and still to be queued.  No lock is needed for this: whichever view is  *)
(* committed, the database agrees with itself.                             *)

SoundTransaction(t) ==
  /\ t.pc # "queueing" => QueueMatchesLog(t.view.items, t.view.log)
  /\ t.pc = "queueing" =>
       \A now \in Times :
         QueueMatchesLog(Enqueue(t.view.items, Current(t), now), t.view.log)
  /\ Verdict(t.view.log, IF t.pc \in {"inserting", "queueing"} THEN t.tail
                         ELSE t.view.head) = "intact"
  /\ t.pc = "reading" /\ t.call.op = "verify" => t.tail = t.view.head
  /\ t.verdict \in {"none", "intact"}

Agreement ==
  damage = {} =>
    /\ Verdict(db.log, db.head) = "intact"
    /\ QueueMatchesLog(db.items, db.log)
    /\ \A w \in Workers : SoundTransaction(txn[w])

\* The new database agrees with itself, and so does a worker at rest.
LEMMA IdleSound ==
  /\ Verdict(EmptyDatabase.log, EmptyDatabase.head) = "intact"
  /\ QueueMatchesLog(EmptyDatabase.items, EmptyDatabase.log)
  /\ SoundTransaction(Idle)
<1>1. Verdict(EmptyDatabase.log, EmptyDatabase.head) = "intact"
  BY EmptyIntact DEF EmptyDatabase
<1>2. QueueMatchesLog(EmptyDatabase.items, EmptyDatabase.log)
  BY DEF QueueMatchesLog, EmptyDatabase, EmptyQueue, Queued
<1>3. QED
  BY <1>1, <1>2 DEF SoundTransaction, Idle

\* A worker whose transaction becomes a sound one, the rest unchanged, keeps the
\* agreement.
LEMMA BecomesSound ==
  ASSUME TypeOK, Agreement, NEW w \in Workers, NEW t, Becomes(w, t),
         damage = {} => SoundTransaction(t), UNCHANGED <<db, damage>>
  PROVE  Agreement'
<1>1. \A v \in Workers : txn'[v] = IF v = w THEN t ELSE txn[v]
  BY DEF Becomes, TypeOK
<1>2. damage = {} => \A v \in Workers : SoundTransaction(txn'[v])
  BY <1>1 DEF Agreement
<1>3. QED
  BY <1>2 DEF Agreement

\* Ending a call leaves a worker at rest but for its status.
LEMMA AnswerSound ==
  ASSUME TypeOK, Agreement, NEW w \in Workers, NEW status, Answer(w, status),
         UNCHANGED <<db, damage>>
  PROVE  Agreement'
<1> DEFINE t == [Idle EXCEPT !.pc = "answered", !.status = status]
<1>1. SoundTransaction(t)
  BY IdleSound DEF SoundTransaction, Idle
<1>2. Becomes(w, t)
  BY DEF Answer
<1>3. QED
  BY <1>1, <1>2, BecomesSound

\* Writing a queue that keeps the items of the view and their decisions keeps
\* the agreement.
LEMMA SaveSound ==
  ASSUME TypeOK, Agreement, NEW w \in Workers, NEW items \in Queue,
         txn[w].pc = "begun",
         Queued(items) = Queued(View(w).items),
         \A r \in Queued(items) : items[r].decision = View(w).items[r].decision,
         Save(w, items), UNCHANGED <<db, damage>>
  PROVE  Agreement'
<1> DEFINE t == txn[w]
           after == [t EXCEPT !.view.items = items, !.pc = "committing"]
<1>1. t \in Transaction /\ t.view \in Database
  BY DEF TypeOK, Transaction
<1>2. /\ after.view.items = items /\ after.view.log = t.view.log
      /\ after.view.head = t.view.head /\ after.pc = "committing"
      /\ after.verdict = t.verdict
  BY <1>1 DEF Transaction, Database
<1>3. damage = {} => SoundTransaction(t)
  BY DEF Agreement
<1>4. QueueMatchesLog(t.view.items, t.view.log) => QueueMatchesLog(items, t.view.log)
  BY <1>1, MovesMatch DEF View, Database
<1>5. damage = {} => SoundTransaction(after)
  BY <1>2, <1>3, <1>4 DEF SoundTransaction
<1>6. Becomes(w, after)
  BY DEF Save
<1>7. QED
  BY <1>5, <1>6, BecomesSound

\* Every step of a running call keeps the agreement.
LEMMA StepSound ==
  ASSUME TypeOK, Agreement, NEW w \in Workers, Step(w)
  PROVE  Agreement'
<1> DEFINE t == txn[w]
<1>1. /\ t \in Transaction /\ t.view \in Database /\ t.tail \in Anchor
      /\ t.call \in Calls \cup {NoCall}
  BY DEF TypeOK, Transaction
<1>2. damage = {} => /\ SoundTransaction(t)
                     /\ Verdict(db.log, db.head) = "intact"
                     /\ QueueMatchesLog(db.items, db.log)
  BY DEF Agreement
<1>3. ASSUME BeginWrite(w) \/ BeginRead(w) PROVE Agreement'
  <2>1. damage = {} => SoundTransaction([t EXCEPT !.pc = "begun", !.view = db])
    BY <1>1, <1>2 DEF SoundTransaction, Transaction
  <2>2. QED
    BY <1>3, <2>1, BecomesSound DEF BeginWrite, BeginRead
<1>4. CASE Busy(w)
  BY <1>4, AnswerSound DEF Busy
<1>5. CASE StartEnqueue(w)
  <2>1. CASE LastRecord(View(w).log) = View(w).head
    <3>1. damage = {} =>
            SoundTransaction([t EXCEPT !.pc = "inserting", !.tail = View(w).head])
      BY <1>1, <1>2, <1>5 DEF SoundTransaction, Transaction, View, StartEnqueue, At
    <3>2. QED
      BY <1>5, <2>1, <3>1, BecomesSound DEF StartEnqueue
  <2>2. CASE LastRecord(View(w).log) # View(w).head
    <3>1. Rollback(w, "refused")
      BY <1>5, <2>2 DEF StartEnqueue
    <3>2. QED
      BY <3>1, AnswerSound DEF Rollback
  <2>3. QED
    BY <2>1, <2>2
<1>6. CASE InsertRecord(w)
  <2> DEFINE record == NewRecord(t.tail.records + 1, Current(t), t.tail.head_hash)
             log == Append(t.view.log, record)
             after == [t EXCEPT !.view.log = log,
                                !.tail = AnchorAt(record), !.pc = "queueing"]
  <2>1. /\ t.pc = "inserting" /\ Becomes(w, after) /\ UNCHANGED <<db, damage>>
        /\ Current(t) \in Decision
        /\ record \in AuditRecord /\ record.decision = Current(t)
    BY <1>6, Insertion DEF InsertRecord, At
  <2>2. t.view.log \in Seq(AuditRecord) /\ t.view.items \in Queue
    BY <1>1 DEF Database
  <2>3. damage = {} => Verdict(log, AnchorAt(record)) = "intact"
    <3>1. damage = {} => Verdict(t.view.log, t.tail) = "intact"
      BY <1>2, <2>1 DEF SoundTransaction
    <3>2. QED
      BY <3>1, <1>1, <2>1, <2>2, AppendIntact
  <2> HIDE DEF record
  <2>4. damage = {} => \A now \in Times :
          QueueMatchesLog(Enqueue(t.view.items, Current(t), now), log)
    BY <1>2, <2>1, <2>2, EnqueueMatches DEF SoundTransaction
  <2> HIDE DEF log
  <2>5. /\ after.pc = "queueing" /\ after.tail = AnchorAt(record)
        /\ after.view.log = log /\ after.view.items = t.view.items
        /\ Current(after) = Current(t) /\ after.verdict = t.verdict
    BY <1>1 DEF Transaction, Database, Current
  <2>6. damage = {} => SoundTransaction(after)
    BY <1>2, <2>3, <2>4, <2>5 DEF SoundTransaction
  <2>7. QED
    BY <2>1, <2>6, BecomesSound
<1>6a. CASE QueueDecision(w)
  <2>1. PICK now \in Times :
          Becomes(w, [t EXCEPT !.view.items = Enqueue(t.view.items, Current(t), now),
                               !.done = @ + 1, !.pc = "inserting"])
    BY <1>6a DEF QueueDecision
  <2> DEFINE items == Enqueue(t.view.items, Current(t), now)
             after == [t EXCEPT !.view.items = items, !.done = t.done + 1,
                                !.pc = "inserting"]
  <2>2. damage = {} => QueueMatchesLog(items, t.view.log)
    BY <1>2, <1>6a DEF SoundTransaction, QueueDecision, At
  <2>3. Becomes(w, after)
    BY <2>1
  <2> HIDE DEF items
  <2>4. /\ after.pc = "inserting" /\ after.tail = t.tail
        /\ after.view.log = t.view.log /\ after.view.items = items
        /\ after.verdict = t.verdict
    BY <1>1 DEF Transaction, Database
  <2>5. damage = {} => SoundTransaction(after)
    BY <1>2, <1>6a, <2>2, <2>4 DEF SoundTransaction, QueueDecision, At
  <2>6. QED
    BY <1>6a, <2>3, <2>5, BecomesSound DEF QueueDecision
<1>7. CASE UpdateHead(w)
  <2>1. damage = {} =>
          SoundTransaction([t EXCEPT !.view.head = t.tail, !.pc = "committing"])
    BY <1>1, <1>2, <1>7 DEF SoundTransaction, Transaction, Database, UpdateHead, At
  <2>2. QED
    BY <1>7, <2>1, BecomesSound DEF UpdateHead
<1>8. CASE ClaimItems(w)
  <2>1. t.call.moderator \in Moderators
    BY <1>1, <1>8, CallFields DEF ClaimItems, At
  <2> DEFINE after == ClaimFront(View(w).items, t.call.moderator, t.call.limit)
  <2>2. /\ after \in Queue /\ Queued(after) = Queued(View(w).items)
        /\ \A r \in Queued(after) : after[r].decision = View(w).items[r].decision
    BY <1>1, <2>1, ClaimFrontKeeps DEF View, Database
  <2> HIDE DEF after
  <2>3. Save(w, after) /\ t.pc = "begun"
    BY <1>8 DEF ClaimItems, At, after
  <2>4. QED
    BY <1>8, <2>2, <2>3, SaveSound DEF ClaimItems
<1>9. CASE ReleaseItem(w)
  <2> DEFINE r == t.call.review_id
             items == View(w).items
             after == [items EXCEPT ![r] = Release(items[r])]
  <2>1. CASE r \in InState(items, "claimed")
    <3>1. items \in Queue /\ r \in Queued(items) /\ items[r] \in QueueItem
      BY <1>1, <2>1 DEF InState, Queued, View, Database, Queue
    <3>2. /\ after \in Queue /\ Queued(after) = Queued(items)
          /\ \A q \in Queued(after) : after[q].decision = items[q].decision
      BY <3>1, ReleaseTyped, OneItemKeeps
    <3>3. Save(w, after) /\ t.pc = "begun" /\ UNCHANGED <<db, damage>>
      BY <1>9, <2>1 DEF ReleaseItem, At
    <3> HIDE DEF after
    <3>4. QED
      BY <3>2, <3>3, SaveSound
  <2>2. CASE ~(r \in InState(items, "claimed"))
    <3>1. Rollback(w, "refused")
      BY <1>9, <2>2 DEF ReleaseItem
    <3>2. QED
      BY <3>1, AnswerSound DEF Rollback
  <2>3. QED
    BY <2>1, <2>2
<1>10. CASE ResolveItem(w)
  <2> DEFINE r == t.call.review_id
             items == View(w).items
             open == Queued(items) \ InState(items, "resolved")
             item == Resolve(items[r], t.call.moderator, t.call.outcome)
             after == [items EXCEPT ![r] = item]
  <2>1. CASE r \in open
    <3>1. items \in Queue /\ r \in Queued(items) /\ items[r] \in QueueItem
      BY <1>1, <2>1 DEF Queued, View, Database, Queue
    <3>2. t.call.moderator \in Moderators /\ t.call.outcome \in Outcomes
      BY <1>1, <1>10, CallFields DEF ResolveItem, At
    <3>3. /\ after \in Queue /\ Queued(after) = Queued(items)
          /\ \A q \in Queued(after) : after[q].decision = items[q].decision
      BY <3>1, <3>2, ResolveTyped, OneItemKeeps
    <3>4. Save(w, after) /\ t.pc = "begun" /\ UNCHANGED <<db, damage>>
      BY <1>10, <2>1 DEF ResolveItem, At
    <3> HIDE DEF after
    <3>5. QED
      BY <3>3, <3>4, SaveSound
  <2>2. CASE ~(r \in open)
    <3>1. Rollback(w, "refused")
      BY <1>10, <2>2 DEF ResolveItem
    <3>2. QED
      BY <3>1, AnswerSound DEF Rollback
  <2>3. QED
    BY <2>1, <2>2
<1>11. CASE ReadPage(w)
  <2> DEFINE asked == t.call.page
             page == Slice(View(w).items, Matching(View(w).items, asked.state),
                           asked.offset, asked.limit)
  <2> HIDE DEF page
  <2>1. damage = {} => SoundTransaction([t EXCEPT !.page = page, !.pc = "reading"])
    BY <1>1, <1>2, <1>11 DEF SoundTransaction, Transaction, ReadPage, At
  <2>2. QED
    BY <1>11, <2>1, BecomesSound DEF ReadPage, page
<1>12. CASE ReadStats(w)
  <2> DEFINE total == Cardinality(Matching(View(w).items, t.call.page.state))
             after == [t EXCEPT !.total = total, !.status = "ok",
                                !.view = EmptyDatabase, !.pc = "answered"]
  <2> HIDE DEF total
  <2>1. /\ after.view = EmptyDatabase /\ after.pc = "answered"
        /\ after.verdict = t.verdict
    BY <1>1 DEF Transaction
  <2>2. damage = {} => SoundTransaction(after)
    BY <1>2, <2>1, IdleSound DEF SoundTransaction
  <2>3. QED
    BY <1>12, <2>2, BecomesSound DEF ReadStats, total
<1>13. CASE ReadAnchor(w)
  <2>1. damage = {} =>
          SoundTransaction([t EXCEPT !.tail = View(w).head, !.pc = "reading"])
    BY <1>1, <1>2, <1>13 DEF SoundTransaction, Transaction, View, ReadAnchor, At
  <2>2. QED
    BY <1>13, <2>1, BecomesSound DEF ReadAnchor
<1>14. CASE ReadRecords(w)
  <2> DEFINE verdict == Verdict(View(w).log, t.tail)
             after == [Idle EXCEPT !.pc = "answered", !.status = "ok",
                                   !.verdict = verdict]
  <2>1. damage = {} => verdict = "intact"
    BY <1>2, <1>14 DEF SoundTransaction, ReadRecords, At, View
  <2> HIDE DEF verdict
  <2>2. damage = {} => SoundTransaction(after)
    BY <2>1, IdleSound DEF SoundTransaction, Idle
  <2>3. QED
    BY <1>14, <2>2, BecomesSound DEF ReadRecords, verdict
<1>15. CASE Commit(w)
  <2>1. Becomes(w, [Idle EXCEPT !.pc = "answered", !.status = "ok"])
    BY <1>15 DEF Commit, Answer
  <2>2. SoundTransaction([Idle EXCEPT !.pc = "answered", !.status = "ok"])
    BY IdleSound DEF SoundTransaction, Idle
  <2>3. damage = {} => \A v \in Workers : SoundTransaction(txn'[v])
    BY <2>1, <2>2 DEF Becomes, TypeOK, Agreement
  <2>4. damage = {} => /\ Verdict(t.view.log, t.view.head) = "intact"
                       /\ QueueMatchesLog(t.view.items, t.view.log)
    BY <1>2, <1>15 DEF SoundTransaction, Commit
  <2>5. db' = t.view /\ damage' = damage
    BY <1>15 DEF Commit, View
  <2>6. QED
    BY <2>3, <2>4, <2>5 DEF Agreement
<1>16. CASE Return(w)
  BY <1>16, IdleSound, BecomesSound DEF Return
<1>17. QED
  BY <1>3, <1>4, <1>5, <1>6, <1>6a, <1>7, <1>8, <1>9, <1>10, <1>11, <1>12, <1>13,
     <1>14, <1>15, <1>16 DEF Step

\* The log, its head and the queue agree in every reachable state, and so does
\* every connection's view.
LEMMA AlwaysAgree == Spec => []Agreement
<1>1. Init => Agreement
  BY IdleSound DEF Init, Agreement
<1>2. TypeOK /\ Agreement /\ [Next]_vars => Agreement'
  <2> SUFFICES ASSUME TypeOK, Agreement, [Next]_vars PROVE Agreement'
    OBVIOUS
  <2>1. CASE Accident
    BY <2>1 DEF Accident, LoseRow, EditRow, Agreement
  <2>2. ASSUME NEW w \in Workers, Step(w) PROVE Agreement'
    BY <2>2, StepSound
  <2>3. ASSUME NEW w \in Workers, NEW call \in Calls, Request(w, call)
        PROVE  Agreement'
    <3>1. SoundTransaction([Idle EXCEPT !.pc = "waiting", !.call = call])
      BY IdleSound DEF SoundTransaction, Idle
    <3>2. QED
      BY <2>3, <3>1, BecomesSound DEF Request
  <2>4. ASSUME NEW w \in Workers, Fail(w) PROVE Agreement'
    BY <2>4, AnswerSound DEF Fail, Rollback
  <2>5. ASSUME NEW w \in Workers, Crash(w) PROVE Agreement'
    BY <2>5, IdleSound, BecomesSound DEF Crash
  <2>6. CASE UNCHANGED vars
    BY <2>6 DEF vars, Agreement
  <2>7. QED
    BY <2>1, <2>2, <2>3, <2>4, <2>5, <2>6 DEF Next
<1>3. QED
  BY <1>1, <1>2, TypeCorrect, PTL DEF Spec

\* In every reachable state of an undamaged store the head describes the log.
THEOREM HeadAlwaysMatches == Spec => []HeadMatchesLog
<1>1. Agreement => HeadMatchesLog
  BY DEF Agreement, HeadMatchesLog
<1>2. QED
  BY <1>1, AlwaysAgree, PTL

\* A batch is logged and queued as a whole or not at all, wherever a call stops.
THEOREM BatchesAreWhole == Spec => []LoggedAndQueuedTogether
<1>1. Agreement => LoggedAndQueuedTogether
  BY DEF Agreement, LoggedAndQueuedTogether
<1>2. QED
  BY <1>1, AlwaysAgree, PTL

\* A verifier that runs beside writers never raises a false alarm.
THEOREM VerifierIsTruthful == Spec => []NoFalseAlarm
<1>1. Agreement => NoFalseAlarm
  BY DEF Agreement, NoFalseAlarm, SoundTransaction
<1>2. QED
  BY <1>1, AlwaysAgree, PTL
-----------------------------------------------------------------------------
(***************************************************************************)
(* That the store is the ledger of ModerationLedger, and what follows of   *)
(* its items.                                                              *)
(***************************************************************************)

-----------------------------------------------------------------------------
(* What the open write transaction holds, compared with what is committed. *)

\* Position i of the batch is the first to flag review r.
FirstFlags(batch, i, r) ==
  /\ i \in Ledger!Flagging(batch, r)
  /\ \A j \in Ledger!Flagging(batch, r) : ~(j < i)

\* The queue `later` is `items` after the first k decisions of the batch: what
\* was there is untouched, and a review is there anew from its first flagging.
QueuedFrom(items, later, batch, k) ==
  \A r \in Reviews :
    \/ items[r] # NoItem /\ later[r] = items[r]
    \/ /\ items[r] = NoItem /\ later[r] = NoItem
       /\ \A i \in Ledger!Flagging(batch, r) : i > k
    \/ /\ items[r] = NoItem
       /\ \E i \in 1..k, now \in Times :
            FirstFlags(batch, i, r) /\ later[r] = NewItem(batch[i], now)

\* The log `longer` is `log` with the first k decisions of the batch after it.
LoggedFrom(log, longer, batch, k) ==
  /\ Len(longer) = Len(log) + k
  /\ \A i \in 1..Len(log) : longer[i].decision = log[i].decision
  /\ \A i \in 1..k : longer[Len(log) + i].decision = batch[i]

\* The view of an enqueue is as many decisions ahead as it has written.
EnqueueView(t, base) ==
  LET batch == t.call.batch IN
  /\ t.done \in 0..Len(batch)
  /\ t.pc = "committing" => t.done = Len(batch)
  /\ t.pc = "queueing" => t.done < Len(batch)
  /\ t.done > 0 => Times # {}
  /\ QueuedFrom(base.items, t.view.items, batch, t.done)
  /\ LoggedFrom(base.log, t.view.log, batch,
                IF t.pc = "queueing" THEN t.done + 1 ELSE t.done)

\* The view of a call that has written its items.
MovedView(t, base) ==
  /\ t.view.log = base.log
  /\ t.call.op = "claim" =>
       t.view.items = ClaimFront(base.items, t.call.moderator, t.call.limit)
  /\ t.call.op = "release" =>
       /\ t.call.review_id \in InState(base.items, "claimed")
       /\ t.view.items =
            [base.items EXCEPT ![t.call.review_id] = Release(@)]
  /\ t.call.op = "resolve" =>
       /\ t.call.review_id \in Queued(base.items) \ InState(base.items, "resolved")
       /\ t.view.items =
            [base.items EXCEPT ![t.call.review_id] =
               Resolve(@, t.call.moderator, t.call.outcome)]

Writing == {"begun", "inserting", "queueing", "committing"}

\* A call that is writing holds the lock, and its view is the committed
\* database but for what it has written itself.
Carried(t, w, lock, base) ==
  /\ t.pc \in {"waiting", "begun"} => t.done = 0
  /\ t.pc \in {"inserting", "queueing"} => t.call.op = "enqueue"
  /\ t.pc = "committing" => Writes(t.call)
  /\ t.pc \in Writing /\ Writes(t.call) =>
       /\ lock = w
       /\ t.pc = "begun" => t.view = base
       /\ t.pc # "begun" /\ t.call.op = "enqueue" => EnqueueView(t, base)
       /\ t.pc # "begun" /\ t.call.op # "enqueue" => MovedView(t, base)

Carrying == \A w \in Workers : Carried(txn[w], w, writer, db)

-----------------------------------------------------------------------------
(* One worker at a time.                                                   *)

\* A worker that is not writing carries nothing.
LEMMA NothingCarried ==
  ASSUME NEW t, NEW w, NEW lock, NEW base, t.pc \in {"idle", "reading", "answered"}
  PROVE  Carried(t, w, lock, base)
BY DEF Carried, Writing

\* While one worker moves, the lock keeps everything the others carry as it is.
LEMMA OthersUndisturbed ==
  ASSUME TypeOK, Carrying, NEW w \in Workers, NEW u,
         Becomes(w, u), Carried(u, w, writer', db'),
         \/ writer' = writer
         \/ writer = NoWorker /\ writer' = w
         \/ writer = w /\ writer' = NoWorker,
         db' = db \/ writer = w
  PROVE  Carrying'
<1> SUFFICES ASSUME NEW v \in Workers PROVE Carried(txn'[v], v, writer', db')
  BY DEF Carrying
<1>1. CASE v = w
  BY <1>1 DEF Becomes, TypeOK
<1>2. CASE v # w
  <2>1. txn'[v] = txn[v]
    BY <1>2 DEF Becomes, TypeOK
  <2>2. Carried(txn[v], v, writer, db) /\ NoWorker # v
    BY StoreAssumption DEF Carrying
  <2>3. CASE txn[v].pc \in Writing /\ Writes(txn[v].call)
    <3>1. writer = v
      BY <2>2, <2>3 DEF Carried
    <3>2. writer' = writer /\ db' = db
      BY <3>1, <2>2, <1>2
    <3>3. QED
      BY <2>1, <2>2, <3>2
  <2>4. CASE ~(txn[v].pc \in Writing /\ Writes(txn[v].call))
    BY <2>1, <2>2, <2>4 DEF Carried
  <2>5. QED
    BY <2>3, <2>4
<1>3. QED
  BY <1>1, <1>2

\* Leaving off, with or without an answer, carries nothing and disturbs nobody.
LEMMA LeavingOff ==
  ASSUME TypeOK, Carrying, NEW w \in Workers, NEW u,
         Becomes(w, u), u.pc \in {"idle", "reading", "answered"},
         Unlock(w) \/ writer' = writer, db' = db \/ writer = w
  PROVE  Carrying'
<1>1. Carried(u, w, writer', db')
  BY NothingCarried
<1>2. \/ writer' = writer
      \/ writer = w /\ writer' = NoWorker
  BY DEF Unlock
<1>3. QED
  BY <1>1, <1>2, OthersUndisturbed

\* A refused or failed call leaves off.
LEMMA AnswerLeaves ==
  ASSUME TypeOK, Carrying, NEW w \in Workers, NEW status, Rollback(w, status)
  PROVE  Carrying'
<1>1. [Idle EXCEPT !.pc = "answered", !.status = status].pc = "answered"
  BY DEF Idle
<1>2. QED
  BY <1>1, LeavingOff DEF Rollback, Answer

-----------------------------------------------------------------------------
(* enqueue, one decision after the other.                                  *)

\* A decision not yet queued is the first to flag its review, or its review is
\* there already: queueing it brings the queue one decision further.
LEMMA QueuedOneMore ==
  ASSUME NEW items \in Queue, NEW later \in Queue, NEW batch \in Seq(Decision),
         NEW k \in Nat, k + 1 \in 1..Len(batch), NEW now \in Times,
         QueuedFrom(items, later, batch, k)
  PROVE  QueuedFrom(items, Enqueue(later, batch[k + 1], now), batch, k + 1)
<1> DEFINE d == batch[k + 1]
           next == Enqueue(later, d, now)
<1>1. d \in Decision /\ d.review_id \in Reviews
  <2>1. d \in Decision
    OBVIOUS
  <2>2. QED
    BY <2>1 DEF Decision
<1>2. NewItem(d, now) # NoItem
  BY NoItemAssumption, <1>1 DEF NewItem, QueueItem, QueueState, Decision
<1> SUFFICES ASSUME NEW r \in Reviews
             PROVE  \/ items[r] # NoItem /\ next[r] = items[r]
                    \/ /\ items[r] = NoItem /\ next[r] = NoItem
                       /\ \A i \in Ledger!Flagging(batch, r) : i > k + 1
                    \/ /\ items[r] = NoItem
                       /\ \E i \in 1..(k + 1), n \in Times :
                            FirstFlags(batch, i, r) /\ next[r] = NewItem(batch[i], n)
  BY DEF QueuedFrom
<1>3. Ledger!Flagging(batch, r) \subseteq 1..Len(batch)
  BY DEF Ledger!Flagging
<1>4. CASE items[r] # NoItem
  <2>1. later[r] = items[r]
    BY <1>4 DEF QueuedFrom
  <2>2. next[r] = later[r]
    BY <1>1, <1>4, <2>1 DEF Enqueue, Queue
  <2>3. QED
    BY <1>4, <2>1, <2>2
<1>5. CASE items[r] = NoItem /\ later[r] = NoItem
  <2>1. \A i \in Ledger!Flagging(batch, r) : i > k
    <3>1. CASE \A i \in Ledger!Flagging(batch, r) : i > k
      BY <3>1
    <3>2. CASE \E i \in 1..k, n \in Times :
                 FirstFlags(batch, i, r) /\ later[r] = NewItem(batch[i], n)
      <4>1. PICK i \in 1..k, n \in Times : later[r] = NewItem(batch[i], n)
        BY <3>2
      <4>2. batch[i] \in Decision
        OBVIOUS
      <4>3. NewItem(batch[i], n) # NoItem
        BY <4>2, NoItemAssumption DEF NewItem, QueueItem, QueueState
      <4>4. QED
        BY <1>5, <4>1, <4>3
    <3>3. QED
      BY <1>5, <3>1, <3>2 DEF QueuedFrom
  <2>2. CASE d.review_id = r /\ d.requires_human_review
    <3>1. k + 1 \in Ledger!Flagging(batch, r)
      BY <2>2 DEF Ledger!Flagging
    <3>2. \A j \in Ledger!Flagging(batch, r) : ~(j < k + 1)
      BY <2>1, <1>3
    <3>3. next[r] = NewItem(batch[k + 1], now)
      BY <2>2, <1>1, <1>5 DEF Enqueue, Queue
    <3>4. QED
      BY <1>5, <3>1, <3>2, <3>3 DEF FirstFlags
  <2>3. CASE ~(d.review_id = r /\ d.requires_human_review)
    <3>1. k + 1 \notin Ledger!Flagging(batch, r)
      BY <2>3 DEF Ledger!Flagging
    <3>2. \A i \in Ledger!Flagging(batch, r) : i > k + 1
      BY <2>1, <3>1, <1>3
    <3>3. next[r] = NoItem
      BY <2>3, <1>1, <1>5 DEF Enqueue, Queue
    <3>4. QED
      BY <1>5, <3>2, <3>3
  <2>4. QED
    BY <2>2, <2>3
<1>6. CASE items[r] = NoItem /\ later[r] # NoItem
  <2>1. PICK i \in 1..k, n \in Times :
          FirstFlags(batch, i, r) /\ later[r] = NewItem(batch[i], n)
    BY <1>6 DEF QueuedFrom
  <2>2. next[r] = later[r]
    BY <1>1, <1>6 DEF Enqueue, Queue
  <2>3. i \in 1..(k + 1)
    OBVIOUS
  <2>4. QED
    BY <1>6, <2>1, <2>2, <2>3
<1>7. QED
  BY <1>4, <1>5, <1>6

\* Before the first decision the view is the committed queue and log.
LEMMA NothingWrittenYet ==
  ASSUME NEW base \in Database, NEW batch \in Seq(Decision)
  PROVE  /\ QueuedFrom(base.items, base.items, batch, 0)
         /\ LoggedFrom(base.log, base.log, batch, 0)
<1>1. \A r \in Reviews : Ledger!Flagging(batch, r) \subseteq 1..Len(batch)
  BY DEF Ledger!Flagging
<1>2. QueuedFrom(base.items, base.items, batch, 0)
  BY <1>1 DEF QueuedFrom
<1>3. base.log \in Seq(AuditRecord)
  BY DEF Database
<1>4. QED
  BY <1>2, <1>3 DEF LoggedFrom

\* The record of the next decision brings the log one decision further.
LEMMA LoggedOneMore ==
  ASSUME NEW log \in Seq(AuditRecord), NEW longer \in Seq(AuditRecord),
         NEW batch \in Seq(Decision), NEW k \in Nat,
         LoggedFrom(log, longer, batch, k),
         NEW record \in AuditRecord, record.decision = batch[k + 1]
  PROVE  LoggedFrom(log, Append(longer, record), batch, k + 1)
<1> DEFINE longest == Append(longer, record)
<1>1. /\ Len(longest) = Len(longer) + 1
      /\ \A i \in 1..Len(longer) : longest[i] = longer[i]
      /\ longest[Len(longer) + 1] = record
  OBVIOUS
<1>2. Len(longer) = Len(log) + k /\ Len(log) \in Nat
  BY DEF LoggedFrom
<1> HIDE DEF longest
<1>3. Len(longest) = Len(log) + (k + 1)
  BY <1>1, <1>2
<1>4. \A i \in 1..Len(log) : longest[i].decision = log[i].decision
  BY <1>1, <1>2 DEF LoggedFrom
<1>5. ASSUME NEW i \in 1..(k + 1) PROVE longest[Len(log) + i].decision = batch[i]
  <2>1. CASE i \in 1..k
    <3>1. Len(log) + i \in 1..Len(longer)
      BY <2>1, <1>2
    <3>2. longer[Len(log) + i].decision = batch[i]
      BY <2>1 DEF LoggedFrom
    <3>3. QED
      BY <3>1, <3>2, <1>1
  <2>2. CASE i = k + 1
    <3>1. Len(log) + i = Len(longer) + 1
      BY <2>2, <1>2
    <3>2. QED
      BY <3>1, <2>2, <1>1
  <2>3. QED
    BY <2>1, <2>2
<1>6. LoggedFrom(log, longest, batch, k + 1)
  BY <1>3, <1>4, <1>5 DEF LoggedFrom
<1>7. QED
  BY <1>6 DEF longest

-----------------------------------------------------------------------------
(* Every step carries.                                                     *)

\* What a worker does next keeps what its call carries.
LEMMA StepCarries ==
  ASSUME TypeOK, Carrying, NEW w \in Workers, Step(w)
  PROVE  Carrying'
<1> DEFINE t == txn[w]
<1>1. t \in Transaction /\ t.view \in Database /\ db \in Database
  BY DEF TypeOK, Transaction
<1>1a. /\ t.view.log \in Seq(AuditRecord) /\ t.view.items \in Queue
       /\ db.log \in Seq(AuditRecord) /\ db.items \in Queue
  BY <1>1 DEF Database
<1>1b. t.call.op = "enqueue" => t.call.batch \in Seq(Decision)
  BY <1>1, CallFields, StoreAssumption DEF Transaction
<1>2. Carried(t, w, writer, db)
  BY DEF Carrying
<1>3. CASE BeginWrite(w)
  <2> DEFINE u == [t EXCEPT !.pc = "begun", !.view = db]
  <2>1. u.pc = "begun" /\ u.view = db /\ u.call = t.call /\ u.done = 0
    BY <1>1, <1>2, <1>3 DEF Transaction, Carried, BeginWrite
  <2>2. Becomes(w, u) /\ writer = NoWorker /\ writer' = w /\ db' = db
    BY <1>3 DEF BeginWrite
  <2> HIDE DEF u
  <2>3. Carried(u, w, writer', db')
    BY <2>1, <2>2 DEF Carried, Writing
  <2>4. QED
    BY <2>2, <2>3, OthersUndisturbed
<1>4. CASE BeginRead(w)
  <2> DEFINE u == [t EXCEPT !.pc = "begun", !.view = db]
  <2>1. u.pc = "begun" /\ u.call = t.call /\ u.done = 0
    BY <1>1, <1>2, <1>4 DEF Transaction, Carried, BeginRead
  <2>2. Becomes(w, u) /\ writer' = writer /\ db' = db /\ ~Writes(t.call)
    BY <1>4 DEF BeginRead
  <2> HIDE DEF u
  <2>3. Carried(u, w, writer', db')
    BY <2>1, <2>2 DEF Carried, Writing
  <2>4. QED
    BY <2>2, <2>3, OthersUndisturbed
<1>5. CASE Busy(w)
  <2>1. [Idle EXCEPT !.pc = "answered", !.status = "busy"].pc = "answered"
    BY DEF Idle
  <2>2. QED
    BY <2>1, <1>5, LeavingOff DEF Busy, Answer
<1>6. CASE StartEnqueue(w)
  <2>1. CASE Rollback(w, "refused")
    BY <2>1, AnswerLeaves
  <2>2. CASE ~Rollback(w, "refused")
    <3> DEFINE u == [t EXCEPT !.pc = "inserting", !.tail = View(w).head]
    <3>1. /\ Becomes(w, u) /\ writer' = writer /\ db' = db
          /\ t.call.op = "enqueue" /\ t.pc = "begun"
      BY <1>6, <2>2 DEF StartEnqueue, At
    <3>2. /\ u.pc = "inserting" /\ u.view = t.view /\ u.call = t.call
          /\ u.done = t.done
      BY <1>1 DEF Transaction
    <3>3. t.call.batch \in Seq(Decision)
      BY <3>1, <1>1b
    <3>4. t.view = db /\ writer = w /\ t.done = 0
      BY <1>2, <3>1 DEF Carried, Writing, Writes
    <3> HIDE DEF u
    <3>5. EnqueueView(u, db)
      BY <3>2, <3>3, <3>4, <1>1, NothingWrittenYet DEF EnqueueView
    <3>6. Carried(u, w, writer', db')
      BY <3>1, <3>2, <3>4, <3>5 DEF Carried
    <3>7. QED
      BY <3>1, <3>6, OthersUndisturbed
  <2>3. QED
    BY <2>1, <2>2
<1>7. CASE InsertRecord(w)
  <2> DEFINE record == NewRecord(t.tail.records + 1, Current(t), t.tail.head_hash)
             log == Append(t.view.log, record)
             u == [t EXCEPT !.view.log = log,
                            !.tail = AnchorAt(record), !.pc = "queueing"]
  <2>1. /\ Becomes(w, u) /\ writer' = writer /\ db' = db
        /\ t.call.op = "enqueue" /\ t.pc = "inserting" /\ HasCurrent(t)
    BY <1>7 DEF InsertRecord, At
  <2>2. record \in AuditRecord /\ record.decision = Current(t)
    BY <2>1, Insertion
  <2>3. t.call.batch \in Seq(Decision) /\ writer = w /\ EnqueueView(t, db)
    BY <2>1, <1>1b, <1>2 DEF Carried, Writing, Writes
  <2>4. /\ t.done \in Nat /\ t.done < Len(t.call.batch)
        /\ LoggedFrom(db.log, t.view.log, t.call.batch, t.done)
    BY <1>1, <2>1, <2>3 DEF EnqueueView, HasCurrent, Transaction
  <2>5. Current(t) = t.call.batch[t.done + 1]
    BY DEF Current
  <2> HIDE DEF record
  <2>6. LoggedFrom(db.log, log, t.call.batch, t.done + 1)
    BY <1>1a, <2>2, <2>3, <2>4, <2>5, LoggedOneMore
  <2> HIDE DEF log
  <2>7. /\ u.pc = "queueing" /\ u.call = t.call /\ u.done = t.done
        /\ u.view.log = log /\ u.view.items = t.view.items
    BY <1>1 DEF Transaction, Database
  <2> HIDE DEF u
  <2>8. EnqueueView(u, db)
    BY <2>3, <2>4, <2>6, <2>7 DEF EnqueueView
  <2>9. Carried(u, w, writer', db')
    BY <2>1, <2>3, <2>7, <2>8 DEF Carried
  <2>10. QED
    BY <2>1, <2>9, OthersUndisturbed
<1>8. CASE QueueDecision(w)
  <2>1. PICK now \in Times :
          Becomes(w, [t EXCEPT !.view.items = Enqueue(t.view.items, Current(t), now),
                               !.done = @ + 1, !.pc = "inserting"])
    BY <1>8 DEF QueueDecision
  <2> DEFINE items == Enqueue(t.view.items, Current(t), now)
             u == [t EXCEPT !.view.items = items, !.done = t.done + 1,
                            !.pc = "inserting"]
  <2>2. /\ Becomes(w, u) /\ writer' = writer /\ db' = db
        /\ t.call.op = "enqueue" /\ t.pc = "queueing" /\ HasCurrent(t)
    BY <1>8, <2>1 DEF QueueDecision, At
  <2>3. t.call.batch \in Seq(Decision) /\ writer = w /\ EnqueueView(t, db)
    BY <2>2, <1>1b, <1>2 DEF Carried, Writing, Writes
  <2>4. /\ t.done \in Nat /\ t.done < Len(t.call.batch)
        /\ LoggedFrom(db.log, t.view.log, t.call.batch, t.done + 1)
        /\ QueuedFrom(db.items, t.view.items, t.call.batch, t.done)
    BY <1>1, <2>2, <2>3 DEF EnqueueView, HasCurrent, Transaction
  <2>5. t.done + 1 \in 1..Len(t.call.batch) /\ Len(t.call.batch) \in Nat
    BY <2>3, <2>4
  <2>6. QueuedFrom(db.items, items, t.call.batch, t.done + 1)
    BY <1>1a, <2>3, <2>4, <2>5, QueuedOneMore DEF Current
  <2> HIDE DEF items
  <2>7. /\ u.pc = "inserting" /\ u.call = t.call /\ u.done = t.done + 1
        /\ u.view.log = t.view.log /\ u.view.items = items
    BY <1>1 DEF Transaction, Database
  <2> HIDE DEF u
  <2>8. EnqueueView(u, db)
    BY <2>4, <2>5, <2>6, <2>7 DEF EnqueueView
  <2>9. Carried(u, w, writer', db')
    BY <2>2, <2>3, <2>7, <2>8 DEF Carried
  <2>10. QED
    BY <2>2, <2>9, OthersUndisturbed
<1>9. CASE UpdateHead(w)
  <2> DEFINE u == [t EXCEPT !.view.head = t.tail, !.pc = "committing"]
  <2>1. /\ Becomes(w, u) /\ writer' = writer /\ db' = db
        /\ t.call.op = "enqueue" /\ t.pc = "inserting" /\ ~HasCurrent(t)
    BY <1>9 DEF UpdateHead, At
  <2>2. t.call.batch \in Seq(Decision) /\ writer = w /\ EnqueueView(t, db)
    BY <2>1, <1>1b, <1>2 DEF Carried, Writing, Writes
  <2>3. t.done = Len(t.call.batch)
    BY <2>1, <2>2 DEF EnqueueView, HasCurrent
  <2>4. /\ u.pc = "committing" /\ u.call = t.call /\ u.done = t.done
        /\ u.view.log = t.view.log /\ u.view.items = t.view.items
    BY <1>1 DEF Transaction, Database
  <2> HIDE DEF u
  <2>5. EnqueueView(u, db)
    BY <2>1, <2>2, <2>3, <2>4 DEF EnqueueView
  <2>6. Carried(u, w, writer', db')
    BY <2>1, <2>2, <2>4, <2>5 DEF Carried, Writes
  <2>7. QED
    BY <2>1, <2>6, OthersUndisturbed
<1>10. ASSUME NEW items, Save(w, items), UNCHANGED <<db, writer>>,
              t.pc = "begun", Writes(t.call), t.call.op # "enqueue",
              MovedView([t EXCEPT !.view.items = items, !.pc = "committing"], db)
       PROVE  Carrying'
  <2> DEFINE u == [t EXCEPT !.view.items = items, !.pc = "committing"]
  <2>1. Becomes(w, u) /\ writer' = writer /\ db' = db
    BY <1>10 DEF Save
  <2>2. u.pc = "committing" /\ u.call = t.call /\ u.done = t.done
    BY <1>1 DEF Transaction
  <2>3. MovedView(u, db)
    BY <1>10
  <2>4. writer = w
    BY <1>2, <1>10 DEF Carried, Writing
  <2> HIDE DEF u
  <2>5. Carried(u, w, writer', db')
    BY <1>10, <2>1, <2>2, <2>3, <2>4 DEF Carried
  <2>6. QED
    BY <2>1, <2>5, OthersUndisturbed
<1>11. ASSUME t.pc = "begun", Writes(t.call), NEW items
       PROVE  LET u == [t EXCEPT !.view.items = items, !.pc = "committing"] IN
              /\ t.view = db /\ u.call = t.call
              /\ u.view.items = items /\ u.view.log = db.log
  <2>1. t.view = db
    BY <1>2, <1>11 DEF Carried, Writing
  <2>2. QED
    BY <2>1, <1>1 DEF Transaction, Database
<1>12. CASE ClaimItems(w)
  <2> DEFINE items == ClaimFront(View(w).items, t.call.moderator, t.call.limit)
             u == [t EXCEPT !.view.items = items, !.pc = "committing"]
  <2>1. /\ Save(w, items) /\ t.pc = "begun" /\ t.call.op = "claim"
        /\ UNCHANGED <<db, writer>>
    BY <1>12 DEF ClaimItems, At
  <2>2. Writes(t.call)
    BY <2>1 DEF Writes
  <2>3. items = ClaimFront(db.items, t.call.moderator, t.call.limit)
    BY <1>11, <2>1, <2>2 DEF View
  <2> HIDE DEF items
  <2>4. u.call = t.call /\ u.view.items = items /\ u.view.log = db.log
    BY <1>11, <2>1, <2>2
  <2> HIDE DEF u
  <2>5. MovedView(u, db)
    BY <2>1, <2>3, <2>4 DEF MovedView
  <2>6. QED
    BY <1>10, <2>1, <2>2, <2>5 DEF u
<1>13. CASE ReleaseItem(w)
  <2> DEFINE r == t.call.review_id
             items == [View(w).items EXCEPT ![r] = Release(@)]
             u == [t EXCEPT !.view.items = items, !.pc = "committing"]
  <2>1. CASE Rollback(w, "refused")
    BY <2>1, AnswerLeaves
  <2>2. CASE ~Rollback(w, "refused")
    <3>1. /\ Save(w, items) /\ t.pc = "begun" /\ t.call.op = "release"
          /\ r \in InState(View(w).items, "claimed") /\ UNCHANGED <<db, writer>>
      BY <1>13, <2>2 DEF ReleaseItem, At
    <3>2. Writes(t.call)
      BY <3>1 DEF Writes
    <3>3. View(w).items = db.items
      BY <1>11, <3>1, <3>2 DEF View
    <3>4. /\ items = [db.items EXCEPT ![r] = Release(@)]
          /\ r \in InState(db.items, "claimed")
      BY <3>1, <3>3
    <3> HIDE DEF items
    <3>5. u.call = t.call /\ u.view.items = items /\ u.view.log = db.log
      BY <1>11, <3>1, <3>2
    <3> HIDE DEF u
    <3>6. MovedView(u, db)
      BY <3>1, <3>4, <3>5 DEF MovedView
    <3>7. QED
      BY <1>10, <3>1, <3>2, <3>6 DEF u
  <2>3. QED
    BY <2>1, <2>2
<1>14. CASE ResolveItem(w)
  <2> DEFINE r == t.call.review_id
             items == [View(w).items EXCEPT
                         ![r] = Resolve(@, t.call.moderator, t.call.outcome)]
             u == [t EXCEPT !.view.items = items, !.pc = "committing"]
  <2>1. CASE Rollback(w, "refused")
    BY <2>1, AnswerLeaves
  <2>2. CASE ~Rollback(w, "refused")
    <3>1. /\ Save(w, items) /\ t.pc = "begun" /\ t.call.op = "resolve"
          /\ r \in Queued(View(w).items) \ InState(View(w).items, "resolved")
          /\ UNCHANGED <<db, writer>>
      BY <1>14, <2>2 DEF ResolveItem, At
    <3>2. Writes(t.call)
      BY <3>1 DEF Writes
    <3>3. View(w).items = db.items
      BY <1>11, <3>1, <3>2 DEF View
    <3>4. /\ items = [db.items EXCEPT
                        ![r] = Resolve(@, t.call.moderator, t.call.outcome)]
          /\ r \in Queued(db.items) \ InState(db.items, "resolved")
      BY <3>1, <3>3
    <3> HIDE DEF items
    <3>5. u.call = t.call /\ u.view.items = items /\ u.view.log = db.log
      BY <1>11, <3>1, <3>2
    <3> HIDE DEF u
    <3>6. MovedView(u, db)
      BY <3>1, <3>4, <3>5 DEF MovedView
    <3>7. QED
      BY <1>10, <3>1, <3>2, <3>6 DEF u
  <2>3. QED
    BY <2>1, <2>2
<1>15. ASSUME NEW u, Becomes(w, u), u.pc \in {"idle", "reading", "answered"},
              UNCHANGED <<db, writer>>
       PROVE  Carrying'
  BY <1>15, LeavingOff
<1>16. CASE ReadPage(w)
  <2> DEFINE page == Slice(View(w).items, Matching(View(w).items, t.call.page.state),
                           t.call.page.offset, t.call.page.limit)
  <2>1. [t EXCEPT !.page = page, !.pc = "reading"].pc = "reading"
    BY <1>1 DEF Transaction
  <2>2. QED
    BY <1>15, <1>16, <2>1 DEF ReadPage
<1>17. CASE ReadStats(w)
  <2> DEFINE total == Cardinality(Matching(View(w).items, t.call.page.state))
  <2>1. [t EXCEPT !.total = total, !.status = "ok", !.view = EmptyDatabase,
                  !.pc = "answered"].pc = "answered"
    BY <1>1 DEF Transaction
  <2>2. QED
    BY <1>15, <1>17, <2>1 DEF ReadStats
<1>18. CASE ReadAnchor(w)
  <2>1. [t EXCEPT !.tail = View(w).head, !.pc = "reading"].pc = "reading"
    BY <1>1 DEF Transaction
  <2>2. QED
    BY <1>15, <1>18, <2>1 DEF ReadAnchor
<1>19. CASE ReadRecords(w)
  <2> DEFINE verdict == Verdict(View(w).log, t.tail)
  <2>1. [Idle EXCEPT !.pc = "answered", !.status = "ok", !.verdict = verdict].pc = "answered"
    BY DEF Idle
  <2>2. QED
    BY <1>15, <1>19, <2>1 DEF ReadRecords
<1>20. CASE Commit(w)
  <2>1. [Idle EXCEPT !.pc = "answered", !.status = "ok"].pc = "answered"
    BY DEF Idle
  <2>2. writer = w
    BY <1>2, <1>20 DEF Carried, Writing, Commit
  <2>3. QED
    BY <1>20, <2>1, <2>2, LeavingOff DEF Commit, Answer
<1>21. CASE Return(w)
  <2>1. Idle.pc = "idle"
    BY DEF Idle
  <2>2. QED
    BY <1>15, <1>21, <2>1 DEF Return
<1>22. QED
  BY <1>3, <1>4, <1>5, <1>6, <1>7, <1>8, <1>9, <1>12, <1>13, <1>14, <1>16, <1>17,
     <1>18, <1>19, <1>20, <1>21 DEF Step

\* In every reachable state the open write transaction is the committed
\* database and what its call has written so far.
LEMMA AlwaysCarrying == Spec => []Carrying
<1>1. Init => Carrying
  <2>1. Idle.pc = "idle"
    BY DEF Idle
  <2>2. QED
    BY <2>1, NothingCarried DEF Init, Carrying
<1>2. TypeOK /\ Carrying /\ [Next]_vars => Carrying'
  <2> SUFFICES ASSUME TypeOK, Carrying, [Next]_vars PROVE Carrying'
    OBVIOUS
  <2>1. CASE Accident
    <3>1. writer = NoWorker /\ writer' = writer /\ txn' = txn
      BY <2>1 DEF Accident, LoseRow, EditRow
    <3>2. SUFFICES ASSUME NEW v \in Workers PROVE Carried(txn[v], v, writer, db')
      BY <3>1 DEF Carrying
    <3>3. Carried(txn[v], v, writer, db) /\ v # NoWorker
      BY StoreAssumption DEF Carrying
    <3>4. QED
      BY <3>1, <3>3 DEF Carried
  <2>2. ASSUME NEW w \in Workers, Step(w) PROVE Carrying'
    BY <2>2, StepCarries
  <2>3. ASSUME NEW w \in Workers, NEW call \in Calls, Request(w, call)
        PROVE  Carrying'
    <3> DEFINE u == [Idle EXCEPT !.pc = "waiting", !.call = call]
    <3>1. u.pc = "waiting" /\ u.done = 0
      BY DEF Idle
    <3>2. Becomes(w, u) /\ writer' = writer /\ db' = db
      BY <2>3 DEF Request
    <3> HIDE DEF u
    <3>3. Carried(u, w, writer', db')
      BY <3>1 DEF Carried, Writing
    <3>4. QED
      BY <3>2, <3>3, OthersUndisturbed
  <2>4. ASSUME NEW w \in Workers, Fail(w) PROVE Carrying'
    BY <2>4, AnswerLeaves DEF Fail
  <2>5. ASSUME NEW w \in Workers, Crash(w) PROVE Carrying'
    <3>1. Idle.pc = "idle"
      BY DEF Idle
    <3>2. QED
      BY <2>5, <3>1, LeavingOff DEF Crash
  <2>6. CASE UNCHANGED vars
    BY <2>6 DEF vars, Carrying
  <2>7. QED
    BY <2>1, <2>2, <2>3, <2>4, <2>5, <2>6 DEF Next
<1>3. QED
  BY <1>1, <1>2, TypeCorrect, PTL DEF Spec

-----------------------------------------------------------------------------
(* What a call does to the items.                                          *)

\* Items move forward, no claim is taken over, and what is claimed is the front.
MovesForward(items, later) ==
  \A r \in Queued(items) :
    /\ later[r] # NoItem
    /\ later[r].decision = items[r].decision
    /\ later[r].queued_at = items[r].queued_at
    /\ items[r].state = "resolved" => later[r] = items[r]

KeepsHolders(items, later) ==
  \A r \in InState(items, "claimed") \cap InState(later, "claimed") :
    later[r].claimed_by = items[r].claimed_by

TakesFront(items, later) ==
  \A r \in InState(items, "pending") \cap InState(later, "claimed") :
    \A q \in InState(later, "pending") : ~Ahead(later[q], items[r])

InOrder(items, later) ==
  MovesForward(items, later) /\ KeepsHolders(items, later) /\ TakesFront(items, later)

\* Enqueueing a batch touches no item that is there.
LEMMA BatchInOrder ==
  ASSUME NEW items \in Queue, NEW later, NEW batch, NEW k, QueuedFrom(items, later, batch, k)
  PROVE  InOrder(items, later)
<1>1. \A r \in Queued(items) : later[r] = items[r]
  BY DEF Queued, QueuedFrom
<1>2. \A r \in Queued(items) : items[r] # NoItem
  BY DEF Queued
<1>3. \A s : InState(items, s) \subseteq Queued(items)
  BY DEF InState, Queued
<1>4. InState(items, "pending") \cap InState(later, "claimed") = {}
  BY <1>1, <1>3 DEF InState
<1>5. QED
  BY <1>1, <1>2, <1>3, <1>4 DEF InOrder, MovesForward, KeepsHolders, TakesFront

\* One item that goes back or is resolved is not a claim.
LEMMA OneItemInOrder ==
  ASSUME NEW items \in Queue, NEW r \in Queued(items), NEW item \in QueueItem,
         item.state # "claimed", items[r].state # "resolved",
         item.decision = items[r].decision, item.queued_at = items[r].queued_at
  PROVE  InOrder(items, [items EXCEPT ![r] = item])
<1> DEFINE later == [items EXCEPT ![r] = item]
<1>1. /\ \A q \in Reviews : q # r => later[q] = items[q]
      /\ later[r] = item /\ item # NoItem
  BY NoItemAssumption DEF Queue, Queued
<1> HIDE DEF later
<1>2. MovesForward(items, later)
  BY <1>1 DEF MovesForward, Queued
<1>3. \A q \in InState(later, "claimed") : later[q] = items[q]
  BY <1>1 DEF InState
<1>4. KeepsHolders(items, later)
  BY <1>3 DEF KeepsHolders
<1>5. InState(items, "pending") \cap InState(later, "claimed") = {}
  BY <1>3 DEF InState
<1>6. QED
  BY <1>2, <1>4, <1>5 DEF InOrder, TakesFront, later

\* The working order is an order.
LEMMA AheadIsTransitive ==
  ASSUME NEW i \in QueueItem, NEW j \in QueueItem, NEW k \in QueueItem,
         Ahead(i, j), Ahead(j, k)
  PROVE  Ahead(i, k)
<1>1. \A x \in QueueItem : /\ x.decision.score \in Nat /\ x.queued_at \in Nat
                           /\ x.decision.review_id \in Nat
  BY QueueAssumption DEF QueueItem, Decision
<1>2. QED
  BY <1>1 DEF Ahead

\* Nothing comes before itself.
LEMMA AheadIsStrict ==
  ASSUME NEW i \in QueueItem
  PROVE  ~Ahead(i, i)
<1>1. /\ i.decision.score \in Nat /\ i.queued_at \in Nat
      /\ i.decision.review_id \in Nat
  BY QueueAssumption DEF QueueItem, Decision
<1>2. QED
  BY <1>1 DEF Ahead

\* Who is worked before q has fewer members of S before it than q has.
LEMMA RankFollowsOrder ==
  ASSUME NEW items \in Queue, NEW S \in SUBSET Queued(items), NEW q \in S, NEW r \in S,
         Ahead(items[q], items[r])
  PROVE  Rank(items, S, q) \in Nat /\ Rank(items, S, r) \in Nat
         /\ Rank(items, S, q) <= Rank(items, S, r)
<1> DEFINE before(x) == {p \in S : Ahead(items[p], items[x])}
<1>1. \A p \in S : items[p] \in QueueItem
  BY DEF Queue, Queued
<1>2. before(q) \subseteq before(r)
  BY <1>1, AheadIsTransitive
<1>3. IsFiniteSet(Reviews) /\ S \subseteq Reviews
  BY QueueAssumption DEF Queued
<1>4. IsFiniteSet(S)
  BY <1>3, FS_Subset
<1>5. before(r) \subseteq S
  OBVIOUS
<1>6. IsFiniteSet(before(r))
  BY <1>4, <1>5, FS_Subset
<1> HIDE DEF before
<1>7. IsFiniteSet(before(q)) /\ Cardinality(before(q)) <= Cardinality(before(r))
  BY <1>2, <1>6, FS_Subset
<1>8. Cardinality(before(q)) \in Nat /\ Cardinality(before(r)) \in Nat
  BY <1>6, <1>7, FS_CardinalityType
<1>9. Rank(items, S, q) = Cardinality(before(q)) /\ Rank(items, S, r) = Cardinality(before(r))
  BY DEF Rank, before
<1>10. QED
  BY <1>7, <1>8, <1>9

\* A claim takes pending items from the front.
LEMMA ClaimInOrder ==
  ASSUME NEW items \in Queue, NEW m \in Moderators, NEW n \in Nat
  PROVE  InOrder(items, ClaimFront(items, m, n))
<1> DEFINE later == ClaimFront(items, m, n)
           pending == InState(items, "pending")
           front == Slice(items, pending, 0, n)
<1>1. /\ front = {r \in pending : Rank(items, pending, r) >= 0 /\ Rank(items, pending, r) < 0 + n}
      /\ pending \subseteq Queued(items)
  BY DEF Slice, InState, Queued
<1>2. \A r \in Reviews :
        later[r] = IF r \in front THEN Claim(items[r], m) ELSE items[r]
  BY DEF ClaimFront
<1>3. front \subseteq pending /\ pending \in SUBSET Queued(items) /\ Queued(items) \subseteq Reviews
  BY <1>1 DEF Queued
<1>4. \A r \in Queued(items) : items[r] \in QueueItem
  BY DEF Queue, Queued
<1>5. \A r \in front : /\ later[r] \in QueueItem /\ later[r].state = "claimed"
                       /\ later[r].decision = items[r].decision
                       /\ later[r].queued_at = items[r].queued_at
  <2> SUFFICES ASSUME NEW r \in front
               PROVE  /\ later[r] \in QueueItem /\ later[r].state = "claimed"
                      /\ later[r].decision = items[r].decision
                      /\ later[r].queued_at = items[r].queued_at
    OBVIOUS
  <2>1. items[r] \in QueueItem /\ r \in Reviews
    BY <1>3, <1>4
  <2>2. later[r] = Claim(items[r], m)
    BY <1>2, <2>1
  <2> HIDE DEF later, front
  <2>3. QED
    BY <2>1, <2>2 DEF Claim, QueueItem, QueueState
<1> HIDE DEF later, front
<1>6. \A r \in Reviews \ front : later[r] = items[r]
  BY <1>2
<1>7. \A r \in pending : items[r].state = "pending"
  BY DEF InState
<1>8. MovesForward(items, later)
  <2> SUFFICES ASSUME NEW r \in Queued(items)
               PROVE  /\ later[r] # NoItem
                      /\ later[r].decision = items[r].decision
                      /\ later[r].queued_at = items[r].queued_at
                      /\ items[r].state = "resolved" => later[r] = items[r]
    BY DEF MovesForward
  <2>1. CASE r \in front
    BY <2>1, <1>3, <1>5, <1>7, NoItemAssumption
  <2>2. CASE r \notin front
    BY <2>2, <1>3, <1>6 DEF Queued
  <2>3. QED
    BY <2>1, <2>2
<1>9. KeepsHolders(items, later)
  <2>1. \A r \in InState(items, "claimed") : r \in Reviews \ front
    BY <1>3, <1>7 DEF InState
  <2>2. QED
    BY <2>1, <1>6 DEF KeepsHolders
<1>10. TakesFront(items, later)
  <2> SUFFICES ASSUME NEW r \in InState(items, "pending"), r \in InState(later, "claimed"),
                      NEW q \in InState(later, "pending"), Ahead(later[q], items[r])
               PROVE  FALSE
    BY DEF TakesFront
  <2>1. r \in front
    BY <1>6, <1>7 DEF InState
  <2>2. q \in Reviews \ front
    BY <1>5 DEF InState
  <2>3. later[q] = items[q] /\ q \in pending
    BY <2>2, <1>6 DEF InState
  <2>4. /\ Rank(items, pending, q) \in Nat /\ Rank(items, pending, r) \in Nat
        /\ Rank(items, pending, q) <= Rank(items, pending, r)
    BY <2>3, <1>3, RankFollowsOrder
  <2>5. QED
    BY <2>1, <2>2, <2>3, <2>4, <1>1
<1>11. QED
  BY <1>8, <1>9, <1>10 DEF InOrder, later

-----------------------------------------------------------------------------
(* A commit is a step of the ledger.                                       *)

\* What a call is asked to do.
LEMMA AskedFor ==
  ASSUME NEW call \in Calls \cup {NoCall}
  PROVE  /\ call.op = "enqueue" => call.batch \in Batches
         /\ call.op = "claim" => call.moderator \in Moderators /\ call.limit \in ClaimLimits
         /\ call.op = "release" => call.review_id \in Reviews
         /\ call.op = "resolve" => /\ call.review_id \in Reviews
                                  /\ call.moderator \in Moderators
                                  /\ call.outcome \in Outcomes
BY DEF Calls, NoCall

\* The ledger speaks of the same queue.
LEMMA SameQueue ==
  /\ \A items, m, n : Ledger!ClaimFront(items, m, n) = ClaimFront(items, m, n)
  /\ \A items, s : Ledger!InState(items, s) = InState(items, s)
  /\ \A items : Ledger!Queued(items) = Queued(items)
  /\ \A item : Ledger!Release(item) = Release(item)
  /\ \A item, m, o : Ledger!Resolve(item, m, o) = Resolve(item, m, o)
  /\ \A d, now : Ledger!NewItem(d, now) = NewItem(d, now)
  /\ Ledger!EmptyQueue = EmptyQueue
<1>1. \A items, m, n : Ledger!ClaimFront(items, m, n) = ClaimFront(items, m, n)
  <2> TAKE items, m, n
  <2>1. \A S, r : Ledger!Rank(items, S, r) = Rank(items, S, r)
    <3> TAKE S, r
    <3>1. \A i, j : Ledger!Ahead(i, j) <=> Ahead(i, j)
      BY DEF Ledger!Ahead, Ahead
    <3>2. {q \in S : Ledger!Ahead(items[q], items[r])} =
            {q \in S : Ahead(items[q], items[r])}
      BY <3>1
    <3>3. \A T : Ledger!Cardinality(T) = Cardinality(T)
      BY DEF Ledger!Cardinality, Cardinality
    <3>4. QED
      BY <3>2, <3>3 DEF Ledger!Rank, Rank
  <2>2. \A S, o, k : Ledger!Slice(items, S, o, k) = Slice(items, S, o, k)
    BY <2>1 DEF Ledger!Slice, Slice
  <2>3. \A s : Ledger!InState(items, s) = InState(items, s)
    BY DEF Ledger!InState, InState
  <2>4. \A item : Ledger!Claim(item, m) = Claim(item, m)
    BY DEF Ledger!Claim, Claim
  <2>5. QED
    BY <2>2, <2>3, <2>4 DEF Ledger!ClaimFront, ClaimFront
<1>2. \A items, s : Ledger!InState(items, s) = InState(items, s)
  BY DEF Ledger!InState, InState
<1>3. \A items : Ledger!Queued(items) = Queued(items)
  BY DEF Ledger!Queued, Queued
<1>4. \A item : Ledger!Release(item) = Release(item)
  BY DEF Ledger!Release, Release
<1>5. \A item, m, o : Ledger!Resolve(item, m, o) = Resolve(item, m, o)
  BY DEF Ledger!Resolve, Resolve
<1>6. \A d, now : Ledger!NewItem(d, now) = NewItem(d, now)
  BY DEF Ledger!NewItem, NewItem
<1>7. Ledger!EmptyQueue = EmptyQueue
  BY DEF Ledger!EmptyQueue, EmptyQueue
<1>8. QED
  BY <1>1, <1>2, <1>3, <1>4, <1>5, <1>6, <1>7

\* The first position of a set of naturals that has one.
LEMMA FirstIs ==
  ASSUME NEW S \in SUBSET Nat, NEW i \in S, \A j \in S : ~(j < i)
  PROVE  Ledger!First(S) = i
<1>1. \A j \in S : i <= j
  OBVIOUS
<1>2. \A k \in S : (\A j \in S : k <= j) => k = i
  BY <1>1
<1>3. QED
  BY <1>1, <1>2 DEF Ledger!First

\* A whole batch has reached the queue as the ledger submits it.
LEMMA WholeBatchQueued ==
  ASSUME NEW batch \in Seq(Decision), NEW later \in Queue, Times # {},
         QueuedFrom(db.items, later, batch, Len(batch))
  PROVE  \E now \in [Reviews -> Times] : later = Ledger!AfterBatch(batch, now)
<1> DEFINE stamped(r, n) ==
             \E i \in 1..Len(batch) :
               FirstFlags(batch, i, r) /\ later[r] = NewItem(batch[i], n)
           now == [r \in Reviews |->
                     IF \E n \in Times : stamped(r, n)
                     THEN CHOOSE n \in Times : stamped(r, n)
                     ELSE CHOOSE n \in Times : TRUE]
<1>1. now \in [Reviews -> Times]
  OBVIOUS
<1>2. \A r \in Reviews : (\E n \in Times : stamped(r, n)) => stamped(r, now[r])
  OBVIOUS
<1> HIDE DEF now
<1>3. later = [r \in Reviews |-> later[r]]
  BY DEF Queue
<1>4. ASSUME NEW r \in Reviews
      PROVE  later[r] = IF db.items[r] = NoItem /\ Ledger!Flagging(batch, r) # {}
                        THEN NewItem(batch[Ledger!First(Ledger!Flagging(batch, r))], now[r])
                        ELSE db.items[r]
  <2>1. Ledger!Flagging(batch, r) \in SUBSET (1..Len(batch))
    BY DEF Ledger!Flagging
  <2>2. CASE db.items[r] # NoItem
    BY <2>2 DEF QueuedFrom
  <2>3. CASE db.items[r] = NoItem /\ Ledger!Flagging(batch, r) = {}
    <3>1. ~\E i \in 1..Len(batch) : FirstFlags(batch, i, r)
      BY <2>3 DEF FirstFlags
    <3>2. later[r] = NoItem
      BY <2>3, <3>1 DEF QueuedFrom
    <3>3. QED
      BY <2>3, <3>2
  <2>4. CASE db.items[r] = NoItem /\ Ledger!Flagging(batch, r) # {}
    <3>1. ~(\A i \in Ledger!Flagging(batch, r) : i > Len(batch))
      BY <2>1, <2>4
    <3>2. \E n \in Times : stamped(r, n)
      BY <2>4, <3>1 DEF QueuedFrom
    <3>3. PICK i \in 1..Len(batch) :
            FirstFlags(batch, i, r) /\ later[r] = NewItem(batch[i], now[r])
      BY <1>2, <3>2
    <3>4. Ledger!First(Ledger!Flagging(batch, r)) = i
      <4>1. Ledger!Flagging(batch, r) \in SUBSET Nat
        BY <2>1
      <4>2. QED
        BY <3>3, <4>1, FirstIs DEF FirstFlags
    <3>5. QED
      BY <2>4, <3>3, <3>4
  <2>5. QED
    BY <2>2, <2>3, <2>4
<1>5. Ledger!AfterBatch(batch, now) =
        [r \in Reviews |->
           IF db.items[r] = NoItem /\ Ledger!Flagging(batch, r) # {}
           THEN NewItem(batch[Ledger!First(Ledger!Flagging(batch, r))], now[r])
           ELSE db.items[r]]
  BY SameQueue DEF Ledger!AfterBatch
<1>6. QED
  BY <1>1, <1>3, <1>4, <1>5

\* Where the elements of a concatenation come from.
LEMMA Concatenation ==
  ASSUME NEW a \in Seq(Decision), NEW b \in Seq(Decision)
  PROVE  /\ a \o b \in Seq(Decision) /\ Len(a \o b) = Len(a) + Len(b)
         /\ \A i \in 1..Len(a) : (a \o b)[i] = a[i]
         /\ \A i \in (Len(a) + 1)..(Len(a) + Len(b)) : (a \o b)[i] = b[i - Len(a)]
<1>1. a \o b \in Seq(Decision) /\ Len(a \o b) = Len(a) + Len(b)
  OBVIOUS
<1>2. \A i \in 1..Len(a) : (a \o b)[i] = a[i]
  OBVIOUS
<1>3. \A i \in (Len(a) + 1)..(Len(a) + Len(b)) : (a \o b)[i] = b[i - Len(a)]
  OBVIOUS
<1>4. QED
  BY <1>1, <1>2, <1>3

\* A whole batch has reached the log as the ledger submits it.
LEMMA WholeBatchLogged ==
  ASSUME NEW log \in Seq(AuditRecord), NEW longer \in Seq(AuditRecord),
         NEW batch \in Seq(Decision), LoggedFrom(log, longer, batch, Len(batch))
  PROVE  Decisions(longer) = Decisions(log) \o batch
<1>1. \A l \in Seq(AuditRecord) : /\ Decisions(l) \in Seq(Decision)
                                 /\ Len(Decisions(l)) = Len(l)
                                 /\ \A i \in 1..Len(l) : Decisions(l)[i] = l[i].decision
  <2> SUFFICES ASSUME NEW l \in Seq(AuditRecord)
               PROVE  /\ Decisions(l) \in Seq(Decision)
                      /\ Len(Decisions(l)) = Len(l)
                      /\ \A i \in 1..Len(l) : Decisions(l)[i] = l[i].decision
    OBVIOUS
  <2>1. \A i \in 1..Len(l) : l[i] \in AuditRecord
    OBVIOUS
  <2>2. \A i \in 1..Len(l) : l[i].decision \in Decision
    BY <2>1 DEF AuditRecord
  <2>3. Len(l) \in Nat
    OBVIOUS
  <2>4. QED
    BY <2>2, <2>3 DEF Decisions
<1> DEFINE old == Decisions(log)
           new == Decisions(longer)
<1>2. /\ old \in Seq(Decision) /\ Len(old) = Len(log) /\ Len(log) \in Nat
      /\ new \in Seq(Decision) /\ Len(new) = Len(longer)
      /\ \A i \in 1..Len(log) : old[i] = log[i].decision
      /\ \A i \in 1..Len(longer) : new[i] = longer[i].decision
  BY <1>1
<1> HIDE DEF old, new
<1>3. Len(longer) = Len(log) + Len(batch) /\ Len(batch) \in Nat
  BY DEF LoggedFrom
<1>4. /\ old \o batch \in Seq(Decision) /\ Len(old \o batch) = Len(old) + Len(batch)
      /\ \A i \in 1..Len(old) : (old \o batch)[i] = old[i]
      /\ \A i \in (Len(old) + 1)..(Len(old) + Len(batch)) : (old \o batch)[i] = batch[i - Len(old)]
  BY <1>2, Concatenation
<1>5. ASSUME NEW i \in 1..Len(new) PROVE new[i] = (old \o batch)[i]
  <2>1. CASE i \in 1..Len(log)
    BY <2>1, <1>2, <1>3, <1>4 DEF LoggedFrom
  <2>2. CASE i \in (Len(log) + 1)..(Len(log) + Len(batch))
    <3>1. i - Len(log) \in 1..Len(batch) /\ i = Len(log) + (i - Len(log))
      BY <2>2, <1>2, <1>3
    <3>2. longer[Len(log) + (i - Len(log))].decision = batch[i - Len(log)]
      BY <3>1 DEF LoggedFrom
    <3>3. QED
      BY <2>2, <3>1, <3>2, <1>2, <1>3, <1>4
  <2>3. QED
    BY <2>1, <2>2, <1>2, <1>3
<1>6. Len(new) = Len(old \o batch)
  BY <1>2, <1>3, <1>4
<1>7. new = old \o batch
  BY <1>2, <1>4, <1>5, <1>6
<1>8. QED
  BY <1>7 DEF old, new

\* Where the decisions of two logs are the same, so is what they record.
LEMMA SameLog ==
  ASSUME NEW log \in Seq(AuditRecord), NEW longer \in Seq(AuditRecord),
         LoggedFrom(log, longer, <<>>, 0)
  PROVE  Decisions(longer) = Decisions(log)
<1>1. Len(longer) = Len(log) /\ \A i \in 1..Len(log) : longer[i].decision = log[i].decision
  BY DEF LoggedFrom
<1>2. QED
  BY <1>1 DEF Decisions

\* What is committed is one step of the ledger, or nothing.
LEMMA CommitIsOneStep ==
  ASSUME TypeOK, Carrying, NEW w \in Workers, Commit(w)
  PROVE  /\ Ledger!Next \/ UNCHANGED Ledger!ledgerVars
         /\ InOrder(db.items, db'.items)
<1> DEFINE t == txn[w]
           call == t.call
<1>1. t \in Transaction /\ t.view \in Database /\ db \in Database
  BY DEF TypeOK, Transaction
<1>2. /\ t.view.log \in Seq(AuditRecord) /\ t.view.items \in Queue
      /\ db.log \in Seq(AuditRecord) /\ db.items \in Queue
  BY <1>1 DEF Database
<1>3. t.pc = "committing" /\ db' = t.view
  BY DEF Commit, View
<1>4. /\ Writes(call)
      /\ call.op = "enqueue" => EnqueueView(t, db)
      /\ call.op # "enqueue" => MovedView(t, db)
  BY <1>3 DEF Carrying, Carried, Writing
<1>5. call \in Calls \cup {NoCall}
  BY <1>1 DEF Transaction
<1>6. CASE call.op = "enqueue"
  <2>1. call.batch \in Batches /\ call.batch \in Seq(Decision)
    BY <1>5, <1>6, AskedFor, StoreAssumption
  <2>2. /\ t.done = Len(call.batch) /\ t.done \in Nat
        /\ t.done > 0 => Times # {}
        /\ QueuedFrom(db.items, t.view.items, call.batch, Len(call.batch))
        /\ LoggedFrom(db.log, t.view.log, call.batch, Len(call.batch))
    BY <1>1, <1>3, <1>4, <1>6 DEF EnqueueView, Transaction
  <2>3. InOrder(db.items, db'.items)
    BY <1>2, <1>3, <2>2, BatchInOrder
  <2>4. Decisions(db.log)' = Decisions(db.log) \o call.batch
    <3>1. Decisions(t.view.log) = Decisions(db.log) \o call.batch
      BY <1>2, <2>1, <2>2, WholeBatchLogged
    <3>2. QED
      BY <3>1, <1>3
  <2>5. CASE Times # {}
    <3>1. \E now \in [Reviews -> Times] : t.view.items = Ledger!AfterBatch(call.batch, now)
      BY <1>2, <2>1, <2>2, <2>5, WholeBatchQueued
    <3>2. \E now \in [Reviews -> Times] : db'.items = Ledger!AfterBatch(call.batch, now)
      BY <1>3, <3>1
    <3>3. Ledger!Submit(call.batch)
      BY <2>4, <3>2 DEF Ledger!Submit
    <3>4. QED
      BY <2>1, <2>3, <3>3 DEF Ledger!Next
  <2>6. CASE Times = {}
    <3>1. Len(call.batch) = 0
      BY <2>2, <2>6
    <3>2. call.batch = <<>>
      BY <2>1, <3>1
    <3>3. db'.items = db.items
      <4>1. \A r \in Reviews : t.view.items[r] = db.items[r]
        BY <2>2, <2>6 DEF QueuedFrom
      <4>2. t.view.items = db.items
        BY <1>2, <4>1 DEF Queue
      <4>3. QED
        BY <1>3, <4>2
    <3>4. Decisions(t.view.log) = Decisions(db.log)
      BY <1>2, <2>2, <3>1, <3>2, SameLog
    <3>5. Decisions(db.log)' = Decisions(db.log)
      BY <1>3, <3>4
    <3>6. QED
      BY <2>3, <3>3, <3>5 DEF Ledger!ledgerVars
  <2>7. QED
    BY <2>5, <2>6
<1>7. call.op # "enqueue" => Decisions(db.log)' = Decisions(db.log)
  BY <1>3, <1>4 DEF MovedView
<1>8. CASE call.op = "claim"
  <2>1. /\ call.moderator \in Moderators /\ call.limit \in ClaimLimits
        /\ call.limit \in Nat
    BY <1>5, <1>8, AskedFor, StoreAssumption
  <2>2. db'.items = ClaimFront(db.items, call.moderator, call.limit)
    BY <1>3, <1>4, <1>8 DEF MovedView
  <2>3. InOrder(db.items, db'.items)
    BY <1>2, <2>1, <2>2, ClaimInOrder
  <2>4. Ledger!ClaimNext(call.moderator, call.limit)
    BY <1>7, <1>8, <2>2, SameQueue DEF Ledger!ClaimNext
  <2>5. QED
    BY <2>1, <2>3, <2>4 DEF Ledger!Next
<1>9. CASE call.op = "release"
  <2> DEFINE r == call.review_id
  <2>1. /\ r \in InState(db.items, "claimed")
        /\ db'.items = [db.items EXCEPT ![r] = Release(db.items[r])]
    BY <1>3, <1>4, <1>9 DEF MovedView
  <2>2. r \in Queued(db.items) /\ db.items[r] \in QueueItem /\ db.items[r].state = "claimed"
    BY <1>2, <2>1 DEF InState, Queued, Queue
  <2>3. /\ Release(db.items[r]) \in QueueItem
        /\ Release(db.items[r]).decision = db.items[r].decision
        /\ Release(db.items[r]).queued_at = db.items[r].queued_at
        /\ Release(db.items[r]).state = "pending"
    BY <2>2, ReleaseTyped DEF Release, QueueItem
  <2>4. InOrder(db.items, db'.items)
    BY <1>2, <2>1, <2>2, <2>3, OneItemInOrder
  <2>5. Ledger!GiveBack(r)
    BY <1>7, <1>9, <2>1, SameQueue DEF Ledger!GiveBack
  <2>6. r \in Reviews
    BY <1>5, <1>9, AskedFor
  <2>7. QED
    BY <2>4, <2>5, <2>6 DEF Ledger!Next
<1>10. CASE call.op = "resolve"
  <2> DEFINE r == call.review_id
             item == Resolve(db.items[r], call.moderator, call.outcome)
  <2>1. /\ r \in Queued(db.items) \ InState(db.items, "resolved")
        /\ db'.items = [db.items EXCEPT ![r] = item]
    BY <1>3, <1>4, <1>10 DEF MovedView
  <2>2. /\ r \in Queued(db.items) /\ db.items[r] \in QueueItem
        /\ db.items[r].state # "resolved"
    BY <1>2, <2>1 DEF InState, Queued, Queue
  <2>3. r \in Reviews /\ call.moderator \in Moderators /\ call.outcome \in Outcomes
    BY <1>5, <1>10, AskedFor
  <2>4. /\ item \in QueueItem
        /\ item.decision = db.items[r].decision
        /\ item.queued_at = db.items[r].queued_at
        /\ item.state = "resolved"
    BY <2>2, <2>3, ResolveTyped DEF Resolve, QueueItem
  <2>5. Ledger!Decide(r, call.moderator, call.outcome)
    BY <1>7, <1>10, <2>1, SameQueue DEF Ledger!Decide
  <2> HIDE DEF item
  <2>6. InOrder(db.items, db'.items)
    BY <1>2, <2>1, <2>2, <2>4, OneItemInOrder
  <2>7. QED
    BY <2>3, <2>5, <2>6 DEF Ledger!Next
<1>11. QED
  BY <1>4, <1>6, <1>8, <1>9, <1>10 DEF Writes

\* Nothing but a commit changes the queue, and nothing but a commit or an
\* accident the log.
LEMMA OnlyCommitsMove ==
  ASSUME TypeOK, [Next]_vars
  PROVE  \/ \E w \in Workers : Commit(w)
         \/ Accident /\ db'.items = db.items
         \/ db' = db
<1>1. CASE Accident
  <2>1. db'.items = db.items
    BY <1>1 DEF Accident, LoseRow, EditRow, TypeOK, Database
  <2>2. QED
    BY <1>1, <2>1
<1>2. ASSUME NEW w \in Workers, Step(w), ~Commit(w) PROVE db' = db
  BY <1>2 DEF Step, BeginWrite, BeginRead, Busy, StartEnqueue, Rollback, InsertRecord,
     QueueDecision, UpdateHead, ClaimItems, ReleaseItem, ResolveItem, ReadPage,
     ReadStats, ReadAnchor, ReadRecords, Return
<1>3. ASSUME NEW w \in Workers, NEW call \in Calls, Request(w, call) PROVE db' = db
  BY <1>3 DEF Request
<1>4. ASSUME NEW w \in Workers, Fail(w) \/ Crash(w) PROVE db' = db
  BY <1>4 DEF Fail, Rollback, Crash
<1>5. CASE UNCHANGED vars
  BY <1>5 DEF vars
<1>6. QED
  BY <1>1, <1>2, <1>3, <1>4, <1>5 DEF Next

\* A queue that stays as it is stays in order.
LEMMA StandingInOrder ==
  ASSUME NEW items
  PROVE  InOrder(items, items)
BY DEF InOrder, MovesForward, KeepsHolders, TakesFront, InState, Queued

\* Every step keeps the items in order, accidents to the log included.
LEMMA AlwaysInOrder ==
  ASSUME TypeOK, Carrying, [Next]_vars
  PROVE  InOrder(db.items, db'.items)
BY OnlyCommitsMove, CommitIsOneStep, StandingInOrder

-----------------------------------------------------------------------------
(* What follows.                                                           *)

\* No step of the store drops an item, changes what it was queued for, or
\* touches it once it is resolved (SQLiteStore.enqueue, claim, release, resolve).
THEOREM ItemsMoveForward == Spec => ItemsOnlyMoveForward
<1>1. TypeOK /\ Carrying /\ [Next]_vars =>
        [\A r \in Queued(db.items) :
           /\ db'.items[r] # NoItem
           /\ db'.items[r].decision = db.items[r].decision
           /\ db'.items[r].queued_at = db.items[r].queued_at
           /\ db.items[r].state = "resolved" => db'.items[r] = db.items[r]]_vars
  BY AlwaysInOrder DEF InOrder, MovesForward
<1>2. QED
  BY <1>1, TypeCorrect, AlwaysCarrying, PTL DEF Spec, ItemsOnlyMoveForward

\* A claimed item changes hands only by way of a release (SQLiteStore.claim).
THEOREM ClaimsAreNotStolen == Spec => ClaimIsNotStolen
<1>1. TypeOK /\ Carrying /\ [Next]_vars =>
        [\A r \in InState(db.items, "claimed") \cap InState(db'.items, "claimed") :
           db'.items[r].claimed_by = db.items[r].claimed_by]_vars
  BY AlwaysInOrder DEF InOrder, KeepsHolders
<1>2. QED
  BY <1>1, TypeCorrect, AlwaysCarrying, PTL DEF Spec, ClaimIsNotStolen

\* A claim takes the front of the queue as it is when it commits
\* (SQLiteStore.claim, ORDER BY).
THEOREM ClaimsTakeTheFront == Spec => ClaimTakesTheFront
<1>1. TypeOK /\ Carrying /\ [Next]_vars =>
        [\A r \in InState(db.items, "pending") \cap InState(db'.items, "claimed") :
           \A q \in InState(db'.items, "pending") : ~Ahead(db'.items[q], db.items[r])]_vars
  BY AlwaysInOrder DEF InOrder, TakesFront
<1>2. QED
  BY <1>1, TypeCorrect, AlwaysCarrying, PTL DEF Spec, ClaimTakesTheFront

\* As long as nobody edits the database behind its back, the store with all its
\* workers, transactions, failures and deaths is the ledger: every call is one
\* step or nothing (SQLiteStore).
THEOREM StoreIsALedger ==
  ASSUME Accidents = {}
  PROVE  Spec => ImplementsLedger
<1>1. Init => Ledger!Init
  BY SameQueue DEF Init, Ledger!Init, EmptyDatabase, Decisions
<1>2. TypeOK /\ Carrying /\ [Next]_vars => [Ledger!Next]_(Ledger!ledgerVars)
  <2> SUFFICES ASSUME TypeOK, Carrying, [Next]_vars
               PROVE  Ledger!Next \/ UNCHANGED Ledger!ledgerVars
    OBVIOUS
  <2>1. ~Accident
    BY DEF Accident, LoseRow, EditRow
  <2>2. CASE db' = db
    BY <2>2 DEF Ledger!ledgerVars
  <2>3. QED
    BY <2>1, <2>2, OnlyCommitsMove, CommitIsOneStep
<1>3. QED
  BY <1>1, <1>2, TypeCorrect, AlwaysCarrying, PTL DEF Spec, ImplementsLedger, Ledger!Spec
-----------------------------------------------------------------------------
(***************************************************************************)
(* That no call makes a damaged log verify again.                          *)
(***************************************************************************)

-----------------------------------------------------------------------------
(* How damage shows.                                                       *)

Numbered(log) == \A k \in 1..Len(log) : log[k].sequence = k

Altered(log) == \E k \in 1..Len(log) : ~ContentIntact(log[k])

RowLost(harm) == "row lost" \in harm

\* A log whose next record gets the number n + 1 shows the damage: after a row
\* was lost a number is wrong or the log is too short, and as long as rows were
\* only edited one of them does not match its hash.
Shows(log, n, harm) ==
  IF RowLost(harm)
  THEN ~Numbered(log) \/ Len(log) < n
  ELSE Numbered(log) /\ Len(log) = n /\ Altered(log)

\* The number of the record the open transaction considers the last.
LastNumber(t) ==
  IF t.pc \in {"inserting", "queueing"} THEN t.tail.records ELSE t.view.head.records

ShownBy(t) ==
  t.pc \in Writing /\ Writes(t.call) /\ damage # {} =>
    Shows(t.view.log, LastNumber(t), damage)

Shown ==
  /\ damage # {} => Shows(db.log, db.head.records, damage)
  /\ \A w \in Workers : ShownBy(txn[w])

\* A log that shows damage does not verify.
LEMMA ShownIsBroken ==
  ASSUME NEW log \in Seq(AuditRecord), NEW anchor \in Anchor, NEW harm,
         Shows(log, anchor.records, harm)
  PROVE  Verdict(log, anchor) # "intact"
BY IntactMeans DEF Shows, ChainIntact, Numbered, Altered, Anchor

\* The next record hides no damage: its number follows the anchor's, not the
\* log's.
LEMMA AppendShows ==
  ASSUME NEW log \in Seq(AuditRecord), NEW n \in Nat, NEW harm, Shows(log, n, harm),
         NEW record \in AuditRecord, record.sequence = n + 1
  PROVE  Shows(Append(log, record), n + 1, harm)
<1> DEFINE longer == Append(log, record)
<1>1. /\ Len(longer) = Len(log) + 1 /\ Len(log) \in Nat
      /\ \A k \in 1..Len(log) : longer[k] = log[k]
      /\ longer[Len(log) + 1] = record
  OBVIOUS
<1> HIDE DEF longer
<1>2. ~Numbered(log) => ~Numbered(longer)
  BY <1>1 DEF Numbered
<1>3. Altered(log) => Altered(longer)
  BY <1>1 DEF Altered
<1>4. Numbered(log) /\ Len(log) = n => Numbered(longer)
  <2> SUFFICES ASSUME Numbered(log), Len(log) = n, NEW k \in 1..Len(longer)
               PROVE  longer[k].sequence = k
    BY DEF Numbered
  <2>1. CASE k \in 1..Len(log)
    BY <2>1, <1>1 DEF Numbered
  <2>2. CASE k = Len(log) + 1
    BY <2>2, <1>1
  <2>3. QED
    BY <2>1, <2>2, <1>1
<1>5. Len(log) < n => Len(longer) < n + 1
  BY <1>1
<1>6. Len(log) = n => Len(longer) = n + 1
  BY <1>1
<1>7. Shows(longer, n + 1, harm)
  <2>1. CASE RowLost(harm)
    BY <2>1, <1>2, <1>5 DEF Shows
  <2>2. CASE ~RowLost(harm)
    BY <2>2, <1>3, <1>4, <1>6 DEF Shows
  <2>3. QED
    BY <2>1, <2>2
<1>8. QED
  BY <1>7 DEF longer

\* A lost row leaves a wrong number behind it, or a log that is too short.
LEMMA LossShows ==
  ASSUME NEW log \in Seq(AuditRecord), NEW n \in Nat, Len(log) = n,
         NEW i \in 1..Len(log), NEW harm, RowLost(harm)
  PROVE  Shows([j \in 1..(Len(log) - 1) |-> IF j < i THEN log[j] ELSE log[j + 1]], n, harm)
<1>1. Len(log) \in Nat /\ Len(log) - 1 \in Nat /\ Len(log) - 1 < n
  OBVIOUS
<1>2. \A j \in 1..(Len(log) - 1) : log[j] \in AuditRecord /\ log[j + 1] \in AuditRecord
  BY <1>1
<1> DEFINE m == Len(log) - 1
           rest == [j \in 1..m |-> IF j < i THEN log[j] ELSE log[j + 1]]
<1>3. m \in Nat /\ m < n /\ rest \in Seq(AuditRecord) /\ DOMAIN rest = 1..m
  BY <1>1, <1>2
<1> HIDE DEF m
<1>4. Len(rest) = m
  BY <1>3
<1> HIDE DEF rest
<1>5. Shows(rest, n, harm)
  BY <1>3, <1>4 DEF Shows
<1>6. QED
  BY <1>5 DEF rest, m

\* An edited row no longer matches its hash.
LEMMA EditShows ==
  ASSUME NEW record \in AuditRecord, NEW d \in Decision, d # record.decision,
         ContentIntact(record)
  PROVE  ~ContentIntact([record EXCEPT !.decision = d])
<1> DEFINE h == record.previous_hash
           n == record.sequence
           old == <<n, record.decision>>
           new == <<n, d>>
<1>1. h \in Seq(Payload) /\ old \in Payload /\ new \in Payload
  BY DEF AuditRecord, Hash, Payload
<1>2. old # new
  OBVIOUS
<1> HIDE DEF old, new, h
<1>3. Append(h, old)[Len(h) + 1] = old /\ Append(h, new)[Len(h) + 1] = new
  BY <1>1
<1>4. Append(h, old) # Append(h, new)
  BY <1>2, <1>3
<1>5. record.record_hash = Append(h, old)
  BY DEF ContentIntact, RecordHash, h, old
<1> DEFINE edited == [record EXCEPT !.decision = d]
<1>6. /\ edited.record_hash = record.record_hash /\ edited.decision = d
      /\ edited.previous_hash = h /\ edited.sequence = n
  BY DEF AuditRecord, h
<1> HIDE DEF edited, n
<1>7. QED
  BY <1>4, <1>5, <1>6 DEF ContentIntact, RecordHash, edited, new

-----------------------------------------------------------------------------
(* Every step shows it.                                                    *)

\* A worker that moves, and what it works on shows the damage, leaves the
\* others as they were.
LEMMA OthersShow ==
  ASSUME TypeOK, Shown, NEW w \in Workers, NEW u, Becomes(w, u), ShownBy(u),
         damage' = damage, damage # {} => Shows(db'.log, db'.head.records, damage)
  PROVE  Shown'
<1>1. \A v \in Workers : txn'[v] = IF v = w THEN u ELSE txn[v]
  BY DEF Becomes, TypeOK
<1>2. \A v \in Workers : ShownBy(txn[v])
  BY DEF Shown
<1>3. \A v \in Workers : ShownBy(txn[v])'
  BY <1>1, <1>2 DEF ShownBy
<1>4. QED
  BY <1>3 DEF Shown

\* A worker that is not writing has nothing to show.
LEMMA NothingShown ==
  ASSUME NEW t, t.pc \notin Writing
  PROVE  ShownBy(t)
BY DEF ShownBy

\* A call that leaves off shows nothing and changes nothing.
LEMMA LeavingShows ==
  ASSUME TypeOK, Shown, NEW w \in Workers, NEW u, Becomes(w, u), u.pc \notin Writing,
         damage' = damage, db' = db
  PROVE  Shown'
BY NothingShown, OthersShow DEF Shown

\* So does an answer.
LEMMA RollbackShows ==
  ASSUME TypeOK, Shown, NEW w \in Workers, NEW status, Rollback(w, status)
  PROVE  Shown'
<1>1. [Idle EXCEPT !.pc = "answered", !.status = status].pc \notin Writing
  BY DEF Idle, Writing
<1>2. QED
  BY <1>1, LeavingShows DEF Rollback, Answer

\* What a worker does next hides no damage.
LEMMA StepShows ==
  ASSUME TypeOK, Carrying, Shown, NEW w \in Workers, Step(w)
  PROVE  Shown'
<1> DEFINE t == txn[w]
<1>1. /\ t \in Transaction /\ t.view \in Database /\ t.tail \in Anchor
      /\ t.view.log \in Seq(AuditRecord)
  BY DEF TypeOK, Transaction, Database
<1>2. ShownBy(t) /\ (damage # {} => Shows(db.log, db.head.records, damage))
  BY DEF Shown
<1>3. ASSUME NEW u, Becomes(w, u), UNCHANGED <<db, damage>>,
             u.pc \in Writing /\ Writes(u.call) =>
               /\ t.pc \in Writing /\ Writes(t.call)
               /\ u.view.log = t.view.log /\ LastNumber(u) = LastNumber(t)
      PROVE  Shown'
  <2>1. ShownBy(u)
    BY <1>2, <1>3 DEF ShownBy
  <2>2. QED
    BY <1>2, <1>3, <2>1, OthersShow
<1>4. ASSUME NEW u, Becomes(w, u), UNCHANGED <<db, damage>>,
             u.pc \in {"idle", "reading", "answered"}
      PROVE  Shown'
  BY <1>4, LeavingShows DEF Writing
<1>5. CASE BeginWrite(w) \/ BeginRead(w)
  <2> DEFINE u == [t EXCEPT !.pc = "begun", !.view = db]
  <2>1. u.pc = "begun" /\ u.view = db
    BY <1>1 DEF Transaction
  <2>2. Becomes(w, u) /\ UNCHANGED <<db, damage>>
    BY <1>5 DEF BeginWrite, BeginRead
  <2> HIDE DEF u
  <2>3. ShownBy(u)
    BY <1>2, <2>1 DEF ShownBy, LastNumber
  <2>4. QED
    BY <1>2, <2>2, <2>3, OthersShow
<1>6. CASE Busy(w)
  <2>1. [Idle EXCEPT !.pc = "answered", !.status = "busy"].pc = "answered"
    BY DEF Idle
  <2>2. QED
    BY <1>4, <1>6, <2>1 DEF Busy, Answer
<1>7. CASE StartEnqueue(w)
  <2>1. CASE Rollback(w, "refused")
    BY <2>1, RollbackShows
  <2>2. CASE ~Rollback(w, "refused")
    <3> DEFINE u == [t EXCEPT !.pc = "inserting", !.tail = View(w).head]
    <3>1. /\ Becomes(w, u) /\ UNCHANGED <<db, damage>>
          /\ t.call.op = "enqueue" /\ t.pc = "begun"
      BY <1>7, <2>2 DEF StartEnqueue, At
    <3>2. /\ u.pc = "inserting" /\ u.view = t.view /\ u.tail = t.view.head
      BY <1>1 DEF Transaction, View
    <3> HIDE DEF u
    <3>3. LastNumber(u) = LastNumber(t)
      BY <3>1, <3>2 DEF LastNumber
    <3>4. t.pc \in Writing /\ Writes(t.call)
      BY <3>1 DEF Writing, Writes
    <3>5. QED
      BY <1>3, <3>1, <3>2, <3>3, <3>4
  <2>3. QED
    BY <2>1, <2>2
<1>8. CASE InsertRecord(w)
  <2> DEFINE record == NewRecord(t.tail.records + 1, Current(t), t.tail.head_hash)
             log == Append(t.view.log, record)
             u == [t EXCEPT !.view.log = log,
                            !.tail = AnchorAt(record), !.pc = "queueing"]
  <2>1. /\ Becomes(w, u) /\ UNCHANGED <<db, damage>>
        /\ t.call.op = "enqueue" /\ t.pc = "inserting" /\ HasCurrent(t)
    BY <1>8 DEF InsertRecord, At
  <2>2. /\ record \in AuditRecord /\ record.sequence = t.tail.records + 1
        /\ AnchorAt(record).records = t.tail.records + 1
    BY <2>1, Insertion DEF NewRecord, AnchorAt
  <2>3. t.tail.records \in Nat
    BY <1>1 DEF Anchor
  <2> HIDE DEF record
  <2>4. damage # {} => Shows(t.view.log, t.tail.records, damage)
    BY <1>2, <2>1 DEF ShownBy, Writing, Writes, LastNumber
  <2>5. damage # {} => Shows(log, t.tail.records + 1, damage)
    BY <1>1, <2>2, <2>3, <2>4, AppendShows
  <2> HIDE DEF log
  <2>6. u.pc = "queueing" /\ u.tail = AnchorAt(record) /\ u.view.log = log
    BY <1>1 DEF Transaction, Database
  <2> HIDE DEF u
  <2>7. ShownBy(u)
    BY <2>2, <2>5, <2>6 DEF ShownBy, LastNumber
  <2>8. QED
    BY <1>2, <2>1, <2>7, OthersShow
<1>9. CASE QueueDecision(w)
  <2>1. PICK now \in Times :
          Becomes(w, [t EXCEPT !.view.items = Enqueue(t.view.items, Current(t), now),
                               !.done = @ + 1, !.pc = "inserting"])
    BY <1>9 DEF QueueDecision
  <2> DEFINE items == Enqueue(t.view.items, Current(t), now)
             u == [t EXCEPT !.view.items = items, !.done = t.done + 1,
                            !.pc = "inserting"]
  <2>2. /\ Becomes(w, u) /\ UNCHANGED <<db, damage>>
        /\ t.call.op = "enqueue" /\ t.pc = "queueing"
    BY <1>9, <2>1 DEF QueueDecision, At
  <2> HIDE DEF items
  <2>3. u.pc = "inserting" /\ u.tail = t.tail /\ u.view.log = t.view.log
    BY <1>1 DEF Transaction, Database
  <2> HIDE DEF u
  <2>4. LastNumber(u) = LastNumber(t)
    BY <2>2, <2>3 DEF LastNumber
  <2>5. t.pc \in Writing /\ Writes(t.call)
    BY <2>2 DEF Writing, Writes
  <2>6. QED
    BY <1>3, <2>2, <2>3, <2>4, <2>5
<1>10. CASE UpdateHead(w)
  <2> DEFINE u == [t EXCEPT !.view.head = t.tail, !.pc = "committing"]
  <2>1. /\ Becomes(w, u) /\ UNCHANGED <<db, damage>>
        /\ t.call.op = "enqueue" /\ t.pc = "inserting"
    BY <1>10 DEF UpdateHead, At
  <2>2. u.pc = "committing" /\ u.view.head = t.tail /\ u.view.log = t.view.log
    BY <1>1 DEF Transaction, Database
  <2> HIDE DEF u
  <2>3. LastNumber(u) = LastNumber(t)
    BY <2>1, <2>2 DEF LastNumber
  <2>4. t.pc \in Writing /\ Writes(t.call)
    BY <2>1 DEF Writing, Writes
  <2>5. QED
    BY <1>3, <2>1, <2>2, <2>3, <2>4
<1>11. ASSUME NEW items, Save(w, items), UNCHANGED <<db, damage>>,
              t.pc = "begun", Writes(t.call)
       PROVE  Shown'
  <2> DEFINE u == [t EXCEPT !.view.items = items, !.pc = "committing"]
  <2>1. Becomes(w, u)
    BY <1>11 DEF Save
  <2>2. u.pc = "committing" /\ u.view.head = t.view.head /\ u.view.log = t.view.log
    BY <1>1 DEF Transaction, Database
  <2> HIDE DEF u
  <2>3. LastNumber(u) = LastNumber(t) /\ t.pc \in Writing
    BY <1>11, <2>2 DEF LastNumber, Writing
  <2>4. QED
    BY <1>3, <1>11, <2>1, <2>2, <2>3
<1>12. CASE ClaimItems(w)
  BY <1>11, <1>12 DEF ClaimItems, At, Writes
<1>13. CASE ReleaseItem(w)
  <2>1. CASE Rollback(w, "refused")
    BY <2>1, RollbackShows
  <2>2. CASE ~Rollback(w, "refused")
    BY <1>11, <1>13, <2>2 DEF ReleaseItem, At, Writes
  <2>3. QED
    BY <2>1, <2>2
<1>14. CASE ResolveItem(w)
  <2>1. CASE Rollback(w, "refused")
    BY <2>1, RollbackShows
  <2>2. CASE ~Rollback(w, "refused")
    BY <1>11, <1>14, <2>2 DEF ResolveItem, At, Writes
  <2>3. QED
    BY <2>1, <2>2
<1>15. CASE ReadPage(w)
  <2> DEFINE page == Slice(View(w).items, Matching(View(w).items, t.call.page.state),
                           t.call.page.offset, t.call.page.limit)
  <2>1. [t EXCEPT !.page = page, !.pc = "reading"].pc = "reading"
    BY <1>1 DEF Transaction
  <2>2. QED
    BY <1>4, <1>15, <2>1 DEF ReadPage
<1>16. CASE ReadStats(w)
  <2> DEFINE total == Cardinality(Matching(View(w).items, t.call.page.state))
  <2>1. [t EXCEPT !.total = total, !.status = "ok", !.view = EmptyDatabase,
                  !.pc = "answered"].pc = "answered"
    BY <1>1 DEF Transaction
  <2>2. QED
    BY <1>4, <1>16, <2>1 DEF ReadStats
<1>17. CASE ReadAnchor(w)
  <2>1. [t EXCEPT !.tail = View(w).head, !.pc = "reading"].pc = "reading"
    BY <1>1 DEF Transaction
  <2>2. QED
    BY <1>4, <1>17, <2>1 DEF ReadAnchor
<1>18. CASE ReadRecords(w)
  <2> DEFINE verdict == Verdict(View(w).log, t.tail)
  <2>1. [Idle EXCEPT !.pc = "answered", !.status = "ok", !.verdict = verdict].pc = "answered"
    BY DEF Idle
  <2>2. QED
    BY <1>4, <1>18, <2>1 DEF ReadRecords
<1>19. CASE Commit(w)
  <2> DEFINE u == [Idle EXCEPT !.pc = "answered", !.status = "ok"]
  <2>1. u.pc = "answered"
    BY DEF Idle
  <2>2. Becomes(w, u) /\ damage' = damage /\ db' = t.view /\ t.pc = "committing"
    BY <1>19 DEF Commit, Answer, View
  <2>3. Writes(t.call)
    BY <2>2 DEF Carrying, Carried
  <2>4. damage # {} => Shows(db'.log, db'.head.records, damage)
    BY <1>2, <2>2, <2>3 DEF ShownBy, Writing, LastNumber
  <2> HIDE DEF u
  <2>5. ShownBy(u)
    BY <2>1, NothingShown DEF Writing
  <2>6. QED
    BY <2>2, <2>4, <2>5, OthersShow
<1>20. CASE Return(w)
  <2>1. Idle.pc = "idle"
    BY DEF Idle
  <2>2. QED
    BY <1>4, <1>20, <2>1 DEF Return
<1>21. QED
  BY <1>5, <1>6, <1>7, <1>8, <1>9, <1>10, <1>12, <1>13, <1>14, <1>15, <1>16, <1>17,
     <1>18, <1>19, <1>20 DEF Step

\* An accident shows at once, and does not undo what an earlier one left.
LEMMA AccidentShows ==
  ASSUME TypeOK, Agreement, Carrying, Shown, Accident
  PROVE  Shown'
<1> DEFINE log == db.log
           n == db.head.records
<1>1. /\ db \in Database /\ log \in Seq(AuditRecord) /\ Len(log) \in Nat
      /\ db.head \in Anchor /\ n \in Nat
  BY DEF TypeOK, Database, Anchor
<1>2. PICK i \in 1..Len(log) :
        LoseRow(i) \/ \E decision \in Decision : EditRow(i, decision)
  BY DEF Accident
<1>3. damage = {} => Numbered(log) /\ Len(log) = n /\ \A k \in 1..Len(log) : ContentIntact(log[k])
  BY <1>1, IntactMeans DEF Agreement, ChainIntact, Numbered
<1>4. ~RowLost(damage) => Numbered(log) /\ Len(log) = n
  BY <1>3 DEF Shown, Shows
<1>5. writer = NoWorker /\ txn' = txn
  BY <1>2 DEF LoseRow, EditRow
<1>6. ASSUME NEW v \in Workers PROVE ShownBy(txn[v])'
  <2>1. ~(txn[v].pc \in Writing /\ Writes(txn[v].call))
    BY <1>5, StoreAssumption DEF Carrying, Carried
  <2>2. QED
    BY <1>5, <2>1 DEF ShownBy
<1>7. Shows(db'.log, db'.head.records, damage')
  <2>1. CASE LoseRow(i)
    <3> DEFINE shorter == [j \in 1..(Len(log) - 1) |->
                             IF j < i THEN log[j] ELSE log[j + 1]]
    <3>1. db' = [db EXCEPT !.log = shorter] /\ ~RowLost(damage) /\ RowLost(damage')
      BY <2>1 DEF LoseRow, RowLost
    <3>2. Shows(shorter, n, damage')
      BY <1>1, <1>2, <1>4, <3>1, LossShows
    <3> HIDE DEF shorter
    <3>3. db'.log = shorter /\ db'.head = db.head
      BY <1>1, <3>1 DEF Database
    <3>4. QED
      BY <3>2, <3>3
  <2>2. ASSUME NEW decision \in Decision, EditRow(i, decision)
        PROVE  Shows(db'.log, db'.head.records, damage')
    <3> DEFINE record == [log[i] EXCEPT !.decision = decision]
               edited == [log EXCEPT ![i] = record]
    <3>1. /\ db' = [db EXCEPT !.log = edited] /\ decision # log[i].decision
          /\ RowLost(damage') <=> RowLost(damage)
          /\ ~RowLost(damage) => damage = {}
      <4>1. /\ db' = [db EXCEPT !.log[i].decision = decision]
            /\ decision # log[i].decision
            /\ damage' = damage \cup {"row edited"}
            /\ "row edited" \in Accidents \ damage
        BY <2>2 DEF EditRow
      <4>2. db' = [db EXCEPT !.log = edited]
        BY <4>1
      <4>3. RowLost(damage') <=> RowLost(damage)
        BY <4>1 DEF RowLost
      <4>4. ~RowLost(damage) => damage = {}
        BY <4>1, StoreAssumption DEF RowLost, TypeOK
      <4>5. QED
        BY <4>1, <4>2, <4>3, <4>4
    <3>2. log[i] \in AuditRecord
      BY <1>1, <1>2
    <3>3. record.sequence = log[i].sequence
      BY <3>2 DEF AuditRecord
    <3>4. ContentIntact(log[i]) => ~ContentIntact(record)
      BY <3>1, <3>2, EditShows
    <3> HIDE DEF record
    <3>5. /\ Len(edited) = Len(log) /\ edited[i] = record
          /\ \A k \in 1..Len(log) : k # i => edited[k] = log[k]
      BY <1>1, <1>2
    <3> HIDE DEF edited
    <3>6. Numbered(edited) <=> Numbered(log)
      BY <1>2, <3>3, <3>5 DEF Numbered
    <3>7. db'.log = edited /\ db'.head = db.head
      BY <1>1, <3>1 DEF Database
    <3>8. CASE RowLost(damage)
      BY <3>1, <3>5, <3>6, <3>7, <3>8 DEF Shown, Shows, RowLost
    <3>9. CASE ~RowLost(damage)
      <4>1. Altered(edited)
        BY <1>2, <1>3, <3>1, <3>4, <3>5, <3>9 DEF Altered
      <4>2. QED
        BY <1>4, <3>1, <3>5, <3>6, <3>7, <3>9, <4>1 DEF Shows
    <3>10. QED
      BY <3>8, <3>9
  <2>3. QED
    BY <1>2, <2>1, <2>2
<1>8. QED
  BY <1>6, <1>7 DEF Shown

\* Once a stored record was lost or edited, no later call makes the log verify
\* again: new records are numbered from the stored head and not from the log
\* (SQLiteStore.enqueue).
THEOREM DamageIsNeverLaundered == Spec => []DamageStaysVisible
<1>1. Init => Shown
  <2>1. Idle.pc = "idle"
    BY DEF Idle
  <2>2. QED
    BY <2>1 DEF Init, Shown, ShownBy, Writing
<1>2. TypeOK /\ Agreement /\ Carrying /\ Shown /\ [Next]_vars => Shown'
  <2> SUFFICES ASSUME TypeOK, Agreement, Carrying, Shown, [Next]_vars PROVE Shown'
    OBVIOUS
  <2>1. CASE Accident
    BY <2>1, AccidentShows
  <2>2. ASSUME NEW w \in Workers, Step(w) PROVE Shown'
    BY <2>2, StepShows
  <2>3. ASSUME NEW w \in Workers, NEW call \in Calls, Request(w, call) PROVE Shown'
    <3>1. [Idle EXCEPT !.pc = "waiting", !.call = call].pc \notin Writing
      BY DEF Idle, Writing
    <3>2. QED
      BY <2>3, <3>1, LeavingShows DEF Request
  <2>4. ASSUME NEW w \in Workers, Fail(w) PROVE Shown'
    BY <2>4, RollbackShows DEF Fail
  <2>5. ASSUME NEW w \in Workers, Crash(w) PROVE Shown'
    <3>1. Idle.pc \notin Writing
      BY DEF Idle, Writing
    <3>2. QED
      BY <2>5, <3>1, LeavingShows DEF Crash
  <2>6. CASE UNCHANGED vars
    BY <2>6 DEF vars, Shown, ShownBy, LastNumber
  <2>7. QED
    BY <2>1, <2>2, <2>3, <2>4, <2>5, <2>6 DEF Next
<1>3. TypeOK /\ Shown => DamageStaysVisible
  BY ShownIsBroken DEF TypeOK, Shown, DamageStaysVisible, Database
<1>4. QED
  BY <1>1, <1>2, <1>3, TypeCorrect, AlwaysAgree, AlwaysCarrying, PTL DEF Spec

-----------------------------------------------------------------------------
(***************************************************************************)
(* That a page is as long as its count says.  In working order the items   *)
(* of a page's state have the ranks from 0 on, one each, because no two    *)
(* are equal: ids break every tie, and an item is stored under its own id. *)
(***************************************************************************)

Own(items) == \A r \in Queued(items) : items[r].decision.review_id = r

\* An item that is worked before another has a lower rank.
LEMMA RankIsStrict ==
  ASSUME NEW items \in Queue, NEW S \in SUBSET Queued(items), NEW q \in S, NEW r \in S,
         Ahead(items[q], items[r])
  PROVE  Rank(items, S, q) < Rank(items, S, r)
<1> DEFINE before(x) == {p \in S : Ahead(items[p], items[x])}
<1>1. \A p \in S : items[p] \in QueueItem
  BY DEF Queue, Queued
<1>2. before(q) \cup {q} \subseteq before(r) /\ q \notin before(q)
  BY <1>1, AheadIsTransitive, AheadIsStrict
<1>3. IsFiniteSet(S)
  BY QueueAssumption, FS_Subset DEF Queued
<1>4. before(q) \subseteq S /\ before(r) \subseteq S
  OBVIOUS
<1>5. IsFiniteSet(before(q)) /\ IsFiniteSet(before(r))
  BY <1>3, <1>4, FS_Subset
<1>6. Rank(items, S, q) = Cardinality(before(q)) /\ Rank(items, S, r) = Cardinality(before(r))
  BY DEF Rank
<1> HIDE DEF before
<1>7. Cardinality(before(q) \cup {q}) = Cardinality(before(q)) + 1
  BY <1>2, <1>5, FS_AddElement
<1>8. Cardinality(before(q) \cup {q}) <= Cardinality(before(r))
  BY <1>2, <1>5, FS_Subset
<1>9. Cardinality(before(q)) \in Nat /\ Cardinality(before(r)) \in Nat
  BY <1>5, FS_CardinalityType
<1>10. QED
  BY <1>6, <1>7, <1>8, <1>9

\* No two items are equal in working order.
LEMMA AheadIsTotal ==
  ASSUME NEW items \in Queue, Own(items), NEW q \in Queued(items), NEW r \in Queued(items),
         q # r
  PROVE  Ahead(items[q], items[r]) \/ Ahead(items[r], items[q])
<1>1. items[q] \in QueueItem /\ items[r] \in QueueItem
  BY DEF Queue, Queued
<1>2. \A x \in QueueItem : /\ x.decision.score \in Nat /\ x.queued_at \in Nat
                           /\ x.decision.review_id \in Nat
  BY QueueAssumption DEF QueueItem, Decision
<1>3. items[q].decision.review_id # items[r].decision.review_id
  BY DEF Own
<1>4. QED
  BY <1>1, <1>2, <1>3 DEF Ahead

\* The ranks of a set of items are the numbers below its size, one each.
LEMMA RanksArePlaces ==
  ASSUME NEW items \in Queue, Own(items), NEW S \in SUBSET Queued(items)
  PROVE  /\ IsFiniteSet(S) /\ Cardinality(S) \in Nat
         /\ [r \in S |-> Rank(items, S, r)] \in Bijection(S, 0..(Cardinality(S) - 1))
<1> DEFINE n == Cardinality(S)
           places == 0..(n - 1)
           rank == [r \in S |-> Rank(items, S, r)]
<1>1. IsFiniteSet(S) /\ n \in Nat
  BY QueueAssumption, FS_Subset, FS_CardinalityType DEF Queued
<1>2. ASSUME NEW r \in S PROVE rank[r] \in places
  <2> DEFINE before == {p \in S : Ahead(items[p], items[r])}
  <2>1. items[r] \in QueueItem
    BY DEF Queue, Queued
  <2>2. before \subseteq S \ {r}
    BY <2>1, AheadIsStrict
  <2>3. rank[r] = Cardinality(before)
    BY DEF Rank
  <2>4. IsFiniteSet(S \ {r}) /\ Cardinality(S \ {r}) = n - 1
    BY <1>1, FS_RemoveElement
  <2> HIDE DEF before, n
  <2>5. IsFiniteSet(before) /\ Cardinality(before) <= n - 1
    BY <2>2, <2>4, FS_Subset
  <2>6. Cardinality(before) \in Nat
    BY <2>5, FS_CardinalityType
  <2> HIDE DEF rank
  <2>7. QED
    BY <1>1, <2>3, <2>5, <2>6
<1>3. ASSUME NEW q \in S, NEW r \in S, rank[q] = rank[r] PROVE q = r
  <2>1. rank[q] = Rank(items, S, q) /\ rank[r] = Rank(items, S, r)
    OBVIOUS
  <2>2. rank[q] \in Int /\ rank[r] \in Int
    BY <1>1, <1>2
  <2>3. ~Ahead(items[q], items[r]) /\ ~Ahead(items[r], items[q])
    <3>1. Ahead(items[q], items[r]) => Rank(items, S, q) < Rank(items, S, r)
      BY RankIsStrict
    <3>2. Ahead(items[r], items[q]) => Rank(items, S, r) < Rank(items, S, q)
      BY RankIsStrict
    <3>3. Rank(items, S, q) \in Int /\ Rank(items, S, r) = Rank(items, S, q)
      BY <1>3, <2>1, <2>2
    <3> DEFINE x == Rank(items, S, q)
    <3>4. ~(x < x)
      <4> HIDE DEF x
      <4>1. x \in Int
        BY <3>3 DEF x
      <4>2. QED
        BY <4>1
    <3>5. QED
      BY <3>1, <3>2, <3>3, <3>4
  <2>4. QED
    BY <2>3, AheadIsTotal
<1>4. rank \in [S -> places]
  BY <1>2
<1> HIDE DEF rank
<1>5. rank \in Injection(S, places)
  BY <1>3, <1>4 DEF Injection, IsInjective
<1>6. IsFiniteSet(places) /\ Cardinality(places) = n
  <2>1. 0 \in Int /\ n - 1 \in Int
    BY <1>1
  <2>2. /\ IsFiniteSet(places)
        /\ Cardinality(places) = IF 0 > n - 1 THEN 0 ELSE n - 1 - 0 + 1
    BY <2>1, FS_Interval
  <2> HIDE DEF n, places
  <2>3. QED
    BY <1>1, <2>2
<1>7. rank \in Surjection(S, places)
  BY <1>5, <1>6, FS_Injection
<1>8. QED
  BY <1>1, <1>5, <1>7 DEF Bijection, rank

\* A slice is as long as there are items from its offset on, but no longer than
\* asked for.
LEMMA SliceIs ==
  ASSUME NEW items \in Queue, Own(items), NEW S \in SUBSET Queued(items),
         NEW offset \in Nat, NEW limit \in Nat \ {0}
  PROVE  LET left == IF Cardinality(S) > offset THEN Cardinality(S) - offset ELSE 0 IN
         Cardinality(Slice(items, S, offset, limit)) = IF left < limit THEN left ELSE limit
<1> DEFINE n == Cardinality(S)
           left == IF n > offset THEN n - offset ELSE 0
           length == IF left < limit THEN left ELSE limit
           wanted == offset..(offset + length - 1)
           page == Slice(items, S, offset, limit)
           rank == [r \in S |-> Rank(items, S, r)]
           place == [r \in page |-> rank[r]]
<1>1. IsFiniteSet(S) /\ n \in Nat /\ rank \in Bijection(S, 0..(n - 1))
  BY RanksArePlaces
<1>2. page = {r \in S : rank[r] >= offset /\ rank[r] < offset + limit}
  BY DEF Slice
<1> HIDE DEF rank, n, page
<1>3. /\ \A r \in S : rank[r] \in 0..(n - 1)
      /\ \A q, r \in S : rank[q] = rank[r] => q = r
      /\ \A k \in 0..(n - 1) : \E r \in S : rank[r] = k
  BY <1>1 DEF Bijection, Injection, Surjection, IsInjective
<1>4. left \in Nat /\ length \in Nat
  BY <1>1
<1>5. \A k \in Int : k \in wanted <=> k \in 0..(n - 1) /\ k >= offset /\ k < offset + limit
  BY <1>1
<1> HIDE DEF wanted, length
<1>6. \A k \in wanted : k \in Int
  BY DEF wanted
<1>7. \A r \in page : rank[r] \in wanted
  BY <1>2, <1>3, <1>5
<1>8. \A k \in wanted : \E r \in page : rank[r] = k
  <2> SUFFICES ASSUME NEW k \in wanted PROVE \E r \in page : rank[r] = k
    OBVIOUS
  <2>1. k \in 0..(n - 1) /\ k >= offset /\ k < offset + limit
    BY <1>5, <1>6
  <2>2. PICK r \in S : rank[r] = k
    BY <1>3, <2>1
  <2>3. QED
    BY <1>2, <2>1, <2>2
<1>9. page \subseteq S /\ IsFiniteSet(page)
  BY <1>1, <1>2, FS_Subset
<1>10. place \in Bijection(page, wanted)
  BY <1>3, <1>7, <1>8, <1>9 DEF Bijection, Injection, Surjection, IsInjective
<1>11. ExistsBijection(page, wanted)
  <2> HIDE DEF place
  <2>1. QED
    BY <1>10 DEF ExistsBijection
<1>12. Cardinality(page) = Cardinality(wanted)
  BY <1>9, <1>11, FS_Bijection
<1>13. Cardinality(wanted) = length
  <2> DEFINE last == offset + length - 1
  <2>1. offset \in Int /\ last \in Int /\ wanted = offset..last
    BY <1>4 DEF wanted
  <2> HIDE DEF last
  <2>2. Cardinality(wanted) = IF offset > last THEN 0 ELSE last - offset + 1
    BY <2>1, FS_Interval
  <2>3. QED
    BY <1>4, <2>1, <2>2 DEF last
<1>14. QED
  BY <1>12, <1>13 DEF length, n, page

\* What a request for a page gets of the items it reads.
PageOf(items, request) ==
  Slice(items, Matching(items, request.state), request.offset, request.limit)

\* What a page is to be beside its count.
Fits(page, total, request) ==
  LET left == IF total > request.offset THEN total - request.offset ELSE 0
  IN  Cardinality(page) = IF left < request.limit THEN left ELSE request.limit

PageFits(t) ==
  /\ Own(t.view.items)
  /\ t.call.op = "snapshot" /\ t.pc = "reading" => t.page = PageOf(t.view.items, t.call.page)
  /\ t.call.op = "snapshot" /\ t.pc = "answered" /\ t.status = "ok" =>
       Fits(t.page, t.total, t.call.page)

Paged == Own(db.items) /\ \A w \in Workers : PageFits(txn[w])

LEMMA PageFitsCount ==
  ASSUME NEW items \in Queue, Own(items), NEW request \in Pages
  PROVE  Fits(PageOf(items, request), Cardinality(Matching(items, request.state)), request)
<1>1. request.offset \in Nat /\ request.limit \in Nat \ {0}
  <2>1. request \in [offset : Nat, limit : Nat \ {0}, state : QueueState \cup {Anyone}]
    BY StoreAssumption
  <2>2. QED
    BY <2>1
<1>2. Matching(items, request.state) \in SUBSET Queued(items)
  BY DEF Matching, InState, Queued
<1>3. QED
  BY <1>1, <1>2, SliceIs DEF Fits, PageOf

\* A worker that moves, and works on items under their own ids, leaves the
\* others' pages alone.
LEMMA OthersFit ==
  ASSUME TypeOK, Paged, NEW w \in Workers, NEW u, Becomes(w, u), PageFits(u), Own(db'.items)
  PROVE  Paged'
<1>1. \A v \in Workers : txn'[v] = IF v = w THEN u ELSE txn[v]
  BY DEF Becomes, TypeOK
<1>2. \A v \in Workers : PageFits(txn'[v])
  BY <1>1 DEF Paged
<1>3. QED
  BY <1>2 DEF Paged, PageFits, Own, Queued, PageOf, Fits, Matching, InState

LEMMA IdleFits ==
  /\ Own(EmptyDatabase.items) /\ PageFits(Idle)
  /\ \A status : PageFits([Idle EXCEPT !.pc = "answered", !.status = status])
<1>1. Own(EmptyDatabase.items)
  BY DEF Own, Queued, EmptyDatabase, EmptyQueue
<1>2. QED
  BY <1>1 DEF PageFits, Idle, NoCall

\* Adding a decision keeps every item under its own id.
LEMMA EnqueueKeepsOwn ==
  ASSUME NEW items \in Queue, Own(items), NEW d \in Decision, NEW now
  PROVE  Own(Enqueue(items, d, now))
<1>1. d.review_id \in Reviews
  BY DEF Decision
<1>2. CASE d.requires_human_review /\ items[d.review_id] = NoItem
  <2> DEFINE item == NewItem(d, now)
             after == [items EXCEPT ![d.review_id] = item]
  <2>1. item.decision = d
    BY DEF NewItem
  <2>2. Enqueue(items, d, now) = after
    BY <1>2 DEF Enqueue
  <2> HIDE DEF item
  <2>3. \A r \in Reviews : after[r] = IF r = d.review_id THEN item ELSE items[r]
    BY DEF Queue
  <2> HIDE DEF after
  <2>4. QED
    BY <2>1, <2>2, <2>3 DEF Own, Queued
<1>3. CASE ~(d.requires_human_review /\ items[d.review_id] = NoItem)
  BY <1>3 DEF Enqueue
<1>4. QED
  BY <1>2, <1>3

\* So does a move, which keeps every item's decision.
LEMMA MovesKeepOwn ==
  ASSUME TypeOK, Paged, NEW w \in Workers, NEW items,
         txn[w].pc = "begun",
         Queued(items) = Queued(View(w).items),
         \A r \in Queued(items) : items[r].decision = View(w).items[r].decision,
         Save(w, items), UNCHANGED db
  PROVE  Paged'
<1> DEFINE t == txn[w]
           after == [t EXCEPT !.view.items = items, !.pc = "committing"]
<1>1. t \in Transaction /\ t.view \in Database
  BY DEF TypeOK, Transaction
<1>2. after.view.items = items /\ after.pc = "committing"
  BY <1>1 DEF Transaction, Database
<1>3. Own(items)
  BY DEF Paged, PageFits, Own, View
<1>4. Becomes(w, after)
  BY DEF Save
<1> HIDE DEF after
<1>5. PageFits(after)
  BY <1>2, <1>3 DEF PageFits
<1>6. QED
  BY <1>4, <1>5, OthersFit DEF Paged

LEMMA StepFits ==
  ASSUME TypeOK, Paged, NEW w \in Workers, Step(w)
  PROVE  Paged'
<1> DEFINE t == txn[w]
<1>1. /\ t \in Transaction /\ t.view \in Database /\ t.view.items \in Queue
      /\ t.call \in Calls \cup {NoCall} /\ db.items \in Queue
  BY DEF TypeOK, Transaction, Database
<1>2. PageFits(t) /\ Own(t.view.items) /\ Own(db.items)
  BY DEF Paged, PageFits
<1>3. ASSUME NEW u, Becomes(w, u), UNCHANGED db, u.view.items = t.view.items,
             u.pc \notin {"reading", "answered"}
      PROVE  Paged'
  <2>1. PageFits(u)
    BY <1>2, <1>3 DEF PageFits
  <2>2. QED
    BY <1>2, <1>3, <2>1, OthersFit
<1>4. ASSUME NEW status, Answer(w, status), UNCHANGED db PROVE Paged'
  BY <1>2, <1>4, IdleFits, OthersFit DEF Answer
<1>5. CASE BeginWrite(w) \/ BeginRead(w)
  <2> DEFINE u == [t EXCEPT !.pc = "begun", !.view = db]
  <2>1. u.pc = "begun" /\ u.view = db
    BY <1>1 DEF Transaction
  <2>2. Becomes(w, u) /\ UNCHANGED db
    BY <1>5 DEF BeginWrite, BeginRead
  <2> HIDE DEF u
  <2>3. PageFits(u)
    BY <1>2, <2>1 DEF PageFits
  <2>4. QED
    BY <1>2, <2>2, <2>3, OthersFit
<1>6. CASE Busy(w)
  BY <1>4, <1>6 DEF Busy
<1>7. CASE StartEnqueue(w)
  <2>1. CASE LastRecord(View(w).log) = View(w).head
    <3> DEFINE u == [t EXCEPT !.pc = "inserting", !.tail = View(w).head]
    <3>1. u.pc = "inserting" /\ u.view = t.view
      BY <1>1 DEF Transaction
    <3>2. Becomes(w, u) /\ UNCHANGED db
      BY <1>7, <2>1 DEF StartEnqueue
    <3> HIDE DEF u
    <3>3. QED
      BY <1>3, <3>1, <3>2
  <2>2. CASE LastRecord(View(w).log) # View(w).head
    BY <1>4, <1>7, <2>2 DEF StartEnqueue, Rollback
  <2>3. QED
    BY <2>1, <2>2
<1>8. CASE InsertRecord(w)
  <2> DEFINE record == NewRecord(t.tail.records + 1, Current(t), t.tail.head_hash)
             log == Append(t.view.log, record)
             tail == AnchorAt(record)
             u == [t EXCEPT !.view.log = log, !.tail = tail, !.pc = "queueing"]
  <2>1. Becomes(w, u) /\ UNCHANGED db
    BY <1>8 DEF InsertRecord
  <2> HIDE DEF log, tail
  <2>2. u.pc = "queueing" /\ u.view.items = t.view.items
    BY <1>1 DEF Transaction, Database
  <2> HIDE DEF u
  <2>3. QED
    BY <1>3, <2>1, <2>2
<1>9. CASE QueueDecision(w)
  <2>1. PICK now \in Times :
          Becomes(w, [t EXCEPT !.view.items = Enqueue(t.view.items, Current(t), now),
                               !.done = @ + 1, !.pc = "inserting"])
    BY <1>9 DEF QueueDecision
  <2> DEFINE items == Enqueue(t.view.items, Current(t), now)
             u == [t EXCEPT !.view.items = items, !.done = t.done + 1, !.pc = "inserting"]
  <2>2. Becomes(w, u) /\ UNCHANGED db
    BY <1>9, <2>1 DEF QueueDecision
  <2>3. Current(t) \in Decision
    BY <1>9, Insertion DEF QueueDecision, At
  <2>4. Own(items)
    BY <1>1, <1>2, <2>3, EnqueueKeepsOwn
  <2> HIDE DEF items
  <2>5. u.pc = "inserting" /\ u.view.items = items
    BY <1>1 DEF Transaction, Database
  <2> HIDE DEF u
  <2>6. PageFits(u)
    BY <2>4, <2>5 DEF PageFits
  <2>7. QED
    BY <1>2, <2>2, <2>6, OthersFit
<1>10. CASE UpdateHead(w)
  <2> DEFINE u == [t EXCEPT !.view.head = t.tail, !.pc = "committing"]
  <2>1. Becomes(w, u) /\ UNCHANGED db
    BY <1>10 DEF UpdateHead
  <2>2. u.pc = "committing" /\ u.view.items = t.view.items
    BY <1>1 DEF Transaction, Database
  <2> HIDE DEF u
  <2>3. QED
    BY <1>3, <2>1, <2>2
<1>11. CASE ClaimItems(w)
  <2> DEFINE after == ClaimFront(View(w).items, t.call.moderator, t.call.limit)
  <2>1. t.call.moderator \in Moderators
    BY <1>1, <1>11, CallFields DEF ClaimItems, At
  <2>2. /\ Queued(after) = Queued(View(w).items)
        /\ \A r \in Queued(after) : after[r].decision = View(w).items[r].decision
    BY <1>1, <2>1, ClaimFrontKeeps DEF View
  <2>3. Save(w, after) /\ t.pc = "begun" /\ UNCHANGED db
    BY <1>11 DEF ClaimItems, At
  <2> HIDE DEF after
  <2>4. QED
    BY <2>2, <2>3, MovesKeepOwn
<1>12. CASE ReleaseItem(w)
  <2> DEFINE r == t.call.review_id
             items == View(w).items
             after == [items EXCEPT ![r] = Release(items[r])]
  <2>1. CASE r \in InState(items, "claimed")
    <3>1. items \in Queue /\ r \in Queued(items) /\ items[r] \in QueueItem
      BY <1>1, <2>1 DEF InState, Queued, View, Queue
    <3>2. /\ Queued(after) = Queued(items)
          /\ \A q \in Queued(after) : after[q].decision = items[q].decision
      BY <3>1, ReleaseTyped, OneItemKeeps
    <3>3. Save(w, after) /\ t.pc = "begun" /\ UNCHANGED db
      BY <1>12, <2>1 DEF ReleaseItem, At
    <3> HIDE DEF after
    <3>4. QED
      BY <3>2, <3>3, MovesKeepOwn
  <2>2. CASE ~(r \in InState(items, "claimed"))
    BY <1>4, <1>12, <2>2 DEF ReleaseItem, Rollback
  <2>3. QED
    BY <2>1, <2>2
<1>13. CASE ResolveItem(w)
  <2> DEFINE r == t.call.review_id
             items == View(w).items
             open == Queued(items) \ InState(items, "resolved")
             after == [items EXCEPT ![r] = Resolve(items[r], t.call.moderator, t.call.outcome)]
  <2>1. CASE r \in open
    <3>1. items \in Queue /\ r \in Queued(items) /\ items[r] \in QueueItem
      BY <1>1, <2>1 DEF Queued, View, Queue
    <3>2. t.call.moderator \in Moderators /\ t.call.outcome \in Outcomes
      BY <1>1, <1>13, CallFields DEF ResolveItem, At
    <3>3. /\ Queued(after) = Queued(items)
          /\ \A q \in Queued(after) : after[q].decision = items[q].decision
      BY <3>1, <3>2, ResolveTyped, OneItemKeeps
    <3>4. Save(w, after) /\ t.pc = "begun" /\ UNCHANGED db
      BY <1>13, <2>1 DEF ResolveItem, At
    <3> HIDE DEF after
    <3>5. QED
      BY <3>3, <3>4, MovesKeepOwn
  <2>2. CASE ~(r \in open)
    BY <1>4, <1>13, <2>2 DEF ResolveItem, Rollback
  <2>3. QED
    BY <2>1, <2>2
<1>14. CASE ReadPage(w)
  <2> DEFINE page == PageOf(t.view.items, t.call.page)
             u == [t EXCEPT !.page = page, !.pc = "reading"]
  <2>1. Becomes(w, u) /\ UNCHANGED db
    BY <1>14 DEF ReadPage, PageOf, View
  <2> HIDE DEF page
  <2>2. u.page = page /\ u.pc = "reading" /\ u.view = t.view /\ u.call = t.call
    BY <1>1 DEF Transaction
  <2> HIDE DEF u
  <2>3. PageFits(u)
    BY <1>2, <2>2 DEF PageFits, page
  <2>4. QED
    BY <1>2, <2>1, <2>3, OthersFit
<1>15. CASE ReadStats(w)
  <2> DEFINE request == t.call.page
             total == Cardinality(Matching(t.view.items, request.state))
             u == [t EXCEPT !.total = total, !.status = "ok",
                            !.view = EmptyDatabase, !.pc = "answered"]
  <2>1. Becomes(w, u) /\ UNCHANGED db /\ t.call.op = "snapshot" /\ t.pc = "reading"
    BY <1>15 DEF ReadStats, View, At
  <2>2. request \in Pages
    BY <1>1, <2>1 DEF Calls, NoCall
  <2>3. Fits(t.page, total, request)
    BY <1>1, <1>2, <2>1, <2>2, PageFitsCount DEF PageFits
  <2> HIDE DEF total
  <2>4. /\ u.page = t.page /\ u.total = total /\ u.call = t.call /\ u.pc = "answered"
        /\ u.view = EmptyDatabase
    BY <1>1 DEF Transaction
  <2> HIDE DEF u
  <2>5. PageFits(u)
    BY <2>3, <2>4, IdleFits DEF PageFits
  <2>6. QED
    BY <1>2, <2>1, <2>5, OthersFit
<1>16. CASE ReadAnchor(w)
  <2> DEFINE u == [t EXCEPT !.tail = View(w).head, !.pc = "reading"]
  <2>1. Becomes(w, u) /\ UNCHANGED db /\ t.call.op = "verify"
    BY <1>16 DEF ReadAnchor, At
  <2>2. u.pc = "reading" /\ u.view = t.view /\ u.call = t.call
    BY <1>1 DEF Transaction
  <2> HIDE DEF u
  <2>3. PageFits(u)
    BY <1>2, <2>1, <2>2 DEF PageFits
  <2>4. QED
    BY <1>2, <2>1, <2>3, OthersFit
<1>17. CASE ReadRecords(w)
  <2> DEFINE verdict == Verdict(View(w).log, t.tail)
             u == [Idle EXCEPT !.pc = "answered", !.status = "ok", !.verdict = verdict]
  <2>1. Becomes(w, u) /\ UNCHANGED db
    BY <1>17 DEF ReadRecords
  <2> HIDE DEF verdict
  <2>2. u.call = NoCall /\ u.view = EmptyDatabase
    BY DEF Idle
  <2> HIDE DEF u
  <2>3. PageFits(u)
    BY <2>2, IdleFits DEF PageFits, NoCall
  <2>4. QED
    BY <1>2, <2>1, <2>3, OthersFit
<1>18. CASE Commit(w)
  <2>1. db' = t.view /\ Answer(w, "ok")
    BY <1>18 DEF Commit, View
  <2>2. QED
    BY <1>2, <2>1, IdleFits, OthersFit DEF Answer
<1>19. CASE Return(w)
  BY <1>2, <1>19, IdleFits, OthersFit DEF Return
<1>20. QED
  BY <1>5, <1>6, <1>7, <1>8, <1>9, <1>10, <1>11, <1>12, <1>13, <1>14, <1>15, <1>16,
     <1>17, <1>18, <1>19 DEF Step

\* The page and its count come from one snapshot, however many writers commit in
\* between, and whatever happens to the log: the page is exactly as long as its
\* count says it must be (SQLiteStore.snapshot).
THEOREM PagesAreWhole == Spec => []PageAgreesWithCount
<1>1. Init => Paged
  BY IdleFits DEF Init, Paged
<1>2. TypeOK /\ Paged /\ [Next]_vars => Paged'
  <2> SUFFICES ASSUME TypeOK, Paged, [Next]_vars PROVE Paged'
    OBVIOUS
  <2>1. Own(db.items)
    BY DEF Paged
  <2>2. CASE Accident
    <3>1. db'.items = db.items /\ txn' = txn
      BY <2>2 DEF Accident, LoseRow, EditRow, TypeOK, Database
    <3>2. QED
      BY <3>1 DEF Paged, PageFits, Own, Queued, PageOf, Fits, Matching, InState
  <2>3. ASSUME NEW w \in Workers, Step(w) PROVE Paged'
    BY <2>3, StepFits
  <2>4. ASSUME NEW w \in Workers, NEW call \in Calls, Request(w, call) PROVE Paged'
    <3> DEFINE u == [Idle EXCEPT !.pc = "waiting", !.call = call]
    <3>1. u.pc = "waiting" /\ u.view = EmptyDatabase
      BY DEF Idle
    <3>2. Becomes(w, u) /\ UNCHANGED db
      BY <2>4 DEF Request
    <3> HIDE DEF u
    <3>3. PageFits(u)
      BY <3>1, IdleFits DEF PageFits
    <3>4. QED
      BY <2>1, <3>2, <3>3, OthersFit
  <2>5. ASSUME NEW w \in Workers, Fail(w) PROVE Paged'
    BY <2>1, <2>5, IdleFits, OthersFit DEF Fail, Rollback, Answer
  <2>6. ASSUME NEW w \in Workers, Crash(w) PROVE Paged'
    BY <2>1, <2>6, IdleFits, OthersFit DEF Crash
  <2>7. CASE UNCHANGED vars
    BY <2>7 DEF vars, Paged, PageFits, Own, Queued, PageOf, Fits, Matching, InState
  <2>8. QED
    BY <2>2, <2>3, <2>4, <2>5, <2>6, <2>7 DEF Next
<1>3. Paged => PageAgreesWithCount
  BY DEF Paged, PageFits, Fits, PageAgreesWithCount, At
<1>4. QED
  BY <1>1, <1>2, <1>3, TypeCorrect, PTL DEF Spec
-----------------------------------------------------------------------------
(* What a call has still to do, and the lock.                              *)

BatchSize(call) == IF call.op = "enqueue" THEN Len(call.batch) ELSE 0

\* The steps a call has still to take: two for each decision of its batch, and
\* those around them.
StepsLeft(t) ==
  CASE t.pc = "waiting" -> 2 * BatchSize(t.call) + 5
    [] t.pc = "begun" -> 2 * BatchSize(t.call) + 4
    [] t.pc = "inserting" -> 2 * (BatchSize(t.call) - t.done) + 3
    [] t.pc = "queueing" -> 2 * (BatchSize(t.call) - t.done) + 2
    [] t.pc \in {"reading", "committing"} -> 2
    [] t.pc = "answered" -> 1
    [] OTHER -> 0

\* A call that inserts is not past the end of its batch.
InPlace(t) ==
  /\ t.pc \in {"inserting", "queueing"} =>
       t.call.op = "enqueue" /\ t.done <= Len(t.call.batch)
  /\ t.pc = "queueing" => HasCurrent(t)

\* The write lock belongs to a call that is writing, not to one that has ended.
Holding(t) == t.pc \in Writing /\ Writes(t.call)
LockInUse == \A w \in Workers : writer = w => Holding(txn[w])

AllInPlace == LockInUse /\ \A w \in Workers : InPlace(txn[w])

\* A running call that moves gets closer to its end.
CallsGetShorter ==
  \A w \in Workers :
    txn[w].pc # "idle" /\ txn'[w] # txn[w] => StepsLeft(txn'[w]) < StepsLeft(txn[w])

LEMMA StepsLeftCount ==
  ASSUME NEW t \in Transaction, InPlace(t)
  PROVE  BatchSize(t.call) \in Nat /\ StepsLeft(t) \in Nat
<1>1. t.call \in Calls \cup {NoCall} /\ t.done \in Nat
  BY DEF Transaction
<1>2. t.call.op = "enqueue" => t.call.batch \in Seq(Decision)
  BY <1>1, CallFields, StoreAssumption
<1>3. BatchSize(t.call) \in Nat
  BY <1>2 DEF BatchSize
<1>4. t.pc \in {"inserting", "queueing"} => t.done <= BatchSize(t.call)
  BY DEF InPlace, BatchSize
<1> HIDE DEF BatchSize
<1>5. QED
  BY <1>1, <1>3, <1>4 DEF StepsLeft

\* One worker moves: towards the end of its call, and with the lock only if it
\* writes.
LEMMA OneMoves ==
  ASSUME TypeOK, AllInPlace, NEW w \in Workers, NEW u, Becomes(w, u), InPlace(u),
         txn[w].pc = "idle" \/ StepsLeft(u) < StepsLeft(txn[w]),
         \/ writer' = NoWorker
         \/ writer' = writer /\ writer # w
         \/ writer' = w /\ Holding(u)
  PROVE  AllInPlace' /\ CallsGetShorter
<1>1. txn'[w] = u /\ \A v \in Workers : v # w => txn'[v] = txn[v]
  BY DEF Becomes, TypeOK
<1>2. \A v \in Workers : InPlace(txn'[v])
  BY <1>1 DEF AllInPlace
<1>3. \A v \in Workers : writer' = v => Holding(txn'[v])
  BY <1>1, StoreAssumption DEF AllInPlace, LockInUse
<1>4. CallsGetShorter
  BY <1>1 DEF CallsGetShorter
<1>5. QED
  BY <1>2, <1>3, <1>4 DEF AllInPlace, LockInUse

\* Leaving off ends the call, and gives the lock back if it was held.
LEMMA OneLeaves ==
  ASSUME TypeOK, AllInPlace, NEW w \in Workers, NEW u, Becomes(w, u),
         \/ u.pc = "idle" /\ txn[w].pc # "idle"
         \/ u.pc = "answered" /\ txn[w].pc \notin {"idle", "answered"},
         Unlock(w) \/ (writer' = writer /\ writer # w)
  PROVE  AllInPlace' /\ CallsGetShorter
<1>1. txn[w] \in Transaction /\ InPlace(txn[w])
  BY DEF TypeOK, AllInPlace
<1>2. InPlace(u)
  BY DEF InPlace
<1>3. StepsLeft(u) = IF u.pc = "idle" THEN 0 ELSE 1
  BY DEF StepsLeft
<1>4. txn[w].pc \in {"waiting", "begun", "inserting", "queueing", "reading",
                     "committing"} => StepsLeft(txn[w]) > 1
  <2>1. BatchSize(txn[w].call) \in Nat /\ txn[w].done \in Nat
    BY <1>1, StepsLeftCount DEF Transaction
  <2>2. txn[w].pc \in {"inserting", "queueing"} => txn[w].done <= BatchSize(txn[w].call)
    BY <1>1 DEF InPlace, BatchSize
  <2> HIDE DEF BatchSize
  <2>3. QED
    BY <2>1, <2>2 DEF StepsLeft
<1>5. txn[w].pc = "answered" => StepsLeft(txn[w]) = 1
  BY DEF StepsLeft
<1>6. txn[w].pc \in {"idle", "waiting", "begun", "inserting", "queueing", "reading",
                     "committing", "answered"}
  BY <1>1 DEF Transaction
<1>7. StepsLeft(u) < StepsLeft(txn[w])
  <2> DEFINE before == StepsLeft(txn[w])
             after == StepsLeft(u)
  <2>1. before \in Nat
    BY <1>1, StepsLeftCount
  <2> HIDE DEF before, after
  <2>2. CASE u.pc = "idle" /\ txn[w].pc # "idle"
    <3>1. after = 0 /\ before # 0
      BY <1>3, <1>4, <1>5, <1>6, <2>2 DEF before, after
    <3>2. QED
      BY <2>1, <3>1 DEF before, after
  <2>3. CASE u.pc = "answered" /\ txn[w].pc \notin {"idle", "answered"}
    <3>1. after = 1 /\ before > 1
      BY <1>3, <1>4, <1>6, <2>3 DEF before, after
    <3>2. QED
      BY <2>1, <3>1 DEF before, after
  <2>4. QED
    BY <2>2, <2>3
<1>8. writer' = NoWorker \/ (writer' = writer /\ writer # w)
  BY DEF Unlock
<1>9. QED
  BY <1>2, <1>7, <1>8, OneMoves

\* Every step of a running call is one towards its end.
LEMMA StepShortens ==
  ASSUME TypeOK, Carrying, AllInPlace, NEW w \in Workers, Step(w)
  PROVE  AllInPlace' /\ CallsGetShorter
<1> DEFINE t == txn[w]
           size == BatchSize(t.call)
<1>1. t \in Transaction /\ t.view \in Database /\ InPlace(t)
  BY DEF TypeOK, Transaction, AllInPlace
<1>2. size \in Nat /\ StepsLeft(t) \in Nat /\ t.done \in Nat
  BY <1>1, StepsLeftCount DEF Transaction
<1>3. /\ t.call.op = "enqueue" => size = Len(t.call.batch)
      /\ t.pc \in {"waiting", "begun"} => t.done = 0
  BY DEF BatchSize, Carrying, Carried
<1>4. writer = w => t.pc \in Writing /\ Writes(t.call)
  BY DEF AllInPlace, LockInUse, Holding
<1>5. ASSUME NEW u, Becomes(w, u), UNCHANGED writer, u.call = t.call, InPlace(u),
             StepsLeft(u) < StepsLeft(t), u.pc \in Writing \/ writer # w
      PROVE  AllInPlace' /\ CallsGetShorter
  <2>1. writer = w => Holding(u)
    BY <1>4, <1>5 DEF Holding
  <2>2. QED
    BY <1>5, <2>1, OneMoves
<1>6. ASSUME NEW status, Answer(w, status), t.pc \notin {"idle", "answered"},
             Unlock(w) \/ (writer' = writer /\ writer # w)
      PROVE  AllInPlace' /\ CallsGetShorter
  <2> DEFINE u == [Idle EXCEPT !.pc = "answered", !.status = status]
  <2>1. u.pc = "answered" /\ Becomes(w, u)
    BY <1>6 DEF Idle, Answer
  <2> HIDE DEF u
  <2>2. QED
    BY <1>6, <2>1, OneLeaves
<1>7. ASSUME NEW items, Save(w, items), UNCHANGED writer, t.pc = "begun"
      PROVE  AllInPlace' /\ CallsGetShorter
  <2> DEFINE u == [t EXCEPT !.view.items = items, !.pc = "committing"]
  <2>1. Becomes(w, u)
    BY <1>7 DEF Save
  <2>2. u.pc = "committing" /\ u.call = t.call
    BY <1>1 DEF Transaction
  <2> HIDE DEF u
  <2>3. InPlace(u) /\ StepsLeft(u) = 2 /\ StepsLeft(t) = 2 * size + 4
    BY <1>7, <2>2 DEF InPlace, StepsLeft
  <2>4. u.pc \in Writing
    BY <2>2 DEF Writing
  <2> HIDE DEF size
  <2>5. StepsLeft(u) < StepsLeft(t)
    BY <1>2, <2>3
  <2>6. QED
    BY <1>5, <1>7, <2>1, <2>2, <2>3, <2>4, <2>5
<1>8. CASE BeginWrite(w) \/ BeginRead(w)
  <2> DEFINE u == [t EXCEPT !.pc = "begun", !.view = db]
  <2>1. Becomes(w, u) /\ t.pc = "waiting" /\ u.pc = "begun" /\ u.call = t.call
    BY <1>1, <1>8 DEF BeginWrite, BeginRead, Transaction
  <2> HIDE DEF u
  <2>2. /\ InPlace(u) /\ StepsLeft(u) = 2 * size + 4 /\ StepsLeft(t) = 2 * size + 5
    BY <2>1 DEF InPlace, StepsLeft
  <2>3. StepsLeft(u) < StepsLeft(t)
    <3> HIDE DEF size
    <3>1. QED
      BY <1>2, <2>2
  <2>4. writer # w
    BY <1>4, <2>1 DEF Writing
  <2>5. \/ writer' = w /\ Holding(u)
        \/ writer' = writer /\ writer # w
    BY <1>8, <2>1, <2>4 DEF BeginWrite, BeginRead, Holding, Writing
  <2>6. QED
    BY <2>1, <2>2, <2>3, <2>5, OneMoves
<1>9. CASE Busy(w)
  <2>1. t.pc = "waiting" /\ Answer(w, "busy") /\ writer' = writer
    BY <1>9 DEF Busy
  <2>2. writer # w
    BY <1>4, <2>1 DEF Writing
  <2>3. QED
    BY <1>6, <2>1, <2>2
<1>10. CASE StartEnqueue(w)
  <2>1. t.call.op = "enqueue" /\ t.pc = "begun"
    BY <1>10 DEF StartEnqueue, At
  <2>2. CASE LastRecord(View(w).log) = View(w).head
    <3> DEFINE u == [t EXCEPT !.pc = "inserting", !.tail = View(w).head]
    <3>1. Becomes(w, u) /\ UNCHANGED writer
      BY <1>10, <2>2 DEF StartEnqueue
    <3>2. u.pc = "inserting" /\ u.call = t.call /\ u.done = t.done
      BY <1>1 DEF Transaction
    <3> HIDE DEF u
    <3>3. u.done = 0 /\ size = Len(t.call.batch)
      BY <1>3, <2>1, <3>2
    <3>4. InPlace(u)
      BY <1>2, <2>1, <3>2, <3>3 DEF InPlace
    <3>5. StepsLeft(u) = 2 * (size - 0) + 3 /\ StepsLeft(t) = 2 * size + 4
      BY <2>1, <3>2, <3>3 DEF StepsLeft
    <3>6. StepsLeft(u) < StepsLeft(t)
      <4> HIDE DEF size
      <4>1. QED
        BY <1>2, <3>5
    <3>7. u.pc \in Writing
      BY <3>2 DEF Writing
    <3>8. QED
      BY <1>5, <3>1, <3>2, <3>4, <3>6, <3>7
  <2>3. CASE LastRecord(View(w).log) # View(w).head
    BY <1>6, <1>10, <2>1, <2>3 DEF StartEnqueue, Rollback
  <2>4. QED
    BY <2>2, <2>3
<1>11. CASE InsertRecord(w)
  <2> DEFINE record == NewRecord(t.tail.records + 1, Current(t), t.tail.head_hash)
             log == Append(t.view.log, record)
             tail == AnchorAt(record)
             u == [t EXCEPT !.view.log = log, !.tail = tail, !.pc = "queueing"]
  <2>1. Becomes(w, u) /\ UNCHANGED writer /\ t.pc = "inserting" /\ HasCurrent(t)
    BY <1>11 DEF InsertRecord, At
  <2> HIDE DEF log, tail
  <2>2. u.pc = "queueing" /\ u.call = t.call /\ u.done = t.done
    BY <1>1 DEF Transaction
  <2> HIDE DEF u
  <2>3. InPlace(u)
    BY <1>1, <2>1, <2>2 DEF InPlace, HasCurrent
  <2>4. StepsLeft(u) = 2 * (size - t.done) + 2 /\ StepsLeft(t) = 2 * (size - t.done) + 3
    BY <2>1, <2>2 DEF StepsLeft
  <2>5. StepsLeft(u) < StepsLeft(t)
    <3> HIDE DEF size
    <3>1. QED
      BY <1>2, <2>4
  <2>6. u.pc \in Writing
    BY <2>2 DEF Writing
  <2>7. QED
    BY <1>5, <2>1, <2>2, <2>3, <2>5, <2>6
<1>12. CASE QueueDecision(w)
  <2>1. PICK now \in Times :
          Becomes(w, [t EXCEPT !.view.items = Enqueue(t.view.items, Current(t), now),
                               !.done = @ + 1, !.pc = "inserting"])
    BY <1>12 DEF QueueDecision
  <2> DEFINE items == Enqueue(t.view.items, Current(t), now)
             u == [t EXCEPT !.view.items = items, !.done = t.done + 1, !.pc = "inserting"]
  <2>2. Becomes(w, u) /\ UNCHANGED writer /\ t.pc = "queueing" /\ HasCurrent(t)
    BY <1>12, <2>1 DEF QueueDecision, At
  <2> HIDE DEF items
  <2>3. u.pc = "inserting" /\ u.call = t.call /\ u.done = t.done + 1
    BY <1>1 DEF Transaction
  <2> HIDE DEF u
  <2>4. t.call.op = "enqueue" /\ t.done < size /\ size = Len(t.call.batch)
    BY <1>1, <1>3, <2>2 DEF InPlace, HasCurrent
  <2>5. InPlace(u)
    BY <1>2, <2>3, <2>4 DEF InPlace
  <2>6. /\ StepsLeft(u) = 2 * (size - (t.done + 1)) + 3
        /\ StepsLeft(t) = 2 * (size - t.done) + 2
    BY <2>2, <2>3 DEF StepsLeft
  <2>7. StepsLeft(u) < StepsLeft(t)
    <3> HIDE DEF size
    <3>1. QED
      BY <1>2, <2>6
  <2>8. u.pc \in Writing
    BY <2>3 DEF Writing
  <2>9. QED
    BY <1>5, <2>2, <2>3, <2>5, <2>7, <2>8
<1>13. CASE UpdateHead(w)
  <2> DEFINE u == [t EXCEPT !.view.head = t.tail, !.pc = "committing"]
  <2>1. Becomes(w, u) /\ UNCHANGED writer /\ t.pc = "inserting"
    BY <1>13 DEF UpdateHead, At
  <2>2. u.pc = "committing" /\ u.call = t.call
    BY <1>1 DEF Transaction
  <2> HIDE DEF u
  <2>3. InPlace(u) /\ StepsLeft(u) = 2 /\ StepsLeft(t) = 2 * (size - t.done) + 3
    BY <2>1, <2>2 DEF InPlace, StepsLeft
  <2>4. t.done <= size
    BY <1>1, <1>3, <2>1 DEF InPlace
  <2>5. StepsLeft(u) < StepsLeft(t)
    <3> HIDE DEF size
    <3>1. QED
      BY <1>2, <2>3, <2>4
  <2>6. u.pc \in Writing
    BY <2>2 DEF Writing
  <2>7. QED
    BY <1>5, <2>1, <2>2, <2>3, <2>5, <2>6
<1>14. CASE ClaimItems(w)
  BY <1>7, <1>14 DEF ClaimItems, At
<1>15. CASE ReleaseItem(w)
  BY <1>6, <1>7, <1>15 DEF ReleaseItem, Rollback, At
<1>16. CASE ResolveItem(w)
  BY <1>6, <1>7, <1>16 DEF ResolveItem, Rollback, At
<1>17. ASSUME NEW u, Becomes(w, u), UNCHANGED writer, t.pc = "begun",
              ~Writes(t.call), u.pc = "reading", u.call = t.call
       PROVE  AllInPlace' /\ CallsGetShorter
  <2>1. InPlace(u) /\ StepsLeft(u) = 2 /\ StepsLeft(t) = 2 * size + 4
    BY <1>17 DEF InPlace, StepsLeft
  <2>2. StepsLeft(u) < StepsLeft(t)
    <3> HIDE DEF size
    <3>1. QED
      BY <1>2, <2>1
  <2>3. QED
    BY <1>4, <1>5, <1>17, <2>1, <2>2
<1>18. CASE ReadPage(w)
  <2> DEFINE page == Slice(View(w).items, Matching(View(w).items, t.call.page.state),
                           t.call.page.offset, t.call.page.limit)
             u == [t EXCEPT !.page = page, !.pc = "reading"]
  <2>1. Becomes(w, u) /\ UNCHANGED writer /\ t.pc = "begun" /\ ~Writes(t.call)
    BY <1>18 DEF ReadPage, At, Writes
  <2> HIDE DEF page
  <2>2. u.pc = "reading" /\ u.call = t.call
    BY <1>1 DEF Transaction
  <2> HIDE DEF u
  <2>3. QED
    BY <1>17, <2>1, <2>2
<1>19. CASE ReadAnchor(w)
  <2> DEFINE u == [t EXCEPT !.tail = View(w).head, !.pc = "reading"]
  <2>1. Becomes(w, u) /\ UNCHANGED writer /\ t.pc = "begun" /\ ~Writes(t.call)
    BY <1>19 DEF ReadAnchor, At, Writes
  <2>2. u.pc = "reading" /\ u.call = t.call
    BY <1>1 DEF Transaction
  <2> HIDE DEF u
  <2>3. QED
    BY <1>17, <2>1, <2>2
<1>20. ASSUME NEW u, Becomes(w, u), UNCHANGED writer, t.pc = "reading", u.pc = "answered"
       PROVE  AllInPlace' /\ CallsGetShorter
  <2>1. writer # w
    BY <1>4, <1>20 DEF Writing
  <2>2. QED
    BY <1>20, <2>1, OneLeaves
<1>21. CASE ReadStats(w)
  <2> DEFINE total == Cardinality(Matching(View(w).items, t.call.page.state))
             u == [t EXCEPT !.total = total, !.status = "ok", !.view = EmptyDatabase,
                            !.pc = "answered"]
  <2>1. Becomes(w, u) /\ UNCHANGED writer /\ t.pc = "reading"
    BY <1>21 DEF ReadStats, At
  <2> HIDE DEF total
  <2>2. u.pc = "answered"
    BY <1>1 DEF Transaction
  <2> HIDE DEF u
  <2>3. QED
    BY <1>20, <2>1, <2>2
<1>22. CASE ReadRecords(w)
  <2> DEFINE verdict == Verdict(View(w).log, t.tail)
             u == [Idle EXCEPT !.pc = "answered", !.status = "ok", !.verdict = verdict]
  <2>1. Becomes(w, u) /\ UNCHANGED writer /\ t.pc = "reading"
    BY <1>22 DEF ReadRecords, At
  <2> HIDE DEF verdict
  <2>2. u.pc = "answered"
    BY DEF Idle
  <2> HIDE DEF u
  <2>3. QED
    BY <1>20, <2>1, <2>2
<1>23. CASE Commit(w)
  BY <1>6, <1>23 DEF Commit
<1>24. CASE Return(w)
  <2>1. Idle.pc = "idle" /\ writer # w
    BY <1>4, <1>24 DEF Idle, Return, Writing
  <2>2. QED
    BY <1>24, <2>1, OneLeaves DEF Return
<1>25. QED
  BY <1>8, <1>9, <1>10, <1>11, <1>12, <1>13, <1>14, <1>15, <1>16, <1>18, <1>19, <1>21,
     <1>22, <1>23, <1>24 DEF Step

\* Whatever workers do to each other's data, no call goes on forever: it has a number
\* of steps left, which every step of it lessens, a failed statement and the end of its
\* process included, and which nobody else can raise (SQLiteStore._transaction and
\* what runs in it).  And the write lock is held by a call that is still writing, so
\* it is given back: nobody is kept out by one that has ended.
THEOREM CallsRunOut ==
  Spec => /\ [](\A w \in Workers : StepsLeft(txn[w]) \in Nat)
          /\ [][CallsGetShorter]_vars
          /\ []LockInUse
<1>1. Init => AllInPlace
  <2>1. Idle.pc = "idle"
    BY DEF Idle
  <2>2. Init => \A w \in Workers : InPlace(txn[w])
    BY <2>1 DEF Init, InPlace
  <2>3. QED
    BY <2>2, StoreAssumption DEF Init, AllInPlace, LockInUse
<1>2. TypeOK /\ Carrying /\ AllInPlace /\ [Next]_vars =>
        AllInPlace' /\ [CallsGetShorter]_vars
  <2> SUFFICES ASSUME TypeOK, Carrying, AllInPlace, [Next]_vars
               PROVE  AllInPlace' /\ [CallsGetShorter]_vars
    OBVIOUS
  <2>1. ASSUME UNCHANGED <<writer, txn>> PROVE AllInPlace' /\ CallsGetShorter
    BY <2>1 DEF AllInPlace, LockInUse, Holding, InPlace, HasCurrent, CallsGetShorter
  <2>2. ASSUME NEW w \in Workers, NEW call \in Calls, Request(w, call)
        PROVE  AllInPlace' /\ CallsGetShorter
    <3> DEFINE u == [Idle EXCEPT !.pc = "waiting", !.call = call]
    <3>1. u.pc = "waiting" /\ Becomes(w, u) /\ txn[w].pc = "idle" /\ writer' = writer
      BY <2>2 DEF Idle, Request
    <3> HIDE DEF u
    <3>2. writer # w /\ InPlace(u)
      BY <3>1 DEF AllInPlace, LockInUse, Holding, Writing, InPlace
    <3>3. QED
      BY <3>1, <3>2, OneMoves
  <2>3. ASSUME NEW w \in Workers, Fail(w) PROVE AllInPlace' /\ CallsGetShorter
    <3> DEFINE u == [Idle EXCEPT !.pc = "answered", !.status = "failed"]
    <3>1. u.pc = "answered" /\ Becomes(w, u) /\ Unlock(w)
      BY <2>3 DEF Idle, Fail, Rollback, Answer
    <3> HIDE DEF u
    <3>2. QED
      BY <2>3, <3>1, OneLeaves DEF Fail
  <2>4. ASSUME NEW w \in Workers, Crash(w) PROVE AllInPlace' /\ CallsGetShorter
    <3>1. Idle.pc = "idle"
      BY DEF Idle
    <3>2. QED
      BY <2>4, <3>1, OneLeaves DEF Crash
  <2>5. CASE Accident
    BY <2>1, <2>5 DEF Accident, LoseRow, EditRow
  <2>6. CASE UNCHANGED vars
    BY <2>1, <2>6 DEF vars
  <2>7. QED
    BY <2>2, <2>3, <2>4, <2>5, <2>6, StepShortens DEF Next
<1>3. TypeOK /\ AllInPlace => LockInUse /\ \A w \in Workers : StepsLeft(txn[w]) \in Nat
  BY StepsLeftCount DEF TypeOK, AllInPlace
<1>4. QED
  BY <1>1, <1>2, <1>3, TypeCorrect, AlwaysCarrying, PTL DEF Spec
=============================================================================
