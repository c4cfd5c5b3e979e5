----------------------------- MODULE SQLiteStore ------------------------------
(***************************************************************************)
(* The SQLite moderation store as several web workers and command-line     *)
(* runs use it on one host.  Each call opens a connection and runs one     *)
(* transaction: a private view of the committed database that either       *)
(* replaces it (COMMIT) or is dropped.  Writers hold SQLite's single write *)
(* lock from BEGIN IMMEDIATE on; readers keep the snapshot their BEGIN     *)
(* took and block nobody.                                                  *)
(*                                                                         *)
(* A call may be refused (the rules of the queue, or a log that does not   *)
(* match its anchor), find the store busy, fail in any statement (a full   *)
(* disk), or its process may die at any moment, before or after COMMIT.    *)
(***************************************************************************)
EXTENDS QueueItems

CONSTANTS
  Workers,      \* threads of the web workers, and command-line runs
  Batches,      \* batches of decisions that may be submitted
  ClaimLimits,  \* how many items one claim may ask for
  Pages,        \* page requests: records of offset, limit and state filter
  NoWorker,     \* the write lock is free
  Anyone,       \* the page filter "every state"
  MaxLog,       \* bound: no batch is submitted that would outgrow this log
  Accidents     \* bound: which accidents happen, each at most once

INSTANCE AuditChain WITH Logged <- Decision

ASSUME StoreAssumption ==
  /\ NoWorker \notin Workers
  /\ Batches \subseteq Seq(Decision)
  /\ ClaimLimits \subseteq Nat \ {0}
  /\ Pages \subseteq [offset : Nat, limit : Nat \ {0}, state : QueueState \cup {Anyone}]
  /\ MaxLog \in Nat
  /\ Accidents \subseteq {"row lost", "row edited"}

VARIABLES
  db,      \* the committed database: queue_items, audit_records, audit_head
  writer,  \* who holds the write lock
  txn,     \* what each worker is doing
  damage   \* accidents that have happened to the stored log

vars == <<db, writer, txn, damage>>

Database == [items : Queue, log : Seq(AuditRecord), head : Anchor]

\* What _initialize commits before any store is handed out.
EmptyDatabase == [items |-> EmptyQueue, log |-> <<>>, head |-> GenesisAnchor]

-----------------------------------------------------------------------------
(* Calls and the state of a worker.                                        *)

Calls ==
  [op : {"enqueue"}, batch : Batches]
  \cup [op : {"claim"}, moderator : Moderators, limit : ClaimLimits]
  \cup [op : {"release"}, review_id : Reviews]
  \cup [op : {"resolve"}, review_id : Reviews, moderator : Moderators,
        outcome : Outcomes]
  \cup [op : {"snapshot"}, page : Pages]
  \cup [op : {"verify"}]

NoCall == [op |-> "none"]

Writes(call) == call.op \in {"enqueue", "claim", "release", "resolve"}

Statuses == {"none", "ok", "busy", "refused", "failed"}

Transaction ==
  [pc : {"idle", "waiting", "begun", "inserting", "queueing", "reading",
         "committing", "answered"},
   call : Calls \cup {NoCall},
   view : Database,             \* the connection's view of the database
   done : Nat,                  \* decisions of the batch inserted so far
   tail : Anchor,               \* running sequence and head_hash; anchor read
   page : SUBSET Reviews,       \* ids on the page that was read
   total : Nat,                 \* count the page's has_next is computed from
   status : Statuses,
   verdict : Verdicts \cup {"none"}]

Idle ==
  [pc |-> "idle", call |-> NoCall, view |-> EmptyDatabase, done |-> 0,
   tail |-> GenesisAnchor, page |-> {}, total |-> 0, status |-> "none",
   verdict |-> "none"]

TypeOK ==
  /\ db \in Database
  /\ writer \in Workers \cup {NoWorker}
  /\ txn \in [Workers -> Transaction]
  /\ damage \subseteq Accidents

Init ==
  /\ db = EmptyDatabase
  /\ writer = NoWorker
  /\ txn = [w \in Workers |-> Idle]
  /\ damage = {}

At(w, op, pc) == txn[w].call.op = op /\ txn[w].pc = pc

Becomes(w, t) == txn' = [txn EXCEPT ![w] = t]

\* The call is over with the given status; the connection is closed.
Answer(w, status) ==
  Becomes(w, [Idle EXCEPT !.pc = "answered", !.status = status])

Unlock(w) == writer' = IF writer = w THEN NoWorker ELSE writer

\* Mutation: autocommit, what was written so far stays.
KeepPartialWork(w, status) ==
  Answer(w, status) /\ Unlock(w) /\ db' = txn[w].view /\ UNCHANGED damage

\* An exception inside the transaction: the view is dropped, nothing is kept.
Rollback(w, status) == Answer(w, status) /\ Unlock(w) /\ UNCHANGED <<db, damage>>

-----------------------------------------------------------------------------
(* Opening a transaction.                                                  *)

\* The bound: this batch and one still on its way fit under MaxLog.
RoomFor(batch) ==
  \A v \in Workers :
    LET coming == IF txn[v].call.op = "enqueue" /\ txn[v].status = "none"
                  THEN Len(txn[v].call.batch) ELSE 0
    IN Len(db.log) + Len(batch) + coming <= MaxLog

Request(w, call) ==
  /\ txn[w].pc = "idle"
  /\ call.op = "enqueue" => RoomFor(call.batch)
  /\ Becomes(w, [Idle EXCEPT !.pc = "waiting", !.call = call])
  /\ UNCHANGED <<db, writer, damage>>

\* Mutation: BEGIN without IMMEDIATE, the view is taken before the lock.
BeginDeferred(w) ==
  /\ txn[w].pc = "waiting" /\ Writes(txn[w].call)
  /\ Becomes(w, [txn[w] EXCEPT !.pc = "begun", !.view = db])
  /\ UNCHANGED <<db, writer, damage>>

\* BEGIN IMMEDIATE succeeds: lock and view together.
BeginWrite(w) ==
  /\ txn[w].pc = "waiting" /\ Writes(txn[w].call)
  /\ writer = NoWorker
  /\ writer' = w
  /\ Becomes(w, [txn[w] EXCEPT !.pc = "begun", !.view = db])
  /\ UNCHANGED <<db, damage>>

\* Mutation: no busy timeout, a writer waits until it gets the lock.
NeverBusy(w) == FALSE /\ Answer(w, "busy") /\ UNCHANGED <<db, writer, damage>>

\* The busy timeout runs out while somebody else holds the lock.
Busy(w) ==
  /\ txn[w].pc = "waiting" /\ Writes(txn[w].call)
  /\ writer # NoWorker
  /\ Answer(w, "busy")
  /\ UNCHANGED <<db, writer, damage>>

BeginRead(w) ==
  /\ txn[w].pc = "waiting" /\ ~Writes(txn[w].call)
  /\ Becomes(w, [txn[w] EXCEPT !.pc = "begun", !.view = db])
  /\ UNCHANGED <<db, writer, damage>>

\* The database a statement of w's transaction sees.
View(w) == txn[w].view

-----------------------------------------------------------------------------
(* enqueue                                                                 *)

\* Mutation: the new record continues whatever the log ends in.
ContinueLog(w) ==
  /\ At(w, "enqueue", "begun")
  /\ Becomes(w, [txn[w] EXCEPT !.pc = "inserting",
                               !.tail = LastRecord(View(w).log)])
  /\ UNCHANGED <<db, writer, damage>>

\* The log must end exactly where its anchor says before it is extended.
StartEnqueue(w) ==
  /\ At(w, "enqueue", "begun")
  /\ IF LastRecord(View(w).log) = View(w).head
     THEN /\ Becomes(w, [txn[w] EXCEPT !.pc = "inserting", !.tail = View(w).head])
          /\ UNCHANGED <<db, writer, damage>>
     ELSE Rollback(w, "refused")

\* The decision of the batch whose turn it is.
HasCurrent(t) == t.done < Len(t.call.batch)
Current(t) == t.call.batch[t.done + 1]

\* INSERT INTO audit_records.
InsertRecord(w) ==
  LET t == txn[w]
      record == NewRecord(t.tail.records + 1, Current(t), t.tail.head_hash)
  IN
  /\ At(w, "enqueue", "inserting") /\ HasCurrent(t)
  /\ Becomes(w, [t EXCEPT !.view.log = Append(t.view.log, record),
                          !.tail = AnchorAt(record),
                          !.pc = "queueing"])
  /\ UNCHANGED <<db, writer, damage>>

\* INSERT INTO queue_items, for a flagged decision, unless the id is there.
QueueDecision(w) ==
  LET t == txn[w] IN
  /\ At(w, "enqueue", "queueing") /\ HasCurrent(t)
  /\ \E now \in Times :
       Becomes(w, [t EXCEPT !.view.items = Enqueue(t.view.items, Current(t), now),
                            !.done = @ + 1,
                            !.pc = "inserting"])
  /\ UNCHANGED <<db, writer, damage>>

UpdateHead(w) ==
  /\ At(w, "enqueue", "inserting")
  /\ ~HasCurrent(txn[w])
  /\ Becomes(w, [txn[w] EXCEPT !.view.head = txn[w].tail, !.pc = "committing"])
  /\ UNCHANGED <<db, writer, damage>>

-----------------------------------------------------------------------------
(* claim, release, resolve                                                 *)

\* UPDATE queue_items: the view has these items now, ready to be committed.
Save(w, items) ==
  Becomes(w, [txn[w] EXCEPT !.view.items = items, !.pc = "committing"])

ClaimItems(w) ==
  /\ At(w, "claim", "begun")
  /\ Save(w, ClaimFront(View(w).items, txn[w].call.moderator, txn[w].call.limit))
  /\ UNCHANGED <<db, writer, damage>>

ReleaseItem(w) ==
  LET r == txn[w].call.review_id IN
  /\ At(w, "release", "begun")
  /\ IF r \in InState(View(w).items, "claimed")
     THEN /\ Save(w, [View(w).items EXCEPT ![r] = Release(@)])
          /\ UNCHANGED <<db, writer, damage>>
     ELSE Rollback(w, "refused")

\* Mutation: no check that the item is still open.
ResolveAgain(w) ==
  LET call == txn[w].call  r == call.review_id IN
  /\ At(w, "resolve", "begun")
  /\ r \in Queued(View(w).items)
  /\ Save(w, [View(w).items EXCEPT ![r] = Resolve(@, call.moderator, call.outcome)])
  /\ UNCHANGED <<db, writer, damage>>

\* Any moderator may resolve an open item, claimed or not.
ResolveItem(w) ==
  LET call == txn[w].call  r == call.review_id IN
  /\ At(w, "resolve", "begun")
  /\ IF r \in Queued(View(w).items) \ InState(View(w).items, "resolved")
     THEN /\ Save(w, [View(w).items EXCEPT
                       ![r] = Resolve(@, call.moderator, call.outcome)])
          /\ UNCHANGED <<db, writer, damage>>
     ELSE Rollback(w, "refused")

-----------------------------------------------------------------------------
(* Closing a write transaction, and what can go wrong in one.              *)

Commit(w) ==
  /\ txn[w].pc = "committing"
  /\ db' = View(w)
  /\ Unlock(w)
  /\ Answer(w, "ok")
  /\ UNCHANGED damage

\* Any statement, COMMIT included, may fail: disk full, I/O error.
Fail(w) ==
  /\ txn[w].pc \in {"begun", "inserting", "queueing", "reading", "committing"}
  /\ Rollback(w, "failed")

\* The process dies: SQLite discards what was not committed.
Crash(w) ==
  /\ txn[w].pc # "idle"
  /\ Becomes(w, Idle)
  /\ Unlock(w)
  /\ UNCHANGED <<db, damage>>

Return(w) ==
  /\ txn[w].pc = "answered"
  /\ Becomes(w, Idle)
  /\ UNCHANGED <<db, writer, damage>>

-----------------------------------------------------------------------------
(* snapshot and verify: several statements in one read transaction.        *)

Matching(items, state) ==
  IF state = Anyone THEN Queued(items) ELSE InState(items, state)

ReadPage(w) ==
  LET page == txn[w].call.page  items == View(w).items IN
  /\ At(w, "snapshot", "begun")
  /\ Becomes(w, [txn[w] EXCEPT
                    !.page = Slice(items, Matching(items, page.state),
                                   page.offset, page.limit),
                    !.pc = "reading"])
  /\ UNCHANGED <<db, writer, damage>>

\* Mutation: the counts come from a second transaction.
StatsLater(w) ==
  /\ At(w, "snapshot", "reading")
  /\ Becomes(w, [txn[w] EXCEPT
                    !.total = Cardinality(Matching(db.items, txn[w].call.page.state)),
                    !.status = "ok", !.view = EmptyDatabase, !.pc = "answered"])
  /\ UNCHANGED <<db, writer, damage>>

ReadStats(w) ==
  /\ At(w, "snapshot", "reading")
  /\ Becomes(w, [txn[w] EXCEPT
                    !.total = Cardinality(Matching(View(w).items,
                                                   txn[w].call.page.state)),
                    !.status = "ok", !.view = EmptyDatabase, !.pc = "answered"])
  /\ UNCHANGED <<db, writer, damage>>

ReadAnchor(w) ==
  /\ At(w, "verify", "begun")
  /\ Becomes(w, [txn[w] EXCEPT !.tail = View(w).head, !.pc = "reading"])
  /\ UNCHANGED <<db, writer, damage>>

\* Mutation: the records come from a second transaction.
RecordsLater(w) ==
  /\ At(w, "verify", "reading")
  /\ Becomes(w, [Idle EXCEPT !.pc = "answered", !.status = "ok",
                             !.verdict = Verdict(db.log, txn[w].tail)])
  /\ UNCHANGED <<db, writer, damage>>

ReadRecords(w) ==
  /\ At(w, "verify", "reading")
  /\ Becomes(w, [Idle EXCEPT !.pc = "answered", !.status = "ok",
                             !.verdict = Verdict(View(w).log, txn[w].tail)])
  /\ UNCHANGED <<db, writer, damage>>

-----------------------------------------------------------------------------
(* Accidents: another program deletes or edits a stored record.            *)

LoseRow(i) ==
  /\ "row lost" \in Accidents \ damage
  /\ writer = NoWorker
  /\ db' = [db EXCEPT !.log = [j \in 1..(Len(@) - 1) |->
                                 IF j < i THEN @[j] ELSE @[j + 1]]]
  /\ damage' = damage \cup {"row lost"}
  /\ UNCHANGED <<writer, txn>>

EditRow(i, decision) ==
  /\ "row edited" \in Accidents \ damage
  /\ writer = NoWorker
  /\ decision # db.log[i].decision
  /\ db' = [db EXCEPT !.log[i].decision = decision]
  /\ damage' = damage \cup {"row edited"}
  /\ UNCHANGED <<writer, txn>>

Accident ==
  \E i \in 1..Len(db.log) :
    \/ LoseRow(i)
    \/ \E decision \in Decision : EditRow(i, decision)

-----------------------------------------------------------------------------
\* What the worker's own program does next, once it has been called.
Step(w) ==
  \/ BeginWrite(w) \/ BeginRead(w) \/ Busy(w)
  \/ StartEnqueue(w) \/ InsertRecord(w) \/ QueueDecision(w) \/ UpdateHead(w)
  \/ ClaimItems(w) \/ ReleaseItem(w) \/ ResolveItem(w)
  \/ ReadPage(w) \/ ReadStats(w) \/ ReadAnchor(w) \/ ReadRecords(w)
  \/ Commit(w) \/ Return(w)

Next ==
  \/ \E w \in Workers :
       \/ \E call \in Calls : Request(w, call)
       \/ Step(w)
       \/ Fail(w)
       \/ Crash(w)
  \/ Accident

Spec == Init /\ [][Next]_vars

\* A running thread keeps executing its call.
FairSpec == Spec /\ \A w \in Workers : WF_vars(Step(w))

-----------------------------------------------------------------------------
(* What must hold.                                                         *)

\* The stored head always describes the stored log: no interleaving of
\* enqueues, failed statements or dead processes leaves a verifier anything
\* to complain of (enqueue updates records and head in one transaction).
HeadMatchesLog == damage = {} => Verdict(db.log, db.head) = "intact"

\* A queued item was logged with that very decision, and a logged decision
\* that asked for a human has an item: the batch is kept whole or not at all,
\* wherever enqueue stops ("Queue mutations, decision records, and the audit
\* head commit together").
QueueMatchesLog(items, log) ==
  /\ \A r \in Queued(items) : \E i \in 1..Len(log) :
       log[i].decision = items[r].decision
  /\ \A i \in 1..Len(log) :
       log[i].decision.requires_human_review =>
         log[i].decision.review_id \in Queued(items)

LoggedAndQueuedTogether == damage = {} => QueueMatchesLog(db.items, db.log)

\* A verifier that runs while others append never reports a break that is not
\* there: anchor and records are read from one snapshot (SQLiteStore.verify).
NoFalseAlarm == damage = {} => \A w \in Workers : txn[w].verdict \in {"none", "intact"}

\* The page and the count it is paged by come from one snapshot: the page is
\* exactly as long as the count says it must be (SQLiteStore.snapshot).
PageAgreesWithCount ==
  \A w \in Workers :
    At(w, "snapshot", "answered") /\ txn[w].status = "ok" =>
      LET request == txn[w].call.page
          left == IF txn[w].total > request.offset
                  THEN txn[w].total - request.offset ELSE 0
      IN Cardinality(txn[w].page) =
           IF left < request.limit THEN left ELSE request.limit

\* Once a stored record was lost or edited, no later call makes the log verify
\* again: appending cannot launder the damage (SQLiteStore._check_head and the
\* numbering of new records).
DamageStaysVisible == damage # {} => Verdict(db.log, db.head) # "intact"

\* No step drops an item, changes what it was queued for, or touches it after a
\* moderator resolved it, resubmission of the review included (enqueue: "never
\* reset an existing queue item or overwrite a moderator's outcome").
ItemsOnlyMoveForward ==
  [][\A r \in Queued(db.items) :
       /\ db'.items[r] # NoItem
       /\ db'.items[r].decision = db.items[r].decision
       /\ db'.items[r].queued_at = db.items[r].queued_at
       /\ db.items[r].state = "resolved" => db'.items[r] = db.items[r]]_vars

\* Two moderators never claim the same item one over the other: a claimed item
\* changes hands only by way of a release (SQLiteStore.claim under the write
\* lock).
ClaimIsNotStolen ==
  [][\A r \in InState(db.items, "claimed") \cap InState(db'.items, "claimed") :
       db'.items[r].claimed_by = db.items[r].claimed_by]_vars

\* What a claim commits is the front of the queue as committed at that moment:
\* nothing it left pending is ahead of anything it took.
ClaimTakesTheFront ==
  [][\A r \in InState(db.items, "pending") \cap InState(db'.items, "claimed") :
       \A q \in InState(db'.items, "pending") : ~Ahead(db'.items[q], db.items[r])]_vars

\* Seen from outside, the store is the ledger: every call takes effect in one
\* step or not at all, whatever else runs.
Ledger == INSTANCE ModerationLedger
            WITH items <- db.items, decisions <- Decisions(db.log)
ImplementsLedger == Ledger!Spec

\* Every call comes to an end: it is answered, refused, told the store is busy,
\* or its process died.  No two callers wait for each other for ever.
EveryCallEnds ==
  \A w \in Workers : txn[w].pc = "waiting" ~> txn[w].pc \in {"answered", "idle"}
=============================================================================
