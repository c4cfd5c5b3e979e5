------------------------------- MODULE FileStore ------------------------------
(***************************************************************************)
(* The JSON files a single process keeps: the queue, the audit log and the *)
(* log's anchor.  A web thread holds the process lock for a whole call,    *)
(* the command line takes no lock at all.  A call loads a file, changes    *)
(* its copy and writes it back; it may fail at any step, and a process may *)
(* die at any step, in the middle of a line of the log or just before its  *)
(* newline included.  Whoever reads the log gives up at a line that is not *)
(* one whole record.                                                       *)
(***************************************************************************)
EXTENDS QueueItems

CONSTANTS
  Workers,      \* threads of the web process
  Operators,    \* command-line runs at work on the same files
  Batches,      \* batches of decisions that may be submitted
  Destinations, \* which of the two files an operator's score commands name
  ClaimLimits,  \* how many items one claim may ask for
  NoWorker,     \* the process lock is free
  NoAnchor,     \* the log has never been anchored
  MaxLog        \* bound: no batch is submitted that would outgrow this log

INSTANCE AuditChain WITH Logged <- Decision

ASSUME FileStoreAssumption ==
  /\ NoWorker \notin Workers /\ Workers \cap Operators = {}
  /\ Batches \subseteq Seq(Decision)
  /\ Destinations \subseteq SUBSET {"log", "queue"}
  /\ ClaimLimits \subseteq Nat \ {0} /\ MaxLog \in Nat
  /\ NoAnchor \notin Anchor

VARIABLES
  disk,         \* the files: queue, log and anchor (see TypeOK)
  lock,         \* which thread holds the process lock
  op,           \* what each actor is doing
  interrupted   \* history: records were written that no anchor was written for

vars == <<disk, lock, op, interrupted>>

Actors == Workers \cup Operators

\* What a web thread writes a batch to.
BothFiles == {"log", "queue"}

Calls ==
  [op : {"enqueue"}, batch : Batches, files : Destinations \cup {BothFiles}]
  \cup [op : {"claim"}, moderator : Moderators, limit : ClaimLimits]
  \cup [op : {"release"}, review_id : Reviews]
  \cup [op : {"resolve"}, review_id : Reviews, moderator : Moderators,
        outcome : Outcomes]

NoCall == [op |-> "none"]

StepNames == {"lock", "load", "check", "write", "anchor", "save"}

TypeOK ==
  /\ disk \in [items : Queue,
               log : Seq(AuditRecord),  \* the whole records in the log's file, in order
               ended : BOOLEAN,         \* its last line ends in a newline
               spoiled : BOOLEAN,       \* some line of it is not one whole record
               anchor : Anchor \cup {NoAnchor}]
  /\ lock \in Workers \cup {NoWorker}
  /\ op \in [Actors -> [call : Calls \cup {NoCall},
                        todo : Seq(StepNames),   \* steps still to take
                        items : Queue,           \* the queue in memory
                        lines : Seq(AuditRecord)]]  \* the records to be written
  /\ interrupted \in BOOLEAN

Idle == [call |-> NoCall, todo |-> <<>>, items |-> EmptyQueue, lines |-> <<>>]

Init ==
  /\ disk = [items |-> EmptyQueue, log |-> <<>>, ended |-> TRUE, spoiled |-> FALSE,
             anchor |-> NoAnchor]
  /\ lock = NoWorker
  /\ op = [a \in Actors |-> Idle]
  /\ interrupted = FALSE

-----------------------------------------------------------------------------
(* The steps of a call.                                                    *)

\* Mutation: the queue is saved before the decisions are logged.
SaveFirst(batch) == <<"load", "save", "check", "write", "anchor">>

\* Mutation: the anchor is advanced before the log.
AnchorFirst(batch) == <<"load", "check", "anchor", "write", "save">>

\* A web thread loads the queue first; an empty batch is not taken to the log.
EnqueueSteps(batch) ==
  IF batch = <<>> THEN <<"load", "save">>
  ELSE <<"load", "check", "write", "anchor", "save">>

\* The score command goes to the files it is given, to the log before the queue.
ScoreSteps(batch, files) ==
  (IF "log" \in files /\ batch # <<>> THEN <<"check", "write", "anchor">> ELSE <<>>)
  \o (IF "queue" \in files THEN <<"load", "save">> ELSE <<>>)

Steps(a, call) ==
  IF call.op # "enqueue" THEN <<"load", "save">>
  ELSE IF a \in Operators THEN ScoreSteps(call.batch, call.files)
  ELSE EnqueueSteps(call.batch)

Due(a, name) == op[a].todo # <<>> /\ Head(op[a].todo) = name

Goes(a, o) == op' = [op EXCEPT ![a] = [o EXCEPT !.todo = Tail(@)]]

Unlocked(a) == lock' = IF lock = a THEN NoWorker ELSE lock

\* The call is over, with an answer or an error; its copy of the files is dropped.
Ends(a) == op' = [op EXCEPT ![a] = Idle] /\ Unlocked(a)

\* On to the next step of the call, or out of it after the last.
Proceeds(a) ==
  IF Len(op[a].todo) = 1 THEN Ends(a) ELSE Goes(a, op[a]) /\ UNCHANGED lock

\* A command that touches neither file is not taken up.
Start(a, call) ==
  /\ op[a] = Idle /\ Steps(a, call) # <<>>
  /\ a \in Workers /\ call.op = "enqueue" => call.files = BothFiles
  /\ call.op = "enqueue" => Len(disk.log) + Len(call.batch) <= MaxLog
  /\ op' = [op EXCEPT ![a] =
       [call |-> call, items |-> EmptyQueue, lines |-> <<>>,
        todo |-> (IF a \in Workers THEN <<"lock">> ELSE <<>>) \o Steps(a, call)]]
  /\ UNCHANGED <<disk, lock, interrupted>>

\* Mutation: a call runs without the process lock.
EnterUnlocked(a) ==
  /\ Due(a, "lock")
  /\ Goes(a, op[a])
  /\ UNCHANGED <<disk, lock, interrupted>>

Enter(a) ==
  /\ Due(a, "lock")
  /\ lock = NoWorker /\ lock' = a
  /\ Goes(a, op[a])
  /\ UNCHANGED <<disk, interrupted>>

\* The queue once every decision of the batch was enqueued, in order.
EnqueueAll(items, batch, now) ==
  LET queue[n \in 0..Len(batch)] ==
        IF n = 0 THEN items ELSE Enqueue(queue[n - 1], batch[n], now)
  IN queue[Len(batch)]

Refused(items, call) ==
  \/ call.op = "release" /\ call.review_id \notin InState(items, "claimed")
  \/ call.op = "resolve"
       /\ call.review_id \notin Queued(items) \ InState(items, "resolved")

Applied(items, call, now) ==
  CASE call.op = "enqueue" -> EnqueueAll(items, call.batch, now)
    [] call.op = "claim" -> ClaimFront(items, call.moderator, call.limit)
    [] call.op = "release" -> [items EXCEPT ![call.review_id] = Release(@)]
    [] call.op = "resolve" ->
         [items EXCEPT ![call.review_id] = Resolve(@, call.moderator, call.outcome)]

\* Read the queue and work on the copy.
Load(a) ==
  /\ Due(a, "load")
  /\ IF Refused(disk.items, op[a].call) THEN Ends(a)
     ELSE /\ \E now \in Times :
               Goes(a, [op[a] EXCEPT !.items = Applied(disk.items, op[a].call, now)])
          /\ UNCHANGED lock
  /\ UNCHANGED <<disk, interrupted>>

\* The decisions of a batch as records after the given end of a log.
Records(tail, batch) ==
  LET record[i \in 1..Len(batch)] ==
        NewRecord(tail.records + i, batch[i],
                  IF i = 1 THEN tail.head_hash ELSE record[i - 1].record_hash)
  IN record

Chained(a) == Records(LastRecord(disk.log), op[a].call.batch)

\* Mutation: a log that does not match its anchor is extended all the same.
CheckNothing(a) ==
  /\ Due(a, "check")
  /\ IF disk.spoiled THEN Ends(a)
     ELSE Goes(a, [op[a] EXCEPT !.lines = Chained(a)]) /\ UNCHANGED lock
  /\ UNCHANGED <<disk, interrupted>>

\* Find the end of the log; it must be readable and match its anchor, if any.
CheckLog(a) ==
  /\ Due(a, "check")
  /\ IF disk.spoiled \/ disk.anchor \notin {NoAnchor, LastRecord(disk.log)} THEN Ends(a)
     ELSE Goes(a, [op[a] EXCEPT !.lines = Chained(a)]) /\ UNCHANGED lock
  /\ UNCHANGED <<disk, interrupted>>

\* The lines are added to the file as it is now: after a last line without a newline
\* the first of them is glued to that line, which then is no record.
WriteLog(a) ==
  /\ Due(a, "write")
  /\ disk' = [disk EXCEPT !.log = @ \o op[a].lines, !.ended = TRUE,
                          !.spoiled = @ \/ ~disk.ended]
  /\ Goes(a, op[a])
  /\ interrupted' = TRUE
  /\ UNCHANGED lock

WriteAnchor(a) ==
  /\ Due(a, "anchor")
  /\ disk' = [disk EXCEPT !.anchor = LastRecord(op[a].lines)]
  /\ interrupted' = FALSE
  /\ Proceeds(a)

Save(a) ==
  /\ Due(a, "save")
  /\ disk' = [disk EXCEPT !.items = op[a].items]
  /\ Proceeds(a)
  /\ UNCHANGED interrupted

-----------------------------------------------------------------------------
(* What can go wrong, and the repair.                                      *)

\* A full disk or a dying process cuts a write short: after k lines (ended), after the
\* k-th line but before its newline, or inside the line that follows (torn).
CutShort(a) ==
  /\ Due(a, "write")
  /\ \E k \in 0..Len(op[a].lines), torn \in BOOLEAN, ended \in BOOLEAN :
       /\ k > 0 \/ torn
       /\ torn => k < Len(op[a].lines) /\ ~ended
       /\ disk' = [disk EXCEPT !.log = @ \o SubSeq(op[a].lines, 1, k), !.ended = ended,
                               !.spoiled = @ \/ torn \/ ~disk.ended]
  /\ Ends(a)
  /\ interrupted' = TRUE

\* A step fails: the exception ends the call.
Fail(a) ==
  /\ op[a] # Idle
  /\ Ends(a)
  /\ UNCHANGED <<disk, interrupted>>

\* The web process dies and is started again.
Crash ==
  /\ \E w \in Workers : op[w] # Idle
  /\ op' = [a \in Actors |-> IF a \in Workers THEN Idle ELSE op[a]]
  /\ lock' = NoWorker
  /\ UNCHANGED <<disk, interrupted>>

\* verify --re-anchor, while nobody is at work; an unreadable log is refused.
ReAnchor ==
  /\ \A a \in Actors : op[a] = Idle
  /\ ~disk.spoiled
  /\ disk' = [disk EXCEPT !.anchor = LastRecord(disk.log)]
  /\ interrupted' = FALSE
  /\ UNCHANGED <<lock, op>>

Next ==
  \/ \E a \in Actors :
       \/ \E call \in Calls : Start(a, call)
       \/ Enter(a) \/ Load(a) \/ CheckLog(a) \/ WriteLog(a) \/ WriteAnchor(a)
       \/ Save(a) \/ CutShort(a) \/ Fail(a)
  \/ Crash \/ ReAnchor

Spec == Init /\ [][Next]_vars

-----------------------------------------------------------------------------
(* What must hold.                                                         *)

\* Every queued review has the whole record of its decision in the file of the log,
\* wherever a write was cut short ("Every decision is logged, not only the queued
\* ones").  It says that the record was written, not that it can be read back: once a
\* line of the file is spoiled no reader gets past it.
QueuedOnlyIfLogged ==
  \A r \in Queued(disk.items) :
    \E i \in 1..Len(disk.log) : disk.log[i].decision = disk.items[r].decision

\* The anchor never promises more than was written to the file of the log, so a log
\* that can be read is never taken for a truncated one because an append was
\* interrupted.  (A spoiled log is reported at its bad line, whatever the anchor.)
AnchorDescribesAPrefix ==
  disk.anchor # NoAnchor =>
    /\ disk.anchor.records <= Len(disk.log)
    /\ disk.anchor = LastRecord(SubSeq(disk.log, 1, disk.anchor.records))

\* Once a log is anchored, nothing is added to its file after an interrupted append
\* until an operator re-anchors it.
InterruptedLogIsNotExtended ==
  [][interrupted /\ disk.anchor # NoAnchor =>
       disk'.log = disk.log /\ disk'.ended = disk.ended /\ disk'.spoiled = disk.spoiled]_vars

\* A verdict that a moderator recorded is not lost to somebody's stale copy
\* ("so an operator working the same files from the CLI is not silently clobbered
\* by a stale in-memory copy").
VerdictsAreKept ==
  [][\A r \in InState(disk.items, "resolved") : disk'.items[r] = disk.items[r]]_vars

\* "An interrupted append is reported as corruption/staleness rather than silently
\* accepted": while nobody is at work, an interrupted log does not verify.
Verified ==
  /\ ~disk.spoiled /\ ChainIntact(disk.log)
  /\ disk.anchor # NoAnchor => Verdict(disk.log, disk.anchor) = "intact"
InterruptedAppendIsReported ==
  interrupted /\ (\A a \in Actors : op[a] = Idle) => ~Verified
=============================================================================
