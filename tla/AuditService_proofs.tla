------------------------- MODULE AuditService_proofs --------------------------
(***************************************************************************)
(* Slots are conserved and DNS queries are paid for, proved for any number *)
(* of callers, slots, names, any budget and any deadline.                  *)
(***************************************************************************)
EXTENDS AuditService, FiniteSetTheorems, TLAPS

-----------------------------------------------------------------------------
(* The inductive invariant.                                                *)

Task ==
  [work : Unfinished \cup {"none", "settled", "over"}, outcome : Outcomes,
   live : BOOLEAN, callback : BOOLEAN, cancelled : BOOLEAN, remaining : 0..Deadline,
   query_count : Nat, sent : Nat, late : Nat, known : SUBSET Names, asked : Names]

Places == {"idle", "building", "submitting", "submitted", "waiting", "cancelling"}

Typed ==
  /\ slots \in Nat /\ queue \in Seq(Callers) /\ closed \in BOOLEAN
  /\ pc \in [Callers -> Places] /\ task \in [Callers -> Task]

\* A query is counted before it is cleared and sent, and nothing is counted
\* after the deadline.
Paid(t) ==
  /\ t.query_count <= Budget + 1 /\ t.sent <= Budget
  /\ t.work \in {"none", "pending"} => t.query_count = 0 /\ t.sent = 0 /\ t.late = 0
  /\ t.work \in {"running", "looking"} => t.sent = t.query_count
  /\ t.work \in {"counted", "cleared"} => t.sent + 1 = t.query_count /\ t.late = 0
  /\ t.work = "cleared" => t.query_count <= Budget
  /\ t.work = "settled" /\ t.outcome = "over_budget" => t.sent = Budget
  /\ t.late <= 1 /\ (t.late = 1 => t.remaining = 0)

Early == {"building", "submitting", "submitted"}

\* Who gives the slot back: the call until the callback is registered, from then
\* on the task.
Owned(where, t) ==
  /\ where \in {"building", "submitting"} => t.work = "none"
  /\ t.callback => where \notin Early /\ t.work \in Unfinished \cup {"settled"}
  /\ t.work \in Unfinished => where = "submitted" \/ t.callback

Holds(where, t) == where \in Early \/ t.callback

Holders == {r \in Callers : Holds(pc[r], task[r])}

SlotsConserved == slots + Cardinality(Holders) = AuditWorkers

IInv ==
  /\ Typed
  /\ \A r \in Callers : Paid(task[r]) /\ Owned(pc[r], task[r])
  /\ SlotsConserved

-----------------------------------------------------------------------------
(* Counting the holders.                                                   *)

LEMMA HoldersFinite ==
  IsFiniteSet(Holders) /\ Cardinality(Holders) \in Nat
BY ServiceAssumption, FS_Subset, FS_CardinalityType DEF Holders

LEMMA SlotTaken ==
  ASSUME IInv, slots > 0, slots' = slots - 1, NEW r \in Callers,
         r \notin Holders, Holders' = Holders \cup {r}
  PROVE  SlotsConserved' /\ slots' \in Nat
<1>1. Cardinality(Holders) \in Nat /\ slots \in Nat /\ slots + Cardinality(Holders) = AuditWorkers
  BY HoldersFinite DEF IInv, Typed, SlotsConserved
<1>2. Cardinality(Holders') = Cardinality(Holders) + 1
  BY HoldersFinite, FS_AddElement
<1>3. QED
  BY <1>1, <1>2 DEF SlotsConserved

LEMMA SlotReturned ==
  ASSUME IInv, slots' = slots + 1, NEW r \in Callers,
         r \in Holders, Holders' = Holders \ {r}
  PROVE  SlotsConserved' /\ slots' \in Nat
<1>1. Cardinality(Holders) \in Nat /\ slots \in Nat /\ slots + Cardinality(Holders) = AuditWorkers
  BY HoldersFinite DEF IInv, Typed, SlotsConserved
<1>2. Cardinality(Holders') = Cardinality(Holders) - 1
  BY HoldersFinite, FS_RemoveElement
<1>3. QED
  BY <1>1, <1>2 DEF SlotsConserved

LEMMA SlotKept ==
  ASSUME IInv, slots' = slots, Holders' = Holders
  PROVE  SlotsConserved' /\ slots' \in Nat
BY DEF IInv, Typed, SlotsConserved

\* Most steps concern one call: r goes from one place to another, and so does
\* its task.
Concerns(r, where, t) ==
  /\ pc' = [pc EXCEPT ![r] = where] /\ task' = [task EXCEPT ![r] = t]

LEMMA OneCall ==
  ASSUME IInv, NEW r \in Callers, NEW where \in Places, NEW t \in Task,
         Concerns(r, where, t), Paid(t), Owned(where, t),
         queue' \in Seq(Callers), closed' \in BOOLEAN,
         \/ slots' = slots /\ (Holds(pc[r], task[r]) <=> Holds(where, t))
         \/ slots' = slots + 1 /\ Holds(pc[r], task[r]) /\ ~Holds(where, t)
         \/ /\ slots > 0 /\ slots' = slots - 1
            /\ ~Holds(pc[r], task[r]) /\ Holds(where, t)
  PROVE  IInv'
<1>1. /\ pc' \in [Callers -> Places] /\ task' \in [Callers -> Task]
      /\ pc'[r] = where /\ task'[r] = t
      /\ \A q \in Callers \ {r} : pc'[q] = pc[q] /\ task'[q] = task[q]
  BY DEF Concerns, IInv, Typed
<1>2. \A q \in Callers : Paid(task'[q]) /\ Owned(pc'[q], task'[q])
  BY <1>1 DEF IInv
<1>3. Holders' = {q \in Callers : Holds(pc'[q], task'[q])}
  BY DEF Holders
<1>4. CASE slots' = slots /\ (Holds(pc[r], task[r]) <=> Holds(where, t))
  <2>1. Holders' = Holders
    BY <1>1, <1>3, <1>4 DEF Holders
  <2>2. QED
    BY <1>1, <1>2, <1>4, <2>1, SlotKept DEF IInv, Typed
<1>5. CASE slots' = slots + 1 /\ Holds(pc[r], task[r]) /\ ~Holds(where, t)
  <2>1. r \in Holders /\ Holders' = Holders \ {r}
    BY <1>1, <1>3, <1>5 DEF Holders
  <2>2. QED
    BY <1>1, <1>2, <1>5, <2>1, SlotReturned DEF IInv, Typed
<1>6. CASE /\ slots > 0 /\ slots' = slots - 1
           /\ ~Holds(pc[r], task[r]) /\ Holds(where, t)
  <2>1. r \notin Holders /\ Holders' = Holders \cup {r}
    BY <1>1, <1>3, <1>6 DEF Holders
  <2>2. QED
    BY <1>1, <1>2, <1>6, <2>1, SlotTaken DEF IInv, Typed
<1>7. QED
  BY <1>4, <1>5, <1>6

-----------------------------------------------------------------------------
(* The steps of a call.                                                    *)

LEMMA Nothing ==
  NoTask \in Task /\ Paid(NoTask) /\ \A where \in {"idle", "building"} : Owned(where, NoTask)
<1>1. NoTask.asked \in Names
  BY ServiceAssumption DEF NoTask
<1>2. NoTask \in Task
  BY <1>1, ServiceAssumption DEF NoTask, Task, Outcomes, Unfinished
<1>3. QED
  BY <1>2, ServiceAssumption DEF NoTask, Paid, Owned, Unfinished, Early

\* What run() leaves of a task that is not pending.
Left(t) == IF t.work \in OnThread THEN t ELSE NoTask

LEMMA Answered ==
  ASSUME IInv, NEW r \in Callers, Answer(r)
  PROVE  /\ Concerns(r, "idle", Left(task[r])) /\ Left(task[r]) \in Task
         /\ Paid(Left(task[r]))
         /\ Left(task[r]).callback => task[r].callback
         /\ task[r].work \in OnThread => Left(task[r]) = task[r]
         /\ task[r].work \notin OnThread => Left(task[r]) = NoTask
<1>1. Concerns(r, "idle", Left(task[r]))
  BY DEF Answer, Goes, Concerns, Left, IInv, Typed
<1>2. task[r] \in Task /\ Paid(task[r])
  BY DEF IInv, Typed
<1>3. QED
  BY <1>1, <1>2, Nothing DEF Left, NoTask

LEMMA AnswerKeeps ==
  ASSUME IInv, NEW r \in Callers, Answer(r), UNCHANGED <<queue, closed>>,
         Owned("idle", Left(task[r])),
         \/ slots' = slots /\ (Holds(pc[r], task[r]) <=> Holds("idle", Left(task[r])))
         \/ slots' = slots + 1 /\ Holds(pc[r], task[r]) /\ ~Holds("idle", Left(task[r]))
  PROVE  IInv'
<1>1. queue' \in Seq(Callers) /\ closed' \in BOOLEAN
  BY DEF IInv, Typed
<1>2. "idle" \in Places
  BY DEF Places
<1>3. QED
  BY <1>1, <1>2, Answered, OneCall, Zenon

LEMMA AcquireKeeps ==
  ASSUME IInv, NEW r \in Callers, Acquire(r)
  PROVE  IInv'
<1>1. task[r] \in Task /\ Paid(task[r]) /\ Owned(pc[r], task[r])
  BY DEF IInv, Typed
<1>2. ~task[r].callback /\ task[r].work = "none" /\ pc[r] = "idle"
  BY <1>1 DEF Acquire, Fresh, Owned, Unfinished
<1>3. Concerns(r, "building", task[r])
  BY DEF Acquire, Goes, Concerns, IInv, Typed
<1>4. Owned("building", task[r]) /\ Holds("building", task[r]) /\ ~Holds(pc[r], task[r])
  BY <1>2 DEF Owned, Holds, Early, Unfinished
<1>5. /\ queue' \in Seq(Callers) /\ closed' \in BOOLEAN /\ "building" \in Places
      /\ slots > 0 /\ slots' = slots - 1
  BY DEF Acquire, IInv, Typed, Places
<1>6. QED
  BY <1>1, <1>3, <1>4, <1>5, OneCall

LEMMA BuildResolverKeeps ==
  ASSUME IInv, NEW r \in Callers, BuildResolver(r)
  PROVE  IInv'
<1>1. task[r] \in Task /\ Paid(task[r]) /\ Owned(pc[r], task[r])
  BY DEF IInv, Typed
<1>2. PICK live \in BOOLEAN : task' = [task EXCEPT ![r].live = live]
  BY DEF BuildResolver
<1> DEFINE t == [task[r] EXCEPT !.live = live]
<1>3. t \in Task /\ Paid(t) /\ t.callback = task[r].callback /\ t.work = task[r].work
  BY <1>1 DEF Task, Paid
<1>4. Concerns(r, "submitting", t)
  BY <1>2 DEF BuildResolver, Goes, Concerns, IInv, Typed
<1>5. /\ Owned("submitting", t) /\ Holds("submitting", t) /\ Holds(pc[r], task[r])
  BY <1>1, <1>3 DEF BuildResolver, Owned, Holds, Early, Unfinished
<1>6. /\ queue' \in Seq(Callers) /\ closed' \in BOOLEAN /\ "submitting" \in Places
      /\ slots' = slots
  BY DEF BuildResolver, IInv, Typed, Places
<1> HIDE DEF t
<1>7. QED
  BY <1>3, <1>4, <1>5, <1>6, OneCall

LEMMA GivesBackEarly ==
  ASSUME IInv, NEW r \in Callers, pc[r] \in {"building", "submitting"},
         Answer(r), slots' = slots + 1, UNCHANGED <<queue, closed>>
  PROVE  IInv'
<1>1. task[r].work \notin OnThread
  BY DEF IInv, Owned, OnThread, Unfinished
<1>2. Left(task[r]) = NoTask
  BY <1>1 DEF Left
<1>3. Holds(pc[r], task[r]) /\ ~Holds("idle", NoTask) /\ Owned("idle", NoTask)
  BY Nothing DEF Holds, Early, NoTask
<1>4. QED
  BY <1>2, <1>3, AnswerKeeps

LEMMA SubmitKeeps ==
  ASSUME IInv, NEW r \in Callers, Submit(r)
  PROVE  IInv'
<1>1. task[r] \in Task /\ Paid(task[r]) /\ Owned(pc[r], task[r])
  BY DEF IInv, Typed
<1> DEFINE t == [task[r] EXCEPT !.work = "pending"]
<1>2. t \in Task /\ t.callback = task[r].callback /\ t.work = "pending"
  BY <1>1 DEF Task, Unfinished
<1>3. Paid(t)
  BY <1>1 DEF Submit, Task, Paid, Owned
<1>4. Concerns(r, "submitted", t)
  BY DEF Submit, Goes, Works, Concerns, IInv, Typed
<1>5. /\ Owned("submitted", t) /\ Holds("submitted", t) /\ Holds(pc[r], task[r])
  BY <1>1, <1>2 DEF Submit, Owned, Holds, Early
<1>6. queue' \in Seq(Callers)
  BY DEF Submit, IInv, Typed
<1>7. closed' \in BOOLEAN /\ "submitted" \in Places /\ slots' = slots
  BY DEF Submit, IInv, Typed, Places
<1> HIDE DEF t
<1>8. QED
  BY <1>2, <1>3, <1>4, <1>5, <1>6, <1>7, OneCall

\* From here on the task gives the slot back, unless it has ended already.
LEMMA AddCallbackKeeps ==
  ASSUME IInv, NEW r \in Callers, AddCallback(r)
  PROVE  IInv'
<1>1. /\ task[r] \in Task /\ Paid(task[r]) /\ Owned(pc[r], task[r]) /\ pc[r] = "submitted"
  BY DEF AddCallback, IInv, Typed
<1>2. /\ queue' \in Seq(Callers) /\ closed' \in BOOLEAN /\ "waiting" \in Places
  BY DEF AddCallback, IInv, Typed, Places
<1>3. CASE task[r].work \in Unfinished
  <2> DEFINE t == [task[r] EXCEPT !.callback = TRUE]
  <2>1. t \in Task /\ t.callback = TRUE /\ t.work = task[r].work /\ Paid(t)
    BY <1>1 DEF Task, Paid
  <2>2. Concerns(r, "waiting", t) /\ slots' = slots
    BY <1>3 DEF AddCallback, Goes, Concerns, IInv, Typed
  <2>3. /\ Owned("waiting", t) /\ Holds("waiting", t) /\ Holds(pc[r], task[r])
    BY <1>1, <1>3, <2>1 DEF Owned, Holds, Early
  <2> HIDE DEF t
  <2>4. QED
    BY <1>2, <2>1, <2>2, <2>3, OneCall
<1>4. CASE task[r].work \notin Unfinished
  <2>1. Concerns(r, "waiting", task[r]) /\ slots' = slots + 1
    BY <1>4 DEF AddCallback, Goes, Concerns, IInv, Typed
  <2>2. /\ Owned("waiting", task[r]) /\ ~Holds("waiting", task[r])
        /\ Holds(pc[r], task[r])
    BY <1>1, <1>4 DEF Owned, Holds, Early
  <2>3. QED
    BY <1>1, <1>2, <2>1, <2>2, OneCall
<1>5. QED
  BY <1>3, <1>4

LEMMA ResultKeeps ==
  ASSUME IInv, NEW r \in Callers, Result(r)
  PROVE  IInv'
<1>1. /\ task[r] \in Task /\ Owned(pc[r], task[r]) /\ pc[r] = "waiting"
      /\ task[r].work \notin Unfinished /\ Answer(r)
      /\ slots' = slots /\ UNCHANGED <<queue, closed>>
  BY DEF Result, IInv, Typed
<1>2. CASE task[r].work \in OnThread
  <2>1. Left(task[r]) = task[r]
    BY <1>2 DEF Left
  <2>2. /\ Owned("idle", task[r])
        /\ Holds(pc[r], task[r]) <=> Holds("idle", task[r])
    BY <1>1 DEF Owned, Holds, Early
  <2>3. QED
    BY <1>1, <2>1, <2>2, AnswerKeeps
<1>3. CASE task[r].work \notin OnThread
  <2>1. Left(task[r]) = NoTask
    BY <1>3 DEF Left
  <2>2. /\ Owned("idle", NoTask) /\ ~Holds("idle", NoTask)
        /\ ~Holds(pc[r], task[r])
    BY <1>1, <1>3, Nothing DEF Owned, Holds, Early, NoTask, OnThread, Unfinished
  <2>3. QED
    BY <1>1, <2>1, <2>2, AnswerKeeps
<1>4. QED
  BY <1>2, <1>3

LEMMA CancelResolverKeeps ==
  ASSUME IInv, NEW r \in Callers, CancelResolver(r)
  PROVE  IInv'
<1>1. /\ task[r] \in Task /\ Paid(task[r]) /\ Owned(pc[r], task[r]) /\ pc[r] = "waiting"
  BY DEF CancelResolver, IInv, Typed
<1> DEFINE t == [task[r] EXCEPT !.cancelled = task[r].live]
<1>2. t \in Task /\ Paid(t) /\ t.callback = task[r].callback /\ t.work = task[r].work
  BY <1>1 DEF Task, Paid
<1>3. Concerns(r, "cancelling", t)
  BY DEF CancelResolver, Goes, Concerns, IInv, Typed
<1>4. Owned("cancelling", t) /\ (Holds("cancelling", t) <=> Holds(pc[r], task[r]))
  BY <1>1, <1>2 DEF Owned, Holds, Early
<1>5. /\ queue' \in Seq(Callers) /\ closed' \in BOOLEAN /\ "cancelling" \in Places
      /\ slots' = slots
  BY DEF CancelResolver, IInv, Typed, Places
<1> HIDE DEF t
<1>6. QED
  BY <1>2, <1>3, <1>4, <1>5, OneCall

\* Only a future that no thread has taken is cancelled, and its callback called.
LEMMA CancelFutureKeeps ==
  ASSUME IInv, NEW r \in Callers, CancelFuture(r)
  PROVE  IInv'
<1>1. /\ task[r] \in Task /\ Owned(pc[r], task[r]) /\ pc[r] = "cancelling"
      /\ Answer(r) /\ UNCHANGED <<queue, closed>>
      /\ slots' = IF task[r].work = "pending" THEN slots + 1 ELSE slots
  BY DEF CancelFuture, IInv, Typed
<1>2. CASE task[r].work \in OnThread
  <2>1. Left(task[r]) = task[r] /\ slots' = slots
    BY <1>1, <1>2 DEF Left, OnThread, Unfinished
  <2>2. /\ Owned("idle", task[r])
        /\ Holds(pc[r], task[r]) <=> Holds("idle", task[r])
    BY <1>1 DEF Owned, Holds, Early
  <2>3. QED
    BY <1>1, <2>1, <2>2, AnswerKeeps
<1>3. CASE task[r].work \notin OnThread
  <2>1. Left(task[r]) = NoTask
    BY <1>3 DEF Left
  <2>2. Owned("idle", NoTask) /\ ~Holds("idle", NoTask)
    BY Nothing DEF Holds, Early, NoTask
  <2>3. IF task[r].work = "pending" THEN Holds(pc[r], task[r]) ELSE ~Holds(pc[r], task[r])
    BY <1>1, <1>3 DEF Owned, Holds, Early, OnThread, Unfinished
  <2>4. QED
    BY <1>1, <2>1, <2>2, <2>3, AnswerKeeps
<1>4. QED
  BY <1>2, <1>3

-----------------------------------------------------------------------------
(* The steps of a task and of the pool.                                    *)

\* A step of a task that leaves its slot where it is.
LEMMA TaskKeeps ==
  ASSUME IInv, NEW r \in Callers, NEW t \in Task, task' = [task EXCEPT ![r] = t],
         Paid(t), Owned(pc[r], t), t.callback = task[r].callback,
         UNCHANGED <<slots, closed, pc>>, queue' \in Seq(Callers)
  PROVE  IInv'
<1>1. Concerns(r, pc[r], t) /\ pc[r] \in Places /\ closed' \in BOOLEAN
  BY DEF Concerns, IInv, Typed
<1>2. Holds(pc[r], t) <=> Holds(pc[r], task[r])
  BY DEF Holds
<1>3. QED
  BY <1>1, <1>2, OneCall

LEMMA TakeKeeps ==
  ASSUME IInv, Take
  PROVE  IInv'
<1>1. queue \in Seq(Callers) /\ queue # <<>>
  BY DEF Take, IInv, Typed
<1>2. Head(queue) \in Callers /\ queue' \in Seq(Callers)
  BY <1>1 DEF Take
<1> DEFINE r == Head(queue)
           t == IF task[r].work = "pending" THEN [task[r] EXCEPT !.work = "running"]
                ELSE task[r]
<1>3. task[r] \in Task /\ Paid(task[r]) /\ Owned(pc[r], task[r])
  BY <1>2 DEF IInv, Typed
<1>4. t \in Task /\ t.callback = task[r].callback
  BY <1>3 DEF Task, Unfinished
<1>5. Paid(t)
  BY <1>3, ServiceAssumption DEF Task, Paid
<1>6. Owned(pc[r], t)
  BY <1>3 DEF Task, Owned, Unfinished
<1>7. task' = [task EXCEPT ![r] = t] /\ UNCHANGED <<slots, closed, pc>>
  BY <1>2 DEF Take, Works, IInv, Typed
<1> HIDE DEF t, r
<1>8. r \in Callers
  BY <1>2 DEF r
<1>9. QED
  BY <1>2, <1>4, <1>5, <1>6, <1>7, <1>8, TaskKeeps

\* A task on a thread becomes one of another kind, still on it.
LEMMA RunningTaskKeeps ==
  ASSUME IInv, NEW r \in Callers, NEW t \in Task, task' = [task EXCEPT ![r] = t],
         task[r].work \in OnThread \ {"settled"}, t.work \in OnThread, Paid(t),
         t.callback = task[r].callback, UNCHANGED <<slots, queue, closed, pc>>
  PROVE  IInv'
<1>1. queue' \in Seq(Callers) /\ Owned(pc[r], task[r])
  BY DEF IInv, Typed
<1>2. Owned(pc[r], t)
  BY <1>1 DEF Owned, OnThread, Unfinished, Early
<1>3. QED
  BY <1>1, <1>2, TaskKeeps

LEMMA SettledIs ==
  ASSUME IInv, NEW r \in Callers, NEW outcome \in Outcomes, Settle(r, outcome),
         task[r].work \in OnThread \ {"settled"},
         outcome = "over_budget" => task[r].sent = Budget,
         UNCHANGED <<slots, queue, closed, pc>>
  PROVE  IInv'
<1>1. task[r] \in Task /\ Paid(task[r])
  BY DEF IInv, Typed
<1> DEFINE t == [task[r] EXCEPT !.work = "settled", !.outcome = outcome]
<1>2. t \in Task /\ t.callback = task[r].callback /\ t.work \in OnThread
  BY <1>1 DEF Task, OnThread
<1>3. Paid(t)
  BY <1>1 DEF Task, Paid
<1>4. task' = [task EXCEPT ![r] = t]
  BY DEF Settle, IInv, Typed
<1> HIDE DEF t
<1>5. QED
  BY <1>2, <1>3, <1>4, RunningTaskKeeps

LEMMA FinishKeeps ==
  ASSUME IInv, NEW r \in Callers, Finish(r)
  PROVE  IInv'
<1>1. PICK outcome \in {"report", "problem"} : Settle(r, outcome)
  BY DEF Finish
<1>2. outcome \in Outcomes /\ outcome # "over_budget"
  BY DEF Outcomes
<1>3. task[r].work \in OnThread \ {"settled"} /\ UNCHANGED <<slots, queue, closed, pc>>
  BY DEF Finish, OnThread, Unfinished
<1>4. QED
  BY <1>1, <1>2, <1>3, SettledIs

LEMMA WhatRemains ==
  ASSUME NEW r \in Callers, NEW outcome \in Outcomes
  PROVE  LET t == Remains(r, outcome)
         IN  /\ t \in Task /\ Paid(t) /\ ~t.callback /\ t.work \in {"none", "over"}
             /\ pc[r] # "idle" => t.work = "over"
<1> DEFINE t == [NoTask EXCEPT !.work = "over", !.outcome = outcome, !.remaining = 0]
<1>1. /\ ~NoTask.callback /\ NoTask.work = "none" /\ NoTask.query_count = 0
      /\ NoTask.sent = 0 /\ NoTask.late = 0
  BY DEF NoTask
<1>2. NoTask \in Task /\ Paid(NoTask)
  BY Nothing
<1>3. t \in Task
  <2> DEFINE u == [NoTask EXCEPT !.work = "over", !.outcome = outcome]
  <2>1. u \in Task
    BY <1>2 DEF Task
  <2>2. t = [u EXCEPT !.remaining = 0]
    OBVIOUS
  <2> HIDE DEF u, t
  <2>3. QED
    BY <2>1, <2>2, ServiceAssumption DEF Task
<1>4. /\ t.work = "over" /\ ~t.callback /\ t.query_count = 0 /\ t.sent = 0 /\ t.late = 0
  BY <1>1, <1>2 DEF Task
<1> HIDE DEF t
<1>5. Paid(t)
  BY <1>4, ServiceAssumption DEF Paid
<1>6. Remains(r, outcome) = IF pc[r] = "idle" THEN NoTask ELSE t
  BY DEF Remains, t
<1>7. QED
  BY <1>1, <1>2, <1>3, <1>4, <1>5, <1>6

LEMMA RunCallbacksKeeps ==
  ASSUME IInv, NEW r \in Callers, RunCallbacks(r)
  PROVE  IInv'
<1>1. task[r] \in Task /\ Owned(pc[r], task[r]) /\ pc[r] \in Places
  BY DEF IInv, Typed
<1> DEFINE t == Remains(r, task[r].outcome)
<1>2. /\ t \in Task /\ Paid(t) /\ ~t.callback /\ t.work \in {"none", "over"}
      /\ pc[r] # "idle" => t.work = "over"
  BY <1>1, WhatRemains DEF Task
<1>3. pc[r] \notin {"building", "submitting"}
  BY <1>1 DEF RunCallbacks, Owned
<1>4. Owned(pc[r], t)
  BY <1>2, <1>3 DEF Owned, Unfinished
<1>5. Concerns(r, pc[r], t)
  BY DEF RunCallbacks, Concerns, IInv, Typed
<1>6. \/ slots' = slots /\ (Holds(pc[r], task[r]) <=> Holds(pc[r], t))
      \/ slots' = slots + 1 /\ Holds(pc[r], task[r]) /\ ~Holds(pc[r], t)
  BY <1>1, <1>2 DEF RunCallbacks, Owned, Holds
<1>7. queue' \in Seq(Callers) /\ closed' \in BOOLEAN
  BY DEF RunCallbacks, IInv, Typed
<1> HIDE DEF t
<1>8. QED
  BY <1>1, <1>2, <1>4, <1>5, <1>6, <1>7, OneCall

LEMMA AskKeeps ==
  ASSUME IInv, NEW r \in Callers, NEW n \in Names, Ask(r, n)
  PROVE  IInv'
<1>1. /\ task[r] \in Task /\ Paid(task[r]) /\ task[r].work = "running"
      /\ UNCHANGED <<slots, queue, closed, pc>>
  BY DEF Ask, IInv, Typed
<1>2. task[r].work \in OnThread \ {"settled"}
  BY <1>1 DEF OnThread, Unfinished
<1>3. CASE Settle(r, "overdue")
  BY <1>1, <1>2, <1>3, SettledIs DEF Outcomes
<1> DEFINE t == [task[r] EXCEPT !.work = "counted", !.asked = n, !.query_count = @ + 1]
<1>4. CASE ~Stopped(task[r]) /\ task' = [task EXCEPT ![r] = t]
  <2>1. t \in Task
    <3> DEFINE u == [task[r] EXCEPT !.work = "counted", !.asked = n]
    <3>1. u \in Task /\ u.query_count = task[r].query_count
      BY <1>1 DEF Task, Unfinished
    <3>2. t = [u EXCEPT !.query_count = task[r].query_count + 1]
      OBVIOUS
    <3> HIDE DEF u, t
    <3>3. QED
      BY <1>1, <3>1, <3>2 DEF Task
  <2>2. /\ t.callback = task[r].callback /\ t.work = "counted" /\ t.sent = task[r].sent
        /\ t.query_count = task[r].query_count + 1 /\ t.late = task[r].late
        /\ t.remaining = task[r].remaining
    BY <1>1 DEF Task
  <2>3. task[r].remaining # 0
    BY <1>4 DEF Stopped
  <2>4. task' = [task EXCEPT ![r] = t]
    BY <1>4
  <2> HIDE DEF t
  <2>5. Paid(t)
    BY <1>1, <2>2, <2>3, ServiceAssumption DEF Task, Paid
  <2>6. t.work \in OnThread
    BY <2>2 DEF OnThread, Unfinished
  <2>7. QED
    BY <1>1, <1>2, <2>1, <2>2, <2>4, <2>5, <2>6, RunningTaskKeeps
<1>5. \/ Settle(r, "overdue")
      \/ ~Stopped(task[r]) /\ task' = [task EXCEPT ![r] = t]
  BY DEF Ask, IInv, Typed
<1>6. QED
  BY <1>3, <1>4, <1>5

LEMMA ClearKeeps ==
  ASSUME IInv, NEW r \in Callers, Clear(r)
  PROVE  IInv'
<1>1. /\ task[r] \in Task /\ Paid(task[r]) /\ task[r].work = "counted"
      /\ UNCHANGED <<slots, queue, closed, pc>>
  BY DEF Clear, IInv, Typed
<1>2. task[r].work \in OnThread \ {"settled"}
  BY <1>1 DEF OnThread, Unfinished
<1>3. CASE Stopped(task[r])
  BY <1>1, <1>2, <1>3, SettledIs DEF Clear, Outcomes
<1>4. CASE ~Stopped(task[r]) /\ OverBudget(task[r])
  <2>1. task[r].sent = Budget
    BY <1>1, <1>4, ServiceAssumption DEF Task, Paid, OverBudget
  <2>2. Settle(r, "over_budget") /\ "over_budget" \in Outcomes
    BY <1>4 DEF Clear, Outcomes
  <2>3. QED
    BY <1>1, <1>2, <2>1, <2>2, SettledIs
<1>5. CASE ~Stopped(task[r]) /\ ~OverBudget(task[r])
  <2> DEFINE t == [task[r] EXCEPT !.work = "cleared"]
  <2>1. t \in Task /\ t.callback = task[r].callback /\ t.work \in OnThread
    BY <1>1 DEF Task, OnThread, Unfinished
  <2>2. Paid(t)
    BY <1>1, <1>5, ServiceAssumption DEF Task, Paid, OverBudget
  <2>3. task' = [task EXCEPT ![r] = t]
    BY <1>5 DEF Clear, Works, IInv, Typed
  <2> HIDE DEF t
  <2>4. QED
    BY <1>1, <1>2, <2>1, <2>2, <2>3, RunningTaskKeeps
<1>6. QED
  BY <1>3, <1>4, <1>5

LEMMA SendKeeps ==
  ASSUME IInv, NEW r \in Callers, Send(r)
  PROVE  IInv'
<1>1. /\ task[r] \in Task /\ Paid(task[r]) /\ task[r].work = "cleared"
      /\ UNCHANGED <<slots, queue, closed, pc>>
  BY DEF Send, IInv, Typed
<1> DEFINE t == [task[r] EXCEPT !.work = "looking", !.sent = @ + 1,
                                !.late = IF task[r].remaining = 0 THEN @ + 1 ELSE @]
<1>2. t \in Task
  <2> DEFINE late == IF task[r].remaining = 0 THEN task[r].late + 1 ELSE task[r].late
             u == [task[r] EXCEPT !.work = "looking", !.sent = @ + 1]
  <2>1. late \in Nat
    BY <1>1 DEF Task
  <2>2. u \in Task
    <3> DEFINE v == [task[r] EXCEPT !.work = "looking"]
    <3>1. v \in Task /\ v.sent = task[r].sent
      BY <1>1 DEF Task, Unfinished
    <3>2. u = [v EXCEPT !.sent = task[r].sent + 1]
      OBVIOUS
    <3> HIDE DEF u, v
    <3>3. QED
      BY <1>1, <3>1, <3>2 DEF Task
  <2>3. t = [u EXCEPT !.late = late]
    <3> HIDE DEF late
    <3>1. t = [task[r] EXCEPT !.work = "looking", !.sent = @ + 1, !.late = late]
      BY DEF late
    <3>2. QED
      BY <3>1
  <2> HIDE DEF u, t, late
  <2>4. QED
    BY <2>1, <2>2, <2>3 DEF Task
<1>3. /\ t.callback = task[r].callback /\ t.work = "looking" /\ t.sent = task[r].sent + 1
      /\ t.query_count = task[r].query_count /\ t.remaining = task[r].remaining
      /\ t.late = IF task[r].remaining = 0 THEN task[r].late + 1 ELSE task[r].late
  BY <1>1 DEF Task
<1>4. task' = [task EXCEPT ![r] = t] /\ task[r].work \in OnThread \ {"settled"}
  BY <1>1 DEF Send, IInv, Typed, OnThread, Unfinished
<1> HIDE DEF t
<1>5. Paid(t)
  BY <1>1, <1>3, ServiceAssumption DEF Task, Paid
<1>6. t.work \in OnThread
  BY <1>3 DEF OnThread, Unfinished
<1>7. QED
  BY <1>1, <1>2, <1>3, <1>4, <1>5, <1>6, RunningTaskKeeps

LEMMA LookedUpKeeps ==
  ASSUME IInv, NEW r \in Callers, LookedUp(r)
  PROVE  IInv'
<1>1. /\ task[r] \in Task /\ Paid(task[r]) /\ task[r].work = "looking"
      /\ UNCHANGED <<slots, queue, closed, pc>>
  BY DEF LookedUp, IInv, Typed
<1>2. PICK definite \in BOOLEAN :
        task' = [task EXCEPT ![r].work = "running",
                   ![r].known = IF definite THEN @ \cup {task[r].asked} ELSE @]
  BY DEF LookedUp
<1> DEFINE t == [task[r] EXCEPT !.work = "running",
                   !.known = IF definite THEN @ \cup {task[r].asked} ELSE @]
<1>3. t \in Task /\ t.callback = task[r].callback /\ t.work \in OnThread
  BY <1>1 DEF Task, OnThread, Unfinished
<1>4. Paid(t)
  BY <1>1 DEF Task, Paid
<1>5. task' = [task EXCEPT ![r] = t] /\ task[r].work \in OnThread \ {"settled"}
  BY <1>1, <1>2 DEF IInv, Typed, OnThread, Unfinished
<1> HIDE DEF t
<1>6. QED
  BY <1>1, <1>3, <1>4, <1>5, RunningTaskKeeps

\* Time disturbs nobody's slot and nobody's account.
LEMMA TickKeeps ==
  ASSUME IInv, Tick
  PROVE  IInv'
<1>1. ASSUME NEW r \in Callers
      PROVE  /\ task'[r] \in Task /\ Paid(task'[r]) /\ Owned(pc[r], task'[r])
             /\ task'[r].callback = task[r].callback
  <2>1. task[r] \in Task /\ Paid(task[r]) /\ Owned(pc[r], task[r])
    BY DEF IInv, Typed
  <2>2. task'[r] = IF Clocked(r) THEN [task[r] EXCEPT !.remaining = @ - 1] ELSE task[r]
    BY DEF Tick
  <2>3. CASE Clocked(r)
    <3> DEFINE t == [task[r] EXCEPT !.remaining = @ - 1]
    <3>1. t \in Task
      BY <2>1, <2>3, ServiceAssumption DEF Clocked, Task
    <3>2. /\ t.callback = task[r].callback /\ t.work = task[r].work
          /\ t.sent = task[r].sent /\ t.late = task[r].late
          /\ t.query_count = task[r].query_count /\ t.outcome = task[r].outcome
      BY <2>1 DEF Task
    <3>3. task'[r] = t
      BY <2>2, <2>3
    <3> HIDE DEF t
    <3>4. Paid(t) /\ Owned(pc[r], t)
      BY <2>1, <2>3, <3>2, ServiceAssumption DEF Clocked, Task, Paid, Owned
    <3>5. QED
      BY <3>1, <3>2, <3>3, <3>4
  <2>4. QED
    BY <2>1, <2>2, <2>3
<1>2. DOMAIN task' = Callers /\ task' = [r \in Callers |-> task'[r]]
  BY DEF Tick
<1>3. task' \in [Callers -> Task]
  BY <1>1, <1>2
<1>4. Holders' = Holders
  BY <1>1 DEF Tick, Holders, Holds
<1>5. SlotsConserved'
  BY <1>4, SlotKept DEF Tick
<1>6. QED
  BY <1>1, <1>3, <1>5 DEF Tick, IInv, Typed

-----------------------------------------------------------------------------
(* Shutdown: every pending task whose callback is registered returns its   *)
(* slot at once.                                                           *)

LEMMA CloseKeeps ==
  ASSUME IInv, Close
  PROVE  IInv'
<1> DEFINE dropped == {r \in Callers : task[r].work = "pending"}
           given == {r \in dropped : task[r].callback}
<1>1. /\ task' = [r \in Callers |-> IF r \in dropped THEN Remains(r, "cancelled") ELSE task[r]]
      /\ slots' = slots + Cardinality(given)
      /\ queue' = <<>> /\ closed' = TRUE /\ pc' = pc
  BY DEF Close
<1>2. ASSUME NEW r \in Callers
      PROVE  /\ task'[r] \in Task /\ Paid(task'[r]) /\ Owned(pc[r], task'[r])
             /\ Holds(pc[r], task'[r]) <=> Holds(pc[r], task[r]) /\ r \notin given
  <2>1. task[r] \in Task /\ Paid(task[r]) /\ Owned(pc[r], task[r])
    BY DEF IInv, Typed
  <2>2. CASE r \notin dropped
    BY <1>1, <2>1, <2>2
  <2>3. CASE r \in dropped
    <3> DEFINE t == Remains(r, "cancelled")
    <3>1. task'[r] = t
      BY <1>1, <2>3
    <3>2. /\ t \in Task /\ Paid(t) /\ ~t.callback /\ t.work \in {"none", "over"}
      BY WhatRemains DEF Outcomes
    <3>3. pc[r] \notin {"building", "submitting"}
      BY <2>1, <2>3 DEF Owned
    <3>4. Owned(pc[r], t)
      BY <3>2, <3>3 DEF Owned, Unfinished
    <3>5. Holds(pc[r], t) <=> Holds(pc[r], task[r]) /\ r \notin given
      BY <2>1, <2>3, <3>2 DEF Owned, Holds
    <3> HIDE DEF t
    <3>6. QED
      BY <3>1, <3>2, <3>4, <3>5
  <2>4. QED
    BY <2>2, <2>3
<1>3. task' \in [Callers -> Task] /\ queue' \in Seq(Callers)
  BY <1>1, <1>2
<1>4. given \subseteq Holders /\ Holders' = Holders \ given
  BY <1>1, <1>2 DEF Holders, Holds
<1>5. IsFiniteSet(Holders) /\ Cardinality(Holders) \in Nat
  BY HoldersFinite
<1> HIDE DEF given
<1>6. Cardinality(Holders') = Cardinality(Holders) - Cardinality(given)
  <2>1. Holders \cap given = given
    BY <1>4
  <2>2. Cardinality(Holders \ given) = Cardinality(Holders) - Cardinality(Holders \cap given)
    BY <1>5, FS_Difference
  <2>3. QED
    BY <1>4, <2>1, <2>2
<1>7. Cardinality(given) \in Nat
  <2>1. IsFiniteSet(given)
    BY <1>4, <1>5, FS_Subset
  <2>2. QED
    BY <2>1, FS_CardinalityType
<1>8. slots \in Nat /\ slots + Cardinality(Holders) = AuditWorkers
  BY DEF IInv, Typed, SlotsConserved
<1>9. SlotsConserved' /\ slots' \in Nat
  BY <1>1, <1>5, <1>6, <1>7, <1>8 DEF SlotsConserved
<1>10. QED
  BY <1>1, <1>2, <1>3, <1>9 DEF IInv, Typed

-----------------------------------------------------------------------------
LEMMA InitKeeps == Init => IInv
<1> SUFFICES ASSUME Init PROVE IInv
  OBVIOUS
<1>1. Typed
  <2>1. pc \in [Callers -> Places] /\ task \in [Callers -> Task]
    BY Nothing DEF Init, Places
  <2>2. slots \in Nat /\ queue \in Seq(Callers)
    BY ServiceAssumption DEF Init
  <2>3. closed \in BOOLEAN
    BY DEF Init
  <2>4. QED
    BY <2>1, <2>2, <2>3 DEF Typed
<1>2. \A r \in Callers : Paid(task[r]) /\ Owned(pc[r], task[r])
  BY Nothing DEF Init
<1>3. Holders = {}
  BY DEF Init, Holders, Holds, Early, NoTask
<1>4. SlotsConserved
  BY <1>3, FS_EmptySet, ServiceAssumption DEF Init, SlotsConserved
<1>5. QED
  BY <1>1, <1>2, <1>4 DEF IInv

LEMMA StepKeeps == IInv /\ [Next]_vars => IInv'
<1> SUFFICES ASSUME IInv, [Next]_vars PROVE IInv'
  OBVIOUS
<1>1. CASE Tick \/ Take \/ Close
  BY <1>1, TickKeeps, TakeKeeps, CloseKeeps
<1>2. ASSUME NEW r \in Callers, Acquire(r) \/ CallerStep(r) PROVE IInv'
  <2>1. CASE BuildFails(r) \/ SubmitFails(r)
    BY <2>1, GivesBackEarly DEF BuildFails, SubmitFails
  <2>2. QED
    BY <1>2, <2>1, AcquireKeeps, BuildResolverKeeps, SubmitKeeps, AddCallbackKeeps,
       ResultKeeps, CancelResolverKeeps, CancelFutureKeeps DEF CallerStep
<1>3. ASSUME NEW r \in Callers, TaskStep(r) PROVE IInv'
  BY <1>3, FinishKeeps, RunCallbacksKeeps, AskKeeps, ClearKeeps, SendKeeps, LookedUpKeeps
  DEF TaskStep
<1>4. CASE UNCHANGED vars
  BY <1>4 DEF vars, IInv, Typed, SlotsConserved, Holders
<1>5. QED
  BY <1>1, <1>2, <1>3, <1>4 DEF Next

LEMMA Invariance == Spec => []IInv
BY InitKeeps, StepKeeps, PTL DEF Spec

-----------------------------------------------------------------------------
(* What follows.                                                           *)

\* Every audit that is queued or running has a slot, whether its caller waits
\* or has timed out (AuditService.run), as long as the pool can start its threads.
THEOREM RunningWorkIsCovered == Spec => []AdmissionCoversRunningWork
<1>1. IInv => AdmissionCoversRunningWork
  <2> SUFFICES ASSUME IInv PROVE AdmissionCoversRunningWork
    OBVIOUS
  <2> DEFINE busy == {r \in Callers : task[r].work \in Unfinished}
  <2>1. busy \subseteq Holders
    BY DEF IInv, Owned, Holders, Holds, Early
  <2>2. Cardinality(busy) <= Cardinality(Holders) /\ Cardinality(busy) \in Nat
    BY <2>1, HoldersFinite, FS_Subset, FS_CardinalityType
  <2>3. slots \in Nat /\ slots + Cardinality(Holders) = AuditWorkers
    BY DEF IInv, Typed, SlotsConserved
  <2> HIDE DEF busy
  <2>4. slots + Cardinality(busy) <= AuditWorkers
    BY <2>2, <2>3, HoldersFinite, ServiceAssumption
  <2>5. QED
    BY <2>4 DEF busy, AdmissionCoversRunningWork
<1>2. QED
  BY <1>1, Invariance, PTL

\* When nothing is going on, every slot is back (AuditService.run, its callback
\* and close).
THEOREM SlotsComeBack == Spec => []NoSlotLeaks
<1>1. IInv => NoSlotLeaks
  <2> SUFFICES ASSUME IInv, \A r \in Callers : pc[r] = "idle" /\ task[r].work = "none"
               PROVE  slots = AuditWorkers
    BY DEF NoSlotLeaks
  <2>1. Holders = {}
    BY DEF IInv, Owned, Holders, Holds, Early, Unfinished
  <2>2. slots \in Nat /\ slots + 0 = AuditWorkers
    BY <2>1, FS_EmptySet DEF IInv, Typed, SlotsConserved
  <2>3. QED
    BY <2>2
<1>2. QED
  BY <1>1, Invariance, PTL

\* An audit sends its whole budget and no more (_BudgetedResolver._lookup).
THEOREM BudgetIsKept == Spec => []BudgetIsExact
<1>1. IInv => BudgetIsExact
  BY DEF IInv, Paid, BudgetIsExact
<1>2. QED
  BY <1>1, Invariance, PTL

\* The deadline stops an audit after at most one more query
\* (_BudgetedResolver._check_deadline).
THEOREM OneQueryIsLate == Spec => []AtMostOneLateQuery
<1>1. IInv => AtMostOneLateQuery
  BY DEF IInv, Paid, AtMostOneLateQuery
<1>2. QED
  BY <1>1, Invariance, PTL

\* The semaphore is never released above its bound, and a resolver counts and
\* sends no more than its budget allows (BoundedSemaphore, _BudgetedResolver).
THEOREM TypeCorrect == Spec => []TypeOK
<1>1. IInv => TypeOK
  <2> SUFFICES ASSUME IInv PROVE TypeOK
    OBVIOUS
  <2>1. slots \in 0..AuditWorkers
    <3>1. slots \in Nat /\ slots + Cardinality(Holders) = AuditWorkers
      BY DEF IInv, Typed, SlotsConserved
    <3>2. Cardinality(Holders) \in Nat
      BY HoldersFinite
    <3>3. QED
      BY <3>1, <3>2, ServiceAssumption
  <2>2. ASSUME NEW r \in Callers
        PROVE  task[r].query_count \in 0..(Budget + 1) /\ task[r].sent \in 0..Budget
    <3>1. /\ task[r].query_count \in Nat /\ task[r].sent \in Nat
          /\ task[r].query_count <= Budget + 1 /\ task[r].sent <= Budget
      BY DEF IInv, Typed, Task, Paid
    <3>2. QED
      BY <3>1, ServiceAssumption
  <2>3. QED
    BY <2>1, <2>2 DEF IInv, Typed, Task, Places, TypeOK
<1>2. QED
  BY <1>1, Invariance, PTL
=============================================================================
