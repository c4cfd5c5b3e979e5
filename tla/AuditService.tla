----------------------------- MODULE AuditService -----------------------------
(***************************************************************************)
(* Hosted audits: callers (web threads) take a slot, submit the audit to a *)
(* thread pool and wait for it up to a deadline.  The slot belongs to the  *)
(* task: it is released when the task is over, not when its caller has     *)
(* gone.  A live task asks DNS through a resolver that counts its queries  *)
(* and stops once it is cancelled or overdue.                              *)
(***************************************************************************)
EXTENDS Naturals, Sequences, FiniteSets

CONSTANTS
  Callers,        \* calls of run() that may be in progress
  AuditWorkers,   \* slots, and threads of the pool
  Budget,         \* DNS queries an audit may send
  Deadline,       \* ticks a caller waits
  Names           \* names a live audit may ask for

ASSUME ServiceAssumption ==
  /\ IsFiniteSet(Callers) /\ Names # {}
  /\ AuditWorkers \in Nat \ {0} /\ Budget \in Nat \ {0} /\ Deadline \in Nat \ {0}

VARIABLES
  slots,    \* what the bounded semaphore still has
  queue,    \* the pool's submission queue
  closed,   \* the pool was shut down
  pc,       \* where each caller is in run()
  task      \* the audit of each caller's latest call, and its resolver

vars == <<slots, queue, closed, pc, task>>

Outcomes == {"none", "report", "problem", "over_budget", "overdue", "cancelled"}

NoTask ==
  [work |-> "none", outcome |-> "none", live |-> FALSE, callback |-> FALSE,
   cancelled |-> FALSE, remaining |-> Deadline, query_count |-> 0, sent |-> 0, late |-> 0,
   known |-> {}, asked |-> CHOOSE n \in Names : TRUE]

\* Work of a task that is not over, and work that occupies a thread.
Unfinished == {"pending", "running", "counted", "cleared", "looking"}
OnThread == (Unfinished \ {"pending"}) \cup {"settled"}

TypeOK ==
  /\ slots \in 0..AuditWorkers
  /\ queue \in Seq(Callers)
  /\ closed \in BOOLEAN
  /\ pc \in [Callers -> {"idle", "building", "submitting", "submitted",
                         "waiting", "cancelling"}]
  /\ task \in [Callers ->
       [work : Unfinished \cup {"none", "settled", "over"}, outcome : Outcomes,
        live : BOOLEAN,            \* its resolver is a _BudgetedResolver
        callback : BOOLEAN,        \* the slot's release is registered
        cancelled : BOOLEAN,       \* the resolver was told to stop
        remaining : 0..Deadline,   \* time until the deadline
        query_count : 0..(Budget + 1), sent : 0..Budget,
        late : Nat,                \* history: queries sent after the deadline
        known : SUBSET Names,      \* answered for good: cached, or NXDOMAIN
        asked : Names]]

Init ==
  /\ slots = AuditWorkers
  /\ queue = <<>>
  /\ closed = FALSE
  /\ pc = [r \in Callers |-> "idle"]
  /\ task = [r \in Callers |-> NoTask]

Goes(r, where) == pc' = [pc EXCEPT ![r] = where]

\* run() returns a report or raises; a task that is under way goes on.
Answer(r) ==
  /\ Goes(r, "idle")
  /\ task' = [task EXCEPT ![r] =
       IF @.work \in OnThread THEN @ ELSE NoTask]
\* What a task leaves behind: its outcome, for as long as its caller waits.
Remains(r, outcome) ==
  IF pc[r] = "idle" THEN NoTask
  ELSE [NoTask EXCEPT !.work = "over", !.outcome = outcome, !.remaining = 0]

Works(r, w) == task' = [task EXCEPT ![r].work = w]

Clocked(r) ==
  (pc[r] # "idle" \/ task[r].work # "none") /\ task[r].remaining > 0

\* Time passes for every deadline at once.
Tick ==
  /\ \E r \in Callers : Clocked(r)
  /\ task' = [r \in Callers |->
       IF Clocked(r) THEN [task[r] EXCEPT !.remaining = @ - 1] ELSE task[r]]
  /\ UNCHANGED <<slots, queue, closed, pc>>

-----------------------------------------------------------------------------
(* Admission and submission.                                               *)

\* Nothing is left of the caller's earlier call.
Fresh(r) ==
  /\ pc[r] = "idle"
  /\ task[r].work = "none"
  /\ \A i \in DOMAIN queue : queue[i] # r

\* Without a slot the caller is refused at once and nothing changes.
Acquire(r) ==
  /\ Fresh(r)
  /\ slots > 0 /\ slots' = slots - 1
  /\ Goes(r, "building")
  /\ UNCHANGED <<queue, closed, task>>

BuildResolver(r) ==
  /\ pc[r] = "building"
  /\ \E live \in BOOLEAN : task' = [task EXCEPT ![r].live = live]
  /\ Goes(r, "submitting")
  /\ UNCHANGED <<slots, queue, closed>>

\* Mutation: no finally clause.
BuildFailsSilently(r) ==
  /\ pc[r] = "building"
  /\ Answer(r)
  /\ UNCHANGED <<slots, queue, closed>>

\* No DNS backend, or an unreadable fixture.
BuildFails(r) ==
  /\ pc[r] = "building"
  /\ Answer(r)
  /\ slots' = slots + 1
  /\ UNCHANGED <<queue, closed>>

Submit(r) ==
  /\ pc[r] = "submitting" /\ ~closed
  /\ queue' = Append(queue, r)
  /\ Works(r, "pending")
  /\ Goes(r, "submitted")
  /\ UNCHANGED <<slots, closed>>

\* The pool was shut down: submit raises.  (It also raises when no thread can be
\* started, after the task was put in the queue; that failure is left out.)
SubmitFails(r) ==
  /\ pc[r] = "submitting" /\ closed
  /\ Answer(r)
  /\ slots' = slots + 1
  /\ UNCHANGED <<queue, closed>>

\* Mutation: the callback of a finished audit is never called.
AddCallbackTooLate(r) ==
  /\ pc[r] = "submitted"
  /\ task' = [task EXCEPT ![r].callback = TRUE]
  /\ Goes(r, "waiting")
  /\ UNCHANGED <<slots, queue, closed>>

\* add_done_callback: called at once if the task has settled already.
AddCallback(r) ==
  /\ pc[r] = "submitted"
  /\ IF task[r].work \in Unfinished
     THEN /\ task' = [task EXCEPT ![r].callback = TRUE]
          /\ UNCHANGED slots
     ELSE /\ slots' = slots + 1
          /\ UNCHANGED task
  /\ Goes(r, "waiting")
  /\ UNCHANGED <<queue, closed>>

-----------------------------------------------------------------------------
(* Waiting for the result.                                                 *)

Result(r) ==
  /\ pc[r] = "waiting"
  /\ task[r].work \notin Unfinished
  /\ task[r].outcome # "overdue"
  /\ Answer(r)
  /\ UNCHANGED <<slots, queue, closed>>

\* Mutation: the caller waits without a timeout.
WaitForever(r) ==
  /\ pc[r] = "waiting" /\ task[r].outcome = "overdue"
  /\ task' = [task EXCEPT ![r].cancelled = task[r].live]
  /\ Goes(r, "cancelling")
  /\ UNCHANGED <<slots, queue, closed>>

\* The wait timed out, or the task stopped itself: cancel the resolver ...
CancelResolver(r) ==
  /\ pc[r] = "waiting"
  /\ \/ task[r].work \in Unfinished /\ task[r].remaining = 0
     \/ task[r].outcome = "overdue"
  /\ task' = [task EXCEPT ![r].cancelled = task[r].live]
  /\ Goes(r, "cancelling")
  /\ UNCHANGED <<slots, queue, closed>>

\* Mutation: the caller releases its slot when it gives up.
CancelFutureAndRelease(r) ==
  /\ pc[r] = "cancelling"
  /\ Answer(r)
  /\ slots' = slots + 1
  /\ UNCHANGED <<queue, closed>>

\* ... then the future, which stops only a task that no thread has taken.
CancelFuture(r) ==
  /\ pc[r] = "cancelling"
  /\ Answer(r)
  /\ slots' = IF task[r].work = "pending" THEN slots + 1 ELSE slots
  /\ UNCHANGED <<queue, closed>>

-----------------------------------------------------------------------------
(* The pool.                                                               *)

\* A free thread takes the next task and skips one that was cancelled.
Take ==
  /\ queue # <<>>
  /\ Cardinality({r \in Callers : task[r].work \in OnThread}) < AuditWorkers
  /\ queue' = Tail(queue)
  /\ IF task[Head(queue)].work = "pending" THEN Works(Head(queue), "running")
     ELSE UNCHANGED task
  /\ UNCHANGED <<slots, closed, pc>>

Settle(r, outcome) ==
  task' = [task EXCEPT ![r].work = "settled", ![r].outcome = outcome]

\* The audit comes to its end, with a report or a ValueError.
Finish(r) ==
  /\ task[r].work = "running"
  /\ \E outcome \in {"report", "problem"} : Settle(r, outcome)
  /\ UNCHANGED <<slots, queue, closed, pc>>

\* The thread runs the callbacks and goes back to the queue.
RunCallbacks(r) ==
  /\ task[r].work = "settled"
  /\ task' = [task EXCEPT ![r] = Remains(r, task[r].outcome)]
  /\ slots' = IF task[r].callback THEN slots + 1 ELSE slots
  /\ UNCHANGED <<queue, closed, pc>>

\* shutdown(cancel_futures=True)
Close ==
  LET dropped == {r \in Callers : task[r].work = "pending"} IN
  /\ ~closed /\ closed' = TRUE
  /\ queue' = <<>>
  /\ task' = [r \in Callers |-> IF r \in dropped
                THEN Remains(r, "cancelled")
                ELSE task[r]]
  /\ slots' = slots + Cardinality({r \in dropped : task[r].callback})
  /\ UNCHANGED <<pc>>

-----------------------------------------------------------------------------
(* The resolver of a live audit.                                           *)

\* Mutation: only the caller stops the resolver.
OnlyCancelled(t) == t.cancelled

\* _check_deadline
Stopped(t) == t.cancelled \/ t.remaining = 0

\* query: an answer that is known costs nothing, any other is counted.
Ask(r, n) ==
  /\ task[r].work = "running" /\ task[r].live
  /\ \/ Stopped(task[r]) /\ Settle(r, "overdue")
     \/ /\ ~Stopped(task[r]) /\ n \notin task[r].known
        /\ task' = [task EXCEPT ![r].work = "counted", ![r].asked = n,
                                ![r].query_count = @ + 1]
  /\ UNCHANGED <<slots, queue, closed, pc>>

\* Mutation: the last query of the budget is refused.
OverBudgetEarly(t) == t.query_count >= Budget

OverBudget(t) == t.query_count > Budget

\* _lookup, up to the backend.
Clear(r) ==
  /\ task[r].work = "counted"
  /\ IF Stopped(task[r]) THEN Settle(r, "overdue")
     ELSE IF OverBudget(task[r]) THEN Settle(r, "over_budget")
     ELSE Works(r, "cleared")
  /\ UNCHANGED <<slots, queue, closed, pc>>

\* The backend sends the query.
Send(r) ==
  /\ task[r].work = "cleared"
  /\ task' = [task EXCEPT ![r].work = "looking", ![r].sent = @ + 1,
                          ![r].late = IF task[r].remaining = 0 THEN @ + 1 ELSE @]
  /\ UNCHANGED <<slots, queue, closed, pc>>

\* It is answered for good, or fails and may be asked again.
LookedUp(r) ==
  /\ task[r].work = "looking"
  /\ \E definite \in BOOLEAN :
       task' = [task EXCEPT ![r].work = "running",
                  ![r].known = IF definite THEN @ \cup {task[r].asked} ELSE @]
  /\ UNCHANGED <<slots, queue, closed, pc>>

-----------------------------------------------------------------------------
CallerStep(r) ==
  \/ BuildResolver(r) \/ BuildFails(r) \/ Submit(r) \/ SubmitFails(r)
  \/ AddCallback(r) \/ Result(r) \/ CancelResolver(r) \/ CancelFuture(r)

TaskStep(r) ==
  \/ Finish(r) \/ RunCallbacks(r) \/ (\E n \in Names : Ask(r, n))
  \/ Clear(r) \/ Send(r) \/ LookedUp(r)

Next ==
  \/ Tick \/ Take \/ Close
  \/ \E r \in Callers : Acquire(r) \/ CallerStep(r) \/ TaskStep(r)

Spec == Init /\ [][Next]_vars

\* Callers and pool threads are scheduled and time passes.  Nothing is assumed
\* of the audits: a lookup may hang.
FairSpec ==
  /\ Spec /\ WF_vars(Tick) /\ WF_vars(Take)
  /\ \A r \in Callers : WF_vars(CallerStep(r))

\* Audits go on, and a lookup ends by its own timeout.
AuditsGoOn == \A r \in Callers : WF_vars(TaskStep(r))

-----------------------------------------------------------------------------
(* What must hold.                                                         *)

\* A slot is held for every audit that is queued or running, its caller present
\* or not ("Admission must cover running work, including timed-out tasks until
\* they really exit"), so the unbounded submission queue never grows, as long as the
\* pool can start its threads.
AdmissionCoversRunningWork ==
  slots + Cardinality({r \in Callers : task[r].work \in Unfinished}) <= AuditWorkers

\* When every call has returned and every task is over, all slots are back:
\* no failed build, refused submission, timeout, race with the callback or shutdown
\* leaks one.
NoSlotLeaks ==
  (\A r \in Callers : pc[r] = "idle" /\ task[r].work = "none")
    => slots = AuditWorkers

\* An audit sends its whole budget of queries before it is aborted for it, and
\* never one more, though failed queries are retried and counted again.
BudgetIsExact ==
  \A r \in Callers :
    /\ task[r].sent <= Budget
    /\ task[r].work = "settled" /\ task[r].outcome = "over_budget" =>
         task[r].sent = Budget

\* After its deadline an audit sends at most the one query it was about to send
\* ("Further DNS queries have been cancelled").
AtMostOneLateQuery == \A r \in Callers : task[r].late <= 1

\* Every call is answered, even if its audit hangs ("a slow resolver returns an
\* error rather than pinning the request").
EveryCallIsAnswered ==
  \A r \in Callers : pc[r] # "idle" ~> pc[r] = "idle"

\* A service without a free slot has one again, unless an audit hangs for ever.
ServiceRecovers == AuditsGoOn => (slots = 0 ~> slots > 0)
=============================================================================
