--------------------------- MODULE ModerationLedger ---------------------------
(***************************************************************************)
(* What moderation storage promises its callers: submitting a batch logs   *)
(* all of its decisions and queues its newly flagged reviews in one        *)
(* indivisible step, and every queue operation is one indivisible step on  *)
(* the queue as it stands.  Nothing is said of connections, locks,         *)
(* transactions, workers or hashes.                                        *)
(***************************************************************************)
EXTENDS QueueItems

CONSTANTS Batches, ClaimLimits

VARIABLES
  items,      \* the queue
  decisions   \* every decision ever submitted, in order

ledgerVars == <<items, decisions>>

Init == items = EmptyQueue /\ decisions = <<>>

\* Positions of the batch that flag review r.
Flagging(batch, r) ==
  {i \in 1..Len(batch) :
     batch[i].review_id = r /\ batch[i].requires_human_review}

First(S) == CHOOSE i \in S : \A j \in S : i <= j

\* The queue after a batch whose items are stamped by now.
AfterBatch(batch, now) ==
  [r \in Reviews |->
     IF items[r] = NoItem /\ Flagging(batch, r) # {}
     THEN NewItem(batch[First(Flagging(batch, r))], now[r])
     ELSE items[r]]

Submit(batch) ==
  /\ \E now \in [Reviews -> Times] : items' = AfterBatch(batch, now)
  /\ decisions' = decisions \o batch

ClaimNext(moderator, n) ==
  /\ items' = ClaimFront(items, moderator, n)
  /\ UNCHANGED decisions

GiveBack(r) ==
  /\ r \in InState(items, "claimed")
  /\ items' = [items EXCEPT ![r] = Release(@)]
  /\ UNCHANGED decisions

Decide(r, moderator, outcome) ==
  /\ r \in Queued(items) \ InState(items, "resolved")
  /\ items' = [items EXCEPT ![r] = Resolve(@, moderator, outcome)]
  /\ UNCHANGED decisions

Next ==
  \/ \E batch \in Batches : Submit(batch)
  \/ \E m \in Moderators, n \in ClaimLimits : ClaimNext(m, n)
  \/ \E r \in Reviews : GiveBack(r)
  \/ \E r \in Reviews, m \in Moderators, o \in Outcomes : Decide(r, m, o)

Spec == Init /\ [][Next]_ledgerVars
=============================================================================
