------------------------------ MODULE QueueItems ------------------------------
(***************************************************************************)
(* The moderation queue as data: what a queue item is, how one moves from  *)
(* pending to claimed to resolved, and in which order items are worked.    *)
(* Every store of the system (SQLite, file, memory) shares these rules.    *)
(*                                                                         *)
(* Review ids are naturals standing for the rank of the id in string       *)
(* order, timestamps are naturals, and the fields that nothing reads back  *)
(* (claimed_at, resolved_at, note) are left out.                           *)
(***************************************************************************)
EXTENDS Naturals, FiniteSets, Sequences

CONSTANTS
  Reviews,     \* review ids that may be submitted
  Scores,      \* risk scores a decision may carry
  Times,       \* values the wall clock may show when an item is queued
  Moderators,  \* people who work the queue
  Outcomes,    \* verdicts a moderator may record
  NoOne,       \* "None" in claimed_by, resolved_by and outcome
  NoItem       \* marks an id that has no row in the queue

ASSUME QueueAssumption ==
  /\ IsFiniteSet(Reviews)
  /\ Reviews \subseteq Nat /\ Scores \subseteq Nat /\ Times \subseteq Nat
  /\ NoOne \notin Moderators \cup Outcomes

Decision ==
  [review_id : Reviews, score : Scores, requires_human_review : BOOLEAN]

QueueState == {"pending", "claimed", "resolved"}

QueueItem ==
  [decision : Decision, state : QueueState, queued_at : Times,
   claimed_by : Moderators \cup {NoOne}, resolved_by : Moderators \cup {NoOne},
   outcome : Outcomes \cup {NoOne}]

ASSUME NoItemAssumption == NoItem \notin QueueItem

Queue == [Reviews -> QueueItem \cup {NoItem}]
EmptyQueue == [r \in Reviews |-> NoItem]

NewItem(decision, now) ==
  [decision |-> decision, state |-> "pending", queued_at |-> now,
   claimed_by |-> NoOne, resolved_by |-> NoOne, outcome |-> NoOne]

InState(items, s) == {r \in Reviews : items[r] # NoItem /\ items[r].state = s}
Queued(items) == {r \in Reviews : items[r] # NoItem}

\* The working order: highest score first, then oldest, then by id.
Ahead(i, j) ==
  LET a == i.decision  b == j.decision IN
  \/ a.score > b.score
  \/ a.score = b.score /\ i.queued_at < j.queued_at
  \/ a.score = b.score /\ i.queued_at = j.queued_at /\ a.review_id < b.review_id

\* Mutation: DESC forgotten.
RankAscending(items, S, r) ==
  Cardinality({q \in S : Ahead(items[r], items[q])})

\* How many members of S are worked before r.
Rank(items, S, r) == Cardinality({q \in S : Ahead(items[q], items[r])})

\* At most n items starting at the given offset of S, in working order.
Slice(items, S, offset, n) ==
  {r \in S : Rank(items, S, r) >= offset /\ Rank(items, S, r) < offset + n}

Claim(item, moderator) ==
  [item EXCEPT !.state = "claimed", !.claimed_by = moderator]

Release(item) == [item EXCEPT !.state = "pending", !.claimed_by = NoOne]

\* Mutation: two arguments swapped.
ResolveSwapped(item, moderator, outcome) ==
  [item EXCEPT !.state = "resolved", !.resolved_by = outcome, !.outcome = moderator]

Resolve(item, moderator, outcome) ==
  [item EXCEPT !.state = "resolved", !.resolved_by = moderator,
               !.outcome = outcome]

\* Mutation: ON CONFLICT DO UPDATE.
Upsert(items, decision, now) ==
  IF decision.requires_human_review
  THEN [items EXCEPT ![decision.review_id] = NewItem(decision, now)]
  ELSE items

\* An existing id is skipped: a resubmission never touches the item it finds.
Enqueue(items, decision, now) ==
  LET r == decision.review_id IN
  IF decision.requires_human_review /\ items[r] = NoItem
  THEN [items EXCEPT ![r] = NewItem(decision, now)]
  ELSE items

\* The front n pending items go to the moderator in one operation.
ClaimFront(items, moderator, n) ==
  LET front == Slice(items, InState(items, "pending"), 0, n) IN
  [r \in Reviews |-> IF r \in front THEN Claim(items[r], moderator) ELSE items[r]]
=============================================================================
