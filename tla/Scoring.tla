------------------------------- MODULE Scoring --------------------------------
(***************************************************************************)
(* From the signals of a review, alone and in its batch, to its score,     *)
(* risk level and action (signals.py, engine.py, policy.py).               *)
(***************************************************************************)
EXTENDS Duplicates, FiniteSetsExt

CONSTANTS
  NoDay,   \* a review without a date
  NoAge    \* a review without an account age

SelfCodes ==
  {"GENERIC_PHRASE", "LOW_EFFORT_EXTREME_RATING", "SHOUTY_TEXT",
   "UNVERIFIED_PURCHASE", "NEW_ACCOUNT", "MIXED_SCRIPT_TEXT"}

BatchCodes ==
  {"NEAR_DUPLICATE_TEXT", "REPEATED_AUTHOR_TEMPLATE", "AUTHOR_BURST"}

-----------------------------------------------------------------------------
(* The policy.                                                             *)

Levels == {"low", "medium", "high"}

Actions == {"allow", "monitor", "enqueue", "remove"}

\* Policy._validate, beyond the types of the fields.
ValidPolicy(p) ==
  /\ DOMAIN p.weights = SelfCodes \cup BatchCodes
  /\ \A c \in DOMAIN p.weights : p.weights[c] \in 0..100
  /\ p.medium_threshold \in 0..100 /\ p.high_threshold \in 0..100
  /\ p.auto_removal_threshold \in 0..100
  /\ p.medium_threshold <= p.high_threshold
  /\ DOMAIN p.actions = Levels
  /\ \A l \in Levels : p.actions[l] \in Actions
  /\ (\E l \in Levels : p.actions[l] = "remove") => p.allow_auto_removal
  /\ p.burst_review_count >= 2

RiskLevel(p, score) ==
  IF score >= p.high_threshold THEN "high"
  ELSE IF score >= p.medium_threshold THEN "medium" ELSE "low"

ActionFor(p, level, score) ==
  IF /\ p.actions[level] = "remove"
     /\ ~ p.allow_auto_removal \/ score < p.auto_removal_threshold
  THEN "enqueue"
  ELSE p.actions[level]

-----------------------------------------------------------------------------
(* The signals.                                                            *)

\* What the review shows by itself (signals.evaluate_review).
Shows(p, r) ==
  [GENERIC_PHRASE |-> r.phrases,
   LOW_EFFORT_EXTREME_RATING |->
     r.rating \in {1, 5} /\ r.words <= p.short_review_word_count,
   SHOUTY_TEXT |-> r.shouty,
   UNVERIFIED_PURCHASE |-> ~ r.verified,
   NEW_ACCOUNT |-> IF r.age = NoAge THEN FALSE ELSE r.age <= p.new_account_days,
   MIXED_SCRIPT_TEXT |-> r.mixed]

\* Reviews of the batch by the author of i on the day of i.
SameDay(i) ==
  {j \in 1..Len(batch) : batch[j].author = batch[i].author
                          /\ batch[j].day = batch[i].day}

\* What only the batch shows (engine._batch_signals).
ShownByBatch(p, i) ==
  [NEAR_DUPLICATE_TEXT |-> Flagged(i),
   REPEATED_AUTHOR_TEMPLATE |->
     \E j \in Partners(i) : batch[j].author = batch[i].author,
   AUTHOR_BURST |->
     batch[i].day # NoDay /\ Cardinality(SameDay(i)) >= p.burst_review_count]

Weighted(p, codes) == {c \in codes : p.weights[c] > 0}

SelfHits(p, r) == Weighted(p, {c \in SelfCodes : Shows(p, r)[c]})

BatchHits(p, i) == Weighted(p, {c \in BatchCodes : ShownByBatch(p, i)[c]})

\* The sum of the weights, clamped (score_batch).
Total(p, hits) ==
  LET sum == MapThenSumSet(LAMBDA c : p.weights[c], hits)
  IN  IF sum > 100 THEN 100 ELSE sum

\* The scores of the batch, in its order.
ScoreBatch(p) ==
  [i \in 1..Len(batch) |->
     LET hits == SelfHits(p, batch[i]) \cup BatchHits(p, i)
     IN  [review_id |-> batch[i].id, score |-> Total(p, hits), signals |-> hits]]

\* The score of the review when it is moderated by itself (moderate).
ScoreAlone(p, r) == Total(p, SelfHits(p, r))
=============================================================================
