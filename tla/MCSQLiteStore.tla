---------------------------- MODULE MCSQLiteStore -----------------------------
(***************************************************************************)
(* Values for checking SQLiteStore with TLC: two workers, two reviews, two *)
(* moderators, batches that resubmit a review and mix flagged with allowed *)
(* decisions.                                                              *)
(***************************************************************************)
EXTENDS SQLiteStore, TLC

Flag(r, score) ==
  [review_id |-> r, score |-> score, requires_human_review |-> TRUE]
Allow(r) == [review_id |-> r, score |-> 1, requires_human_review |-> FALSE]

\* A batch that flags one review and allows the other, and one that flags the
\* other review, which may be submitted again after it was worked.
MCBatches == {<<Flag(1, 1), Allow(2)>>, <<Flag(2, 2)>>}

MCPages == {[offset |-> 0, limit |-> 1, state |-> "pending"]}

\* For the run with accidents: one flagged review, submitted again and again,
\* and a page past the first item.
OneBatch == {<<Flag(1, 1)>>}
SecondPage == {[offset |-> 1, limit |-> 2, state |-> Anyone]}

Symmetry == Permutations(Workers) \cup Permutations(Moderators)
=============================================================================
