----------------------------- MODULE MCFileStore ------------------------------
(***************************************************************************)
(* Values for checking FileStore with TLC: two web threads, two reviews,   *)
(* a batch of one decision and a batch of two.                             *)
(***************************************************************************)
EXTENDS FileStore, TLC

Flag(r, score) ==
  [review_id |-> r, score |-> score, requires_human_review |-> TRUE]

MCBatches == {<<Flag(1, 1)>>, <<Flag(1, 1), Flag(2, 2)>>}

OneBatch == {<<Flag(1, 1)>>}

\* The score command with both files named, or one of them.
AllDestinations == {{"log", "queue"}, {"log"}, {"queue"}}

Symmetry == Permutations(Workers)
=============================================================================
