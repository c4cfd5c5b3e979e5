----------------------------- MODULE MCReviewJobs -----------------------------
(***************************************************************************)
(* Values for checking ReviewJobs with TLC: every submission of at most    *)
(* four rows out of eight, among them three with the same text, one that   *)
(* is only similar, one that reuses an id, an invalid and an unlabelled    *)
(* one.  Batches of four are past ExactMaxBatch and scanned in buckets.    *)
(***************************************************************************)
EXTENDS ReviewJobs

CONSTANTS t1, t2, t3, b1, b2, a1, a2, d1

MCTexts == {t1, t2, t3}

MCAlike == {<<t1, t2>>, <<t2, t1>>}

MCBands == [t \in MCTexts |-> CASE t = t1 -> {b1, b2} [] t = t2 -> {b2} [] t = t3 -> {b1}]

Plain ==
  [id |-> 1, author |-> a1, text |-> t1, day |-> d1, ok |-> TRUE,
   phrases |-> FALSE, rating |-> 4, words |-> 9, shouty |-> FALSE,
   verified |-> TRUE, age |-> NoAge, mixed |-> FALSE]

Submit(review, label) == [review |-> review, is_fake |-> label]

MCRows ==
  {Submit(Plain, FALSE),
   Submit([Plain EXCEPT !.id = 2, !.phrases = TRUE], TRUE),
   Submit([Plain EXCEPT !.id = 3, !.author = a2], TRUE),
   Submit([Plain EXCEPT !.id = 4, !.author = a2, !.text = t2, !.day = NoDay, !.age = 1],
          FALSE),
   Submit([Plain EXCEPT !.id = 5, !.author = a2, !.text = t3, !.rating = 5, !.words = 2,
                        !.verified = FALSE], TRUE),
   Submit([Plain EXCEPT !.author = a2, !.text = t3], TRUE),
   Submit([Plain EXCEPT !.id = 2, !.ok = FALSE], FALSE),
   Submit([Plain EXCEPT !.id = 3, !.shouty = TRUE], NoLabel)}

MCReviews == {r.review : r \in MCRows}

MCSubmissions == UNION {[1..n -> MCRows] : n \in 0..4}

MCPolicy(allow) ==
  [weights |-> [c \in SelfCodes \cup BatchCodes |->
                  IF c = "MIXED_SCRIPT_TEXT" THEN 0 ELSE 40],
   medium_threshold |-> 40, high_threshold |-> 80,
   actions |-> [l \in Levels |-> CASE l = "low" -> "allow" [] l = "medium" -> "enqueue"
                                   [] l = "high" -> "remove"],
   allow_auto_removal |-> allow, auto_removal_threshold |-> 90,
   burst_review_count |-> 2, short_review_word_count |-> 6, new_account_days |-> 3]

\* The second one maps to removal without allowing it and is refused.
MCPolicies == {MCPolicy(TRUE), MCPolicy(FALSE)}

MCThresholds == {0, 40, 80, 100}

MCRecallFloor == <<9, 10>>
=============================================================================
