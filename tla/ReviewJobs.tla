------------------------------ MODULE ReviewJobs ------------------------------
(***************************************************************************)
(* The three jobs the detector runs over submitted rows: to moderate a     *)
(* batch (engine.moderate_batch), to evaluate a labelled set               *)
(* (evaluation.evaluate) and to choose a threshold from one                *)
(* (calibration.calibrate).  Each validates the rows one by one, scores    *)
(* one batch or two, and then decides, measures or sweeps.                 *)
(***************************************************************************)
EXTENDS Scoring

CONSTANTS
  Submissions,   \* the sequences of rows submitted
  Policies,      \* the policies offered
  MaxItems,      \* moderate_batch's max_items
  TestAuthors,   \* the authors whose bucket is below test_fraction
  Thresholds,    \* range(start, stop + 1, step)
  Objectives,    \* the objectives asked for
  RecallFloor,   \* <<numerator, denominator>>
  NoLabel,       \* a row without a boolean is_fake
  Nothing        \* no value yet

Row == [review : Reviews, is_fake : BOOLEAN \cup {NoLabel}]

\* Numbers stand for ids: all that matters of a string is which comes first.
ASSUME JobsAssumption ==
  /\ \A r \in Reviews : r.id \in Nat
  /\ Submissions \subseteq Seq(Row)
  /\ Thresholds \subseteq 0..100 /\ Thresholds # {}
  /\ Objectives \subseteq {"f1", "precision_at_recall", "youden"}
  /\ Nothing \notin [threshold : Thresholds, value : Int \X Int]

VARIABLES
  pc, job, policy, objective,
  items,        \* the rows as submitted
  rows,         \* the payloads given to validation
  labels,       \* their labels, a list of its own
  next,         \* the place of the row being looked at
  accepted, errors,
  train, test,  \* the halves of the accepted rows
  waiting,      \* the batches still to score
  scored,       \* the scores so far
  decisions,
  swept,        \* the thresholds tried
  best,         \* best_threshold and best_value
  metrics       \* what is reported of the threshold

intake == <<items, rows, labels, next, accepted, errors>>

results == <<scored, decisions, swept, best, metrics>>

jobVars == <<pc, job, policy, objective, intake, train, test, waiting, results>>

vars == <<jobVars, duplicatesVars>>

-----------------------------------------------------------------------------
(* Loading the rows.                                                       *)

Init ==
  /\ job \in {"moderate", "evaluate", "calibrate"}
  /\ policy \in {p \in Policies : ValidPolicy(p)}
  /\ objective \in (IF job = "calibrate" THEN Objectives ELSE {Nothing})
  /\ items \in Submissions
  /\ IF job = "moderate"
     THEN pc = "validate" /\ rows = [k \in 1..Len(items) |-> items[k].review]
     ELSE pc = "load" /\ rows = <<>>
  /\ next = 1 /\ labels = <<>> /\ accepted = <<>> /\ errors = 0
  /\ train = <<>> /\ test = <<>> /\ waiting = <<>> /\ scored = <<>>
  /\ decisions = <<>> /\ swept = {} /\ best = Nothing /\ metrics = Nothing
  /\ batch = <<>> /\ rest = {} /\ pairs = {} /\ truncated = FALSE

\* load_labelled takes the label off each row and keeps it in a list of its
\* own; a row without one is an error.
Load ==
  /\ pc = "load" /\ next <= Len(items)
  /\ IF items[next].is_fake = NoLabel
     THEN errors' = errors + 1 /\ UNCHANGED <<rows, labels>>
     ELSE /\ rows' = Append(rows, items[next].review)
          /\ labels' = Append(labels, items[next].is_fake)
          /\ UNCHANGED errors
  /\ next' = next + 1
  /\ UNCHANGED <<pc, job, policy, objective, items, accepted, train, test,
                 waiting, results, duplicatesVars>>

Loaded ==
  /\ pc = "load" /\ next > Len(items)
  /\ pc' = "validate" /\ next' = 1
  /\ UNCHANGED <<job, policy, objective, items, rows, labels, accepted, errors,
                 train, test, waiting, results, duplicatesVars>>

-----------------------------------------------------------------------------
(* Validating them.                                                        *)

Seen(id) == \E k \in 1..Len(accepted) : accepted[k].review.id = id

TooMany == job = "moderate" /\ next > MaxItems

\* Mutation: the label is looked up by the place among the accepted rows.
LabelByAccepted(k) ==
  IF job = "moderate" THEN NoLabel ELSE labels[Len(accepted) + 1]

LabelOf(k) == IF job = "moderate" THEN NoLabel ELSE labels[k]

Validating ==
  /\ pc = "validate" /\ next <= Len(rows)
  /\ UNCHANGED <<pc, job, policy, objective, items, rows, labels, train, test,
                 waiting, results, duplicatesVars>>

\* The row past the limit is reported and the rest is not looked at.
StopAtLimit ==
  /\ Validating /\ TooMany
  /\ errors' = errors + 1 /\ next' = Len(rows) + 1
  /\ UNCHANGED accepted

\* An invalid row, or one whose id an accepted row has.
Reject ==
  /\ Validating /\ ~ TooMany
  /\ ~ rows[next].ok \/ Seen(rows[next].id)
  /\ errors' = errors + 1 /\ next' = next + 1
  /\ UNCHANGED accepted

Accept ==
  /\ Validating /\ ~ TooMany
  /\ rows[next].ok /\ ~ Seen(rows[next].id)
  /\ accepted' =
       Append(accepted, [review |-> rows[next], is_fake |-> LabelOf(next)])
  /\ next' = next + 1
  /\ UNCHANGED errors

Validated ==
  /\ pc = "validate" /\ next > Len(rows)
  /\ pc' = IF job = "calibrate" THEN "split" ELSE "begin"
  /\ next' = 1
  /\ UNCHANGED <<job, policy, objective, items, rows, labels, accepted, errors,
                 train, test, waiting, results, duplicatesVars>>

-----------------------------------------------------------------------------
(* Splitting (split_by_author) and scoring the batches.                    *)

OneClass ==
  \/ \A k \in 1..Len(accepted) : accepted[k].is_fake = TRUE
  \/ \A k \in 1..Len(accepted) : accepted[k].is_fake = FALSE

\* A set of one class, or none, is refused, and so is a split with an empty half.
Refuse ==
  /\ pc = "split"
  /\ OneClass \/ (next > Len(accepted) /\ (train = <<>> \/ test = <<>>))
  /\ pc' = "refused"
  /\ UNCHANGED <<job, policy, objective, intake, train, test, waiting, results,
                 duplicatesVars>>

\* Each author goes to one half with everything written.
InTest(item) == item.review.author \in TestAuthors

Assign ==
  /\ pc = "split" /\ ~ OneClass /\ next <= Len(accepted)
  /\ IF InTest(accepted[next])
     THEN test' = Append(test, accepted[next]) /\ UNCHANGED train
     ELSE train' = Append(train, accepted[next]) /\ UNCHANGED test
  /\ next' = next + 1
  /\ UNCHANGED <<pc, job, policy, objective, items, rows, labels, accepted,
                 errors, waiting, results, duplicatesVars>>

Divided ==
  /\ pc = "split" /\ ~ OneClass /\ next > Len(accepted)
  /\ train # <<>> /\ test # <<>>
  /\ pc' = "begin"
  /\ UNCHANGED <<job, policy, objective, intake, train, test, waiting, results,
                 duplicatesVars>>

ReviewsOf(list) == [k \in 1..Len(list) |-> list[k].review]

\* Mutation: both halves are scored as one batch.
OneBatchForAll == <<ReviewsOf(accepted)>>

\* The batches scored: the two halves apart, or all reviews together.
Batches ==
  IF job = "calibrate"
  THEN <<ReviewsOf(train), ReviewsOf(test)>>
  ELSE <<ReviewsOf(accepted)>>

Begin ==
  /\ pc = "begin"
  /\ pc' = "compare"
  /\ Scan(Head(Batches)) /\ waiting' = Tail(Batches)
  /\ UNCHANGED <<job, policy, objective, intake, train, test, results>>

Look ==
  /\ pc = "compare"
  /\ \E p \in rest : Skip(p) \/ Compare(p)
  /\ UNCHANGED jobVars

AfterScoring ==
  [moderate |-> "decide", evaluate |-> "measure", calibrate |-> "sweep"][job]

\* score_batch once its pairs are known; the second half comes after the first.
Score ==
  /\ pc = "compare" /\ rest = {}
  /\ scored' = scored \o ScoreBatch(policy)
  /\ IF waiting = <<>>
     THEN pc' = AfterScoring /\ UNCHANGED <<waiting, duplicatesVars>>
     ELSE Scan(Head(waiting)) /\ waiting' = Tail(waiting) /\ UNCHANGED pc
  /\ UNCHANGED <<job, policy, objective, intake, train, test, decisions, swept,
                 best, metrics>>

-----------------------------------------------------------------------------
(* Deciding (moderate_batch).                                              *)

\* score_by_id.
ScoreOf(scores, id) ==
  scores[CHOOSE k \in 1..Len(scores) : scores[k].review_id = id].score

\* by_id.
ReviewOf(id) ==
  accepted[CHOOSE k \in 1..Len(accepted) : accepted[k].review.id = id].review

MoreUrgent(s, t) ==
  s.score > t.score \/ (s.score = t.score /\ s.review_id < t.review_id)

\* The place of the score with k - 1 more urgent ones: no two are equally urgent.
PlaceOf(scores, k) ==
  CHOOSE i \in 1..Len(scores) :
    Cardinality({j \in 1..Len(scores) : MoreUrgent(scores[j], scores[i])}) = k - 1

Decision(s) ==
  LET level == RiskLevel(policy, s.score)
  IN  [review_id |-> s.review_id, score |-> s.score, risk_level |-> level,
       action |-> ActionFor(policy, level, s.score),
       content |-> ReviewOf(s.review_id)]

Decide ==
  /\ pc = "decide"
  /\ pc' = "done"
  /\ decisions' = [k \in 1..Len(scored) |-> Decision(scored[PlaceOf(scored, k)])]
  /\ UNCHANGED <<job, policy, objective, intake, train, test, waiting, scored,
                 swept, best, metrics, duplicatesVars>>

-----------------------------------------------------------------------------
(* Measuring and sweeping (evaluate, calibrate).                           *)

\* The reviews of a labelled list that are fake or not and are flagged or not
\* at a threshold.
CountAt(scores, list, t, flagged, fake) ==
  Cardinality({k \in 1..Len(list) :
                 /\ (ScoreOf(scores, list[k].review.id) >= t) = flagged
                 /\ list[k].is_fake = fake})

MetricsAt(scores, list, t) ==
  [tp |-> CountAt(scores, list, t, TRUE, TRUE),
   fp |-> CountAt(scores, list, t, TRUE, FALSE),
   fn |-> CountAt(scores, list, t, FALSE, TRUE),
   tn |-> CountAt(scores, list, t, FALSE, FALSE)]

\* Fractions <<numerator, denominator>>; a rate over nothing is 0.
Rate(n, d) == IF d = 0 THEN <<0, 1>> ELSE <<n, d>>

Below(a, b) == a[1] * b[2] < b[1] * a[2]

Recall(m) == Rate(m.tp, m.tp + m.fn)

Precision(m) == Rate(m.tp, m.tp + m.fp)

FalsePositiveRate(m) == Rate(m.fp, m.fp + m.tn)

\* OBJECTIVES.
Value(goal, m) ==
  CASE goal = "f1" -> Rate(2 * m.tp, 2 * m.tp + m.fp + m.fn)
    [] goal = "precision_at_recall" ->
         IF Below(Recall(m), RecallFloor) THEN <<-1, 1>> ELSE Precision(m)
    [] goal = "youden" ->
         LET r == Recall(m)  f == FalsePositiveRate(m)
         IN  <<r[1] * f[2] - f[1] * r[2], r[2] * f[2]>>

Better(value) == IF best = Nothing THEN TRUE ELSE Below(best.value, value)

Measure ==
  /\ pc = "measure"
  /\ pc' = "done"
  /\ metrics' = MetricsAt(scored, accepted, policy.medium_threshold)
  /\ UNCHANGED <<job, policy, objective, intake, train, test, waiting, scored,
                 decisions, swept, best, duplicatesVars>>

\* One threshold, in ascending order, on the training half; a later one has to
\* do better than the best so far.
Sweep ==
  /\ pc = "sweep" /\ swept # Thresholds
  /\ LET t == Min(Thresholds \ swept)
         value == Value(objective, MetricsAt(scored, train, t))
     IN  /\ swept' = swept \cup {t}
         /\ best' = IF Better(value) THEN [threshold |-> t, value |-> value] ELSE best
  /\ UNCHANGED <<pc, job, policy, objective, intake, train, test, waiting, scored,
                 decisions, metrics, duplicatesVars>>

\* What is reported of the choice is measured on the other half.
Report ==
  /\ pc = "sweep" /\ swept = Thresholds
  /\ pc' = "done"
  /\ metrics' = MetricsAt(scored, test, best.threshold)
  /\ UNCHANGED <<job, policy, objective, intake, train, test, waiting, scored,
                 decisions, swept, best, duplicatesVars>>

-----------------------------------------------------------------------------
Finished == pc \in {"done", "refused"} /\ UNCHANGED vars

Next ==
  \/ Load \/ Loaded
  \/ StopAtLimit \/ Reject \/ Accept \/ Validated
  \/ Refuse \/ Assign \/ Divided
  \/ Begin \/ Look \/ Score
  \/ Decide \/ Measure \/ Sweep \/ Report
  \/ Finished

Spec == Init /\ [][Next]_vars

-----------------------------------------------------------------------------
(* What a job promises.                                                    *)

\* The row whose content and label belong to an id: the first valid one.
OwnRow(id) ==
  LET usable == {k \in 1..Len(items) :
                   /\ items[k].review.ok /\ items[k].review.id = id
                   /\ job = "moderate" \/ items[k].is_fake # NoLabel}
  IN  items[Min(usable)]

\* Whatever rows are rejected around it, an accepted review keeps the content
\* and the label of the first valid row with its id, and its decision is about
\* that content, with a score no lower than it would get moderated alone: the
\* batch only adds evidence, and sorting the scores mixes up nothing
\* (iter_validated_reviews, load_labelled, moderate_batch).
FirstValidRowDecides ==
  /\ \A k \in 1..Len(accepted) :
       LET own == OwnRow(accepted[k].review.id)
       IN  /\ accepted[k].review = own.review
           /\ job # "moderate" => accepted[k].is_fake = own.is_fake
  /\ pc = "done" /\ job = "moderate" =>
       /\ Len(decisions) = Len(accepted)
       /\ \A k \in 1..Len(decisions) :
            LET own == OwnRow(decisions[k].review_id).review
            IN  /\ decisions[k].content = own
                /\ decisions[k].score >= ScoreAlone(policy, own)

\* A review is scored as a near-duplicate only if it is one of a review of its
\* own half: no duplicate of the training half shows in the held-out scores.
HalvesAreApart ==
  \A half \in {train, test} : \A i \in 1..Len(half), k \in 1..Len(scored) :
    LET own == half[i].review
    IN  /\ scored[k].review_id = own.id
        /\ "NEAR_DUPLICATE_TEXT" \in scored[k].signals
        => \E j \in 1..Len(half) \ {i} :
             LET other == half[j].review
             IN  \/ other.text = own.text
                 \/ <<other.text, own.text>> \in Alike
                 \/ <<own.text, other.text>> \in Alike

\* The threshold chosen is the lowest of those that do best on the training
\* half, and no score of a half carries a near-duplicate signal gained from a
\* review of the other half (calibrate).  What is measured on the held-out half
\* is not restated here.
ThresholdRestsOnTraining ==
  job = "calibrate" =>
    /\ HalvesAreApart
    /\ pc = "done" =>
         LET valueAt(t) == Value(objective, MetricsAt(scored, train, t))
         IN  /\ best.value = valueAt(best.threshold)
             /\ \A t \in Thresholds :
                  /\ ~ Below(best.value, valueAt(t))
                  /\ t < best.threshold => Below(valueAt(t), best.value)
=============================================================================
