-------------------------- MODULE ReviewJobs_proofs ---------------------------
(***************************************************************************)
(* What the run checks of ReviewJobs, proved for every submission, policy, *)
(* similarity relation, objective and limit: no near-duplicate goes        *)
(* missing unnoticed, a threshold rests on the training half, and the      *)
(* first valid row of an id decides.                                       *)
(***************************************************************************)
EXTENDS ReviewJobs, FiniteSetTheorems, SequenceTheorems, WellFoundedInduction, TLAPS

-----------------------------------------------------------------------------
(* The scan of one batch.                                                  *)

\* A pair that was passed over is excused by a full partner list.
Excused(p) == truncated /\ (AtCap(p[1]) \/ AtCap(p[2]))

Capped == \A i \in 1..Len(batch) : Cardinality(Partners(i)) <= MaxPartners

PassedOver ==
  \A p \in Candidates(batch) \ rest :
    Similar(batch, p) /\ p \notin pairs => Excused(p)

ScanInv ==
  /\ batch \in Seq(Reviews)
  /\ rest \subseteq Candidates(batch)
  /\ Capped
  /\ PassedOver

LEMMA PartnersFinite ==
  ASSUME batch \in Seq(Reviews), NEW i
  PROVE  IsFiniteSet(Partners(i)) /\ Cardinality(Partners(i)) \in Nat
<1>1. IsFiniteSet(1..Len(batch))
  BY FS_Interval
<1>2. Partners(i) \subseteq 1..Len(batch)
  BY DEF Partners
<1>3. QED
  BY <1>1, <1>2, FS_Subset, FS_CardinalityType

LEMMA CandidatesAreOrdered ==
  ASSUME NEW b, NEW p \in Candidates(b)
  PROVE  p \in (1..Len(b)) \X (1..Len(b)) /\ p[1] < p[2]
BY DEF Candidates, ExactCandidates, LshCandidates

\* A full partner list stays full.
LEMMA FullStaysFull ==
  ASSUME ScanInv, batch' = batch, pairs \subseteq pairs', NEW i, AtCap(i)
  PROVE  AtCap(i)'
<1>1. batch' \in Seq(Reviews)
  BY DEF ScanInv
<1>2. Partners(i) \subseteq Partners(i)'
  BY DEF Partners
<1>3. IsFiniteSet(Partners(i)')
  <2>1. IsFiniteSet(1..Len(batch))
    BY FS_Interval DEF ScanInv
  <2>2. Partners(i)' \subseteq 1..Len(batch)
    BY DEF Partners
  <2>3. QED
    BY <2>1, <2>2, FS_Subset
<1>4. Cardinality(Partners(i)) <= Cardinality(Partners(i)')
  BY <1>2, <1>3, FS_Subset
<1>5. Cardinality(Partners(i)) \in Nat /\ Cardinality(Partners(i)') \in Nat
  BY <1>3, PartnersFinite, FS_CardinalityType DEF ScanInv
<1>6. QED
  BY <1>4, <1>5, DuplicatesAssumption DEF AtCap

\* A pair that was dealt with before stays dealt with.
LEMMA StaysPassedOver ==
  ASSUME ScanInv, batch' = batch, pairs \subseteq pairs',
         truncated => truncated',
         NEW p \in Candidates(batch) \ rest, Similar(batch, p), p \notin pairs'
  PROVE  Excused(p)'
<1>1. Excused(p)
  BY DEF ScanInv, PassedOver
<1>2. AtCap(p[1])' \/ AtCap(p[2])'
  BY <1>1, FullStaysFull DEF Excused
<1>3. QED
  BY <1>1, <1>2 DEF Excused

\* Starting on a batch.
LEMMA ScanStarts ==
  ASSUME NEW b \in Seq(Reviews), Scan(b)
  PROVE  ScanInv'
<1>1. batch' = b /\ rest' = Candidates(b) /\ pairs' = {}
  BY DEF Scan
<1>2. \A i \in 1..Len(batch') : Cardinality(Partners(i)') <= MaxPartners
  <2>1. TAKE i \in 1..Len(batch')
  <2>2. Partners(i)' = {}
    BY <1>1 DEF Partners
  <2>3. Cardinality(Partners(i)') = 0
    BY <2>2, FS_EmptySet
  <2>4. QED
    BY <2>3, DuplicatesAssumption
<1>3. Capped'
  BY <1>2 DEF Capped
<1>4. PassedOver'
  BY <1>1 DEF PassedOver
<1>5. QED
  BY <1>1, <1>3, <1>4 DEF ScanInv

\* Skipping a pair.
LEMMA SkipKeeps ==
  ASSUME ScanInv, NEW p \in rest, Skip(p)
  PROVE  ScanInv'
<1>1. batch' = batch /\ rest' = rest \ {p} /\ pairs' = pairs /\ truncated' = TRUE
  BY DEF Skip, Visit
<1>2. Capped'
  BY <1>1 DEF ScanInv, Capped, Partners
<1>3. PassedOver'
  <2>1. SUFFICES ASSUME NEW q \in Candidates(batch) \ (rest \ {p}),
                        Similar(batch, q), q \notin pairs
                 PROVE  Excused(q)'
    BY <1>1 DEF PassedOver
  <2>2. CASE q = p
    <3>1. AtCap(p[1])' \/ AtCap(p[2])'
      BY <1>1, FullStaysFull DEF Skip
    <3>2. QED
      BY <1>1, <2>2, <3>1 DEF Excused
  <2>3. CASE q \notin rest
    BY <1>1, <2>1, <2>3, StaysPassedOver
  <2>4. QED
    BY <2>1, <2>2, <2>3
<1>4. QED
  BY <1>1, <1>2, <1>3 DEF ScanInv

LEMMA AddOne ==
  ASSUME NEW S, NEW x, IsFiniteSet(S)
  PROVE  /\ IsFiniteSet(S \cup {x})
         /\ Cardinality(S \cup {x}) <= Cardinality(S) + 1
         /\ Cardinality(S \cup {x}) \in Nat
<1>1. Cardinality(S) \in Nat
  BY FS_CardinalityType
<1>2. /\ IsFiniteSet(S \cup {x})
      /\ Cardinality(S \cup {x}) = IF x \in S THEN Cardinality(S) ELSE Cardinality(S) + 1
  BY FS_AddElement
<1>3. QED
  BY <1>1, <1>2

\* One more pair is one more partner for each side at most.
LEMMA OneMorePartner ==
  ASSUME ScanInv, NEW p \in rest, Compare(p), NEW i \in 1..Len(batch)
  PROVE  Cardinality(Partners(i)') <= MaxPartners
<1>1. /\ batch' = batch /\ ~ AtCap(p[1]) /\ ~ AtCap(p[2])
      /\ pairs' = pairs \cup {p} \/ pairs' = pairs
  BY DEF Compare, Visit
<1>2. p \in (1..Len(batch)) \X (1..Len(batch)) /\ p[1] < p[2]
  BY CandidatesAreOrdered DEF ScanInv
<1>3. IsFiniteSet(Partners(i)) /\ Cardinality(Partners(i)) \in Nat
  BY PartnersFinite DEF ScanInv
<1>4. Cardinality(Partners(i)) <= MaxPartners
  BY DEF ScanInv, Capped
<1>5. CASE pairs' = pairs
  <2>1. Partners(i)' = Partners(i)
    BY <1>1, <1>5 DEF Partners
  <2>2. QED
    BY <1>4, <2>1
<1>6. CASE pairs' = pairs \cup {p} /\ i \notin {p[1], p[2]}
  <2>1. Partners(i)' = Partners(i)
    BY <1>1, <1>2, <1>6 DEF Partners
  <2>2. QED
    BY <1>4, <2>1
<1>7. CASE pairs' = pairs \cup {p} /\ i \in {p[1], p[2]}
  <2>1. PICK j : Partners(i)' \subseteq Partners(i) \cup {j}
    <3>1. CASE i = p[1]
      <4>1. Partners(i)' \subseteq Partners(i) \cup {p[2]}
        BY <1>1, <1>2, <1>7, <3>1 DEF Partners
      <4>2. QED
        BY <4>1
    <3>2. CASE i = p[2]
      <4>1. Partners(i)' \subseteq Partners(i) \cup {p[1]}
        BY <1>1, <1>2, <1>7, <3>2 DEF Partners
      <4>2. QED
        BY <4>1
    <3>3. QED
      BY <1>7, <3>1, <3>2
  <2>2. /\ IsFiniteSet(Partners(i) \cup {j})
        /\ Cardinality(Partners(i) \cup {j}) <= Cardinality(Partners(i)) + 1
        /\ Cardinality(Partners(i) \cup {j}) \in Nat
    BY <1>3, AddOne
  <2>3. /\ Cardinality(Partners(i)') <= Cardinality(Partners(i) \cup {j})
        /\ Cardinality(Partners(i)') \in Nat
    BY <2>1, <2>2, FS_Subset, FS_CardinalityType
  <2>4. ~ AtCap(i)
    BY <1>1, <1>7
  <2>5. Cardinality(Partners(i)) < MaxPartners
    BY <1>3, <2>4, DuplicatesAssumption DEF AtCap
  <2>6. QED
    BY <1>3, <2>2, <2>3, <2>5, DuplicatesAssumption
<1>8. QED
  BY <1>1, <1>5, <1>6, <1>7

\* Comparing a pair.
LEMMA CompareKeeps ==
  ASSUME ScanInv, NEW p \in rest, Compare(p)
  PROVE  ScanInv'
<1>1. /\ batch' = batch /\ rest' = rest \ {p} /\ truncated' = truncated
      /\ pairs' = IF Similar(batch, p) THEN pairs \cup {p} ELSE pairs
  BY DEF Compare, Visit
<1>2. Capped'
  BY <1>1, OneMorePartner DEF Capped
<1>3. PassedOver'
  <2>1. SUFFICES ASSUME NEW q \in Candidates(batch) \ (rest \ {p}),
                        Similar(batch, q), q \notin pairs'
                 PROVE  Excused(q)'
    BY <1>1 DEF PassedOver
  <2>2. q # p
    BY <1>1, <2>1
  <2>3. q \in Candidates(batch) \ rest
    BY <2>1, <2>2
  <2>4. QED
    BY <1>1, <2>1, <2>3, StaysPassedOver
<1>4. QED
  BY <1>1, <1>2, <1>3 DEF ScanInv

-----------------------------------------------------------------------------
(* What the detector undertakes to find is among the candidates.           *)

\* A number below the divisor has quotient zero: the first window of a bucket.
LEMMA SmallQuotient ==
  ASSUME NEW n \in Nat \ {0}, NEW c \in 0..(n - 1)
  PROVE  c \div n = 0
OBVIOUS

\* A bucket that fits one window is one window.
LEMMA OneWindow ==
  ASSUME NEW b \in Seq(Reviews), NEW i \in 1..Len(b), NEW k \in Bands[b[i].text],
         Cardinality({j \in 1..Len(b) : k \in Bands[b[j].text]}) <= BucketWindow
  PROVE  WindowOf(b, k, i) = 0
<1> DEFINE bucket == {j \in 1..Len(b) : k \in Bands[b[j].text]}
           before == {j \in 1..i : k \in Bands[b[j].text]}
<1>1. before \subseteq bucket /\ i \in before
  OBVIOUS
<1>2. IsFiniteSet(bucket)
  <2>1. IsFiniteSet(1..Len(b))
    BY FS_Interval
  <2>2. QED
    BY <2>1, FS_Subset
<1>3. /\ IsFiniteSet(before) /\ Cardinality(before) <= Cardinality(bucket)
      /\ Cardinality(before) \in Nat /\ Cardinality(bucket) \in Nat
  BY <1>1, <1>2, FS_Subset, FS_CardinalityType
<1>4. Cardinality(before) # 0
  BY <1>1, <1>3, FS_EmptySet
<1>5. Cardinality(before) - 1 \in 0..(BucketWindow - 1)
  BY <1>3, <1>4, DuplicatesAssumption
<1>6. (Cardinality(before) - 1) \div BucketWindow = 0
  <2> DEFINE c == Cardinality(before) - 1
  <2>1. c \in 0..(BucketWindow - 1)
    BY <1>5
  <2>2. BucketWindow \in Nat \ {0}
    BY DuplicatesAssumption
  <2>3. c \div BucketWindow = 0
    <3> HIDE DEF c
    <3>1. QED
      BY <2>1, <2>2, SmallQuotient
  <2>4. QED
    BY <2>3
<1>7. QED
  BY <1>6 DEF WindowOf

LEMMA DetectableIsCandidate ==
  ASSUME batch \in Seq(Reviews), NEW p \in ExactCandidates(batch), Detectable(p)
  PROVE  p \in Candidates(batch) /\ Similar(batch, p)
<1>1. CASE Exact(batch)
  BY <1>1 DEF Detectable, Candidates
<1>2. CASE ~ Exact(batch)
  <2>1. p[1] \in 1..Len(batch) /\ p[2] \in 1..Len(batch)
    BY DEF ExactCandidates
  <2>2. PICK k \in Bands[batch[p[1]].text] \cap Bands[batch[p[2]].text] :
          Cardinality({j \in 1..Len(batch) : k \in Bands[batch[j].text]}) <= BucketWindow
    BY <1>2 DEF Detectable
  <2>3. WindowOf(batch, k, p[1]) = 0 /\ WindowOf(batch, k, p[2]) = 0
    BY <2>1, <2>2, OneWindow
  <2>4. p \in LshCandidates(batch)
    BY <2>2, <2>3 DEF LshCandidates
  <2>5. QED
    BY <1>2, <2>4 DEF Candidates, Detectable
<1>3. QED
  BY <1>1, <1>2

LEMMA ScanIsComplete ==
  ASSUME ScanInv
  PROVE  MissedOnlyBesideFullOnes
BY DetectableIsCandidate
   DEF ScanInv, Capped, PassedOver, Excused, MissedOnlyBesideFullOnes

-----------------------------------------------------------------------------
(* Every action keeps this, and what is scanned is always a batch of       *)
(* reviews.                                                                *)

Intake ==
  /\ items \in Seq(Row) /\ rows \in Seq(Reviews) /\ labels \in Seq(BOOLEAN)
  /\ next \in Nat \ {0}
  /\ job # "moderate" => Len(labels) = Len(rows)

Lists ==
  /\ accepted \in Seq(Row) /\ train \in Seq(Row) /\ test \in Seq(Row)
  /\ waiting \in Seq(Seq(Reviews))

IInv == Intake /\ Lists /\ ScanInv

LEMMA ReviewsOfRows ==
  ASSUME NEW list \in Seq(Row)
  PROVE  ReviewsOf(list) \in Seq(Reviews)
<1>1. Len(list) \in Nat /\ \A k \in 1..Len(list) : list[k] \in Row
  BY ElementOfSeq
<1>2. \A k \in 1..Len(list) : list[k].review \in Reviews
  BY <1>1 DEF Row
<1>3. ReviewsOf(list) \in [1..Len(list) -> Reviews]
  BY <1>2 DEF ReviewsOf
<1>4. QED
  BY <1>1, <1>3, SeqDef

LEMMA BatchesOfReviews ==
  ASSUME Lists
  PROVE  /\ Head(Batches) \in Seq(Reviews)
         /\ Tail(Batches) \in Seq(Seq(Reviews))
<1>1. /\ ReviewsOf(accepted) \in Seq(Reviews)
      /\ ReviewsOf(train) \in Seq(Reviews) /\ ReviewsOf(test) \in Seq(Reviews)
  BY ReviewsOfRows DEF Lists
<1>2. Batches \in Seq(Seq(Reviews)) /\ Batches # <<>>
  BY <1>1 DEF Batches
<1>3. QED
  BY <1>2, HeadTailProperties

LEMMA ScanInvFramed ==
  ASSUME ScanInv, UNCHANGED duplicatesVars
  PROVE  ScanInv'
BY DEF ScanInv, Capped, PassedOver, Excused, AtCap, Partners, duplicatesVars

LEMMA InitOk == Init => IInv
<1> SUFFICES ASSUME Init PROVE IInv
  OBVIOUS
<1>1. items \in Seq(Row)
  BY JobsAssumption DEF Init
<1>2. rows \in Seq(Reviews)
  <2>1. CASE job = "moderate"
    <3>1. rows = ReviewsOf(items)
      BY <2>1 DEF Init, ReviewsOf
    <3>2. QED
      BY <1>1, <3>1, ReviewsOfRows
  <2>2. CASE job # "moderate"
    BY <2>2 DEF Init
  <2>3. QED
    BY <2>1, <2>2
<1>3. Intake
  BY <1>1, <1>2 DEF Init, Intake
<1>4. Lists
  BY DEF Init, Lists
<1>5. batch = <<>> /\ rest = {}
  BY DEF Init
<1>6. batch \in Seq(Reviews) /\ Len(batch) = 0
  BY <1>5
<1>7. Candidates(batch) = {}
  BY <1>6, CandidatesAreOrdered
<1>8. ScanInv
  BY <1>5, <1>6, <1>7 DEF ScanInv, Capped, PassedOver
<1>9. QED
  BY <1>3, <1>4, <1>8 DEF IInv

LEMMA StepOk == IInv /\ [Next]_vars => IInv'
<1> SUFFICES ASSUME IInv, [Next]_vars PROVE IInv'
  OBVIOUS
<1> USE DEF IInv
<1>1. CASE Load
  <2>1. items[next] \in Row
    BY <1>1 DEF Load, Intake
  <2>2. items[next].review \in Reviews
    BY <2>1 DEF Row
  <2>3. /\ rows' \in Seq(Reviews) /\ labels' \in Seq(BOOLEAN)
        /\ job' # "moderate" => Len(labels') = Len(rows')
    <3>1. CASE items[next].is_fake = NoLabel
      BY <1>1, <3>1 DEF Load, Intake
    <3>2. CASE items[next].is_fake # NoLabel
      <4>1. items[next].is_fake \in BOOLEAN
        BY <2>1, <3>2 DEF Row
      <4>2. /\ rows' = Append(rows, items[next].review)
            /\ labels' = Append(labels, items[next].is_fake)
            /\ job' = job
        BY <1>1, <3>2 DEF Load
      <4>3. /\ rows' \in Seq(Reviews) /\ Len(rows') = Len(rows) + 1
            /\ labels' \in Seq(BOOLEAN) /\ Len(labels') = Len(labels) + 1
        BY <2>2, <4>1, <4>2, AppendProperties DEF Intake
      <4>4. QED
        BY <4>2, <4>3 DEF Intake
    <3>3. QED
      BY <3>1, <3>2
  <2>4. Intake'
    BY <1>1, <2>3 DEF Load, Intake
  <2>5. QED
    BY <1>1, <2>4, ScanInvFramed DEF Load, Lists
<1>2. CASE Loaded
  BY <1>2, ScanInvFramed DEF Loaded, Intake, Lists
<1>3. CASE StopAtLimit
  <2>1. Intake'
    BY <1>3 DEF StopAtLimit, Validating, Intake
  <2>2. QED
    BY <1>3, <2>1, ScanInvFramed DEF StopAtLimit, Validating, Lists
<1>4. CASE Reject
  BY <1>4, ScanInvFramed DEF Reject, Validating, Intake, Lists
<1>5. CASE Accept
  <2>1. rows[next] \in Reviews
    BY <1>5 DEF Accept, Validating, Intake
  <2>2. LabelOf(next) \in BOOLEAN \cup {NoLabel}
    BY <1>5 DEF Accept, Validating, Intake, LabelOf
  <2>3. [review |-> rows[next], is_fake |-> LabelOf(next)] \in Row
    BY <2>1, <2>2 DEF Row
  <2>4. Lists'
    BY <1>5, <2>3 DEF Accept, Validating, Lists
  <2>5. Intake'
    BY <1>5 DEF Accept, Validating, Intake
  <2>6. QED
    BY <1>5, <2>4, <2>5, ScanInvFramed DEF Accept, Validating
<1>6. CASE Validated
  BY <1>6, ScanInvFramed DEF Validated, Intake, Lists
<1>7. CASE Refuse
  BY <1>7, ScanInvFramed DEF Refuse, intake, Intake, Lists
<1>8. CASE Assign
  <2>1. accepted[next] \in Row
    BY <1>8 DEF Assign, Intake, Lists
  <2>2. Lists'
    <3>1. CASE InTest(accepted[next])
      <4>1. test' = Append(test, accepted[next]) /\ UNCHANGED <<accepted, train, waiting>>
        BY <1>8, <3>1 DEF Assign
      <4>2. QED
        BY <2>1, <4>1, AppendProperties DEF Lists
    <3>2. CASE ~ InTest(accepted[next])
      <4>1. train' = Append(train, accepted[next]) /\ UNCHANGED <<accepted, test, waiting>>
        BY <1>8, <3>2 DEF Assign
      <4>2. QED
        BY <2>1, <4>1, AppendProperties DEF Lists
    <3>3. QED
      BY <3>1, <3>2
  <2>3. QED
    BY <1>8, <2>2, ScanInvFramed DEF Assign, Intake
<1>9. CASE Divided
  BY <1>9, ScanInvFramed DEF Divided, intake, Intake, Lists
<1>10. CASE Begin
  <2>1. ScanInv'
    BY <1>10, BatchesOfReviews, ScanStarts DEF Begin
  <2>2. Lists'
    BY <1>10, BatchesOfReviews DEF Begin, intake, Lists
  <2>3. QED
    BY <1>10, <2>1, <2>2 DEF Begin, intake, Intake
<1>11. CASE Look
  <2>1. ScanInv'
    BY <1>11, SkipKeeps, CompareKeeps DEF Look
  <2>2. QED
    BY <1>11, <2>1 DEF Look, jobVars, intake, Intake, Lists
<1>12. CASE Score
  <2>1. CASE waiting = <<>>
    BY <1>12, <2>1, ScanInvFramed DEF Score, intake, Intake, Lists
  <2>2. CASE waiting # <<>>
    <3>1. Head(waiting) \in Seq(Reviews) /\ Tail(waiting) \in Seq(Seq(Reviews))
      BY <2>2 DEF Lists
    <3>2. ScanInv'
      BY <1>12, <2>2, <3>1, ScanStarts DEF Score
    <3>3. QED
      BY <1>12, <2>2, <3>1, <3>2 DEF Score, intake, Intake, Lists
  <2>3. QED
    BY <2>1, <2>2
<1>13. CASE Decide
  BY <1>13, ScanInvFramed DEF Decide, intake, Intake, Lists
<1>14. CASE Measure
  BY <1>14, ScanInvFramed DEF Measure, intake, Intake, Lists
<1>15. CASE Sweep
  BY <1>15, ScanInvFramed DEF Sweep, intake, Intake, Lists
<1>16. CASE Report
  BY <1>16, ScanInvFramed DEF Report, intake, Intake, Lists
<1>17. CASE Finished \/ UNCHANGED vars
  BY <1>17, ScanInvFramed DEF Finished, vars, jobVars, intake, Intake, Lists
<1>18. QED
  BY <1>1, <1>2, <1>3, <1>4, <1>5, <1>6, <1>7, <1>8, <1>9, <1>10, <1>11, <1>12,
     <1>13, <1>14, <1>15, <1>16, <1>17 DEF Next

\* Whatever is submitted and whatever the limits, no review has more partners
\* than the cap, and a near-duplicate pair that the detector is bound to look at
\* (Detectable: any pair of a batch compared as a whole, else one that shares a
\* bucket of at most one window) is missing from a finished report only if the
\* report says it is cut short and one side's partner list is full
\* (find_duplicates, called by score_batch).
THEOREM NoDuplicateIsMissedUnnoticed == Spec => []MissedOnlyBesideFullOnes
<1>1. IInv => MissedOnlyBesideFullOnes
  BY ScanIsComplete DEF IInv
<1>2. QED
  BY <1>1, InitOk, StepOk, PTL DEF Spec
-----------------------------------------------------------------------------
(* The two halves of a labelled set share no review.                       *)

\* A list whose reviews have different ids.
Distinct(list) ==
  \A i, j \in 1..Len(list) : list[i].review.id = list[j].review.id => i = j

Disjoint(list, other) ==
  \A i \in 1..Len(list), j \in 1..Len(other) : list[i].review.id # other[j].review.id

\* What was put into a half came from among the rows looked at so far.
FromFirst(half, n) ==
  \A i \in 1..Len(half) :
    \E m \in 1..Len(accepted) : m < n /\ accepted[m].review.id = half[i].review.id

Unmixed ==
  /\ job \in {"moderate", "evaluate", "calibrate"}
  /\ Distinct(accepted) /\ Distinct(train) /\ Distinct(test)
  /\ Disjoint(train, test)
  /\ pc \in {"load", "validate"} => train = <<>> /\ test = <<>>
  /\ pc = "split" => FromFirst(train, next) /\ FromFirst(test, next)

LEMMA AppendIs ==
  ASSUME NEW S, NEW list \in Seq(S), NEW e \in S
  PROVE  /\ Append(list, e) \in Seq(S)
         /\ Len(Append(list, e)) = Len(list) + 1 /\ Len(list) \in Nat
         /\ Append(list, e)[Len(list) + 1] = e
         /\ \A i \in 1..Len(list) : Append(list, e)[i] = list[i]
BY AppendProperties

LEMMA DistinctGrows ==
  ASSUME NEW S, NEW list \in Seq(S), NEW e \in S, Distinct(list),
         \A i \in 1..Len(list) : list[i].review.id # e.review.id
  PROVE  Distinct(Append(list, e))
<1> DEFINE longer == Append(list, e)
<1>1. /\ Len(longer) = Len(list) + 1 /\ Len(list) \in Nat
      /\ longer[Len(list) + 1] = e
      /\ \A i \in 1..Len(list) : longer[i] = list[i]
  BY AppendIs
<1> HIDE DEF longer
<1>2. SUFFICES ASSUME NEW i \in 1..Len(longer), NEW j \in 1..Len(longer),
                      longer[i].review.id = longer[j].review.id
               PROVE  i = j
  BY DEF Distinct, longer
<1>3. CASE i \in 1..Len(list) /\ j \in 1..Len(list)
  BY <1>1, <1>2, <1>3 DEF Distinct
<1>4. CASE i \in 1..Len(list) /\ j = Len(list) + 1
  BY <1>1, <1>2, <1>4
<1>5. CASE i = Len(list) + 1 /\ j \in 1..Len(list)
  BY <1>1, <1>2, <1>5
<1>6. QED
  BY <1>1, <1>3, <1>4, <1>5

\* The row that is put into a half is in neither half yet.
LEMMA NextIsNew ==
  ASSUME IInv, Unmixed, Assign
  PROVE  /\ accepted[next] \in Row /\ next \in 1..Len(accepted)
         /\ \A h \in {train, test} : \A i \in 1..Len(h) :
              h[i].review.id # accepted[next].review.id
<1>1. next \in Nat \ {0} /\ next <= Len(accepted) /\ accepted \in Seq(Row)
  BY DEF IInv, Intake, Lists, Assign
<1>2. next \in 1..Len(accepted) /\ accepted[next] \in Row
  BY <1>1
<1>3. ASSUME NEW h \in {train, test}, NEW i \in 1..Len(h),
             h[i].review.id = accepted[next].review.id
      PROVE  FALSE
  <2>1. PICK m \in 1..Len(accepted) : m < next /\ accepted[m].review.id = h[i].review.id
    BY <1>3 DEF Unmixed, Assign, FromFirst
  <2>2. m \in 1..Len(accepted) /\ m # next
    BY <1>1, <2>1
  <2>3. QED
    BY <1>2, <1>3, <2>1, <2>2 DEF Unmixed, Distinct
<1>4. QED
  BY <1>2, <1>3

LEMMA FromFirstGrows ==
  ASSUME IInv, Unmixed, Assign, NEW half \in Seq(Row), FromFirst(half, next)
  PROVE  /\ FromFirst(half, next + 1)
         /\ FromFirst(Append(half, accepted[next]), next + 1)
<1> DEFINE longer == Append(half, accepted[next])
<1>1. next \in Nat \ {0} /\ accepted[next] \in Row
  BY NextIsNew DEF IInv, Intake
<1>2. /\ Len(longer) = Len(half) + 1 /\ Len(half) \in Nat
      /\ longer[Len(half) + 1] = accepted[next]
      /\ \A i \in 1..Len(half) : longer[i] = half[i]
  BY <1>1, AppendIs
<1>3. \A m \in 1..Len(accepted) : m < next => m < next + 1
  BY <1>1
<1>4. next \in 1..Len(accepted) /\ next < next + 1
  BY <1>1, NextIsNew
<1>5. FromFirst(half, next + 1)
  BY <1>3 DEF FromFirst
<1> HIDE DEF longer
<1>6. ASSUME NEW i \in 1..Len(longer)
      PROVE  \E m \in 1..Len(accepted) :
               m < next + 1 /\ accepted[m].review.id = longer[i].review.id
  <2>1. CASE i \in 1..Len(half)
    BY <1>2, <1>3, <2>1 DEF FromFirst
  <2>2. CASE i = Len(half) + 1
    BY <1>2, <1>4, <2>2
  <2>3. QED
    BY <1>2, <1>6, <2>1, <2>2
<1>7. QED
  BY <1>5, <1>6 DEF FromFirst, longer

LEMMA DisjointGrows ==
  ASSUME NEW list \in Seq(Row), NEW other \in Seq(Row), NEW e \in Row,
         Disjoint(list, other),
         \A i \in 1..Len(list) : list[i].review.id # e.review.id,
         \A i \in 1..Len(other) : other[i].review.id # e.review.id
  PROVE  Disjoint(Append(list, e), other) /\ Disjoint(list, Append(other, e))
<1>1. /\ Len(Append(list, e)) = Len(list) + 1 /\ Len(list) \in Nat
      /\ Append(list, e)[Len(list) + 1] = e
      /\ \A i \in 1..Len(list) : Append(list, e)[i] = list[i]
  BY AppendIs
<1>2. /\ Len(Append(other, e)) = Len(other) + 1 /\ Len(other) \in Nat
      /\ Append(other, e)[Len(other) + 1] = e
      /\ \A i \in 1..Len(other) : Append(other, e)[i] = other[i]
  BY AppendIs
<1>3. \A i \in 1..Len(Append(list, e)) : i \in 1..Len(list) \/ i = Len(list) + 1
  BY <1>1
<1>4. \A i \in 1..Len(Append(other, e)) : i \in 1..Len(other) \/ i = Len(other) + 1
  BY <1>2
<1>5. Disjoint(Append(list, e), other)
  <2> SUFFICES ASSUME NEW i \in 1..Len(Append(list, e)), NEW j \in 1..Len(other)
               PROVE  Append(list, e)[i].review.id # other[j].review.id
    BY DEF Disjoint
  <2>1. QED
    BY <1>1, <1>3 DEF Disjoint
<1>6. Disjoint(list, Append(other, e))
  <2> SUFFICES ASSUME NEW i \in 1..Len(list), NEW j \in 1..Len(Append(other, e))
               PROVE  list[i].review.id # Append(other, e)[j].review.id
    BY DEF Disjoint
  <2>1. QED
    BY <1>2, <1>4 DEF Disjoint
<1>7. QED
  BY <1>5, <1>6

LEMMA InitUnmixed == Init => Unmixed
BY DEF Init, Unmixed, Distinct, Disjoint

LEMMA StepUnmixed == IInv /\ Unmixed /\ [Next]_vars => Unmixed'
<1> SUFFICES ASSUME IInv, Unmixed, [Next]_vars PROVE Unmixed'
  OBVIOUS
<1>0. job' = job
  BY DEF Next, vars, Load, Loaded, Validating, StopAtLimit, Reject, Accept, Validated,
     Refuse, Assign, Divided, Begin, Look, jobVars, Score, Decide, Measure, Sweep,
     Report, Finished
<1>1. CASE Accept
  <2>1. /\ rows[next] \in Reviews /\ accepted \in Seq(Row)
        /\ [review |-> rows[next], is_fake |-> LabelOf(next)] \in Row
    <3>1. rows[next] \in Reviews
      BY <1>1 DEF Accept, Validating, IInv, Intake
    <3>2. LabelOf(next) \in BOOLEAN \cup {NoLabel}
      BY <1>1 DEF Accept, Validating, IInv, Intake, LabelOf
    <3>3. QED
      BY <3>1, <3>2 DEF Row, IInv, Lists
  <2>2. \A k \in 1..Len(accepted) : accepted[k].review.id # rows[next].id
    BY <1>1 DEF Accept, Seen
  <2>3. Distinct(accepted')
    <3> DEFINE e == [review |-> rows[next], is_fake |-> LabelOf(next)]
    <3>1. e \in Row /\ e.review.id = rows[next].id /\ accepted' = Append(accepted, e)
      BY <1>1, <2>1 DEF Accept
    <3> HIDE DEF e
    <3>2. Distinct(Append(accepted, e))
      BY <2>1, <2>2, <3>1, DistinctGrows DEF Unmixed
    <3>3. QED
      BY <3>1, <3>2
  <2>4. UNCHANGED <<pc, train, test>> /\ pc = "validate"
    BY <1>1 DEF Accept, Validating
  <2>5. QED
    BY <1>0, <2>3, <2>4 DEF Unmixed
<1>2. CASE Assign
  <2> DEFINE e == accepted[next]
  <2>1. /\ e \in Row /\ train \in Seq(Row) /\ test \in Seq(Row)
        /\ \A i \in 1..Len(train) : train[i].review.id # e.review.id
        /\ \A i \in 1..Len(test) : test[i].review.id # e.review.id
    BY <1>2, NextIsNew DEF IInv, Lists
  <2>2. /\ FromFirst(train, next + 1) /\ FromFirst(Append(train, e), next + 1)
        /\ FromFirst(test, next + 1) /\ FromFirst(Append(test, e), next + 1)
    BY <1>2, <2>1, FromFirstGrows DEF Unmixed, Assign
  <2>3. /\ Disjoint(Append(train, e), test) /\ Disjoint(train, Append(test, e))
        /\ Distinct(Append(train, e)) /\ Distinct(Append(test, e))
    BY <2>1, DisjointGrows, DistinctGrows DEF Unmixed
  <2>4. /\ \/ train' = Append(train, e) /\ test' = test
           \/ train' = train /\ test' = Append(test, e)
        /\ next' = next + 1 /\ accepted' = accepted /\ pc' = "split"
    BY <1>2 DEF Assign
  <2> HIDE DEF e
  <2>5. FromFirst(train', next') /\ FromFirst(test', next')
    BY <2>2, <2>4
  <2>6. Distinct(accepted') /\ Distinct(train') /\ Distinct(test') /\ Disjoint(train', test')
    BY <1>0, <2>3, <2>4 DEF Unmixed
  <2>7. /\ FromFirst(train, next)' /\ FromFirst(test, next)'
    BY <2>4, <2>5 DEF FromFirst
  <2>8. QED
    BY <1>0, <2>4, <2>6, <2>7 DEF Unmixed
<1>3. CASE Validated
  <2>1. train' = <<>> /\ test' = <<>> /\ accepted' = accepted
    BY <1>3 DEF Validated, Unmixed
  <2>2. QED
    BY <1>0, <2>1 DEF Unmixed, Distinct, Disjoint, FromFirst
<1>4. CASE Load \/ Loaded \/ StopAtLimit \/ Reject
  BY <1>4 DEF Load, Loaded, StopAtLimit, Reject, Validating, Unmixed
<1>5. CASE Refuse \/ Divided \/ Begin \/ Look \/ Score
  <2>1. /\ UNCHANGED <<accepted, train, test, next>>
        /\ pc' \in {"refused", "begin", "compare", "sweep", "decide", "measure"}
           \/ pc' = pc
    <3>1. CASE Refuse \/ Divided \/ Begin \/ Look
      BY <1>5, <3>1 DEF Refuse, Divided, Begin, Look, jobVars, intake
    <3>2. CASE Score
      BY <3>2 DEF Score, intake, AfterScoring, Unmixed
    <3>3. QED
      BY <1>5, <3>1, <3>2
  <2>2. QED
    BY <1>0, <2>1 DEF Unmixed, FromFirst
<1>6. CASE Decide \/ Measure \/ Sweep \/ Report
  BY <1>6 DEF Decide, Measure, Sweep, Report, intake, Unmixed
<1>7. CASE Finished \/ UNCHANGED vars
  <2>1. UNCHANGED <<pc, job, accepted, train, test, next>>
    BY <1>7 DEF Finished, vars, jobVars, intake
  <2>2. QED
    BY <2>1 DEF Unmixed, FromFirst
<1>8. QED
  BY <1>1, <1>2, <1>3, <1>4, <1>5, <1>6, <1>7 DEF Next
-----------------------------------------------------------------------------
(* What a score says of a duplicate it owes to its own half.               *)

NearDuplicate == "NEAR_DUPLICATE_TEXT"

Resembles(other, own) ==
  \/ other.text = own.text
  \/ <<other.text, own.text>> \in Alike
  \/ <<own.text, other.text>> \in Alike

\* Some other review of the half resembles the one at place i.
Matched(half, i) ==
  \E j \in 1..Len(half) \ {i} : Resembles(half[j].review, half[i].review)

\* The score of a review of the half, a near-duplicate only for one of the half.
Explained(score, half) ==
  \E i \in 1..Len(half) :
    /\ score.review_id = half[i].review.id
    /\ NearDuplicate \in score.signals => Matched(half, i)

AllExplained(scores) ==
  \A k \in 1..Len(scores) : Explained(scores[k], train) \/ Explained(scores[k], test)

IsList(s) == s \in Seq({s[k] : k \in 1..Len(s)})

\* The scan has found only pairs that resemble each other.
PairsResemble ==
  \A p \in pairs :
    /\ p[1] \in 1..Len(batch) /\ p[2] \in 1..Len(batch) /\ p[1] # p[2]
    /\ Similar(batch, p)

\* The halves are scored one after the other, each a batch of its own.
InTurn ==
  \/ batch = ReviewsOf(train) /\ waiting = <<ReviewsOf(test)>>
  \/ batch = ReviewsOf(test) /\ waiting = <<>>

Scored ==
  /\ PairsResemble
  /\ IsList(scored)
  /\ job = "calibrate" =>
       /\ AllExplained(scored)
       /\ pc \in {"load", "validate", "split", "begin"} => scored = <<>>
       /\ pc = "compare" => InTurn

LEMMA ListOf ==
  ASSUME NEW n \in Nat, NEW T, NEW s \in [1..n -> T]
  PROVE  IsList(s) /\ Len(s) = n
<1>1. s \in Seq(T)
  BY SeqDef
<1>2. Len(s) = n
  BY <1>1, LenProperties
<1>3. s \in [1..n -> {s[k] : k \in 1..n}]
  OBVIOUS
<1>4. s \in Seq({s[k] : k \in 1..n})
  BY <1>3, SeqDef
<1>5. QED
  BY <1>2, <1>4 DEF IsList

\* A concatenation, place by place.
LEMMA Joined ==
  ASSUME NEW a, NEW b, IsList(a), IsList(b)
  PROVE  /\ IsList(a \o b)
         /\ \A k \in 1..Len(a \o b) :
              \/ \E i \in 1..Len(a) : (a \o b)[k] = a[i]
              \/ \E i \in 1..Len(b) : (a \o b)[k] = b[i]
<1> DEFINE Both == {a[k] : k \in 1..Len(a)} \cup {b[k] : k \in 1..Len(b)}
           c == a \o b
<1>1. a \in Seq(Both) /\ b \in Seq(Both)
  <2>1. /\ Len(a) \in Nat /\ a \in [1..Len(a) -> {a[k] : k \in 1..Len(a)}]
        /\ Len(b) \in Nat /\ b \in [1..Len(b) -> {b[k] : k \in 1..Len(b)}]
    BY DEF IsList
  <2>2. a \in [1..Len(a) -> Both] /\ b \in [1..Len(b) -> Both]
    BY <2>1
  <2>3. QED
    BY <2>1, <2>2, SeqDef
<1>2. /\ c \in Seq(Both) /\ Len(c) = Len(a) + Len(b)
      /\ \A k \in 1..Len(a) + Len(b) : c[k] = IF k <= Len(a) THEN a[k] ELSE b[k - Len(a)]
  <2> HIDE DEF Both
  <2>1. QED
    BY <1>1, ConcatProperties
<1>3. Len(a) \in Nat /\ Len(b) \in Nat
  BY DEF IsList
<1> HIDE DEF c, Both
<1>4. IsList(c)
  <2>1. Len(c) \in Nat /\ c \in [1..Len(c) -> Both]
    BY <1>2
  <2>2. QED
    BY <2>1, ListOf
<1>5. ASSUME NEW k \in 1..Len(c)
      PROVE  \/ \E i \in 1..Len(a) : c[k] = a[i]
             \/ \E i \in 1..Len(b) : c[k] = b[i]
  <2>1. CASE k <= Len(a)
    BY <1>2, <1>3, <1>5, <2>1
  <2>2. CASE ~ (k <= Len(a))
    <3>1. k - Len(a) \in 1..Len(b) /\ c[k] = b[k - Len(a)]
      BY <1>2, <1>3, <1>5, <2>2
    <3>2. QED
      BY <3>1
  <2>3. QED
    BY <2>1, <2>2
<1>6. QED
  BY <1>4, <1>5 DEF c

\* The scores of a batch that is a half are explained by that half.
LEMMA BatchExplained ==
  ASSUME IInv, PairsResemble, NEW half \in Seq(Row), batch = ReviewsOf(half), NEW p
  PROVE  /\ IsList(ScoreBatch(p))
         /\ \A k \in 1..Len(ScoreBatch(p)) : Explained(ScoreBatch(p)[k], half)
<1> DEFINE scores == ScoreBatch(p)
           Hits(i) == SelfHits(p, batch[i]) \cup BatchHits(p, i)
<1>1. /\ Len(half) \in Nat /\ Len(batch) = Len(half)
      /\ \A i \in 1..Len(half) : batch[i] = half[i].review
  BY DEF ReviewsOf
<1>2. scores = [i \in 1..Len(batch) |->
                  [review_id |-> batch[i].id, score |-> Total(p, Hits(i)),
                   signals |-> Hits(i)]]
  BY DEF ScoreBatch
<1>3. ASSUME NEW i \in 1..Len(batch)
      PROVE  scores[i].review_id = batch[i].id /\ scores[i].signals = Hits(i)
  BY <1>2
<1>4. Len(scores) = Len(batch) /\ IsList(scores)
  <2> HIDE DEF Hits
  <2>1. Len(batch) \in Nat /\ scores \in [1..Len(batch) -> {scores[k] : k \in 1..Len(batch)}]
    BY <1>1, <1>2
  <2> HIDE DEF scores
  <2>2. QED
    BY <2>1, ListOf
<1>5. ASSUME NEW i \in 1..Len(batch), NearDuplicate \in Hits(i)
      PROVE  Matched(half, i)
  <2>1. Partners(i) # {}
    <3>1. NearDuplicate \in BatchHits(p, i)
      BY <1>5 DEF SelfHits, Weighted, SelfCodes, NearDuplicate
    <3>2. ShownByBatch(p, i)[NearDuplicate]
      BY <3>1 DEF BatchHits, Weighted
    <3>3. QED
      BY <3>2 DEF ShownByBatch, NearDuplicate, Flagged
  <2>2. PICK j \in 1..Len(batch) : <<i, j>> \in pairs \/ <<j, i>> \in pairs
    BY <2>1 DEF Partners
  <2>3. j # i /\ (Similar(batch, <<i, j>>) \/ Similar(batch, <<j, i>>))
    BY <2>2 DEF PairsResemble
  <2>4. Resembles(batch[j], batch[i])
    BY <2>3 DEF Similar, Resembles
  <2>5. QED
    BY <1>1, <2>2, <2>3, <2>4 DEF Matched
<1>6. ASSUME NEW k \in 1..Len(scores) PROVE Explained(scores[k], half)
  <2> HIDE DEF scores, Hits
  <2>1. k \in 1..Len(half) /\ k \in 1..Len(batch)
    BY <1>1, <1>4, <1>6
  <2>2. scores[k].review_id = half[k].review.id /\ scores[k].signals = Hits(k)
    BY <1>1, <1>3, <2>1
  <2>3. QED
    BY <1>5, <2>1, <2>2 DEF Explained
<1>7. QED
  BY <1>4, <1>6

LEMMA ScanFindsNothingYet ==
  ASSUME NEW b, Scan(b)
  PROVE  PairsResemble'
BY DEF Scan, PairsResemble

LEMMA LookResembles ==
  ASSUME IInv, PairsResemble, Look
  PROVE  PairsResemble'
<1>1. PICK p \in rest : Skip(p) \/ Compare(p)
  BY DEF Look
<1>2. batch' = batch /\ (pairs' = pairs \/ (pairs' = pairs \cup {p} /\ Similar(batch, p)))
  BY <1>1 DEF Skip, Compare, Visit
<1>3. p[1] \in 1..Len(batch) /\ p[2] \in 1..Len(batch) /\ p[1] # p[2]
  <2>1. p \in (1..Len(batch)) \X (1..Len(batch)) /\ p[1] < p[2]
    BY CandidatesAreOrdered DEF IInv, ScanInv
  <2>2. QED
    BY <2>1
<1>4. \A q : Similar(batch, q) => Similar(batch', q)
  BY <1>2
<1>5. QED
  BY <1>2, <1>3, <1>4 DEF PairsResemble

LEMMA InitScored == Init => Scored
BY DEF Init, Scored, PairsResemble, IsList, AllExplained

\* What a step that neither scores nor divides leaves explained.
LEMMA ScoredFramed ==
  ASSUME Scored, PairsResemble',
         UNCHANGED <<job, scored, train, test, batch, waiting>>,
         pc' \in {"load", "validate", "split", "begin"} =>
           pc \in {"load", "validate", "split", "begin"},
         pc' = "compare" => pc = "compare"
  PROVE  Scored'
<1>1. IsList(scored')
  BY DEF Scored
<1>2. job = "calibrate" => AllExplained(scored)'
  BY DEF Scored, AllExplained
<1>3. InTurn => InTurn'
  BY DEF InTurn, ReviewsOf
<1>4. QED
  BY <1>1, <1>2, <1>3 DEF Scored
LEMMA BeginScored ==
  ASSUME Unmixed, Scored, Begin
  PROVE  Scored'
<1>1. /\ UNCHANGED <<job, scored, train, test>> /\ pc = "begin" /\ pc' = "compare"
      /\ Scan(Head(Batches)) /\ waiting' = Tail(Batches)
  BY DEF Begin, results
<1>2. PairsResemble'
  BY <1>1, ScanFindsNothingYet
<1>3. job = "calibrate" => InTurn'
  <2> SUFFICES ASSUME job = "calibrate" PROVE InTurn'
    OBVIOUS
  <2>1. Head(Batches) = ReviewsOf(train) /\ Tail(Batches) = <<ReviewsOf(test)>>
    BY DEF Batches
  <2>2. batch' = ReviewsOf(train) /\ waiting' = <<ReviewsOf(test)>>
    BY <1>1, <2>1 DEF Scan
  <2>3. ReviewsOf(train)' = ReviewsOf(train) /\ ReviewsOf(test)' = ReviewsOf(test)
    BY <1>1 DEF ReviewsOf
  <2>4. QED
    BY <2>2, <2>3 DEF InTurn
<1>4. IsList(scored') /\ (job = "calibrate" => AllExplained(scored)')
  BY <1>1 DEF Scored, AllExplained
<1>5. QED
  BY <1>1, <1>2, <1>3, <1>4 DEF Scored

LEMMA ScoreScored ==
  ASSUME IInv, Unmixed, Scored, Score
  PROVE  Scored'
<1>1. /\ UNCHANGED <<job, train, test>> /\ pc = "compare"
      /\ pc' \notin {"load", "validate", "split", "begin"}
      /\ scored' = scored \o ScoreBatch(policy)
  BY DEF Score, AfterScoring, Unmixed
<1>2. PairsResemble'
  <2>1. CASE waiting = <<>>
    BY <2>1 DEF Score, duplicatesVars, Scored, PairsResemble
  <2>2. CASE waiting # <<>>
    BY <2>2, ScanFindsNothingYet DEF Score
  <2>3. QED
    BY <2>1, <2>2
<1>3. IsList(ScoreBatch(policy))
  <2> DEFINE own == [i \in 1..Len(batch) |-> [review |-> batch[i], is_fake |-> NoLabel]]
  <2>1. Len(batch) \in Nat /\ own \in [1..Len(batch) -> Row]
    BY DEF IInv, ScanInv, Row
  <2>2. own \in Seq(Row) /\ Len(own) = Len(batch)
    BY <2>1, SeqDef, ListOf
  <2>3. ReviewsOf(own) = [k \in 1..Len(batch) |-> batch[k]]
    BY <2>2 DEF ReviewsOf
  <2>4. batch = ReviewsOf(own)
    BY <2>3 DEF IInv, ScanInv
  <2> HIDE DEF own
  <2>5. QED
    BY <2>2, <2>4, BatchExplained DEF Scored
<1>4. IsList(scored')
  BY <1>1, <1>3, Joined DEF Scored
<1>5. ASSUME job = "calibrate" PROVE AllExplained(scored)' /\ (pc' = "compare" => InTurn')
  <2>1. InTurn
    BY <1>1, <1>5 DEF Scored
  <2>2. PICK half \in {train, test} : batch = ReviewsOf(half)
    BY <2>1 DEF InTurn
  <2>3. \A k \in 1..Len(ScoreBatch(policy)) : Explained(ScoreBatch(policy)[k], half)
    BY <2>2, BatchExplained DEF Scored, IInv, Lists
  <2>4. \A k \in 1..Len(scored') :
          \/ \E i \in 1..Len(scored) : scored'[k] = scored[i]
          \/ \E i \in 1..Len(ScoreBatch(policy)) : scored'[k] = ScoreBatch(policy)[i]
    BY <1>1, <1>3, Joined DEF Scored
  <2>5. \A k \in 1..Len(scored') : Explained(scored'[k], train) \/ Explained(scored'[k], test)
    BY <1>5, <2>2, <2>3, <2>4 DEF Scored, AllExplained
  <2>6. AllExplained(scored)'
    BY <1>1, <2>5 DEF AllExplained
  <2>7. ASSUME pc' = "compare" PROVE InTurn'
    <3>1. waiting # <<>>
      BY <2>7 DEF Score, AfterScoring, Unmixed
    <3>2. waiting = <<ReviewsOf(test)>>
      BY <2>1, <3>1 DEF InTurn
    <3>3. Head(waiting) = ReviewsOf(test) /\ Tail(waiting) = <<>>
      BY <3>2
    <3>4. batch' = ReviewsOf(test) /\ waiting' = <<>>
      BY <3>1, <3>3 DEF Score, Scan
    <3>5. ReviewsOf(test)' = ReviewsOf(test)
      BY <1>1 DEF ReviewsOf
    <3>6. QED
      BY <3>4, <3>5 DEF InTurn
  <2>8. QED
    BY <2>6, <2>7
<1>6. QED
  BY <1>1, <1>2, <1>4, <1>5 DEF Scored

LEMMA StepScored == IInv /\ Unmixed /\ Scored /\ [Next]_vars => Scored'
<1> SUFFICES ASSUME IInv, Unmixed, Scored, [Next]_vars PROVE Scored'
  OBVIOUS
<1>1. ASSUME UNCHANGED duplicatesVars PROVE PairsResemble'
  BY <1>1 DEF duplicatesVars, Scored, PairsResemble
<1>2. CASE Load \/ Loaded \/ StopAtLimit \/ Reject \/ Accept \/ Validated \/ Refuse \/ Divided
  <2>1. /\ UNCHANGED <<job, scored, train, test, waiting, duplicatesVars>>
        /\ pc \in {"load", "validate", "split", "begin"}
        /\ pc' # "compare"
    BY <1>2 DEF Load, Loaded, StopAtLimit, Reject, Accept, Validating, Validated, Refuse,
       Divided, results
  <2>2. UNCHANGED batch
    BY <2>1 DEF duplicatesVars
  <2>3. QED
    BY <1>1, <2>1, <2>2, ScoredFramed
<1>3. CASE Assign
  <2>1. /\ UNCHANGED <<job, scored, waiting, duplicatesVars, pc>> /\ pc = "split"
    BY <1>3 DEF Assign, results
  <2>2. ASSUME job = "calibrate" PROVE scored' = <<>> /\ AllExplained(scored)'
    BY <2>1, <2>2 DEF Scored, AllExplained
  <2>3. QED
    BY <1>1, <2>1, <2>2 DEF Scored
<1>4. CASE Begin
  BY <1>4, BeginScored
<1>5. CASE Look
  <2>1. UNCHANGED <<job, scored, train, test, waiting, pc>> /\ PairsResemble'
    BY <1>5, LookResembles DEF Look, jobVars, results, Scored
  <2>2. batch' = batch
    BY <1>5 DEF Look, Skip, Compare, Visit
  <2>3. QED
    BY <2>1, <2>2, ScoredFramed
<1>6. CASE Score
  BY <1>6, ScoreScored
<1>7. CASE Decide \/ Measure \/ Sweep \/ Report
  <2>1. /\ UNCHANGED <<job, scored, train, test, waiting, duplicatesVars>>
        /\ pc' \in {"done", "sweep"}
    BY <1>7 DEF Decide, Measure, Sweep, Report
  <2>2. UNCHANGED batch
    BY <2>1 DEF duplicatesVars
  <2>3. QED
    BY <1>1, <2>1, <2>2, ScoredFramed
<1>8. CASE Finished \/ UNCHANGED vars
  <2>1. UNCHANGED <<job, scored, train, test, waiting, duplicatesVars, pc, batch>>
    BY <1>8 DEF Finished, vars, jobVars, results, duplicatesVars
  <2>2. QED
    BY <1>1, <2>1, ScoredFramed
<1>9. QED
  BY <1>2, <1>3, <1>4, <1>5, <1>6, <1>7, <1>8 DEF Next

LEMMA HalvesStayApart ==
  ASSUME IInv, Unmixed, Scored, job = "calibrate"
  PROVE  HalvesAreApart
<1> SUFFICES ASSUME NEW half \in {train, test}, NEW i \in 1..Len(half),
                    NEW k \in 1..Len(scored),
                    scored[k].review_id = half[i].review.id,
                    NearDuplicate \in scored[k].signals
             PROVE  Matched(half, i)
  BY DEF HalvesAreApart, Matched, Resembles, NearDuplicate
<1>1. PICK h \in {train, test} : Explained(scored[k], h)
  BY DEF Scored, AllExplained
<1>2. PICK j \in 1..Len(h) : scored[k].review_id = h[j].review.id /\ Matched(h, j)
  BY <1>1 DEF Explained
<1>3. h[j].review.id = half[i].review.id
  BY <1>2
<1>4. CASE h = half
  BY <1>2, <1>3, <1>4 DEF Unmixed, Distinct
<1>5. CASE h # half
  <2>1. CASE h = train /\ half = test
    BY <1>3, <2>1 DEF Unmixed, Disjoint
  <2>2. CASE h = test /\ half = train
    BY <1>3, <2>2 DEF Unmixed, Disjoint
  <2>3. QED
    BY <1>1, <1>5, <2>1, <2>2
<1>6. QED
  BY <1>4, <1>5
-----------------------------------------------------------------------------
(* The sweep: fractions are ordered, and the best one is kept.             *)

Fraction == Int \X (Nat \ {0})

LEMMA SameSign ==
  ASSUME NEW x \in Int, NEW y \in Int, NEW z \in Nat \ {0}
  PROVE  /\ x * z < y * z => x < y
         /\ x < y => x * z < y * z
         /\ x <= y => x * z <= y * z
OBVIOUS

\* A fraction that one no smaller than another one is below is above the other one.
LEMMA BelowPasses ==
  ASSUME NEW a \in Fraction, NEW b \in Fraction, NEW c \in Fraction,
         ~ Below(b, a), Below(b, c)
  PROVE  Below(a, c) /\ ~ Below(c, a)
<1> DEFINE a1 == a[1]  a2 == a[2]  b1 == b[1]  b2 == b[2]  c1 == c[1]  c2 == c[2]
<1>1. /\ a1 \in Int /\ b1 \in Int /\ c1 \in Int
      /\ a2 \in Nat \ {0} /\ b2 \in Nat \ {0} /\ c2 \in Nat \ {0}
  BY DEF Fraction
<1>2. ~ (b1 * a2 < a1 * b2) /\ b1 * c2 < c1 * b2
  BY DEF Below
<1> HIDE DEF a1, a2, b1, b2, c1, c2
<1>3. /\ a1 * b2 \in Int /\ b1 * a2 \in Int /\ b1 * c2 \in Int /\ c1 * b2 \in Int
      /\ a1 * c2 \in Int /\ c1 * a2 \in Int
  BY <1>1
<1>4. (a1 * b2) * c2 <= (b1 * a2) * c2
  BY <1>1, <1>2, <1>3, SameSign
<1>5. (b1 * c2) * a2 < (c1 * b2) * a2
  BY <1>1, <1>2, <1>3, SameSign
<1>6. /\ (a1 * b2) * c2 = (a1 * c2) * b2
      /\ (b1 * a2) * c2 = (b1 * c2) * a2
      /\ (c1 * b2) * a2 = (c1 * a2) * b2
  BY <1>1
<1>7. (a1 * c2) * b2 < (c1 * a2) * b2
  <2> DEFINE p == (a1 * c2) * b2  q == (b1 * c2) * a2  r == (c1 * a2) * b2
  <2>1. p \in Int /\ q \in Int /\ r \in Int
    BY <1>1, <1>3
  <2>2. p <= q /\ q < r
    BY <1>4, <1>5, <1>6
  <2> HIDE DEF p, q, r
  <2>3. p < r
    BY <2>1, <2>2
  <2>4. QED
    BY <2>3 DEF p, r
<1>8. a1 * c2 < c1 * a2
  BY <1>1, <1>3, <1>7, SameSign
<1>9. ~ (c1 * a2 < a1 * c2)
  BY <1>3, <1>8
<1>10. QED
  BY <1>8, <1>9 DEF Below, a1, a2, c1, c2

LEMMA NotBelowItself ==
  ASSUME NEW a \in Fraction
  PROVE  ~ Below(a, a)
<1>1. a[1] * a[2] \in Int
  BY DEF Fraction
<1>2. QED
  BY <1>1 DEF Below

LEMMA CountIsNat ==
  ASSUME NEW scores, NEW list \in Seq(Row), NEW t, NEW flagged, NEW fake
  PROVE  CountAt(scores, list, t, flagged, fake) \in Nat
<1> DEFINE counted == {k \in 1..Len(list) :
                         /\ (ScoreOf(scores, list[k].review.id) >= t) = flagged
                         /\ list[k].is_fake = fake}
<1>1. IsFiniteSet(1..Len(list)) /\ counted \subseteq 1..Len(list)
  BY FS_Interval
<1>2. Cardinality(counted) \in Nat
  <2> HIDE DEF counted
  <2>1. QED
    BY <1>1, FS_Subset, FS_CardinalityType
<1>3. QED
  BY <1>2 DEF CountAt

Counts == [tp : Nat, fp : Nat, fn : Nat, tn : Nat]

LEMMA RateIsFraction ==
  ASSUME NEW n \in Int, NEW d \in Nat
  PROVE  Rate(n, d) \in Fraction
BY DEF Rate, Fraction

LEMMA ValueIsFraction ==
  ASSUME NEW goal \in Objectives, NEW m \in Counts
  PROVE  Value(goal, m) \in Fraction
<1>1. /\ m.tp \in Nat /\ m.fp \in Nat /\ m.fn \in Nat /\ m.tn \in Nat
  BY DEF Counts
<1>2. CASE goal = "f1"
  <2>1. 2 * m.tp \in Int /\ 2 * m.tp + m.fp + m.fn \in Nat
    BY <1>1
  <2>2. QED
    BY <1>2, <2>1, RateIsFraction DEF Value
<1>3. CASE goal = "precision_at_recall"
  <2>1. Precision(m) \in Fraction
    BY <1>1, RateIsFraction DEF Precision
  <2>2. <<-1, 1>> \in Fraction
    BY DEF Fraction
  <2>3. QED
    BY <1>3, <2>1, <2>2 DEF Value
<1>4. CASE goal = "youden"
  <2>1. Recall(m) \in Fraction /\ FalsePositiveRate(m) \in Fraction
    BY <1>1, RateIsFraction DEF Recall, FalsePositiveRate
  <2>2. PICK r \in Fraction, f \in Fraction :
          Value(goal, m) = <<r[1] * f[2] - f[1] * r[2], r[2] * f[2]>>
    BY <1>4, <2>1 DEF Value
  <2>3. /\ r[1] \in Int /\ f[1] \in Int /\ r[2] \in Nat \ {0} /\ f[2] \in Nat \ {0}
    BY DEF Fraction
  <2>4. r[2] * f[2] \in Nat \ {0} /\ r[1] * f[2] - f[1] * r[2] \in Int
    BY <2>3
  <2>5. QED
    BY <2>2, <2>4 DEF Fraction
<1>5. QED
  BY <1>2, <1>3, <1>4, JobsAssumption

LEMMA MetricsAreCounts ==
  ASSUME NEW scores, NEW list \in Seq(Row), NEW t
  PROVE  MetricsAt(scores, list, t) \in Counts
BY CountIsNat DEF MetricsAt, Counts

\* A set of numbers up to N that is not empty has a first one.
LEMMA FirstOf ==
  ASSUME NEW N \in Nat, NEW S \in SUBSET (0..N), S # {}
  PROVE  \E m \in S : \A k \in S : m <= k
<1> DEFINE UpTo == [m \in 0..N |-> 0..m]
           segments == {UpTo[m] : m \in S}
<1>1. IsFiniteSet(0..N)
  BY FS_Interval
<1>2. \A m \in 0..N : UpTo[m] \in SUBSET (0..N)
  OBVIOUS
<1>3. segments \subseteq FiniteSubsetsOf(0..N) /\ segments # {}
  <2> HIDE DEF UpTo
  <2>1. \A m \in 0..N : UpTo[m] \in FiniteSubsetsOf(0..N)
    BY <1>1, <1>2, FS_Subset DEF FiniteSubsetsOf
  <2>2. QED
    BY <2>1
<1>4. PICK least \in segments : \A x \in segments : ~(<<x, least>> \in StrictSubsetOrdering(0..N))
  <2> HIDE DEF segments
  <2>1. QED
    BY <1>1, <1>3, FS_StrictSubsetOrderingWellFounded, WFMin
<1>5. PICK m \in S : least = UpTo[m]
  BY <1>4
<1>6. ASSUME NEW k \in S, k < m PROVE FALSE
  <2>1. UpTo[k] \subseteq UpTo[m] /\ m \in UpTo[m] /\ m \notin UpTo[k]
    BY <1>6
  <2>2. <<UpTo[k], UpTo[m]>> \in StrictSubsetOrdering(0..N)
    BY <2>1, <1>2 DEF StrictSubsetOrdering
  <2>3. QED
    BY <2>2, <1>4, <1>5
<1>7. \A k \in S : ~(k < m)
  BY <1>6
<1>8. QED
  BY <1>7

\* What a threshold is worth on the training half.
Worth(t) == Value(objective, MetricsAt(scored, train, t))

\* The best of the thresholds tried, the lowest one of those.
Chosen(tried, b) ==
  /\ b = [threshold |-> b.threshold, value |-> b.value]
  /\ b.threshold \in tried /\ b.value = Worth(b.threshold)
  /\ \A t \in tried :
       /\ ~ Below(b.value, Worth(t))
       /\ t < b.threshold => Below(Worth(t), b.value)

\* Thresholds are tried from the lowest one on.
Ascending == \A t \in swept, u \in Thresholds \ swept : t < u

Swept ==
  /\ pc \notin {"sweep", "done"} => swept = {} /\ best = Nothing
  /\ pc = "decide" => job = "moderate"
  /\ pc = "measure" => job = "evaluate"
  /\ pc = "sweep" => job = "calibrate"
  /\ job = "calibrate" =>
       /\ objective \in Objectives
       /\ swept \subseteq Thresholds /\ Ascending
       /\ swept = {} => best = Nothing
       /\ swept # {} => Chosen(swept, best)
       /\ pc = "done" => swept = Thresholds

LEMMA LowestIsThere ==
  ASSUME NEW S \in SUBSET Thresholds, S # {}
  PROVE  Min(S) \in S /\ \A t \in S : Min(S) <= t
<1> DEFINE N == 100
<1>1. Thresholds \subseteq 0..N
  BY JobsAssumption
<1>2. N \in Nat
  OBVIOUS
<1> HIDE DEF N
<1>3. S \in SUBSET (0..N)
  BY <1>1
<1>4. \E m \in S : \A k \in S : m <= k
  BY <1>2, <1>3, FirstOf
<1>5. QED
  BY <1>4 DEF Min

LEMMA SweepChooses ==
  ASSUME IInv, Swept, Sweep
  PROVE  /\ swept' \subseteq Thresholds /\ swept' # {} /\ Ascending'
         /\ Chosen(swept', best')
<1> DEFINE t0 == Min(Thresholds \ swept)
           v0 == Worth(t0)
           here == [threshold |-> t0, value |-> v0]
<1>1. /\ swept' = swept \cup {t0}
      /\ best' = IF Better(v0) THEN here ELSE best
      /\ job = "calibrate"
  BY DEF Sweep, Swept, Worth
<1>2. /\ objective \in Objectives /\ swept \subseteq Thresholds /\ Ascending
      /\ swept = {} => best = Nothing
      /\ swept # {} => Chosen(swept, best)
  BY <1>1 DEF Swept
<1>3. t0 \in Thresholds \ swept /\ \A t \in Thresholds \ swept : t0 <= t
  BY <1>2, LowestIsThere DEF Sweep
<1>4. \A t \in Thresholds : t \in Int
  BY JobsAssumption
<1>5. \A t : Worth(t) \in Fraction
  BY <1>2, ValueIsFraction, MetricsAreCounts DEF Worth, IInv, Lists
<1>6. v0 \in Fraction
  BY <1>5
<1> HIDE DEF t0, v0
<1>7. Ascending'
  <2> SUFFICES ASSUME NEW t \in swept', NEW u \in Thresholds \ swept'
               PROVE  t < u
    BY DEF Ascending
  <2>1. CASE t \in swept
    BY <1>1, <1>2, <2>1 DEF Ascending
  <2>2. CASE t = t0
    BY <1>1, <1>3, <1>4, <2>2
  <2>3. QED
    BY <1>1, <2>1, <2>2
<1>8. CASE swept = {}
  <2>1. best' = here /\ swept' = {t0}
    BY <1>1, <1>2, <1>8 DEF Better
  <2>2. ~ Below(v0, v0) /\ ~ (t0 < t0)
    BY <1>3, <1>4, <1>6, NotBelowItself
  <2>3. here.threshold = t0 /\ here.value = v0 /\ v0 = Worth(t0)
    BY DEF v0
  <2>4. Chosen({t0}, here)
    BY <2>2, <2>3 DEF Chosen
  <2>5. QED
    BY <1>3, <1>7, <1>8, <2>1, <2>4
<1>9. CASE swept # {}
  <2>1. Chosen(swept, best)
    BY <1>2, <1>9
  <2>2. /\ best.threshold \in swept /\ best.value = Worth(best.threshold)
        /\ best = [threshold |-> best.threshold, value |-> best.value]
    BY <2>1 DEF Chosen
  <2>3. best.value \in Fraction
    BY <1>5, <2>2
  <2>4. best # Nothing
    <3>1. best.threshold \in Thresholds /\ best.value \in Int \X Int
      BY <1>2, <2>2, <2>3 DEF Fraction
    <3>2. best \in [threshold : Thresholds, value : Int \X Int]
      BY <2>2, <3>1
    <3>3. QED
      BY <3>2, JobsAssumption
  <2>5. CASE Below(best.value, v0)
    <3>1. best' = here
      BY <1>1, <2>5 DEF Better
    <3>2. ASSUME NEW t \in swept
          PROVE  ~ Below(v0, Worth(t)) /\ Below(Worth(t), v0)
      <4>1. ~ Below(best.value, Worth(t)) /\ Worth(t) \in Fraction
        BY <1>5, <2>1 DEF Chosen
      <4>2. QED
        BY <1>6, <2>3, <2>5, <4>1, BelowPasses
    <3>3. ~ Below(v0, v0) /\ ~ (t0 < t0) /\ v0 = Worth(t0)
      BY <1>3, <1>4, <1>6, NotBelowItself DEF v0
    <3>4. here.threshold = t0 /\ here.value = v0
      OBVIOUS
    <3>5. Chosen(swept', here)
      BY <1>1, <3>2, <3>3, <3>4 DEF Chosen
    <3>6. QED
      BY <1>1, <1>2, <1>3, <1>7, <3>1, <3>5
  <2>6. CASE ~ Below(best.value, v0)
    <3>1. best' = best
      BY <1>1, <2>4, <2>6 DEF Better
    <3>2. ~ (t0 < best.threshold) /\ v0 = Worth(t0)
      <4>1. best.threshold < t0
        BY <1>2, <1>3, <2>2 DEF Ascending
      <4>2. QED
        BY <1>2, <1>3, <1>4, <2>2, <4>1 DEF v0
    <3>3. Chosen(swept', best)
      BY <1>1, <2>1, <2>6, <3>2 DEF Chosen
    <3>4. QED
      BY <1>1, <1>2, <1>3, <1>7, <3>1, <3>3
  <2>7. QED
    BY <2>5, <2>6
<1>10. QED
  BY <1>8, <1>9
LEMMA InitSwept == Init => Swept
BY DEF Init, Swept, Ascending

LEMMA StepSwept == IInv /\ Unmixed /\ Swept /\ [Next]_vars => Swept'
<1> SUFFICES ASSUME IInv, Unmixed, Swept, [Next]_vars PROVE Swept'
  OBVIOUS
<1>1. CASE Load \/ Loaded \/ StopAtLimit \/ Reject \/ Accept \/ Validated
           \/ Refuse \/ Assign \/ Divided \/ Begin \/ Look
  <2>1. /\ UNCHANGED <<job, objective, swept, best>>
        /\ pc \notin {"sweep", "done"} /\ pc' \notin {"sweep", "done", "decide", "measure"}
    BY <1>1 DEF Load, Loaded, StopAtLimit, Reject, Accept, Validating, Validated, Refuse,
       Assign, Divided, Begin, Look, jobVars, results
  <2>2. QED
    BY <2>1 DEF Swept, Ascending
<1>2. CASE Score
  <2>1. /\ UNCHANGED <<job, objective, swept, best>> /\ pc = "compare"
        /\ pc' = "compare" \/ pc' = AfterScoring
    BY <1>2 DEF Score
  <2>2. pc' = "compare" \/ (pc' = "decide" /\ job = "moderate")
        \/ (pc' = "measure" /\ job = "evaluate") \/ (pc' = "sweep" /\ job = "calibrate")
    BY <2>1 DEF AfterScoring, Unmixed
  <2>3. swept = {} /\ best = Nothing
    BY <2>1 DEF Swept
  <2>4. QED
    BY <2>1, <2>2, <2>3 DEF Swept, Ascending
<1>3. CASE Decide \/ Measure
  <2>1. /\ UNCHANGED <<job, objective, swept, best>>
        /\ pc' = "done" /\ job # "calibrate"
    BY <1>3 DEF Decide, Measure, Swept
  <2>2. QED
    BY <2>1 DEF Swept
<1>4. CASE Sweep
  <2>1. /\ UNCHANGED <<job, objective, pc>> /\ pc = "sweep"
        /\ UNCHANGED <<objective, scored, train>>
    BY <1>4 DEF Sweep
  <2>2. /\ swept' \subseteq Thresholds /\ swept' # {} /\ Ascending'
        /\ Chosen(swept', best')
    BY <1>4, SweepChooses
  <2>3. Chosen(swept, best)'
    <3>1. \A t : Worth(t)' = Worth(t)
      BY <2>1 DEF Worth
    <3>2. QED
      BY <2>2, <3>1 DEF Chosen
  <2>4. QED
    BY <2>1, <2>2, <2>3 DEF Swept
<1>5. CASE Report \/ Finished \/ UNCHANGED vars
  <2>1. /\ UNCHANGED <<job, objective, swept, best, scored, train>>
        /\ (pc = "sweep" /\ pc' = "done" /\ swept = Thresholds) \/ pc' = pc
    BY <1>5 DEF Report, Finished, vars, jobVars, results
  <2>2. Chosen(swept, best) => Chosen(swept, best)'
    <3>1. \A t : Worth(t)' = Worth(t)
      BY <2>1 DEF Worth
    <3>2. QED
      BY <2>1, <3>1 DEF Chosen
  <2>3. Ascending => Ascending'
    BY <2>1 DEF Ascending
  <2>4. QED
    BY <2>1, <2>2, <2>3 DEF Swept
<1>6. QED
  BY <1>1, <1>2, <1>3, <1>4, <1>5 DEF Next

\* A threshold is the lowest of those that do best on the training half, and no
\* score of a half shows a near-duplicate signal gained from the other: the halves
\* share no review and are scored apart, and a later threshold has to do strictly
\* better (calibrate, split_by_author).
THEOREM ThresholdIsTrained == Spec => []ThresholdRestsOnTraining
<1>1. IInv /\ Unmixed /\ Scored /\ Swept => ThresholdRestsOnTraining
  <2> SUFFICES ASSUME IInv, Unmixed, Scored, Swept, job = "calibrate"
               PROVE  /\ HalvesAreApart
                      /\ pc = "done" =>
                           /\ best.value = Worth(best.threshold)
                           /\ \A t \in Thresholds :
                                /\ ~ Below(best.value, Worth(t))
                                /\ t < best.threshold => Below(Worth(t), best.value)
    BY DEF ThresholdRestsOnTraining, Worth
  <2>1. HalvesAreApart
    BY HalvesStayApart
  <2>2. pc = "done" => Chosen(Thresholds, best)
    BY JobsAssumption DEF Swept
  <2>3. QED
    BY <2>1, <2>2 DEF Chosen
<1>2. QED
  BY <1>1, InitOk, StepOk, InitUnmixed, StepUnmixed, InitScored, StepScored, InitSwept,
     StepSwept, PTL DEF Spec
-----------------------------------------------------------------------------
(* The rows are the labelled items in their order.                         *)

Labelled(k) == job = "moderate" \/ items[k].is_fake # NoLabel

\* Row j is item src[j], and no labelled item below n is left out.
Lined(src, n) ==
  /\ src \in [1..Len(rows) -> 1..Len(items)]
  /\ \A i, j \in 1..Len(rows) : i < j => src[i] < src[j]
  /\ \A j \in 1..Len(rows) :
       /\ rows[j] = items[src[j]].review /\ Labelled(src[j]) /\ src[j] < n
       /\ job # "moderate" => labels[j] = items[src[j]].is_fake
  /\ \A k \in 1..Len(items) : k < n /\ Labelled(k) => \E j \in 1..Len(rows) : src[j] = k

InLine ==
  /\ pc = "load" => job # "moderate" /\ \E src : Lined(src, next)
  /\ pc # "load" => \E src : Lined(src, Len(items) + 1)

LEMMA InitInLine == Init => InLine
<1> SUFFICES ASSUME Init PROVE InLine
  OBVIOUS
<1>1. Len(items) \in Nat
  BY JobsAssumption DEF Init
<1>2. CASE job = "moderate"
  <2> DEFINE src == [k \in 1..Len(items) |-> k]
  <2>1. Len(rows) = Len(items) /\ \A k \in 1..Len(items) : rows[k] = items[k].review
    BY <1>1, <1>2 DEF Init
  <2>2. Lined(src, Len(items) + 1)
    BY <1>1, <1>2, <2>1 DEF Lined, Labelled
  <2>3. pc = "validate"
    BY <1>2 DEF Init
  <2>4. QED
    BY <2>2, <2>3 DEF InLine
<1>3. CASE job # "moderate"
  <2>1. rows = <<>> /\ next = 1 /\ pc = "load"
    BY <1>3 DEF Init
  <2>2. Lined([k \in {} |-> k], next)
    BY <1>1, <2>1 DEF Lined
  <2>3. QED
    BY <1>3, <2>1, <2>2 DEF InLine
<1>4. QED
  BY <1>2, <1>3

LEMMA LoadLines ==
  ASSUME IInv, InLine, Load
  PROVE  InLine'
<1>1. PICK src : Lined(src, next)
  BY DEF InLine, Load
<1>2. /\ pc = "load" /\ pc' = "load" /\ job' = job /\ items' = items /\ job # "moderate"
      /\ next' = next + 1 /\ next \in 1..Len(items) /\ next \in Nat
  BY DEF Load, InLine, IInv, Intake
<1>3. /\ rows \in Seq(Reviews) /\ labels \in Seq(BOOLEAN) /\ Len(labels) = Len(rows)
      /\ items[next] \in Row /\ Len(rows) \in Nat
  BY <1>2 DEF IInv, Intake
<1>4. CASE items[next].is_fake = NoLabel
  <2>1. rows' = rows /\ labels' = labels
    BY <1>4 DEF Load
  <2>2. \A k \in 1..Len(items) : k < next + 1 /\ Labelled(k) => k < next
    BY <1>2, <1>4 DEF Labelled
  <2>3. \A j \in 1..Len(rows) : src[j] < next + 1
    BY <1>1, <1>2 DEF Lined
  <2>4. Lined(src, next)'
    BY <1>1, <1>2, <2>1, <2>2, <2>3 DEF Lined, Labelled
  <2>5. QED
    BY <1>2, <2>4 DEF InLine
<1>5. CASE items[next].is_fake # NoLabel
  <2> DEFINE n == Len(rows)
  <2>0. PICK longer : longer = [j \in 1..(n + 1) |-> IF j = n + 1 THEN next ELSE src[j]]
    OBVIOUS
  <2>1. /\ rows' = Append(rows, items[next].review)
        /\ labels' = Append(labels, items[next].is_fake)
    BY <1>5 DEF Load
  <2>2. items[next].review \in Reviews /\ items[next].is_fake \in BOOLEAN
    BY <1>3, <1>5 DEF Row
  <2>3. /\ Len(rows') = n + 1 /\ rows'[n + 1] = items[next].review
        /\ \A j \in 1..n : rows'[j] = rows[j]
    BY <1>3, <2>1, <2>2, AppendIs
  <2>4. /\ labels'[n + 1] = items[next].is_fake
        /\ \A j \in 1..n : labels'[j] = labels[j]
    BY <1>3, <2>1, <2>2, AppendIs
  <2>5. /\ \A j \in 1..n : longer[j] = src[j]
        /\ longer[n + 1] = next
        /\ \A j \in 1..(n + 1) : j \in 1..n \/ j = n + 1
    BY <1>3, <2>0
  <2>6. longer \in [1..(n + 1) -> 1..Len(items)]
    BY <1>1, <1>2, <2>0, <2>5 DEF Lined
  <2> HIDE DEF n
  <2>7. \A i, j \in 1..(n + 1) : i < j => longer[i] < longer[j]
    <3> SUFFICES ASSUME NEW i \in 1..(n + 1), NEW j \in 1..(n + 1), i < j
                 PROVE  longer[i] < longer[j]
      OBVIOUS
    <3>1. i \in 1..n
      BY <1>3, <2>5 DEF n
    <3>2. QED
      BY <1>1, <2>5, <3>1 DEF Lined, n
  <2>8. \A j \in 1..(n + 1) :
          /\ rows'[j] = items[longer[j]].review /\ Labelled(longer[j])
          /\ longer[j] < next + 1 /\ labels'[j] = items[longer[j]].is_fake
    <3> SUFFICES ASSUME NEW j \in 1..(n + 1)
                 PROVE  /\ rows'[j] = items[longer[j]].review /\ Labelled(longer[j])
                        /\ longer[j] < next + 1 /\ labels'[j] = items[longer[j]].is_fake
      OBVIOUS
    <3>1. CASE j \in 1..n
      <4>1. longer[j] = src[j] /\ src[j] \in Nat /\ src[j] < next
        BY <1>1, <2>5, <3>1 DEF Lined, n
      <4>2. QED
        BY <1>1, <1>2, <2>3, <2>4, <3>1, <4>1 DEF Lined, n
    <3>2. CASE j = n + 1
      BY <1>2, <1>5, <2>3, <2>4, <2>5, <3>2 DEF Labelled
    <3>3. QED
      BY <2>5, <3>1, <3>2
  <2>9. \A k \in 1..Len(items) :
          k < next + 1 /\ Labelled(k) => \E j \in 1..(n + 1) : longer[j] = k
    <3> SUFFICES ASSUME NEW k \in 1..Len(items), k < next + 1, Labelled(k)
                 PROVE  \E j \in 1..(n + 1) : longer[j] = k
      OBVIOUS
    <3>1. n + 1 \in 1..(n + 1) /\ \A j \in 1..n : j \in 1..(n + 1)
      BY <1>3 DEF n
    <3>2. CASE k = next
      BY <2>5, <3>1, <3>2
    <3>3. CASE k < next
      BY <1>1, <2>5, <3>1, <3>3 DEF Lined, n
    <3>4. QED
      BY <1>2, <3>2, <3>3
  <2>10. \A k : Labelled(k)' <=> Labelled(k)
    BY <1>2 DEF Labelled
  <2>11. Lined(longer, next)'
    <3>1. longer \in [1..Len(rows') -> 1..Len(items')]
      BY <1>2, <2>3, <2>6
    <3>2. \A i, j \in 1..Len(rows') : i < j => longer[i] < longer[j]
      BY <2>3, <2>7
    <3>3. \A j \in 1..Len(rows') :
            /\ rows'[j] = items'[longer[j]].review /\ Labelled(longer[j])'
            /\ longer[j] < next' /\ labels'[j] = items'[longer[j]].is_fake
      BY <1>2, <2>3, <2>8, <2>10
    <3>4. \A k \in 1..Len(items') :
            k < next' /\ Labelled(k)' => \E j \in 1..Len(rows') : longer[j] = k
      BY <1>2, <2>3, <2>9, <2>10
    <3>5. QED
      BY <3>1, <3>2, <3>3, <3>4 DEF Lined
  <2>12. QED
    BY <1>2, <2>11 DEF InLine
<1>6. QED
  BY <1>4, <1>5

LEMMA StepInLine == IInv /\ Unmixed /\ InLine /\ [Next]_vars => InLine'
<1> SUFFICES ASSUME IInv, Unmixed, InLine, [Next]_vars PROVE InLine'
  OBVIOUS
<1>1. CASE Load
  BY <1>1, LoadLines
<1>2. CASE Loaded
  <2>1. PICK src : Lined(src, next)
    BY <1>2 DEF InLine, Loaded
  <2>2. /\ UNCHANGED <<job, items, rows, labels>> /\ pc' = "validate"
        /\ next > Len(items) /\ next \in Nat /\ Len(items) \in Nat
    BY <1>2 DEF Loaded, IInv, Intake
  <2>3. \A k \in 1..Len(items) : k < next /\ k < Len(items) + 1
    BY <2>2
  <2>4. Lined(src, Len(items) + 1)'
    BY <2>1, <2>2, <2>3 DEF Lined, Labelled
  <2>5. QED
    BY <2>2, <2>4 DEF InLine
<1>3. CASE ~ (Load \/ Loaded)
  <2>1. /\ UNCHANGED <<job, items, rows, labels>>
        /\ \/ pc # "load" /\ pc' # "load"
           \/ pc' = pc /\ next' = next
    <3>1. CASE StopAtLimit \/ Reject \/ Accept \/ Validated \/ Refuse \/ Assign \/ Divided
      BY <3>1 DEF StopAtLimit, Reject, Accept, Validating, Validated, Refuse, Assign,
         Divided, intake
    <3>2. CASE Begin \/ Look \/ Decide \/ Measure \/ Sweep \/ Report
      BY <3>2 DEF Begin, Look, jobVars, Decide, Measure, Sweep, Report, intake
    <3>3. CASE Score
      <4>1. UNCHANGED <<job, items, rows, labels, next>> /\ pc = "compare"
        BY <3>3 DEF Score, intake
      <4>2. waiting # <<>> => pc' = pc
        BY <3>3 DEF Score
      <4>3. pc' # "load"
        BY <3>3, <4>1, <4>2 DEF Score, AfterScoring, Unmixed
      <4>4. QED
        BY <4>1, <4>3
    <3>4. CASE Finished \/ UNCHANGED vars
      BY <3>4 DEF Finished, vars, jobVars, intake
    <3>5. QED
      BY <1>3, <3>1, <3>2, <3>3, <3>4 DEF Next
  <2>2. \A src, n : Lined(src, n) => Lined(src, n)'
    BY <2>1 DEF Lined, Labelled
  <2>3. Len(items') = Len(items)
    BY <2>1
  <2>4. QED
    BY <2>1, <2>2, <2>3 DEF InLine
<1>4. QED
  BY <1>1, <1>2, <1>3
-----------------------------------------------------------------------------
(* What is accepted is the first valid row of its id.                      *)

FirstRow(j) ==
  /\ rows[j].ok
  /\ \A i \in 1..Len(rows) : i < j /\ rows[i].ok => rows[i].id # rows[j].id

FromRow(entry) ==
  \E j \in 1..Len(rows) :
    FirstRow(j) /\ entry.review = rows[j] /\ entry.is_fake = LabelOf(j)

FirstOnes ==
  /\ pc = "load" => accepted = <<>>
  /\ \A k \in 1..Len(accepted) : FromRow(accepted[k])
  /\ pc = "validate" /\ next <= Len(rows) =>
       \A i \in 1..Len(rows) : i < next /\ rows[i].ok => Seen(rows[i].id)

LEMMA InitFirstOnes == Init => FirstOnes
<1> SUFFICES ASSUME Init PROVE FirstOnes
  OBVIOUS
<1>1. accepted = <<>> /\ next = 1 /\ \A i \in 1..Len(rows) : ~ (i < next)
  BY DEF Init
<1>2. QED
  BY <1>1 DEF FirstOnes

LEMMA AcceptsTheFirst ==
  ASSUME IInv, FirstOnes, Accept
  PROVE  FirstOnes'
<1> DEFINE e == [review |-> rows[next], is_fake |-> LabelOf(next)]
<1>1. /\ UNCHANGED <<job, rows, labels, pc>> /\ pc = "validate"
      /\ next \in Nat \ {0} /\ next \in 1..Len(rows) /\ next' = next + 1
      /\ rows[next].ok /\ ~ Seen(rows[next].id) /\ rows \in Seq(Reviews)
      /\ accepted' = Append(accepted, e)
  BY DEF Accept, Validating, IInv, Intake
<1>2. e \in Row /\ accepted \in Seq(Row)
  <2>1. rows[next] \in Reviews
    BY <1>1
  <2>2. LabelOf(next) \in BOOLEAN \cup {NoLabel}
    BY <1>1 DEF IInv, Intake, LabelOf
  <2>3. QED
    BY <2>1, <2>2 DEF Row, IInv, Lists
<1>3. /\ Len(accepted') = Len(accepted) + 1 /\ Len(accepted) \in Nat
      /\ accepted'[Len(accepted) + 1] = e
      /\ \A k \in 1..Len(accepted) : accepted'[k] = accepted[k]
  BY <1>1, <1>2, AppendIs
<1>4. /\ \A k \in 1..Len(accepted') : k \in 1..Len(accepted) \/ k = Len(accepted) + 1
      /\ \A k \in 1..Len(accepted) : k \in 1..Len(accepted')
      /\ Len(accepted) + 1 \in 1..Len(accepted')
  BY <1>3
<1>5. e.review = rows[next] /\ e.is_fake = LabelOf(next)
  OBVIOUS
<1> HIDE DEF e
<1>6. FirstRow(next)
  <2>1. \A i \in 1..Len(rows) : i < next /\ rows[i].ok => Seen(rows[i].id)
    BY <1>1 DEF FirstOnes
  <2>2. QED
    BY <1>1, <2>1 DEF FirstRow
<1>7. FromRow(e)
  BY <1>1, <1>5, <1>6 DEF FromRow
<1>8. \A k \in 1..Len(accepted') : FromRow(accepted'[k])
  BY <1>3, <1>4, <1>7 DEF FirstOnes
<1>9. \A k \in 1..Len(accepted') : FromRow(accepted[k])'
  BY <1>1, <1>8 DEF FromRow, FirstRow, LabelOf
<1>10. \A i \in 1..Len(rows) : i < next + 1 /\ rows[i].ok =>
          \E k \in 1..Len(accepted') : accepted'[k].review.id = rows[i].id
  <2> SUFFICES ASSUME NEW i \in 1..Len(rows), i < next + 1, rows[i].ok
               PROVE  \E k \in 1..Len(accepted') : accepted'[k].review.id = rows[i].id
    OBVIOUS
  <2>1. CASE i = next
    BY <1>3, <1>4, <1>5, <2>1
  <2>2. CASE i < next
    <3>1. Seen(rows[i].id)
      BY <1>1, <2>2 DEF FirstOnes
    <3>2. QED
      BY <1>3, <1>4, <3>1 DEF Seen
  <2>3. QED
    BY <1>1, <2>1, <2>2
<1>11. \A i \in 1..Len(rows') : i < next' /\ rows'[i].ok => Seen(rows[i].id)'
  BY <1>1, <1>10 DEF Seen
<1>12. QED
  BY <1>1, <1>9, <1>11 DEF FirstOnes

LEMMA StepFirstOnes == IInv /\ Unmixed /\ FirstOnes /\ [Next]_vars => FirstOnes'
<1> SUFFICES ASSUME IInv, Unmixed, FirstOnes, [Next]_vars PROVE FirstOnes'
  OBVIOUS
<1>1. CASE Load \/ Loaded
  <2>1. accepted' = <<>> /\ pc = "load"
    BY <1>1 DEF Load, Loaded, FirstOnes
  <2>2. pc' = "validate" => next' = 1 /\ rows' = rows
    BY <1>1, <2>1 DEF Load, Loaded
  <2>3. \A i \in 1..Len(rows') : ~ (i < 1)
    OBVIOUS
  <2>4. QED
    BY <2>1, <2>2, <2>3 DEF FirstOnes
<1>2. CASE Accept
  BY <1>2, AcceptsTheFirst
<1>3. CASE Reject
  <2>1. /\ UNCHANGED <<job, rows, labels, accepted, pc>> /\ pc = "validate"
        /\ next \in Nat \ {0} /\ next' = next + 1 /\ next \in 1..Len(rows)
        /\ ~ rows[next].ok \/ Seen(rows[next].id)
    BY <1>3 DEF Reject, Validating, IInv, Intake
  <2>2. \A i \in 1..Len(rows) : i < next + 1 /\ rows[i].ok => Seen(rows[i].id)
    BY <2>1 DEF FirstOnes
  <2>3. \A k \in 1..Len(accepted) : FromRow(accepted[k])'
    BY <2>1 DEF FirstOnes, FromRow, FirstRow, LabelOf
  <2>4. QED
    BY <2>1, <2>2, <2>3 DEF FirstOnes, Seen
<1>4. CASE StopAtLimit
  <2>1. /\ UNCHANGED <<job, rows, labels, accepted, pc>> /\ pc = "validate"
        /\ next' = Len(rows) + 1 /\ Len(rows) \in Nat
    BY <1>4 DEF StopAtLimit, Validating, IInv, Intake
  <2>2. \A k \in 1..Len(accepted) : FromRow(accepted[k])'
    BY <2>1 DEF FirstOnes, FromRow, FirstRow, LabelOf
  <2>3. QED
    BY <2>1, <2>2 DEF FirstOnes
<1>5. CASE ~ (Load \/ Loaded \/ Accept \/ Reject \/ StopAtLimit)
  <2>1. /\ UNCHANGED <<job, rows, labels, accepted>>
        /\ \/ pc' \notin {"load", "validate"}
           \/ pc' = pc /\ next' = next
    <3>1. CASE Validated \/ Refuse \/ Assign \/ Divided
      BY <3>1 DEF Validated, Refuse, Assign, Divided, intake
    <3>2. CASE Begin \/ Look \/ Decide \/ Measure \/ Sweep \/ Report
      BY <3>2 DEF Begin, Look, jobVars, Decide, Measure, Sweep, Report, intake
    <3>3. CASE Score
      <4>1. UNCHANGED <<job, rows, labels, accepted, next>>
        BY <3>3 DEF Score, intake
      <4>2. pc' = pc \/ pc' \notin {"load", "validate"}
        BY <3>3 DEF Score, AfterScoring, Unmixed
      <4>3. QED
        BY <4>1, <4>2
    <3>4. CASE Finished \/ UNCHANGED vars
      BY <3>4 DEF Finished, vars, jobVars, intake
    <3>5. QED
      BY <1>5, <3>1, <3>2, <3>3, <3>4 DEF Next
  <2>2. \A k \in 1..Len(accepted) : FromRow(accepted[k])'
    BY <2>1 DEF FirstOnes, FromRow, FirstRow, LabelOf
  <2>3. QED
    BY <2>1, <2>2 DEF FirstOnes, Seen
<1>6. QED
  BY <1>1, <1>2, <1>3, <1>4, <1>5

\* The only number that is no greater than any of a set is its minimum.
LEMMA MinIs ==
  ASSUME NEW S \in SUBSET Nat, NEW m \in S, \A k \in S : m <= k
  PROVE  Min(S) = m
<1>1. \E x \in S : \A k \in S : x <= k
  OBVIOUS
<1>2. Min(S) \in S /\ \A k \in S : Min(S) <= k
  BY <1>1 DEF Min
<1>3. Min(S) \in Nat /\ m \in Nat /\ Min(S) <= m /\ m <= Min(S)
  BY <1>2
<1>4. QED
  BY <1>3

\* So it is the first valid item of its id.
LEMMA OwnIsFirst ==
  ASSUME IInv, InLine, FirstOnes, NEW k \in 1..Len(accepted)
  PROVE  LET own == OwnRow(accepted[k].review.id)
         IN  /\ accepted[k].review = own.review
             /\ job # "moderate" => accepted[k].is_fake = own.is_fake
<1> DEFINE id == accepted[k].review.id
           usable == {n \in 1..Len(items) :
                        /\ items[n].review.ok /\ items[n].review.id = id
                        /\ job = "moderate" \/ items[n].is_fake # NoLabel}
<1>1. PICK j \in 1..Len(rows) :
        FirstRow(j) /\ accepted[k].review = rows[j] /\ accepted[k].is_fake = LabelOf(j)
  BY DEF FirstOnes, FromRow
<1>2. PICK src : Lined(src, Len(items) + 1)
  BY DEF FirstOnes, InLine
<1>3. /\ src[j] \in 1..Len(items) /\ rows[j] = items[src[j]].review /\ Labelled(src[j])
      /\ job # "moderate" => labels[j] = items[src[j]].is_fake
  BY <1>2 DEF Lined
<1>4. src[j] \in usable
  BY <1>1, <1>3 DEF FirstRow, Labelled
<1>5. ASSUME NEW n \in usable PROVE src[j] <= n
  <2>1. n < Len(items) + 1 /\ Labelled(n) /\ n \in 1..Len(items)
    BY <1>5 DEF Labelled, IInv, Intake
  <2>2. PICK i \in 1..Len(rows) : src[i] = n
    BY <1>2, <2>1 DEF Lined
  <2>3. rows[i] = items[n].review /\ rows[i].ok /\ rows[i].id = rows[j].id
    BY <1>1, <1>2, <1>5, <2>2 DEF Lined
  <2>4. ~ (i < j)
    BY <1>1, <2>3 DEF FirstRow
  <2>5. i = j \/ src[j] < src[i]
    BY <1>2, <2>4 DEF Lined
  <2>6. QED
    BY <1>3, <2>1, <2>2, <2>5
<1>6. Min(usable) = src[j]
  <2>1. usable \in SUBSET Nat
    OBVIOUS
  <2> HIDE DEF usable
  <2>2. QED
    BY <1>4, <1>5, <2>1, MinIs
<1>7. OwnRow(id) = items[src[j]]
  BY <1>6 DEF OwnRow
<1>8. QED
  BY <1>1, <1>3, <1>7 DEF LabelOf
-----------------------------------------------------------------------------
(* A score is the sum of the weights of what was found, so more found is   *)
(* never a lower score.                                                    *)

Codes == SelfCodes \cup BatchCodes

Term(w, s, c) == IF c \in s THEN w[c] ELSE 0

SumOf(w, s) ==
  Term(w, s, "GENERIC_PHRASE") + Term(w, s, "LOW_EFFORT_EXTREME_RATING")
  + Term(w, s, "SHOUTY_TEXT") + Term(w, s, "UNVERIFIED_PURCHASE")
  + Term(w, s, "NEW_ACCOUNT") + Term(w, s, "MIXED_SCRIPT_TEXT")
  + Term(w, s, "NEAR_DUPLICATE_TEXT") + Term(w, s, "REPEATED_AUTHOR_TEMPLATE")
  + Term(w, s, "AUTHOR_BURST")

LEMMA TermsAreNat ==
  ASSUME NEW w, \A c \in Codes : w[c] \in Nat, NEW s, NEW c \in Codes
  PROVE  Term(w, s, c) \in Nat
BY DEF Term

LEMMA SumIsNat ==
  ASSUME NEW w, \A c \in Codes : w[c] \in Nat, NEW s
  PROVE  SumOf(w, s) \in Nat
<1>1. \A c \in Codes : Term(w, s, c) \in Nat
  BY TermsAreNat
<1>2. QED
  BY <1>1 DEF SumOf, Codes, SelfCodes, BatchCodes

LEMMA SumGrows ==
  ASSUME NEW w, \A c \in Codes : w[c] \in Nat, NEW s, NEW t, s \subseteq t
  PROVE  SumOf(w, s) <= SumOf(w, t)
<1>1. \A c \in Codes : Term(w, s, c) \in Nat /\ Term(w, t, c) \in Nat
  BY TermsAreNat
<1>2. \A c \in Codes : Term(w, s, c) <= Term(w, t, c)
  BY DEF Term
<1>3. QED
  BY <1>1, <1>2 DEF SumOf, Codes, SelfCodes, BatchCodes

\* One code taken out takes its weight with it.
LEMMA SumWithout ==
  ASSUME NEW w, \A c \in Codes : w[c] \in Nat, NEW s \in SUBSET Codes, NEW x \in s
  PROVE  SumOf(w, s) = w[x] + SumOf(w, s \ {x})
<1> DEFINE less == s \ {x}
<1>1. \A c \in Codes : Term(w, s, c) \in Nat /\ Term(w, less, c) \in Nat
  BY TermsAreNat
<1>2. w[x] \in Nat /\ Term(w, s, x) = w[x] /\ Term(w, less, x) = 0
  BY DEF Term
<1>3. \A c \in Codes : c # x => Term(w, s, c) = Term(w, less, c)
  BY DEF Term
<1> HIDE DEF less
<1>4. x \in Codes
  OBVIOUS
<1>5. SumOf(w, s) = w[x] + SumOf(w, less)
  BY <1>1, <1>2, <1>3, <1>4 DEF SumOf, Codes, SelfCodes, BatchCodes
<1>6. QED
  BY <1>5 DEF less

LEMMA CodesAreFinite == IsFiniteSet(Codes)
<1>1. IsFiniteSet({})
  BY FS_EmptySet
<1>2. Codes = (((((((({} \cup {"GENERIC_PHRASE"}) \cup {"LOW_EFFORT_EXTREME_RATING"})
               \cup {"SHOUTY_TEXT"}) \cup {"UNVERIFIED_PURCHASE"}) \cup {"NEW_ACCOUNT"})
               \cup {"MIXED_SCRIPT_TEXT"}) \cup {"NEAR_DUPLICATE_TEXT"})
               \cup {"REPEATED_AUTHOR_TEMPLATE"}) \cup {"AUTHOR_BURST"}
  BY DEF Codes, SelfCodes, BatchCodes
<1>3. \A S, x : IsFiniteSet(S) => IsFiniteSet(S \cup {x})
  BY AddOne
<1>4. QED
  BY <1>1, <1>2, <1>3

LEMMA FoldIsSum ==
  ASSUME NEW p, \A c \in Codes : p.weights[c] \in Nat, NEW S \in SUBSET Codes
  PROVE  MapThenSumSet(LAMBDA c : p.weights[c], S) = SumOf(p.weights, S)
<1> DEFINE w == p.weights
           one(s) == CHOOSE x \in s : TRUE
           body(g) == [s \in SUBSET S |-> IF s = {} THEN 0
                                          ELSE w[one(s)] + g[s \ {one(s)}]]
           iter == CHOOSE g : g = body(g)
           sum == [s \in SUBSET S |-> SumOf(w, s)]
<1>0. \A s : s # {} => one(s) \in s
  OBVIOUS
<1> HIDE DEF one, w
<1>1. sum = body(sum)
  <2>1. ASSUME NEW s \in SUBSET S
        PROVE  sum[s] = IF s = {} THEN 0 ELSE w[one(s)] + sum[s \ {one(s)}]
    <3>1. CASE s = {}
      BY <3>1 DEF SumOf, Term
    <3>2. CASE s # {}
      <4>1. one(s) \in s
        BY <1>0, <3>2
      <4>2. SumOf(w, s) = w[one(s)] + SumOf(w, s \ {one(s)})
        BY <4>1, SumWithout DEF w
      <4>3. s \ {one(s)} \in SUBSET S
        OBVIOUS
      <4>4. QED
        BY <3>2, <4>2, <4>3
    <3>3. QED
      BY <3>1, <3>2
  <2> HIDE DEF sum
  <2>2. sum = [s \in SUBSET S |-> sum[s]]
    BY DEF sum
  <2>3. QED
    BY <2>1, <2>2
<1>2. iter = body(iter)
  <2> HIDE DEF sum, body
  <2>1. \E g : g = body(g)
    BY <1>1
  <2>2. QED
    BY <2>1
<1>3. MapThenSumSet(LAMBDA c : p.weights[c], S) = iter[S]
  BY DEF MapThenSumSet, MapThenFoldSet, one, w
<1> HIDE DEF iter, sum
<1>4. \A s \in SUBSET S :
        iter[s] = IF s = {} THEN 0 ELSE w[one(s)] + iter[s \ {one(s)}]
  BY <1>2
<1>5. ASSUME NEW wrong, wrong = {s \in SUBSET S : iter[s] # SumOf(w, s)}, wrong # {}
      PROVE  FALSE
  <2>1. IsFiniteSet(S)
    BY CodesAreFinite, FS_Subset
  <2>2. wrong \subseteq FiniteSubsetsOf(S)
    BY <1>5, <2>1, FS_Subset DEF FiniteSubsetsOf
  <2>3. PICK s \in wrong : \A t \in wrong : ~(<<t, s>> \in StrictSubsetOrdering(S))
    BY <1>5, <2>1, <2>2, FS_StrictSubsetOrderingWellFounded, WFMin
  <2>4. s # {}
    <3>1. SumOf(w, {}) = 0
      BY DEF SumOf, Term
    <3>2. {} \in SUBSET S /\ iter[{}] = 0
      BY <1>4
    <3>3. QED
      BY <1>5, <2>3, <3>1, <3>2
  <2>5. one(s) \in s /\ s \in SUBSET S
    BY <1>0, <1>5, <2>4
  <2>6. <<s \ {one(s)}, s>> \in StrictSubsetOrdering(S)
    BY <2>5 DEF StrictSubsetOrdering
  <2>7. iter[s \ {one(s)}] = SumOf(w, s \ {one(s)})
    BY <1>5, <2>3, <2>5, <2>6
  <2>8. SumOf(w, s) = w[one(s)] + SumOf(w, s \ {one(s)})
    BY <2>5, SumWithout DEF w
  <2>9. iter[s] = SumOf(w, s)
    BY <1>4, <2>4, <2>5, <2>7, <2>8
  <2>10. QED
    BY <1>5, <2>3, <2>9
<1>6. iter[S] = SumOf(w, S)
  <2> DEFINE wrong == {s \in SUBSET S : iter[s] # SumOf(w, s)}
  <2>1. wrong = {}
    BY <1>5
  <2>2. QED
    BY <2>1
<1>7. QED
  BY <1>3, <1>6 DEF w

LEMMA WeightsAreNat ==
  ASSUME NEW p, ValidPolicy(p)
  PROVE  \A c \in Codes : p.weights[c] \in Nat
<1> DEFINE N == 100
<1>1. DOMAIN p.weights = Codes /\ \A c \in Codes : p.weights[c] \in 0..N
  BY DEF ValidPolicy, Codes
<1> HIDE DEF N
<1>2. QED
  BY <1>1

\* A total is a number, and no lower for more hits.
LEMMA TotalGrows ==
  ASSUME NEW p, \A c \in Codes : p.weights[c] \in Nat, NEW s \in SUBSET Codes, NEW t \in SUBSET Codes,
         s \subseteq t
  PROVE  Total(p, s) \in Nat /\ Total(p, t) \in Nat /\ Total(p, s) <= Total(p, t)
<1> DEFINE a == SumOf(p.weights, s)  b == SumOf(p.weights, t)  most == 100
<1>1. a \in Nat /\ b \in Nat /\ a <= b /\ most \in Nat
  BY SumIsNat, SumGrows
<1>2. /\ Total(p, s) = IF a > most THEN most ELSE a
      /\ Total(p, t) = IF b > most THEN most ELSE b
  BY FoldIsSum DEF Total
<1> HIDE DEF a, b, most
<1>3. QED
  BY <1>1, <1>2

\* A batch adds evidence to a review and takes none away.
LEMMA BatchOnlyAdds ==
  ASSUME NEW p, \A c \in Codes : p.weights[c] \in Nat, NEW i, NEW r, batch[i] = r
  PROVE  LET total == Total(p, SelfHits(p, batch[i]) \cup BatchHits(p, i))
         IN  total \in Nat /\ total >= ScoreAlone(p, r)
<1> DEFINE alone == SelfHits(p, r)  all == SelfHits(p, batch[i]) \cup BatchHits(p, i)
<1>1. alone \in SUBSET Codes /\ all \in SUBSET Codes /\ alone \subseteq all
  BY DEF SelfHits, BatchHits, Weighted, Codes
<1> HIDE DEF alone, all
<1>2. /\ Total(p, alone) \in Nat /\ Total(p, all) \in Nat
      /\ Total(p, alone) <= Total(p, all)
  BY <1>1, TotalGrows
<1>3. QED
  BY <1>2 DEF ScoreAlone, alone, all
-----------------------------------------------------------------------------
(* Every place of the order of urgency is taken by one score.              *)

Ranked(scores) ==
  /\ Len(scores) \in Nat
  /\ \A k \in 1..Len(scores) : scores[k].score \in Nat /\ scores[k].review_id \in Nat
  /\ \A i, j \in 1..Len(scores) : scores[i].review_id = scores[j].review_id => i = j

Ahead(scores, i) == {j \in 1..Len(scores) : MoreUrgent(scores[j], scores[i])}

LEMMA UrgencyOrders ==
  ASSUME NEW scores, Ranked(scores)
  PROVE  /\ \A i \in 1..Len(scores) : i \notin Ahead(scores, i)
         /\ \A i, j, k \in 1..Len(scores) :
              i \in Ahead(scores, j) /\ j \in Ahead(scores, k) => i \in Ahead(scores, k)
         /\ \A i, j \in 1..Len(scores) :
              i # j => i \in Ahead(scores, j) \/ j \in Ahead(scores, i)
BY DEF Ranked, Ahead, MoreUrgent

LEMMA AheadGrows ==
  ASSUME NEW scores, Ranked(scores), NEW i \in 1..Len(scores), NEW j \in Ahead(scores, i)
  PROVE  /\ Cardinality(Ahead(scores, j)) \in Nat /\ Cardinality(Ahead(scores, i)) \in Nat
         /\ Cardinality(Ahead(scores, j)) < Cardinality(Ahead(scores, i))
<1>1. j \in 1..Len(scores)
  BY DEF Ahead
<1>2. IsFiniteSet(1..Len(scores))
  BY FS_Interval DEF Ranked
<1>3. /\ Ahead(scores, j) \subseteq 1..Len(scores) /\ Ahead(scores, i) \subseteq 1..Len(scores)
      /\ Ahead(scores, j) \cup {j} \subseteq Ahead(scores, i) /\ j \notin Ahead(scores, j)
  <2>1. Ahead(scores, j) \subseteq 1..Len(scores) /\ Ahead(scores, i) \subseteq 1..Len(scores)
    BY DEF Ahead
  <2>2. \A k \in Ahead(scores, j) : k \in Ahead(scores, i)
    BY <1>1, <2>1, UrgencyOrders
  <2>3. QED
    BY <1>1, <2>1, <2>2, UrgencyOrders
<1>4. IsFiniteSet(Ahead(scores, j)) /\ IsFiniteSet(Ahead(scores, i))
  BY <1>2, <1>3, FS_Subset
<1>5. Cardinality(Ahead(scores, j) \cup {j}) = Cardinality(Ahead(scores, j)) + 1
  BY <1>3, <1>4, FS_AddElement
<1>6. Cardinality(Ahead(scores, j) \cup {j}) <= Cardinality(Ahead(scores, i))
  BY <1>3, <1>4, FS_Subset
<1>7. Cardinality(Ahead(scores, j)) \in Nat /\ Cardinality(Ahead(scores, i)) \in Nat
  BY <1>4, FS_CardinalityType
<1>8. QED
  BY <1>5, <1>6, <1>7

LEMMA PlacesAreTaken ==
  ASSUME NEW scores, Ranked(scores), NEW k \in 1..Len(scores)
  PROVE  PlaceOf(scores, k) \in 1..Len(scores)
<1> DEFINE n == Len(scores)
           here == 1..n
           places == 0..(n - 1)
           rank == [i \in here |-> Cardinality(Ahead(scores, i))]
<1>1. IsFiniteSet(here) /\ Cardinality(here) = n /\ n \in Nat
  <2>1. n \in Nat
    BY DEF Ranked
  <2>2. 1 \in Int /\ n \in Int
    BY <2>1
  <2>3. IsFiniteSet(here) /\ Cardinality(here) = IF 1 > n THEN 0 ELSE n - 1 + 1
    BY <2>2, FS_Interval
  <2> HIDE DEF n, here
  <2>4. QED
    BY <2>1, <2>3
<1>2. ASSUME NEW i \in here PROVE rank[i] \in places
  <2> DEFINE before == Ahead(scores, i)
  <2>1. before \subseteq here \ {i}
    BY UrgencyOrders DEF Ahead
  <2>2. rank[i] = Cardinality(before)
    OBVIOUS
  <2> HIDE DEF n, here
  <2>3. IsFiniteSet(here \ {i}) /\ Cardinality(here \ {i}) = n - 1
    BY <1>1, FS_RemoveElement
  <2> HIDE DEF before, rank
  <2>4. IsFiniteSet(before) /\ Cardinality(before) <= n - 1
    BY <2>1, <2>3, FS_Subset
  <2>5. Cardinality(before) \in Nat
    BY <2>4, FS_CardinalityType
  <2>6. QED
    BY <1>1, <2>2, <2>4, <2>5
<1>3. ASSUME NEW i \in here, NEW j \in here, rank[i] = rank[j] PROVE i = j
  <2> SUFFICES ASSUME i # j PROVE FALSE
    OBVIOUS
  <2>1. rank[i] = Cardinality(Ahead(scores, i)) /\ rank[j] = Cardinality(Ahead(scores, j))
    OBVIOUS
  <2> HIDE DEF rank
  <2>2. i \in Ahead(scores, j) \/ j \in Ahead(scores, i)
    BY UrgencyOrders
  <2> DEFINE x == Cardinality(Ahead(scores, i))  y == Cardinality(Ahead(scores, j))
  <2>3. CASE i \in Ahead(scores, j)
    <3>1. x \in Nat /\ y \in Nat /\ x < y /\ x = y
      BY <1>3, <2>1, <2>3, AheadGrows
    <3> HIDE DEF x, y
    <3>2. QED
      BY <3>1
  <2>4. CASE j \in Ahead(scores, i)
    <3>1. x \in Nat /\ y \in Nat /\ y < x /\ x = y
      BY <1>3, <2>1, <2>4, AheadGrows
    <3> HIDE DEF x, y
    <3>2. QED
      BY <3>1
  <2>5. QED
    BY <2>2, <2>3, <2>4
<1>4. rank \in [here -> places]
  BY <1>2
<1> HIDE DEF rank, here
<1>5. rank \in Injection(here, places)
  BY <1>3, <1>4 DEF Injection, IsInjective
<1>6. IsFiniteSet(places) /\ Cardinality(places) = n
  <2>1. 0 \in Int /\ n - 1 \in Int
    BY <1>1
  <2>2. /\ IsFiniteSet(places)
        /\ Cardinality(places) = IF 0 > n - 1 THEN 0 ELSE n - 1 - 0 + 1
    BY <2>1, FS_Interval
  <2> HIDE DEF n, places
  <2>3. QED
    BY <1>1, <2>2
<1>7. rank \in Surjection(here, places)
  BY <1>1, <1>5, <1>6, FS_Injection
<1>8. k - 1 \in places
  BY <1>1
<1>9. PICK i \in here : rank[i] = k - 1
  <2> HIDE DEF places
  <2>1. QED
    BY <1>7, <1>8 DEF Surjection
<1>10. \E i2 \in 1..Len(scores) : Cardinality(Ahead(scores, i2)) = k - 1
  BY <1>9 DEF rank, here
<1>11. PlaceOf(scores, k) = CHOOSE i2 \in 1..Len(scores) : Cardinality(Ahead(scores, i2)) = k - 1
  BY DEF PlaceOf, Ahead
<1>12. QED
  BY <1>10, <1>11

-----------------------------------------------------------------------------
(* A decision is about the review whose score it is.                       *)

Judges(entry, row) ==
  /\ entry.review_id = row.review.id /\ entry.score \in Nat
  /\ entry.score >= ScoreAlone(policy, row.review)

Settles(decision, row) ==
  /\ decision.review_id = row.review.id /\ decision.content = row.review
  /\ decision.score >= ScoreAlone(policy, row.review)

Decided ==
  /\ \A c \in Codes : policy.weights[c] \in Nat
  /\ pc \in {"load", "validate", "split", "begin"} => scored = <<>>
  /\ pc = "decide" => job = "moderate"
  /\ pc \in {"measure", "sweep"} => job # "moderate"
  /\ job = "moderate" =>
       /\ pc = "compare" =>
            scored = <<>> /\ waiting = <<>> /\ batch = ReviewsOf(accepted)
       /\ pc = "decide" =>
            /\ Len(scored) = Len(accepted)
            /\ \A k \in 1..Len(scored) : Judges(scored[k], accepted[k])
       /\ pc = "done" =>
            /\ Len(decisions) = Len(accepted)
            /\ \A k \in 1..Len(decisions) :
                 \E m \in 1..Len(accepted) : Settles(decisions[k], accepted[m])

LEMMA InitDecided == Init => Decided
<1> SUFFICES ASSUME Init PROVE Decided
  OBVIOUS
<1>1. ValidPolicy(policy)
  BY DEF Init
<1>2. \A c \in Codes : policy.weights[c] \in Nat
  BY <1>1, WeightsAreNat
<1>3. QED
  BY <1>2 DEF Init, Decided

LEMMA ScoreJudges ==
  ASSUME IInv, Unmixed, Decided, Score, job = "moderate"
  PROVE  /\ pc' = "decide" /\ Len(scored') = Len(accepted)
         /\ \A k \in 1..Len(scored') : Judges(scored'[k], accepted[k])
<1> DEFINE scores == ScoreBatch(policy)
           Hits(i) == SelfHits(policy, batch[i]) \cup BatchHits(policy, i)
<1>1. /\ scored = <<>> /\ waiting = <<>> /\ batch = ReviewsOf(accepted)
      /\ \A c \in Codes : policy.weights[c] \in Nat
  BY DEF Decided, Score
<1>2. pc' = "decide" /\ scored' = <<>> \o scores
  BY <1>1 DEF Score, AfterScoring
<1>3. /\ Len(accepted) \in Nat /\ Len(batch) = Len(accepted)
      /\ \A i \in 1..Len(accepted) : batch[i] = accepted[i].review
  BY <1>1 DEF ReviewsOf, IInv, Lists
<1>4. scores = [i \in 1..Len(batch) |->
                  [review_id |-> batch[i].id, score |-> Total(policy, Hits(i)),
                   signals |-> Hits(i)]]
  BY DEF ScoreBatch
<1>5. ASSUME NEW i \in 1..Len(batch)
      PROVE  scores[i].review_id = batch[i].id /\ scores[i].score = Total(policy, Hits(i))
  BY <1>4
<1>6. Len(scores) = Len(batch) /\ IsList(scores)
  <2> HIDE DEF Hits
  <2>1. Len(batch) \in Nat /\ scores \in [1..Len(batch) -> {scores[k] : k \in 1..Len(batch)}]
    BY <1>3, <1>4
  <2> HIDE DEF scores
  <2>2. QED
    BY <2>1, ListOf
<1> HIDE DEF scores
<1>7. scored' = scores
  BY <1>2, <1>6, ConcatProperties, EmptySeq DEF IsList
<1>8. ASSUME NEW i \in 1..Len(scores) PROVE Judges(scores[i], accepted[i])
  <2>1. i \in 1..Len(batch) /\ batch[i] = accepted[i].review
    BY <1>3, <1>6
  <2>2. scores[i].review_id = accepted[i].review.id /\ scores[i].score = Total(policy, Hits(i))
    BY <1>5, <2>1
  <2>3. /\ Total(policy, Hits(i)) \in Nat
        /\ Total(policy, Hits(i)) >= ScoreAlone(policy, accepted[i].review)
    BY <1>1, <2>1, BatchOnlyAdds
  <2> HIDE DEF Hits
  <2>4. QED
    BY <2>2, <2>3 DEF Judges
<1>9. QED
  BY <1>2, <1>3, <1>6, <1>7, <1>8

LEMMA DecideSettles ==
  ASSUME IInv, Unmixed, Decided, Decide
  PROVE  /\ Len(decisions') = Len(accepted)
         /\ \A k \in 1..Len(decisions') :
              \E m \in 1..Len(accepted) : Settles(decisions'[k], accepted[m])
<1> DEFINE n == Len(scored)
<1>1. /\ n = Len(accepted) /\ n \in Nat /\ accepted \in Seq(Row)
      /\ \A k \in 1..n : Judges(scored[k], accepted[k])
      /\ Distinct(accepted)
  <2>1. pc = "decide" /\ job = "moderate"
    BY DEF Decide, Decided
  <2>2. accepted \in Seq(Row) /\ Distinct(accepted)
    BY DEF IInv, Lists, Unmixed
  <2>3. Len(scored) = Len(accepted) /\ \A k \in 1..Len(scored) : Judges(scored[k], accepted[k])
    BY <2>1 DEF Decided
  <2>4. Len(accepted) \in Nat
    BY <2>2
  <2>5. QED
    BY <2>2, <2>3, <2>4
<1>2. \A k \in 1..n : accepted[k].review.id \in Nat
  <2>1. \A k \in 1..n : accepted[k] \in Row
    BY <1>1
  <2>2. \A row \in Row : row.review \in Reviews
    BY DEF Row
  <2>3. QED
    BY <2>1, <2>2, JobsAssumption
<1>3. Ranked(scored)
  BY <1>1, <1>2 DEF Ranked, Judges, Distinct
<1>4. \A k \in 1..n : PlaceOf(scored, k) \in 1..n
  BY <1>3, PlacesAreTaken
<1>5. decisions' = [k \in 1..n |-> Decision(scored[PlaceOf(scored, k)])]
  BY DEF Decide
<1>6. Len(decisions') = n
  <2>1. decisions' \in [1..n -> {Decision(scored[i]) : i \in 1..n}]
    BY <1>4, <1>5
  <2> HIDE DEF n
  <2>2. QED
    BY <1>1, <2>1, ListOf
<1>7. ASSUME NEW k \in 1..n
      PROVE  \E m \in 1..Len(accepted) : Settles(decisions'[k], accepted[m])
  <2> DEFINE m == PlaceOf(scored, k)
  <2>1. m \in 1..n /\ decisions'[k] = Decision(scored[m])
    BY <1>4, <1>5
  <2> HIDE DEF m
  <2>2. scored[m].review_id = accepted[m].review.id /\ Judges(scored[m], accepted[m])
    BY <1>1, <2>1 DEF Judges
  <2>3. ReviewOf(scored[m].review_id) = accepted[m].review
    <3> DEFINE c == CHOOSE i \in 1..Len(accepted) :
                      accepted[i].review.id = scored[m].review_id
    <3>1. c \in 1..Len(accepted) /\ accepted[c].review.id = scored[m].review_id
      BY <1>1, <2>1, <2>2
    <3>2. c = m
      BY <1>1, <2>1, <2>2, <3>1 DEF Distinct
    <3>3. QED
      BY <3>2 DEF ReviewOf
  <2>4. /\ Decision(scored[m]).review_id = scored[m].review_id
        /\ Decision(scored[m]).score = scored[m].score
        /\ Decision(scored[m]).content = ReviewOf(scored[m].review_id)
    BY DEF Decision
  <2>5. Settles(decisions'[k], accepted[m])
    BY <2>1, <2>2, <2>3, <2>4 DEF Settles, Judges
  <2>6. QED
    BY <1>1, <2>1, <2>5
<1>8. QED
  BY <1>1, <1>6, <1>7
LEMMA StepDecided == IInv /\ Unmixed /\ Decided /\ [Next]_vars => Decided'
<1> SUFFICES ASSUME IInv, Unmixed, Decided, [Next]_vars PROVE Decided'
  OBVIOUS
<1>1. policy' = policy /\ job' = job
  BY DEF Next, vars, Load, Loaded, Validating, StopAtLimit, Reject, Accept, Validated,
     Refuse, Assign, Divided, Begin, Look, jobVars, Score, Decide, Measure, Sweep,
     Report, Finished
<1>2. \A c \in Codes : policy'.weights[c] \in Nat
  BY <1>1 DEF Decided
<1>3. CASE Load \/ Loaded \/ StopAtLimit \/ Reject \/ Accept \/ Validated
           \/ Refuse \/ Assign \/ Divided
  <2>1. /\ scored' = scored /\ pc \in {"load", "validate", "split", "begin"}
        /\ pc' \in {"load", "validate", "split", "begin", "refused"}
    BY <1>3 DEF Load, Loaded, StopAtLimit, Reject, Accept, Validating, Validated, Refuse,
       Assign, Divided, results
  <2>2. QED
    BY <1>1, <1>2, <2>1 DEF Decided
<1>4. CASE Begin
  <2>1. /\ UNCHANGED <<scored, accepted>> /\ pc = "begin" /\ pc' = "compare"
        /\ batch' = Head(Batches) /\ waiting' = Tail(Batches)
    BY <1>4 DEF Begin, Scan, results, intake
  <2>2. job = "moderate" => batch' = ReviewsOf(accepted) /\ waiting' = <<>>
    BY <2>1 DEF Batches
  <2>3. ReviewsOf(accepted)' = ReviewsOf(accepted)
    BY <2>1 DEF ReviewsOf
  <2>4. QED
    BY <1>1, <1>2, <2>1, <2>2, <2>3 DEF Decided
<1>5. CASE Look
  <2>1. UNCHANGED <<scored, accepted, pc, waiting, decisions>>
    BY <1>5 DEF Look, jobVars, results, intake
  <2>2. batch' = batch /\ pc = "compare"
    BY <1>5 DEF Look, Skip, Compare, Visit
  <2>3. ReviewsOf(accepted)' = ReviewsOf(accepted)
    BY <2>1 DEF ReviewsOf
  <2>4. QED
    BY <1>1, <1>2, <2>1, <2>2, <2>3 DEF Decided
<1>6. CASE Score
  <2>1. accepted' = accepted /\ pc = "compare" /\ pc' \in {"compare", "decide", "measure", "sweep"}
    BY <1>6 DEF Score, AfterScoring, intake, Unmixed
  <2>2. CASE job = "moderate"
    <3>1. /\ pc' = "decide" /\ Len(scored') = Len(accepted)
          /\ \A k \in 1..Len(scored') : Judges(scored'[k], accepted[k])
      BY <1>6, <2>2, ScoreJudges
    <3>2. \A k \in 1..Len(scored') : Judges(scored[k], accepted[k])'
      <4>1. \A r : ScoreAlone(policy, r)' = ScoreAlone(policy, r)
        BY <1>1
      <4>2. QED
        BY <1>1, <2>1, <3>1 DEF Judges
    <3>3. QED
      BY <1>1, <1>2, <2>1, <2>2, <3>1, <3>2 DEF Decided
  <2>3. CASE job # "moderate"
    <3>1. pc' # "decide"
      BY <1>6, <2>1, <2>3 DEF Score, AfterScoring, Unmixed
    <3>2. QED
      BY <1>1, <1>2, <2>1, <2>3, <3>1 DEF Decided
  <2>4. QED
    BY <2>2, <2>3
<1>7. CASE Decide
  <2>1. accepted' = accepted /\ pc' = "done" /\ job = "moderate"
    BY <1>7 DEF Decide, intake, Decided
  <2>2. /\ Len(decisions') = Len(accepted)
        /\ \A k \in 1..Len(decisions') :
             \E m \in 1..Len(accepted) : Settles(decisions'[k], accepted[m])
    BY <1>7, DecideSettles
  <2>3. \A k \in 1..Len(decisions') :
          \E m \in 1..Len(accepted') : Settles(decisions[k], accepted[m])'
    BY <1>1, <2>1, <2>2 DEF Settles
  <2>4. QED
    BY <1>1, <1>2, <2>1, <2>2, <2>3 DEF Decided
<1>8. CASE Measure \/ Sweep \/ Report
  <2>1. job # "moderate" /\ pc' \in {"sweep", "done"}
    BY <1>8 DEF Measure, Sweep, Report, Decided
  <2>2. QED
    BY <1>1, <1>2, <2>1 DEF Decided
<1>9. CASE Finished \/ UNCHANGED vars
  <2>1. UNCHANGED <<scored, accepted, pc, waiting, decisions, batch>>
    BY <1>9 DEF Finished, vars, jobVars, results, intake, duplicatesVars
  <2>2. ReviewsOf(accepted)' = ReviewsOf(accepted)
    BY <2>1 DEF ReviewsOf
  <2>3. \A k \in 1..Len(scored) :
          Judges(scored[k], accepted[k]) => Judges(scored[k], accepted[k])'
    BY <1>1, <2>1 DEF Judges
  <2>4. \A k \in 1..Len(decisions), m \in 1..Len(accepted) :
          Settles(decisions[k], accepted[m]) => Settles(decisions[k], accepted[m])'
    BY <1>1, <2>1 DEF Settles
  <2>5. QED
    BY <1>1, <1>2, <2>1, <2>2, <2>3, <2>4 DEF Decided
<1>10. QED
  BY <1>3, <1>4, <1>5, <1>6, <1>7, <1>8, <1>9 DEF Next

\* An accepted review keeps the content and the label of the first valid row with
\* its id, and its decision is about that content, with a score no lower than it
\* would get alone (iter_validated_reviews, load_labelled, score_batch,
\* moderate_batch).
THEOREM FirstRowWins == Spec => []FirstValidRowDecides
<1>1. IInv /\ InLine /\ FirstOnes /\ Decided => FirstValidRowDecides
  <2> SUFFICES ASSUME IInv, InLine, FirstOnes, Decided PROVE FirstValidRowDecides
    OBVIOUS
  <2>1. \A k \in 1..Len(accepted) :
          LET own == OwnRow(accepted[k].review.id)
          IN  /\ accepted[k].review = own.review
              /\ job # "moderate" => accepted[k].is_fake = own.is_fake
    BY OwnIsFirst
  <2>2. ASSUME pc = "done", job = "moderate", NEW k \in 1..Len(decisions)
        PROVE  LET own == OwnRow(decisions[k].review_id).review
               IN  /\ decisions[k].content = own
                   /\ decisions[k].score >= ScoreAlone(policy, own)
    <3>1. PICK m \in 1..Len(accepted) : Settles(decisions[k], accepted[m])
      BY <2>2 DEF Decided
    <3>2. accepted[m].review = OwnRow(decisions[k].review_id).review
      BY <2>1, <3>1 DEF Settles
    <3>3. QED
      BY <3>1, <3>2 DEF Settles
  <2>3. pc = "done" /\ job = "moderate" => Len(decisions) = Len(accepted)
    BY DEF Decided
  <2>4. QED
    BY <2>1, <2>2, <2>3 DEF FirstValidRowDecides
<1>2. QED
  BY <1>1, InitOk, StepOk, InitUnmixed, StepUnmixed, InitInLine, StepInLine,
     InitFirstOnes, StepFirstOnes, InitDecided, StepDecided, PTL DEF Spec
=============================================================================
