------------------------------ MODULE Duplicates ------------------------------
(***************************************************************************)
(* Near-duplicate detection in one batch (dedupe.find_duplicates): the     *)
(* candidate pairs are visited in lexicographic order, each is compared,   *)
(* and a pair of which one side already has MaxPartners partners is        *)
(* skipped.                                                                *)
(*                                                                         *)
(* A review stands for its folded text: Alike says which texts             *)
(* SequenceMatcher finds similar, Bands which LSH buckets a text falls in. *)
(***************************************************************************)
EXTENDS Integers, Sequences, FiniteSets

CONSTANTS
  Reviews,       \* accepted reviews: records with at least an id and a text
  Texts,
  Alike,         \* the pairs of texts that reach the similarity threshold
  Bands,         \* the buckets of each text; texts without shingles share one
  ExactMaxBatch, \* policy.exact_dedupe_max_batch
  MaxPartners,
  BucketWindow   \* _BUCKET_WINDOW

ASSUME DuplicatesAssumption ==
  /\ \A r \in Reviews : r.text \in Texts
  /\ \A t \in Texts : Bands[t] # {}
  /\ ExactMaxBatch \in Nat
  /\ MaxPartners \in Nat \ {0}
  /\ BucketWindow \in Nat \ {0}

VARIABLES
  batch,     \* the reviews being compared
  rest,      \* the candidate pairs not visited yet
  pairs,     \* DuplicateReport.pairs, by place in the batch
  truncated  \* DuplicateReport.truncated

duplicatesVars == <<batch, rest, pairs, truncated>>

-----------------------------------------------------------------------------
(* The candidates.                                                         *)

Exact(b) == Len(b) <= ExactMaxBatch

ExactCandidates(b) == {p \in (1..Len(b)) \X (1..Len(b)) : p[1] < p[2]}

\* Mutation: the first window is one short.
WindowOffByOne(b, k, i) ==
  Cardinality({j \in 1..i : k \in Bands[b[j].text]}) \div BucketWindow

\* The window of bucket k that the review at place i falls in: a bucket lists
\* its members in batch order and is cut into windows.
WindowOf(b, k, i) ==
  (Cardinality({j \in 1..i : k \in Bands[b[j].text]}) - 1) \div BucketWindow

LshCandidates(b) ==
  {p \in ExactCandidates(b) :
     \E k \in Bands[b[p[1]].text] \cap Bands[b[p[2]].text] :
        WindowOf(b, k, p[1]) = WindowOf(b, k, p[2])}

Candidates(b) == IF Exact(b) THEN ExactCandidates(b) ELSE LshCandidates(b)

Similar(b, p) ==
  \/ b[p[1]].text = b[p[2]].text
  \/ <<b[p[1]].text, b[p[2]].text>> \in Alike

-----------------------------------------------------------------------------
(* The scan.                                                               *)

Partners(i) ==
  {j \in 1..Len(batch) : <<i, j>> \in pairs \/ <<j, i>> \in pairs}

AtCap(i) == Cardinality(Partners(i)) >= MaxPartners

Flagged(i) == Partners(i) # {}

Scan(b) ==
  /\ batch' = b
  /\ rest' = Candidates(b)
  /\ pairs' = {}
  /\ truncated' = FALSE

Precedes(p, q) == p[1] < q[1] \/ (p[1] = q[1] /\ p[2] < q[2])

\* Pair p is the next one to look at.
Visit(p) ==
  /\ p \in rest
  /\ \A q \in rest \ {p} : Precedes(p, q)
  /\ rest' = rest \ {p}
  /\ UNCHANGED batch

Skip(p) ==
  /\ Visit(p)
  /\ AtCap(p[1]) \/ AtCap(p[2])
  /\ truncated' = TRUE
  /\ UNCHANGED pairs

Compare(p) ==
  /\ Visit(p)
  /\ ~ AtCap(p[1]) /\ ~ AtCap(p[2])
  /\ pairs' = IF Similar(batch, p) THEN pairs \cup {p} ELSE pairs
  /\ UNCHANGED truncated

-----------------------------------------------------------------------------
(* What the report promises.                                               *)

\* The pairs the detector is bound to look at, and finds to be near-duplicates: any
\* two similar reviews when all pairs are compared; past ExactMaxBatch, two similar
\* reviews that share a bucket small enough to be compared as a whole.
Detectable(p) ==
  /\ Similar(batch, p)
  /\ \/ Exact(batch)
     \/ \E k \in Bands[batch[p[1]].text] \cap Bands[batch[p[2]].text] :
          Cardinality({j \in 1..Len(batch) : k \in Bands[batch[j].text]}) <= BucketWindow

\* No review gets more than MaxPartners partners, and a detectable pair is missing
\* from the report only when the report says it is cut short and one of the two has
\* all the partners it may have: of two such reviews at least one is flagged, whatever
\* the order of the batch (find_duplicates).  Other pairs may be missing without a
\* word: past ExactMaxBatch two similar reviews without a common bucket, and two, even
\* with equal texts, that fall in different windows of buckets larger than one window
\* ("absence from this report is not proof of unique text").
MissedOnlyBesideFullOnes ==
  /\ \A i \in 1..Len(batch) : Cardinality(Partners(i)) <= MaxPartners
  /\ rest = {} =>
       \A p \in ExactCandidates(batch) :
         Detectable(p) /\ p \notin pairs =>
           truncated /\ (AtCap(p[1]) \/ AtCap(p[2]))
=============================================================================
