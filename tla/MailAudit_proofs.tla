--------------------------- MODULE MailAudit_proofs ---------------------------
(***************************************************************************)
(* What the run checks of an audit, proved for any domain and message, any *)
(* names, records, keys, signatures and limits: three claims about the SPF *)
(* walk, one about failing queries, the one about the verdict and the      *)
(* types; and that every step of an audit leaves less to do.               *)
(***************************************************************************)
EXTENDS MailAudit, SequenceTheorems, FiniteSetTheorems, WellFoundedInduction, TLAPS

-----------------------------------------------------------------------------
(* The walk: what holds of it in every state of an audit.                  *)

Frame == [name : Names, at : Nat]

\* Outside the walk its variables are at rest.
RestsOutside == pc \notin {"walk", "counted"} => Resting

\* Every suspended call was paid for by the term that made it.
DepthPaid ==
  /\ stack \in Seq(Frame) /\ lookups \in Nat
  /\ call = NoName => Len(stack) <= lookups + 1
  /\ call # NoName /\ stack # <<>> => Len(stack) <= lookups
  /\ cut => lookups > MAX_RECURSION_DEPTH

\* A name that was not called with costs no query yet, but the domain itself;
\* and the domain's record is at hand when the walk asks for it.
AskedBefore ==
  /\ visited \subseteq Names
  /\ asked \in [Names -> 0..1] /\ DOMAIN cache = Names
  /\ \A n \in Names \ (visited \cup {Root}) : asked[n] = 0
  /\ pc = "walk" /\ Root \notin visited => cache[Root] # Unasked

WalkInv == RestsOutside /\ DepthPaid /\ AskedBefore

LEMMA RestingInv ==
  ASSUME Resting, pc # "walk"
  PROVE  DepthPaid /\ AskedBefore
BY SpfAssumption DEF Resting, DepthPaid, AskedBefore

\* Asking the resolver: what it did not know is asked for once, and it does not
\* forget (Resolver.query).
LEMMA QueryAsks ==
  ASSUME NEW name \in Names, NEW answer, Query(name, answer),
         DOMAIN cache = Names, asked \in [Names -> 0..1],
         asked[name] = 0 \/ cache[name] # Unasked
  PROVE  /\ asked' \in [Names -> 0..1] /\ DOMAIN cache' = Names
         /\ \A n \in Names \ {name} : asked'[n] = asked[n]
         /\ \A n \in Names : cache[n] # Unasked => cache'[n] # Unasked
<1>1. CASE cache[name] # Unasked
  BY <1>1 DEF Query
<1>2. CASE cache[name] = Unasked
  <2>1. asked' = [asked EXCEPT ![name] = @ + 1] /\ asked[name] = 0
    BY <1>2 DEF Query
  <2>2. asked' \in [Names -> 0..1] /\ \A n \in Names \ {name} : asked'[n] = asked[n]
    BY <2>1
  <2>3. cache' = cache \/ cache' = [cache EXCEPT ![name] = answer]
    BY <1>2 DEF Query
  <2>4. DOMAIN cache' = Names /\ \A n \in Names \ {name} : cache'[n] = cache[n]
    BY <2>3
  <2>5. QED
    BY <1>2, <2>2, <2>4
<1>3. QED
  BY <1>1, <1>2

LEMMA ReadRecordInv ==
  ASSUME WalkInv, NEW answer, NEW expand, ReadRecord(answer, expand)
  PROVE  WalkInv'
<1>1. Resting /\ pc = "spf"
  BY DEF WalkInv, RestsOutside, ReadRecord
<1>2. /\ asked' \in [Names -> 0..1] /\ DOMAIN cache' = Names
      /\ \A n \in Names \ {Root} : asked'[n] = asked[n]
  BY <1>1, QueryAsks, SpfAssumption DEF ReadRecord, WalkInv, AskedBefore, Resting
<1>3. pc' = "walk" => cache'[Root] # Unasked
  <2>1. SUFFICES ASSUME pc' = "walk" PROVE cache'[Root] # Unasked
    OBVIOUS
  <2>2. answer.records # <<>>
    BY <2>1 DEF ReadRecord
  <2>3. answer # Failed /\ answer # Unasked
    BY <2>2 DEF Failed, Unasked
  <2>4. cache[Root] = Unasked
    BY <1>1, SpfAssumption DEF Resting
  <2>5. cache' = [cache EXCEPT ![Root] = answer]
    BY <2>3, <2>4 DEF ReadRecord, Query
  <2>6. QED
    BY <2>3, <2>5, SpfAssumption DEF WalkInv, AskedBefore
<1>4. AskedBefore'
  BY <1>1, <1>2, <1>3, SpfAssumption DEF AskedBefore, ReadRecord, Resting
<1>5. DepthPaid'
  BY <1>1, SpfAssumption DEF DepthPaid, ReadRecord, Resting
<1>6. RestsOutside'
  BY DEF RestsOutside, ReadRecord
<1>7. QED
  BY <1>4, <1>5, <1>6 DEF WalkInv

LEMMA RevisitInv ==
  ASSUME WalkInv, Revisit
  PROVE  WalkInv'
<1>1. DepthPaid'
  BY DEF WalkInv, DepthPaid, Revisit
<1>2. AskedBefore'
  BY DEF WalkInv, AskedBefore, Revisit
<1>3. RestsOutside'
  BY DEF RestsOutside, Revisit
<1>4. QED
  BY <1>1, <1>2, <1>3 DEF WalkInv

\* The call that is cut off is one of more suspended calls than the limit, all
\* of them paid for.
LEMMA TooDeepInv ==
  ASSUME WalkInv, TooDeep
  PROVE  WalkInv'
<1>1. call # NoName /\ Len(stack) > MAX_RECURSION_DEPTH /\ stack # <<>>
  BY SpfAssumption DEF TooDeep
<1>2. Len(stack) <= lookups
  BY <1>1 DEF WalkInv, DepthPaid
<1>3. DepthPaid'
  BY <1>1, <1>2, SpfAssumption DEF WalkInv, DepthPaid, TooDeep
<1>4. AskedBefore'
  BY DEF WalkInv, AskedBefore, TooDeep
<1>5. RestsOutside'
  BY DEF RestsOutside, TooDeep
<1>6. QED
  BY <1>3, <1>4, <1>5 DEF WalkInv

LEMMA FetchInv ==
  ASSUME WalkInv, NEW answer, Fetch(answer)
  PROVE  WalkInv'
<1>1. call \in Names \ visited /\ call # NoName /\ pc = "walk"
  BY SpfAssumption DEF Fetch
<1>2. asked[call] = 0 \/ cache[call] # Unasked
  BY <1>1 DEF WalkInv, AskedBefore
<1>3. /\ asked' \in [Names -> 0..1] /\ DOMAIN cache' = Names
      /\ \A n \in Names \ {call} : asked'[n] = asked[n]
      /\ \A n \in Names : cache[n] # Unasked => cache'[n] # Unasked
  BY <1>1, <1>2, QueryAsks DEF WalkInv, AskedBefore, Fetch
<1>4. AskedBefore'
  <2>1. visited' = visited \cup {call}
    BY DEF Fetch
  <2>2. Root \notin visited' => cache'[Root] # Unasked
    BY <1>1, <1>3, <2>1, SpfAssumption DEF WalkInv, AskedBefore
  <2>3. QED
    BY <1>1, <1>3, <2>1, <2>2 DEF WalkInv, AskedBefore
<1>5. DepthPaid'
  <2>1. CASE Usable(answer)
    <3>1. stack' = Append(stack, [name |-> call, at |-> 1]) /\ call' = NoName
      BY <2>1 DEF Fetch
    <3>2. stack' \in Seq(Frame) /\ Len(stack') = Len(stack) + 1
      BY <1>1, <3>1 DEF WalkInv, DepthPaid, Frame
    <3>3. Len(stack) <= lookups
      BY <1>1 DEF WalkInv, DepthPaid
    <3>4. QED
      BY <3>1, <3>2, <3>3 DEF WalkInv, DepthPaid, Fetch
  <2>2. CASE ~Usable(answer)
    BY <1>1, <2>2 DEF WalkInv, DepthPaid, Fetch
  <2>3. QED
    BY <2>1, <2>2
<1>6. RestsOutside'
  BY <1>1 DEF RestsOutside, Fetch
<1>7. QED
  BY <1>4, <1>5, <1>6 DEF WalkInv

\* A term that is followed is one that costs a lookup.
LEMMA NextTermInv ==
  ASSUME WalkInv, NextTerm
  PROVE  WalkInv'
<1> DEFINE term == Terms(Top.name)[Top.at]
<1>1. /\ call = NoName /\ stack # <<>> /\ pc' = pc /\ pc = "walk" /\ cut' = cut
      /\ lookups' = IF CostsLookup(term) THEN lookups + 1 ELSE lookups
      /\ call' = IF Follows(term) THEN term.target ELSE NoName
      /\ stack' = [stack EXCEPT ![Len(stack)].at = @ + 1]
  BY DEF NextTerm
<1>2. call' # NoName => lookups' = lookups + 1
  BY <1>1 DEF Follows, CostsLookup
<1>3. stack' \in Seq(Frame) /\ Len(stack') = Len(stack)
  <2>1. stack \in Seq(Frame) /\ Len(stack) \in 1..Len(stack)
    BY <1>1 DEF WalkInv, DepthPaid
  <2>2. stack[Len(stack)] \in Frame
    BY <2>1
  <2>3. [stack[Len(stack)] EXCEPT !.at = @ + 1] \in Frame
    BY <2>2 DEF Frame
  <2>4. stack' = [stack EXCEPT ![Len(stack)] = [stack[Len(stack)] EXCEPT !.at = @ + 1]]
    BY <1>1
  <2>5. QED
    BY <2>1, <2>3, <2>4
<1>4. lookups' \in Nat /\ lookups' >= lookups
  BY <1>1 DEF WalkInv, DepthPaid
<1>5. DepthPaid'
  BY <1>1, <1>2, <1>3, <1>4, SpfAssumption DEF WalkInv, DepthPaid
<1>6. AskedBefore'
  BY DEF WalkInv, AskedBefore, NextTerm
<1>7. RestsOutside'
  BY <1>1 DEF RestsOutside
<1>8. QED
  BY <1>5, <1>6, <1>7 DEF WalkInv

LEMMA WithoutLast ==
  ASSUME NEW S, NEW s \in Seq(S), s # <<>>
  PROVE  SubSeq(s, 1, Len(s) - 1) \in Seq(S) /\ Len(SubSeq(s, 1, Len(s) - 1)) = Len(s) - 1
<1> DEFINE n == Len(s) - 1
<1>1. n \in Nat
  OBVIOUS
<1>2. \A i \in 1..n : s[i] \in S
  OBVIOUS
<1> HIDE DEF n
<1>3. /\ SubSeq(s, 1, n) \in Seq(S)
      /\ Len(SubSeq(s, 1, n)) = IF 1 <= n THEN n - 1 + 1 ELSE 0
  BY <1>1, <1>2, SubSeqProperties
<1>4. CASE n = 0
  <2>1. ~(1 <= n)
    BY <1>4
  <2>2. QED
    BY <1>3, <1>4, <2>1 DEF n
<1>5. CASE n # 0
  <2>1. 1 <= n /\ n - 1 + 1 = n
    BY <1>1, <1>5
  <2>2. QED
    BY <1>3, <2>1 DEF n
<1>6. QED
  BY <1>4, <1>5

LEMMA ReturnInv ==
  ASSUME WalkInv, Return
  PROVE  WalkInv'
<1>1. stack' = SubSeq(stack, 1, Len(stack) - 1) /\ stack # <<>>
  BY DEF Return
<1>2. stack' \in Seq(Frame) /\ Len(stack') = Len(stack) - 1
  BY <1>1, WithoutLast DEF WalkInv, DepthPaid
<1>3. DepthPaid'
  BY <1>2 DEF WalkInv, DepthPaid, Return
<1>4. AskedBefore'
  BY DEF WalkInv, AskedBefore, Return
<1>5. RestsOutside'
  BY DEF RestsOutside, Return
<1>6. QED
  BY <1>3, <1>4, <1>5 DEF WalkInv

LEMMA WalkStepInv ==
  ASSUME WalkInv, WalkStep
  PROVE  WalkInv'
<1>1. CASE Revisit
  BY <1>1, RevisitInv
<1>2. CASE TooDeep
  BY <1>2, TooDeepInv
<1>3. CASE NextTerm
  BY <1>3, NextTermInv
<1>4. CASE Return
  BY <1>4, ReturnInv
<1>5. CASE \E answer \in Answers : Fetch(answer)
  BY <1>5, FetchInv
<1>6. QED
  BY <1>1, <1>2, <1>3, <1>4, <1>5 DEF WalkStep

\* The steps of the other checks leave the walk at rest.
Elsewhere ==
  /\ pc \notin {"walk", "counted"} /\ pc' \notin {"walk", "counted"}
  /\ UNCHANGED walkVars

LEMMA ElsewhereInv ==
  ASSUME WalkInv, Elsewhere
  PROVE  WalkInv'
<1>1. Resting' /\ pc' # "walk"
  BY DEF WalkInv, RestsOutside, Elsewhere, Resting, walkVars
<1>2. DepthPaid' /\ AskedBefore'
  BY <1>1, SpfAssumption DEF Resting, DepthPaid, AskedBefore
<1>3. QED
  BY <1>1, <1>2 DEF WalkInv, RestsOutside

LEMMA DnsStepsElsewhere ==
  ASSUME DnsSteps
  PROVE  Elsewhere
<1>1. CASE \E mx \in MxAnswers : CheckMx(mx)
  BY <1>1 DEF CheckMx, Elsewhere
<1>2. CASE \E n \in 0..MaxSelectors, named \in BOOLEAN : BeginDkim(n, named)
  BY <1>2 DEF BeginDkim, Elsewhere
<1>3. CASE pc = "keys" /\ \E answer \in KeyAnswers : CheckSelector(answer)
  BY <1>3 DEF CheckSelector, Elsewhere
<1>4. CASE EndDkim
  BY <1>4 DEF EndDkim, Elsewhere
<1>5. CASE \E answer \in DmarcAnswers : \E unauthorised \in 0..2 : CheckDmarc(answer, unauthorised)
  BY <1>5 DEF CheckDmarc, Elsewhere
<1>6. CASE \E answer \in DmarcAnswers : AskOrganization(answer)
  BY <1>6 DEF AskOrganization, FallsBack, Elsewhere
<1>7. CASE \E n \in 0..MaxAddresses : BeginAddresses(n)
  BY <1>7 DEF BeginAddresses, Elsewhere
<1>8. CASE \E kind, ptr, forward : CheckAddress(kind, ptr, forward)
  BY <1>8 DEF CheckAddress, Elsewhere
<1>9. CASE EndAddresses
  BY <1>9 DEF EndAddresses, Elsewhere
<1>10. CASE \E sts \in 0..2, tlsrpt \in 0..1, hasId \in BOOLEAN : CheckTransport(sts, hasId, tlsrpt)
  BY <1>10 DEF CheckTransport, Elsewhere
<1>11. CASE \E published, logo, vmc \in BOOLEAN, next \in {"headers", "reputation"} :
              CheckBimi(published, logo, vmc, next)
  BY <1>11 DEF CheckBimi, Elsewhere
<1>12. QED
  BY <1>1, <1>2, <1>3, <1>4, <1>5, <1>6, <1>7, <1>8, <1>9, <1>10, <1>11 DEF DnsSteps

LEMMA MessageStepsElsewhere ==
  ASSUME MessageSteps
  PROVE  Elsewhere
<1>1. CASE \E h, d, b : CheckHeaders(h, d, b)
  BY <1>1 DEF CheckHeaders, MessageStep, Elsewhere
<1>2. CASE \E f : CheckFrom(f)
  BY <1>2 DEF CheckFrom, MessageStep, Elsewhere
<1>3. CASE \E u : CheckUnsubscribe(u)
  BY <1>3 DEF CheckUnsubscribe, MessageStep, Elsewhere
<1>4. CASE \E signatures : CheckSignatures(signatures)
  BY <1>4 DEF CheckSignatures, MessageStep, Elsewhere
<1>5. CASE \E headers, arc, multipart, subtypes, mime :
             CheckReceived(headers, arc, multipart, subtypes, mime)
  BY <1>5 DEF CheckReceived, MessageStep, Elsewhere
<1>6. QED
  BY <1>1, <1>2, <1>3, <1>4, <1>5 DEF MessageSteps

LEMMA WalkInvStep ==
  ASSUME WalkInv, [Next]_vars
  PROVE  WalkInv'
<1>1. CASE \E d \in Audited \cup {<<>>}, stage \in {"mx", "headers", "reputation"} : Start(d, stage)
  <2>1. Elsewhere
    BY <1>1 DEF Start, Elsewhere
  <2>2. QED
    BY <2>1, ElsewhereInv
<1>2. CASE \E answer \in Answers, expand, long \in BOOLEAN : CheckSpf(answer, expand, long)
  BY <1>2, ReadRecordInv DEF CheckSpf
<1>3. CASE ExpandSpf
  BY <1>3, WalkStepInv DEF ExpandSpf
<1>4. CASE CountSpf
  <2>1. Resting' /\ pc' = "dkim"
    BY <1>4 DEF CountSpf, Resting
  <2>2. DepthPaid' /\ AskedBefore'
    BY <2>1, SpfAssumption DEF Resting, DepthPaid, AskedBefore
  <2>3. QED
    BY <2>1, <2>2 DEF WalkInv, RestsOutside
<1>5. CASE DnsSteps
  BY <1>5, DnsStepsElsewhere, ElsewhereInv
<1>6. CASE MessageSteps
  BY <1>6, MessageStepsElsewhere, ElsewhereInv
<1>7. CASE \E volume \in Volumes, rate \in SpamRates : CheckReputation(volume, rate)
  BY <1>7, ElsewhereInv DEF CheckReputation, Elsewhere
<1>8. CASE UNCHANGED vars
  BY <1>8 DEF vars, spfVars, walkVars, WalkInv, RestsOutside, Resting, DepthPaid, AskedBefore
<1>9. QED
  BY <1>1, <1>2, <1>3, <1>4, <1>5, <1>6, <1>7, <1>8 DEF Next, SpfSteps, Finished

LEMMA WalkInvInit == Init => WalkInv
BY RestingInv DEF Init, WalkInv, RestsOutside

\* A chain of includes that is cut off at the recursion limit is always over the
\* lookup limit as well (_count_lookups).
THEOREM CutsAreReported == Spec => []DepthCutIsReported
<1>1. WalkInv => DepthCutIsReported
  BY SpfAssumption DEF WalkInv, DepthPaid, DepthCutIsReported, TooManyLookups
<1>2. QED
  BY <1>1, WalkInvInit, WalkInvStep, PTL DEF Spec

\* A name costs at most one query, however the records refer to it
\* (Resolver.query, _count_lookups).
THEOREM NamesAskedOnce == Spec => []AskedOnce
<1>1. WalkInv => AskedOnce
  <2>1. ASSUME WalkInv, NEW n \in Names PROVE asked[n] <= 1
    <3>1. asked[n] \in 0..1
      BY <2>1 DEF WalkInv, AskedBefore
    <3>2. QED
      BY <3>1
  <2>2. QED
    BY <2>1 DEF AskedOnce
<1>2. QED
  BY <1>1, WalkInvInit, WalkInvStep, PTL DEF Spec

-----------------------------------------------------------------------------
(* The counts.  What the walk has passed is a set of pairs, a name and the  *)
(* place of a term in its record; the counters are cardinalities of it.     *)

Costly == {term \in SpfTerm : CostsLookup(term)}
Followed == {term \in SpfTerm : Follows(term)}

\* The terms of the kind T passed, of the names v called with, while the frames
\* of s are suspended and the records are those of c.
Passed(c, v, s, T) ==
  {p \in v \X (Nat \ {0}) :
     /\ Usable(c[p[1]])
     /\ p[2] \in DOMAIN c[p[1]].records[1] /\ c[p[1]].records[1][p[2]] \in T
     /\ \A k \in DOMAIN s : s[k].name = p[1] => p[2] < s[k].at}

\* A record that is read for the first time: none of its terms is passed.
LEMMA PassedFetch ==
  ASSUME NEW c, NEW d, NEW v, NEW n, n \notin v, \A m \in v : d[m] = c[m],
         NEW s \in Seq(Frame), NEW T, Usable(d[n])
  PROVE  Passed(d, v \cup {n}, Append(s, [name |-> n, at |-> 1]), T) = Passed(c, v, s, T)
<1> DEFINE frame == [name |-> n, at |-> 1]
           s2 == Append(s, frame)
<1>1. /\ DOMAIN s = 1..Len(s) /\ DOMAIN s2 = 1..(Len(s) + 1) /\ Len(s) \in Nat
      /\ \A k \in 1..Len(s) : s2[k] = s[k]
      /\ s2[Len(s) + 1] = frame
  OBVIOUS
<1>2. frame.name = n /\ frame.at = 1
  OBVIOUS
<1> HIDE DEF s2, frame
<1>3. ASSUME NEW p \in Passed(d, v \cup {n}, s2, T) PROVE p \in Passed(c, v, s, T)
  <2>1. p[1] # n
    <3>1. SUFFICES ASSUME p[1] = n PROVE FALSE
      OBVIOUS
    <3>2. p[2] < 1 /\ p[2] \in Nat \ {0}
      BY <1>1, <1>2, <3>1 DEF Passed
    <3>3. QED
      BY <3>2
  <2>2. \A k \in DOMAIN s : s[k].name = p[1] => p[2] < s[k].at
    BY <1>1 DEF Passed
  <2>3. QED
    BY <2>1, <2>2 DEF Passed
<1>4. ASSUME NEW p \in Passed(c, v, s, T) PROVE p \in Passed(d, v \cup {n}, s2, T)
  <2>1. p[1] \in v /\ p[1] # n
    BY DEF Passed
  <2>2. \A k \in DOMAIN s2 : s2[k].name = p[1] => p[2] < s2[k].at
    <3>1. TAKE k \in DOMAIN s2
    <3>2. CASE k = Len(s) + 1
      BY <1>1, <1>2, <2>1, <3>2
    <3>3. CASE k # Len(s) + 1
      <4>1. k \in 1..Len(s)
        BY <1>1, <3>3
      <4>2. QED
        BY <1>1, <4>1 DEF Passed
    <3>4. QED
      BY <3>2, <3>3
  <2>3. QED
    BY <2>1, <2>2 DEF Passed
<1>5. Passed(d, v \cup {n}, s2, T) = Passed(c, v, s, T)
  BY <1>3, <1>4
<1>6. QED
  BY <1>5 DEF s2, frame

\* A name without a usable record has no terms.
LEMMA PassedVoid ==
  ASSUME NEW c, NEW d, NEW v, NEW n, n \notin v, \A m \in v : d[m] = c[m],
         NEW s, NEW T, ~Usable(d[n])
  PROVE  Passed(d, v \cup {n}, s, T) = Passed(c, v, s, T)
BY DEF Passed

\* The innermost frame moves on by one term.
LEMMA PassedNext ==
  ASSUME NEW c, NEW v, NEW s \in Seq(Frame), NEW T, NEW t,
         t = Len(s), t > 0, s[t].name \in v, Usable(c[s[t].name]), s[t].at > 0,
         s[t].at \in DOMAIN c[s[t].name].records[1],
         \A k \in DOMAIN s : s[k].name = s[t].name => k = t
  PROVE  /\ Passed(c, v, [s EXCEPT ![t].at = @ + 1], T) = Passed(c, v, s, T) \cup
              (IF c[s[t].name].records[1][s[t].at] \in T THEN {<<s[t].name, s[t].at>>} ELSE {})
         /\ <<s[t].name, s[t].at>> \notin Passed(c, v, s, T)
<1> DEFINE n == s[t].name
           i == s[t].at
           s2 == [s EXCEPT ![t].at = @ + 1]
           new == IF c[n].records[1][i] \in T THEN {<<n, i>>} ELSE {}
<1>1. t \in DOMAIN s /\ DOMAIN s2 = DOMAIN s
  OBVIOUS
<1>2. s[t] \in Frame
  BY <1>1
<1>3. i \in Nat \ {0}
  BY <1>2 DEF Frame
<1>4. s2[t].name = n /\ s2[t].at = i + 1 /\ \A k \in DOMAIN s \ {t} : s2[k] = s[k]
  BY <1>1, <1>2 DEF Frame
<1>5. n \in v /\ Usable(c[n]) /\ i \in DOMAIN c[n].records[1]
      /\ \A k \in DOMAIN s : s[k].name = n => k = t
  OBVIOUS
<1> HIDE DEF n, i, s2
<1>6. ASSUME NEW p \in Passed(c, v, s2, T) PROVE p \in Passed(c, v, s, T) \cup new
  <2>1. p \in v \X (Nat \ {0})
    BY DEF Passed
  <2>2. CASE p[1] = n
    <3>1. p[2] < i + 1
      BY <1>1, <1>4, <2>2 DEF Passed
    <3>2. CASE p[2] = i
      <4>1. p = <<n, i>> /\ c[n].records[1][i] \in T
        BY <2>1, <2>2, <3>2 DEF Passed
      <4>2. QED
        BY <4>1
    <3>3. CASE p[2] # i
      <4>1. p[2] < i
        BY <1>3, <2>1, <3>1, <3>3
      <4>2. \A k \in DOMAIN s : s[k].name = p[1] => p[2] < s[k].at
        BY <1>5, <2>2, <4>1 DEF i
      <4>3. QED
        BY <4>2 DEF Passed
    <3>4. QED
      BY <3>2, <3>3
  <2>3. CASE p[1] # n
    <3>1. \A k \in DOMAIN s : s[k].name = p[1] => p[2] < s[k].at
      <4>1. TAKE k \in DOMAIN s
      <4>2. HAVE s[k].name = p[1]
      <4>3. k # t
        BY <2>3, <4>2 DEF n
      <4>4. s2[k] = s[k] /\ k \in DOMAIN s2
        BY <1>1, <1>4, <4>3
      <4>5. QED
        BY <4>2, <4>4 DEF Passed
    <3>2. QED
      BY <3>1 DEF Passed
  <2>4. QED
    BY <2>2, <2>3
<1>7. ASSUME NEW p \in Passed(c, v, s, T) PROVE p \in Passed(c, v, s2, T)
  <2>1. \A k \in DOMAIN s2 : s2[k].name = p[1] => p[2] < s2[k].at
    <3>1. TAKE k \in DOMAIN s2
    <3>2. HAVE s2[k].name = p[1]
    <3>3. CASE k = t
      <4>1. p[2] < i /\ p[2] \in Nat
        BY <1>1, <1>4, <3>2, <3>3 DEF Passed, n, i
      <4>2. QED
        BY <1>3, <1>4, <3>3, <4>1
    <3>4. CASE k # t
      BY <1>1, <1>4, <3>2, <3>4 DEF Passed
    <3>5. QED
      BY <3>3, <3>4
  <2>2. QED
    BY <2>1 DEF Passed
<1>8. ASSUME c[n].records[1][i] \in T PROVE <<n, i>> \in Passed(c, v, s2, T)
  <2>1. \A k \in DOMAIN s2 : s2[k].name = n => i < s2[k].at
    <3>1. TAKE k \in DOMAIN s2
    <3>2. HAVE s2[k].name = n
    <3>3. k = t
      BY <1>1, <1>4, <1>5, <3>2
    <3>4. QED
      BY <1>3, <1>4, <3>3
  <2>2. QED
    BY <1>3, <1>5, <1>8, <2>1 DEF Passed
<1>9. Passed(c, v, s2, T) = Passed(c, v, s, T) \cup new
  BY <1>6, <1>7, <1>8
<1>10. <<n, i>> \notin Passed(c, v, s, T)
  <2>1. SUFFICES ASSUME <<n, i>> \in Passed(c, v, s, T) PROVE FALSE
    OBVIOUS
  <2>2. i < s[t].at
    BY <1>1, <2>1 DEF Passed, n
  <2>3. QED
    BY <1>3, <2>2 DEF i
<1>11. QED
  BY <1>9, <1>10 DEF n, i, s2

\* A frame at the end of its record no longer holds anything back.
LEMMA PassedReturn ==
  ASSUME NEW c, NEW v, NEW s \in Seq(Frame), NEW T, NEW t, t = Len(s), t > 0,
         Usable(c[s[t].name]) => c[s[t].name].records[1] \in Seq(SpfTerm),
         s[t].at > Len(c[s[t].name].records[1])
  PROVE  Passed(c, v, SubSeq(s, 1, t - 1), T) = Passed(c, v, s, T)
<1> DEFINE s2 == SubSeq(s, 1, t - 1)
<1>1. DOMAIN s = 1..t /\ t \in Nat \ {0}
  OBVIOUS
<1>2. DOMAIN s2 = 1..(t - 1) /\ \A k \in 1..(t - 1) : s2[k] = s[k]
  <2>1. s2 \in Seq(Frame) /\ Len(s2) = t - 1
    BY WithoutLast
  <2>2. \A k \in 1..(t - 1) : s2[k] = s[k]
    OBVIOUS
  <2>3. QED
    BY <2>1, <2>2, LenProperties
<1>3. s[t] \in Frame
  BY <1>1
<1> HIDE DEF s2
<1>4. ASSUME NEW p \in Passed(c, v, s2, T) PROVE p \in Passed(c, v, s, T)
  <2>1. \A k \in DOMAIN s : s[k].name = p[1] => p[2] < s[k].at
    <3>1. TAKE k \in DOMAIN s
    <3>2. HAVE s[k].name = p[1]
    <3>3. CASE k = t
      <4> DEFINE terms == c[s[t].name].records[1]
      <4>1. terms \in Seq(SpfTerm) /\ p[2] \in DOMAIN terms
        BY <3>2, <3>3 DEF Passed
      <4>2. p[2] \in 1..Len(terms) /\ Len(terms) \in Nat
        BY <4>1, LenProperties
      <4>3. s[t].at > Len(terms) /\ s[t].at \in Nat
        BY <1>3 DEF Frame
      <4> HIDE DEF terms
      <4>4. p[2] < s[t].at
        BY <4>2, <4>3
      <4>5. QED
        BY <3>3, <4>4
    <3>4. CASE k # t
      <4>1. k \in 1..(t - 1)
        BY <1>1, <3>4
      <4>2. QED
        BY <1>2, <3>2, <4>1 DEF Passed
    <3>5. QED
      BY <3>3, <3>4
  <2>2. QED
    BY <2>1 DEF Passed
<1>5. ASSUME NEW p \in Passed(c, v, s, T) PROVE p \in Passed(c, v, s2, T)
  <2>1. \A k \in DOMAIN s2 : k \in DOMAIN s /\ s2[k] = s[k]
    BY <1>1, <1>2
  <2>2. QED
    BY <2>1 DEF Passed
<1>6. QED
  BY <1>4, <1>5 DEF s2

-----------------------------------------------------------------------------
(* What holds while the walk counts, and when it has counted.              *)

Began == pc = "walk" \/ (pc = "counted" /\ visited # {})

\* The names called with that gave no record, but the domain itself.
Unread(c, v) == {n \in v \ {Root} : ~Usable(c[n])}

\* The frames are of different names, each with a record; only the first call,
\* that of the domain, has none around it.
FramesOpen ==
  /\ \A k \in DOMAIN stack :
       stack[k].name \in visited /\ Usable(cache[stack[k].name]) /\ stack[k].at > 0
  /\ \A j, k \in DOMAIN stack : stack[j].name = stack[k].name => j = k
  /\ stack = <<>> /\ pc = "walk" => call = Root /\ visited = {}
  /\ stack # <<>> \/ pc = "counted" => Root \in visited
  /\ pc = "counted" => stack = <<>> /\ call = NoName

\* No name is called with that the records do not lead to.
Grounded ==
  \A names \in SUBSET Names : Leads(names) => visited \cup {call} \subseteq names \cup {NoName}

\* Every reference passed was followed.
Pursued ==
  \A p \in Passed(cache, visited, stack, Followed) :
    cache[p[1]].records[1][p[2]].target \in visited \cup {call}

\* Every reference passed called with a new name, or closed a loop, or is being called.
Tallied ==
  /\ IsFiniteSet(visited) /\ loops \in Nat
  /\ IsFiniteSet(Passed(cache, visited, stack, Costly))
  /\ IsFiniteSet(Passed(cache, visited, stack, Followed))
  /\ lookups = Cardinality(Passed(cache, visited, stack, Costly))
  /\ voids = Cardinality(Unread(cache, visited))
  /\ loops + Cardinality(visited) + (IF call = NoName THEN 0 ELSE 1)
       = Cardinality(Passed(cache, visited, stack, Followed)) + 1

CacheAnswers == cache \in [Names -> Answers \cup {Unasked}]
Exact == FramesOpen /\ Grounded /\ Pursued /\ Tallied
CountInv == WalkInv /\ CacheAnswers /\ (Began /\ ~cut => Exact)

\* A usable answer holds one of the records.
LEMMA UsableHolds ==
  ASSUME NEW answer \in Answers \cup {Unasked}, Usable(answer)
  PROVE  answer.records[1] \in Seq(SpfTerm)
<1>1. ASSUME NEW r PROVE Found(<<r>>).records[1] = r /\ ~Usable(Found(<<r, r>>))
  BY DEF Found, Usable
<1>2. ~Usable(Found(<<>>)) /\ ~Usable(NxDomain) /\ ~Usable(Failed) /\ ~Usable(Unasked)
  BY DEF Usable, Found, NxDomain, Failed, Unasked
<1>3. ~Usable(Several(Records))
  BY <1>1 DEF Several
<1>4. PICK r \in Records : answer = Found(<<r>>)
  BY <1>2, <1>3 DEF Answers
<1>5. QED
  BY <1>1, <1>4, AuditAssumption

\* Asking changes nothing that was read (Resolver.query).
LEMMA QueryReads ==
  ASSUME CacheAnswers, NEW name \in Names, NEW answer \in Answers, Query(name, answer)
  PROVE  /\ CacheAnswers'
         /\ \A n \in Names \ {name} : cache'[n] = cache[n]
         /\ \A n \in Names : Usable(cache[n]) => cache'[n] = cache[n]
         /\ Usable(cache'[name]) <=> Usable(answer)
<1>1. ~Usable(Failed) /\ ~Usable(Unasked)
  BY DEF Usable, Failed, Unasked
<1>2. CASE cache[name] # Unasked
  BY <1>2 DEF Query, CacheAnswers
<1>3. CASE cache[name] = Unasked /\ answer = Failed
  BY <1>1, <1>3 DEF Query, CacheAnswers
<1>4. CASE cache[name] = Unasked /\ answer # Failed
  <2>1. cache' = [cache EXCEPT ![name] = answer]
    BY <1>4 DEF Query
  <2>2. QED
    BY <1>1, <1>4, <2>1 DEF CacheAnswers
<1>5. QED
  BY <1>2, <1>3, <1>4

\* What leads on now led on before.
LEMMA LeadsBack ==
  ASSUME NEW names \in SUBSET Names, Leads(names)',
         \A n \in Names : Usable(cache[n]) => cache'[n] = cache[n]
  PROVE  Leads(names)
<1>1. ASSUME NEW n \in names, Usable(cache[n]), NEW i \in DOMAIN Terms(n), Follows(Terms(n)[i])
      PROVE  Terms(n)[i].target \in names
  <2>1. cache'[n] = cache[n]
    BY <1>1
  <2>2. QED
    BY <1>1, <2>1 DEF Leads, Terms
<1>2. Root \in names
  BY DEF Leads
<1>3. QED
  BY <1>1, <1>2 DEF Leads

LEMMA NothingPassed ==
  ASSUME NEW c, NEW s, NEW T
  PROVE  Passed(c, {}, s, T) = {} /\ Unread(c, {}) = {}
BY DEF Passed, Unread

LEMMA ReadRecordCounts ==
  ASSUME CountInv, NEW answer \in Answers, NEW expand, ReadRecord(answer, expand)
  PROVE  CountInv'
<1>1. Resting /\ pc = "spf"
  BY DEF CountInv, WalkInv, RestsOutside, ReadRecord
<1>2. WalkInv'
  BY ReadRecordInv DEF CountInv
<1>3. CacheAnswers'
  BY QueryReads, SpfAssumption DEF CountInv, ReadRecord
<1>4. /\ stack' = <<>> /\ visited' = {} /\ lookups' = 0 /\ voids' = 0 /\ loops' = 0
      /\ (pc' = "walk" /\ call' = Root) \/ pc' = "counted"
  BY <1>1 DEF ReadRecord, Resting
<1>5. ASSUME Began' PROVE Exact'
  <2>1. pc' = "walk" /\ call' = Root /\ Root # NoName
    BY <1>4, <1>5, SpfAssumption DEF Began
  <2>2. FramesOpen'
    BY <1>4, <2>1 DEF FramesOpen
  <2>3. Grounded'
    BY <1>4, <2>1 DEF Grounded, Leads
  <2>4. /\ Passed(cache', visited', stack', Costly) = {}
        /\ Passed(cache', visited', stack', Followed) = {}
        /\ Unread(cache', visited') = {}
    BY <1>4, NothingPassed
  <2>5. Pursued'
    BY <2>4 DEF Pursued
  <2>6. Tallied'
    <3>1. IsFiniteSet({}) /\ Cardinality({}) = 0
      BY FS_EmptySet
    <3>2. loops' + Cardinality(visited') + (IF call' = NoName THEN 0 ELSE 1) = 0 + 1
      BY <1>4, <2>1, <3>1
    <3>3. QED
      BY <1>4, <2>4, <3>1, <3>2 DEF Tallied
  <2>7. QED
    BY <2>2, <2>3, <2>5, <2>6 DEF Exact
<1>6. QED
  BY <1>2, <1>3, <1>5 DEF CountInv

\* A name reached again: the reference is counted as a loop.
LEMMA RevisitCounts ==
  ASSUME CountInv, Revisit
  PROVE  CountInv'
<1>1. WalkInv'
  BY RevisitInv DEF CountInv
<1>2. CacheAnswers'
  BY DEF CountInv, CacheAnswers, Revisit
<1>3. ASSUME ~cut' PROVE Exact'
  <2>1. Exact /\ pc = "walk" /\ call \in visited /\ visited \subseteq Names /\ call # NoName
    BY <1>3, SpfAssumption DEF CountInv, WalkInv, AskedBefore, Revisit, Began
  <2>2. /\ UNCHANGED <<pc, cache, stack, visited, lookups, voids>>
        /\ call' = NoName /\ loops' = loops + 1
    BY DEF Revisit
  <2>3. FramesOpen'
    BY <2>1, <2>2 DEF Exact, FramesOpen
  <2>4. Grounded'
    BY <2>1, <2>2 DEF Exact, Grounded, Leads, Terms
  <2>5. Pursued'
    BY <2>1, <2>2 DEF Exact, Pursued
  <2>6. Tallied'
    <3> DEFINE calls == Cardinality(visited)
               pairs == Cardinality(Passed(cache, visited, stack, Followed))
    <3>1. loops \in Nat /\ calls \in Nat /\ pairs \in Nat /\ loops + calls + 1 = pairs + 1
      BY <2>1, FS_CardinalityType DEF Exact, Tallied
    <3> HIDE DEF calls, pairs
    <3>2. (loops + 1) + calls + 0 = pairs + 1 /\ loops + 1 \in Nat
      BY <3>1
    <3>3. QED
      BY <2>1, <2>2, <3>2 DEF Exact, Tallied, calls, pairs
  <2>7. QED
    BY <2>3, <2>4, <2>5, <2>6 DEF Exact
<1>4. QED
  BY <1>1, <1>2, <1>3 DEF CountInv

LEMMA TooDeepCounts ==
  ASSUME CountInv, TooDeep
  PROVE  CountInv'
BY TooDeepInv DEF CountInv, CacheAnswers, TooDeep

\* A name called with for the first time is read; with a record its frame opens.
LEMMA FetchCounts ==
  ASSUME CountInv, NEW answer \in Answers, Fetch(answer)
  PROVE  CountInv'
<1>1. WalkInv'
  BY FetchInv DEF CountInv
<1>2. /\ pc = "walk" /\ call \in Names /\ call \notin visited /\ call # NoName
      /\ Query(call, answer) /\ cut' = cut
      /\ visited' = visited \cup {call} /\ call' = NoName
      /\ UNCHANGED <<lookups, loops>>
  BY SpfAssumption DEF Fetch
<1>3. /\ CacheAnswers'
      /\ \A n \in Names \ {call} : cache'[n] = cache[n]
      /\ \A n \in Names : Usable(cache[n]) => cache'[n] = cache[n]
      /\ Usable(cache'[call]) <=> Usable(answer)
  BY <1>2, QueryReads DEF CountInv
<1>4. ASSUME ~cut' PROVE Exact'
  <2>1. Exact /\ visited \subseteq Names /\ stack \in Seq(Frame)
    BY <1>2, <1>4 DEF CountInv, WalkInv, AskedBefore, DepthPaid, Began
  <2>2. \A n \in visited : cache'[n] = cache[n]
    BY <1>2, <1>3, <2>1
  <2>3. \A k \in DOMAIN stack : stack[k].name \in visited /\ stack[k].name # call
    BY <1>2, <2>1 DEF Exact, FramesOpen
  <2>4. Grounded'
    <3>1. ASSUME NEW names \in SUBSET Names, Leads(names)'
          PROVE  visited' \cup {call'} \subseteq names \cup {NoName}
      <4>1. Leads(names)
        BY <1>3, <3>1, LeadsBack
      <4>2. visited \cup {call} \subseteq names \cup {NoName}
        BY <2>1, <4>1 DEF Exact, Grounded
      <4>3. QED
        BY <1>2, <4>2
    <3>2. QED
      BY <3>1 DEF Grounded
  <2>5. ASSUME NEW T PROVE Passed(cache', visited', stack', T) = Passed(cache, visited, stack, T)
    <3>1. CASE Usable(answer)
      <4>1. stack' = Append(stack, [name |-> call, at |-> 1]) /\ Usable(cache'[call])
        BY <1>3, <3>1 DEF Fetch
      <4>2. QED
        BY <1>2, <2>1, <2>2, <4>1, PassedFetch
    <3>2. CASE ~Usable(answer)
      <4>1. stack' = stack /\ ~Usable(cache'[call])
        BY <1>3, <3>2 DEF Fetch
      <4>2. QED
        BY <1>2, <2>2, <4>1, PassedVoid
    <3>3. QED
      BY <3>1, <3>2
  <2>6. Pursued'
    <3>1. ASSUME NEW p \in Passed(cache', visited', stack', Followed)
          PROVE  cache'[p[1]].records[1][p[2]].target \in visited' \cup {call'}
      <4>1. p \in Passed(cache, visited, stack, Followed) /\ p[1] \in visited
        BY <2>5 DEF Passed
      <4>2. cache[p[1]].records[1][p[2]].target \in visited \cup {call}
        BY <2>1, <4>1 DEF Exact, Pursued
      <4>3. QED
        BY <1>2, <2>2, <4>1, <4>2
    <3>2. QED
      BY <3>1 DEF Pursued
  <2>7. /\ IsFiniteSet(visited) /\ Cardinality(visited) \in Nat
        /\ IsFiniteSet(visited') /\ Cardinality(visited') = Cardinality(visited) + 1
    BY <1>2, <2>1, FS_AddElement, FS_CardinalityType DEF Exact, Tallied
  <2>8. loops' + Cardinality(visited') + 0
          = Cardinality(Passed(cache', visited', stack', Followed)) + 1
    <3> DEFINE calls == Cardinality(visited)
               pairs == Cardinality(Passed(cache, visited, stack, Followed))
    <3>1. loops \in Nat /\ calls \in Nat /\ loops + calls + 1 = pairs + 1 /\ pairs \in Nat
      BY <1>2, <2>1, <2>7, FS_CardinalityType DEF Exact, Tallied
    <3> HIDE DEF calls, pairs
    <3>2. loops + (calls + 1) + 0 = pairs + 1
      BY <3>1
    <3>3. Cardinality(visited') = calls + 1 /\ loops' = loops
          /\ Cardinality(Passed(cache', visited', stack', Followed)) = pairs
      BY <1>2, <2>5, <2>7 DEF calls, pairs
    <3>4. QED
      BY <3>2, <3>3
  <2>9. FramesOpen' /\ voids' = Cardinality(Unread(cache', visited'))
    <3>1. CASE Usable(answer)
      <4> DEFINE frame == [name |-> call, at |-> 1]
      <4>1. stack' = Append(stack, frame) /\ Usable(cache'[call])
            /\ UNCHANGED <<pc, voids>>
        BY <1>3, <3>1 DEF Fetch
      <4>2. frame.name = call /\ frame.at = 1
        OBVIOUS
      <4> HIDE DEF frame
      <4>3. /\ Len(stack) \in Nat /\ DOMAIN stack = 1..Len(stack)
            /\ DOMAIN stack' = 1..(Len(stack) + 1)
            /\ \A k \in 1..Len(stack) : stack'[k] = stack[k]
            /\ stack'[Len(stack) + 1] = frame
            /\ stack' # <<>>
        BY <2>1, <4>1
      <4>4. ASSUME NEW k \in DOMAIN stack'
            PROVE  stack'[k].name \in visited' /\ Usable(cache'[stack'[k].name]) /\ stack'[k].at > 0
        <5>1. CASE k = Len(stack) + 1
          BY <1>2, <4>1, <4>2, <4>3, <5>1
        <5>2. CASE k # Len(stack) + 1
          <6>1. k \in DOMAIN stack /\ stack'[k] = stack[k]
            BY <4>3, <5>2
          <6>2. QED
            BY <1>2, <2>1, <2>2, <6>1 DEF Exact, FramesOpen
        <5>3. QED
          BY <5>1, <5>2
      <4>5. ASSUME NEW j \in DOMAIN stack', NEW k \in DOMAIN stack', stack'[j].name = stack'[k].name
            PROVE  j = k
        <5>1. ASSUME NEW m \in DOMAIN stack', m # Len(stack) + 1
              PROVE  m \in DOMAIN stack /\ stack'[m] = stack[m] /\ stack'[m].name # call
          BY <2>3, <4>3, <5>1
        <5>2. QED
          BY <2>1, <4>2, <4>3, <4>5, <5>1 DEF Exact, FramesOpen
      <4>6. Root \in visited'
        BY <1>2, <2>1 DEF Exact, FramesOpen
      <4>7. FramesOpen'
        BY <1>2, <4>1, <4>3, <4>4, <4>5, <4>6 DEF FramesOpen
      <4>8. Unread(cache', visited') = Unread(cache, visited)
        BY <1>2, <2>2, <4>1 DEF Unread
      <4>9. QED
        BY <2>1, <4>1, <4>7, <4>8 DEF Exact, Tallied
    <3>2. CASE ~Usable(answer) /\ stack = <<>>
      <4>1. stack' = <<>> /\ pc' = "counted" /\ voids' = voids /\ ~Usable(cache'[call])
        BY <1>3, <3>2 DEF Fetch
      <4>2. call = Root /\ visited = {}
        BY <1>2, <2>1, <3>2 DEF Exact, FramesOpen
      <4>3. Unread(cache', visited') = {} /\ Unread(cache, visited) = {}
        BY <1>2, <4>2 DEF Unread
      <4>4. FramesOpen'
        BY <1>2, <4>1, <4>2 DEF FramesOpen
      <4>5. QED
        BY <2>1, <4>1, <4>3, <4>4 DEF Exact, Tallied
    <3>3. CASE ~Usable(answer) /\ stack # <<>>
      <4>1. stack' = stack /\ pc' = pc /\ voids' = voids + 1 /\ ~Usable(cache'[call])
        BY <1>3, <3>3 DEF Fetch
      <4>2. Root \in visited /\ call # Root
        BY <1>2, <2>1, <3>3 DEF Exact, FramesOpen
      <4>3. Unread(cache', visited') = Unread(cache, visited) \cup {call}
            /\ call \notin Unread(cache, visited)
        BY <1>2, <2>2, <4>1, <4>2 DEF Unread
      <4>4. IsFiniteSet(Unread(cache, visited))
        BY <2>7, FS_Subset DEF Unread
      <4>5. voids' = Cardinality(Unread(cache', visited'))
        BY <2>1, <4>1, <4>3, <4>4, FS_AddElement DEF Exact, Tallied
      <4>6. FramesOpen'
        BY <1>2, <2>1, <2>2, <3>3, <4>1, <4>2 DEF Exact, FramesOpen
      <4>7. QED
        BY <4>5, <4>6
    <3>4. QED
      BY <3>1, <3>2, <3>3
  <2>10. Tallied'
    BY <1>2, <2>1, <2>5, <2>7, <2>8, <2>9 DEF Exact, Tallied
  <2>11. QED
    BY <2>4, <2>6, <2>9, <2>10 DEF Exact
<1>5. QED
  BY <1>1, <1>3, <1>4 DEF CountInv

\* One more term is passed; a reference is counted when its name is called with.
LEMMA NextTermCounts ==
  ASSUME CountInv, NextTerm
  PROVE  CountInv'
<1>1. WalkInv'
  BY NextTermInv DEF CountInv
<1>2. CacheAnswers' /\ UNCHANGED <<pc, cache, visited, voids, loops, cut>>
  BY DEF CountInv, CacheAnswers, NextTerm
<1>3. ASSUME ~cut' PROVE Exact'
  <2>1. pc = "walk" /\ call = NoName /\ stack # <<>>
    BY DEF NextTerm
  <2>2. Exact /\ visited \subseteq Names /\ stack \in Seq(Frame)
    BY <1>2, <1>3, <2>1 DEF CountInv, WalkInv, AskedBefore, DepthPaid, Began
  <2> DEFINE t == Len(stack)
             n == stack[t].name
             i == stack[t].at
             term == cache[n].records[1][i]
  <2>3. /\ stack' = [stack EXCEPT ![t].at = @ + 1] /\ i <= Len(cache[n].records[1])
        /\ lookups' = IF CostsLookup(term) THEN lookups + 1 ELSE lookups
        /\ call' = IF Follows(term) THEN term.target ELSE NoName
    BY DEF NextTerm, Terms, Top
  <2>4. t \in DOMAIN stack /\ t > 0 /\ DOMAIN stack = 1..t /\ t \in Nat
    BY <2>1, <2>2
  <2>5. n \in visited /\ Usable(cache[n]) /\ i > 0 /\ \A k \in DOMAIN stack : stack[k].name = n => k = t
    BY <2>2, <2>4 DEF Exact, FramesOpen
  <2>6. stack[t] \in Frame /\ i \in Nat
    <3>1. \A k \in DOMAIN stack : stack[k] \in Frame
      BY <2>2
    <3>2. stack[t] \in Frame
      BY <2>4, <3>1
    <3>3. QED
      BY <3>2 DEF Frame
  <2>7. i \in DOMAIN cache[n].records[1] /\ term \in SpfTerm
    <3>1. cache[n] \in Answers \cup {Unasked}
      BY <2>2, <2>5 DEF CountInv, CacheAnswers
    <3>2. cache[n].records[1] \in Seq(SpfTerm)
      BY <2>5, <3>1, UsableHolds
    <3>3. QED
      BY <2>3, <2>5, <2>6, <3>2
  <2>8. /\ DOMAIN stack' = DOMAIN stack /\ stack' # <<>>
        /\ \A k \in DOMAIN stack : stack'[k].name = stack[k].name /\ stack'[k].at >= stack[k].at
    <3>1. stack' \in Seq(Frame) /\ Len(stack') = t
      BY <2>2, <2>3, <2>4, <2>6 DEF Frame
    <3>2. \A k \in DOMAIN stack : stack[k] \in Frame
      BY <2>2
    <3>3. ASSUME NEW k \in DOMAIN stack
          PROVE  stack'[k].name = stack[k].name /\ stack'[k].at >= stack[k].at
      <4>1. stack[k].at \in Nat /\ stack[k] \in Frame
        BY <3>2 DEF Frame
      <4>2. CASE k = t
        <5>1. stack'[k] = [stack[k] EXCEPT !.at = @ + 1]
          BY <2>3, <4>2
        <5>2. QED
          BY <4>1, <5>1 DEF Frame
      <4>3. CASE k # t
        BY <2>3, <4>1, <4>3
      <4>4. QED
        BY <4>2, <4>3
    <3>4. QED
      BY <2>4, <3>1, <3>3
  <2>9. ASSUME NEW T
        PROVE  /\ Passed(cache', visited', stack', T)
                    = Passed(cache, visited, stack, T) \cup (IF term \in T THEN {<<n, i>>} ELSE {})
               /\ <<n, i>> \notin Passed(cache, visited, stack, T)
    <3>1. /\ Passed(cache, visited, [stack EXCEPT ![t].at = @ + 1], T)
                = Passed(cache, visited, stack, T) \cup (IF term \in T THEN {<<n, i>>} ELSE {})
          /\ <<n, i>> \notin Passed(cache, visited, stack, T)
      BY <2>2, <2>4, <2>5, <2>7, PassedNext
    <3>2. QED
      BY <1>2, <2>3, <3>1
  <2>10. FramesOpen'
    <3>1. ASSUME NEW k \in DOMAIN stack'
          PROVE  stack'[k].name \in visited' /\ Usable(cache'[stack'[k].name]) /\ stack'[k].at > 0
      <4>1. k \in DOMAIN stack /\ stack'[k].name = stack[k].name /\ stack'[k].at >= stack[k].at
        BY <2>8
      <4>2. stack[k].name \in visited /\ Usable(cache[stack[k].name]) /\ stack[k].at > 0
        BY <2>2, <4>1 DEF Exact, FramesOpen
      <4>3. stack[k] \in Frame /\ stack'[k] \in Frame
        BY <1>1, <2>2, <4>1 DEF WalkInv, DepthPaid
      <4>4. stack[k].at \in Nat /\ stack'[k].at \in Nat
        BY <4>3 DEF Frame
      <4>5. QED
        BY <1>2, <4>1, <4>2, <4>4
    <3>2. \A j, k \in DOMAIN stack' : stack'[j].name = stack'[k].name => j = k
      BY <2>2, <2>8 DEF Exact, FramesOpen
    <3>3. Root \in visited
      BY <2>1, <2>2 DEF Exact, FramesOpen
    <3>4. pc' = "walk" /\ stack' # <<>>
      BY <1>2, <2>1, <2>8
    <3>5. QED
      BY <1>2, <3>1, <3>2, <3>3, <3>4 DEF FramesOpen
  <2> HIDE DEF t, n, i, term
  <2>11. Follows(term) => term.target # NoName /\ CostsLookup(term)
    BY DEF Follows, CostsLookup
  <2>12. Grounded'
    <3>1. ASSUME NEW names \in SUBSET Names, Leads(names)
          PROVE  visited \cup {call'} \subseteq names \cup {NoName}
      <4>1. visited \subseteq names
        BY <2>2, <3>1, SpfAssumption DEF Exact, Grounded
      <4>2. Follows(term) => term.target \in names
        BY <2>5, <2>7, <3>1, <4>1 DEF Leads, Terms, term
      <4>3. QED
        BY <2>3, <4>1, <4>2
    <3>2. QED
      BY <1>2, <3>1 DEF Grounded, Leads, Terms
  <2>13. Pursued'
    <3>1. ASSUME NEW p \in Passed(cache', visited', stack', Followed)
          PROVE  cache[p[1]].records[1][p[2]].target \in visited \cup {call'}
      <4>1. CASE p \in Passed(cache, visited, stack, Followed)
        <5>1. cache[p[1]].records[1][p[2]].target \in visited \cup {NoName}
          BY <2>1, <2>2, <4>1 DEF Exact, Pursued
        <5>2. cache[p[1]].records[1][p[2]].target # NoName
          BY <4>1 DEF Passed, Followed, Follows
        <5>3. QED
          BY <5>1, <5>2
      <4>2. CASE p = <<n, i>> /\ term \in Followed
        <5>1. cache[p[1]].records[1][p[2]] = term /\ Follows(term)
          BY <4>2 DEF term, Followed
        <5>2. QED
          BY <2>3, <5>1
      <4>3. QED
        BY <2>9, <4>1, <4>2
    <3>2. QED
      BY <1>2, <3>1 DEF Pursued
  <2>14. /\ IsFiniteSet(Passed(cache', visited', stack', Costly))
         /\ lookups' = Cardinality(Passed(cache', visited', stack', Costly))
    <3> DEFINE old == Passed(cache, visited, stack, Costly)
    <3>1. IsFiniteSet(old) /\ lookups = Cardinality(old) /\ <<n, i>> \notin old
      BY <2>2, <2>9 DEF Exact, Tallied
    <3>2. Passed(cache', visited', stack', Costly)
            = IF CostsLookup(term) THEN old \cup {<<n, i>>} ELSE old
      BY <2>7, <2>9 DEF Costly
    <3> HIDE DEF old
    <3>3. QED
      BY <2>3, <3>1, <3>2, FS_AddElement
  <2>15. /\ IsFiniteSet(Passed(cache', visited', stack', Followed))
         /\ loops + Cardinality(visited) + (IF call' = NoName THEN 0 ELSE 1)
              = Cardinality(Passed(cache', visited', stack', Followed)) + 1
    <3> DEFINE old == Passed(cache, visited, stack, Followed)
               pairs == Cardinality(old)
               calls == Cardinality(visited)
    <3>1. /\ IsFiniteSet(old) /\ <<n, i>> \notin old
          /\ loops \in Nat /\ calls \in Nat /\ pairs \in Nat /\ loops + calls + 0 = pairs + 1
      BY <2>1, <2>2, <2>9, FS_CardinalityType DEF Exact, Tallied
    <3>2. Passed(cache', visited', stack', Followed)
            = IF Follows(term) THEN old \cup {<<n, i>>} ELSE old
      BY <2>7, <2>9 DEF Followed
    <3>3. Follows(term) => Cardinality(old \cup {<<n, i>>}) = pairs + 1 /\ IsFiniteSet(old \cup {<<n, i>>})
      BY <3>1, FS_AddElement
    <3>4. call' = NoName <=> ~Follows(term)
      BY <2>3, <2>11
    <3> HIDE DEF old, calls
    <3>5. IsFiniteSet(Passed(cache', visited', stack', Followed))
      BY <3>1, <3>2, <3>3
    <3>6. CASE Follows(term)
      <4>1. Cardinality(Passed(cache', visited', stack', Followed)) = pairs + 1
        BY <3>2, <3>3, <3>6
      <4> HIDE DEF pairs
      <4>2. loops + calls + 1 = pairs + 1 + 1
        BY <3>1
      <4>3. QED
        BY <3>4, <3>5, <3>6, <4>1, <4>2 DEF calls
    <3>7. CASE ~Follows(term)
      BY <3>1, <3>2, <3>4, <3>5, <3>7 DEF calls
    <3>8. QED
      BY <3>6, <3>7
  <2>16. Tallied'
    BY <1>2, <2>2, <2>14, <2>15 DEF Exact, Tallied
  <2>17. QED
    BY <2>10, <2>12, <2>13, <2>16 DEF Exact
<1>4. QED
  BY <1>1, <1>2, <1>3 DEF CountInv

\* A record that is done: its frame closes, and with the last one the walk ends.
LEMMA ReturnCounts ==
  ASSUME CountInv, Return
  PROVE  CountInv'
<1>1. WalkInv'
  BY ReturnInv DEF CountInv
<1>2. CacheAnswers' /\ UNCHANGED <<cache, visited, call, lookups, voids, loops, cut>>
  BY DEF CountInv, CacheAnswers, Return
<1>3. ASSUME ~cut' PROVE Exact'
  <2> DEFINE t == Len(stack)
  <2>1. /\ pc = "walk" /\ call = NoName /\ stack # <<>>
        /\ stack' = SubSeq(stack, 1, t - 1) /\ pc' = (IF t = 1 THEN "counted" ELSE pc)
        /\ stack[t].at > Len(cache[stack[t].name].records[1])
    BY DEF Return, Top, Terms
  <2>2. Exact /\ visited \subseteq Names /\ stack \in Seq(Frame)
    BY <1>2, <1>3, <2>1 DEF CountInv, WalkInv, AskedBefore, DepthPaid, Began
  <2>3. t \in DOMAIN stack /\ t > 0 /\ DOMAIN stack = 1..t /\ t \in Nat
    BY <2>1, <2>2
  <2>4. Usable(cache[stack[t].name]) /\ stack[t].name \in visited /\ Root \in visited
    BY <2>1, <2>2, <2>3 DEF Exact, FramesOpen
  <2>5. cache[stack[t].name].records[1] \in Seq(SpfTerm)
    <3>1. cache[stack[t].name] \in Answers \cup {Unasked}
      BY <2>2, <2>4 DEF CountInv, CacheAnswers
    <3>2. QED
      BY <2>4, <3>1, UsableHolds
  <2>6. ASSUME NEW T PROVE Passed(cache', visited', stack', T) = Passed(cache, visited, stack, T)
    BY <1>2, <2>1, <2>2, <2>3, <2>5, PassedReturn
  <2>7. /\ DOMAIN stack' = 1..(t - 1) /\ \A k \in 1..(t - 1) : stack'[k] = stack[k] /\ k \in DOMAIN stack
        /\ stack' = <<>> <=> t = 1
    <3>1. stack' \in Seq(Frame) /\ Len(stack') = t - 1
      BY <2>1, <2>2, WithoutLast
    <3>2. \A k \in 1..(t - 1) : stack'[k] = stack[k] /\ k \in DOMAIN stack
      BY <2>1, <2>2, <2>3
    <3>3. QED
      BY <2>3, <3>1, <3>2, LenProperties
  <2> HIDE DEF t
  <2>8. FramesOpen'
    <3>1. \A k \in DOMAIN stack' : k \in DOMAIN stack /\ stack'[k] = stack[k]
      BY <2>7
    <3>2. \A k \in DOMAIN stack' :
            stack'[k].name \in visited' /\ Usable(cache'[stack'[k].name]) /\ stack'[k].at > 0
      BY <1>2, <2>2, <3>1 DEF Exact, FramesOpen
    <3>3. \A j, k \in DOMAIN stack' : stack'[j].name = stack'[k].name => j = k
      BY <2>2, <3>1 DEF Exact, FramesOpen
    <3>4. pc' = "walk" => stack' # <<>>
      BY <2>1, <2>7
    <3>5. pc' = "counted" => stack' = <<>> /\ call' = NoName
      BY <1>2, <2>1, <2>7
    <3>6. QED
      BY <1>2, <2>4, <3>2, <3>3, <3>4, <3>5 DEF FramesOpen
  <2>9. Grounded'
    BY <1>2, <2>2 DEF Exact, Grounded, Leads, Terms
  <2>10. Pursued'
    BY <1>2, <2>2, <2>6 DEF Exact, Pursued
  <2>11. Tallied'
    BY <1>2, <2>2, <2>6 DEF Exact, Tallied
  <2>12. QED
    BY <2>8, <2>9, <2>10, <2>11 DEF Exact
<1>4. QED
  BY <1>1, <1>2, <1>3 DEF CountInv

-----------------------------------------------------------------------------
(* From the counters to the sums over the names reached.                   *)

\* The pairs of F whose name is one of S.
Of(F, S) == {p \in F : p[1] \in S}

LEMMA OfOneMore ==
  ASSUME NEW F, IsFiniteSet(F), NEW S, NEW x \in S
  PROVE  Cardinality(Of(F, S)) = Cardinality(Of(F, {x})) + Cardinality(Of(F, S \ {x}))
<1> DEFINE here == Of(F, {x})
           elsewhere == Of(F, S \ {x})
<1>1. IsFiniteSet(here) /\ IsFiniteSet(elsewhere)
  BY FS_Subset DEF Of
<1>2. Of(F, S) = here \cup elsewhere /\ here \cap elsewhere = {}
  BY DEF Of
<1> HIDE DEF here, elsewhere
<1>3. Cardinality(here) \in Nat /\ Cardinality(elsewhere) \in Nat
  BY <1>1, FS_CardinalityType
<1>4. Cardinality(here \cup elsewhere)
        = Cardinality(here) + Cardinality(elsewhere) - Cardinality(here \cap elsewhere)
  BY <1>1, FS_Union
<1>5. Cardinality(here \cap elsewhere) = 0
  BY <1>2, FS_EmptySet
<1>6. Cardinality(Of(F, S)) = Cardinality(here) + Cardinality(elsewhere)
  BY <1>2, <1>3, <1>4, <1>5
<1>7. QED
  BY <1>6 DEF here, elsewhere

\* A sum over names of what each has in F, one name after the other in any order,
\* is the number of pairs.
LEMMA FoldCounts ==
  ASSUME NEW S, IsFiniteSet(S), NEW F, IsFiniteSet(F), NEW one, NEW iter,
         \A s \in SUBSET S : s # {} => one[s] \in s,
         \A s \in SUBSET S : iter[s] = IF s = {} THEN 0
                                       ELSE Cardinality(Of(F, {one[s]})) + iter[s \ {one[s]}]
  PROVE  iter[S] = Cardinality(Of(F, S))
<1>1. ASSUME NEW wrong, wrong = {s \in SUBSET S : iter[s] # Cardinality(Of(F, s))}, wrong # {}
      PROVE  FALSE
  <2>1. wrong \subseteq FiniteSubsetsOf(S)
    BY <1>1, FS_Subset DEF FiniteSubsetsOf
  <2>2. PICK s \in wrong : \A t \in wrong : ~(<<t, s>> \in StrictSubsetOrdering(S))
    BY <1>1, <2>1, FS_StrictSubsetOrderingWellFounded, WFMin
  <2>3. s \in SUBSET S /\ iter[s] # Cardinality(Of(F, s))
    BY <1>1
  <2>4. s # {}
    <3>1. Of(F, {}) = {} /\ Cardinality({}) = 0
      BY FS_EmptySet DEF Of
    <3>2. QED
      BY <2>3, <3>1
  <2>5. one[s] \in s
    BY <2>3, <2>4
  <2>6. <<s \ {one[s]}, s>> \in StrictSubsetOrdering(S)
    BY <2>3, <2>5 DEF StrictSubsetOrdering
  <2>7. iter[s \ {one[s]}] = Cardinality(Of(F, s \ {one[s]}))
    BY <1>1, <2>2, <2>3, <2>6
  <2>8. Cardinality(Of(F, s)) = Cardinality(Of(F, {one[s]})) + Cardinality(Of(F, s \ {one[s]}))
    BY <2>5, OfOneMore
  <2>9. iter[s] = Cardinality(Of(F, {one[s]})) + iter[s \ {one[s]}]
    BY <2>3, <2>4
  <2>10. QED
    BY <2>3, <2>7, <2>8, <2>9
<1>2. QED
  <2> DEFINE wrong == {s \in SUBSET S : iter[s] # Cardinality(Of(F, s))}
  <2>1. wrong = {}
    BY <1>1
  <2>2. QED
    BY <2>1

LEMMA CostsSum ==
  ASSUME NEW S, IsFiniteSet(S), NEW F, IsFiniteSet(F),
         \A n \in S : Costs(n) = Cardinality(Of(F, {n}))
  PROVE  MapThenSumSet(Costs, S) = Cardinality(Of(F, S))
<1> DEFINE one(s) == CHOOSE x \in s : TRUE
           body(g) == [s \in SUBSET S |-> IF s = {} THEN 0 ELSE Costs(one(s)) + g[s \ {one(s)}]]
           iter == CHOOSE g : g = body(g)
           sum == [s \in SUBSET S |-> Cardinality(Of(F, s))]
           ones == [s \in SUBSET S |-> one(s)]
<1>1. MapThenSumSet(Costs, S) = iter[S]
  BY DEF MapThenSumSet, MapThenFoldSet
<1>2. \A s : s # {} => one(s) \in s
  OBVIOUS
<1> HIDE DEF one
<1>3. sum = body(sum)
  <2>1. ASSUME NEW s \in SUBSET S
        PROVE  sum[s] = IF s = {} THEN 0 ELSE Costs(one(s)) + sum[s \ {one(s)}]
    <3>1. CASE s = {}
      <4>1. Of(F, {}) = {} /\ Cardinality({}) = 0
        BY FS_EmptySet DEF Of
      <4>2. QED
        BY <3>1, <4>1
    <3>2. CASE s # {}
      <4>1. one(s) \in s /\ s \ {one(s)} \in SUBSET S
        BY <1>2, <3>2
      <4>2. Cardinality(Of(F, s)) = Cardinality(Of(F, {one(s)})) + Cardinality(Of(F, s \ {one(s)}))
        BY <4>1, OfOneMore
      <4>3. Costs(one(s)) = Cardinality(Of(F, {one(s)}))
        BY <4>1
      <4>4. QED
        BY <3>2, <4>1, <4>2, <4>3
    <3>3. QED
      BY <3>1, <3>2
  <2> HIDE DEF sum
  <2>2. sum = [s \in SUBSET S |-> sum[s]]
    BY DEF sum
  <2>3. QED
    BY <2>1, <2>2
<1>4. iter = body(iter)
  <2> HIDE DEF sum, body
  <2>1. \E g : g = body(g)
    BY <1>3
  <2>2. QED
    BY <2>1
<1> HIDE DEF iter, sum
<1>5. \A s \in SUBSET S : iter[s] = IF s = {} THEN 0 ELSE Costs(one(s)) + iter[s \ {one(s)}]
  BY <1>4
<1>6. \A s \in SUBSET S : ones[s] = one(s) /\ (s # {} => ones[s] \in s /\ ones[s] \in S)
  BY <1>2
<1> HIDE DEF ones, body
<1>7. \A s \in SUBSET S : iter[s] = IF s = {} THEN 0
                                    ELSE Cardinality(Of(F, {ones[s]})) + iter[s \ {ones[s]}]
  BY <1>5, <1>6
<1>8. iter[S] = Cardinality(Of(F, S))
  BY <1>6, <1>7, FoldCounts
<1>9. QED
  BY <1>1, <1>8

LEMMA ReferencesSum ==
  ASSUME NEW S, IsFiniteSet(S), NEW F, IsFiniteSet(F),
         \A n \in S : References(n) = Cardinality(Of(F, {n}))
  PROVE  MapThenSumSet(References, S) = Cardinality(Of(F, S))
<1> DEFINE one(s) == CHOOSE x \in s : TRUE
           body(g) == [s \in SUBSET S |-> IF s = {} THEN 0 ELSE References(one(s)) + g[s \ {one(s)}]]
           iter == CHOOSE g : g = body(g)
           sum == [s \in SUBSET S |-> Cardinality(Of(F, s))]
           ones == [s \in SUBSET S |-> one(s)]
<1>1. MapThenSumSet(References, S) = iter[S]
  BY DEF MapThenSumSet, MapThenFoldSet
<1>2. \A s : s # {} => one(s) \in s
  OBVIOUS
<1> HIDE DEF one
<1>3. sum = body(sum)
  <2>1. ASSUME NEW s \in SUBSET S
        PROVE  sum[s] = IF s = {} THEN 0 ELSE References(one(s)) + sum[s \ {one(s)}]
    <3>1. CASE s = {}
      <4>1. Of(F, {}) = {} /\ Cardinality({}) = 0
        BY FS_EmptySet DEF Of
      <4>2. QED
        BY <3>1, <4>1
    <3>2. CASE s # {}
      <4>1. one(s) \in s /\ s \ {one(s)} \in SUBSET S
        BY <1>2, <3>2
      <4>2. Cardinality(Of(F, s)) = Cardinality(Of(F, {one(s)})) + Cardinality(Of(F, s \ {one(s)}))
        BY <4>1, OfOneMore
      <4>3. References(one(s)) = Cardinality(Of(F, {one(s)}))
        BY <4>1
      <4>4. QED
        BY <3>2, <4>1, <4>2, <4>3
    <3>3. QED
      BY <3>1, <3>2
  <2> HIDE DEF sum
  <2>2. sum = [s \in SUBSET S |-> sum[s]]
    BY DEF sum
  <2>3. QED
    BY <2>1, <2>2
<1>4. iter = body(iter)
  <2> HIDE DEF sum, body
  <2>1. \E g : g = body(g)
    BY <1>3
  <2>2. QED
    BY <2>1
<1> HIDE DEF iter, sum
<1>5. \A s \in SUBSET S : iter[s] = IF s = {} THEN 0 ELSE References(one(s)) + iter[s \ {one(s)}]
  BY <1>4
<1>6. \A s \in SUBSET S : ones[s] = one(s) /\ (s # {} => ones[s] \in s /\ ones[s] \in S)
  BY <1>2
<1> HIDE DEF ones, body
<1>7. \A s \in SUBSET S : iter[s] = IF s = {} THEN 0
                                    ELSE Cardinality(Of(F, {ones[s]})) + iter[s \ {ones[s]}]
  BY <1>5, <1>6
<1>8. iter[S] = Cardinality(Of(F, S))
  BY <1>6, <1>7, FoldCounts
<1>9. QED
  BY <1>1, <1>8

\* What one name has among the pairs passed, when nothing is held back.
LEMMA OneName ==
  ASSUME NEW c, NEW v, NEW T, NEW n \in v, Usable(c[n]), c[n].records[1] \in Seq(SpfTerm),
         IsFiniteSet(Passed(c, v, <<>>, T))
  PROVE  Cardinality({i \in DOMAIN c[n].records[1] : c[n].records[1][i] \in T})
           = Cardinality(Of(Passed(c, v, <<>>, T), {n}))
<1> DEFINE places == {i \in DOMAIN c[n].records[1] : c[n].records[1][i] \in T}
           pairs == Of(Passed(c, v, <<>>, T), {n})
           place == [p \in pairs |-> p[2]]
<1>1. IsFiniteSet(pairs)
  BY FS_Subset DEF Of
<1>2. \A p \in pairs : p = <<n, p[2]>> /\ p[2] \in places
  BY DEF Of, Passed
<1>3. ASSUME NEW i \in places PROVE <<n, i>> \in pairs
  <2>1. i \in Nat \ {0}
    BY LenProperties
  <2>2. DOMAIN <<>> = {}
    OBVIOUS
  <2>3. QED
    BY <2>1, <2>2 DEF Of, Passed
<1> HIDE DEF pairs, places
<1>4. place \in Bijection(pairs, places)
  <2>1. place \in [pairs -> places]
    BY <1>2
  <2>2. \A p, q \in pairs : place[p] = place[q] => p = q
    BY <1>2
  <2>3. \A i \in places : \E p \in pairs : place[p] = i
    BY <1>3
  <2>4. QED
    BY <2>1, <2>2, <2>3 DEF Bijection, Injection, Surjection, IsInjective
<1>5. ExistsBijection(pairs, places)
  BY <1>4 DEF ExistsBijection
<1>6. Cardinality(places) = Cardinality(pairs)
  BY <1>1, <1>5, FS_Bijection
<1>7. QED
  BY <1>6 DEF pairs, places

\* A set that leads on, and that every such set holds, is the one reached.
LEMMA ReachableIs ==
  ASSUME NEW v \in SUBSET Names, Leads(v),
         \A names \in SUBSET Names : Leads(names) => v \subseteq names
  PROVE  Reachable = v
<1> DEFINE Least(names) == Leads(names) /\ \A other \in SUBSET Names : Leads(other) => names \subseteq other
<1>1. Least(v)
  OBVIOUS
<1>2. Reachable \in SUBSET Names /\ Least(Reachable)
  <2>1. Reachable = CHOOSE names \in SUBSET Names : Least(names)
    BY DEF Reachable
  <2> HIDE DEF Least
  <2>2. QED
    BY <1>1, <2>1
<1>3. Leads(Reachable) /\ Reachable \subseteq v /\ v \subseteq Reachable
  BY <1>2
<1>4. QED
  BY <1>3

LEMMA CountInvInit == Init => CountInv
BY WalkInvInit, SpfAssumption DEF Init, CountInv, CacheAnswers, Began, Resting

LEMMA CountInvStep ==
  ASSUME CountInv, [Next]_vars
  PROVE  CountInv'
<1>1. ASSUME Elsewhere PROVE CountInv'
  BY <1>1, ElsewhereInv DEF CountInv, Elsewhere, CacheAnswers, Began, walkVars
<1>2. CASE \E d \in Audited \cup {<<>>}, stage \in {"mx", "headers", "reputation"} : Start(d, stage)
  BY <1>1, <1>2 DEF Start, Elsewhere
<1>3. CASE \E answer \in Answers, expand, long \in BOOLEAN : CheckSpf(answer, expand, long)
  BY <1>3, ReadRecordCounts DEF CheckSpf
<1>4. CASE ExpandSpf
  BY <1>4, RevisitCounts, TooDeepCounts, FetchCounts, NextTermCounts, ReturnCounts
     DEF ExpandSpf, WalkStep
<1>5. CASE CountSpf
  <2>1. pc' = "dkim" /\ cache' = [n \in Names |-> Unasked]
    BY <1>5 DEF CountSpf
  <2>2. WalkInv'
    BY WalkInvStep DEF CountInv
  <2>3. QED
    BY <2>1, <2>2 DEF CountInv, CacheAnswers, Began
<1>6. CASE DnsSteps
  BY <1>1, <1>6, DnsStepsElsewhere
<1>7. CASE MessageSteps
  BY <1>1, <1>7, MessageStepsElsewhere
<1>8. CASE \E volume \in Volumes, rate \in SpamRates : CheckReputation(volume, rate)
  BY <1>1, <1>8 DEF CheckReputation, Elsewhere
<1>9. CASE UNCHANGED vars
  <2>1. UNCHANGED <<pc, cache, call, stack, visited, lookups, voids, loops, cut>>
    BY <1>9 DEF vars, spfVars, walkVars
  <2>2. WalkInv'
    BY WalkInvStep DEF CountInv
  <2>3. CacheAnswers' /\ (Began' /\ ~cut' => Began /\ ~cut)
    BY <2>1 DEF CountInv, CacheAnswers, Began
  <2>4. Exact => Exact'
    BY <2>1 DEF Exact, FramesOpen, Grounded, Leads, Terms, Pursued, Tallied
  <2>5. QED
    BY <2>2, <2>3, <2>4 DEF CountInv
<1>10. QED
  BY <1>2, <1>3, <1>4, <1>5, <1>6, <1>7, <1>8, <1>9 DEF Next, SpfSteps, Finished

LEMMA CountedExactly ==
  ASSUME CountInv, pc = "counted", visited # {}, ~cut
  PROVE  LookupsAreExact
<1>1. /\ Exact /\ stack = <<>> /\ call = NoName /\ Root \in visited
      /\ visited \in SUBSET Names /\ CacheAnswers
  BY DEF CountInv, Began, Exact, FramesOpen, WalkInv, AskedBefore
<1>2. ASSUME NEW n \in visited, Usable(cache[n])
      PROVE  cache[n].records[1] \in Seq(SpfTerm)
  <2>1. cache[n] \in Answers \cup {Unasked}
    BY <1>1 DEF CacheAnswers
  <2>2. QED
    BY <1>2, <2>1, UsableHolds
<1>3. Leads(visited)
  <2>1. ASSUME NEW n \in visited, Usable(cache[n]), NEW i \in DOMAIN Terms(n), Follows(Terms(n)[i])
        PROVE  Terms(n)[i].target \in visited
    <3>1. Terms(n) \in Seq(SpfTerm) /\ i \in Nat \ {0} /\ Terms(n)[i] \in Followed
      <4>1. Terms(n) \in Seq(SpfTerm)
        BY <1>2, <2>1 DEF Terms
      <4>2. i \in 1..Len(Terms(n)) /\ Terms(n)[i] \in SpfTerm
        BY <2>1, <4>1, LenProperties
      <4>3. QED
        BY <2>1, <4>1, <4>2 DEF Followed
    <3>2. <<n, i>> \in Passed(cache, visited, stack, Followed)
      BY <1>1, <2>1, <3>1 DEF Passed, Terms
    <3>3. Terms(n)[i].target \in visited \cup {call}
      BY <1>1, <3>2 DEF Exact, Pursued, Terms
    <3>4. QED
      BY <1>1, <2>1, <3>3 DEF Follows
  <2>2. QED
    BY <1>1, <2>1 DEF Leads
<1>4. Reachable = visited
  <2>1. \A names \in SUBSET Names : Leads(names) => visited \subseteq names
    BY <1>1, SpfAssumption DEF Exact, Grounded
  <2>2. QED
    BY <1>1, <1>3, <2>1, ReachableIs
<1> DEFINE usable == {n \in visited : Usable(cache[n])}
           costly == Passed(cache, visited, <<>>, Costly)
           followed == Passed(cache, visited, <<>>, Followed)
<1>5. /\ IsFiniteSet(costly) /\ IsFiniteSet(followed) /\ IsFiniteSet(visited)
      /\ lookups = Cardinality(costly)
      /\ voids = Cardinality(Unread(cache, visited))
      /\ loops + Cardinality(visited) + 0 = Cardinality(followed) + 1
      /\ loops \in Nat
  BY <1>1 DEF Exact, Tallied
<1>6. IsFiniteSet(usable)
  BY <1>5, FS_Subset
<1>7. Of(costly, usable) = costly /\ Of(followed, usable) = followed
  BY DEF Of, Passed
<1>8. ASSUME NEW n \in usable
      PROVE  Costs(n) = Cardinality(Of(costly, {n})) /\ References(n) = Cardinality(Of(followed, {n}))
  <2>1. n \in visited /\ Usable(cache[n]) /\ cache[n].records[1] \in Seq(SpfTerm)
    BY <1>2, <1>8
  <2>2. \A i \in DOMAIN cache[n].records[1] : cache[n].records[1][i] \in SpfTerm
    BY <2>1
  <2>3. /\ {i \in DOMAIN Terms(n) : CostsLookup(Terms(n)[i])}
             = {i \in DOMAIN cache[n].records[1] : cache[n].records[1][i] \in Costly}
        /\ {i \in DOMAIN Terms(n) : Follows(Terms(n)[i])}
             = {i \in DOMAIN cache[n].records[1] : cache[n].records[1][i] \in Followed}
    BY <2>2 DEF Terms, Costly, Followed
  <2>4. /\ Cardinality({i \in DOMAIN cache[n].records[1] : cache[n].records[1][i] \in Costly})
             = Cardinality(Of(costly, {n}))
        /\ Cardinality({i \in DOMAIN cache[n].records[1] : cache[n].records[1][i] \in Followed})
             = Cardinality(Of(followed, {n}))
    BY <1>5, <2>1, OneName
  <2>5. QED
    BY <2>3, <2>4 DEF Costs, References
<1> HIDE DEF costly, followed
<1>9. MapThenSumSet(Costs, usable) = Cardinality(costly)
  BY <1>5, <1>6, <1>7, <1>8, CostsSum
<1>10. MapThenSumSet(References, usable) = Cardinality(followed)
  BY <1>5, <1>6, <1>7, <1>8, ReferencesSum
<1>11. visited \ (usable \cup {Root}) = Unread(cache, visited)
  BY DEF Unread
<1>12. loops + Cardinality(visited) = Cardinality(followed) + 1
  <2>1. Cardinality(visited) \in Nat
    BY <1>5, FS_CardinalityType
  <2>2. QED
    BY <1>5, <2>1
<1>13. QED
  BY <1>4, <1>5, <1>9, <1>10, <1>11, <1>12 DEF LookupsAreExact

\* Unless the walk was cut off, the lookups, the void lookups and the loops are
\* those of the whole graph of records, in whatever order it was walked
\* (check_spf, _count_lookups).
THEOREM CountsAreExact == Spec => []LookupsAreExact
<1>1. CountInv => LookupsAreExact
  BY CountedExactly DEF LookupsAreExact
<1>2. QED
  BY <1>1, CountInvInit, CountInvStep, PTL DEF Spec

-----------------------------------------------------------------------------
(* Failing queries.                                                        *)

\* All that is reported of a query that failed, or of its address: no blocker.
Codes == {"SPF_LOOKUP_FAILED", "DMARC_LOOKUP_FAILED", "IP_INVALID", "IP_NOT_PUBLIC"}
MildFinding == [code : Codes, severity : {"warning", "critical"}]
Mild == SUBSET MildFinding

LEMMA MildHasNoBlocker ==
  ASSUME NEW findings \in Mild
  PROVE  ~\E f \in findings : f.severity = "blocker"
BY DEF Mild, MildFinding

LEMMA FindingMild ==
  ASSUME NEW code \in Codes, NEW severity \in {"warning", "critical"}
  PROVE  Finding(code, severity) \in Mild
BY DEF Finding, Mild, MildFinding

LEMMA FindingIfMild ==
  ASSUME NEW condition, NEW code \in Codes, NEW severity \in {"warning", "critical"}
  PROVE  FindingIf(condition, code, severity) \in Mild
BY FindingMild DEF FindingIf, Mild

LEMMA UnionMild ==
  ASSUME NEW f \in Mild, NEW g \in Mild
  PROVE  f \cup g \in Mild
BY DEF Mild

\* The tables give no blocker on an answer that is a failure (check_mx,
\* check_spf, check_sending_ips).
LEMMA FailedMx == MxFindings("failed") \in Mild
BY DEF MxFindings, FindingIf, Mild

LEMMA FailedSpf ==
  ASSUME NEW long
  PROVE  SpfRecordFindings(Failed, long) \in Mild
<1>1. Failed.kind = "failed"
  BY DEF Failed
<1>2. SpfRecordFindings(Failed, long) = Finding("SPF_LOOKUP_FAILED", "critical")
  BY <1>1 DEF SpfRecordFindings
<1>3. Finding("SPF_LOOKUP_FAILED", "critical") \in Mild
  BY FindingMild DEF Codes
<1>4. QED
  BY <1>2, <1>3

LEMMA FailedPtr ==
  ASSUME NEW kind, NEW forward
  PROVE  AddressFindings(kind, "failed", forward) \in Mild
<1>1. /\ FindingIf(kind = "invalid", "IP_INVALID", "warning") \in Mild
      /\ FindingIf(kind \in {"local", "private"}, "IP_NOT_PUBLIC", "warning") \in Mild
  BY FindingIfMild DEF Codes
<1>2. {} \in Mild
  BY DEF Mild
<1>3. QED
  BY <1>1, <1>2, UnionMild DEF AddressFindings

\* A query of DMARC that failed is not followed by another: the organization is
\* asked only after a definitive answer, so failed stays false.
NothingMisread == misread = FALSE /\ failed = FALSE

\* What Conclude remembers of findings that are mild, or rest on no failure.
LEMMA ConcludeMild ==
  ASSUME NEW findings, NEW meets, NEW unread, Conclude(findings, meets, unread),
         misread = FALSE, ~unread \/ findings \in Mild
  PROVE  misread' = FALSE
BY MildHasNoBlocker DEF Conclude

LEMMA SpfStepsMisread ==
  ASSUME NothingMisread, SpfSteps
  PROVE  NothingMisread'
<1>1. CASE \E answer \in Answers, expand, long \in BOOLEAN : CheckSpf(answer, expand, long)
  <2>1. PICK answer \in Answers, expand \in BOOLEAN, long \in BOOLEAN :
          CheckSpf(answer, expand, long)
    BY <1>1
  <2>2. Conclude(SpfRecordFindings(answer, long), SpfRecordMeets(answer), answer = Failed)
        /\ failed' = failed
    BY <2>1 DEF CheckSpf, localVars
  <2>3. answer # Failed \/ SpfRecordFindings(answer, long) \in Mild
    BY FailedSpf
  <2>4. QED
    BY <2>2, <2>3, ConcludeMild DEF NothingMisread
<1>2. CASE ExpandSpf
  BY <1>2 DEF ExpandSpf, auditVars, localVars, NothingMisread
<1>3. CASE CountSpf
  <2>1. failed' = failed /\ (UNCHANGED misread \/ \E f, meets : Conclude(f, meets, FALSE))
    BY <1>3 DEF CountSpf, localVars
  <2>2. QED
    BY <2>1, ConcludeMild DEF NothingMisread
<1>4. QED
  BY <1>1, <1>2, <1>3 DEF SpfSteps

LEMMA DmarcMisread ==
  ASSUME NothingMisread, NEW answer, NEW unauthorised, CheckDmarc(answer, unauthorised)
  PROVE  NothingMisread'
<1> DEFINE findings == IF answer = Failed THEN Finding("DMARC_LOOKUP_FAILED", "critical")
                       ELSE IF answer.records = <<>> THEN Finding("DMARC_MISSING", "blocker")
                       ELSE DmarcFindings(answer.records, pc = "inherit", unauthorised)
<1>1. Conclude(findings, DmarcMeets(answer), failed \/ answer = Failed) /\ failed' = FALSE
  BY DEF CheckDmarc
<1>2. answer = Failed => findings \in Mild
  BY FindingMild DEF Codes
<1> HIDE DEF findings
<1>3. QED
  BY <1>1, <1>2, ConcludeMild DEF NothingMisread

LEMMA DnsStepsMisread ==
  ASSUME NothingMisread, DnsSteps
  PROVE  NothingMisread'
<1>1. CASE \E mx \in MxAnswers : CheckMx(mx)
  BY <1>1, FailedMx, ConcludeMild DEF CheckMx, localVars, NothingMisread
<1>2. CASE \E n \in 0..MaxSelectors, named \in BOOLEAN : BeginDkim(n, named)
  BY <1>2 DEF BeginDkim, NothingMisread
<1>3. CASE pc = "keys" /\ \E answer \in KeyAnswers : CheckSelector(answer)
  <2>1. failed' = failed /\ (UNCHANGED misread \/ \E f, meets : Conclude(f, meets, FALSE))
    BY <1>3 DEF CheckSelector
  <2>2. QED
    BY <2>1, ConcludeMild DEF NothingMisread
<1>4. CASE EndDkim
  BY <1>4, ConcludeMild DEF EndDkim, NothingMisread
<1>5. CASE \E answer \in DmarcAnswers : \E unauthorised \in 0..2 : CheckDmarc(answer, unauthorised)
  BY <1>5, DmarcMisread
<1>6. CASE \E answer \in DmarcAnswers : AskOrganization(answer)
  BY <1>6 DEF AskOrganization, FallsBack, NothingMisread
<1>7. CASE \E n \in 0..MaxAddresses : BeginAddresses(n)
  BY <1>7 DEF BeginAddresses, NothingMisread
<1>8. CASE \E kind, ptr, forward : CheckAddress(kind, ptr, forward)
  BY <1>8, FailedPtr, ConcludeMild DEF CheckAddress, NothingMisread
<1>9. CASE EndAddresses
  BY <1>9 DEF EndAddresses, auditVars, localVars, NothingMisread
<1>10. CASE \E sts \in 0..2, tlsrpt \in 0..1, hasId \in BOOLEAN : CheckTransport(sts, hasId, tlsrpt)
  BY <1>10, ConcludeMild DEF CheckTransport, localVars, NothingMisread
<1>11. CASE \E published, logo, vmc \in BOOLEAN, next \in {"headers", "reputation"} :
              CheckBimi(published, logo, vmc, next)
  BY <1>11, ConcludeMild DEF CheckBimi, localVars, NothingMisread
<1>12. QED
  BY <1>1, <1>2, <1>3, <1>4, <1>5, <1>6, <1>7, <1>8, <1>9, <1>10, <1>11 DEF DnsSteps

LEMMA MessageStepsMisread ==
  ASSUME NothingMisread, MessageSteps
  PROVE  NothingMisread'
<1>1. \E from, to, findings, meets : MessageStep(from, to, findings, meets)
  BY DEF MessageSteps, CheckHeaders, CheckFrom, CheckUnsubscribe, CheckSignatures, CheckReceived
<1>2. QED
  BY <1>1, ConcludeMild DEF MessageStep, localVars, NothingMisread

LEMMA NeverMisread == Spec => []NothingMisread
<1>1. Init => NothingMisread
  BY DEF Init, NothingMisread
<1>2. NothingMisread /\ [Next]_vars => NothingMisread'
  <2> SUFFICES ASSUME NothingMisread, [Next]_vars PROVE NothingMisread'
    OBVIOUS
  <2>1. CASE \E d \in Audited \cup {<<>>}, stage \in {"mx", "headers", "reputation"} : Start(d, stage)
    BY <2>1 DEF Start, localVars, NothingMisread
  <2>2. CASE SpfSteps
    BY <2>2, SpfStepsMisread
  <2>3. CASE DnsSteps
    BY <2>3, DnsStepsMisread
  <2>4. CASE MessageSteps
    BY <2>4, MessageStepsMisread
  <2>5. CASE \E volume \in Volumes, rate \in SpamRates : CheckReputation(volume, rate)
    BY <2>5, ConcludeMild DEF CheckReputation, localVars, NothingMisread
  <2>6. CASE UNCHANGED vars
    BY <2>6 DEF vars, auditVars, localVars, NothingMisread
  <2>7. QED
    BY <2>1, <2>2, <2>3, <2>4, <2>5, <2>6 DEF Next, Finished
<1>3. QED
  BY <1>1, <1>2, PTL DEF Spec

\* MX, SPF, DMARC and PTR report no blocker on the word of a query that failed: they
\* tell a failure from an absence (DnsError against NXDOMAIN).  DKIM does not: it
\* reports its keys missing when every selector it was given fails to answer.
THEOREM FailuresBlockNothing == Spec => []NoBlockerFromFailure
<1>1. NothingMisread => NoBlockerFromFailure
  BY DEF NothingMisread, NoBlockerFromFailure
<1>2. QED
  BY <1>1, NeverMisread, PTL

-----------------------------------------------------------------------------
(* The verdict.                                                            *)

\* What the tables have to give: findings of known severities, one of them
\* critical or worse when what was read does not meet what is asked.
Rated(findings) == \A f \in findings : f.severity \in Severities
Grave(findings) == \E f \in findings : f.severity \in {"critical", "blocker"}
Tells(findings, meets) == Rated(findings) /\ (~meets => Grave(findings))

LEMMA Ranks ==
  /\ Severities = {"pass", "info", "warning", "critical", "blocker"}
  /\ \A s \in Severities : Rank[s] \in 0..4
  /\ Rank["critical"] = 3 /\ Rank["blocker"] = 4
BY DEF Severities, Rank

LEMMA LargestOfFew ==
  ASSUME NEW S \in SUBSET (0..4), S # {}
  PROVE  Max(S) \in S /\ \A x \in S : x <= Max(S)
<1>1. \E x \in S : \A y \in S : x >= y
  <2>1. CASE 4 \in S
    BY <2>1
  <2>2. CASE 4 \notin S /\ 3 \in S
    BY <2>2
  <2>3. CASE 4 \notin S /\ 3 \notin S /\ 2 \in S
    BY <2>3
  <2>4. CASE 4 \notin S /\ 3 \notin S /\ 2 \notin S /\ 1 \in S
    BY <2>4
  <2>5. CASE 4 \notin S /\ 3 \notin S /\ 2 \notin S /\ 1 \notin S
    <3>1. \A x \in S : x = 0
      BY <2>5
    <3>2. PICK x \in S : TRUE
      OBVIOUS
    <3>3. QED
      BY <3>1, <3>2
  <2>6. QED
    BY <2>1, <2>2, <2>3, <2>4, <2>5
<1>2. Max(S) \in S /\ \A y \in S : Max(S) >= y
  BY <1>1 DEF Max
<1>3. QED
  BY <1>2

\* AuditReport.worst only grows, and remembers a grave finding.
LEMMA AddKeepsTheWorst ==
  ASSUME NEW worst \in 0..4, NEW findings, Rated(findings)
  PROVE  /\ Add(worst, findings) \in 0..4 /\ Add(worst, findings) >= worst
         /\ Grave(findings) => Add(worst, findings) >= 3
<1> DEFINE S == {worst} \cup {Rank[f.severity] : f \in findings}
<1>1. S \subseteq 0..4
  BY Ranks DEF Rated
<1>2. worst \in S /\ (Grave(findings) => \E x \in S : x >= 3)
  BY Ranks DEF Grave
<1>3. Add(worst, findings) = Max(S)
  BY DEF Add
<1> HIDE DEF S
<1>4. Max(S) \in S /\ \A x \in S : x <= Max(S)
  BY <1>1, <1>2, LargestOfFew
<1>5. Max(S) \in 0..4 /\ Max(S) >= worst
  BY <1>1, <1>2, <1>4
<1>6. ASSUME Grave(findings) PROVE Max(S) >= 3
  <2>1. PICK x \in S : x >= 3
    BY <1>2, <1>6
  <2>2. x \in 0..4 /\ x <= Max(S)
    BY <1>1, <1>4
  <2>3. QED
    BY <1>5, <2>1, <2>2
<1>7. QED
  BY <1>3, <1>5, <1>6

\* A report that is ready so far has seen nothing that does not comply.
Judged == report \in 0..4 /\ (report < 3 => complied)

LEMMA ConcludeJudged ==
  ASSUME Judged, NEW findings, NEW meets, NEW unread, Conclude(findings, meets, unread),
         Tells(findings, meets)
  PROVE  Judged'
<1>1. report' = Add(report, findings) /\ complied' = (complied /\ meets)
  BY DEF Conclude
<1>2. report \in 0..4 /\ (report < 3 => complied) /\ Rated(findings)
  BY DEF Judged, Tells
<1>3. report' \in 0..4 /\ report' >= report /\ (Grave(findings) => report' >= 3)
  BY <1>1, <1>2, AddKeepsTheWorst
<1>4. ~meets => Grave(findings)
  BY DEF Tells
<1>5. report' < 3 => report < 3 /\ ~Grave(findings)
  BY <1>2, <1>3
<1>6. QED
  BY <1>1, <1>2, <1>3, <1>4, <1>5 DEF Judged

LEMMA RatedIf ==
  ASSUME NEW condition, NEW code, NEW severity \in Severities
  PROVE  Rated(FindingIf(condition, code, severity))
BY DEF Rated, FindingIf, Finding

LEMMA RatedUnion ==
  ASSUME NEW f, NEW g, Rated(f), Rated(g)
  PROVE  Rated(f \cup g)
BY DEF Rated

LEMMA GraveIf ==
  ASSUME NEW condition, NEW code, NEW severity \in {"critical", "blocker"}, condition
  PROVE  Grave(FindingIf(condition, code, severity))
BY DEF Grave, FindingIf, Finding

LEMMA GraveUnion ==
  ASSUME NEW f, NEW g, Grave(f) \/ Grave(g)
  PROVE  Grave(f \cup g)
BY DEF Grave

LEMMA RatedOne ==
  ASSUME NEW code, NEW severity \in Severities
  PROVE  Rated(Finding(code, severity))
BY DEF Rated, Finding

LEMMA GraveOne ==
  ASSUME NEW code, NEW severity \in {"critical", "blocker"}
  PROVE  Rated(Finding(code, severity)) /\ Grave(Finding(code, severity))
BY Ranks DEF Rated, Grave, Finding

LEMMA MxTells ==
  ASSUME NEW mx
  PROVE  Tells(MxFindings(mx), mx # "nxdomain")
<1>1. Rated(MxFindings(mx))
  BY Ranks, RatedIf, RatedUnion DEF MxFindings
<1>2. mx = "nxdomain" => Grave(MxFindings(mx))
  BY GraveIf, GraveUnion DEF MxFindings
<1>3. QED
  BY <1>1, <1>2 DEF Tells

LEMMA CountTells ==
  ASSUME NEW l, NEW v, NEW n, NEW maxL, NEW maxV
  PROVE  Tells(SpfCountFindings(l, v, n, maxL, maxV), ~(l > maxL \/ v > maxV))
<1>1. Rated(SpfCountFindings(l, v, n, maxL, maxV))
  BY Ranks, RatedIf, RatedUnion DEF SpfCountFindings
<1>2. l > maxL \/ v > maxV => Grave(SpfCountFindings(l, v, n, maxL, maxV))
  BY GraveIf, GraveUnion DEF SpfCountFindings
<1>3. QED
  BY <1>1, <1>2 DEF Tells

LEMMA HeadersTell ==
  ASSUME NEW h \in HeaderFacts
  PROVE  Tells(HeaderFindings(h),
               h.from = 1 /\ h.date = 1 /\ h.dateValue # "invalid" /\ h.messageId # "none"
                 /\ ~h.defects)
<1> DEFINE from == Occurs(h.from, "MSG_NO_FROM", "MSG_DUPLICATE_FROM")
           date == Occurs(h.date, "MSG_NO_DATE", "MSG_DUPLICATE_DATE")
           value == FindingIf(h.date > 0 /\ h.dateValue = "invalid", "MSG_DATE_INVALID", "critical")
           id == FindingIf(h.messageId = "none", "MSG_NO_MESSAGE_ID", "critical")
           form == FindingIf(h.messageId = "malformed", "MSG_MESSAGE_ID_MALFORMED", "warning")
           to == FindingIf(~h.recipient, "MSG_NO_RECIPIENT_HEADER", "warning")
           subject == FindingIf(~h.subject, "MSG_NO_SUBJECT", "warning")
           defects == FindingIf(h.defects, "MSG_RFC5322_DEFECTS", "critical")
<1>1. HeaderFindings(h)
        = from \cup date \cup value \cup id \cup form \cup to \cup subject \cup defects
  BY DEF HeaderFindings
<1>2. Rated(from) /\ Rated(date)
  BY Ranks, RatedIf, RatedUnion DEF Occurs
<1>3. Rated(value) /\ Rated(id) /\ Rated(form) /\ Rated(to) /\ Rated(subject) /\ Rated(defects)
  BY Ranks, RatedIf
<1>4. (h.from = 0 \/ h.from > 1 => Grave(from)) /\ (h.date = 0 \/ h.date > 1 => Grave(date))
  BY GraveIf, GraveUnion DEF Occurs
<1>5. (h.date > 0 /\ h.dateValue = "invalid") => Grave(value)
  BY GraveIf
<1>6. (h.messageId = "none" => Grave(id)) /\ (h.defects => Grave(defects))
  BY GraveIf
<1> HIDE DEF from, date, value, id, form, to, subject, defects
<1>7. Rated(HeaderFindings(h))
  BY <1>1, <1>2, <1>3 DEF Rated
<1>8. Grave(from) \/ Grave(date) \/ Grave(value) \/ Grave(id) \/ Grave(defects)
        => Grave(HeaderFindings(h))
  BY <1>1 DEF Grave
<1>9. h.from \in 0..2 /\ h.date \in 0..2
  BY DEF HeaderFacts
<1>10. QED
  BY <1>4, <1>5, <1>6, <1>7, <1>8, <1>9 DEF Tells

LEMMA FromTells ==
  ASSUME NEW f, f.addresses \in 0..2, f.shown \in 0..1, NEW from_d, NEW expected
  PROVE  Tells(FromFindings(f, from_d, expected),
               /\ f.addresses <= 1 \/ f.sender
               /\ from_d # <<>> => OrganizationalDomain(from_d) \notin GmailDomains /\ f.shown = 0)
<1> DEFINE many == FindingIf(f.addresses > 1 /\ ~f.sender, "MSG_MULTIPLE_FROM_NO_SENDER", "critical")
           gmail == FindingIf(OrganizationalDomain(from_d) \in GmailDomains,
                              "MSG_IMPERSONATES_GMAIL", "blocker")
           other == FindingIf(expected # <<>> /\ ~Aligned(from_d, expected, "r"),
                              "MSG_FROM_UNEXPECTED_DOMAIN", "warning")
           shown == FindingIf(f.shown > 0, "MSG_DECEPTIVE_DISPLAY_NAME", "critical")
           reply == FindingIf(\E i \in DOMAIN f.replyTo :
                                f.replyTo[i] # <<>> /\ ~Aligned(from_d, f.replyTo[i], "r"),
                              "MSG_REPLYTO_OFF_DOMAIN", "info")
<1>1. FromFindings(f, from_d, expected)
        = many \cup (IF from_d = <<>> THEN {} ELSE gmail \cup other \cup shown \cup reply)
  BY DEF FromFindings
<1>2. Rated(many) /\ Rated(gmail) /\ Rated(other) /\ Rated(shown) /\ Rated(reply)
  BY Ranks, RatedIf
<1>3. /\ (f.addresses > 1 /\ ~f.sender) => Grave(many)
      /\ OrganizationalDomain(from_d) \in GmailDomains => Grave(gmail)
      /\ f.shown > 0 => Grave(shown)
  BY GraveIf
<1> HIDE DEF many, gmail, other, shown, reply
<1>4. Rated(FromFindings(f, from_d, expected))
  BY <1>1, <1>2 DEF Rated
<1>5. Grave(many) \/ (from_d # <<>> /\ (Grave(gmail) \/ Grave(shown)))
        => Grave(FromFindings(f, from_d, expected))
  BY <1>1 DEF Grave
<1>6. QED
  BY <1>3, <1>4, <1>5 DEF Tells

LEMMA UnsubscribeTells ==
  ASSUME NEW u \in UnsubscribeFacts, NEW treated \in BOOLEAN
  PROVE  Tells(UnsubscribeFindings(u, treated),
               treated => u.header /\ "https" \in u.schemes /\ u.post = "one-click")
<1> DEFINE web == u.schemes \cap {"https", "http"}
           plain == FindingIf(web = {"http"}, "MSG_UNSUBSCRIBE_NOT_HTTPS", "critical")
           mail == FindingIf(web = {} /\ "mailto" \in u.schemes, "MSG_UNSUBSCRIBE_MAILTO_ONLY", "blocker")
           none == FindingIf(web = {} /\ "mailto" \notin u.schemes, "MSG_UNSUBSCRIBE_NO_WEB_URI", "blocker")
           nomail == FindingIf("https" \in web /\ "mailto" \notin u.schemes,
                               "MSG_UNSUBSCRIBE_NO_MAILTO", "info")
           post == FindingIf(u.post # "one-click", "MSG_NO_ONE_CLICK_POST",
                             IF u.post = "none" THEN "blocker" ELSE "critical")
<1>1. CASE ~treated
  <2>1. UnsubscribeFindings(u, treated)
          = FindingIf(u.header, "MSG_UNSUBSCRIBE_ON_TRANSACTIONAL", "info")
    BY <1>1 DEF UnsubscribeFindings
  <2>2. QED
    BY <1>1, <2>1, Ranks, RatedIf DEF Tells
<1>2. CASE treated /\ (~u.header \/ u.schemes = {})
  <2>1. \/ UnsubscribeFindings(u, treated) = Finding("MSG_NO_LIST_UNSUBSCRIBE", "blocker")
        \/ UnsubscribeFindings(u, treated) = Finding("MSG_UNSUBSCRIBE_MALFORMED", "blocker")
    BY <1>2 DEF UnsubscribeFindings
  <2>2. QED
    BY <2>1, GraveOne DEF Tells
<1>3. CASE treated /\ u.header /\ u.schemes # {}
  <2>1. UnsubscribeFindings(u, treated) = plain \cup mail \cup none \cup nomail \cup post
    BY <1>3 DEF UnsubscribeFindings
  <2>2. Rated(plain) /\ Rated(mail) /\ Rated(none) /\ Rated(nomail) /\ Rated(post)
    BY Ranks, RatedIf
  <2>3. /\ web = {"http"} => Grave(plain)
        /\ (web = {} /\ "mailto" \in u.schemes) => Grave(mail)
        /\ (web = {} /\ "mailto" \notin u.schemes) => Grave(none)
        /\ u.post # "one-click" => Grave(post)
    BY GraveIf
  <2>4. "https" \notin u.schemes => web = {} \/ web = {"http"}
    OBVIOUS
  <2> HIDE DEF web, plain, mail, none, nomail, post
  <2>5. Rated(UnsubscribeFindings(u, treated))
    BY <2>1, <2>2 DEF Rated
  <2>6. Grave(plain) \/ Grave(mail) \/ Grave(none) \/ Grave(post)
          => Grave(UnsubscribeFindings(u, treated))
    BY <2>1 DEF Grave
  <2>7. QED
    BY <1>3, <2>3, <2>4, <2>5, <2>6 DEF Tells
<1>4. QED
  BY <1>1, <1>2, <1>3

LEMMA SignatureTells ==
  ASSUME NEW sig
  PROVE  /\ Rated(SignatureFindings(sig))
         /\ sig.hasH /\ "from" \notin sig.signed => Grave(SignatureFindings(sig))
<1> DEFINE sha1 == FindingIf(sig.sha1, "MSG_DKIM_SHA1", "critical")
           length == FindingIf(sig.length, "MSG_DKIM_LENGTH_TAG", "critical")
           from == FindingIf(sig.hasH /\ "from" \notin sig.signed, "MSG_DKIM_FROM_UNSIGNED", "blocker")
           others == FindingIf(sig.hasH /\ "from" \in sig.signed /\ sig.signed # RecommendedHeaders,
                               "MSG_DKIM_HEADERS_UNSIGNED", "warning")
<1>1. CASE sig.d = <<>>
  BY <1>1, GraveOne DEF SignatureFindings
<1>2. CASE sig.d # <<>>
  <2>1. SignatureFindings(sig) = sha1 \cup length \cup from \cup others
    BY <1>2 DEF SignatureFindings
  <2>2. Rated(sha1) /\ Rated(length) /\ Rated(from) /\ Rated(others)
    BY Ranks, RatedIf
  <2>3. (sig.hasH /\ "from" \notin sig.signed) => Grave(from)
    BY GraveIf
  <2> HIDE DEF sha1, length, from, others
  <2>4. Rated(SignatureFindings(sig)) /\ (Grave(from) => Grave(SignatureFindings(sig)))
    BY <2>1, <2>2 DEF Rated, Grave
  <2>5. QED
    BY <2>3, <2>4
<1>3. QED
  BY <1>1, <1>2

LEMMA SignaturesTell ==
  ASSUME NEW signatures, NEW from_d
  PROVE  Tells(SignaturesFindings(signatures, from_d),
               /\ signatures # <<>>
               /\ \A i \in DOMAIN signatures :
                    signatures[i].hasH => "from" \in signatures[i].signed
               /\ from_d # <<>> =>
                    \E i \in DOMAIN signatures :
                      OrganizationalDomain(signatures[i].d) = OrganizationalDomain(from_d))
<1> DEFINE each == UNION {SignatureFindings(signatures[i]) : i \in DOMAIN signatures}
           aligned == FindingIf(from_d # <<>> /\ ~AnySignatureAligned(signatures, from_d),
                                "MSG_DKIM_NOT_ALIGNED", "blocker")
<1>1. CASE signatures = <<>>
  <2>1. SignaturesFindings(signatures, from_d) = Finding("MSG_NOT_DKIM_SIGNED", "blocker")
    BY <1>1 DEF SignaturesFindings
  <2>2. QED
    BY <2>1, GraveOne DEF Tells
<1>2. CASE signatures # <<>>
  <2>1. SignaturesFindings(signatures, from_d) = each \cup aligned
    BY <1>2 DEF SignaturesFindings
  <2>2. Rated(each)
    BY SignatureTells DEF Rated
  <2>3. Rated(aligned)
    BY Ranks, RatedIf
  <2>4. ASSUME NEW i \in DOMAIN signatures, signatures[i].hasH, "from" \notin signatures[i].signed
        PROVE  Grave(each)
    <3>1. Grave(SignatureFindings(signatures[i]))
      BY <2>4, SignatureTells
    <3>2. QED
      BY <3>1 DEF Grave
  <2>5. ASSUME from_d # <<>>,
               ~\E i \in DOMAIN signatures :
                   OrganizationalDomain(signatures[i].d) = OrganizationalDomain(from_d)
        PROVE  Grave(aligned)
    <3>1. ~AnySignatureAligned(signatures, from_d)
      BY <2>5 DEF AnySignatureAligned, Aligned
    <3>2. QED
      BY <2>5, <3>1, GraveIf
  <2> HIDE DEF each, aligned
  <2>6. Rated(SignaturesFindings(signatures, from_d))
    BY <2>1, <2>2, <2>3 DEF Rated
  <2>7. Grave(each) \/ Grave(aligned) => Grave(SignaturesFindings(signatures, from_d))
    BY <2>1 DEF Grave
  <2>8. QED
    BY <1>2, <2>4, <2>5, <2>6, <2>7 DEF Tells
<1>3. QED
  BY <1>1, <1>2

Methods == {"spf", "dkim", "dmarc"}
AuthOne(headers, method) ==
  FindingIf(Merged(headers, method) # "pass", "MSG_AUTH", AuthSeverity(Merged(headers, method)))

LEMMA AuthTells ==
  ASSUME NEW headers, headers = <<>> \/ (Len(headers) = 1 /\ DOMAIN headers = {1})
  PROVE  Tells(AuthFindings(headers),
               \A method \in Methods :
                 headers # <<>> /\ method \in DOMAIN headers[1]
                   => headers[1][method] \notin {"fail", "permerror", "softfail", "policy"})
<1>1. AuthFindings(headers) = UNION {AuthOne(headers, method) : method \in Methods}
  BY DEF AuthFindings, AuthOne, Methods
<1>2. \A outcome : AuthSeverity(outcome) \in Severities
  BY Ranks DEF AuthSeverity
<1>3. \A method \in Methods : Rated(AuthOne(headers, method))
  BY <1>2, RatedIf DEF AuthOne
<1>4. Rated(AuthFindings(headers))
  BY <1>1, <1>3 DEF Rated
<1>5. ASSUME NEW method \in Methods, headers # <<>>, method \in DOMAIN headers[1],
             headers[1][method] \in {"fail", "permerror", "softfail", "policy"}
      PROVE  Grave(AuthFindings(headers))
  <2>1. {i \in DOMAIN headers : method \in DOMAIN headers[i]} = {1}
    BY <1>5
  <2>2. Merged(headers, method) = headers[1][method]
    BY <2>1 DEF Merged
  <2>3. /\ Merged(headers, method) # "pass"
        /\ AuthSeverity(Merged(headers, method)) \in {"critical", "blocker"}
    BY <1>5, <2>2 DEF AuthSeverity
  <2>4. Grave(AuthOne(headers, method))
    BY <2>3, GraveIf DEF AuthOne
  <2>5. QED
    BY <1>1, <2>4 DEF Grave
<1>6. QED
  BY <1>4, <1>5 DEF Tells

LEMMA ReceivedTells ==
  ASSUME NEW headers, NEW seals, NEW sigs, NEW results, NEW multipart, NEW subtypes, NEW mime,
         NEW meets, Tells(AuthFindings(headers), meets)
  PROVE  Tells(AuthFindings(headers) \cup ArcFindings(seals, sigs, results)
                 \cup BodyFindings(multipart, subtypes, mime), meets)
<1>1. Rated(ArcFindings(seals, sigs, results))
  <2>1. Rated({})
    BY DEF Rated
  <2>2. QED
    BY <2>1, RatedOne, Ranks DEF ArcFindings
<1>2. Rated(BodyFindings(multipart, subtypes, mime))
  BY RatedIf, RatedUnion, Ranks DEF BodyFindings
<1>3. QED
  BY <1>1, <1>2 DEF Tells, Rated, Grave

LEMMA TermTells ==
  ASSUME NEW terms, NEW i
  PROVE  /\ Rated(TermFindings(terms, i))
         /\ terms[i].name = "unknown" \/ (terms[i].name = "broad" /\ terms[i].qualifier = "+")
              => Grave(TermFindings(terms, i))
<1> DEFINE own == OwnErrors(terms[i])
           place == PlaceErrors(terms, i)
           f == FindingIf(own > 0, "SPF_TERM_WARNING",
                          IF terms[i].name = "broad" THEN "critical" ELSE "warning")
           g == FindingIf(place > 0, "SPF_TERM_WARNING", "warning")
<1>1. own \in 0..1 /\ place \in 0..2
  BY DEF OwnErrors, PlaceErrors
<1>2. terms[i].name = "unknown" \/ (terms[i].name = "broad" /\ terms[i].qualifier = "+") => own = 1
  BY DEF OwnErrors
<1>3. CASE terms[i].name = "unknown"
  <2>1. TermFindings(terms, i) = FindingIf(own + place > 0, "SPF_TERM_INVALID", "blocker")
    BY <1>3 DEF TermFindings
  <2>2. own + place > 0
    BY <1>1, <1>2, <1>3
  <2>3. QED
    BY <2>1, <2>2, GraveIf, RatedIf, Ranks
<1>4. CASE terms[i].name # "unknown"
  <2>1. TermFindings(terms, i) = f \cup g
    BY <1>4 DEF TermFindings
  <2>2. Rated(f) /\ Rated(g)
    BY RatedIf, Ranks
  <2>3. ASSUME terms[i].name = "broad", terms[i].qualifier = "+" PROVE Grave(f)
    <3>1. own > 0
      BY <1>2, <2>3
    <3>2. QED
      BY <2>3, <3>1, GraveIf
  <2> HIDE DEF f, g
  <2>4. Rated(TermFindings(terms, i)) /\ (Grave(f) => Grave(TermFindings(terms, i)))
    BY <2>1, <2>2 DEF Rated, Grave
  <2>5. QED
    BY <1>4, <2>3, <2>4
<1>5. QED
  BY <1>3, <1>4

LEMMA AllRated ==
  ASSUME NEW terms
  PROVE  Rated(AllFindings(terms))
BY RatedIf, RatedUnion, Ranks DEF AllFindings

\* No all and no redirect=, or an all that lets everyone pass.
LEMMA AllTells ==
  ASSUME NEW terms \in Seq(SpfTerm)
  PROVE  /\ (\A i \in DOMAIN terms : terms[i].name \notin {"all", "redirect"})
              => Grave(AllFindings(terms))
         /\ \A i \in Firsts(terms, "all") :
              terms[i].qualifier \notin {"-", "~"} => Grave(AllFindings(terms))
<1> DEFINE q == {terms[i].qualifier : i \in Firsts(terms, "all")}
           only == FindingIf(q = {} /\ HasRedirect(terms), "SPF_REDIRECT_ONLY", "info")
           no == FindingIf(q = {} /\ ~HasRedirect(terms), "SPF_NO_ALL", "critical")
           pass == FindingIf(q = {"+"}, "SPF_ALL_PASS", "blocker")
           neutral == FindingIf(q = {"?"}, "SPF_ALL_NEUTRAL", "critical")
           soft == FindingIf(q = {"~"}, "SPF_ALL_SOFTFAIL", "info")
<1>1. AllFindings(terms) = only \cup no \cup pass \cup neutral \cup soft
  BY DEF AllFindings
<1>3. /\ (q = {} /\ ~HasRedirect(terms)) => Grave(no)
      /\ q = {"+"} => Grave(pass)
      /\ q = {"?"} => Grave(neutral)
  BY GraveIf
<1>4. ASSUME \A i \in DOMAIN terms : terms[i].name \notin {"all", "redirect"}
      PROVE  q = {} /\ ~HasRedirect(terms)
  BY <1>4 DEF Firsts, HasRedirect
<1>5. ASSUME NEW i \in Firsts(terms, "all"), terms[i].qualifier \notin {"-", "~"}
      PROVE  q = {"+"} \/ q = {"?"}
  <2>1. Firsts(terms, "all") = {i}
    <3>1. SUFFICES ASSUME NEW j \in Firsts(terms, "all"), j # i PROVE FALSE
      BY <1>5
    <3>2. i \in Nat \ {0} /\ j \in Nat \ {0} /\ terms[i].name = "all" /\ terms[j].name = "all"
      BY <1>5, <3>1 DEF Firsts
    <3>3. i \in 1..(j - 1) \/ j \in 1..(i - 1)
      BY <3>1, <3>2
    <3>4. QED
      BY <1>5, <3>1, <3>2, <3>3 DEF Firsts
  <2>2. i \in DOMAIN terms
    BY <1>5 DEF Firsts
  <2>3. terms[i] \in SpfTerm
    BY <2>2
  <2>4. terms[i].qualifier \in {"+", "?"}
    BY <1>5, <2>3 DEF SpfTerm
  <2>5. QED
    BY <2>1, <2>4
<1> HIDE DEF only, no, pass, neutral, soft
<1>7. Grave(no) \/ Grave(pass) \/ Grave(neutral) => Grave(AllFindings(terms))
  BY <1>1 DEF Grave
<1>8. QED
  BY <1>3, <1>4, <1>5, <1>7

LEMMA SpfTells ==
  ASSUME NEW answer \in Answers, NEW long
  PROVE  Tells(SpfRecordFindings(answer, long), SpfRecordMeets(answer))
<1> DEFINE terms == answer.records[1]
           many == FindingIf(Len(answer.records) > 1, "SPF_MULTIPLE", "blocker")
           both == FindingIf(HasAll(terms) /\ HasRedirect(terms), "SPF_RECORD_ERROR", "warning")
           each == UNION {TermFindings(terms, i) : i \in DOMAIN terms}
           tooLong == FindingIf(long, "SPF_RECORD_LONG", "info")
<1>1. CASE answer \in {NxDomain, Failed}
  <2>1. SpfRecordFindings(answer, long) = Finding("SPF_LOOKUP_FAILED", "critical")
    BY <1>1 DEF SpfRecordFindings, NxDomain, Failed
  <2>2. QED
    BY <2>1, GraveOne DEF Tells
<1>2. CASE answer = Found(<<>>)
  <2>1. SpfRecordFindings(answer, long) = Finding("SPF_MISSING", "blocker")
    BY <1>2 DEF SpfRecordFindings, Found
  <2>2. QED
    BY <2>1, GraveOne DEF Tells
<1>3. ASSUME NEW r, (r \in Records /\ answer = Found(<<r>>)) \/ answer = Found(<<r, r>>)
      PROVE  Tells(SpfRecordFindings(answer, long), SpfRecordMeets(answer))
  <2>1. /\ answer.kind = "found" /\ terms = r /\ answer.records # <<>>
        /\ Len(answer.records) = 2 \/ (Len(answer.records) = 1 /\ r \in Records)
    BY <1>3 DEF Found
  <2>2. Len(answer.records) = 1 => terms \in Seq(SpfTerm)
    BY <2>1, AuditAssumption
  <2>3. SpfRecordFindings(answer, long) = many \cup both \cup each \cup AllFindings(terms) \cup tooLong
    BY <2>1 DEF SpfRecordFindings
  <2>4. Rated(many) /\ Rated(both) /\ Rated(tooLong)
    BY RatedIf, Ranks
  <2>5. Rated(each)
    BY TermTells DEF Rated
  <2>6. ASSUME Len(answer.records) # 1 PROVE Grave(many)
    <3>1. Len(answer.records) = 2
      BY <2>1, <2>6
    <3>2. Len(answer.records) > 1
      BY <3>1
    <3>3. QED
      BY <3>2, GraveIf
  <2>7. ASSUME NEW i \in DOMAIN terms,
               terms[i].name = "unknown" \/ (terms[i].name = "broad" /\ terms[i].qualifier = "+")
        PROVE  Grave(each)
    <3>1. Grave(TermFindings(terms, i))
      BY <2>7, TermTells
    <3>2. QED
      BY <3>1 DEF Grave
  <2> HIDE DEF many, both, each, tooLong
  <2>8. Rated(SpfRecordFindings(answer, long))
    BY <2>3, <2>4, <2>5, AllRated DEF Rated
  <2>9. Grave(many) \/ Grave(each) \/ Grave(AllFindings(terms)) => Grave(SpfRecordFindings(answer, long))
    BY <2>3 DEF Grave
  <2>10. ASSUME ~SpfRecordMeets(answer)
         PROVE  Grave(many) \/ Grave(each) \/ Grave(AllFindings(terms))
    <3> DEFINE alls == {i \in DOMAIN terms : terms[i].name = "all"}
    <3>1. CASE Len(answer.records) # 1
      BY <2>6, <3>1
    <3> SUFFICES ASSUME Len(answer.records) = 1, terms \in Seq(SpfTerm)
                 PROVE  Grave(many) \/ Grave(each) \/ Grave(AllFindings(terms))
      BY <2>2, <3>1
    <3>2. CASE \E i \in DOMAIN terms :
                 terms[i].name = "unknown" \/ (terms[i].name = "broad" /\ terms[i].qualifier = "+")
      BY <2>7, <3>2
    <3>3. CASE alls = {} /\ ~\E i \in DOMAIN terms : terms[i].name = "redirect"
      BY <3>3, AllTells
    <3>4. CASE \E i \in alls : (\A j \in alls : i <= j) /\ terms[i].qualifier \notin {"-", "~"}
      <4>1. PICK i \in alls : (\A j \in alls : i <= j) /\ terms[i].qualifier \notin {"-", "~"}
        BY <3>4
      <4>2. i \in DOMAIN terms /\ DOMAIN terms = 1..Len(terms) /\ Len(terms) \in Nat
        OBVIOUS
      <4>3. \A j \in 1..(i - 1) : terms[j].name # "all"
        BY <4>1, <4>2
      <4>4. i \in Firsts(terms, "all")
        BY <4>1, <4>3 DEF Firsts
      <4>5. QED
        BY <4>1, <4>4, AllTells
    <3>5. QED
      BY <2>1, <2>10, <3>1, <3>2, <3>3, <3>4 DEF SpfRecordMeets
  <2>11. QED
    BY <2>8, <2>9, <2>10 DEF Tells
<1>4. CASE answer = Several(Records)
  BY <1>3, <1>4 DEF Several
<1>5. QED
  BY <1>1, <1>2, <1>3, <1>4 DEF Answers

LEMMA KeyTypeTells ==
  ASSUME NEW key \in DkimKey
  PROVE  /\ Rated(KeyTypeFindings(key))
         /\ key.p = "key" /\ ~((key.key_type = "rsa" /\ key.bits >= 1024) \/ key.key_type = "ed25519")
              => Grave(KeyTypeFindings(key))
<1> DEFINE unread == FindingIf(KeyBits(key) = 0, "DKIM_KEY_UNREADABLE", "critical")
           short == FindingIf(KeyBits(key) \in 1..1023, "DKIM_KEY_TOO_SHORT", "blocker")
           weak == FindingIf(KeyBits(key) \in 1024..2047, "DKIM_KEY_WEAK", "warning")
<1>1. CASE key.key_type = "rsa"
  <2>1. KeyTypeFindings(key) = unread \cup short \cup weak
    BY <1>1 DEF KeyTypeFindings
  <2>2. Rated(unread) /\ Rated(short) /\ Rated(weak)
    BY RatedIf, Ranks
  <2>3. (KeyBits(key) = 0 => Grave(unread)) /\ (KeyBits(key) \in 1..1023 => Grave(short))
    BY GraveIf
  <2>4. key.p = "key" /\ ~(key.bits >= 1024) => KeyBits(key) = 0 \/ KeyBits(key) \in 1..1023
    BY DEF KeyBits, DkimKey
  <2> HIDE DEF unread, short, weak
  <2>5. Rated(KeyTypeFindings(key)) /\ (Grave(unread) \/ Grave(short) => Grave(KeyTypeFindings(key)))
    BY <2>1, <2>2 DEF Rated, Grave
  <2>6. QED
    BY <1>1, <2>3, <2>4, <2>5
<1>2. CASE key.key_type = "ed25519"
  <2>1. KeyTypeFindings(key) = Finding("DKIM_ED25519", "info")
    BY <1>2 DEF KeyTypeFindings
  <2>2. QED
    BY <1>2, <2>1, RatedOne, Ranks
<1>3. CASE key.key_type \notin {"rsa", "ed25519"}
  <2>1. KeyTypeFindings(key) = Finding("DKIM_KEY_TYPE_UNKNOWN", "critical")
    BY <1>3 DEF KeyTypeFindings
  <2>2. QED
    BY <2>1, GraveOne
<1>4. QED
  BY <1>1, <1>2, <1>3

LEMMA KeyTells ==
  ASSUME NEW key \in DkimKey
  PROVE  Tells(KeyFindings(key), KeyMeets(key))
<1> DEFINE errors == FindingIf(KeyErrors(key) > 0, "DKIM_RECORD_ERROR", "critical")
           revoked == Finding("DKIM_KEY_REVOKED", "blocker")
           testing == FindingIf(key.testing, "DKIM_TESTING_MODE", "warning")
           kind == KeyTypeFindings(key)
           sha1 == FindingIf(key.hashes = {"sha1"}, "DKIM_SHA1_ONLY", "critical")
<1>1. KeyFindings(key) = errors \cup (IF key.p = "empty" THEN revoked ELSE testing \cup kind \cup sha1)
  BY DEF KeyFindings
<1>2. Rated(errors) /\ Rated(testing) /\ Rated(sha1)
  BY RatedIf, Ranks
<1>3. Rated(revoked) /\ Grave(revoked)
  BY GraveOne
<1>4. Rated(kind)
  BY KeyTypeTells
<1>5. (KeyErrors(key) > 0 => Grave(errors)) /\ (key.hashes = {"sha1"} => Grave(sha1))
  BY GraveIf
<1>6. key.p = "key" /\ ~((key.key_type = "rsa" /\ key.bits >= 1024) \/ key.key_type = "ed25519")
        => Grave(kind)
  BY KeyTypeTells
<1>7. key.malformed # 0 \/ key.version # "DKIM1" \/ key.p = NoValue => KeyErrors(key) > 0
  BY DEF KeyErrors, DkimKey
<1>8. key.hashes # {} /\ "sha256" \notin key.hashes => key.hashes = {"sha1"}
  BY DEF DkimKey
<1>9. key.p \in {"key", "empty", NoValue}
  BY DEF DkimKey
<1> HIDE DEF errors, revoked, testing, kind, sha1
<1>10. Rated(KeyFindings(key))
  BY <1>1, <1>2, <1>3, <1>4 DEF Rated
<1>11. /\ Grave(errors) \/ key.p = "empty" => Grave(KeyFindings(key))
       /\ key.p # "empty" /\ (Grave(kind) \/ Grave(sha1)) => Grave(KeyFindings(key))
  BY <1>1, <1>3 DEF Grave
<1>12. ASSUME ~KeyMeets(key) PROVE Grave(KeyFindings(key))
  BY <1>5, <1>6, <1>7, <1>8, <1>9, <1>11, <1>12 DEF KeyMeets
<1>13. QED
  BY <1>10, <1>12 DEF Tells

\* One of the errors is counted for every way in which a record is wrong.
LEMMA RecordErrorsCount ==
  ASSUME NEW r \in DmarcRecord
  PROVE  /\ RecordErrors(r) \in Nat
         /\ RecordErrors(r) # 0 => RecordErrors(r) > 0
<1> DEFINE uris == r.rua \o r.ruf
           others == {i \in DOMAIN uris : uris[i][1] # "mailto"}
<1>1. r.rua \in Seq({"mailto", "other"} \X Seq(STRING)) /\ r.ruf \in Seq({"mailto", "other"} \X Seq(STRING))
      /\ r.errors \in Nat
  BY DEF DmarcRecord
<1>2. uris \in Seq({"mailto", "other"} \X Seq(STRING))
  BY <1>1
<1> HIDE DEF uris
<1>3. others \subseteq 1..Len(uris) /\ Len(uris) \in Nat
  BY <1>2
<1>4. IsFiniteSet(others)
  BY <1>3, FS_Interval, FS_Subset
<1>5. Cardinality(others) \in Nat
  BY <1>4, FS_CardinalityType
<1> DEFINE a == IF r.p \in Policies THEN 0 ELSE 1
           b == IF r.sp = "invalid" THEN 1 ELSE 0
           c == IF Percentage(r) \notin 0..100 THEN 1 ELSE 0
           d == Cardinality(others)
<1>6. /\ RecordErrors(r) = r.errors + a + b + c + d
      /\ a \in Nat /\ b \in Nat /\ c \in Nat
  BY DEF RecordErrors, uris
<1> HIDE DEF a, b, c, others
<1>7. QED
  BY <1>1, <1>5, <1>6

LEMMA PolicyTells ==
  ASSUME NEW p
  PROVE  Tells(PolicyFindings(p), p \in Policies)
<1>1. CASE p = "reject"
  BY <1>1 DEF PolicyFindings, Policies, Tells, Rated
<1>2. CASE p \in {"quarantine", "none"}
  <2>1. \/ PolicyFindings(p) = Finding("DMARC_POLICY_QUARANTINE", "warning")
        \/ PolicyFindings(p) = Finding("DMARC_POLICY_NONE", "warning")
    BY <1>2 DEF PolicyFindings
  <2>2. QED
    BY <1>2, <2>1, RatedOne, Ranks DEF Tells, Policies
<1>3. CASE p \notin {"reject", "quarantine", "none"}
  <2>1. PolicyFindings(p) = Finding("DMARC_POLICY_INVALID", "blocker")
    BY <1>3 DEF PolicyFindings
  <2>2. QED
    BY <2>1, GraveOne DEF Tells
<1>4. QED
  BY <1>1, <1>2, <1>3

LEMMA DmarcRecordTells ==
  ASSUME NEW records, NEW r, NEW inherited, NEW unauthorised,
         (r \in DmarcRecord /\ records = <<r>>) \/ records = <<r, r>>
  PROVE  Tells(DmarcFindings(records, inherited, unauthorised),
               /\ Len(records) = 1 /\ RecordErrors(r) = 0
               /\ EffectivePolicy(r, inherited) \in Policies)
<1> DEFINE p == EffectivePolicy(r, inherited)
           many == FindingIf(Len(records) > 1, "DMARC_MULTIPLE", "blocker")
           unknown == FindingIf(r.unknown > 0, "DMARC_RECORD_ERROR", "warning")
           errors == FindingIf(RecordErrors(r) > 0, "DMARC_RECORD_ERROR", "critical")
           above == FindingIf(inherited, "DMARC_INHERITED", "info")
           partial == FindingIf(Percentage(r) < 100, "DMARC_PARTIAL_PCT", "warning")
           noRua == FindingIf(r.rua = <<>>, "DMARC_NO_RUA", "warning")
           foreign == FindingIf(unauthorised > 0, "DMARC_EXTERNAL_REPORT_UNAUTHORISED", "warning")
           strict == FindingIf(r.strict, "DMARC_STRICT_ALIGNMENT", "info")
           all == many \cup unknown \cup errors \cup above \cup PolicyFindings(p)
                    \cup partial \cup noRua \cup foreign \cup strict
<1>1. records[1] = r
  OBVIOUS
<1>2. DmarcFindings(records, inherited, unauthorised) = all
  BY <1>1 DEF DmarcFindings
<1>3. /\ Rated(many) /\ Rated(unknown) /\ Rated(errors) /\ Rated(above)
      /\ Rated(partial) /\ Rated(noRua) /\ Rated(foreign) /\ Rated(strict)
  BY RatedIf, Ranks
<1>4. Tells(PolicyFindings(p), p \in Policies)
  BY PolicyTells
<1>5. (Len(records) > 1 => Grave(many)) /\ (RecordErrors(r) > 0 => Grave(errors))
  BY GraveIf
<1>6. Len(records) > 1 \/ (r \in DmarcRecord /\ Len(records) = 1)
  OBVIOUS
<1>7. r \in DmarcRecord /\ RecordErrors(r) # 0 => RecordErrors(r) > 0
  BY RecordErrorsCount
<1> HIDE DEF p, many, unknown, errors, above, partial, noRua, foreign, strict
<1>8. Rated(PolicyFindings(p)) /\ (p \notin Policies => Grave(PolicyFindings(p)))
  BY <1>4 DEF Tells
<1>9. Rated(all)
  BY <1>3, <1>8 DEF Rated
<1>10. Grave(many) \/ Grave(errors) \/ Grave(PolicyFindings(p)) => Grave(all)
  BY DEF Grave
<1> HIDE DEF all
<1>11. ASSUME ~(Len(records) = 1 /\ RecordErrors(r) = 0 /\ p \in Policies) PROVE Grave(all)
  BY <1>5, <1>6, <1>7, <1>8, <1>10, <1>11
<1>12. QED
  BY <1>2, <1>9, <1>11 DEF Tells, p

LEMMA DmarcTells ==
  ASSUME NEW answer \in DmarcAnswers, NEW unauthorised
  PROVE  Tells(IF answer = Failed THEN Finding("DMARC_LOOKUP_FAILED", "critical")
               ELSE IF answer.records = <<>> THEN Finding("DMARC_MISSING", "blocker")
               ELSE DmarcFindings(answer.records, pc = "inherit", unauthorised),
               DmarcMeets(answer))
<1> DEFINE findings == DmarcFindings(answer.records, pc = "inherit", unauthorised)
<1>1. CASE answer = Failed
  BY <1>1, GraveOne DEF Tells
<1>2. CASE answer # Failed /\ answer.records = <<>>
  BY <1>2, GraveOne DEF Tells
<1>3. ASSUME NEW r, (r \in DmarcRecords /\ answer = Found(<<r>>)) \/ answer = Found(<<r, r>>)
      PROVE  answer # Failed /\ answer.records # <<>> /\ Tells(findings, DmarcMeets(answer))
  <2>1. answer # Failed /\ answer.records # <<>>
    BY <1>3 DEF Found, Failed
  <2>2. (r \in DmarcRecord /\ answer.records = <<r>>) \/ answer.records = <<r, r>>
    BY <1>3, AuditAssumption DEF Found
  <2>3. Tells(findings, /\ Len(answer.records) = 1 /\ RecordErrors(r) = 0
                        /\ EffectivePolicy(r, pc = "inherit") \in Policies)
    BY <2>2, DmarcRecordTells
  <2>4. answer.records[1] = r
    BY <2>2
  <2>5. Len(answer.records) = 1 /\ RecordErrors(r) = 0
          /\ EffectivePolicy(r, pc = "inherit") \in Policies => DmarcMeets(answer)
    BY <2>4 DEF DmarcMeets, EffectivePolicy, SubdomainPolicy
  <2> HIDE DEF findings
  <2>6. QED
    BY <2>1, <2>3, <2>5 DEF Tells
<1>4. CASE answer \in {Found(<<>>), NxDomain}
  BY <1>2, <1>4 DEF Found, NxDomain, Failed
<1>5. CASE \E r \in DmarcRecords : answer = Found(<<r>>)
  BY <1>3, <1>5
<1>6. CASE answer = Several(DmarcRecords)
  BY <1>3, <1>6 DEF Several
<1>7. QED
  BY <1>1, <1>4, <1>5, <1>6 DEF DmarcAnswers

LEMMA AddressTells ==
  ASSUME NEW kind \in AddressKinds, NEW ptr \in {"failed", "none", "names"}, NEW forward
  PROVE  Tells(AddressFindings(kind, ptr, forward),
               kind \in {"private", "public"} => ptr = "failed" \/ "same" \in forward)
<1> DEFINE invalid == FindingIf(kind = "invalid", "IP_INVALID", "warning")
           inside == FindingIf(kind \in {"local", "private"}, "IP_NOT_PUBLIC", "warning")
           none == FindingIf(ptr = "none", "PTR_MISSING", "blocker")
           other == FindingIf(ptr = "names" /\ "same" \notin forward, "FCRDNS_FAILED", "critical")
<1>1. AddressFindings(kind, ptr, forward)
        = invalid \cup inside \cup (IF kind \in {"invalid", "local"} \/ ptr = "failed" THEN {}
                                   ELSE none \cup other)
  BY DEF AddressFindings
<1>2. Rated(invalid) /\ Rated(inside) /\ Rated(none) /\ Rated(other)
  BY RatedIf, Ranks
<1>3. (ptr = "none" => Grave(none)) /\ ((ptr = "names" /\ "same" \notin forward) => Grave(other))
  BY GraveIf
<1> HIDE DEF invalid, inside, none, other
<1>4. Rated(AddressFindings(kind, ptr, forward))
  BY <1>1, <1>2 DEF Rated
<1>5. kind \in {"private", "public"} /\ ptr # "failed" /\ (Grave(none) \/ Grave(other))
        => Grave(AddressFindings(kind, ptr, forward))
  BY <1>1 DEF Grave
<1>6. QED
  BY <1>3, <1>4, <1>5 DEF Tells

LEMMA TransportTells ==
  ASSUME NEW sts, NEW hasId, NEW tlsrpt
  PROVE  Tells(TransportFindings(sts, hasId, tlsrpt), TRUE)
<1>1. Rated(TransportFindings(sts, hasId, tlsrpt))
  BY RatedIf, RatedUnion, Ranks DEF TransportFindings
<1>2. QED
  BY <1>1 DEF Tells

LEMMA BimiTells ==
  ASSUME NEW published, NEW logo, NEW vmc, NEW p
  PROVE  Tells(BimiFindings(published, logo, vmc, p), TRUE)
<1>1. Rated({})
  BY DEF Rated
<1>2. Rated(BimiFindings(published, logo, vmc, p))
  BY <1>1, RatedIf, RatedUnion, Ranks DEF BimiFindings
<1>3. QED
  BY <1>2 DEF Tells

LEMMA SpamRateTells ==
  ASSUME NEW rate
  PROVE  /\ Rated(SpamRateFindings(rate))
         /\ rate \in (SPAM_RATE_TARGET + 1)..10000 => Grave(SpamRateFindings(rate))
<1> DEFINE low == SPAM_RATE_TARGET + 1
           mid == SPAM_RATE_LIMIT
           top == 10000
           absent == rate = NoValue
           odd == rate \notin {NoValue} \cup (0..top)
           high == rate \in mid..top
           raised == rate \in low..(mid - 1)
           over == rate \in low..top
<1>1. SpamRateFindings(rate)
        = CASE absent -> Finding("REP_NO_SPAM_RATE", "info")
            [] odd -> Finding("REP_SPAM_RATE_INVALID", "warning")
            [] high -> Finding("REP_SPAM_RATE_CRITICAL", "blocker")
            [] raised -> Finding("REP_SPAM_RATE_ELEVATED", "critical")
            [] OTHER -> Finding("REP_SPAM_RATE_OK", "pass")
  BY DEF SpamRateFindings
<1>2. low \in Int /\ mid \in Int /\ top \in Int /\ 0 <= low /\ low <= mid /\ mid <= top
  BY DEF SPAM_RATE_LIMIT, SPAM_RATE_TARGET
<1>3. absent => rate \notin Int
  BY AuditAssumption
<1> HIDE DEF low, mid, top
<1>4. high => rate \in 0..top /\ ~raised
  BY <1>2
<1>5. raised => rate \in 0..top
  BY <1>2
<1>6. over => rate \in 0..top /\ (high \/ raised)
  BY <1>2
<1>7. rate \in 0..top => rate \in Int
  BY <1>2
<1> DEFINE within == rate \in 0..top
<1>8. odd <=> ~absent /\ ~within
  OBVIOUS
<1> HIDE DEF absent, odd, high, raised, within, over
<1>9. /\ absent => ~odd /\ ~high /\ ~raised /\ ~over
      /\ odd => ~absent /\ ~high /\ ~raised /\ ~over
      /\ high => ~absent /\ ~odd /\ ~raised
      /\ raised => ~absent /\ ~odd /\ ~high
      /\ over => high \/ raised
  BY <1>3, <1>4, <1>5, <1>6, <1>7, <1>8 DEF within
<1>10. SUFFICES Rated(SpamRateFindings(rate)) /\ (over => Grave(SpamRateFindings(rate)))
  BY DEF over, low, top
<1>11. CASE absent
  <2>1. SpamRateFindings(rate) = Finding("REP_NO_SPAM_RATE", "info")
    BY <1>1, <1>9, <1>11
  <2>2. QED
    BY <1>9, <1>11, <2>1, RatedOne, Ranks
<1>12. CASE odd
  <2>1. SpamRateFindings(rate) = Finding("REP_SPAM_RATE_INVALID", "warning")
    BY <1>1, <1>9, <1>12
  <2>2. QED
    BY <1>9, <1>12, <2>1, RatedOne, Ranks
<1>13. CASE high
  <2>1. SpamRateFindings(rate) = Finding("REP_SPAM_RATE_CRITICAL", "blocker")
    BY <1>1, <1>9, <1>13
  <2>2. QED
    BY <2>1, GraveOne
<1>14. CASE raised
  <2>1. SpamRateFindings(rate) = Finding("REP_SPAM_RATE_ELEVATED", "critical")
    BY <1>1, <1>9, <1>14
  <2>2. QED
    BY <2>1, GraveOne
<1>15. CASE ~absent /\ ~odd /\ ~high /\ ~raised
  <2>1. SpamRateFindings(rate) = Finding("REP_SPAM_RATE_OK", "pass")
    BY <1>1, <1>15
  <2>2. QED
    BY <1>9, <1>15, <2>1, RatedOne, Ranks
<1>16. QED
  BY <1>11, <1>12, <1>13, <1>14, <1>15

LEMMA ReputationTells ==
  ASSUME NEW volume, NEW rate, NEW b
  PROVE  Tells(ReputationFindings(volume, rate, b), ReputationMeets(volume, rate))
<1>1. Rated({}) /\ Rated(Finding("REP_VOLUME_INVALID", "warning"))
  BY RatedOne, Ranks DEF Rated
<1>2. Rated(VolumeFindings(volume, b))
  BY RatedIf, RatedUnion, Ranks DEF VolumeFindings
<1>3. /\ Rated(SpamRateFindings(rate))
      /\ rate \in (SPAM_RATE_TARGET + 1)..10000 => Grave(SpamRateFindings(rate))
  BY SpamRateTells
<1>4. Rated(ReputationFindings(volume, rate, b))
  BY <1>1, <1>2, <1>3, RatedUnion DEF ReputationFindings
<1>5. ASSUME ~ReputationMeets(volume, rate) PROVE Grave(ReputationFindings(volume, rate, b))
  <2>1. volume \in {NoValue} \cup Nat /\ rate \in (SPAM_RATE_TARGET + 1)..10000
    BY <1>5 DEF ReputationMeets
  <2>2. rate # NoValue /\ ~(volume # NoValue /\ volume < 0)
    <3> DEFINE low == SPAM_RATE_TARGET + 1
               top == 10000
    <3>1. low \in Int /\ top \in Int /\ rate \in low..top
      BY <2>1 DEF SPAM_RATE_TARGET
    <3> HIDE DEF low, top
    <3>2. rate \in Int
      BY <3>1
    <3>3. QED
      BY <2>1, <3>2, AuditAssumption
  <2>3. ReputationFindings(volume, rate, b) = VolumeFindings(volume, b) \cup SpamRateFindings(rate)
    BY <2>2 DEF ReputationFindings
  <2>4. QED
    BY <1>3, <2>1, <2>3, GraveUnion
<1>6. QED
  BY <1>4, <1>5 DEF Tells

LEMMA NoKeyTells ==
  /\ Tells({}, TRUE)
  /\ Tells(FindingIf(explicit, "DKIM_SELECTOR_MISSING", "critical"), ~explicit)
  /\ Tells(IF found THEN {} ELSE NoKeyFindings(explicit), explicit => found)
<1>1. Rated({})
  BY DEF Rated
<1>2. Rated(FindingIf(explicit, "DKIM_SELECTOR_MISSING", "critical"))
  BY RatedIf, Ranks
<1>3. explicit => Grave(FindingIf(explicit, "DKIM_SELECTOR_MISSING", "critical"))
  BY GraveIf
<1>4. Rated(NoKeyFindings(explicit)) /\ (explicit => Grave(NoKeyFindings(explicit)))
  BY GraveOne, RatedOne, Ranks DEF NoKeyFindings
<1>5. QED
  BY <1>1, <1>2, <1>3, <1>4 DEF Tells

LEMMA SpfStepsJudged ==
  ASSUME Judged, SpfSteps
  PROVE  Judged'
<1>1. CASE \E answer \in Answers, expand, long \in BOOLEAN : CheckSpf(answer, expand, long)
  <2>1. PICK answer \in Answers, expand \in BOOLEAN, long \in BOOLEAN :
          CheckSpf(answer, expand, long)
    BY <1>1
  <2>2. Conclude(SpfRecordFindings(answer, long), SpfRecordMeets(answer), answer = Failed)
    BY <2>1 DEF CheckSpf
  <2>3. QED
    BY <2>2, SpfTells, ConcludeJudged
<1>2. CASE ExpandSpf
  BY <1>2 DEF ExpandSpf, auditVars, Judged
<1>3. CASE CountSpf
  <2>1. CASE visited = {}
    BY <1>3, <2>1 DEF CountSpf, Judged
  <2>2. CASE visited # {}
    <3>1. Conclude(SpfCountFindings(lookups, voids, loops, MAX_DNS_LOOKUPS, MAX_VOID_LOOKUPS),
                   ~(TooManyLookups \/ voids > MAX_VOID_LOOKUPS), FALSE)
      BY <1>3, <2>2 DEF CountSpf
    <3>2. Tells(SpfCountFindings(lookups, voids, loops, MAX_DNS_LOOKUPS, MAX_VOID_LOOKUPS),
                ~(TooManyLookups \/ voids > MAX_VOID_LOOKUPS))
      BY CountTells DEF TooManyLookups
    <3>3. QED
      BY <3>1, <3>2, ConcludeJudged
  <2>3. QED
    BY <2>1, <2>2
<1>4. QED
  BY <1>1, <1>2, <1>3 DEF SpfSteps

LEMMA SelectorJudged ==
  ASSUME Judged, NEW answer \in KeyAnswers, CheckSelector(answer)
  PROVE  Judged'
<1>1. CASE answer.kind = "key"
  <2>1. answer.key \in DkimKey
    BY <1>1, AuditAssumption DEF KeyAnswers
  <2>2. Conclude(KeyFindings(answer.key), KeyMeets(answer.key), FALSE)
    BY <1>1 DEF CheckSelector
  <2>3. QED
    BY <2>1, <2>2, KeyTells, ConcludeJudged
<1>2. CASE answer.kind = "absent"
  <2>1. Conclude(FindingIf(explicit, "DKIM_SELECTOR_MISSING", "critical"), ~explicit, FALSE)
    BY <1>2 DEF CheckSelector
  <2>2. QED
    BY <2>1, NoKeyTells, ConcludeJudged
<1>3. CASE answer.kind \notin {"key", "absent"}
  BY <1>3 DEF CheckSelector, Judged
<1>4. QED
  BY <1>1, <1>2, <1>3

LEMMA DnsStepsJudged ==
  ASSUME Judged, DnsSteps
  PROVE  Judged'
<1>1. CASE \E mx \in MxAnswers : CheckMx(mx)
  BY <1>1, MxTells, ConcludeJudged DEF CheckMx
<1>2. CASE \E n \in 0..MaxSelectors, named \in BOOLEAN : BeginDkim(n, named)
  BY <1>2 DEF BeginDkim, Judged
<1>3. CASE pc = "keys" /\ \E answer \in KeyAnswers : CheckSelector(answer)
  BY <1>3, SelectorJudged
<1>4. CASE EndDkim
  BY <1>4, NoKeyTells, ConcludeJudged DEF EndDkim
<1>5. CASE \E answer \in DmarcAnswers : \E unauthorised \in 0..2 : CheckDmarc(answer, unauthorised)
  <2>1. PICK answer \in DmarcAnswers, unauthorised \in 0..2 : CheckDmarc(answer, unauthorised)
    BY <1>5
  <2> DEFINE findings == IF answer = Failed THEN Finding("DMARC_LOOKUP_FAILED", "critical")
                         ELSE IF answer.records = <<>> THEN Finding("DMARC_MISSING", "blocker")
                         ELSE DmarcFindings(answer.records, pc = "inherit", unauthorised)
  <2>2. Conclude(findings, DmarcMeets(answer), failed \/ answer = Failed)
    BY <2>1 DEF CheckDmarc
  <2>3. Tells(findings, DmarcMeets(answer))
    BY DmarcTells
  <2> HIDE DEF findings
  <2>4. QED
    BY <2>2, <2>3, ConcludeJudged
<1>6. CASE \E answer \in DmarcAnswers : AskOrganization(answer)
  BY <1>6 DEF AskOrganization, Judged
<1>7. CASE \E n \in 0..MaxAddresses : BeginAddresses(n)
  BY <1>7 DEF BeginAddresses, Judged
<1>8. CASE \E kind \in AddressKinds, ptr \in {"failed", "none", "names"},
              forward \in SUBSET {"same", "other", "failed"} : CheckAddress(kind, ptr, forward)
  BY <1>8, AddressTells, ConcludeJudged DEF CheckAddress
<1>9. CASE EndAddresses
  BY <1>9 DEF EndAddresses, auditVars, Judged
<1>10. CASE \E sts \in 0..2, tlsrpt \in 0..1, hasId \in BOOLEAN : CheckTransport(sts, hasId, tlsrpt)
  BY <1>10, TransportTells, ConcludeJudged DEF CheckTransport
<1>11. CASE \E published, logo, vmc \in BOOLEAN, next \in {"headers", "reputation"} :
              CheckBimi(published, logo, vmc, next)
  BY <1>11, BimiTells, ConcludeJudged DEF CheckBimi
<1>12. QED
  BY <1>1, <1>2, <1>3, <1>4, <1>5, <1>6, <1>7, <1>8, <1>9, <1>10, <1>11 DEF DnsSteps

LEMMA MessageStepsJudged ==
  ASSUME Judged, MessageSteps
  PROVE  Judged'
<1>1. CASE \E h \in HeaderFacts, d \in Domains \cup {<<>>}, b \in BOOLEAN \cup {NoValue} :
             CheckHeaders(h, d, b)
  BY <1>1, HeadersTell, ConcludeJudged DEF CheckHeaders, MessageStep
<1>2. CASE \E f \in FromFacts(Domains) : CheckFrom(f)
  <2>1. PICK f \in FromFacts(Domains) : CheckFrom(f)
    BY <1>2
  <2>2. f.addresses \in 0..2 /\ f.shown \in 0..1
    BY DEF FromFacts
  <2>3. QED
    BY <2>1, <2>2, FromTells, ConcludeJudged DEF CheckFrom, MessageStep
<1>3. CASE \E u \in UnsubscribeFacts : CheckUnsubscribe(u)
  <2>1. TreatedAsBulk \in BOOLEAN
    BY DEF TreatedAsBulk
  <2>2. QED
    BY <1>3, <2>1, UnsubscribeTells, ConcludeJudged DEF CheckUnsubscribe, MessageStep
<1>4. CASE \E signatures \in Signatures : CheckSignatures(signatures)
  BY <1>4, SignaturesTell, ConcludeJudged DEF CheckSignatures, MessageStep
<1>5. CASE \E headers \in {<<>>} \cup {<<m>> : m \in [{"spf", "dmarc"} -> AuthOutcomes]} :
              \E arc, multipart, subtypes, mime : CheckReceived(headers, arc, multipart, subtypes, mime)
  <2>1. PICK headers \in {<<>>} \cup {<<m>> : m \in [{"spf", "dmarc"} -> AuthOutcomes]} :
               \E arc, multipart, subtypes, mime : CheckReceived(headers, arc, multipart, subtypes, mime)
    BY <1>5
  <2>2. PICK arc, multipart, subtypes, mime : CheckReceived(headers, arc, multipart, subtypes, mime)
    BY <2>1
  <2> DEFINE findings == AuthFindings(headers) \cup ArcFindings(arc[1], arc[2], arc[3])
                           \cup BodyFindings(multipart, subtypes, mime)
             meets == \A method \in Methods :
                        headers # <<>> /\ method \in DOMAIN headers[1]
                          => headers[1][method] \notin {"fail", "permerror", "softfail", "policy"}
  <2>3. Conclude(findings, meets, FALSE)
    BY <2>2 DEF CheckReceived, MessageStep, Methods
  <2>4. headers = <<>> \/ (Len(headers) = 1 /\ DOMAIN headers = {1})
    OBVIOUS
  <2>5. Tells(AuthFindings(headers), meets)
    BY <2>4, AuthTells
  <2>6. Tells(findings, meets)
    BY <2>5, ReceivedTells
  <2> HIDE DEF findings, meets
  <2>7. QED
    BY <2>3, <2>6, ConcludeJudged
<1>6. QED
  BY <1>1, <1>2, <1>3, <1>4, <1>5 DEF MessageSteps

LEMMA AlwaysJudged == Spec => []Judged
<1>1. Init => Judged
  BY DEF Init, Judged, EmptyReport
<1>2. Judged /\ [Next]_vars => Judged'
  <2> SUFFICES ASSUME Judged, [Next]_vars PROVE Judged'
    OBVIOUS
  <2>1. CASE \E d \in Audited \cup {<<>>}, stage \in {"mx", "headers", "reputation"} : Start(d, stage)
    BY <2>1 DEF Start, Judged
  <2>2. CASE SpfSteps
    BY <2>2, SpfStepsJudged
  <2>3. CASE DnsSteps
    BY <2>3, DnsStepsJudged
  <2>4. CASE MessageSteps
    BY <2>4, MessageStepsJudged
  <2>5. CASE \E volume \in Volumes, rate \in SpamRates : CheckReputation(volume, rate)
    BY <2>5, ReputationTells, ConcludeJudged DEF CheckReputation
  <2>6. CASE UNCHANGED vars
    BY <2>6 DEF vars, auditVars, Judged
  <2>7. QED
    BY <2>1, <2>2, <2>3, <2>4, <2>5, <2>6 DEF Next, Finished
<1>3. QED
  BY <1>1, <1>2, PTL DEF Spec

\* No finding critical or worse means that the domain and the message are as
\* Gmail asks (AuditReport.gmail_ready), check by check, whatever is read.
THEOREM ReadyIsTrue == Spec => []ReadyMeansCompliant
<1>1. Judged => ReadyMeansCompliant
  BY Ranks DEF Judged, ReadyMeansCompliant, GmailReady
<1>2. QED
  BY <1>1, AlwaysJudged, PTL

-----------------------------------------------------------------------------
(* The types: what the walk has read, and where its suspended calls stand.  *)

\* A suspended call is of a name called with, whose record is at hand, and at one
\* of its terms or past the last.
Sound(frame, names, c) ==
  /\ frame.name \in names /\ Usable(c[frame.name])
  /\ frame.at \in 1..(Len(c[frame.name].records[1]) + 1)

WalkTyped ==
  /\ CacheAnswers /\ \A k \in DOMAIN stack : Sound(stack[k], visited, cache)
  /\ Len(stack) <= MAX_RECURSION_DEPTH + 1
  /\ call \in Names \cup {NoName} /\ voids \in Nat /\ loops \in Nat /\ cut \in BOOLEAN

ReadInv == WalkInv /\ WalkTyped

LEMMA NothingSuspended ==
  ASSUME NEW s, NEW names, NEW c, s = <<>>
  PROVE  /\ \A k \in DOMAIN s : Sound(s[k], names, c)
         /\ Len(s) <= MAX_RECURSION_DEPTH + 1
<1>1. DOMAIN s = {} /\ Len(s) = 0
  OBVIOUS
<1>2. 0 <= MAX_RECURSION_DEPTH + 1
  BY SpfAssumption
<1>3. QED
  BY <1>1, <1>2

LEMMA RestTyped ==
  ASSUME Resting
  PROVE  WalkTyped
<1>1. CacheAnswers
  BY DEF Resting, CacheAnswers
<1>2. call \in Names \cup {NoName} /\ voids \in Nat /\ loops \in Nat /\ cut \in BOOLEAN
  BY DEF Resting
<1>3. QED
  BY <1>1, <1>2, NothingSuspended DEF Resting, WalkTyped

LEMMA ReadRecordTyped ==
  ASSUME ReadInv, NEW answer \in Answers, NEW expand, ReadRecord(answer, expand)
  PROVE  WalkTyped'
<1>1. Resting
  BY DEF ReadInv, WalkInv, RestsOutside, ReadRecord
<1>2. CacheAnswers'
  BY QueryReads, SpfAssumption DEF ReadInv, WalkTyped, ReadRecord
<1>3. /\ stack' = <<>> /\ call' \in Names \cup {NoName}
      /\ voids' \in Nat /\ loops' \in Nat /\ cut' \in BOOLEAN
  BY <1>1, SpfAssumption DEF ReadRecord, Resting
<1>4. QED
  BY <1>2, <1>3, NothingSuspended DEF WalkTyped

\* A call that leads nowhere leaves the frames as they are.
LEMMA CallTyped ==
  ASSUME ReadInv, Revisit \/ TooDeep
  PROVE  WalkTyped'
<1>1. /\ UNCHANGED <<cache, stack, visited, voids>> /\ call' = NoName
      /\ loops' \in {loops, loops + 1} /\ cut' \in {cut, TRUE}
  BY DEF Revisit, TooDeep
<1>2. CacheAnswers'
  BY <1>1 DEF ReadInv, WalkTyped, CacheAnswers
<1>3. loops' \in Nat
  <2>1. loops \in Nat
    BY DEF ReadInv, WalkTyped
  <2>2. QED
    BY <1>1, <2>1
<1>4. cut' \in BOOLEAN
  BY <1>1 DEF ReadInv, WalkTyped
<1>5. QED
  BY <1>1, <1>2, <1>3, <1>4 DEF ReadInv, WalkTyped

LEMMA FetchTyped ==
  ASSUME ReadInv, NEW answer \in Answers, Fetch(answer)
  PROVE  WalkTyped'
<1>1. /\ call \in Names \ visited /\ visited \subseteq Names /\ stack \in Seq(Frame)
      /\ Query(call, answer) /\ visited' = visited \cup {call}
      /\ Len(stack) <= MAX_RECURSION_DEPTH
  BY DEF ReadInv, WalkInv, AskedBefore, DepthPaid, Fetch
<1>2. /\ CacheAnswers' /\ \A n \in visited : cache'[n] = cache[n]
      /\ Usable(cache'[call]) <=> Usable(answer)
  BY <1>1, QueryReads DEF ReadInv, WalkTyped
<1>3. voids' \in Nat /\ loops' \in Nat /\ cut' \in BOOLEAN /\ call' = NoName
  BY DEF ReadInv, WalkTyped, Fetch
<1>4. \A k \in DOMAIN stack : Sound(stack[k], visited', cache')
  <2>1. ASSUME NEW frame, Sound(frame, visited, cache) PROVE Sound(frame, visited', cache')
    BY <1>1, <1>2, <2>1 DEF Sound
  <2>2. QED
    BY <2>1 DEF ReadInv, WalkTyped
<1>5. CASE Usable(answer)
  <2> DEFINE frame == [name |-> call, at |-> 1]
             size == Len(cache'[call].records[1])
  <2>1. stack' = Append(stack, frame)
    BY <1>5 DEF Fetch
  <2>2. size \in Nat
    <3>1. cache'[call] \in Answers \cup {Unasked} /\ Usable(cache'[call])
      BY <1>1, <1>2, <1>5 DEF CacheAnswers
    <3>2. cache'[call].records[1] \in Seq(SpfTerm)
      BY <3>1, UsableHolds
    <3>3. QED
      BY <3>2
  <2>3. frame.name = call /\ frame.at = 1
    OBVIOUS
  <2>4. 1 \in 1..(size + 1)
    <3> HIDE DEF size
    <3>1. QED
      BY <2>2
  <2>5. Sound(frame, visited', cache')
    BY <1>1, <1>2, <1>5, <2>3, <2>4 DEF Sound
  <2> HIDE DEF frame, size
  <2>6. /\ Len(stack) \in Nat /\ DOMAIN stack = 1..Len(stack)
        /\ DOMAIN stack' = 1..(Len(stack) + 1) /\ Len(stack') = Len(stack) + 1
        /\ \A k \in 1..Len(stack) : stack'[k] = stack[k]
        /\ stack'[Len(stack) + 1] = frame
    BY <1>1, <2>1
  <2>7. ASSUME NEW k \in DOMAIN stack' PROVE Sound(stack'[k], visited', cache')
    <3>1. CASE k = Len(stack) + 1
      BY <2>5, <2>6, <3>1
    <3>2. CASE k # Len(stack) + 1
      <4>1. k \in DOMAIN stack /\ stack'[k] = stack[k]
        BY <2>6, <3>2
      <4>2. QED
        BY <1>4, <4>1
    <3>3. QED
      BY <3>1, <3>2
  <2>8. Len(stack') <= MAX_RECURSION_DEPTH + 1
    BY <1>1, <2>6, SpfAssumption
  <2>9. QED
    BY <1>2, <1>3, <2>7, <2>8 DEF WalkTyped
<1>6. CASE ~Usable(answer)
  <2>1. stack' = stack
    BY <1>6 DEF Fetch
  <2>2. QED
    BY <1>2, <1>3, <1>4, <2>1 DEF ReadInv, WalkTyped
<1>7. QED
  BY <1>5, <1>6

\* The innermost call, when the walk is at it.
LEMMA Innermost ==
  ASSUME ReadInv, stack # <<>>, NEW t, t = Len(stack)
  PROVE  /\ t \in DOMAIN stack /\ t \in Nat \ {0} /\ DOMAIN stack = 1..t
         /\ t <= MAX_RECURSION_DEPTH + 1
         /\ stack \in Seq(Frame) /\ stack[t] \in Frame /\ stack[t].at \in Nat
         /\ Sound(stack[t], visited, cache)
         /\ cache[stack[t].name].records[1] \in Seq(SpfTerm)
<1>1. stack \in Seq(Frame) /\ visited \subseteq Names
  BY DEF ReadInv, WalkInv, DepthPaid, AskedBefore
<1>2. t \in DOMAIN stack /\ t \in Nat \ {0} /\ DOMAIN stack = 1..t
  BY <1>1
<1>3. stack[t] \in Frame
  <2>1. \A k \in DOMAIN stack : stack[k] \in Frame
    BY <1>1
  <2>2. QED
    BY <1>2, <2>1
<1>4. Sound(stack[t], visited, cache) /\ t <= MAX_RECURSION_DEPTH + 1
  BY <1>2 DEF ReadInv, WalkTyped
<1>5. cache[stack[t].name].records[1] \in Seq(SpfTerm)
  <2>1. cache[stack[t].name] \in Answers \cup {Unasked} /\ Usable(cache[stack[t].name])
    BY <1>1, <1>4 DEF ReadInv, WalkTyped, CacheAnswers, Sound
  <2>2. QED
    BY <2>1, UsableHolds
<1>6. QED
  BY <1>1, <1>2, <1>3, <1>4, <1>5 DEF Frame

LEMMA NextTermTyped ==
  ASSUME ReadInv, NextTerm
  PROVE  WalkTyped'
<1> DEFINE t == Len(stack)
           terms == cache[stack[t].name].records[1]
           i == stack[t].at
           moved == [stack[t] EXCEPT !.at = @ + 1]
<1>1. /\ t \in DOMAIN stack /\ t \in Nat \ {0} /\ DOMAIN stack = 1..t
      /\ stack \in Seq(Frame) /\ stack[t] \in Frame /\ i \in Nat
      /\ Sound(stack[t], visited, cache) /\ terms \in Seq(SpfTerm)
  BY Innermost DEF NextTerm
<1>2. /\ i <= Len(terms) /\ stack' = [stack EXCEPT ![t] = moved]
      /\ call' = (IF Follows(terms[i]) THEN terms[i].target ELSE NoName)
      /\ UNCHANGED <<cache, visited, voids, loops, cut>>
  BY DEF NextTerm, Top, Terms
<1>3. i >= 1
  <2>1. i \in 1..(Len(terms) + 1)
    BY <1>1 DEF Sound
  <2>2. QED
    BY <2>1
<1>4. moved.name = stack[t].name /\ moved.at = i + 1 /\ moved \in Frame
  BY <1>1 DEF Frame
<1>5. stack' \in Seq(Frame) /\ Len(stack') = t /\ DOMAIN stack' = DOMAIN stack
      /\ stack'[t] = moved /\ \A k \in DOMAIN stack : k # t => stack'[k] = stack[k]
  <2> HIDE DEF moved, terms, i
  <2>1. QED
    BY <1>1, <1>2, <1>4
<1> HIDE DEF moved, terms
<1>6. i \in DOMAIN terms /\ i + 1 \in 1..(Len(terms) + 1)
  <2>1. Len(terms) \in Nat /\ DOMAIN terms = 1..Len(terms)
    BY <1>1, LenProperties
  <2> HIDE DEF i
  <2>2. QED
    BY <1>1, <1>2, <1>3, <2>1
<1>7. Sound(moved, visited, cache)
  BY <1>1, <1>4, <1>6 DEF Sound, terms
<1>8. \A k \in DOMAIN stack' : Sound(stack'[k], visited', cache')
  BY <1>1, <1>2, <1>5, <1>7 DEF ReadInv, WalkTyped
<1>9. call' \in Names \cup {NoName}
  <2>1. terms[i] \in SpfTerm
    BY <1>1, <1>6
  <2>2. QED
    BY <1>2, <2>1 DEF SpfTerm
<1>10. CacheAnswers'
  BY <1>2 DEF ReadInv, WalkTyped, CacheAnswers
<1>11. QED
  BY <1>2, <1>5, <1>8, <1>9, <1>10 DEF ReadInv, WalkTyped

LEMMA ReturnTyped ==
  ASSUME ReadInv, Return
  PROVE  WalkTyped'
<1> DEFINE t == Len(stack)
<1>1. /\ stack' = SubSeq(stack, 1, t - 1) /\ stack # <<>>
      /\ UNCHANGED <<cache, visited, call, voids, loops, cut>>
  BY DEF Return
<1>2. stack \in Seq(Frame) /\ t \in Nat \ {0} /\ t <= MAX_RECURSION_DEPTH + 1
  BY <1>1, Innermost
<1>3. stack' \in Seq(Frame) /\ Len(stack') = t - 1
  BY <1>1, <1>2, WithoutLast
<1>4. \A k \in 1..(t - 1) : stack'[k] = stack[k] /\ k \in DOMAIN stack
  BY <1>1, <1>2
<1>5. \A k \in DOMAIN stack' : stack'[k] = stack[k] /\ k \in DOMAIN stack
  BY <1>3, <1>4, LenProperties
<1>6. Len(stack') <= MAX_RECURSION_DEPTH + 1
  BY <1>2, <1>3, SpfAssumption
<1>7. CacheAnswers'
  BY <1>1 DEF ReadInv, WalkTyped, CacheAnswers
<1>8. QED
  BY <1>1, <1>5, <1>6, <1>7 DEF ReadInv, WalkTyped

LEMMA ReadInvStep ==
  ASSUME ReadInv, [Next]_vars
  PROVE  ReadInv'
<1>1. WalkInv'
  BY WalkInvStep DEF ReadInv
<1>2. ASSUME UNCHANGED walkVars PROVE ReadInv'
  <2>1. CacheAnswers'
    BY <1>2 DEF ReadInv, WalkTyped, CacheAnswers, walkVars
  <2>2. QED
    BY <1>1, <1>2, <2>1 DEF ReadInv, WalkTyped, walkVars
<1>3. CASE \E d \in Audited \cup {<<>>}, stage \in {"mx", "headers", "reputation"} : Start(d, stage)
  BY <1>2, <1>3 DEF Start
<1>4. CASE \E answer \in Answers, expand, long \in BOOLEAN : CheckSpf(answer, expand, long)
  BY <1>1, <1>4, ReadRecordTyped DEF CheckSpf, ReadInv
<1>5. CASE ExpandSpf
  BY <1>1, <1>5, CallTyped, FetchTyped, NextTermTyped, ReturnTyped
     DEF ExpandSpf, WalkStep, ReadInv
<1>6. CASE CountSpf
  <2>1. /\ cache' = [n \in Names |-> Unasked] /\ stack' = <<>> /\ call' = NoName
        /\ voids' \in Nat /\ loops' \in Nat /\ cut' \in BOOLEAN
    BY <1>6 DEF CountSpf
  <2>2. CacheAnswers'
    BY <2>1 DEF CacheAnswers
  <2>3. QED
    BY <1>1, <2>1, <2>2, NothingSuspended DEF ReadInv, WalkTyped
<1>7. CASE DnsSteps
  BY <1>2, <1>7, DnsStepsElsewhere DEF Elsewhere
<1>8. CASE MessageSteps
  BY <1>2, <1>8, MessageStepsElsewhere DEF Elsewhere
<1>9. CASE \E volume \in Volumes, rate \in SpamRates : CheckReputation(volume, rate)
  BY <1>2, <1>9 DEF CheckReputation
<1>10. CASE UNCHANGED vars
  BY <1>2, <1>10 DEF vars, spfVars
<1>11. QED
  BY <1>3, <1>4, <1>5, <1>6, <1>7, <1>8, <1>9, <1>10 DEF Next, SpfSteps, Finished

LEMMA ReadInvInit == Init => ReadInv
BY WalkInvInit, RestTyped DEF Init, ReadInv

-----------------------------------------------------------------------------
(* What an audit has still to do.                                          *)

\* The checks still ahead of a stage.
Ahead(stage) ==
  CASE stage = "start" -> 19 [] stage = "mx" -> 18 [] stage = "spf" -> 17
    [] stage = "walk" -> 16 [] stage = "counted" -> 15 [] stage = "dkim" -> 14
    [] stage = "keys" -> 13 [] stage = "dmarc" -> 12 [] stage = "inherit" -> 11
    [] stage = "ips" -> 10 [] stage = "addresses" -> 9 [] stage = "transport" -> 8
    [] stage = "bimi" -> 7 [] stage = "headers" -> 6 [] stage = "from" -> 5
    [] stage = "unsubscribe" -> 4 [] stage = "signatures" -> 3 [] stage = "received" -> 2
    [] stage = "reputation" -> 1 [] OTHER -> 0

\* What the walk has still to do at depth k, when s is suspended, name is being
\* called and the records are those of c: the terms of the k-th frame and its
\* return, a term as two steps, the second of which is the call that it makes.
TermsAhead(s, c, k) ==
  IF k \in DOMAIN s THEN 2 * (Len(c[s[k].name].records[1]) + 1 - s[k].at) + 1 ELSE 0
Undone(s, name, c, k) ==
  TermsAhead(s, c, k) + (IF k = Len(s) /\ name # NoName THEN 1 ELSE 0)

\* What is left: checks, selectors or addresses, and the walk from the outside in.
Deepest == MAX_RECURSION_DEPTH + 3
Remaining ==
  [i \in 0..Deepest |-> IF i = 0 THEN Ahead(pc) ELSE IF i = 1 THEN left
                        ELSE Undone(stack, call, cache, i - 2)]

\* Less at the first place where they differ.
Shorter(x, y) ==
  \E i \in 0..Deepest : x[i] < y[i] /\ \A j \in 0..Deepest : j < i => x[j] = y[j]

LEMMA LeastOne ==
  ASSUME NEW S, S # {}, S \subseteq Nat
  PROVE  \E v \in S : \A w \in S : v <= w
<1>1. PICK v \in S : \A w \in S : ~(<<w, v>> \in OpToRel(<, Nat))
  BY NatLessThanWellFounded, WFMin
<1>2. \A w \in S : ~(w < v)
  BY <1>1 DEF OpToRel
<1>3. QED
  BY <1>2

\* Among vectors of natural numbers one is the shortest, so that a sequence of them
\* that gets shorter with every step ends.
LEMMA ShorterEnds ==
  ASSUME NEW S, S # {}, S \subseteq [0..Deepest -> Nat]
  PROVE  \E m \in S : \A x \in S : ~Shorter(x, m)
<1> DEFINE ShortTo(k, m) ==
             \A x \in S : \A i \in 0..Deepest :
               i < k /\ x[i] < m[i] => \E j \in 0..Deepest : j < i /\ x[j] # m[j]
           Reached == {k \in Nat : \E m \in S : ShortTo(k, m)}
<1>1. 0 \in Reached
  <2>1. \A i \in 0..Deepest : ~(i < 0)
    BY SpfAssumption DEF Deepest
  <2>2. PICK m \in S : TRUE
    OBVIOUS
  <2>3. ShortTo(0, m)
    BY <2>1
  <2>4. QED
    BY <2>3
<1>2. ASSUME NEW k \in Reached PROVE k + 1 \in Reached
  <2>1. k \in Nat
    OBVIOUS
  <2>2. PICK m \in S : ShortTo(k, m)
    OBVIOUS
  <2>3. CASE k \notin 0..Deepest
    <3>1. \A i \in 0..Deepest : i < k + 1 => i < k
      BY <2>1, <2>3, SpfAssumption DEF Deepest
    <3>2. ShortTo(k + 1, m)
      BY <2>2, <3>1
    <3>3. QED
      BY <2>1, <3>2
  <2>4. CASE k \in 0..Deepest
    <3> DEFINE Like == {x \in S : \A j \in 0..Deepest : j < k => x[j] = m[j]}
               Values == {x[k] : x \in Like}
    <3>1. Values # {} /\ Values \subseteq Nat
      <4>1. m \in Like
        OBVIOUS
      <4>2. \A x \in Like : x[k] \in Nat
        BY <2>4
      <4> HIDE DEF Like
      <4>3. QED
        BY <4>1, <4>2
    <3>2. PICK v \in Values : \A w \in Values : v <= w
      <4> HIDE DEF Values
      <4>1. QED
        BY <3>1, LeastOne
    <3>3. PICK n \in Like : n[k] = v
      OBVIOUS
    <3>4. ASSUME NEW x \in S, NEW i \in 0..Deepest, i < k + 1, x[i] < n[i]
          PROVE  \E j \in 0..Deepest : j < i /\ x[j] # n[j]
      <4>1. /\ \A j \in 0..Deepest : j < k => n[j] = m[j]
            /\ i < k + 1 /\ i \in Int
        BY <3>4
      <4>2. CASE i < k
        <5>1. x[i] < m[i]
          BY <3>4, <4>1, <4>2
        <5>2. PICK j \in 0..Deepest : j < i /\ x[j] # m[j]
          BY <2>2, <4>2, <5>1
        <5>3. j < k
          BY <2>1, <4>2, <5>2, SpfAssumption DEF Deepest
        <5>4. QED
          BY <4>1, <5>2, <5>3
      <4>3. CASE ~(i < k)
        <5>1. i = k
          BY <2>1, <4>1, <4>3
        <5>2. SUFFICES ASSUME \A j \in 0..Deepest : j < i => x[j] = n[j] PROVE FALSE
          OBVIOUS
        <5>3. x \in Like
          BY <4>1, <5>1, <5>2
        <5>4. x[k] \in Values
          BY <5>3
        <5>5. v <= x[k] /\ x[k] \in Nat /\ v \in Nat
          <6> HIDE DEF Values
          <6>1. QED
            BY <3>1, <3>2, <5>4
        <5>6. x[k] < v
          BY <3>3, <3>4, <5>1
        <5>7. QED
          BY <5>5, <5>6
      <4>4. QED
        BY <4>2, <4>3
    <3>5. ShortTo(k + 1, n) /\ n \in S
      BY <3>4
    <3>6. QED
      BY <2>1, <3>5
  <2>5. QED
    BY <2>3, <2>4
<1>3. Deepest + 1 \in Reached
  <2> DEFINE Never == Nat \ Reached
  <2>1. SUFFICES ASSUME Deepest + 1 \in Never PROVE FALSE
    BY SpfAssumption DEF Deepest
  <2> HIDE DEF Reached
  <2>2. PICK k \in Never : \A l \in Never : k <= l
    <3>1. Never # {} /\ Never \subseteq Nat
      BY <2>1
    <3> HIDE DEF Never
    <3>2. QED
      BY <3>1, LeastOne
  <2>3. k \in Nat /\ k # 0
    BY <1>1
  <2>4. k - 1 \in Nat /\ ~(k <= k - 1) /\ k - 1 + 1 = k
    BY <2>3
  <2>5. k - 1 \in Reached
    BY <2>2, <2>4
  <2>6. k \in Reached
    BY <1>2, <2>4, <2>5
  <2>7. QED
    BY <2>6
<1>4. PICK m \in S : ShortTo(Deepest + 1, m)
  BY <1>3
<1>5. ASSUME NEW x \in S, Shorter(x, m) PROVE FALSE
  <2>1. PICK i \in 0..Deepest : x[i] < m[i] /\ \A j \in 0..Deepest : j < i => x[j] = m[j]
    BY <1>5 DEF Shorter
  <2>2. i < Deepest + 1
    BY SpfAssumption DEF Deepest
  <2>3. QED
    BY <1>4, <2>1, <2>2
<1>6. QED
  BY <1>5

LEMMA NoEndlessShortening ==
  ~ \E f \in [Nat -> [0..Deepest -> Nat]] : \A n \in Nat : Shorter(f[n + 1], f[n])
<1>1. \A n \in Nat : n + 1 \in Nat
  OBVIOUS
<1> SUFFICES ASSUME NEW f \in [Nat -> [0..Deepest -> Nat]],
                    \A n \in Nat : Shorter(f[n + 1], f[n])
             PROVE  FALSE
  OBVIOUS
<1> DEFINE S == {f[n] : n \in Nat}
<1>2. S # {} /\ S \subseteq [0..Deepest -> Nat]
  OBVIOUS
<1>3. PICK m \in S : \A x \in S : ~Shorter(x, m)
  <2> HIDE DEF S
  <2>1. QED
    BY <1>2, ShorterEnds
<1>4. PICK n \in Nat : m = f[n]
  OBVIOUS
<1>5. f[n + 1] \in S /\ Shorter(f[n + 1], m)
  BY <1>1, <1>4
<1>6. QED
  BY <1>3, <1>5

LEMMA TermsAheadCount ==
  ASSUME ReadInv, NEW k
  PROVE  TermsAhead(stack, cache, k) \in Nat
<1>1. CASE k \notin DOMAIN stack
  BY <1>1 DEF TermsAhead
<1>2. CASE k \in DOMAIN stack
  <2> DEFINE size == Len(cache[stack[k].name].records[1])
             i == stack[k].at
  <2>1. Sound(stack[k], visited, cache) /\ visited \subseteq Names
    BY <1>2 DEF ReadInv, WalkTyped, WalkInv, AskedBefore
  <2>2. cache[stack[k].name] \in Answers \cup {Unasked} /\ Usable(cache[stack[k].name])
    BY <2>1 DEF ReadInv, WalkTyped, CacheAnswers, Sound
  <2>3. cache[stack[k].name].records[1] \in Seq(SpfTerm)
    BY <2>2, UsableHolds
  <2>4. size \in Nat /\ i \in 1..(size + 1)
    <3>1. size \in Nat
      <4> DEFINE terms == cache[stack[k].name].records[1]
      <4>1. terms \in Seq(SpfTerm) /\ size = Len(terms)
        BY <2>3
      <4> HIDE DEF terms, size
      <4>2. QED
        BY <4>1, LenProperties
    <3>2. i \in 1..(size + 1)
      BY <2>1 DEF Sound
    <3>3. QED
      BY <3>1, <3>2
  <2>5. TermsAhead(stack, cache, k) = 2 * (size + 1 - i) + 1
    BY <1>2 DEF TermsAhead
  <2> HIDE DEF size, i
  <2>6. 2 * (size + 1 - i) + 1 \in Nat
    BY <2>4
  <2>7. QED
    BY <2>5, <2>6
<1>3. QED
  BY <1>1, <1>2

LEMMA RemainingCount ==
  ASSUME ReadInv, left \in Nat
  PROVE  Remaining \in [0..Deepest -> Nat]
<1>1. Ahead(pc) \in Nat
  BY DEF Ahead
<1>2. \A k : Undone(stack, call, cache, k) \in Nat
  <2>1. TAKE k
  <2>2. TermsAhead(stack, cache, k) \in Nat
    BY TermsAheadCount
  <2> DEFINE n == TermsAhead(stack, cache, k)
             m == IF k = Len(stack) /\ call # NoName THEN 1 ELSE 0
  <2>3. m \in Nat /\ n \in Nat
    BY <2>2
  <2> HIDE DEF n, m
  <2>4. n + m \in Nat
    BY <2>3
  <2>5. QED
    BY <2>4 DEF n, m, Undone
<1>3. QED
  BY <1>1, <1>2 DEF Remaining

\* A later check.
LEMMA LaterCheck ==
  ASSUME Ahead(pc') < Ahead(pc)
  PROVE  Shorter(Remaining', Remaining)
<1>1. 0 \in 0..Deepest /\ \A j \in 0..Deepest : ~(j < 0)
  BY SpfAssumption DEF Deepest
<1>2. Remaining'[0] = Ahead(pc') /\ Remaining[0] = Ahead(pc)
  BY <1>1 DEF Remaining
<1>3. QED
  BY <1>1, <1>2 DEF Shorter

\* The same check, of which less is left.
LEMMA SameCheck ==
  ASSUME pc' = pc, left' < left
  PROVE  Shorter(Remaining', Remaining)
<1>1. {0, 1} \subseteq 0..Deepest /\ \A j \in 0..Deepest : j < 1 => j = 0
  BY SpfAssumption DEF Deepest
<1>2. Remaining'[0] = Remaining[0] /\ Remaining'[1] = left' /\ Remaining[1] = left
  BY <1>1 DEF Remaining
<1>3. QED
  BY <1>1, <1>2 DEF Shorter

\* The walk, of which less is left at depth t and the same further out.
LEMMA SameWalk ==
  ASSUME pc' = pc, left' = left, NEW t \in 0..(MAX_RECURSION_DEPTH + 1),
         Undone(stack', call', cache', t) < Undone(stack, call, cache, t),
         \A k \in Nat : k < t => Undone(stack', call', cache', k) = Undone(stack, call, cache, k)
  PROVE  Shorter(Remaining', Remaining)
<1>1. /\ t + 2 \in 0..Deepest /\ t + 2 # 0 /\ t + 2 # 1 /\ t + 2 - 2 = t
  BY SpfAssumption DEF Deepest
<1>2. ASSUME NEW i \in 0..Deepest, i # 0, i # 1
      PROVE  /\ Remaining[i] = Undone(stack, call, cache, i - 2)
             /\ Remaining'[i] = Undone(stack', call', cache', i - 2)
  BY <1>2 DEF Remaining
<1>3. Remaining'[t + 2] < Remaining[t + 2]
  BY <1>1, <1>2
<1>4. ASSUME NEW j \in 0..Deepest, j < t + 2 PROVE Remaining'[j] = Remaining[j]
  <2>1. CASE j \in {0, 1}
    BY <2>1 DEF Remaining
  <2>2. CASE j \notin {0, 1}
    <3>1. j - 2 \in Nat /\ j - 2 < t
      BY <1>4, <2>2, SpfAssumption DEF Deepest
    <3>2. QED
      BY <1>2, <2>2, <3>1
  <2>3. QED
    BY <2>1, <2>2
<1>5. QED
  BY <1>1, <1>3, <1>4 DEF Shorter

\* The pending call is made, and leaves the frames around it as they are.
LEMMA CallIsOver ==
  ASSUME ReadInv, pc' = pc, left' = left, call # NoName, call' = NoName,
         Len(stack) <= MAX_RECURSION_DEPTH + 1, 0 \notin DOMAIN stack',
         \A k \in DOMAIN stack :
           k \in DOMAIN stack' /\ stack'[k] = stack[k] /\ cache'[stack[k].name] = cache[stack[k].name]
  PROVE  Shorter(Remaining', Remaining)
<1> DEFINE t == Len(stack)
<1>1. stack \in Seq(Frame) /\ DOMAIN stack = 1..t /\ t \in Nat
  <2>1. stack \in Seq(Frame)
    BY DEF ReadInv, WalkInv, DepthPaid
  <2>2. QED
    BY <2>1
<1> HIDE DEF t
<1>2. ASSUME NEW k \in Nat, k <= t
      PROVE  TermsAhead(stack', cache', k) = TermsAhead(stack, cache, k)
  <2>1. CASE k \in DOMAIN stack
    BY <2>1 DEF TermsAhead
  <2>2. CASE k \notin DOMAIN stack
    <3>1. k = 0
      BY <1>1, <1>2, <2>2
    <3>2. QED
      BY <2>2, <3>1 DEF TermsAhead
  <2>3. QED
    BY <2>1, <2>2
<1>3. ASSUME NEW k \in Nat, k <= t PROVE Undone(stack', call', cache', k) = TermsAhead(stack, cache, k)
  <2>1. TermsAhead(stack', cache', k) = TermsAhead(stack, cache, k)
    BY <1>2, <1>3
  <2>2. TermsAhead(stack, cache, k) + 0 = TermsAhead(stack, cache, k)
    BY TermsAheadCount
  <2>3. QED
    BY <2>1, <2>2 DEF Undone
<1>4. Undone(stack, call, cache, t) = TermsAhead(stack, cache, t) + 1
  BY DEF Undone, t
<1>5. ASSUME NEW k \in Nat, k < t PROVE Undone(stack, call, cache, k) = TermsAhead(stack, cache, k)
  <2>1. k # Len(stack)
    <3>1. k # t
      BY <1>1, <1>5
    <3>2. QED
      BY <3>1 DEF t
  <2>2. TermsAhead(stack, cache, k) + 0 = TermsAhead(stack, cache, k)
    BY TermsAheadCount
  <2>3. QED
    BY <2>1, <2>2 DEF Undone
<1>6. Undone(stack', call', cache', t) < Undone(stack, call, cache, t)
  <2>1. Undone(stack', call', cache', t) = TermsAhead(stack, cache, t)
    BY <1>1, <1>3
  <2>2. TermsAhead(stack, cache, t) < TermsAhead(stack, cache, t) + 1
    <3>1. TermsAhead(stack, cache, t) \in Nat
      BY TermsAheadCount
    <3>2. QED
      BY <3>1
  <2>3. QED
    BY <1>4, <2>1, <2>2
<1>7. \A k \in Nat : k < t => Undone(stack', call', cache', k) = Undone(stack, call, cache, k)
  BY <1>1, <1>3, <1>5
<1>8. t \in 0..(MAX_RECURSION_DEPTH + 1)
  BY <1>1, SpfAssumption DEF t
<1>9. QED
  BY <1>6, <1>7, <1>8, SameWalk

LEMMA RevisitShortens ==
  ASSUME ReadInv, Revisit \/ TooDeep, left' = left
  PROVE  Shorter(Remaining', Remaining)
<1>1. /\ call \in Names /\ call' = NoName /\ UNCHANGED <<pc, cache, stack>>
  BY DEF ReadInv, WalkInv, AskedBefore, Revisit, TooDeep
<1>2. stack \in Seq(Frame) /\ Len(stack) <= MAX_RECURSION_DEPTH + 1
  BY DEF ReadInv, WalkInv, DepthPaid, WalkTyped
<1>3. 0 \notin DOMAIN stack
  BY <1>2
<1>4. QED
  BY <1>1, <1>2, <1>3, CallIsOver, SpfAssumption

LEMMA FetchShortens ==
  ASSUME ReadInv, NEW answer \in Answers, Fetch(answer), left' = left
  PROVE  Shorter(Remaining', Remaining)
<1>1. CASE pc' # pc
  <2>1. pc = "walk" /\ pc' = "counted"
    BY <1>1 DEF Fetch
  <2>2. QED
    BY <2>1, LaterCheck DEF Ahead
<1>2. CASE pc' = pc
  <2>1. /\ call \in Names \ visited /\ call' = NoName /\ Query(call, answer)
        /\ visited \subseteq Names /\ stack \in Seq(Frame)
        /\ Len(stack) <= MAX_RECURSION_DEPTH + 1
        /\ stack' = stack \/ stack' = Append(stack, [name |-> call, at |-> 1])
    BY DEF Fetch, ReadInv, WalkInv, AskedBefore, DepthPaid, WalkTyped
  <2>2. \A k \in DOMAIN stack : cache'[stack[k].name] = cache[stack[k].name]
    <3>1. \A n \in visited : cache'[n] = cache[n]
      BY <2>1, QueryReads DEF ReadInv, WalkTyped
    <3>2. \A k \in DOMAIN stack : stack[k].name \in visited
      BY DEF ReadInv, WalkTyped, Sound
    <3>3. QED
      BY <3>1, <3>2
  <2>3. /\ 0 \notin DOMAIN stack'
        /\ \A k \in DOMAIN stack : k \in DOMAIN stack' /\ stack'[k] = stack[k]
    <3> DEFINE frame == [name |-> call, at |-> 1]
    <3>1. stack' = stack \/ stack' = Append(stack, frame)
      BY <2>1
    <3> HIDE DEF frame
    <3>2. QED
      BY <2>1, <3>1
  <2>4. QED
    BY <1>2, <2>1, <2>2, <2>3, CallIsOver, SpfAssumption
<1>3. QED
  BY <1>1, <1>2

LEMMA NextTermShortens ==
  ASSUME ReadInv, NextTerm, left' = left
  PROVE  Shorter(Remaining', Remaining)
<1> DEFINE t == Len(stack)
           size == Len(cache[stack[t].name].records[1])
           i == stack[t].at
           moved == [stack[t] EXCEPT !.at = @ + 1]
<1>1. /\ t \in DOMAIN stack /\ t \in Nat \ {0} /\ DOMAIN stack = 1..t
      /\ t <= MAX_RECURSION_DEPTH + 1
      /\ stack \in Seq(Frame) /\ stack[t] \in Frame /\ i \in Nat
      /\ cache[stack[t].name].records[1] \in Seq(SpfTerm)
  BY Innermost DEF NextTerm
<1>2. /\ stack' = [stack EXCEPT ![t] = moved]
      /\ call = NoName /\ UNCHANGED <<pc, cache>>
  BY DEF NextTerm
<1>3. moved.name = stack[t].name /\ moved.at = i + 1 /\ moved \in Frame /\ size \in Nat
  BY <1>1 DEF Frame
<1>4. /\ Len(stack') = t /\ DOMAIN stack' = DOMAIN stack
      /\ stack'[t] = moved /\ \A k \in DOMAIN stack : k # t => stack'[k] = stack[k]
  <2> HIDE DEF moved, size, i
  <2>1. QED
    BY <1>1, <1>2, <1>3
<1> HIDE DEF moved
<1>5. Undone(stack, call, cache, t) = 2 * (size + 1 - i) + 1 + 0
  BY <1>1, <1>2 DEF Undone, TermsAhead
<1> DEFINE pending == IF call' # NoName THEN 1 ELSE 0
<1>6. Undone(stack', call', cache', t) = 2 * (size + 1 - (i + 1)) + 1 + pending
  BY <1>1, <1>2, <1>3, <1>4 DEF Undone, TermsAhead
<1>7. Undone(stack', call', cache', t) < Undone(stack, call, cache, t)
  <2>1. size \in Nat /\ i \in Nat /\ pending \in {0, 1}
    BY <1>1, <1>3
  <2> HIDE DEF size, i, pending
  <2>2. QED
    BY <1>5, <1>6, <2>1
<1>8. \A k \in Nat : k < t => Undone(stack', call', cache', k) = Undone(stack, call, cache, k)
  <2> HIDE DEF size, i
  <2>1. TAKE k \in Nat
  <2>2. HAVE k < t
  <2>3. k # t /\ k # Len(stack) /\ k # Len(stack')
    <3>1. k # t
      <4> HIDE DEF t
      <4>1. QED
        BY <1>1, <2>2
    <3>2. QED
      BY <1>4, <3>1
  <2>4. TermsAhead(stack', cache', k) = TermsAhead(stack, cache, k)
    BY <1>2, <1>4, <2>3 DEF TermsAhead
  <2>5. QED
    BY <2>3, <2>4 DEF Undone
<1>9. t \in 0..(MAX_RECURSION_DEPTH + 1)
  BY <1>1, SpfAssumption
<1>10. QED
  BY <1>2, <1>7, <1>8, <1>9, SameWalk

LEMMA ReturnShortens ==
  ASSUME ReadInv, Return, left' = left
  PROVE  Shorter(Remaining', Remaining)
<1>1. CASE pc' # pc
  <2>1. pc = "walk" /\ pc' = "counted"
    BY <1>1 DEF Return
  <2>2. QED
    BY <2>1, LaterCheck DEF Ahead
<1>2. CASE pc' = pc
  <2> DEFINE t == Len(stack)
  <2>1. /\ stack' = SubSeq(stack, 1, t - 1) /\ stack # <<>>
        /\ UNCHANGED <<cache, call>> /\ call = NoName
    BY DEF Return
  <2>2. /\ stack \in Seq(Frame) /\ t \in Nat \ {0} /\ t <= MAX_RECURSION_DEPTH + 1
        /\ t \in DOMAIN stack /\ DOMAIN stack = 1..t
    BY <2>1, Innermost
  <2>3. stack' \in Seq(Frame) /\ Len(stack') = t - 1
    BY <2>1, <2>2, WithoutLast
  <2>4. \A k \in 1..(t - 1) : stack'[k] = stack[k]
    BY <2>1, <2>2
  <2>5. DOMAIN stack' = 1..(t - 1)
    BY <2>3, LenProperties
  <2>6. Undone(stack', call', cache', t) = 0
    <3>1. t \notin DOMAIN stack'
      BY <2>2, <2>5
    <3>2. QED
      BY <2>1, <3>1 DEF Undone, TermsAhead
  <2>7. Undone(stack, call, cache, t) > 0
    <3> DEFINE n == TermsAhead(stack, cache, t)
               m == 2 * (Len(cache[stack[t].name].records[1]) + 1 - stack[t].at)
    <3>1. n \in Nat
      BY TermsAheadCount
    <3>2. n = m + 1
      BY <2>2 DEF TermsAhead
    <3>3. m \in Int /\ m # -1
      <4> DEFINE size == Len(cache[stack[t].name].records[1])
                 i == stack[t].at
      <4>1. size \in Nat /\ i \in Nat
        BY <2>1, Innermost
      <4>2. m = 2 * (size + 1 - i)
        OBVIOUS
      <4> HIDE DEF size, i, m
      <4>3. QED
        BY <4>1, <4>2
    <3> HIDE DEF m
    <3>4. n > 0
      <4> HIDE DEF n
      <4>1. QED
        BY <3>1, <3>2, <3>3
    <3>5. Undone(stack, call, cache, t) = n + 0
      BY <2>1 DEF Undone
    <3> HIDE DEF n
    <3>6. QED
      BY <3>1, <3>4, <3>5
  <2>8. \A k \in Nat : k < t => Undone(stack', call', cache', k) = Undone(stack, call, cache, k)
    <3>1. TAKE k \in Nat
    <3>2. HAVE k < t
    <3>3. (k \in DOMAIN stack <=> k \in DOMAIN stack')
          /\ (k \in DOMAIN stack => stack'[k] = stack[k])
      BY <2>2, <2>4, <2>5, <3>2
    <3>4. TermsAhead(stack', cache', k) = TermsAhead(stack, cache, k)
      BY <2>1, <3>3 DEF TermsAhead
    <3>5. QED
      BY <2>1, <3>4 DEF Undone
  <2>9. t \in 0..(MAX_RECURSION_DEPTH + 1)
    BY <2>2, SpfAssumption
  <2>10. Undone(stack', call', cache', t) < Undone(stack, call, cache, t)
    BY <2>6, <2>7
  <2>11. QED
    BY <1>2, <2>8, <2>9, <2>10, SameWalk
<1>3. QED
  BY <1>1, <1>2

-----------------------------------------------------------------------------
(* The types of the other checks, and that every step has less to do.       *)

ChecksTyped ==
  /\ pc \in Stages /\ domain \in Audited \cup {<<>>}
  /\ policy \in Policies \cup {"invalid", NoValue}
  /\ left \in 0..(MaxSelectors + MaxAddresses)
  /\ {explicit, found, complied} \subseteq BOOLEAN
  /\ from_domain \in Domains \cup {<<>>} /\ bulk \in BOOLEAN \cup {NoValue}

AuditInv == ReadInv /\ ChecksTyped

LEMMA EffectiveIsAPolicy ==
  ASSUME NEW answer \in DmarcAnswers, answer.records # <<>>, NEW inherited \in BOOLEAN
  PROVE  EffectivePolicy(answer.records[1], inherited) \in Policies \cup {"invalid", NoValue}
<1>1. ASSUME NEW r \in DmarcRecords
      PROVE  EffectivePolicy(r, inherited) \in Policies \cup {"invalid", NoValue}
  <2>1. r \in DmarcRecord
    BY AuditAssumption
  <2>2. QED
    BY <2>1 DEF DmarcRecord, EffectivePolicy, SubdomainPolicy
<1>2. answer.records[1] \in DmarcRecords
  <2>1. (CHOOSE r \in DmarcRecords : TRUE) \in DmarcRecords
    BY AuditAssumption
  <2>2. Found(<<>>).records = <<>> /\ NxDomain.records = <<>> /\ Failed.records = <<>>
    BY DEF Found, NxDomain, Failed
  <2>3. \A r : Found(<<r>>).records[1] = r /\ Found(<<r, r>>).records[1] = r
    BY DEF Found
  <2>4. Several(DmarcRecords).records[1] \in DmarcRecords
    BY <2>1, <2>3 DEF Several
  <2>5. answer = Several(DmarcRecords) \/ \E r \in DmarcRecords : answer = Found(<<r>>)
    BY <2>2 DEF DmarcAnswers
  <2>6. QED
    BY <2>3, <2>4, <2>5
<1>3. QED
  BY <1>1, <1>2

LEMMA FewerLeft ==
  ASSUME NEW n \in 0..(MaxSelectors + MaxAddresses), n > 0
  PROVE  n - 1 \in 0..(MaxSelectors + MaxAddresses) /\ n - 1 < n
BY AuditAssumption

\* A check with one of the DNS queries.
LEMMA DnsStepsShorten ==
  ASSUME AuditInv, DnsSteps
  PROVE  ChecksTyped' /\ Shorter(Remaining', Remaining)
<1>1. CASE \E mx \in MxAnswers : CheckMx(mx)
  <2>1. Ahead(pc') < Ahead(pc)
    BY <1>1 DEF CheckMx, Ahead
  <2>2. QED
    BY <1>1, <2>1, LaterCheck DEF AuditInv, ChecksTyped, CheckMx, Conclude, localVars, Stages
<1>2. CASE \E n \in 0..MaxSelectors, named \in BOOLEAN : BeginDkim(n, named)
  <2>1. Ahead(pc') < Ahead(pc)
    BY <1>2 DEF BeginDkim, Ahead
  <2>2. left' \in 0..(MaxSelectors + MaxAddresses)
    <3>1. left' \in 0..MaxSelectors
      BY <1>2 DEF BeginDkim
    <3>2. QED
      BY <3>1, AuditAssumption
  <2>3. QED
    BY <1>2, <2>1, <2>2, LaterCheck DEF AuditInv, ChecksTyped, BeginDkim, Stages
<1>3. CASE pc = "keys" /\ \E answer \in KeyAnswers : CheckSelector(answer)
  <2>1. PICK answer \in KeyAnswers : CheckSelector(answer)
    BY <1>3
  <2>2. left' \in 0..(MaxSelectors + MaxAddresses) /\ left' < left
    BY <2>1, FewerLeft DEF CheckSelector, AuditInv, ChecksTyped
  <2>3. complied' \in BOOLEAN /\ found' \in BOOLEAN
    BY <2>1 DEF CheckSelector, Conclude, AuditInv, ChecksTyped
  <2>4. UNCHANGED <<pc, domain, policy, explicit, from_domain, bulk>>
    BY <2>1 DEF CheckSelector
  <2>5. QED
    BY <2>2, <2>3, <2>4, SameCheck DEF AuditInv, ChecksTyped
<1>4. CASE EndDkim
  <2>1. Ahead(pc') < Ahead(pc)
    BY <1>4 DEF EndDkim, Ahead
  <2>2. QED
    BY <1>4, <2>1, LaterCheck DEF AuditInv, ChecksTyped, EndDkim, Conclude, Stages
<1>5. CASE \E answer \in DmarcAnswers : \E unauthorised \in 0..2 : CheckDmarc(answer, unauthorised)
  <2>1. PICK answer \in DmarcAnswers : \E unauthorised \in 0..2 : CheckDmarc(answer, unauthorised)
    BY <1>5
  <2>2. Ahead(pc') < Ahead(pc)
    BY <2>1 DEF CheckDmarc, Ahead
  <2>3. policy' \in Policies \cup {"invalid", NoValue}
    <3>1. policy' = IF answer.records = <<>> THEN NoValue
                    ELSE EffectivePolicy(answer.records[1], pc = "inherit")
      BY <2>1 DEF CheckDmarc
    <3>2. (pc = "inherit") \in BOOLEAN
      OBVIOUS
    <3>3. QED
      BY <3>1, <3>2, EffectiveIsAPolicy
  <2>4. /\ UNCHANGED <<domain, left, explicit, found, from_domain, bulk>>
        /\ complied' \in BOOLEAN /\ pc' = "ips"
    BY <2>1 DEF CheckDmarc, Conclude
  <2>5. QED
    BY <2>2, <2>3, <2>4, LaterCheck DEF AuditInv, ChecksTyped, Stages
<1>6. CASE \E answer \in DmarcAnswers : AskOrganization(answer)
  <2>1. Ahead(pc') < Ahead(pc)
    BY <1>6 DEF AskOrganization, FallsBack, Ahead
  <2>2. QED
    BY <1>6, <2>1, LaterCheck DEF AuditInv, ChecksTyped, AskOrganization, Stages
<1>7. CASE \E n \in 0..MaxAddresses : BeginAddresses(n)
  <2>1. Ahead(pc') < Ahead(pc)
    BY <1>7 DEF BeginAddresses, Ahead
  <2>2. left' \in 0..(MaxSelectors + MaxAddresses)
    <3>1. left' \in 0..MaxAddresses
      BY <1>7 DEF BeginAddresses
    <3>2. QED
      BY <3>1, AuditAssumption
  <2>3. QED
    BY <1>7, <2>1, <2>2, LaterCheck DEF AuditInv, ChecksTyped, BeginAddresses, Stages
<1>8. CASE \E kind, ptr, forward : CheckAddress(kind, ptr, forward)
  <2>1. /\ left > 0 /\ left' = left - 1 /\ complied' \in BOOLEAN
        /\ UNCHANGED <<pc, domain, policy, explicit, found, from_domain, bulk>>
    BY <1>8 DEF CheckAddress, Conclude
  <2>2. left' \in 0..(MaxSelectors + MaxAddresses) /\ left' < left
    BY <2>1, FewerLeft DEF AuditInv, ChecksTyped
  <2>3. QED
    BY <2>1, <2>2, SameCheck DEF AuditInv, ChecksTyped
<1>9. CASE EndAddresses
  <2>1. Ahead(pc') < Ahead(pc)
    BY <1>9 DEF EndAddresses, Ahead
  <2>2. QED
    BY <1>9, <2>1, LaterCheck DEF AuditInv, ChecksTyped, EndAddresses, auditVars, localVars, Stages
<1>10. CASE \E sts \in 0..2, tlsrpt \in 0..1, hasId \in BOOLEAN : CheckTransport(sts, hasId, tlsrpt)
  <2>1. Ahead(pc') < Ahead(pc)
    BY <1>10 DEF CheckTransport, Ahead
  <2>2. QED
    BY <1>10, <2>1, LaterCheck DEF AuditInv, ChecksTyped, CheckTransport, Conclude, localVars, Stages
<1>11. CASE \E published, logo, vmc \in BOOLEAN, next \in {"headers", "reputation"} :
              CheckBimi(published, logo, vmc, next)
  <2>1. Ahead(pc') < Ahead(pc)
    BY <1>11 DEF CheckBimi, Ahead
  <2>2. QED
    BY <1>11, <2>1, LaterCheck DEF AuditInv, ChecksTyped, CheckBimi, Conclude, localVars, Stages
<1>12. QED
  BY <1>1, <1>2, <1>3, <1>4, <1>5, <1>6, <1>7, <1>8, <1>9, <1>10, <1>11 DEF DnsSteps

LEMMA MessageStepsShorten ==
  ASSUME AuditInv, MessageSteps
  PROVE  ChecksTyped' /\ Shorter(Remaining', Remaining)
<1>1. ASSUME Ahead(pc') < Ahead(pc), pc' \in Stages, complied' \in BOOLEAN,
             UNCHANGED <<domain, policy, left, explicit, found>>,
             from_domain' \in Domains \cup {<<>>}, bulk' \in BOOLEAN \cup {NoValue}
      PROVE  ChecksTyped' /\ Shorter(Remaining', Remaining)
  BY <1>1, LaterCheck DEF AuditInv, ChecksTyped
<1>2. from_domain \in Domains \cup {<<>>} /\ bulk \in BOOLEAN \cup {NoValue}
  BY DEF AuditInv, ChecksTyped
<1>3. CASE \E h \in HeaderFacts, d \in Domains \cup {<<>>}, b \in BOOLEAN \cup {NoValue} :
              CheckHeaders(h, d, b)
  <2>1. /\ pc = "headers" /\ pc' = "from" /\ complied' \in BOOLEAN
        /\ UNCHANGED <<domain, policy, left, explicit, found>>
        /\ from_domain' \in Domains \cup {<<>>} /\ bulk' \in BOOLEAN \cup {NoValue}
    BY <1>2, <1>3 DEF CheckHeaders, MessageStep, Conclude, localVars
  <2>2. Ahead(pc') < Ahead(pc) /\ pc' \in Stages
    BY <2>1 DEF Ahead, Stages
  <2>3. QED
    BY <1>1, <2>1, <2>2
<1>4. CASE \E f : CheckFrom(f)
  <2>1. /\ pc = "from" /\ pc' = "unsubscribe" /\ complied' \in BOOLEAN
        /\ UNCHANGED <<domain, policy, left, explicit, found>>
        /\ from_domain' \in Domains \cup {<<>>} /\ bulk' \in BOOLEAN \cup {NoValue}
    BY <1>2, <1>4 DEF CheckFrom, MessageStep, Conclude, localVars
  <2>2. Ahead(pc') < Ahead(pc) /\ pc' \in Stages
    BY <2>1 DEF Ahead, Stages
  <2>3. QED
    BY <1>1, <2>1, <2>2
<1>5. CASE \E u : CheckUnsubscribe(u)
  <2>1. /\ pc = "unsubscribe" /\ pc' = "signatures" /\ complied' \in BOOLEAN
        /\ UNCHANGED <<domain, policy, left, explicit, found>>
        /\ from_domain' \in Domains \cup {<<>>} /\ bulk' \in BOOLEAN \cup {NoValue}
    BY <1>2, <1>5 DEF CheckUnsubscribe, MessageStep, Conclude, localVars
  <2>2. Ahead(pc') < Ahead(pc) /\ pc' \in Stages
    BY <2>1 DEF Ahead, Stages
  <2>3. QED
    BY <1>1, <2>1, <2>2
<1>6. CASE \E signatures : CheckSignatures(signatures)
  <2>1. /\ pc = "signatures" /\ pc' = "received" /\ complied' \in BOOLEAN
        /\ UNCHANGED <<domain, policy, left, explicit, found>>
        /\ from_domain' \in Domains \cup {<<>>} /\ bulk' \in BOOLEAN \cup {NoValue}
    BY <1>2, <1>6 DEF CheckSignatures, MessageStep, Conclude, localVars
  <2>2. Ahead(pc') < Ahead(pc) /\ pc' \in Stages
    BY <2>1 DEF Ahead, Stages
  <2>3. QED
    BY <1>1, <2>1, <2>2
<1>7. CASE \E headers, arc, multipart, subtypes, mime :
             CheckReceived(headers, arc, multipart, subtypes, mime)
  <2>1. /\ pc = "received" /\ pc' = "reputation" /\ complied' \in BOOLEAN
        /\ UNCHANGED <<domain, policy, left, explicit, found>>
        /\ from_domain' \in Domains \cup {<<>>} /\ bulk' \in BOOLEAN \cup {NoValue}
    BY <1>2, <1>7 DEF CheckReceived, MessageStep, Conclude, localVars
  <2>2. Ahead(pc') < Ahead(pc) /\ pc' \in Stages
    BY <2>1 DEF Ahead, Stages
  <2>3. QED
    BY <1>1, <2>1, <2>2
<1>8. QED
  BY <1>3, <1>4, <1>5, <1>6, <1>7 DEF MessageSteps

\* A step of the walk, or of the check around it.
LEMMA SpfStepsShorten ==
  ASSUME AuditInv, SpfSteps
  PROVE  ChecksTyped' /\ Shorter(Remaining', Remaining)
<1>1. CASE \E answer \in Answers, expand, long \in BOOLEAN : CheckSpf(answer, expand, long)
  <2>1. /\ pc = "spf" /\ pc' \in {"walk", "counted"} /\ complied' \in BOOLEAN
        /\ UNCHANGED <<domain, policy, localVars, from_domain, bulk>>
    BY <1>1 DEF CheckSpf, ReadRecord, Conclude
  <2>2. Ahead(pc') < Ahead(pc) /\ pc' \in Stages
    BY <2>1 DEF Ahead, Stages
  <2>3. QED
    BY <2>1, <2>2, LaterCheck DEF AuditInv, ChecksTyped, localVars
<1>2. CASE ExpandSpf
  <2>1. UNCHANGED <<domain, policy, left, explicit, found, complied, from_domain, bulk>>
    BY <1>2 DEF ExpandSpf, auditVars, localVars
  <2>2. pc' \in Stages
    BY <1>2 DEF ExpandSpf, WalkStep, Revisit, TooDeep, NextTerm, Return, Fetch, AuditInv,
                ChecksTyped, Stages
  <2>3. ReadInv /\ left' = left
    BY <2>1 DEF AuditInv
  <2>4. Shorter(Remaining', Remaining)
    BY <1>2, <2>3, RevisitShortens, FetchShortens, NextTermShortens, ReturnShortens
       DEF ExpandSpf, WalkStep
  <2>5. QED
    BY <2>1, <2>2, <2>4 DEF AuditInv, ChecksTyped
<1>3. CASE CountSpf
  <2>1. /\ pc = "counted" /\ pc' = "dkim"
        /\ UNCHANGED <<domain, policy, localVars, from_domain, bulk>>
    BY <1>3 DEF CountSpf
  <2>2. complied' \in BOOLEAN
    BY <1>3 DEF CountSpf, Conclude, AuditInv, ChecksTyped
  <2>3. Ahead(pc') < Ahead(pc) /\ pc' \in Stages
    BY <2>1 DEF Ahead, Stages
  <2>4. QED
    BY <2>1, <2>2, <2>3, LaterCheck DEF AuditInv, ChecksTyped, localVars
<1>4. QED
  BY <1>1, <1>2, <1>3 DEF SpfSteps

LEMMA NextShortens ==
  ASSUME AuditInv, Next
  PROVE  UNCHANGED vars \/ (ChecksTyped' /\ Shorter(Remaining', Remaining))
<1>1. CASE \E d \in Audited \cup {<<>>}, stage \in {"mx", "headers", "reputation"} : Start(d, stage)
  <2>1. /\ pc = "start" /\ pc' \in {"mx", "headers", "reputation"}
        /\ domain' \in Audited \cup {<<>>}
        /\ UNCHANGED <<policy, localVars, from_domain, bulk, complied>>
    BY <1>1 DEF Start
  <2>2. Ahead(pc') < Ahead(pc) /\ pc' \in Stages
    BY <2>1 DEF Ahead, Stages
  <2>3. QED
    BY <2>1, <2>2, LaterCheck DEF AuditInv, ChecksTyped, localVars
<1>2. CASE SpfSteps
  BY <1>2, SpfStepsShorten
<1>3. CASE DnsSteps
  BY <1>3, DnsStepsShorten
<1>4. CASE MessageSteps
  BY <1>4, MessageStepsShorten
<1>5. CASE \E volume \in Volumes, rate \in SpamRates : CheckReputation(volume, rate)
  <2>1. /\ pc = "reputation" /\ pc' = "done" /\ complied' \in BOOLEAN /\ bulk' = NoValue
        /\ UNCHANGED <<domain, policy, localVars, from_domain>>
    BY <1>5 DEF CheckReputation, Conclude
  <2>2. Ahead(pc') < Ahead(pc) /\ pc' \in Stages
    BY <2>1 DEF Ahead, Stages
  <2>3. QED
    BY <2>1, <2>2, LaterCheck DEF AuditInv, ChecksTyped, localVars
<1>6. CASE Finished
  BY <1>6 DEF Finished
<1>7. QED
  BY <1>1, <1>2, <1>3, <1>4, <1>5, <1>6 DEF Next

LEMMA AuditInvStep ==
  ASSUME AuditInv, [Next]_vars
  PROVE  AuditInv'
<1>1. ReadInv'
  BY ReadInvStep DEF AuditInv
<1>2. CASE UNCHANGED vars
  <2>1. ChecksTyped'
    BY <1>2 DEF AuditInv, ChecksTyped, vars, spfVars, auditVars, localVars
  <2>2. QED
    BY <1>1, <2>1 DEF AuditInv
<1>3. CASE Next /\ ~UNCHANGED vars
  BY <1>1, <1>3, NextShortens DEF AuditInv
<1>4. QED
  BY <1>2, <1>3

LEMMA AuditInvInit == Init => AuditInv
<1> SUFFICES ASSUME Init PROVE AuditInv
  OBVIOUS
<1>1. ReadInv
  BY ReadInvInit
<1>2. left \in 0..(MaxSelectors + MaxAddresses)
  <2>1. 0 \in 0..(MaxSelectors + MaxAddresses)
    BY AuditAssumption
  <2>2. QED
    BY <2>1 DEF Init
<1>3. ChecksTyped
  BY <1>2 DEF Init, ChecksTyped, Stages
<1>4. QED
  BY <1>1, <1>3 DEF AuditInv

\* The variables of the walk and of every check keep their types, whatever is read.
THEOREM TypeCorrect == Spec => []TypeOK
<1>1. AuditInv /\ [Next]_vars => AuditInv'
  BY AuditInvStep
<1>2. AuditInv /\ NothingMisread /\ Judged => TypeOK
  <2> SUFFICES ASSUME AuditInv, NothingMisread, Judged PROVE TypeOK
    OBVIOUS
  <2>1. stack \in Seq([name : visited, at : Nat \ {0}])
    <3>1. stack \in Seq(Frame)
      BY DEF AuditInv, ReadInv, WalkInv, DepthPaid
    <3>2. ASSUME NEW k \in DOMAIN stack PROVE stack[k] \in [name : visited, at : Nat \ {0}]
      <4>1. stack[k] \in Frame
        BY <3>1
      <4>2. Sound(stack[k], visited, cache)
        BY DEF AuditInv, ReadInv, WalkTyped
      <4>3. stack[k].name \in visited /\ stack[k].at >= 1
        BY <4>2 DEF Sound
      <4>4. QED
        BY <4>1, <4>3 DEF Frame
    <3>3. PICK n \in Nat : stack \in [1..n -> Frame]
      BY <3>1, SeqDef
    <3>4. stack \in [1..n -> [name : visited, at : Nat \ {0}]]
      BY <3>2, <3>3
    <3>5. QED
      BY <3>4, SeqDef
  <2>2. report \in {Rank[s] : s \in Severities}
    BY Ranks DEF Judged, Severities, Rank
  <2>3. asked \in [Names -> Nat] /\ visited \subseteq Names /\ lookups \in Nat
    BY DEF AuditInv, ReadInv, WalkInv, AskedBefore, DepthPaid
  <2>4. misread \in BOOLEAN /\ failed \in BOOLEAN
    BY DEF NothingMisread
  <2>5. QED
    BY <2>1, <2>2, <2>3, <2>4
       DEF AuditInv, ReadInv, WalkTyped, CacheAnswers, ChecksTyped, TypeOK
<1>3. QED
  BY <1>1, <1>2, AuditInvInit, NeverMisread, AlwaysJudged, PTL DEF Spec

\* However records refer to each other, and on however many names, every step of an
\* audit leaves less to do than before, and that cannot go on forever: a walk of
\* includes ends (_count_lookups), because its depth is limited and every call goes
\* once through the terms of one record.
THEOREM StepsLeaveLess ==
  /\ Spec => [](Remaining \in [0..Deepest -> Nat]) /\ [][Shorter(Remaining', Remaining)]_vars
  /\ ~ \E f \in [Nat -> [0..Deepest -> Nat]] : \A n \in Nat : Shorter(f[n + 1], f[n])
<1>1. AuditInv => Remaining \in [0..Deepest -> Nat]
  <2>1. left \in 0..(MaxSelectors + MaxAddresses) => left \in Nat
    BY AuditAssumption
  <2>2. QED
    BY <2>1, RemainingCount DEF AuditInv, ChecksTyped
<1>2. AuditInv /\ [Next]_vars => [Shorter(Remaining', Remaining)]_vars
  BY NextShortens
<1>3. AuditInv /\ [Next]_vars => AuditInv'
  BY AuditInvStep
<1>4. Spec => [](Remaining \in [0..Deepest -> Nat]) /\ [][Shorter(Remaining', Remaining)]_vars
  BY AuditInvInit, <1>1, <1>2, <1>3, PTL DEF Spec
<1>5. QED
  BY <1>4, NoEndlessShortening
=============================================================================
