------------------------------- MODULE SpfWalk -------------------------------
(***************************************************************************)
(* Counting the DNS lookups of an SPF record: check_spf reads the record   *)
(* of a domain, and _count_lookups walks everything its include: and       *)
(* redirect= terms reach, depth first, each name through the resolver's    *)
(* cache.  The recursion is an explicit stack of frames, its running sums  *)
(* two accumulators.  What a name publishes is decided when it is first    *)
(* asked for, so one behaviour stands for every zone that answers alike.   *)
(***************************************************************************)
EXTENDS Naturals, Sequences

CONSTANTS
  Names,                \* domain names that TXT queries are made for
  Root,                 \* the audited domain
  NoName,               \* the target of a term that leads nowhere
  Records,              \* the SPF records a name may publish
  MAX_DNS_LOOKUPS,
  MAX_RECURSION_DEPTH

ASSUME SpfAssumption ==
  /\ Root \in Names /\ NoName \notin Names
  /\ MAX_DNS_LOOKUPS \in Nat /\ MAX_RECURSION_DEPTH \in Nat
  /\ MAX_DNS_LOOKUPS <= MAX_RECURSION_DEPTH

VARIABLES
  pc,        \* where the audit is
  cache,     \* Resolver._cache and _negative: definitive answers by name
  asked,     \* how often each name was looked up; query_count is their sum
  call,      \* the name _count_lookups is being called with
  stack,     \* its suspended calls: the name, and the term they are at
  visited,   \* names that were called with before
  lookups,   \* running sum of the terms that cost a lookup
  voids,     \* running sum of the names without a usable record
  loops,     \* SPF_INCLUDE_LOOP findings
  cut        \* history: a call returned because it was too deep

walkVars == <<cache, asked, call, stack, visited, lookups, voids, loops, cut>>
spfVars == <<pc, walkVars>>

-----------------------------------------------------------------------------
(* Records and answers.                                                    *)

\* SpfTerm, without its spelling: flaw says that its value is missing or wrong.
SpfTerm == [name : {"all", "include", "a", "mx", "ptr", "exists", "ip4", "broad",
                    "redirect", "exp", "odd", "unknown"},
            qualifier : {"+", "-", "~", "?"},
            target : Names \cup {NoName},
            flaw : BOOLEAN]

CostsLookup(term) == term.name \in {"include", "a", "mx", "ptr", "exists", "redirect"}

Follows(term) == term.name \in {"include", "redirect"} /\ term.target # NoName

\* What the resolver gives for a TXT query: the SPF records among the strings,
\* no such name, or a failure (SERVFAIL, a timeout).
Found(records) == [kind |-> "found", records |-> records]
NxDomain == [kind |-> "nxdomain", records |-> <<>>]
Failed == [kind |-> "failed", records |-> <<>>]
Unasked == [kind |-> "unasked", records |-> <<>>]

\* More than one record; which ones they are makes no difference to the verdict.
Several(records) == LET r == CHOOSE r \in records : TRUE IN Found(<<r, r>>)

Answers == {Found(<<>>), NxDomain, Failed, Several(Records)} \cup {Found(<<r>>) : r \in Records}

Usable(answer) == Len(answer.records) = 1

-----------------------------------------------------------------------------
(* Resolver.query: only definitive answers are remembered.                 *)

\* Mutation: nothing is remembered.
QueryUncached(name, answer) ==
  /\ asked' = [asked EXCEPT ![name] = @ + 1]
  /\ cache' = [cache EXCEPT ![name] = answer]

Query(name, answer) ==
  IF cache[name] # Unasked
  THEN answer = cache[name] /\ UNCHANGED <<cache, asked>>
  ELSE /\ asked' = [asked EXCEPT ![name] = @ + 1]
       /\ cache' = IF answer = Failed THEN cache ELSE [cache EXCEPT ![name] = answer]

-----------------------------------------------------------------------------
(* The walk.                                                               *)

Resting ==
  /\ cache = [n \in Names |-> Unasked] /\ asked = [n \in Names |-> 0]
  /\ call = NoName /\ stack = <<>> /\ visited = {}
  /\ lookups = 0 /\ voids = 0 /\ loops = 0 /\ cut = FALSE

\* check_spf reads the record of the domain; without one there is nothing to
\* expand, and expansion may be switched off.
ReadRecord(answer, expand) ==
  /\ pc = "spf"
  /\ Query(Root, answer)
  /\ IF answer.records # <<>> /\ expand
     THEN pc' = "walk" /\ call' = Root
     ELSE pc' = "counted" /\ call' = call
  /\ UNCHANGED <<stack, visited, lookups, voids, loops, cut>>

\* Mutation: a name reached before is skipped without going on to the next.
RevisitStays == pc = "walk" /\ call \in visited /\ UNCHANGED spfVars

\* A name that was reached before is reported as a loop.
Revisit ==
  /\ pc = "walk" /\ call \in visited
  /\ loops' = loops + 1 /\ call' = NoName
  /\ UNCHANGED <<pc, cache, asked, stack, visited, lookups, voids, cut>>

\* Mutation: the depth is checked one call too early.
TooDeepSoon ==
  /\ pc = "walk" /\ call \in Names \ visited
  /\ stack # <<>>
  /\ Len(stack) >= MAX_RECURSION_DEPTH - 1
  /\ cut' = TRUE /\ call' = NoName
  /\ UNCHANGED <<pc, cache, asked, stack, visited, lookups, voids, loops>>

TooDeep ==
  /\ pc = "walk" /\ call \in Names \ visited
  /\ Len(stack) > MAX_RECURSION_DEPTH
  /\ cut' = TRUE /\ call' = NoName
  /\ UNCHANGED <<pc, cache, asked, stack, visited, lookups, voids, loops>>

\* Mutation: a name is known as visited only if it has a record.
FetchRemembersRecords(answer) ==
  /\ pc = "walk" /\ call \in Names \ visited
  /\ Len(stack) <= MAX_RECURSION_DEPTH
  /\ Query(call, answer)
  /\ call' = NoName
  /\ IF Usable(answer)
     THEN /\ stack' = Append(stack, [name |-> call, at |-> 1])
          /\ visited' = visited \cup {call}
          /\ UNCHANGED <<pc, voids>>
     ELSE /\ UNCHANGED <<stack, visited>>
          /\ voids' = IF stack = <<>> THEN voids ELSE voids + 1
          /\ pc' = IF stack = <<>> THEN "counted" ELSE pc
  /\ UNCHANGED <<lookups, loops, cut>>

\* A name that does not answer with exactly one record counts as a void lookup,
\* unless it is the domain itself.
Fetch(answer) ==
  /\ pc = "walk" /\ call \in Names \ visited
  /\ Len(stack) <= MAX_RECURSION_DEPTH
  /\ Query(call, answer)
  /\ visited' = visited \cup {call}
  /\ call' = NoName
  /\ IF Usable(answer)
     THEN stack' = Append(stack, [name |-> call, at |-> 1]) /\ UNCHANGED <<pc, voids>>
     ELSE /\ stack' = stack
          /\ voids' = IF stack = <<>> THEN voids ELSE voids + 1
          /\ pc' = IF stack = <<>> THEN "counted" ELSE pc
  /\ UNCHANGED <<lookups, loops, cut>>

Top == stack[Len(stack)]
Terms(name) == cache[name].records[1]

\* The next term of the innermost record.
NextTerm ==
  /\ pc = "walk" /\ call = NoName
  /\ stack # <<>> /\ Top.at <= Len(Terms(Top.name))
  /\ LET term == Terms(Top.name)[Top.at] IN
     /\ lookups' = IF CostsLookup(term) THEN lookups + 1 ELSE lookups
     /\ call' = IF Follows(term) THEN term.target ELSE NoName
  /\ stack' = [stack EXCEPT ![Len(stack)].at = @ + 1]
  /\ UNCHANGED <<pc, cache, asked, visited, voids, loops, cut>>

\* The innermost record is done.
Return ==
  /\ pc = "walk" /\ call = NoName
  /\ stack # <<>> /\ Top.at > Len(Terms(Top.name))
  /\ stack' = SubSeq(stack, 1, Len(stack) - 1)
  /\ pc' = IF Len(stack) = 1 THEN "counted" ELSE pc
  /\ UNCHANGED <<cache, asked, call, visited, lookups, voids, loops, cut>>

WalkStep ==
  \/ Revisit \/ TooDeep \/ NextTerm \/ Return
  \/ \E answer \in Answers : Fetch(answer)

-----------------------------------------------------------------------------
(* What must hold.                                                         *)

TooManyLookups == lookups > MAX_DNS_LOOKUPS

\* A chain that is cut off at the recursion limit is never reported as within
\* the lookup limit, though the cut itself adds no finding: every suspended call
\* has been paid for ("Cycles and excessive depth stop the walk and are recorded
\* as findings").
DepthCutIsReported == cut => TooManyLookups

\* However the records refer to each other, a name costs at most one query on
\* the network ("so that repeated SPF include: chains stay cheap and the lookup
\* counter reflects genuine network work").
AskedOnce == \A n \in Names : asked[n] <= 1
=============================================================================
