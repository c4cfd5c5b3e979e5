---------------------------- MODULE IdealLimiter ------------------------------
(***************************************************************************)
(* What the rate limiter promises: every client has a bucket of its own    *)
(* that refills with time.  No client is ever forgotten while they all fit *)
(* under the cap; beyond it, serving one client may reset one other.       *)
(***************************************************************************)
EXTENDS TokenBucket, FiniteSets

CONSTANTS
  Clients, Costs, MaxClients,
  NoAnswer         \* a client that has not been answered yet

VARIABLES
  level,     \* what each client's bucket holds now
  verdict    \* the last answer each client got

idealVars == <<level, verdict>>

Init ==
  /\ level = [c \in Clients |-> Capacity]
  /\ verdict = [c \in Clients |-> NoAnswer]

Tick ==
  /\ level' = [c \in Clients |-> AtMost(Capacity, level[c] + PerMinute)]
  /\ UNCHANGED verdict

MayForget(c) ==
  {S \in SUBSET (Clients \ {c}) :
     Cardinality(S) <= (IF Cardinality(Clients) > MaxClients THEN 1 ELSE 0)}

Check(c, cost) ==
  \E forgotten \in MayForget(c) :
    /\ level' = [d \in Clients |->
                   IF d = c THEN Spend(level[c], cost).tokens
                   ELSE IF d \in forgotten THEN Capacity ELSE level[d]]
    /\ verdict' = [verdict EXCEPT ![c] = Spend(level[c], cost).limit]

Next == Tick \/ \E c \in Clients, cost \in Costs : Check(c, cost)

Spec == Init /\ [][Next]_idealVars
=============================================================================
