------------------------------- MODULE Findings -------------------------------
(***************************************************************************)
(* What a check reports and what a report concludes: findings with their   *)
(* severities, and the verdict on Gmail.  The score, which weighs findings *)
(* by severity, and titles, details and remedies are left out, and with    *)
(* them the order of findings and how often one occurs.                    *)
(***************************************************************************)
EXTENDS Integers, FiniteSetsExt

Rank == [pass |-> 0, info |-> 1, warning |-> 2, critical |-> 3, blocker |-> 4]
Severities == DOMAIN Rank

\* The findings of a check: this one and no other.
Finding(code, severity) == {[code |-> code, severity |-> severity]}

FindingIf(condition, code, severity) ==
  IF condition THEN Finding(code, severity) ELSE {}

\* An AuditReport as the rank of its worst finding.
EmptyReport == 0

Add(worst, findings) == Max({worst} \cup {Rank[f.severity] : f \in findings})

GmailReady(worst) == worst < Rank["critical"]
=============================================================================
