---------------------------- MODULE ReviewPolicy ----------------------------
(***************************************************************************)
(* domain/policy.py: the plan ReviewPolicy.select_plan draws from the risk *)
(* indicators of a change.  Which indicators a path suggests is a search   *)
(* for words in it and is left out: named are the indicators found so,     *)
(* declared those of the command line.                                     *)
(***************************************************************************)
EXTENDS Integers, SequencesExt

RiskIndicators == {"identity-or-access", "infrastructure", "dependency-change",
                   "public-interface", "destructive-data", "retry-idempotency",
                   "concurrency", "migration"}
Roles == {"correctness", "testing", "security", "operations"}

Policy == [max_reviewers : 1..8, retries : 0..3, missing : {"ESCALATE", "INCOMPLETE"}]

Default == [max_reviewers |-> 4, retries |-> 1, missing |-> "ESCALATE"]

(* Who reviews what beyond correctness and tests.                          *)
Specialist == [role \in {"security", "operations"} |->
                 IF role = "security" THEN {"identity-or-access"}
                 ELSE {"infrastructure", "migration", "destructive-data"}]

Called(role, risks) == IF Specialist[role] \cap risks # {} THEN <<role>> ELSE <<>>

(* Mutant of Panelists: security is called for infrastructure only.        *)
PanelistsMisled(risks) ==
  IF risks = {} THEN <<"correctness">>
  ELSE <<"correctness", "testing">> \o Called("operations", risks)
         \o (IF "infrastructure" \in risks THEN <<"security">> ELSE <<>>)

Panelists(risks) ==
  IF risks = {} THEN <<"correctness">>
  ELSE <<"correctness", "testing">> \o Called("security", risks) \o Called("operations", risks)

SelectPlan(policy, named, declared) ==
  LET risks == named \cup declared
      all == Panelists(risks)
  IN  [risks      |-> risks,
       roles      |-> SubSeq(all, 1, IF Len(all) < policy.max_reviewers
                                     THEN Len(all) ELSE policy.max_reviewers),
       challenges |-> IF risks = {} THEN 0 ELSE 1,
       retries    |-> policy.retries,
       missing    |-> policy.missing]
=============================================================================
