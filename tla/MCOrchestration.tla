-------------------------- MODULE MCOrchestration --------------------------
(* Instances of Orchestration for TLC: changes without a risk, with one    *)
(* nobody specialises in and with one for security; a few findings.        *)
EXTENDS Orchestration

CONSTANTS d1, d2

DefaultOnly == {Default}
TwoPolicies == {Default, [max_reviewers |-> 4, retries |-> 0, missing |-> "INCOMPLETE"]}

SomeRisks == {{}, {"concurrency"}, {"identity-or-access"}}
OneRisk == {{"concurrency"}}

Claim(defect, material, sure, fits) ==
  [defect |-> defect, material |-> material, sure |-> sure, fits |-> fits]

Note == Claim(d1, FALSE, FALSE, FALSE)
Sure(defect) == Claim(defect, TRUE, TRUE, TRUE)
Unsure == Claim(d1, TRUE, FALSE, TRUE)
Long == Claim(d2, TRUE, TRUE, FALSE)

EveryClaim == {Note, Sure(d1), Sure(d2), Unsure, Long}
UpToTwo == {{}, {Note}, {Sure(d1)}, {Note, Unsure}, {Sure(d1), Sure(d2)}, {Sure(d1), Long}}
Singles == {F \in SUBSET EveryClaim : Cardinality(F) <= 1}
=============================================================================
