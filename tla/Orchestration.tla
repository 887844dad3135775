--------------------------- MODULE Orchestration ---------------------------
(***************************************************************************)
(* orchestration.execute_plan: one execution of a review plan.  A thread   *)
(* per reviewer makes the first-pass calls and their retries; the main     *)
(* thread waits for all of them, then turns their answers into decisions,  *)
(* at most one challenge, and one terminal event, recording every phase.   *)
(* record_event may raise at any of them.                                  *)
(*                                                                         *)
(* A finding is what the code branches on: the defect it describes (module *)
(* Normalization has the grouping), its severity, the confidence, and      *)
(* whether its citation fits the limits of a challenge.  An answer with a  *)
(* finding that is malformed, unsupported by the patch or someone else's   *)
(* is rejected as a whole: it is one of the errors of a call.              *)
(***************************************************************************)
EXTENDS ReviewPolicy, FiniteSets

CONSTANTS Policies,    \* review policies
          RiskSets,    \* sets of risk indicators a change may have
          Claims,      \* findings, as above
          Answers,     \* sets of findings a valid answer may consist of
          MaxFaults    \* bound: exceptions raised by record_event

Plans == {SelectPlan(policy, risks, {}) : policy \in Policies, risks \in RiskSets}
Defects == {claim.defect : claim \in Claims}

ASSUME PolicyAssumption == Policies \subseteq Policy /\ RiskSets \subseteq SUBSET RiskIndicators
ASSUME ClaimAssumption ==
  /\ \A claim \in Claims : {claim.material, claim.sure, claim.fits} \subseteq BOOLEAN
  /\ Answers \subseteq SUBSET Claims
  /\ \A answer \in Answers : IsFiniteSet(answer)
ASSUME FaultAssumption == MaxFaults \in Nat

VARIABLES plan,       \* the plan under execution
          bound,      \* the roles `reviewers` maps to a reviewer
          pc,         \* where the main thread is
          reviews,    \* each role's thread: calls made, last error, answer
          record,     \* the events recorded
          groups,     \* the groups' defects, in the order of their ids
          cursor,     \* how far in its sequence the loop under way is
          escalated,  \* some group was not resolved
          response,   \* the answer to the challenge under way
          faults      \* exceptions raised by record_event so far

vars == <<plan, bound, pc, reviews, record, groups, cursor, escalated, response, faults>>

Kinds == {"timeout", "invalid-output", "provider-error"}
Dispositions == {"confirm", "reject", "uncertain"}

(* An event, by what it is about: the review, a role or a group.           *)
Event(phase, about, result) == [phase |-> phase, about |-> about, result |-> result]

Phases == {"plan", "first-pass", "execution-error", "low-confidence-findings",
           "normalized-findings", "decision", "challenge", "challenge-response",
           "adjudication", "terminal"}
Results == Kinds \cup Dispositions
             \cup {"ACCEPT", "CHANGE", "ESCALATE", "INCOMPLETE", "completed", "incomplete",
                   "missing-reviewer", "unavailable", "none"}

Events == [phase : Phases, about : {"review"} \cup Roles \cup Defects, result : Results]

BeforePool == {"plan", "missing", "unstaffed"}
Disputing == {"challenged", "responding", "unavailable", "adjudicating"}
Ended == {"returned", "raised"}
Points == {"first-pass", "assess", "accepted", "doubted", "groups"}
            \cup BeforePool \cup Disputing \cup Ended

TypeOK ==
  /\ plan \in Plans
  /\ bound \subseteq Roles
  /\ pc \in Points
  /\ reviews \in [Roles -> [status : {"pending", "answered", "failed"}, tries : 0..4,
                            error : Kinds \cup {"none"}, findings : SUBSET Claims]]
  /\ record \in Seq(Events)
  /\ groups \in Seq(Defects)
  /\ cursor \in Nat
  /\ escalated \in BOOLEAN
  /\ response \in Dispositions \cup {"none", "unavailable"}
  /\ faults \in Nat

Init == /\ plan \in Plans
        /\ bound \in {{}, ToSet(plan.roles)}
        /\ pc = "plan"
        /\ reviews = [r \in Roles |-> [status |-> "pending", tries |-> 0,
                                       error |-> "none", findings |-> {}]]
        /\ record = <<>>
        /\ groups = <<>>
        /\ cursor = 0
        /\ escalated = FALSE
        /\ response = "none"
        /\ faults = 0

Panel == ToSet(plan.roles)

(* Mutant of Failed: failures count only when every reviewer failed.       *)
FailedOnlyTogether ==
  IF \A r \in Panel : reviews[r].status = "failed" THEN Panel ELSE {}

Failed == {r \in Panel : reviews[r].status = "failed"}

(* The failures are in role order, whatever the order the calls ended in:  *)
(* the first of them after the first i roles is at j.                      *)
NoneFailed(i, j) == \A k \in (i + 1)..j : plan.roles[k] \notin Failed
NextFailed(i, j) == j > i /\ plan.roles[j] \in Failed /\ NoneFailed(i, j - 1)

Material == {claim \in UNION {reviews[r].findings : r \in Panel} : claim.material}

Reported == {claim.defect : claim \in Material}

(* record_event at one point of the code; when it raises, with or without  *)
(* the event in the file, `handler` is where the exception is caught.      *)
Emit(point, event, next, handler) ==
  /\ pc = point
  /\ \/ /\ record' = Append(record, event)
        /\ pc' = next
        /\ UNCHANGED faults
     \/ /\ faults < MaxFaults
        /\ faults' = faults + 1
        /\ record' \in {record, Append(record, event)}
        /\ pc' = handler

EmitAt(point, event, next) == Emit(point, event, next, "raised")

(* _record_terminal is the last thing execute_plan does.                   *)
Close(point, outcome) == EmitAt(point, Event("terminal", "review", outcome), "returned")

inputs == <<plan, bound>>
loop == <<groups, cursor, escalated, response>>

-----------------------------------------------------------------------------
RecordPlan ==
  /\ EmitAt("plan", Event("plan", "review", "none"),
            IF Panel \subseteq bound THEN "first-pass" ELSE "missing")
  /\ UNCHANGED <<inputs, reviews, loop>>

RecordMissing ==
  /\ EmitAt("missing", Event("execution-error", "review", "missing-reviewer"), "unstaffed")
  /\ UNCHANGED <<inputs, reviews, loop>>

CloseMissing ==
  /\ Close("unstaffed", plan.missing)
  /\ UNCHANGED <<inputs, reviews, loop>>

Settle(r, status, error, findings) ==
  reviews' = [reviews EXCEPT ![r] = [status |-> status, tries |-> @.tries + 1,
                                     error |-> error, findings |-> findings]]

(* Mutant of Attempt: invalid output is retried like any other error.      *)
AttemptAnyway(r) ==
  /\ pc = "first-pass"
  /\ r \in Panel
  /\ reviews[r].status = "pending"
  /\ \E kind \in Kinds :
        Settle(r, IF reviews[r].tries = plan.retries THEN "failed" ELSE "pending", kind, {})
  /\ UNCHANGED <<inputs, pc, record, loop, faults>>

(* One attempt of a reviewer's thread.  Invalid output is final, any other *)
(* error is retried while the plan allows.                                 *)
Attempt(r) ==
  /\ pc = "first-pass"
  /\ r \in Panel
  /\ reviews[r].status = "pending"
  /\ \/ \E findings \in Answers : Settle(r, "answered", reviews[r].error, findings)
     \/ \E kind \in Kinds :
          Settle(r, IF kind = "invalid-output" \/ reviews[r].tries = plan.retries
                    THEN "failed" ELSE "pending", kind, {})
  /\ UNCHANGED <<inputs, pc, record, loop, faults>>

(* Mutant of RecordFirstPass: it waits for an answer of every reviewer.    *)
RecordFullPass ==
  /\ \A r \in Panel : reviews[r].status = "answered"
  /\ EmitAt("first-pass", Event("first-pass", "review", "completed"), "assess")
  /\ UNCHANGED <<inputs, reviews, loop>>

(* The pool is joined and the outcomes are read.                           *)
RecordFirstPass ==
  /\ \A r \in Panel : reviews[r].status # "pending"
  /\ EmitAt("first-pass", Event("first-pass", "review",
                                IF Failed = {} THEN "completed" ELSE "incomplete"),
            "assess")
  /\ UNCHANGED <<inputs, reviews, loop>>

RecordFailure ==
  /\ \E i \in DOMAIN plan.roles :
        LET r == plan.roles[i]
        IN  /\ NextFailed(cursor, i)
            /\ EmitAt("assess", Event("execution-error", r, reviews[r].error), "assess")
            /\ cursor' = i
  /\ UNCHANGED <<inputs, reviews, groups, escalated, response>>

(* Mutants of CloseFailed: after the first failure; without returning, as  *)
(* if the reviewers that answered, with nothing to report, were all.       *)
CloseFailedEarly ==
  /\ cursor > 0
  /\ Close("assess", "ESCALATE")
  /\ UNCHANGED <<inputs, reviews, loop>>

CloseFailedAndGoOn ==
  /\ Failed # {}
  /\ NoneFailed(cursor, Len(plan.roles))
  /\ EmitAt("assess", Event("terminal", "review", "ESCALATE"), "accepted")
  /\ UNCHANGED <<inputs, reviews, loop>>

CloseFailed ==
  /\ Failed # {}
  /\ NoneFailed(cursor, Len(plan.roles))
  /\ Close("assess", "ESCALATE")
  /\ UNCHANGED <<inputs, reviews, loop>>

Accept ==
  /\ Failed = {}
  /\ Material = {}
  /\ EmitAt("assess", Event("decision", "review", "ACCEPT"), "accepted")
  /\ UNCHANGED <<inputs, reviews, loop>>

CloseAccepted ==
  /\ Close("accepted", "ACCEPT")
  /\ UNCHANGED <<inputs, reviews, loop>>

Doubt ==
  /\ Failed = {}
  /\ \E claim \in Material : ~claim.sure
  /\ EmitAt("assess", Event("low-confidence-findings", "review", "none"), "doubted")
  /\ UNCHANGED <<inputs, reviews, loop>>

CloseDoubted ==
  /\ Close("doubted", "ESCALATE")
  /\ UNCHANGED <<inputs, reviews, loop>>

(* normalize_findings: the groups sorted by id, a hash.                    *)
Normalize ==
  /\ Failed = {}
  /\ Material # {}
  /\ \A claim \in Material : claim.sure
  /\ groups' \in SetToSeqs(Reported)
  /\ EmitAt("assess", Event("normalized-findings", "review", "none"), "groups")
  /\ UNCHANGED <<inputs, reviews, cursor, escalated, response>>

-----------------------------------------------------------------------------
(* The loops over the groups.                                              *)
InLoop == pc = "groups" /\ cursor < Len(groups)
Current == groups[cursor + 1]

Decide ==
  /\ InLoop
  /\ plan.challenges = 0
  /\ EmitAt("groups", Event("decision", Current, "CHANGE"), "groups")
  /\ cursor' = cursor + 1
  /\ UNCHANGED <<inputs, reviews, groups, escalated, response>>

(* No challenge is left for this group.                                    *)
PassOver ==
  /\ InLoop
  /\ plan.challenges # 0
  /\ cursor >= plan.challenges
  /\ EmitAt("groups", Event("adjudication", Current, "ESCALATE"), "groups")
  /\ cursor' = cursor + 1
  /\ escalated' = TRUE
  /\ UNCHANGED <<inputs, reviews, groups, response>>

(* make_dispute: a citation beyond the limits of a challenge raises.       *)
Fits == \A claim \in Material : claim.defect = Current => claim.fits

(* Mutant of Dispute: one challenge more than the plan allows.             *)
DisputeOnceMore ==
  /\ InLoop
  /\ cursor <= plan.challenges
  /\ EmitAt("groups", Event("challenge", Current, "none"), "challenged")
  /\ UNCHANGED <<inputs, reviews, loop>>

Dispute ==
  /\ InLoop
  /\ cursor < plan.challenges
  /\ \/ Fits /\ EmitAt("groups", Event("challenge", Current, "none"), "challenged")
     \/ ~Fits /\ pc' = "raised" /\ UNCHANGED <<record, faults>>
  /\ UNCHANGED <<inputs, reviews, loop>>

(* The reviewer confirms with evidence of the dispute, does not confirm,   *)
(* or gives no valid answer.                                               *)
Answer ==
  /\ pc = "challenged"
  /\ \/ response' \in Dispositions /\ pc' = "responding"
     \/ response' = "unavailable" /\ pc' = "unavailable"
  /\ UNCHANGED <<inputs, reviews, record, groups, cursor, escalated, faults>>

(* Recorded inside the try block: an exception here is one more missing    *)
(* answer.                                                                 *)
RecordResponse ==
  /\ Emit("responding", Event("challenge-response", Current, response),
          "adjudicating", "unavailable")
  /\ UNCHANGED <<inputs, reviews, loop>>

RecordUnavailable ==
  /\ EmitAt("unavailable", Event("challenge-response", Current, "unavailable"), "adjudicating")
  /\ response' = "unavailable"
  /\ escalated' = TRUE
  /\ UNCHANGED <<inputs, reviews, groups, cursor>>

(* Mutant of Ruling: a disposition of its own for a rejected challenge.    *)
RulingRejecting == IF response = "confirm" THEN "CHANGE"
                   ELSE IF response = "reject" THEN "REJECTED" ELSE "ESCALATE"

Ruling == IF response = "confirm" THEN "CHANGE" ELSE "ESCALATE"

Adjudicate ==
  /\ EmitAt("adjudicating", Event("adjudication", Current, Ruling), "groups")
  /\ cursor' = cursor + 1
  /\ escalated' = (escalated \/ Ruling = "ESCALATE")
  /\ UNCHANGED <<inputs, reviews, groups, response>>

(* Mutant of CloseGroups: the loop ends with the last challenge.           *)
CloseGroupsAtLimit ==
  /\ cursor = Len(groups) \/ cursor = plan.challenges
  /\ Close("groups", IF escalated THEN "ESCALATE" ELSE "CHANGE")
  /\ UNCHANGED <<inputs, reviews, loop>>

CloseGroups ==
  /\ cursor = Len(groups)
  /\ Close("groups", IF escalated THEN "ESCALATE" ELSE "CHANGE")
  /\ UNCHANGED <<inputs, reviews, loop>>

Main == \/ RecordPlan \/ RecordMissing \/ CloseMissing
        \/ RecordFirstPass \/ RecordFailure \/ CloseFailed
        \/ Accept \/ CloseAccepted \/ Doubt \/ CloseDoubted \/ Normalize
        \/ Decide \/ PassOver \/ Dispute \/ Answer \/ RecordResponse
        \/ RecordUnavailable \/ Adjudicate \/ CloseGroups

Next == Main \/ \E r \in Roles : Attempt(r)

Spec == Init /\ [][Next]_vars

(* Every request has a timeout, so every call returns; the main thread     *)
(* and the pool's threads are scheduled.                                   *)
FairSpec == Spec /\ WF_vars(Main) /\ \A r \in Roles : WF_vars(Attempt(r))

-----------------------------------------------------------------------------
Recorded(phase, about) ==
  {i \in 1..Len(record) : record[i].phase = phase /\ record[i].about = about}

Phased(phase) == {i \in 1..Len(record) : record[i].phase = phase}

Once(S) == \E i \in S : S = {i}

Closed(outcome) == \E i \in Recorded("terminal", "review") : record[i].result = outcome

AllReviewed == Panel \subseteq bound /\ \A r \in Panel : reviews[r].status = "answered"

(* The outcome is the one the reviewers' answers warrant: ACCEPT if and    *)
(* only if every selected reviewer gave a valid answer and none reports a  *)
(* material finding; CHANGE if and only if all of them did, are confident  *)
(* and, where the plan challenges, the only group was confirmed; so a      *)
(* failure of any reviewer never becomes a verdict.                        *)
LastAnswerConfirms ==
  \E i \in 1..Len(record) :
     /\ record[i].phase = "challenge-response"
     /\ record[i].result = "confirm"
     /\ \A j \in 1..Len(record) : record[j].phase = "challenge-response" => j <= i

Confirmed == LastAnswerConfirms /\ \E defect \in Defects : Reported = {defect}

Warranted(outcome) ==
  /\ outcome = "ACCEPT" <=> AllReviewed /\ Material = {}
  /\ outcome = "CHANGE" <=> /\ AllReviewed /\ Material # {}
                            /\ \A claim \in Material : claim.sure
                            /\ plan.challenges = 0 \/ Confirmed
  /\ outcome = "INCOMPLETE" => plan.missing = "INCOMPLETE" /\ ~(Panel \subseteq bound)

VerdictIsWarranted ==
  \A i \in Recorded("terminal", "review") : Warranted(record[i].result)

(* When the review closes, each failed reviewer has one execution-error    *)
(* with the kind of its last error, and no other reviewer has any.         *)
FailureIsRecorded(r) ==
  /\ Once(Recorded("execution-error", r))
  /\ \A i \in Recorded("execution-error", r) : record[i].result = reviews[r].error

FailuresAreRecorded ==
  Recorded("terminal", "review") # {} /\ Panel \subseteq bound =>
     \A r \in Panel : IF r \in Failed THEN FailureIsRecorded(r)
                                      ELSE Recorded("execution-error", r) = {}

(* When groups were formed and the review closes, every defect a reviewer  *)
(* reported, were it the only one, has exactly one decision, and the       *)
(* outcome is CHANGE exactly if each of them is.                           *)
Rulings(defect) == Recorded("decision", defect) \cup Recorded("adjudication", defect)

GroupsAreDecided(outcome) ==
  /\ \A defect \in Reported : Once(Rulings(defect))
  /\ outcome = "CHANGE" <=>
        \A defect \in Reported : \A i \in Rulings(defect) : record[i].result = "CHANGE"

EveryGroupIsDecided ==
  Recorded("normalized-findings", "review") # {} =>
     \A i \in Recorded("terminal", "review") : GroupsAreDecided(record[i].result)

(* At most as many challenges as the plan allows, each about a group of    *)
(* its own and put only after the first pass; an answer needs a challenge  *)
(* before it, and a group challenged is only changed when the last answer  *)
(* before its adjudication confirmed it.                                   *)
ChallengesAreBounded ==
  /\ Cardinality(Phased("challenge")) <= plan.challenges
  /\ \A i \in 1..Len(record) :
        /\ record[i].phase = "challenge-response" =>
              \E j \in Recorded("challenge", record[i].about) : j < i
        /\ record[i].phase = "adjudication" /\ record[i].result = "CHANGE" =>
              /\ i > 1 /\ record[i - 1].phase = "challenge-response"
              /\ record[i - 1].about = record[i].about
              /\ record[i - 1].result = "confirm"

(* A change with a risk that has a specialist is accepted, or asked to be  *)
(* changed, only with that specialist's answer; with any risk at all it    *)
(* has two reviewers and its findings were challenged.                     *)
RisksAreReviewed ==
  Closed("ACCEPT") \/ Closed("CHANGE") =>
     /\ \A role \in DOMAIN Specialist :
           Specialist[role] \cap plan.risks # {} => reviews[role].status = "answered"
     /\ plan.risks # {} => /\ \E r, q \in Panel : r # q
                           /\ Closed("CHANGE") => Confirmed

(* Each role's thread is a ReviewerCall, whatever the others do, and none  *)
(* goes on once the first pass is recorded.                                *)
Thread(r) == INSTANCE ReviewerCall
               WITH limit <- plan.retries, status <- reviews[r].status,
                    tries <- reviews[r].tries, error <- reviews[r].error,
                    findings <- reviews[r].findings

ThreadsAreCalls ==
  [][\A r \in Roles : reviews'[r] # reviews[r] =>
        Thread(r)!Next /\ Recorded("first-pass", "review") = {}]_vars

(* execute_plan ends, and unless something raised the review is closed.    *)
Concludes == <>(Recorded("terminal", "review") # {} \/ pc = "raised")

(* A failure inside the orchestration is recorded as a structured event.   *)
OrchestrationErrorsAreRecorded ==
  pc = "raised" /\ faults = 0 => \E i \in 1..Len(record) : record[i].phase = "execution-error"

-----------------------------------------------------------------------------
(* The refinement mapping: one run, which has claimed the record.          *)
ThisRun == "this run"

Verdict == IF Recorded("terminal", "review") = {} THEN "none" ELSE record[Len(record)].result

Record == INSTANCE ReviewRecord
            WITH Runs <- {ThisRun}, NoRun <- "no run",
                 stage <- IF Verdict = "none" THEN "running" ELSE "closed",
                 owner <- ThisRun,
                 asked <- IF \E r \in Panel : reviews[r].tries > 0 THEN {ThisRun} ELSE {},
                 verdict <- Verdict

(* An execution asks reviewers while the record is open, closes it once,   *)
(* and never decides ACCEPT or CHANGE with nobody asked: what              *)
(* ReviewLifecycle takes it to do.                                         *)
ImplementsRecord == [][Record!Next]_(Record!vars)
-----------------------------------------------------------------------------
(* Why: the parts of an inductive invariant.                               *)

(* A reviewer tries while the plan allows; only the pool's threads do, and *)
(* they are joined before their answers are used.                          *)
CallsInv ==
  /\ \A r \in Roles : /\ reviews[r].findings \in Answers \cup {{}}
                      /\ reviews[r].status = "pending" => reviews[r].tries <= plan.retries
                      /\ reviews[r].status # "pending" => reviews[r].tries > 0
                      /\ reviews[r].status = "failed" => reviews[r].error \in Kinds
                      /\ reviews[r].status = "pending" => reviews[r].findings = {}
  /\ pc \in {"missing", "unstaffed"} => ~(Panel \subseteq bound)
  /\ pc \notin BeforePool \cup Ended => Panel \subseteq bound
  /\ pc \notin BeforePool \cup Ended \cup {"first-pass"} =>
        \A r \in Panel : reviews[r].status # "pending"
  /\ pc \in BeforePool \cup {"first-pass"} => Recorded("first-pass", "review") = {}

(* How the answers were sorted out.                                        *)
AssessInv ==
  /\ pc \in {"accepted", "doubted", "groups"} \cup Disputing => Failed = {}
  /\ pc = "accepted" => Material = {}
  /\ pc = "doubted" => \E claim \in Material : ~claim.sure
  /\ pc \in {"groups"} \cup Disputing =>
        /\ Material # {} /\ \A claim \in Material : claim.sure
        /\ groups \in SetToSeqs(Reported)
        /\ cursor <= Len(groups)
  /\ pc \in BeforePool \cup {"first-pass"} => cursor = 0
  /\ pc \in {"assess", "accepted", "doubted"} /\ Failed = {} => cursor = 0
  /\ pc \in Disputing => cursor = 0 /\ plan.challenges = 1 /\ cursor < Len(groups)

(* What the record says of the challenge.                                  *)
ChallengeInv ==
  /\ pc \notin {"groups"} \cup Disputing \cup Ended \/ (pc = "groups" /\ cursor = 0) =>
        Phased("challenge") = {} /\ Phased("challenge-response") = {} /\ ~escalated
  /\ pc = "groups" /\ plan.challenges = 0 => ~escalated
  /\ pc = "groups" /\ plan.challenges = 1 /\ cursor = 1 => (escalated <=> ~LastAnswerConfirms)
  /\ pc = "groups" /\ plan.challenges = 1 /\ cursor > 1 => escalated
  /\ pc \in Disputing => Once(Phased("challenge")) /\ Recorded("challenge", Current) # {}
  /\ pc = "responding" => response \in Dispositions
  /\ pc \in {"challenged", "responding", "unavailable"} => ~escalated
  /\ pc = "adjudicating" =>
        /\ record # <<>> /\ record[Len(record)] = Event("challenge-response", Current, response)
        /\ escalated <=> response = "unavailable"

(* Every failure is in the record once the loop over them has passed it.   *)
FailureInv ==
  /\ pc \notin {"assess"} \cup Ended => \A r \in Panel : Recorded("execution-error", r) = {}
  /\ pc = "assess" =>
        \A k \in 1..Len(plan.roles) :
           IF k <= cursor /\ plan.roles[k] \in Failed
           THEN FailureIsRecorded(plan.roles[k])
           ELSE Recorded("execution-error", plan.roles[k]) = {}

(* So is every group's ruling once its loop has passed it, and escalated   *)
(* says whether one is not to change.                                      *)
Ruled(defect) == \E k \in 1..cursor : groups[k] = defect

RulingInv ==
  /\ pc \notin {"accepted", "groups"} \cup Disputing \cup Ended => Phased("decision") = {}
  /\ pc \notin {"groups"} \cup Disputing \cup Ended =>
        Phased("adjudication") = {} /\ Phased("normalized-findings") = {}
  /\ pc \in {"groups"} \cup Disputing =>
        \A defect \in Reported : IF Ruled(defect) THEN Once(Rulings(defect))
                                                  ELSE Rulings(defect) = {}
  /\ pc = "groups" =>
        (escalated <=> \E defect \in Reported : \E i \in Rulings(defect) :
                                                  record[i].result # "CHANGE")

(* A terminal event is the last one, and the verdict is not revised.       *)
ClosedInv ==
  \A i \in Phased("terminal") :
     /\ pc \in Ended
     /\ i = Len(record)
     /\ record[i].about = "review"
     /\ record[i].result \in {"ACCEPT", "CHANGE", "ESCALATE", "INCOMPLETE"}
     /\ record[i].result \in {"ACCEPT", "CHANGE"} => AllReviewed

ExecutionInv ==
  /\ TypeOK /\ CallsInv /\ AssessInv /\ ChallengeInv /\ FailureInv /\ RulingInv /\ ClosedInv
  /\ VerdictIsWarranted /\ FailuresAreRecorded /\ EveryGroupIsDecided /\ ChallengesAreBounded

=============================================================================
