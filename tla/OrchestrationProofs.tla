------------------------ MODULE OrchestrationProofs ------------------------
(***************************************************************************)
(* What one execution of a plan keeps, for every policy, set of risks,     *)
(* findings, order of the threads and failure of the record.               *)
(***************************************************************************)
EXTENDS Orchestration, TLAPS, FiniteSetTheorems, SequenceTheorems

-----------------------------------------------------------------------------
(* Plans.                                                                  *)

LEMMA CalledFacts ==
  ASSUME NEW role \in {"security", "operations"}, NEW risks
  PROVE  Called(role, risks) = <<>> \/ Called(role, risks) = <<role>>
BY DEF Called

Distinct(roles) == \A i, j \in 1..Len(roles) : i # j => roles[i] # roles[j]

(* Every specialist the risks call for is there, beside two others.        *)
Complete(roles, risks) ==
  /\ risks # {} => Len(roles) >= 2 /\ roles[1] = "correctness" /\ roles[2] = "testing"
  /\ \A role \in {"security", "operations"} :
        Specialist[role] \cap risks # {} => \E i \in 1..Len(roles) : roles[i] = role

LEMMA PanelistsFacts ==
  ASSUME NEW risks
  PROVE  /\ Panelists(risks) \in Seq(Roles)
         /\ Panelists(risks) # <<>> /\ Len(Panelists(risks)) <= 4
         /\ Distinct(Panelists(risks))
         /\ Complete(Panelists(risks), risks)
<1>. DEFINE two == <<"correctness", "testing">>
            s == Called("security", risks)
            o == Called("operations", risks)
            w == two \o s
<1>1. CASE risks = {}
  <2>1. "correctness" \in Roles
    BY DEF Roles
  <2>2. Panelists(risks) = <<"correctness">>
    BY <1>1 DEF Panelists
  <2>3. Distinct(<<"correctness">>)
    BY DEF Distinct
  <2>4. \A role : Specialist[role] \cap risks = {}
    BY <1>1
  <2>5. Complete(Panelists(risks), risks)
    BY <1>1, <2>4 DEF Complete
  <2>. QED
    BY <2>1, <2>2, <2>3, <2>5
<1>2. CASE risks # {}
  <2>a. Panelists(risks) = w \o o
    BY <1>2, Zenon DEF Panelists
  <2>b. /\ Specialist["security"] \cap risks # {} => Len(s) = 1
        /\ Specialist["operations"] \cap risks # {} => Len(o) = 1
    BY DEF Called
  <2>1. s \in Seq(Roles) /\ Len(s) \in 0..1 /\ (Len(s) = 1 => s[1] = "security")
    <3>1. s = <<>> \/ s = <<"security">>
      BY CalledFacts
    <3>. HIDE DEF s
    <3>2. CASE s = <<>>
      BY <3>2
    <3>3. CASE s = <<"security">>
      BY <3>3 DEF Roles
    <3>. QED
      BY <3>1, <3>2, <3>3
  <2>2. o \in Seq(Roles) /\ Len(o) \in 0..1 /\ (Len(o) = 1 => o[1] = "operations")
    <3>1. o = <<>> \/ o = <<"operations">>
      BY CalledFacts
    <3>. HIDE DEF o
    <3>2. CASE o = <<>>
      BY <3>2
    <3>3. CASE o = <<"operations">>
      BY <3>3 DEF Roles
    <3>. QED
      BY <3>1, <3>2, <3>3
  <2>3. two \in Seq(Roles) /\ Len(two) = 2 /\ two[1] = "correctness" /\ two[2] = "testing"
    BY DEF Roles
  <2>. HIDE DEF two, s, o
  <2>4. /\ w \in Seq(Roles) /\ Len(w) = 2 + Len(s)
        /\ w[1] = "correctness" /\ w[2] = "testing" /\ (Len(s) = 1 => w[3] = "security")
    <3>1. /\ w \in Seq(Roles) /\ Len(w) = 2 + Len(s)
          /\ \A i \in 1..(2 + Len(s)) : w[i] = IF i <= 2 THEN two[i] ELSE s[i - 2]
      <4>1. /\ w \in Seq(Roles) /\ Len(w) = Len(two) + Len(s)
            /\ \A i \in 1..(Len(two) + Len(s)) :
                  w[i] = IF i <= Len(two) THEN two[i] ELSE s[i - Len(two)]
        <5>1. two \in Seq(Roles) /\ s \in Seq(Roles)
          BY <2>1, <2>3
        <5>. QED
          BY ONLY <5>1, ConcatProperties, Zenon
      <4>. QED
        BY <2>3, <4>1, Zenon
    <3>. HIDE DEF w
    <3>. QED
      BY <3>1, <2>1, <2>3
  <2>. HIDE DEF w
  <2>5. /\ w \o o \in Seq(Roles) /\ Len(w \o o) = Len(w) + Len(o)
        /\ \A i \in 1..Len(w) : (w \o o)[i] = w[i]
        /\ Len(o) = 1 => (w \o o)[Len(w) + 1] = "operations"
    BY <2>2, <2>4
  <2>6. Distinct(w \o o)
    <3>1. CASE Len(s) = 0
      BY <3>1, <2>2, <2>4, <2>5 DEF Distinct
    <3>2. CASE Len(s) = 1
      BY <3>2, <2>2, <2>4, <2>5 DEF Distinct
    <3>. QED
      BY <2>1, <3>1, <3>2
  <2>c. Len(w \o o) = 2 + Len(s) + Len(o)
    BY <2>1, <2>2, <2>4, <2>5
  <2>7. w \o o # <<>>
    BY <2>1, <2>2, <2>4, <2>5
  <2>d. Len(w \o o) <= 4
    <3>1. Len(s) \in 0..1 /\ Len(o) \in 0..1
      BY <2>1, <2>2, Zenon
    <3>2. \A a, b \in 0..1 : 2 + a + b <= 4
      OBVIOUS
    <3>3. 2 + Len(s) + Len(o) <= 4
      BY ONLY <3>1, <3>2, Zenon
    <3>. QED
      BY ONLY <3>3, <2>c, Zenon
  <2>8. Complete(w \o o, risks)
    <3>1. Len(w \o o) >= 2 /\ (w \o o)[1] = "correctness" /\ (w \o o)[2] = "testing"
      BY <2>1, <2>2, <2>4, <2>5
    <3>2. Specialist["security"] \cap risks # {} =>
             3 \in 1..Len(w \o o) /\ (w \o o)[3] = "security"
      BY <2>1, <2>2, <2>4, <2>5, <2>b
    <3>3. Specialist["operations"] \cap risks # {} =>
             Len(w) + 1 \in 1..Len(w \o o) /\ (w \o o)[Len(w) + 1] = "operations"
      BY <2>1, <2>2, <2>4, <2>5, <2>b
    <3>. QED
      BY <3>1, <3>2, <3>3 DEF Complete
  <2>. QED
    BY <2>a, <2>5, <2>6, <2>7, <2>8, <2>d
<1>. QED
  BY <1>1, <1>2

LEMMA PlanFacts ==
  ASSUME NEW p \in Plans
  PROVE  /\ p.roles \in Seq(Roles) /\ Len(p.roles) > 0 /\ Distinct(p.roles)
         /\ p.challenges \in {0, 1}
         /\ p.retries \in 0..3
         /\ p.missing \in {"ESCALATE", "INCOMPLETE"}
<1>1. PICK policy \in Policy, risks \in RiskSets : p = SelectPlan(policy, risks, {})
  BY PolicyAssumption DEF Plans
<1>. DEFINE all == Panelists(risks \cup {})
            n == IF Len(all) < policy.max_reviewers THEN Len(all) ELSE policy.max_reviewers
<1>2. /\ p.roles = SubSeq(all, 1, n)
      /\ p.challenges \in {0, 1} /\ p.retries = policy.retries /\ p.missing = policy.missing
  BY <1>1 DEF SelectPlan
<1>3. all \in Seq(Roles) /\ all # <<>> /\ Distinct(all)
  BY PanelistsFacts
<1>. HIDE DEF all
<1>4. n \in 1..Len(all)
  BY <1>3 DEF Policy
<1>. HIDE DEF n
<1>5. /\ SubSeq(all, 1, n) \in Seq(Roles) /\ Len(SubSeq(all, 1, n)) = n
      /\ \A i \in 1..n : SubSeq(all, 1, n)[i] = all[i]
  BY <1>3, <1>4
<1>6. Distinct(p.roles)
  BY <1>2, <1>3, <1>4, <1>5 DEF Distinct
<1>. QED
  BY <1>2, <1>4, <1>5, <1>6 DEF Policy

(* A policy that lets four reviewers in cuts nobody.                       *)
Roomy == \A policy \in Policies : policy.max_reviewers >= 4

LEMMA FullPanel ==
  ASSUME Roomy, NEW p \in Plans
  PROVE  Complete(p.roles, p.risks) /\ (p.risks # {} => p.challenges = 1)
<1>1. PICK policy \in Policies, risks \in RiskSets : p = SelectPlan(policy, risks, {})
  BY DEF Plans
<1>. DEFINE all == Panelists(risks \cup {})
            n == IF Len(all) < policy.max_reviewers THEN Len(all) ELSE policy.max_reviewers
<1>2. /\ p.roles = SubSeq(all, 1, n) /\ p.risks = risks \cup {}
      /\ p.risks # {} => p.challenges = 1
  BY <1>1 DEF SelectPlan
<1>3. all \in Seq(Roles) /\ Len(all) <= 4 /\ Complete(all, p.risks)
  BY <1>2, PanelistsFacts
<1>4. policy.max_reviewers >= 4 /\ policy.max_reviewers \in 1..8
  BY PolicyAssumption DEF Roomy, Policy
<1>. HIDE DEF all
<1>5. n = Len(all)
  BY <1>3, <1>4
<1>6. SubSeq(all, 1, Len(all)) = all
  BY <1>3
<1>. QED
  BY <1>2, <1>3, <1>5, <1>6

-----------------------------------------------------------------------------
(* The record.                                                             *)

LEMMA Recording ==
  ASSUME TypeOK, NEW event, record' = Append(record, event)
  PROVE  /\ Len(record) \in Nat /\ Len(record') = Len(record) + 1
         /\ \A i \in 1..Len(record) : record'[i] = record[i]
         /\ record'[Len(record) + 1] = event
BY DEF TypeOK

LEMMA PhasedAfter ==
  ASSUME TypeOK, NEW event, record' = Append(record, event), NEW p
  PROVE  Phased(p)' = IF event.phase = p THEN Phased(p) \cup {Len(record) + 1} ELSE Phased(p)
BY Recording DEF Phased

LEMMA RecordedAfter ==
  ASSUME TypeOK, NEW event, record' = Append(record, event), NEW p, NEW a
  PROVE  Recorded(p, a)' = IF event.phase = p /\ event.about = a
                           THEN Recorded(p, a) \cup {Len(record) + 1} ELSE Recorded(p, a)
BY Recording DEF Recorded

LEMMA AnswerAfter ==
  ASSUME TypeOK, NEW event, record' = Append(record, event)
  PROVE  LastAnswerConfirms' <=> IF event.phase = "challenge-response"
                                 THEN event.result = "confirm" ELSE LastAnswerConfirms
<1>1. CASE event.phase = "challenge-response"
  BY <1>1, Recording DEF LastAnswerConfirms
<1>2. CASE event.phase # "challenge-response"
  <2>1. LastAnswerConfirms => LastAnswerConfirms'
    BY <1>2, Recording DEF LastAnswerConfirms
  <2>2. LastAnswerConfirms' => LastAnswerConfirms
    BY <1>2, Recording DEF LastAnswerConfirms
  <2>. QED
    BY <1>2, <2>1, <2>2
<1>. QED
  BY <1>1, <1>2

LEMMA Emitted ==
  ASSUME TypeOK, NEW point, NEW event \in Events, NEW next \in Points, NEW handler \in Points,
         Emit(point, event, next, handler)
  PROVE  /\ pc = point /\ pc' \in Points /\ record' \in Seq(Events) /\ faults' \in Nat
         /\ \/ record' = Append(record, event) /\ pc' = next
            \/ record' = Append(record, event) /\ pc' = handler
            \/ record' = record /\ pc' = handler
<1>1. /\ pc = point
      /\ \/ record' = Append(record, event) /\ pc' = next
         \/ record' = Append(record, event) /\ pc' = handler
         \/ record' = record /\ pc' = handler
  BY Zenon DEF Emit
<1>2. faults' = faults \/ faults' = faults + 1
  BY Zenon DEF Emit
<1>3. record \in Seq(Events) /\ faults \in Nat
  BY Zenon DEF TypeOK
<1>4. Append(record, event) \in Seq(Events)
  BY <1>3
<1>5. faults' \in Nat
  BY <1>2, <1>3
<1>. QED
  BY <1>1, <1>3, <1>4, <1>5, Zenon

-----------------------------------------------------------------------------
(* The types.                                                              *)

LEMMA EventIn ==
  ASSUME NEW phase \in Phases, NEW about \in {"review"} \cup Roles \cup Defects,
         NEW result \in Results
  PROVE  Event(phase, about, result) \in Events
BY DEF Event, Events

LEMMA CurrentIn ==
  ASSUME TypeOK, cursor < Len(groups)
  PROVE  Current \in Defects
BY DEF TypeOK, Current

(* What an action that records an event does to record, pc and faults.     *)
EmitTypes == pc' \in Points /\ record' \in Seq(Events) /\ faults' \in Nat

LEMMA EmitAtTypes ==
  ASSUME TypeOK, NEW point, NEW next \in Points, NEW handler \in Points,
         NEW phase \in Phases, NEW about \in {"review"} \cup Roles \cup Defects,
         NEW result \in Results, Emit(point, Event(phase, about, result), next, handler)
  PROVE  EmitTypes
BY EventIn, Emitted DEF EmitTypes

LEMMA CloseTypes ==
  ASSUME TypeOK, NEW point, NEW outcome \in Results, Close(point, outcome)
  PROVE  EmitTypes
<1>1. "terminal" \in Phases /\ {"returned", "raised"} \subseteq Points
  BY DEF Phases, Points, Ended
<1>. QED
  BY <1>1, EmitAtTypes DEF Close, EmitAt

LEMMA SortingTypes ==
  ASSUME ExecutionInv,
         \/ RecordPlan \/ RecordMissing \/ CloseMissing \/ RecordFirstPass \/ RecordFailure
         \/ CloseFailed \/ Accept \/ CloseAccepted \/ Doubt \/ CloseDoubted \/ CloseGroups
  PROVE  TypeOK'
<1>. USE DEF ExecutionInv, TypeOK
<1>a. {"plan", "first-pass", "execution-error", "decision", "low-confidence-findings"} \subseteq Phases
  BY DEF Phases
<1>b. {"none", "missing-reviewer", "completed", "incomplete", "ACCEPT", "CHANGE", "ESCALATE",
       "INCOMPLETE"} \cup Kinds \subseteq Results
  BY DEF Results
<1>c. {"first-pass", "missing", "unstaffed", "assess", "accepted", "doubted", "raised"} \subseteq Points
  BY DEF Points, BeforePool, Ended
<1>1. CASE RecordPlan
  <2>1. EmitTypes
    BY <1>1, <1>a, <1>b, <1>c, EmitAtTypes DEF RecordPlan, EmitAt
  <2>. QED
    BY <1>1, <2>1 DEF RecordPlan, EmitTypes, inputs, loop
<1>2. CASE RecordMissing
  <2>1. EmitTypes
    BY <1>2, <1>a, <1>b, <1>c, EmitAtTypes DEF RecordMissing, EmitAt
  <2>. QED
    BY <1>2, <2>1 DEF RecordMissing, EmitTypes, inputs, loop
<1>3. CASE CloseMissing
  <2>1. EmitTypes
    BY <1>3, <1>b, CloseTypes, PlanFacts DEF CloseMissing
  <2>. QED
    BY <1>3, <2>1 DEF CloseMissing, EmitTypes, inputs, loop
<1>4. CASE RecordFirstPass
  <2>1. EmitTypes
    BY <1>4, <1>a, <1>b, <1>c, EmitAtTypes DEF RecordFirstPass, EmitAt
  <2>. QED
    BY <1>4, <2>1 DEF RecordFirstPass, EmitTypes, inputs, loop
<1>5. CASE RecordFailure
  <2>1. PICK i \in DOMAIN plan.roles :
           /\ NextFailed(cursor, i) /\ cursor' = i
           /\ EmitAt("assess", Event("execution-error", plan.roles[i], reviews[plan.roles[i]].error),
                     "assess")
    BY <1>5 DEF RecordFailure
  <2>2. plan.roles[i] \in Roles /\ i \in Nat
    BY <2>1, PlanFacts
  <2>3. reviews[plan.roles[i]].error \in Kinds
    BY <2>1, <2>2 DEF NextFailed, Failed, CallsInv
  <2>4. EmitTypes
    BY <2>1, <2>2, <2>3, <1>a, <1>b, <1>c, EmitAtTypes DEF EmitAt
  <2>. QED
    BY <1>5, <2>1, <2>2, <2>4 DEF RecordFailure, EmitTypes, inputs
<1>6. CASE CloseFailed \/ CloseAccepted \/ CloseDoubted \/ CloseGroups
  <2>1. EmitTypes
    BY <1>6, <1>b, CloseTypes DEF CloseFailed, CloseAccepted, CloseDoubted, CloseGroups
  <2>. QED
    BY <1>6, <2>1 DEF CloseFailed, CloseAccepted, CloseDoubted, CloseGroups, EmitTypes, inputs, loop
<1>7. CASE Accept \/ Doubt
  <2>1. EmitTypes
    BY <1>7, <1>a, <1>b, <1>c, EmitAtTypes DEF Accept, Doubt, EmitAt
  <2>. QED
    BY <1>7, <2>1 DEF Accept, Doubt, EmitTypes, inputs, loop
<1>. QED
  BY <1>1, <1>2, <1>3, <1>4, <1>5, <1>6, <1>7

-----------------------------------------------------------------------------
(* The groups.                                                             *)

LEMMA ImageIsFinite ==
  ASSUME NEW S, IsFiniteSet(S), NEW T, NEW f \in [S -> T], T = {f[x] : x \in S}
  PROVE  IsFiniteSet(T)
<1>1. f \in Surjection(S, T)
  BY DEF Surjection
<1>. QED
  BY <1>1, FS_Surjection

LEMMA ReportedFacts ==
  ASSUME TypeOK, CallsInv
  PROVE  /\ Material \subseteq Claims
         /\ IsFiniteSet(Reported) /\ Reported \subseteq Defects
         /\ Reported = {} <=> Material = {}
<1>1. IsFiniteSet(Roles)
  <2>1. Roles = ({"correctness"} \cup {"testing"}) \cup ({"security"} \cup {"operations"})
    BY DEF Roles
  <2>2. \A x : IsFiniteSet({x})
    BY FS_Singleton
  <2>. QED
    BY <2>1, <2>2, FS_Union
<1>2. Panel \subseteq Roles
  BY PlanFacts DEF Panel, ToSet, TypeOK
<1>3. IsFiniteSet(Panel)
  BY <1>1, <1>2, FS_Subset
<1>. DEFINE Sets == {reviews[r].findings : r \in Panel}
<1>4. \A F \in Sets : IsFiniteSet(F) /\ F \subseteq Claims
  <2>1. SUFFICES ASSUME NEW r \in Panel
                 PROVE  IsFiniteSet(reviews[r].findings) /\ reviews[r].findings \subseteq Claims
    OBVIOUS
  <2>2. reviews[r].findings \in Answers \cup {{}}
    BY <1>2 DEF CallsInv
  <2>. QED
    BY <2>2, ClaimAssumption, FS_EmptySet
<1>5. IsFiniteSet(Sets)
  <2>. DEFINE f == [r \in Panel |-> reviews[r].findings]
  <2>1. f \in [Panel -> Sets] /\ Sets = {f[r] : r \in Panel}
    OBVIOUS
  <2>. HIDE DEF f, Sets
  <2>. QED
    BY ONLY <1>3, <2>1, ImageIsFinite
<1>6. IsFiniteSet(UNION Sets) /\ UNION Sets \subseteq Claims
  BY <1>4, <1>5, FS_UNION
<1>7. Material \subseteq UNION Sets
  BY DEF Material
<1>8. IsFiniteSet(Material)
  BY <1>6, <1>7, FS_Subset
<1>9. IsFiniteSet(Reported)
  <2>. DEFINE f == [claim \in Material |-> claim.defect]
  <2>1. f \in [Material -> Reported] /\ Reported = {f[claim] : claim \in Material}
    BY DEF Reported
  <2>. QED
    BY ONLY <1>8, <2>1, ImageIsFinite
<1>. QED
  BY <1>6, <1>7, <1>9 DEF Reported, Defects

LEMMA SeqsFacts ==
  ASSUME NEW S, IsFiniteSet(S), NEW s, s \in SetToSeqs(S)
  PROVE  /\ s \in Seq(S) /\ Len(s) = Cardinality(S)
         /\ Distinct(s)
         /\ \A x \in S : \E k \in 1..Len(s) : s[k] = x
<1>. DEFINE n == Cardinality(S)
<1>1. n \in Nat
  BY FS_CardinalityType
<1>2. s \in [1..n -> S] /\ \A i, j \in 1..n : i # j => s[i] # s[j]
  BY DEF SetToSeqs
<1>. HIDE DEF n
<1>3. s \in Seq(S) /\ Len(s) = n
  BY <1>1, <1>2
<1>4. s \in Injection(1..n, S)
  BY <1>2 DEF Injection, IsInjective
<1>5. Cardinality(1..n) = n
  BY <1>1, FS_Interval
<1>6. s \in Surjection(1..n, S)
  BY <1>4, <1>5, FS_Injection DEF n
<1>. QED
  BY <1>2, <1>3, <1>6 DEF Surjection, Distinct, n

LEMMA LoopTypes ==
  ASSUME ExecutionInv,
         \/ Normalize \/ Decide \/ PassOver \/ Dispute \/ Answer \/ RecordResponse
         \/ RecordUnavailable \/ Adjudicate \/ (\E r \in Roles : Attempt(r))
  PROVE  TypeOK'
<1>. USE DEF ExecutionInv, TypeOK
<1>a. {"normalized-findings", "decision", "challenge", "challenge-response", "adjudication"} \subseteq Phases
  BY DEF Phases
<1>b. {"none", "unavailable", "CHANGE", "ESCALATE"} \cup Dispositions \subseteq Results
  BY DEF Results
<1>c. {"first-pass", "groups", "raised"} \cup Disputing \subseteq Points
  BY DEF Points, Ended
<1>d. {"challenged", "responding", "unavailable", "adjudicating"} = Disputing
  BY DEF Disputing
<1>e. InLoop \/ pc \in Disputing => Current \in Defects
  BY CurrentIn DEF InLoop, AssessInv
<1>1. CASE Normalize
  <2>1. EmitTypes
    BY <1>1, <1>a, <1>b, <1>c, EmitAtTypes DEF Normalize, EmitAt
  <2>2. groups' \in Seq(Reported)
    BY <1>1, ReportedFacts, SeqsFacts DEF Normalize
  <2>3. groups' \in Seq(Defects)
    BY <2>2, ReportedFacts, SeqMonotonic
  <2>. QED
    BY <1>1, <2>1, <2>3 DEF Normalize, EmitTypes, inputs
<1>2. CASE Decide
  <2>1. EmitTypes
    BY <1>2, <1>a, <1>b, <1>c, <1>e, EmitAtTypes DEF Decide, EmitAt
  <2>. QED
    BY <1>2, <2>1 DEF Decide, EmitTypes, inputs
<1>3. CASE PassOver
  <2>1. EmitTypes
    BY <1>3, <1>a, <1>b, <1>c, <1>e, EmitAtTypes DEF PassOver, EmitAt
  <2>. QED
    BY <1>3, <2>1 DEF PassOver, EmitTypes, inputs
<1>4. CASE Dispute
  <2>1. EmitTypes
    <3>1. CASE EmitAt("groups", Event("challenge", Current, "none"), "challenged")
      BY <1>4, <3>1, <1>a, <1>b, <1>c, <1>d, <1>e, EmitAtTypes DEF Dispute, EmitAt
    <3>2. CASE pc' = "raised" /\ UNCHANGED <<record, faults>>
      BY <3>2, <1>c DEF EmitTypes
    <3>. QED
      BY <1>4, <3>1, <3>2 DEF Dispute
  <2>. QED
    BY <1>4, <2>1 DEF Dispute, EmitTypes, inputs, loop
<1>5. CASE Answer
  BY <1>5, <1>c, <1>d DEF Answer, inputs
<1>6. CASE RecordResponse
  <2>1. response \in Dispositions
    BY <1>6 DEF RecordResponse, Emit, ChallengeInv
  <2>2. EmitTypes
    BY <1>6, <2>1, <1>a, <1>b, <1>c, <1>d, <1>e, EmitAtTypes DEF RecordResponse, Emit
  <2>. QED
    BY <1>6, <2>2 DEF RecordResponse, EmitTypes, inputs, loop
<1>7. CASE RecordUnavailable
  <2>1. EmitTypes
    BY <1>7, <1>a, <1>b, <1>c, <1>d, <1>e, EmitAtTypes DEF RecordUnavailable, EmitAt, Emit
  <2>. QED
    BY <1>7, <2>1 DEF RecordUnavailable, EmitTypes, inputs
<1>8. CASE Adjudicate
  <2>1. EmitTypes
    BY <1>8, <1>a, <1>b, <1>c, <1>d, <1>e, EmitAtTypes DEF Adjudicate, Ruling, EmitAt, Emit
  <2>. QED
    BY <1>8, <2>1 DEF Adjudicate, EmitTypes, inputs
<1>9. ASSUME NEW r \in Roles, Attempt(r)
      PROVE TypeOK'
  <2>1. reviews[r].tries <= plan.retries /\ plan.retries \in 0..3
    BY <1>9, PlanFacts DEF Attempt, CallsInv
  <2>2. PICK status \in {"pending", "answered", "failed"}, error \in Kinds \cup {"none"},
             findings \in SUBSET Claims : Settle(r, status, error, findings)
    <3>1. CASE \E findings \in Answers : Settle(r, "answered", reviews[r].error, findings)
      BY <3>1, ClaimAssumption
    <3>2. CASE \E kind \in Kinds :
                  Settle(r, IF kind = "invalid-output" \/ reviews[r].tries = plan.retries
                            THEN "failed" ELSE "pending", kind, {})
      BY <3>2
    <3>. QED
      BY <1>9, <3>1, <3>2 DEF Attempt
  <2>. QED
    BY <1>9, <2>1, <2>2 DEF Attempt, Settle, inputs, loop
<1>. QED
  BY <1>1, <1>2, <1>3, <1>4, <1>5, <1>6, <1>7, <1>8, <1>9

-----------------------------------------------------------------------------
(* The end: nothing is done once the execution has returned or raised.     *)

LEMMA SameReviews ==
  ASSUME UNCHANGED <<plan, bound, reviews>>
  PROVE  /\ Panel' = Panel /\ Failed' = Failed /\ Material' = Material /\ Reported' = Reported
         /\ AllReviewed' <=> AllReviewed
BY DEF Panel, Failed, Material, Reported, AllReviewed

LEMMA OpenRecord ==
  ASSUME ExecutionInv, pc \notin Ended
  PROVE  Phased("terminal") = {}
BY DEF ExecutionInv, ClosedInv

LEMMA CallsAtEnd ==
  ASSUME CallsInv, UNCHANGED <<plan, reviews>>, pc' \in Ended
  PROVE  CallsInv'
BY DEF CallsInv, Ended, BeforePool

LEMMA OtherwiseAtEnd ==
  ASSUME pc' \in Ended
  PROVE  AssessInv' /\ ChallengeInv' /\ FailureInv' /\ RulingInv'
<1>1. pc' \notin {"assess", "accepted", "doubted", "groups"} \cup Disputing
  BY DEF Ended, Disputing
<1>2. AssessInv'
  BY <1>1 DEF AssessInv, BeforePool, Ended
<1>3. ChallengeInv'
  BY <1>1 DEF ChallengeInv, Disputing
<1>4. FailureInv'
  BY <1>1 DEF FailureInv
<1>5. RulingInv'
  BY <1>1 DEF RulingInv
<1>. QED
  BY <1>2, <1>3, <1>4, <1>5

LEMMA NoVerdictYet ==
  ASSUME Phased("terminal")' = {}
  PROVE  ClosedInv' /\ VerdictIsWarranted' /\ FailuresAreRecorded' /\ EveryGroupIsDecided'
<1>1. Recorded("terminal", "review")' = {}
  BY DEF Phased, Recorded
<1>2. ClosedInv'
  BY DEF ClosedInv
<1>3. VerdictIsWarranted'
  BY <1>1 DEF VerdictIsWarranted
<1>4. FailuresAreRecorded'
  BY <1>1 DEF FailuresAreRecorded
<1>5. EveryGroupIsDecided'
  BY <1>1 DEF EveryGroupIsDecided
<1>. QED
  BY <1>2, <1>3, <1>4, <1>5

LEMMA RaisedKeeps ==
  ASSUME ExecutionInv, UNCHANGED <<plan, bound, reviews>>, pc' \in Ended, TypeOK',
         Phased("terminal")' = {}, ChallengesAreBounded'
  PROVE  ExecutionInv'
BY CallsAtEnd, OtherwiseAtEnd, NoVerdictYet DEF ExecutionInv

(* What closing adds is one terminal event, with the outcome it deserves.  *)
FailuresKnown ==
  Panel \subseteq bound =>
     \A r \in Panel : IF r \in Failed THEN FailureIsRecorded(r)
                                      ELSE Recorded("execution-error", r) = {}

GroupsKnown(outcome) ==
  Recorded("normalized-findings", "review") # {} => GroupsAreDecided(outcome)

LEMMA QuietBounded ==
  ASSUME TypeOK, ChallengesAreBounded, plan' = plan, NEW event, record' = Append(record, event),
         event.phase \notin {"challenge", "challenge-response"},
         event.phase = "adjudication" => event.result # "CHANGE"
  PROVE  ChallengesAreBounded'
<1>1. Phased("challenge")' = Phased("challenge")
  BY PhasedAfter
<1>2. ASSUME NEW i \in 1..Len(record'), record'[i].phase = "challenge-response"
      PROVE \E j \in 1..Len(record') : /\ j < i /\ record'[j].phase = "challenge"
                                       /\ record'[j].about = record'[i].about
  <2>1. i \in 1..Len(record) /\ record'[i] = record[i]
    BY <1>2, Recording
  <2>2. PICK j \in Recorded("challenge", record[i].about) : j < i
    BY <1>2, <2>1 DEF ChallengesAreBounded
  <2>. QED
    BY <2>1, <2>2, Recording DEF Recorded
<1>3. ASSUME NEW i \in 1..Len(record'), record'[i].phase = "adjudication",
             record'[i].result = "CHANGE"
      PROVE  /\ i > 1 /\ record'[i - 1].phase = "challenge-response"
             /\ record'[i - 1].about = record'[i].about
             /\ record'[i - 1].result = "confirm"
  <2>1. i \in 1..Len(record) /\ record'[i] = record[i]
    BY <1>3, Recording
  <2>2. /\ i > 1 /\ record[i - 1].phase = "challenge-response"
        /\ record[i - 1].about = record[i].about
        /\ record[i - 1].result = "confirm"
    BY <1>3, <2>1 DEF ChallengesAreBounded
  <2>. QED
    BY <2>1, <2>2, Recording
<1>. QED
  BY <1>1, <1>2, <1>3 DEF ChallengesAreBounded, Recorded

LEMMA ClosingKeeps ==
  ASSUME ExecutionInv, UNCHANGED <<plan, bound, reviews>>, pc \notin Ended, pc' \in Ended, TypeOK',
         NEW outcome \in {"ACCEPT", "CHANGE", "ESCALATE", "INCOMPLETE"},
         record' = Append(record, Event("terminal", "review", outcome)),
         Warranted(outcome), FailuresKnown, GroupsKnown(outcome)
  PROVE  ExecutionInv'
<1>. DEFINE event == Event("terminal", "review", outcome)
<1>1. /\ event.phase = "terminal" /\ event.about = "review" /\ event.result = outcome
      /\ record' = Append(record, event) /\ TypeOK
  BY DEF Event, ExecutionInv
<1>. HIDE DEF event
<1>n. PICK n : n = Len(record) + 1
  OBVIOUS
<1>2. /\ Len(record) \in Nat /\ Len(record') = n /\ record'[n] = event
      /\ \A i \in 1..Len(record) : record'[i] = record[i]
  BY <1>1, <1>n, Recording
<1>3. Phased("terminal") = {} /\ Recorded("terminal", "review") = {}
  BY OpenRecord DEF Phased, Recorded
<1>4. Phased("terminal")' = {n} /\ Recorded("terminal", "review")' = {n}
  BY <1>1, <1>n, <1>3, PhasedAfter, RecordedAfter
<1>5. \A p, a : p # "terminal" => Recorded(p, a)' = Recorded(p, a)
  BY <1>1, RecordedAfter
<1>6. \A p, a : \A i \in Recorded(p, a) : i \in 1..Len(record) /\ record'[i] = record[i]
  BY <1>2 DEF Recorded
<1>7. /\ Panel' = Panel /\ Failed' = Failed /\ Material' = Material /\ Reported' = Reported
      /\ AllReviewed' <=> AllReviewed
  BY SameReviews
<1>8. ClosedInv'
  BY <1>1, <1>2, <1>4, <1>7 DEF ClosedInv, Warranted
<1>9. VerdictIsWarranted'
  <2>1. LastAnswerConfirms' <=> LastAnswerConfirms
    BY <1>1, AnswerAfter
  <2>2. Confirmed' <=> Confirmed
    BY <2>1, <1>7 DEF Confirmed
  <2>3. Warranted(outcome)'
    BY <1>7, <2>2 DEF Warranted
  <2>. QED
    BY <1>1, <1>2, <1>4, <2>3 DEF VerdictIsWarranted, Warranted
<1>10. FailuresAreRecorded'
  <2>1. \A r : FailureIsRecorded(r) => FailureIsRecorded(r)'
    BY <1>5, <1>6 DEF FailureIsRecorded, Once
  <2>2. \A r : Recorded("execution-error", r)' = Recorded("execution-error", r)
    BY <1>5
  <2>3. (\A r \in Panel : IF r \in Failed THEN FailureIsRecorded(r)
                                       ELSE Recorded("execution-error", r) = {}) =>
        (\A r \in Panel : IF r \in Failed THEN FailureIsRecorded(r)
                                       ELSE Recorded("execution-error", r) = {})'
    BY <1>7, <2>1, <2>2
  <2>. QED
    BY <1>7, <2>3 DEF FailuresAreRecorded, FailuresKnown
<1>11. EveryGroupIsDecided'
  <2>1. \A d : Rulings(d)' = Rulings(d)
    BY <1>5 DEF Rulings
  <2>2. \A d : \A i \in Rulings(d) : record'[i] = record[i]
    BY <1>6 DEF Rulings
  <2>3. GroupsAreDecided(outcome) => GroupsAreDecided(outcome)'
    BY <1>7, <2>1, <2>2 DEF GroupsAreDecided, Once
  <2>4. Recorded("normalized-findings", "review")' = Recorded("normalized-findings", "review")
    BY <1>5
  <2>. QED
    BY <1>1, <1>2, <1>4, <2>3, <2>4 DEF EveryGroupIsDecided, GroupsKnown, GroupsAreDecided
<1>12. ChallengesAreBounded'
  BY <1>1, QuietBounded DEF ExecutionInv
<1>13. CallsInv'
  BY CallsAtEnd DEF ExecutionInv
<1>. QED
  BY <1>8, <1>9, <1>10, <1>11, <1>12, <1>13, OtherwiseAtEnd DEF ExecutionInv

-----------------------------------------------------------------------------
(* The actions that close the review.                                      *)

(* The record may also raise, with the event or without it.                *)
LEMMA CloseCases ==
  ASSUME NEW point, NEW outcome, Close(point, outcome)
  PROVE  /\ pc = point /\ pc' \in Ended
         /\ record' = record \/ record' = Append(record, Event("terminal", "review", outcome))
BY Zenon DEF Close, EmitAt, Emit, Ended

LEMMA CloseKeeps ==
  ASSUME ExecutionInv, UNCHANGED <<plan, bound, reviews>>, TypeOK', NEW point, point \notin Ended,
         NEW outcome \in {"ACCEPT", "CHANGE", "ESCALATE", "INCOMPLETE"}, Close(point, outcome),
         Warranted(outcome), FailuresKnown, GroupsKnown(outcome)
  PROVE  ExecutionInv'
<1>1. pc = point /\ pc' \in Ended
  BY CloseCases
<1>2. CASE record' = Append(record, Event("terminal", "review", outcome))
  BY <1>1, <1>2, ClosingKeeps
<1>3. CASE record' = record
  <2>1. Phased("terminal")' = {}
    BY <1>1, <1>3, OpenRecord DEF Phased
  <2>2. ChallengesAreBounded'
    BY <1>3 DEF ExecutionInv, ChallengesAreBounded, Phased, Recorded
  <2>. QED
    BY <1>1, <2>1, <2>2, RaisedKeeps
<1>. QED
  BY <1>2, <1>3, CloseCases

LEMMA ClosesKeep ==
  ASSUME ExecutionInv, CloseMissing \/ CloseFailed \/ CloseAccepted \/ CloseDoubted \/ CloseGroups
  PROVE  ExecutionInv'
<1>1. TypeOK'
  BY SortingTypes
<1>2. UNCHANGED <<plan, bound, reviews>>
  BY DEF CloseMissing, CloseFailed, CloseAccepted, CloseDoubted, CloseGroups, inputs
<1>p. /\ plan.roles \in Seq(Roles) /\ plan.challenges \in {0, 1}
      /\ plan.missing \in {"ESCALATE", "INCOMPLETE"}
      /\ Panel = {plan.roles[k] : k \in 1..Len(plan.roles)}
  BY PlanFacts DEF ExecutionInv, TypeOK, Panel, ToSet
<1>a. AllReviewed => Panel \subseteq bound /\ Failed = {}
  BY DEF AllReviewed, Failed
<1>b. pc \in {"accepted", "doubted", "groups"} =>
        AllReviewed /\ Failed = {} /\ (\A r \in Panel : Recorded("execution-error", r) = {})
  <2>. SUFFICES ASSUME pc \in {"accepted", "doubted", "groups"}
                PROVE  AllReviewed /\ Failed = {} /\ (\A r \in Panel : Recorded("execution-error", r) = {})
    OBVIOUS
  <2>1. Failed = {} /\ (\A r \in Panel : Recorded("execution-error", r) = {})
    BY DEF ExecutionInv, AssessInv, FailureInv, Ended
  <2>2. Panel \subseteq bound /\ (\A r \in Panel : reviews[r].status # "pending")
    BY DEF ExecutionInv, CallsInv, Ended, BeforePool
  <2>3. \A r \in Panel : reviews[r].status \in {"pending", "answered", "failed"}
    BY <1>p DEF ExecutionInv, TypeOK
  <2>. QED
    BY <2>1, <2>2, <2>3 DEF AllReviewed, Failed
<1>c. pc \notin {"groups"} \cup Disputing \cup Ended => Recorded("normalized-findings", "review") = {}
  BY DEF ExecutionInv, RulingInv, Recorded, Phased
<1>3. CASE CloseMissing
  <2>1. Close("unstaffed", plan.missing) /\ pc = "unstaffed"
    BY <1>3, CloseCases DEF CloseMissing
  <2>2. ~(Panel \subseteq bound)
    BY <2>1 DEF ExecutionInv, CallsInv
  <2>3. Warranted(plan.missing) /\ FailuresKnown
    BY <1>p, <2>2 DEF Warranted, AllReviewed, FailuresKnown
  <2>4. GroupsKnown(plan.missing)
    BY <1>c, <2>1 DEF GroupsKnown, Ended, Disputing
  <2>. QED
    BY <1>1, <1>2, <1>p, <2>1, <2>3, <2>4, CloseKeeps DEF Ended
<1>4. CASE CloseFailed
  <2>1. /\ Close("assess", "ESCALATE") /\ pc = "assess"
        /\ Failed # {} /\ NoneFailed(cursor, Len(plan.roles))
    BY <1>4, CloseCases DEF CloseFailed
  <2>2. Warranted("ESCALATE")
    BY <1>a, <2>1 DEF Warranted
  <2>3. ASSUME NEW k \in 1..Len(plan.roles)
        PROVE IF plan.roles[k] \in Failed THEN FailureIsRecorded(plan.roles[k])
                                          ELSE Recorded("execution-error", plan.roles[k]) = {}
    <3>1. plan.roles[k] \in Failed => k <= cursor
      BY <2>1, <2>3, <1>p DEF NoneFailed, ExecutionInv, TypeOK
    <3>. QED
      BY <2>1, <3>1, <2>3 DEF ExecutionInv, FailureInv
  <2>4. FailuresKnown
    BY <1>p, <2>3 DEF FailuresKnown
  <2>5. GroupsKnown("ESCALATE")
    BY <1>c, <2>1 DEF GroupsKnown, Ended, Disputing
  <2>. QED
    BY <1>1, <1>2, <2>1, <2>2, <2>4, <2>5, CloseKeeps DEF Ended
<1>5. CASE CloseAccepted
  <2>1. Close("accepted", "ACCEPT") /\ pc = "accepted"
    BY <1>5, CloseCases DEF CloseAccepted
  <2>2. Material = {}
    BY <2>1 DEF ExecutionInv, AssessInv
  <2>3. Warranted("ACCEPT") /\ FailuresKnown
    BY <1>b, <2>1, <2>2 DEF Warranted, FailuresKnown
  <2>4. GroupsKnown("ACCEPT")
    BY <1>c, <2>1 DEF GroupsKnown, Ended, Disputing
  <2>. QED
    BY <1>1, <1>2, <2>1, <2>3, <2>4, CloseKeeps DEF Ended
<1>6. CASE CloseDoubted
  <2>1. Close("doubted", "ESCALATE") /\ pc = "doubted"
    BY <1>6, CloseCases DEF CloseDoubted
  <2>2. \E claim \in Material : ~claim.sure
    BY <2>1 DEF ExecutionInv, AssessInv
  <2>3. Warranted("ESCALATE") /\ FailuresKnown
    BY <1>b, <2>1, <2>2 DEF Warranted, FailuresKnown
  <2>4. GroupsKnown("ESCALATE")
    BY <1>c, <2>1 DEF GroupsKnown, Ended, Disputing
  <2>. QED
    BY <1>1, <1>2, <2>1, <2>3, <2>4, CloseKeeps DEF Ended
<1>7. CASE CloseGroups
  <2>. DEFINE outcome == IF escalated THEN "ESCALATE" ELSE "CHANGE"
  <2>1. Close("groups", outcome) /\ pc = "groups" /\ cursor = Len(groups)
    BY <1>7, CloseCases DEF CloseGroups
  <2>2. /\ Material # {} /\ \A claim \in Material : claim.sure
        /\ groups \in SetToSeqs(Reported)
    BY <2>1 DEF ExecutionInv, AssessInv
  <2>3. /\ IsFiniteSet(Reported) /\ Reported \subseteq Defects /\ Reported # {}
    BY <2>2, ReportedFacts DEF ExecutionInv
  <2>4. /\ groups \in Seq(Reported) /\ Len(groups) = Cardinality(Reported)
        /\ \A d \in Reported : \E k \in 1..Len(groups) : groups[k] = d
    BY <2>2, <2>3, SeqsFacts
  <2>5. Len(groups) = 1 <=> \E d \in Defects : Reported = {d}
    BY <2>3, <2>4, FS_Singleton
  <2>6. Len(groups) \in Nat \ {0}
    <3>1. PICK d : d \in Reported
      BY <2>3
    <3>. QED
      BY <3>1, <2>4
  <2>7. escalated <=> ~(plan.challenges = 0 \/ Confirmed)
    <3>1. plan.challenges = 0 => ~escalated
      BY <2>1 DEF ExecutionInv, ChallengeInv
    <3>2. plan.challenges = 1 /\ Len(groups) = 1 => (escalated <=> ~LastAnswerConfirms)
      BY <2>1 DEF ExecutionInv, ChallengeInv
    <3>3. plan.challenges = 1 /\ Len(groups) # 1 => escalated
      BY <2>1, <2>6 DEF ExecutionInv, ChallengeInv
    <3>. QED
      BY <1>p, <2>5, <3>1, <3>2, <3>3 DEF Confirmed
  <2>8. Warranted(outcome)
    BY <1>b, <2>1, <2>2, <2>7 DEF Warranted
  <2>9. FailuresKnown
    BY <1>b, <2>1 DEF FailuresKnown
  <2>10. GroupsAreDecided(outcome)
    <3>1. \A d \in Reported : Ruled(d)
      BY <2>1, <2>4 DEF Ruled
    <3>2. \A d \in Reported : Once(Rulings(d))
      BY <2>1, <3>1 DEF ExecutionInv, RulingInv
    <3>3. escalated <=> \E d \in Reported : \E i \in Rulings(d) : record[i].result # "CHANGE"
      BY <2>1 DEF ExecutionInv, RulingInv
    <3>. QED
      BY <3>2, <3>3 DEF GroupsAreDecided
  <2>. QED
    BY <1>1, <1>2, <2>1, <2>8, <2>9, <2>10, CloseKeeps DEF Ended, GroupsKnown
<1>. QED
  BY <1>3, <1>4, <1>5, <1>6, <1>7

-----------------------------------------------------------------------------
(* The actions that go on.                                                 *)

LEMMA GoOnKeeps ==
  ASSUME ExecutionInv, UNCHANGED <<plan, bound, reviews>>, TypeOK', ChallengesAreBounded',
         NEW point, point \notin Ended, NEW next, NEW event, event.phase # "terminal",
         EmitAt(point, event, next),
         record' = Append(record, event) /\ pc' = next =>
            CallsInv' /\ AssessInv' /\ ChallengeInv' /\ FailureInv' /\ RulingInv'
  PROVE  ExecutionInv'
<1>1. /\ pc = point
      /\ \/ record' = Append(record, event) /\ pc' = next
         \/ record' \in {record, Append(record, event)} /\ pc' = "raised"
  BY Zenon DEF EmitAt, Emit
<1>2. Phased("terminal") = {} /\ TypeOK
  BY <1>1, OpenRecord DEF ExecutionInv
<1>3. Phased("terminal")' = {}
  <2>1. CASE record' = Append(record, event)
    BY <2>1, <1>2, PhasedAfter
  <2>2. CASE record' = record
    BY <2>2, <1>2 DEF Phased
  <2>. QED
    BY <1>1, <2>1, <2>2
<1>4. CASE pc' = "raised"
  BY <1>3, <1>4, RaisedKeeps DEF Ended
<1>5. CASE record' = Append(record, event) /\ pc' = next
  BY <1>3, <1>5, NoVerdictYet DEF ExecutionInv
<1>. QED
  BY <1>1, <1>4, <1>5

(* Before any group is looked at the record has nothing of the challenge.  *)
Early == {"plan", "missing", "unstaffed", "first-pass", "assess", "accepted", "doubted"}

LEMMA EarlyKeeps ==
  ASSUME ExecutionInv, UNCHANGED <<plan, bound, reviews, loop>>, TypeOK',
         NEW point \in Early \ {"accepted", "doubted"}, NEW next \in Early, NEW event,
         event.phase \notin {"challenge", "challenge-response", "adjudication",
                            "normalized-findings", "terminal"},
         event.phase = "execution-error" => event.about \notin Panel,
         event.phase = "decision" => next = "accepted",
         EmitAt(point, event, next),
         next = "assess" => point = "first-pass",
         next \in {"accepted", "doubted"} => point = "assess" /\ Failed = {},
         next = "accepted" => Material = {},
         next = "doubted" => \E claim \in Material : ~claim.sure,
         next \in BeforePool \cup {"first-pass"} => point \in BeforePool,
         record' = Append(record, event) /\ pc' = next => CallsInv'
  PROVE  ExecutionInv'
<1>1. pc = point /\ point \notin Ended
  BY Zenon DEF EmitAt, Emit, Early, Ended
<1>2. ChallengesAreBounded'
  <2>1. CASE record' = Append(record, event)
    BY <2>1, QuietBounded DEF ExecutionInv
  <2>2. CASE record' = record
    BY <2>2 DEF ExecutionInv, ChallengesAreBounded, Phased, Recorded
  <2>. QED
    BY <2>1, <2>2, Zenon DEF EmitAt, Emit
<1>3. SUFFICES ASSUME record' = Append(record, event), pc' = next
               PROVE  AssessInv' /\ ChallengeInv' /\ FailureInv' /\ RulingInv'
  BY <1>1, <1>2, GoOnKeeps
<1>4. /\ Panel' = Panel /\ Failed' = Failed /\ Material' = Material
      /\ UNCHANGED <<plan, cursor, escalated>>
  BY SameReviews DEF loop
<1>5. \A p : Phased(p)' = IF event.phase = p THEN Phased(p) \cup {Len(record) + 1} ELSE Phased(p)
  BY <1>3, PhasedAfter DEF ExecutionInv
<1>6. /\ pc \notin {"groups"} \cup Disputing \cup Ended
      /\ pc' \notin {"groups"} \cup Disputing \cup Ended
      /\ pc \notin {"accepted", "doubted"} /\ pc' \in Early
  BY <1>1, <1>3 DEF Early, Disputing, Ended
<1>7. AssessInv'
  <2>1. cursor = 0 \/ ~(pc' \in BeforePool \cup {"first-pass"} \/ Failed = {})
    BY <1>1, <1>3, <1>6 DEF ExecutionInv, AssessInv, Early, BeforePool
  <2>. QED
    BY <1>1, <1>3, <1>4, <1>6, <2>1 DEF AssessInv
<1>8. ChallengeInv'
  <2>1. Phased("challenge") = {} /\ Phased("challenge-response") = {} /\ ~escalated
    BY <1>6 DEF ExecutionInv, ChallengeInv
  <2>2. Phased("challenge")' = {} /\ Phased("challenge-response")' = {} /\ ~escalated'
    BY <1>4, <1>5, <2>1
  <2>. QED
    BY <1>6, <2>2 DEF ChallengeInv, Disputing
<1>9. FailureInv'
  <2>1. \A r \in Panel : Recorded("execution-error", r)' = Recorded("execution-error", r)
    BY <1>3, RecordedAfter DEF ExecutionInv
  <2>2. Panel = {plan.roles[k] : k \in 1..Len(plan.roles)}
    BY PlanFacts DEF ExecutionInv, TypeOK, Panel, ToSet
  <2>3. \A r \in Panel : Recorded("execution-error", r) = {}
    <3>1. CASE pc # "assess"
      BY <3>1, <1>6 DEF ExecutionInv, FailureInv
    <3>2. CASE pc = "assess"
      <4>1. Failed = {}
        BY <1>1, <3>2, <1>3 DEF Early, BeforePool
      <4>. QED
        BY <3>2, <4>1, <2>2 DEF ExecutionInv, FailureInv
    <3>. QED
      BY <3>1, <3>2
  <2>4. pc' = "assess" => cursor = 0
    BY <1>1, <1>3, <1>6 DEF ExecutionInv, AssessInv
  <2>. QED
    BY <1>4, <2>1, <2>2, <2>3, <2>4 DEF FailureInv
<1>10. RulingInv'
  <2>1. Phased("decision") = {} /\ Phased("adjudication") = {} /\ Phased("normalized-findings") = {}
    BY <1>6 DEF ExecutionInv, RulingInv
  <2>. QED
    BY <1>3, <1>5, <1>6, <2>1 DEF RulingInv
<1>. QED
  BY <1>7, <1>8, <1>9, <1>10

LEMMA EarlyActionsKeep ==
  ASSUME ExecutionInv, RecordPlan \/ RecordMissing \/ RecordFirstPass \/ Accept \/ Doubt
  PROVE  ExecutionInv'
<1>1. TypeOK'
  BY SortingTypes
<1>2. UNCHANGED <<plan, bound, reviews, loop>>
  BY DEF RecordPlan, RecordMissing, RecordFirstPass, Accept, Doubt, inputs
<1>3. Panel' = Panel /\ Panel \subseteq Roles /\ "review" \notin Roles
  BY <1>2, SameReviews, PlanFacts DEF ExecutionInv, TypeOK, Panel, ToSet, Roles
<1>4. CallsInv /\ TypeOK
  BY DEF ExecutionInv
<1>. USE DEF Early, BeforePool
<1>5. CASE RecordPlan
  <2>. DEFINE next == IF Panel \subseteq bound THEN "first-pass" ELSE "missing"
  <2>1. EmitAt("plan", Event("plan", "review", "none"), next) /\ pc = "plan"
    BY <1>5 DEF RecordPlan, EmitAt, Emit
  <2>2. ASSUME record' = Append(record, Event("plan", "review", "none")), pc' = next
        PROVE CallsInv'
    <3>1. Recorded("first-pass", "review")' = {}
      BY <1>4, <2>1, <2>2, RecordedAfter DEF Event, CallsInv
    <3>. QED
      BY <1>2, <1>3, <1>4, <2>2, <3>1 DEF CallsInv
  <2>. QED
    BY <1>1, <1>2, <2>1, <2>2, EarlyKeeps DEF Event
<1>6. CASE RecordMissing
  <2>1. /\ EmitAt("missing", Event("execution-error", "review", "missing-reviewer"), "unstaffed")
        /\ pc = "missing"
    BY <1>6 DEF RecordMissing, EmitAt, Emit
  <2>2. ASSUME record' = Append(record, Event("execution-error", "review", "missing-reviewer")),
               pc' = "unstaffed"
        PROVE CallsInv'
    <3>1. Recorded("first-pass", "review")' = {}
      BY <1>4, <2>1, <2>2, RecordedAfter DEF Event, CallsInv
    <3>. QED
      BY <1>2, <1>3, <1>4, <2>1, <2>2, <3>1 DEF CallsInv
  <2>. QED
    BY <1>1, <1>2, <1>3, <2>1, <2>2, EarlyKeeps DEF Event
<1>7. CASE RecordFirstPass
  <2>. DEFINE event == Event("first-pass", "review", IF Failed = {} THEN "completed" ELSE "incomplete")
  <2>1. EmitAt("first-pass", event, "assess") /\ pc = "first-pass"
    BY <1>7 DEF RecordFirstPass, EmitAt, Emit
  <2>2. ASSUME pc' = "assess"
        PROVE CallsInv'
    BY <1>2, <1>3, <1>4, <1>7, <2>1, <2>2 DEF CallsInv, RecordFirstPass, Ended
  <2>. QED
    BY <1>1, <1>2, <2>1, <2>2, EarlyKeeps DEF Event
<1>8. CASE Accept
  <2>1. /\ EmitAt("assess", Event("decision", "review", "ACCEPT"), "accepted")
        /\ pc = "assess" /\ Failed = {} /\ Material = {}
    BY <1>8 DEF Accept, EmitAt, Emit
  <2>2. ASSUME pc' = "accepted"
        PROVE CallsInv'
    BY <1>2, <1>3, <1>4, <2>1, <2>2 DEF CallsInv, Ended
  <2>. QED
    BY <1>1, <1>2, <2>1, <2>2, EarlyKeeps DEF Event
<1>9. CASE Doubt
  <2>1. /\ EmitAt("assess", Event("low-confidence-findings", "review", "none"), "doubted")
        /\ pc = "assess" /\ Failed = {} /\ \E claim \in Material : ~claim.sure
    BY <1>9 DEF Doubt, EmitAt, Emit
  <2>2. ASSUME pc' = "doubted"
        PROVE CallsInv'
    BY <1>2, <1>3, <1>4, <2>1, <2>2 DEF CallsInv, Ended
  <2>. QED
    BY <1>1, <1>2, <2>1, <2>2, EarlyKeeps DEF Event
<1>. QED
  BY <1>5, <1>6, <1>7, <1>8, <1>9

LEMMA RecordFailureKeeps ==
  ASSUME ExecutionInv, RecordFailure
  PROVE  ExecutionInv'
<1>1. TypeOK' /\ TypeOK /\ CallsInv
  BY SortingTypes DEF ExecutionInv
<1>2. UNCHANGED <<plan, bound, reviews, groups, escalated, response>>
  BY DEF RecordFailure, inputs
<1>3. Panel' = Panel /\ Failed' = Failed /\ Material' = Material
  BY <1>2, SameReviews
<1>4. PICK i \in DOMAIN plan.roles :
         /\ NextFailed(cursor, i) /\ cursor' = i
         /\ EmitAt("assess", Event("execution-error", plan.roles[i], reviews[plan.roles[i]].error),
                   "assess")
  BY DEF RecordFailure
<1>. DEFINE role == plan.roles[i]
            event == Event("execution-error", role, reviews[role].error)
<1>5. /\ event.phase = "execution-error" /\ event.about = role /\ event.result = reviews[role].error
      /\ EmitAt("assess", event, "assess")
  BY <1>4 DEF Event
<1>. HIDE DEF event
<1>6. /\ plan.roles \in Seq(Roles) /\ Distinct(plan.roles) /\ i \in 1..Len(plan.roles)
      /\ cursor \in Nat /\ i > cursor /\ role \in Failed
      /\ \A k \in (cursor + 1)..(i - 1) : plan.roles[k] \notin Failed
      /\ pc = "assess"
  BY <1>1, <1>4, PlanFacts DEF TypeOK, NextFailed, NoneFailed, EmitAt, Emit
<1>7. ChallengesAreBounded'
  <2>1. CASE record' = Append(record, event)
    BY <2>1, <1>1, <1>2, <1>5, QuietBounded DEF ExecutionInv
  <2>2. CASE record' = record
    BY <2>2, <1>2 DEF ExecutionInv, ChallengesAreBounded, Phased, Recorded
  <2>. QED
    BY <1>5, <2>1, <2>2, Zenon DEF EmitAt, Emit
<1>8. SUFFICES ASSUME record' = Append(record, event), pc' = "assess"
               PROVE  CallsInv' /\ AssessInv' /\ ChallengeInv' /\ FailureInv' /\ RulingInv'
  BY <1>1, <1>2, <1>5, <1>7, GoOnKeeps DEF Ended
<1>9. \A p : p # "execution-error" => Phased(p)' = Phased(p)
  BY <1>1, <1>5, <1>8, PhasedAfter
<1>10. CallsInv'
  BY <1>1, <1>2, <1>3, <1>6, <1>8 DEF CallsInv, BeforePool, Ended
<1>11. AssessInv'
  BY <1>6, <1>8, <1>3 DEF AssessInv, BeforePool, Disputing, Ended
<1>12. ChallengeInv'
  <2>1. Phased("challenge") = {} /\ Phased("challenge-response") = {} /\ ~escalated
    BY <1>6 DEF ExecutionInv, ChallengeInv, Disputing, Ended
  <2>. QED
    BY <1>2, <1>8, <1>9, <2>1 DEF ChallengeInv, Disputing
<1>13. FailureInv'
  <2>1. SUFFICES ASSUME NEW k \in 1..Len(plan.roles)
                 PROVE  IF k <= i /\ plan.roles[k] \in Failed
                        THEN FailureIsRecorded(plan.roles[k])'
                        ELSE Recorded("execution-error", plan.roles[k])' = {}
    BY <1>2, <1>3, <1>4, <1>8 DEF FailureInv
  <2>2. PICK r : r = plan.roles[k]
    OBVIOUS
  <2>3. IF k <= cursor /\ r \in Failed THEN FailureIsRecorded(r)
                                       ELSE Recorded("execution-error", r) = {}
    BY <1>6, <2>2 DEF ExecutionInv, FailureInv
  <2>4. CASE k = i
    <3>1. Recorded("execution-error", r) = {}
      BY <1>6, <2>3, <2>4
    <3>2. Recorded("execution-error", r)' = {Len(record) + 1}
      BY <1>1, <1>5, <1>8, <2>2, <2>4, <3>1, RecordedAfter
    <3>3. record'[Len(record) + 1] = event
      BY <1>1, <1>8, Recording
    <3>4. FailureIsRecorded(r)'
      BY <1>2, <1>5, <2>2, <2>4, <3>2, <3>3 DEF FailureIsRecorded, Once
    <3>. QED
      BY <1>2, <1>6, <2>2, <2>4, <3>4
  <2>5. CASE k # i
    <3>1. r # role
      BY <1>6, <2>2, <2>5 DEF Distinct
    <3>2. Recorded("execution-error", r)' = Recorded("execution-error", r)
      BY <1>1, <1>5, <1>8, <3>1, RecordedAfter
    <3>3. \A j \in Recorded("execution-error", r) : record'[j] = record[j]
      BY <1>1, <1>8, Recording DEF Recorded
    <3>4. FailureIsRecorded(r) => FailureIsRecorded(r)'
      BY <1>2, <3>2, <3>3 DEF FailureIsRecorded, Once
    <3>5. k <= i /\ r \in Failed <=> k <= cursor /\ r \in Failed
      BY <1>6, <2>2, <2>5
    <3>. QED
      BY <1>2, <2>2, <2>3, <3>2, <3>4, <3>5
  <2>. QED
    BY <2>4, <2>5
<1>14. RulingInv'
  <2>1. Phased("decision") = {} /\ Phased("adjudication") = {} /\ Phased("normalized-findings") = {}
    BY <1>6 DEF ExecutionInv, RulingInv, Disputing, Ended
  <2>. QED
    BY <1>8, <1>9, <2>1 DEF RulingInv, Disputing
<1>. QED
  BY <1>10, <1>11, <1>12, <1>13, <1>14

LEMMA NormalizeKeeps ==
  ASSUME ExecutionInv, Normalize
  PROVE  ExecutionInv'
<1>1. TypeOK' /\ TypeOK /\ CallsInv
  BY LoopTypes DEF ExecutionInv
<1>2. UNCHANGED <<plan, bound, reviews, cursor, escalated, response>>
  BY DEF Normalize, inputs
<1>3. Panel' = Panel /\ Failed' = Failed /\ Material' = Material /\ Reported' = Reported
  BY <1>2, SameReviews
<1>. DEFINE event == Event("normalized-findings", "review", "none")
<1>4. /\ event.phase = "normalized-findings" /\ EmitAt("assess", event, "groups") /\ pc = "assess"
      /\ Failed = {} /\ Material # {} /\ (\A claim \in Material : claim.sure)
      /\ groups' \in SetToSeqs(Reported)
  BY DEF Normalize, EmitAt, Emit, Event
<1>. HIDE DEF event
<1>5. cursor = 0 /\ Len(groups') \in Nat
  BY <1>1, <1>4 DEF ExecutionInv, AssessInv, TypeOK
<1>6. ChallengesAreBounded'
  <2>1. CASE record' = Append(record, event)
    BY <2>1, <1>1, <1>2, <1>4, QuietBounded DEF ExecutionInv
  <2>2. CASE record' = record
    BY <2>2, <1>2 DEF ExecutionInv, ChallengesAreBounded, Phased, Recorded
  <2>. QED
    BY <1>4, <2>1, <2>2, Zenon DEF EmitAt, Emit
<1>7. SUFFICES ASSUME record' = Append(record, event), pc' = "groups"
               PROVE  CallsInv' /\ AssessInv' /\ ChallengeInv' /\ FailureInv' /\ RulingInv'
  BY <1>1, <1>2, <1>4, <1>6, GoOnKeeps DEF Ended
<1>8. \A p : p # "normalized-findings" => Phased(p)' = Phased(p)
  BY <1>1, <1>4, <1>7, PhasedAfter
<1>9. CallsInv'
  BY <1>1, <1>2, <1>3, <1>4, <1>7 DEF CallsInv, BeforePool, Ended
<1>10. AssessInv'
  BY <1>2, <1>3, <1>4, <1>5, <1>7 DEF AssessInv, BeforePool, Disputing
<1>11. ChallengeInv'
  <2>1. Phased("challenge") = {} /\ Phased("challenge-response") = {} /\ ~escalated
    BY <1>4 DEF ExecutionInv, ChallengeInv, Disputing, Ended
  <2>. QED
    BY <1>2, <1>5, <1>7, <1>8, <2>1 DEF ChallengeInv, Disputing
<1>12. FailureInv'
  <2>1. \A r \in Panel : Recorded("execution-error", r)' = Recorded("execution-error", r)
    BY <1>1, <1>4, <1>7, RecordedAfter
  <2>2. \A r \in Panel : Recorded("execution-error", r) = {}
    <3>1. plan \in Plans
      BY <1>1 DEF TypeOK
    <3>2. plan.roles \in Seq(Roles)
      BY <3>1, PlanFacts
    <3>3. ASSUME NEW r \in Panel
          PROVE  \E k \in 1..Len(plan.roles) : plan.roles[k] = r
      BY <3>2 DEF Panel, ToSet
    <3>4. FailureInv
      BY DEF ExecutionInv
    <3>. QED
      BY <1>4, <3>3, <3>4 DEF FailureInv
  <2>. QED
    BY <1>3, <1>7, <2>1, <2>2 DEF FailureInv
<1>13. RulingInv'
  <2>1. Phased("decision")' = {} /\ Phased("adjudication")' = {} /\ ~escalated'
    BY <1>2, <1>4, <1>8 DEF ExecutionInv, RulingInv, ChallengeInv, Disputing, Ended
  <2>2. \A d : Rulings(d)' = {}
    BY <2>1 DEF Rulings, Recorded, Phased
  <2>3. \A d : ~Ruled(d)'
    BY <1>2, <1>5 DEF Ruled
  <2>. QED
    BY <1>2, <1>7, <2>1, <2>2, <2>3 DEF RulingInv, Disputing
<1>. QED
  BY <1>9, <1>10, <1>11, <1>12, <1>13

LEMMA GroupsFacts ==
  ASSUME ExecutionInv, pc \in {"groups"} \cup Disputing
  PROVE  /\ groups \in Seq(Defects) /\ Len(groups) \in Nat /\ Distinct(groups)
         /\ cursor \in 0..Len(groups) /\ Failed = {}
         /\ \A k \in 1..Len(groups) : groups[k] \in Reported
<1>1. groups \in SetToSeqs(Reported) /\ cursor <= Len(groups) /\ Failed = {}
  BY DEF ExecutionInv, AssessInv
<1>2. IsFiniteSet(Reported)
  BY ReportedFacts DEF ExecutionInv
<1>. QED
  BY <1>1, <1>2, SeqsFacts DEF ExecutionInv, TypeOK

(* A group gets its ruling and the loop goes on to the next.               *)
LEMMA RulingKeeps ==
  ASSUME ExecutionInv, UNCHANGED <<plan, bound, reviews, groups>>, TypeOK',
         NEW point \in {"groups", "adjudicating"}, NEW phase \in {"decision", "adjudication"},
         NEW result, EmitAt(point, Event(phase, Current, result), "groups"),
         cursor < Len(groups), cursor' = cursor + 1,
         \/ /\ point = "groups" /\ plan.challenges = 0 /\ phase = "decision" /\ result = "CHANGE"
            /\ (escalated' <=> escalated)
         \/ /\ point = "groups" /\ plan.challenges = 1 /\ cursor > 0 /\ result # "CHANGE"
            /\ escalated'
         \/ /\ point = "adjudicating" /\ phase = "adjudication"
            /\ (result = "CHANGE" <=> response = "confirm") /\ (escalated' <=> result # "CHANGE")
  PROVE  ExecutionInv'
<1>1. TypeOK /\ CallsInv
  BY DEF ExecutionInv
<1>2. Panel' = Panel /\ Failed' = Failed /\ Material' = Material /\ Reported' = Reported
  BY SameReviews
<1>. DEFINE event == Event(phase, Current, result)
<1>3. /\ event.phase = phase /\ event.about = Current /\ event.result = result
      /\ EmitAt(point, event, "groups") /\ pc = point
  BY DEF Event, EmitAt, Emit
<1>. HIDE DEF event
<1>4. pc \in {"groups"} \cup Disputing /\ (pc = "adjudicating" => pc \in Disputing)
  BY <1>3 DEF Disputing
<1>5. /\ groups \in Seq(Defects) /\ Len(groups) \in Nat /\ Distinct(groups)
      /\ cursor \in Nat /\ cursor < Len(groups) /\ Failed = {}
      /\ Current = groups[cursor + 1]
  BY <1>4, GroupsFacts DEF Current
<1>6. plan.challenges \in {0, 1} /\ (pc = "adjudicating" => cursor = 0 /\ plan.challenges = 1)
  BY <1>1, <1>4, PlanFacts DEF ExecutionInv, TypeOK, AssessInv
<1>7. pc = "adjudicating" =>
        /\ Len(record) \in Nat \ {0}
        /\ record[Len(record)].phase = "challenge-response"
        /\ record[Len(record)].about = Current
        /\ record[Len(record)].result = response
  BY <1>1 DEF ExecutionInv, ChallengeInv, TypeOK, Event
<1>8. ChallengesAreBounded'
  <2>1. CASE record' = record
    BY <2>1 DEF ExecutionInv, ChallengesAreBounded, Phased, Recorded
  <2>2. CASE record' = Append(record, event) /\ (phase = "adjudication" => result # "CHANGE")
    BY <1>1, <1>3, <2>2, QuietBounded DEF ExecutionInv
  <2>3. CASE record' = Append(record, event) /\ phase = "adjudication" /\ result = "CHANGE"
    <3>1. pc = "adjudicating" /\ response = "confirm"
      BY <1>3, <2>3
    <3>2. /\ Len(record) \in Nat /\ Len(record') = Len(record) + 1
          /\ \A j \in 1..Len(record) : record'[j] = record[j]
          /\ record'[Len(record) + 1] = event
      BY <1>1, <2>3, Recording
    <3>3. Phased("challenge")' = Phased("challenge")
      BY <1>1, <1>3, <2>3, PhasedAfter
    <3>4. ASSUME NEW j \in 1..Len(record'), record'[j].phase = "challenge-response"
          PROVE \E k \in 1..Len(record') : /\ k < j /\ record'[k].phase = "challenge"
                                           /\ record'[k].about = record'[j].about
      <4>1. j \in 1..Len(record) /\ record'[j] = record[j]
        BY <1>3, <3>2, <3>4
      <4>2. PICK k \in Recorded("challenge", record[j].about) : k < j
        BY <3>4, <4>1 DEF ExecutionInv, ChallengesAreBounded
      <4>. QED
        BY <3>2, <4>1, <4>2 DEF Recorded
    <3>5. ASSUME NEW j \in 1..Len(record'), record'[j].phase = "adjudication",
                 record'[j].result = "CHANGE"
          PROVE  /\ j > 1 /\ record'[j - 1].phase = "challenge-response"
                 /\ record'[j - 1].about = record'[j].about
                 /\ record'[j - 1].result = "confirm"
      <4>1. CASE j = Len(record')
        BY <1>3, <1>7, <3>1, <3>2, <4>1
      <4>2. CASE j \in 1..Len(record)
        <5>1. /\ j > 1 /\ record[j - 1].phase = "challenge-response"
              /\ record[j - 1].about = record[j].about
              /\ record[j - 1].result = "confirm"
          BY <3>2, <3>5, <4>2 DEF ExecutionInv, ChallengesAreBounded
        <5>. QED
          BY <3>2, <4>2, <5>1
      <4>. QED
        BY <3>2, <4>1, <4>2
    <3>. QED
      BY <3>3, <3>4, <3>5 DEF ExecutionInv, ChallengesAreBounded, Recorded
  <2>. QED
    BY <1>3, <2>1, <2>2, <2>3, Zenon DEF EmitAt, Emit
<1>9. SUFFICES ASSUME record' = Append(record, event), pc' = "groups"
               PROVE  CallsInv' /\ AssessInv' /\ ChallengeInv' /\ FailureInv' /\ RulingInv'
  BY <1>3, <1>8, GoOnKeeps DEF Ended
<1>10. CallsInv'
  BY <1>1, <1>2, <1>3, <1>9 DEF CallsInv, BeforePool, Ended
<1>11. AssessInv'
  <2>1. /\ Material # {} /\ (\A claim \in Material : claim.sure)
        /\ groups \in SetToSeqs(Reported)
    BY <1>4 DEF ExecutionInv, AssessInv
  <2>. QED
    BY <1>2, <1>5, <1>9, <2>1 DEF AssessInv, BeforePool, Disputing
<1>12. ChallengeInv'
  <2>1. LastAnswerConfirms' <=> LastAnswerConfirms
    BY <1>1, <1>3, <1>9, AnswerAfter
  <2>2. pc = "adjudicating" => (LastAnswerConfirms <=> response = "confirm")
    BY <1>7 DEF LastAnswerConfirms
  <2>3. plan.challenges = 0 => ~escalated'
    BY <1>3, <1>6 DEF ExecutionInv, ChallengeInv
  <2>4. plan.challenges = 1 /\ cursor' = 1 => (escalated' <=> ~LastAnswerConfirms)
    BY <1>3, <1>5, <1>6, <2>2
  <2>5. plan.challenges = 1 /\ cursor' > 1 => escalated'
    BY <1>3, <1>5, <1>6
  <2>. QED
    BY <1>5, <1>9, <2>1, <2>3, <2>4, <2>5 DEF ChallengeInv, Disputing
<1>13. FailureInv'
  <2>1. \A r \in Panel : Recorded("execution-error", r)' = Recorded("execution-error", r)
    BY <1>1, <1>3, <1>9, RecordedAfter
  <2>2. \A r \in Panel : Recorded("execution-error", r) = {}
    BY <1>3 DEF ExecutionInv, FailureInv, Ended
  <2>. QED
    BY <1>2, <1>9, <2>1, <2>2 DEF FailureInv
<1>14. RulingInv'
  <2>. DEFINE n == Len(record) + 1
  <2>1. \A d : Rulings(d)' = IF d = Current THEN Rulings(d) \cup {n} ELSE Rulings(d)
    BY <1>1, <1>3, <1>9, RecordedAfter DEF Rulings
  <2>2. /\ \A d : \A j \in Rulings(d) : record'[j] = record[j]
        /\ record'[n].result = result
    BY <1>1, <1>3, <1>9, Recording DEF Rulings, Recorded
  <2>3. \A d \in Reported : IF Ruled(d) THEN Once(Rulings(d)) ELSE Rulings(d) = {}
    BY <1>4 DEF ExecutionInv, RulingInv
  <2>4. pc = "groups" => (escalated <=> \E d \in Reported : \E j \in Rulings(d) :
                                                           record[j].result # "CHANGE")
    BY DEF ExecutionInv, RulingInv
  <2>. HIDE DEF n
  <2>5. Current \in Reported /\ ~Ruled(Current) /\ \A d : Ruled(d)' <=> Ruled(d) \/ d = Current
    BY <1>5, GroupsFacts, <1>4 DEF Ruled, Distinct
  <2>6. Rulings(Current) = {}
    BY <2>3, <2>5
  <2>7. \A d \in Reported : IF Ruled(d)' THEN Once(Rulings(d)') ELSE Rulings(d)' = {}
    BY <2>1, <2>3, <2>5, <2>6 DEF Once
  <2>8. escalated' <=> \E d \in Reported : \E j \in Rulings(d)' : record'[j].result # "CHANGE"
    <3>1. (\E d \in Reported : \E j \in Rulings(d)' : record'[j].result # "CHANGE")
          <=> \/ result # "CHANGE"
              \/ \E d \in Reported : \E j \in Rulings(d) : record[j].result # "CHANGE"
      BY <2>1, <2>2, <2>5, <2>6
    <3>2. CASE pc = "groups"
      BY <1>3, <2>4, <3>1, <3>2
    <3>3. CASE pc = "adjudicating"
      <4>1. cursor = 0
        BY <1>6, <3>3
      <4>2. \A d : ~Ruled(d)
        BY <4>1 DEF Ruled
      <4>. QED
        BY <1>3, <2>3, <3>1, <3>3, <4>2
    <3>. QED
      BY <1>3, <3>2, <3>3
  <2>. QED
    BY <1>2, <1>9, <2>7, <2>8 DEF RulingInv, Disputing, Once
<1>. QED
  BY <1>10, <1>11, <1>12, <1>13, <1>14

LEMMA DecideKeeps ==
  ASSUME ExecutionInv, Decide \/ PassOver \/ Adjudicate
  PROVE  ExecutionInv'
<1>1. TypeOK' /\ UNCHANGED <<plan, bound, reviews, groups>>
  <2>1. TypeOK'
    BY LoopTypes
  <2>. QED
    BY <2>1 DEF Decide, PassOver, Adjudicate, inputs
<1>2. plan.challenges \in {0, 1} /\ cursor \in Nat
  BY PlanFacts DEF ExecutionInv, TypeOK
<1>3. CASE Decide
  BY <1>1, <1>2, <1>3, RulingKeeps DEF Decide, InLoop
<1>4. CASE PassOver
  BY <1>1, <1>2, <1>4, RulingKeeps DEF PassOver, InLoop
<1>5. CASE Adjudicate
  <2>1. pc = "adjudicating" /\ EmitAt("adjudicating", Event("adjudication", Current, Ruling), "groups")
    BY <1>5 DEF Adjudicate, EmitAt, Emit
  <2>2. cursor < Len(groups)
    BY <2>1 DEF ExecutionInv, AssessInv, Disputing
  <2>3. escalated <=> response = "unavailable"
    BY <2>1 DEF ExecutionInv, ChallengeInv
  <2>4. escalated' <=> Ruling # "CHANGE"
    <3>1. escalated' <=> escalated \/ Ruling = "ESCALATE"
      BY <1>5 DEF Adjudicate
    <3>. QED
      BY <2>3, <3>1 DEF Ruling
  <2>5. cursor' = cursor + 1 /\ (Ruling = "CHANGE" <=> response = "confirm")
    BY <1>5 DEF Adjudicate, Ruling
  <2>. QED
    BY <1>1, <2>1, <2>2, <2>4, <2>5, RulingKeeps
<1>. QED
  BY <1>3, <1>4, <1>5

(* The challenge of the first group, from its dispute to its answer.       *)
LEMMA DisputeBounded ==
  ASSUME TypeOK, ChallengesAreBounded, plan' = plan, NEW event, record' = Append(record, event),
         event.phase \in {"challenge", "challenge-response"},
         event.phase = "challenge" => Phased("challenge") = {} /\ plan.challenges = 1,
         event.phase = "challenge-response" => Recorded("challenge", event.about) # {}
  PROVE  ChallengesAreBounded'
<1>1. /\ Len(record) \in Nat /\ Len(record') = Len(record) + 1
      /\ \A j \in 1..Len(record) : record'[j] = record[j]
      /\ record'[Len(record) + 1] = event
  BY Recording
<1>2. Cardinality(Phased("challenge")') <= plan.challenges
  <2>1. CASE event.phase = "challenge"
    <3>1. PICK n : n = Len(record) + 1
      OBVIOUS
    <3>2. Phased("challenge")' = {n}
      BY <2>1, <3>1, PhasedAfter
    <3>3. Cardinality({n}) = 1
      BY FS_Singleton
    <3>4. Cardinality(Phased("challenge")') = 1
      BY <3>2, <3>3
    <3>. QED
      BY <2>1, <3>4
  <2>2. CASE event.phase = "challenge-response"
    <3>1. Phased("challenge")' = Phased("challenge")
      BY <2>2, PhasedAfter
    <3>2. Cardinality(Phased("challenge")) <= plan.challenges
      BY DEF ChallengesAreBounded
    <3>. QED
      BY <3>1, <3>2
  <2>. QED
    BY <2>1, <2>2
<1>3. ASSUME NEW j \in 1..Len(record'), record'[j].phase = "challenge-response"
      PROVE \E k \in 1..Len(record') : /\ k < j /\ record'[k].phase = "challenge"
                                       /\ record'[k].about = record'[j].about
  <2>1. CASE j \in 1..Len(record)
    <3>1. PICK k \in Recorded("challenge", record[j].about) : k < j
      BY <1>1, <1>3, <2>1 DEF ChallengesAreBounded
    <3>. QED
      BY <1>1, <2>1, <3>1 DEF Recorded
  <2>2. CASE j = Len(record) + 1
    <3>1. PICK k \in Recorded("challenge", event.about) : TRUE
      BY <1>1, <1>3, <2>2
    <3>. QED
      BY <1>1, <2>2, <3>1 DEF Recorded
  <2>. QED
    BY <1>1, <2>1, <2>2
<1>4. ASSUME NEW j \in 1..Len(record'), record'[j].phase = "adjudication",
             record'[j].result = "CHANGE"
      PROVE  /\ j > 1 /\ record'[j - 1].phase = "challenge-response"
             /\ record'[j - 1].about = record'[j].about
             /\ record'[j - 1].result = "confirm"
  <2>1. j \in 1..Len(record) /\ record'[j] = record[j]
    BY <1>1, <1>4
  <2>2. /\ j > 1 /\ record[j - 1].phase = "challenge-response"
        /\ record[j - 1].about = record[j].about
        /\ record[j - 1].result = "confirm"
    BY <1>4, <2>1 DEF ChallengesAreBounded
  <2>. QED
    BY <1>1, <2>1, <2>2
<1>. QED
  BY <1>2, <1>3, <1>4 DEF ChallengesAreBounded, Recorded

LEMMA DisputingKeeps ==
  ASSUME ExecutionInv, UNCHANGED <<plan, bound, reviews, groups, cursor>>, TypeOK', NEW event,
         event.phase \in {"challenge", "challenge-response"},
         record' = record \/ record' = Append(record, event),
         pc \in {"groups"} \cup Disputing, pc' \in Disputing \cup {"raised"},
         cursor = 0, plan.challenges = 1, cursor < Len(groups),
         pc' # "raised" => ChallengeInv',
         record' = Append(record, event) => ChallengesAreBounded'
  PROVE  ExecutionInv'
<1>1. TypeOK /\ CallsInv
  BY DEF ExecutionInv
<1>2. Panel' = Panel /\ Failed' = Failed /\ Material' = Material /\ Reported' = Reported
  BY SameReviews
<1>3. \A p, a : p \notin {"challenge", "challenge-response"} => Recorded(p, a)' = Recorded(p, a)
  <2>1. CASE record' = record
    BY <2>1 DEF Recorded
  <2>2. CASE record' = Append(record, event)
    BY <1>1, <2>2, RecordedAfter
  <2>. QED
    BY <2>1, <2>2
<1>4. Phased("terminal")' = {}
  <2>1. Phased("terminal") = {}
    BY OpenRecord DEF Disputing, Ended
  <2>2. CASE record' = record
    BY <2>1, <2>2 DEF Phased
  <2>3. CASE record' = Append(record, event)
    BY <1>1, <2>1, <2>3, PhasedAfter
  <2>. QED
    BY <2>2, <2>3
<1>5. ChallengesAreBounded'
  <2>1. CASE record' = record
    BY <2>1 DEF ExecutionInv, ChallengesAreBounded, Phased, Recorded
  <2>. QED
    BY <2>1
<1>6. CASE pc' = "raised"
  BY <1>4, <1>5, <1>6, RaisedKeeps DEF Ended
<1>7. CASE pc' \in Disputing
  <2>1. CallsInv'
    BY <1>1, <1>2, <1>7 DEF CallsInv, BeforePool, Ended, Disputing
  <2>2. AssessInv'
    <3>1. /\ Material # {} /\ (\A claim \in Material : claim.sure)
          /\ groups \in SetToSeqs(Reported) /\ Failed = {} /\ cursor <= Len(groups)
      BY DEF ExecutionInv, AssessInv
    <3>. QED
      BY <1>2, <1>7, <3>1 DEF AssessInv, BeforePool, Disputing
  <2>3. FailureInv'
    <3>1. \A r \in Panel : Recorded("execution-error", r) = {}
      BY DEF ExecutionInv, FailureInv, Ended, Disputing
    <3>2. \A r \in Panel : Recorded("execution-error", r)' = {}
      BY <1>3, <3>1
    <3>. QED
      BY <1>2, <1>7, <3>2 DEF FailureInv, Disputing
  <2>4. RulingInv'
    <3>1. \A d : Rulings(d)' = Rulings(d)
      BY <1>3 DEF Rulings
    <3>2. \A d \in Reported : Rulings(d) = {}
      BY GroupsFacts DEF ExecutionInv, RulingInv, Ruled
    <3>3. \A d : ~Ruled(d)'
      BY DEF Ruled
    <3>. QED
      BY <1>2, <1>7, <3>1, <3>2, <3>3 DEF RulingInv, Disputing, Ended
  <2>. QED
    BY <1>4, <1>5, <1>7, <2>1, <2>2, <2>3, <2>4, NoVerdictYet DEF ExecutionInv, Disputing
<1>. QED
  BY <1>6, <1>7

LEMMA DisputeKeeps ==
  ASSUME ExecutionInv, Dispute
  PROVE  ExecutionInv'
<1>1. TypeOK' /\ TypeOK /\ ChallengesAreBounded
  BY LoopTypes DEF ExecutionInv
<1>2. /\ UNCHANGED <<plan, bound, reviews, groups, cursor, escalated, response>>
      /\ pc = "groups" /\ cursor < Len(groups) /\ cursor < plan.challenges
  <2>1. UNCHANGED <<plan, bound, reviews, groups, cursor, escalated, response>> /\ InLoop
        /\ cursor < plan.challenges
    BY DEF Dispute, inputs, loop
  <2>. QED
    BY <2>1 DEF InLoop
<1>3. cursor = 0 /\ plan.challenges = 1
  BY <1>1, <1>2, PlanFacts DEF TypeOK
<1>4. Phased("challenge") = {} /\ ~escalated
  BY <1>2, <1>3 DEF ExecutionInv, ChallengeInv
<1>. DEFINE event == Event("challenge", Current, "none")
<1>5. event.phase = "challenge" /\ event.about = Current
  BY DEF Event
<1>6. \/ record' = record /\ pc' = "raised"
      \/ record' = Append(record, event) /\ pc' \in {"challenged", "raised"}
  BY Zenon DEF Dispute, EmitAt, Emit
<1>. HIDE DEF event
<1>7. record' = Append(record, event) => ChallengesAreBounded'
  BY <1>1, <1>2, <1>3, <1>4, <1>5, DisputeBounded
<1>8. ASSUME pc' # "raised"
      PROVE  ChallengeInv'
  <2>1. record' = Append(record, event) /\ pc' = "challenged"
    BY <1>6, <1>8
  <2>2. PICK n : n = Len(record) + 1
    OBVIOUS
  <2>3. Phased("challenge")' = {n}
    BY <1>1, <1>4, <1>5, <2>1, <2>2, PhasedAfter
  <2>4. n \in 1..Len(record') /\ record'[n] = event
    BY <1>1, <2>1, <2>2, Recording
  <2>5. Recorded("challenge", Current)' # {}
    BY <1>2, <1>5, <2>4 DEF Recorded, Current
  <2>. QED
    BY <1>2, <1>4, <2>1, <2>3, <2>5 DEF ChallengeInv, Once, Disputing, Ended
<1>9. pc' \in Disputing \cup {"raised"}
  BY <1>6 DEF Disputing
<1>. QED
  BY <1>1, <1>2, <1>3, <1>5, <1>6, <1>7, <1>8, <1>9, DisputingKeeps

LEMMA AnswerKeeps ==
  ASSUME ExecutionInv, Answer
  PROVE  ExecutionInv'
<1>1. TypeOK' /\ ChallengeInv
  BY LoopTypes DEF ExecutionInv
<1>2. /\ UNCHANGED <<plan, bound, reviews, record, groups, cursor, escalated>> /\ pc = "challenged"
      /\ \/ response' \in Dispositions /\ pc' = "responding"
         \/ pc' = "unavailable"
  BY DEF Answer, inputs
<1>3. /\ cursor = 0 /\ plan.challenges = 1 /\ cursor < Len(groups)
      /\ Once(Phased("challenge")) /\ Recorded("challenge", Current) # {} /\ ~escalated
  BY <1>2 DEF ExecutionInv, AssessInv, ChallengeInv, Disputing
<1>4. ChallengeInv'
  <2>1. Phased("challenge")' = Phased("challenge")
        /\ Recorded("challenge", Current)' = Recorded("challenge", Current)
    BY <1>2 DEF Phased, Recorded, Current
  <2>. QED
    BY <1>2, <1>3, <2>1 DEF ChallengeInv, Once, Disputing, Ended
<1>5. PICK event : event = Event("challenge", "review", "none")
  OBVIOUS
<1>6. event.phase \in {"challenge", "challenge-response"}
  BY <1>5 DEF Event
<1>7. record' # Append(record, event)
  <2>1. record \in Seq(Events)
    BY DEF ExecutionInv, TypeOK
  <2>2. Len(Append(record, event)) # Len(record)
    BY <2>1
  <2>. QED
    BY <1>2, <2>2
<1>. QED
  BY <1>1, <1>2, <1>3, <1>4, <1>6, <1>7, DisputingKeeps DEF Disputing

LEMMA ResponseKeeps ==
  ASSUME ExecutionInv, RecordResponse \/ RecordUnavailable
  PROVE  ExecutionInv'
<1>1. TypeOK' /\ TypeOK /\ ChallengesAreBounded
  BY LoopTypes DEF ExecutionInv
<1>2. UNCHANGED <<plan, bound, reviews, groups, cursor>>
  BY DEF RecordResponse, RecordUnavailable, inputs, loop
<1>3. PICK result, next :
        /\ pc = "responding" => UNCHANGED <<escalated, response>> /\ result = response
                                /\ next = "unavailable"
        /\ pc = "unavailable" => /\ escalated' /\ response' = "unavailable"
                                 /\ result = "unavailable" /\ next = "raised"
        /\ pc \in {"responding", "unavailable"}
        /\ \/ record' = Append(record, Event("challenge-response", Current, result))
              /\ pc' \in {"adjudicating", next}
           \/ record' = record /\ pc' = next
  <2>1. CASE RecordResponse
    <3>1. pc = "responding" /\ UNCHANGED <<escalated, response>>
      BY <2>1 DEF RecordResponse, Emit, loop
    <3>2. \/ record' = Append(record, Event("challenge-response", Current, response))
             /\ pc' \in {"adjudicating", "unavailable"}
          \/ record' = record /\ pc' = "unavailable"
      BY <2>1, Zenon DEF RecordResponse, Emit
    <3>. QED
      BY <3>1, <3>2
  <2>2. CASE RecordUnavailable
    <3>1. pc = "unavailable" /\ escalated' /\ response' = "unavailable"
      BY <2>2 DEF RecordUnavailable, EmitAt, Emit
    <3>2. \/ record' = Append(record, Event("challenge-response", Current, "unavailable"))
             /\ pc' \in {"adjudicating", "raised"}
          \/ record' = record /\ pc' = "raised"
      BY <2>2, Zenon DEF RecordUnavailable, EmitAt, Emit
    <3>. QED
      BY <3>1, <3>2
  <2>. QED
    BY <2>1, <2>2
<1>. DEFINE event == Event("challenge-response", Current, result)
<1>5. event.phase = "challenge-response" /\ event.about = Current
  BY DEF Event
<1>6. /\ cursor = 0 /\ plan.challenges = 1 /\ cursor < Len(groups) /\ pc \in Disputing
      /\ Once(Phased("challenge")) /\ Recorded("challenge", Current) # {} /\ ~escalated
  BY <1>3 DEF ExecutionInv, AssessInv, ChallengeInv, Disputing
<1>7. pc = "responding" => response # "unavailable"
  BY DEF ExecutionInv, ChallengeInv, Dispositions
<1>8. record' = record \/ record' = Append(record, event)
  BY <1>3
<1>9. record' = Append(record, event) => ChallengesAreBounded'
  <2>. HIDE DEF event
  <2>. QED
    BY <1>1, <1>2, <1>5, <1>6, DisputeBounded
<1>10. ASSUME pc' # "raised"
       PROVE  ChallengeInv'
  <2>1. Current' = Current
    BY <1>2 DEF Current
  <2>2. PICK c : c = Current
    OBVIOUS
  <2>3. Phased("challenge")' = Phased("challenge")
    <3>1. CASE record' = record
      BY <3>1 DEF Phased
    <3>2. CASE record' = Append(record, event)
      BY <1>1, <1>5, <3>2, PhasedAfter
    <3>. QED
      BY <1>8, <3>1, <3>2
  <2>4. Recorded("challenge", c)' = Recorded("challenge", c)
    <3>1. CASE record' = record
      BY <3>1 DEF Recorded
    <3>2. CASE record' = Append(record, event)
      BY <1>1, <1>5, <3>2, RecordedAfter
    <3>. QED
      BY <1>8, <3>1, <3>2
  <2>5. Recorded("challenge", Current)' # {}
    <3>1. Recorded("challenge", c)' # {}
      BY <1>6, <2>2, <2>4
    <3>. QED
      BY <2>1, <2>2, <3>1 DEF Recorded
  <2>6. CASE pc' = "adjudicating"
    <3>1. record' = Append(record, event) /\ result = response'
      BY <1>3, <2>6
    <3>2. /\ record' # <<>> /\ record'[Len(record')] = event
      BY <1>1, <3>1, Recording DEF TypeOK
    <3>3. record'[Len(record')] = Event("challenge-response", Current, response)'
      BY <2>1, <3>1, <3>2 DEF Event
    <3>4. escalated' <=> response' = "unavailable"
      BY <1>3, <1>6, <1>7
    <3>. QED
      BY <1>6, <2>3, <2>5, <2>6, <3>2, <3>3, <3>4 DEF ChallengeInv, Once, Disputing, Ended
  <2>7. CASE pc' = "unavailable"
    <3>1. ~escalated'
      BY <1>3, <1>6, <2>7
    <3>. QED
      BY <1>6, <2>3, <2>5, <2>7, <3>1 DEF ChallengeInv, Once, Disputing, Ended
  <2>. QED
    BY <1>3, <1>10, <2>6, <2>7
<1>11. pc' \in Disputing \cup {"raised"}
  BY <1>3 DEF Disputing
<1>. QED
  <2>. HIDE DEF event
  <2>. QED
    BY <1>1, <1>2, <1>5, <1>6, <1>8, <1>9, <1>10, <1>11, DisputingKeeps

-----------------------------------------------------------------------------
(* The threads, and every step.                                            *)

LEMMA AttemptFacts ==
  ASSUME ExecutionInv, NEW r \in Roles, Attempt(r)
  PROVE  /\ UNCHANGED <<plan, bound, pc, record, groups, cursor, escalated, response, faults>>
         /\ pc = "first-pass" /\ reviews[r].status = "pending"
         /\ \A q \in Roles : q # r => reviews'[q] = reviews[q]
         /\ reviews'[r].tries = reviews[r].tries + 1
         /\ \/ /\ reviews'[r].findings \in Answers /\ reviews'[r].status = "answered"
               /\ reviews'[r].error = reviews[r].error
            \/ /\ reviews'[r].error \in Kinds /\ reviews'[r].findings = {}
               /\ reviews'[r].status = IF reviews'[r].error = "invalid-output"
                                          \/ reviews[r].tries = plan.retries
                                       THEN "failed" ELSE "pending"
<1>1. /\ UNCHANGED <<plan, bound, pc, record, groups, cursor, escalated, response, faults>>
      /\ pc = "first-pass" /\ reviews[r].status = "pending"
  BY DEF Attempt, inputs, loop
<1>2. reviews \in [Roles -> [status : {"pending", "answered", "failed"}, tries : 0..4,
                             error : Kinds \cup {"none"}, findings : SUBSET Claims]]
  BY DEF ExecutionInv, TypeOK
<1>3. CASE \E findings \in Answers : Settle(r, "answered", reviews[r].error, findings)
  BY <1>1, <1>2, <1>3 DEF Settle
<1>4. CASE \E kind \in Kinds :
              Settle(r, IF kind = "invalid-output" \/ reviews[r].tries = plan.retries
                        THEN "failed" ELSE "pending", kind, {})
  BY <1>1, <1>2, <1>4 DEF Settle
<1>. QED
  BY <1>3, <1>4 DEF Attempt

LEMMA AttemptKeeps ==
  ASSUME ExecutionInv, NEW r \in Roles, Attempt(r)
  PROVE  ExecutionInv'
<1>1. TypeOK' /\ TypeOK /\ CallsInv
  BY LoopTypes DEF ExecutionInv
<1>2. /\ UNCHANGED <<plan, bound, pc, record, groups, cursor, escalated, response, faults>>
      /\ pc = "first-pass" /\ reviews[r].status = "pending" /\ Panel' = Panel
  BY AttemptFacts DEF Panel
<1>3. plan.retries \in 0..3 /\ reviews[r].tries \in 0..4 /\ reviews[r].tries <= plan.retries
  BY <1>1, <1>2, PlanFacts DEF TypeOK, CallsInv
<1>4. \A p, a : Recorded(p, a)' = Recorded(p, a) /\ Phased(p)' = Phased(p)
  BY <1>2 DEF Recorded, Phased
<1>5. CallsInv'
  <2>1. ASSUME NEW q \in Roles
        PROVE  /\ reviews'[q].findings \in Answers \cup {{}}
               /\ reviews'[q].status = "pending" => reviews'[q].tries <= plan.retries
               /\ reviews'[q].status # "pending" => reviews'[q].tries > 0
               /\ reviews'[q].status = "failed" => reviews'[q].error \in Kinds
               /\ reviews'[q].status = "pending" => reviews'[q].findings = {}
    <3>1. CASE q # r
      BY <1>1, <3>1, AttemptFacts DEF CallsInv
    <3>2. CASE q = r
      BY <1>3, <3>2, AttemptFacts
    <3>. QED
      BY <3>1, <3>2
  <2>2. Recorded("first-pass", "review")' = {} /\ Panel \subseteq bound
    BY <1>1, <1>2, <1>4 DEF CallsInv, BeforePool, Ended
  <2>. QED
    BY <1>2, <2>1, <2>2 DEF CallsInv, BeforePool, Ended
<1>6. AssessInv'
  BY <1>2 DEF ExecutionInv, AssessInv, BeforePool, Disputing
<1>7. ChallengeInv'
  BY <1>2, <1>4 DEF ExecutionInv, ChallengeInv, Disputing, Ended
<1>8. FailureInv'
  BY <1>2, <1>4 DEF ExecutionInv, FailureInv, Ended
<1>9. RulingInv'
  BY <1>2, <1>4 DEF ExecutionInv, RulingInv, Disputing, Ended
<1>10. Phased("terminal")' = {}
  BY <1>2, <1>4, OpenRecord DEF Ended
<1>11. ChallengesAreBounded'
  BY <1>2 DEF ExecutionInv, ChallengesAreBounded, Phased, Recorded
<1>. QED
  BY <1>1, <1>5, <1>6, <1>7, <1>8, <1>9, <1>10, <1>11, NoVerdictYet DEF ExecutionInv

LEMMA StepInvariance ==
  ASSUME ExecutionInv, [Next]_vars
  PROVE  ExecutionInv'
<1>1. CASE Next
  <2>1. CASE \E r \in Roles : Attempt(r)
    BY <2>1, AttemptKeeps
  <2>2. CASE RecordPlan \/ RecordMissing \/ RecordFirstPass \/ Accept \/ Doubt
    BY <2>2, EarlyActionsKeep
  <2>3. CASE CloseMissing \/ CloseFailed \/ CloseAccepted \/ CloseDoubted \/ CloseGroups
    BY <2>3, ClosesKeep
  <2>4. CASE RecordFailure
    BY <2>4, RecordFailureKeeps
  <2>5. CASE Normalize
    BY <2>5, NormalizeKeeps
  <2>6. CASE Decide \/ PassOver \/ Adjudicate
    BY <2>6, DecideKeeps
  <2>7. CASE Dispute
    BY <2>7, DisputeKeeps
  <2>8. CASE Answer
    BY <2>8, AnswerKeeps
  <2>9. CASE RecordResponse \/ RecordUnavailable
    BY <2>9, ResponseKeeps
  <2>. QED
    BY <1>1, <2>1, <2>2, <2>3, <2>4, <2>5, <2>6, <2>7, <2>8, <2>9, Zenon DEF Next, Main
<1>2. CASE UNCHANGED vars
  <2>1. UNCHANGED <<plan, bound, pc, reviews, record, groups, cursor, escalated, response, faults>>
    BY <1>2 DEF vars
  <2>2. \A p, a : Recorded(p, a)' = Recorded(p, a) /\ Phased(p)' = Phased(p)
    BY <2>1 DEF Recorded, Phased
  <2>a. /\ Panel' = Panel /\ Failed' = Failed /\ Material' = Material /\ Reported' = Reported
        /\ AllReviewed' <=> AllReviewed
    BY <2>1, SameReviews
  <2>b. /\ \A d : Rulings(d)' = Rulings(d) /\ (Ruled(d)' <=> Ruled(d))
        /\ \A r \in Panel : FailureIsRecorded(r) => FailureIsRecorded(r)'
        /\ LastAnswerConfirms' <=> LastAnswerConfirms
    BY <2>1, <2>2 DEF Rulings, Ruled, FailureIsRecorded, LastAnswerConfirms, Once
  <2>3. TypeOK' /\ CallsInv' /\ AssessInv'
    BY <2>1, <2>2, <2>a DEF ExecutionInv, TypeOK, CallsInv, AssessInv
  <2>4. ChallengeInv' /\ FailureInv' /\ RulingInv' /\ ClosedInv'
    <3>. USE DEF ExecutionInv
    <3>1. ChallengeInv'
      BY <2>1 DEF ChallengeInv, Current, LastAnswerConfirms, Recorded, Phased
    <3>2. FailureInv'
      BY <2>1 DEF FailureInv, FailureIsRecorded, Panel, Failed, Once, Recorded
    <3>3. RulingInv'
      BY <2>1, <2>2, <2>a, <2>b DEF RulingInv, Once
    <3>4. ClosedInv'
      BY <2>1, <2>2, <2>a DEF ClosedInv
    <3>. QED
      BY <3>1, <3>2, <3>3, <3>4
  <2>5. VerdictIsWarranted' /\ FailuresAreRecorded' /\ EveryGroupIsDecided' /\ ChallengesAreBounded'
    <3>. USE DEF ExecutionInv
    <3>1. VerdictIsWarranted'
      BY <2>1, <2>2, <2>a, <2>b DEF VerdictIsWarranted, Warranted, Confirmed
    <3>2. FailuresAreRecorded'
      BY <2>1, <2>2, <2>a, <2>b DEF FailuresAreRecorded
    <3>3. EveryGroupIsDecided'
      BY <2>1, <2>2, <2>a, <2>b DEF EveryGroupIsDecided, GroupsAreDecided, Once
    <3>4. ChallengesAreBounded'
      BY <2>1 DEF ChallengesAreBounded, Recorded, Phased
    <3>. QED
      BY <3>1, <3>2, <3>3, <3>4
  <2>. QED
    BY <2>3, <2>4, <2>5 DEF ExecutionInv
<1>. QED
  BY <1>1, <1>2

LEMMA Initially ==
  ASSUME Init
  PROVE  ExecutionInv
<1>1. /\ plan \in Plans /\ bound \in {{}, ToSet(plan.roles)} /\ pc = "plan" /\ record = <<>>
      /\ groups = <<>> /\ cursor = 0 /\ ~escalated /\ escalated \in BOOLEAN /\ response = "none"
      /\ faults = 0
      /\ reviews = [r \in Roles |-> [status |-> "pending", tries |-> 0,
                                     error |-> "none", findings |-> {}]]
  BY DEF Init
<1>2. /\ plan.roles \in Seq(Roles) /\ Panel \subseteq Roles /\ plan.retries \in 0..3
      /\ plan.challenges \in {0, 1}
  BY <1>1, PlanFacts DEF Panel, ToSet
<1>3. \A p, a : Recorded(p, a) = {} /\ Phased(p) = {}
  BY <1>1 DEF Recorded, Phased
<1>4. TypeOK
  BY <1>1, <1>2 DEF TypeOK, Points, BeforePool, Panel
<1>5. CallsInv /\ AssessInv
  BY <1>1, <1>2, <1>3 DEF CallsInv, AssessInv, BeforePool, Disputing
<1>6. ChallengeInv /\ FailureInv /\ RulingInv
  BY <1>1, <1>2, <1>3 DEF ChallengeInv, FailureInv, RulingInv, Disputing
<1>7. ClosedInv /\ VerdictIsWarranted /\ FailuresAreRecorded /\ EveryGroupIsDecided
  BY <1>3 DEF ClosedInv, VerdictIsWarranted, FailuresAreRecorded, EveryGroupIsDecided
<1>8. ChallengesAreBounded
  <2>1. Cardinality(Phased("challenge")) = 0
    BY <1>3, FS_EmptySet
  <2>. QED
    BY <1>1, <1>2, <2>1 DEF ChallengesAreBounded
<1>. QED
  BY <1>4, <1>5, <1>6, <1>7, <1>8 DEF ExecutionInv

-----------------------------------------------------------------------------
(* Every reachable state is an execution's, as the parts above say.        *)
THEOREM ExecutionInvariance == Spec => []ExecutionInv
<1>1. Init => ExecutionInv
  BY Initially
<1>2. ExecutionInv /\ [Next]_vars => ExecutionInv'
  BY StepInvariance
<1>. QED
  BY <1>1, <1>2, PTL DEF Spec

(* The state stays well typed.                                             *)
THEOREM ExecutionTypes == Spec => []TypeOK
<1>1. ExecutionInv => TypeOK
  BY DEF ExecutionInv
<1>. QED
  BY <1>1, ExecutionInvariance, PTL

(* Whatever the answers, errors and order of the threads, the outcome of a *)
(* review is the one they warrant: no failure of a reviewer, no doubt and  *)
(* no unanswered challenge is ever turned into ACCEPT or CHANGE.           *)
THEOREM WarrantedVerdicts == Spec => []VerdictIsWarranted
<1>1. ExecutionInv => VerdictIsWarranted
  BY DEF ExecutionInv
<1>. QED
  BY <1>1, ExecutionInvariance, PTL

(* A closed review has one execution-error per failed reviewer, with its   *)
(* last error.                                                             *)
THEOREM RecordedFailures == Spec => []FailuresAreRecorded
<1>1. ExecutionInv => FailuresAreRecorded
  BY DEF ExecutionInv
<1>. QED
  BY <1>1, ExecutionInvariance, PTL

(* A review closed after its groups were formed has ruled on each reported *)
(* defect once, and asks for a change exactly if every ruling does.        *)
THEOREM DecidedGroups == Spec => []EveryGroupIsDecided
<1>1. ExecutionInv => EveryGroupIsDecided
  BY DEF ExecutionInv
<1>. QED
  BY <1>1, ExecutionInvariance, PTL

(* With policies that have room for every specialist, a change with a risk *)
(* is accepted, or asked to be changed, only with the specialist's answer, *)
(* by two reviewers, and with its findings challenged.                     *)
THEOREM ReviewedRisks ==
  ASSUME Roomy
  PROVE  Spec => []RisksAreReviewed
<1>1. ASSUME ExecutionInv, Closed("ACCEPT") \/ Closed("CHANGE")
      PROVE  /\ \A role \in DOMAIN Specialist :
                   Specialist[role] \cap plan.risks # {} => reviews[role].status = "answered"
             /\ plan.risks # {} => /\ \E r, q \in Panel : r # q
                                   /\ Closed("CHANGE") => Confirmed
  <2>1. PICK i \in Recorded("terminal", "review") : record[i].result \in {"ACCEPT", "CHANGE"}
    BY <1>1 DEF Closed
  <2>2. AllReviewed
    BY <1>1, <2>1 DEF ExecutionInv, ClosedInv, Recorded, Phased
  <2>3. plan \in Plans
    BY <1>1 DEF ExecutionInv, TypeOK
  <2>4. Complete(plan.roles, plan.risks) /\ (plan.risks # {} => plan.challenges = 1)
    BY <2>3, FullPanel
  <2>5. \A k \in 1..Len(plan.roles) : plan.roles[k] \in Panel
    BY <2>3, PlanFacts DEF Panel, ToSet
  <2>6. \A role \in DOMAIN Specialist :
           Specialist[role] \cap plan.risks # {} => reviews[role].status = "answered"
    <3>1. DOMAIN Specialist = {"security", "operations"}
      BY DEF Specialist
    <3>. QED
      BY <2>2, <2>4, <2>5, <3>1 DEF Complete, AllReviewed
  <2>7. plan.risks # {} => \E r, q \in Panel : r # q
    <3>1. plan.roles \in Seq(Roles)
      BY <2>3, PlanFacts
    <3>. QED
      BY <2>4, <2>5, <3>1 DEF Complete
  <2>8. plan.risks # {} /\ Closed("CHANGE") => Confirmed
    <3>1. Closed("CHANGE") => Warranted("CHANGE")
      BY <1>1 DEF ExecutionInv, VerdictIsWarranted, Closed
    <3>. QED
      BY <2>4, <3>1 DEF Warranted
  <2>. QED
    BY <2>6, <2>7, <2>8
<1>2. ExecutionInv => RisksAreReviewed
  BY <1>1 DEF RisksAreReviewed
<1>. QED
  BY <1>2, ExecutionInvariance, PTL

(* No execution challenges more often than its plan allows, takes an       *)
(* answer for a challenge it has not put, or changes a challenged group    *)
(* without the confirmation just before.                                   *)
THEOREM BoundedChallenges == Spec => []ChallengesAreBounded
<1>1. ExecutionInv => ChallengesAreBounded
  BY DEF ExecutionInv
<1>. QED
  BY <1>1, ExecutionInvariance, PTL

-----------------------------------------------------------------------------
(* What others rely on.                                                    *)

LEMMA MainAlone ==
  ASSUME Main
  PROVE  UNCHANGED <<plan, reviews>> /\ pc \notin Ended
<1>1. UNCHANGED <<plan, reviews>>
  BY Zenon DEF Main, RecordPlan, RecordMissing, CloseMissing, RecordFirstPass, RecordFailure,
               CloseFailed, Accept, CloseAccepted, Doubt, CloseDoubted, Normalize, Decide, PassOver,
               Dispute, Answer, RecordResponse, RecordUnavailable, Adjudicate, CloseGroups, inputs
<1>2. pc \notin Ended
  <2>1. \/ pc \in {"plan", "missing", "unstaffed", "first-pass", "assess", "accepted", "doubted"}
        \/ pc \in {"groups", "challenged", "responding", "unavailable", "adjudicating"}
    <3>1. RecordPlan \/ RecordMissing \/ CloseMissing \/ RecordFirstPass => 
             pc \in {"plan", "missing", "unstaffed", "first-pass"}
      BY DEF RecordPlan, RecordMissing, CloseMissing, RecordFirstPass, Close, EmitAt, Emit
    <3>2. RecordFailure \/ CloseFailed \/ Accept \/ CloseAccepted \/ Doubt \/ CloseDoubted \/ Normalize
             => pc \in {"assess", "accepted", "doubted"}
      BY DEF RecordFailure, CloseFailed, Accept, CloseAccepted, Doubt, CloseDoubted, Normalize,
             Close, EmitAt, Emit
    <3>3. Decide \/ PassOver \/ Dispute \/ Answer \/ CloseGroups => pc \in {"groups", "challenged"}
      BY DEF Decide, PassOver, Dispute, Answer, CloseGroups, InLoop, Close, EmitAt, Emit
    <3>4. RecordResponse \/ RecordUnavailable \/ Adjudicate =>
             pc \in {"responding", "unavailable", "adjudicating"}
      BY DEF RecordResponse, RecordUnavailable, Adjudicate, EmitAt, Emit
    <3>. QED
      BY <3>1, <3>2, <3>3, <3>4 DEF Main
  <2>. QED
    BY <2>1 DEF Ended
<1>. QED
  BY <1>1, <1>2

(* Every step of a role's thread is one of a reviewer call, and none is    *)
(* taken once the first pass is in the record.                             *)
THEOREM ThreadsImplementCalls == Spec => ThreadsAreCalls
<1>1. ASSUME ExecutionInv, [Next]_vars
      PROVE  [\A r \in Roles : reviews'[r] # reviews[r] =>
                 Thread(r)!Next /\ Recorded("first-pass", "review") = {}]_vars
  <2>1. CASE UNCHANGED vars
    BY <2>1
  <2>2. CASE Main
    BY <2>2, MainAlone
  <2>3. ASSUME NEW q \in Roles, Attempt(q), NEW r \in Roles, reviews'[r] # reviews[r]
        PROVE  Thread(r)!Next /\ Recorded("first-pass", "review") = {}
    <3>1. r = q
      BY <1>1, <2>3, AttemptFacts
    <3>2. Recorded("first-pass", "review") = {} /\ reviews[q].findings = {}
      BY <1>1, <2>3, AttemptFacts DEF ExecutionInv, CallsInv
    <3>3. Thread(q)!Next
      BY <1>1, <2>3, <3>2, AttemptFacts DEF Thread!Next, Thread!Succeed, Thread!Fail, Thread!Kinds,
                                             Kinds
    <3>. QED
      BY <3>1, <3>2, <3>3
  <2>. QED
    BY <1>1, <2>1, <2>2, <2>3 DEF Next
<1>. QED
  BY <1>1, ExecutionInvariance, PTL DEF Spec, ThreadsAreCalls

VerdictIsEarned ==
  /\ Verdict \in {"none", "ACCEPT", "CHANGE", "ESCALATE", "INCOMPLETE"}
  /\ pc \notin Ended => Verdict = "none"
  /\ Verdict \in {"ACCEPT", "CHANGE"} => \E r \in Panel : reviews[r].tries > 0

LEMMA VerdictFacts ==
  ASSUME ExecutionInv
  PROVE  VerdictIsEarned
<1>1. Recorded("terminal", "review") \subseteq Phased("terminal")
  BY DEF Recorded, Phased
<1>2. CASE Recorded("terminal", "review") = {}
  BY <1>2 DEF Verdict, VerdictIsEarned
<1>3. CASE Recorded("terminal", "review") # {}
  <2>1. /\ pc \in Ended /\ Verdict \in {"ACCEPT", "CHANGE", "ESCALATE", "INCOMPLETE"}
        /\ Verdict \in {"ACCEPT", "CHANGE"} => AllReviewed
    BY <1>1, <1>3 DEF ExecutionInv, ClosedInv, Verdict
  <2>2. PICK r : r \in Panel /\ r \in Roles
    BY PlanFacts DEF ExecutionInv, TypeOK, Panel, ToSet
  <2>3. AllReviewed => reviews[r].tries > 0
    BY <2>2 DEF AllReviewed, ExecutionInv, CallsInv
  <2>. QED
    BY <2>1, <2>2, <2>3 DEF VerdictIsEarned
<1>. QED
  BY <1>2, <1>3

(* An execution asks reviewers while the record is open, and closes it     *)
(* once: every step of it is a step of the record it promises.             *)
THEOREM RecordImplemented == Spec => ImplementsRecord
<1>0. ExecutionInv => VerdictIsEarned
  BY VerdictFacts
<1>1. ASSUME ExecutionInv, VerdictIsEarned, VerdictIsEarned', [Next]_vars
      PROVE  [Record!Next]_(Record!vars)
  <2>. DEFINE Asked == \E r \in Panel : reviews[r].tries > 0
  <2>1. CASE UNCHANGED vars
    <3>1. Verdict' = Verdict /\ (Asked' <=> Asked)
      BY <2>1 DEF vars, Verdict, Recorded, Panel
    <3>. QED
      BY <3>1 DEF Record!vars
  <2>2. CASE Main
    <3>1. Verdict = "none" /\ (Asked' <=> Asked)
      BY <1>1, <2>2, MainAlone DEF VerdictIsEarned, Panel
    <3>2. CASE Verdict' = "none"
      BY <3>1, <3>2 DEF Record!vars
    <3>3. CASE Verdict' # "none"
      <4>1. PICK v : v = Verdict'
        OBVIOUS
      <4>2. v \in {"ACCEPT", "CHANGE", "ESCALATE", "INCOMPLETE"} /\ (v \in {"ACCEPT", "CHANGE"} => Asked')
        BY <1>1, <3>3, <4>1 DEF VerdictIsEarned
      <4>3. Record!Decide(ThisRun, v)
        BY <3>1, <3>3, <4>1, <4>2 DEF Record!Decide
      <4>. QED
        BY <4>2, <4>3 DEF Record!Next, Record!Verdicts
    <3>. QED
      BY <3>2, <3>3
  <2>3. ASSUME NEW r \in Roles, Attempt(r)
        PROVE  Record!Next
    <3>1. UNCHANGED <<plan, record>> /\ pc \notin Ended
      BY <1>1, <2>3, AttemptFacts DEF Ended
    <3>2. Verdict = "none" /\ Verdict' = "none"
      BY <1>1, <3>1 DEF VerdictIsEarned, Verdict, Recorded
    <3>3. Asked'
      <4>1. r \in Panel'
        BY <2>3, <3>1 DEF Attempt, Panel
      <4>2. reviews'[r].tries > 0
        <5>1. reviews[r].tries \in Nat
          BY <1>1, <2>3 DEF ExecutionInv, TypeOK
        <5>. QED
          BY <1>1, <2>3, <5>1, AttemptFacts
      <4>. QED
        BY <4>1, <4>2
    <3>4. Record!Ask(ThisRun)
      BY <3>2, <3>3 DEF Record!Ask
    <3>. QED
      BY <3>4 DEF Record!Next
  <2>. QED
    BY <1>1, <2>1, <2>2, <2>3 DEF Next
<1>. QED
  BY <1>0, <1>1, ExecutionInvariance, PTL DEF Spec, ImplementsRecord

-----------------------------------------------------------------------------
(* The variant.                                                            *)

(* How far execute_plan is: the phase, the failure or group its loop is    *)
(* at, and what is left to do about that group.                            *)
Phase == CASE pc = "plan" -> 4
           [] pc \in {"missing", "first-pass"} -> 3
           [] pc \in {"unstaffed", "assess"} -> 2
           [] pc \in Ended -> 0
           [] OTHER -> 1

Left == CASE pc = "groups" -> 4
          [] pc = "challenged" -> 3
          [] pc = "responding" -> 2
          [] pc = "unavailable" -> 1
          [] OTHER -> 0

Bounded == pc \in Ended \/ cursor <= (IF Phase = 1 THEN Len(groups) ELSE Len(plan.roles))

(* No step goes back: a thread has made one more of its calls, or the main *)
(* thread is further, also where record_event raises inside the try block  *)
(* of a challenge.                                                         *)
MainAdvances ==
  \/ Phase' < Phase
  \/ /\ UNCHANGED <<plan, groups, Phase>>
     /\ cursor' > cursor \/ (cursor' = cursor /\ Left' < Left)

ThreadAdvances(r) ==
  /\ reviews'[r].tries > reviews[r].tries
  /\ \A q \in Roles \ {r} : reviews'[q] = reviews[q]
  /\ UNCHANGED <<plan, groups, pc, cursor>>

ExecutionAdvances ==
  [][(MainAdvances /\ UNCHANGED reviews) \/ \E r \in Panel : ThreadAdvances(r)]_vars

LEMMA EmitMoves ==
  ASSUME NEW point, NEW event, NEW next, NEW handler, Emit(point, event, next, handler)
  PROVE  pc = point /\ pc' \in {next, handler}
BY DEF Emit

LEMMA MainMoves ==
  ASSUME ExecutionInv, Main
  PROVE  MainAdvances
<1>. USE EmitMoves DEF EmitAt, Close, inputs, loop
<1>0. cursor \in Nat
  BY DEF ExecutionInv, TypeOK
<1>1. CASE RecordPlan \/ RecordMissing \/ CloseMissing \/ RecordFirstPass
  <2>1. \/ pc = "plan" /\ pc' \in {"first-pass", "missing", "raised"}
        \/ pc = "missing" /\ pc' \in {"unstaffed", "raised"}
        \/ pc = "unstaffed" /\ pc' \in {"returned", "raised"}
        \/ pc = "first-pass" /\ pc' \in {"assess", "raised"}
    BY <1>1 DEF RecordPlan, RecordMissing, CloseMissing, RecordFirstPass
  <2>. QED
    BY <2>1 DEF MainAdvances, Phase, Ended
<1>2. CASE RecordFailure
  <2>1. pc = "assess" /\ pc' \in {"assess", "raised"} /\ UNCHANGED <<plan, groups>>
    BY <1>2 DEF RecordFailure
  <2>2. cursor' > cursor
    BY <1>2 DEF RecordFailure, NextFailed
  <2>. QED
    BY <2>1, <2>2 DEF MainAdvances, Phase, Ended
<1>3. CASE CloseFailed \/ Accept \/ Doubt \/ Normalize \/ CloseAccepted \/ CloseDoubted \/ CloseGroups
  <2>1. \/ pc = "assess" /\ pc' \in {"returned", "raised", "accepted", "doubted", "groups"}
        \/ pc \in {"accepted", "doubted", "groups"} /\ pc' \in {"returned", "raised"}
    BY <1>3 DEF CloseFailed, Accept, Doubt, Normalize, CloseAccepted, CloseDoubted, CloseGroups
  <2>. QED
    BY <2>1 DEF MainAdvances, Phase, Ended
<1>4. CASE Decide \/ PassOver \/ Adjudicate
  <2>1. pc \in {"groups", "adjudicating"} /\ pc' \in {"groups", "raised"}
    BY <1>4 DEF Decide, PassOver, Adjudicate
  <2>2. UNCHANGED <<plan, groups>> /\ cursor' = cursor + 1
    BY <1>4 DEF Decide, PassOver, Adjudicate
  <2>. QED
    BY <1>0, <2>1, <2>2 DEF MainAdvances, Phase, Ended
<1>5. CASE Dispute \/ Answer \/ RecordResponse \/ RecordUnavailable
  <2>1. \/ pc = "groups" /\ pc' \in {"challenged", "raised"}
        \/ pc = "challenged" /\ pc' \in {"responding", "unavailable"}
        \/ pc = "responding" /\ pc' \in {"adjudicating", "unavailable"}
        \/ pc = "unavailable" /\ pc' \in {"adjudicating", "raised"}
    <3>1. CASE Dispute
      BY <3>1 DEF Dispute, InLoop
    <3>2. CASE Answer
      BY <3>2 DEF Answer
    <3>3. CASE RecordResponse \/ RecordUnavailable
      BY <3>3 DEF RecordResponse, RecordUnavailable
    <3>. QED
      BY <1>5, <3>1, <3>2, <3>3
  <2>2. UNCHANGED <<plan, groups, cursor>>
    BY <1>5 DEF Dispute, Answer, RecordResponse, RecordUnavailable
  <2>. QED
    BY <2>1, <2>2 DEF MainAdvances, Phase, Left, Ended
<1>. QED
  BY <1>1, <1>2, <1>3, <1>4, <1>5 DEF Main

LEMMA ThreadMoves ==
  ASSUME ExecutionInv, NEW r \in Roles, Attempt(r)
  PROVE  r \in Panel /\ ThreadAdvances(r)
<1>1. reviews[r].tries \in Nat /\ reviews \in [Roles -> [status : {"pending", "answered", "failed"}, tries : 0..4,
                            error : Kinds \cup {"none"}, findings : SUBSET Claims]]
  BY DEF ExecutionInv, TypeOK
<1>. QED
  BY <1>1 DEF Attempt, Settle, ThreadAdvances, inputs, loop

(* The loop over the failures stays within the roles.                      *)
RolesBounded == pc = "assess" => cursor <= Len(plan.roles)

LEMMA ToAssess ==
  ASSUME Next, pc' = "assess"
  PROVE  RecordFirstPass \/ RecordFailure
<1>. USE EmitMoves DEF EmitAt, Close
<1>1. ~(RecordPlan \/ RecordMissing \/ CloseMissing \/ \E r \in Roles : Attempt(r))
  BY DEF RecordPlan, RecordMissing, CloseMissing, Attempt
<1>2. ~(CloseFailed \/ Accept \/ Doubt \/ Normalize \/ CloseAccepted \/ CloseDoubted \/ CloseGroups)
  BY DEF CloseFailed, Accept, Doubt, Normalize, CloseAccepted, CloseDoubted, CloseGroups
<1>3. ~(Decide \/ PassOver \/ Adjudicate)
  BY DEF Decide, PassOver, Adjudicate
<1>4. ~(Dispute \/ Answer \/ RecordResponse \/ RecordUnavailable)
  BY DEF Dispute, Answer, RecordResponse, RecordUnavailable
<1>. QED
  BY <1>1, <1>2, <1>3, <1>4 DEF Next, Main

LEMMA RolesStayBounded ==
  ASSUME ExecutionInv, RolesBounded, [Next]_vars
  PROVE  RolesBounded'
<1>0. Len(plan.roles) \in Nat
  BY PlanFacts DEF ExecutionInv, TypeOK
<1>1. CASE UNCHANGED vars
  BY <1>1 DEF vars, RolesBounded
<1>2. CASE RecordFirstPass
  <2>1. pc = "first-pass" /\ UNCHANGED <<plan, cursor>>
    BY <1>2, EmitMoves DEF RecordFirstPass, EmitAt, inputs, loop
  <2>2. cursor = 0
    BY <2>1 DEF ExecutionInv, AssessInv
  <2>. QED
    BY <1>0, <2>1, <2>2 DEF RolesBounded
<1>3. CASE RecordFailure
  BY <1>0, <1>3 DEF RecordFailure, RolesBounded, inputs
<1>. QED
  BY <1>1, <1>2, <1>3, ToAssess DEF RolesBounded

LEMMA BoundHolds ==
  ASSUME ExecutionInv, RolesBounded
  PROVE  Bounded
<1>1. Len(plan.roles) \in Nat /\ Len(groups) \in Nat /\ pc \in Points
  BY PlanFacts DEF ExecutionInv, TypeOK
<1>2. pc \in BeforePool \cup {"first-pass"} => cursor = 0
  BY DEF ExecutionInv, AssessInv
<1>3. pc \in {"accepted", "doubted"} => cursor = 0
  BY DEF ExecutionInv, AssessInv
<1>4. pc \in {"groups"} \cup Disputing => cursor <= Len(groups)
  BY DEF ExecutionInv, AssessInv
<1>. QED
  BY <1>1, <1>2, <1>3, <1>4 DEF RolesBounded, Bounded, Phase, Points, BeforePool, Disputing, Ended

(* The execution of any plan, however its threads interleave and whatever  *)
(* the record does, only advances, in phases and loops as long as its      *)
(* roles and its groups: nothing is called, decided or challenged for ever.*)
THEOREM ExecutionOnlyAdvances == Spec => []Bounded /\ ExecutionAdvances
<1>1. Init => RolesBounded
  BY DEF Init, RolesBounded
<1>2. ExecutionInv /\ RolesBounded /\ [Next]_vars => RolesBounded'
  BY RolesStayBounded
<1>3. ExecutionInv /\ RolesBounded => Bounded
  BY BoundHolds
<1>4. ExecutionInv /\ [Next]_vars
        => [(MainAdvances /\ UNCHANGED reviews) \/ \E r \in Panel : ThreadAdvances(r)]_vars
  BY MainMoves, ThreadMoves, MainAlone DEF Next
<1>. QED
  BY <1>1, <1>2, <1>3, <1>4, ExecutionInvariance, PTL DEF Spec, ExecutionAdvances

=============================================================================
