-------------------------- MODULE InvocationProofs --------------------------
(***************************************************************************)
(* What cli.main promises of one comparison holds for any number of        *)
(* invocations, commits, pushes, configuration files and faults.           *)
(***************************************************************************)
EXTENDS Invocation, SequenceTheorems, TLAPS

LEMMA RolesType ==
  ASSUME NEW range \in Comparison, NEW declared \in SUBSET RiskIndicators
  PROVE  RolesFor(range, declared) \in Seq(Roles)
<1>1. ASSUME NEW role \in {"security", "operations"}, NEW risks
      PROVE Called(role, risks) \in Seq(Roles)
  <2>1. <<role>> \in Seq(Roles) /\ <<>> \in Seq(Roles)
    BY DEF Roles
  <2>. QED
    BY <2>1, Zenon DEF Called
<1>2. ASSUME NEW risks PROVE Panelists(risks) \in Seq(Roles)
  <2>1. <<"correctness">> \in Seq(Roles) /\ <<"correctness", "testing">> \in Seq(Roles)
    BY DEF Roles
  <2>2. Called("security", risks) \in Seq(Roles) /\ Called("operations", risks) \in Seq(Roles)
    BY <1>1
  <2>. QED
    BY <2>1, <2>2 DEF Panelists
<1>3. ASSUME NEW all \in Seq(Roles)
      PROVE  SubSeq(all, 1, IF Len(all) < 4 THEN Len(all) ELSE 4) \in Seq(Roles)
  OBVIOUS
<1>. QED
  BY <1>2, <1>3 DEF RolesFor, SelectPlan, Default

(* Histories are only appended to.                                         *)
LEMMA NowIsLast ==
  ASSUME GitTypeOK
  PROVE  /\ Len(hub) \in Nat \ {0} /\ Now(hub) = hub[Len(hub)] /\ Now(hub) \in Comparison
         /\ Len(local) \in Nat \ {0} /\ Now(local) = local[Len(local)] /\ Now(local) \in Comparison
BY DEF GitTypeOK, Now

(* What a list of texts says.                                              *)
Says(texts, text) == \E i \in 1..Len(texts) : texts[i] = text

LEMMA SaysBoth ==
  ASSUME NEW S, NEW t \in Seq(S), NEW u \in Seq(S), NEW text
  PROVE  t \o u \in Seq(S) /\ (Says(t \o u, text) <=> Says(t, text) \/ Says(u, text))
<1>1. ASSUME Says(t, text) PROVE Says(t \o u, text)
  <2>1. PICK i \in 1..Len(t) : t[i] = text
    BY <1>1 DEF Says
  <2>2. i \in 1..Len(t \o u) /\ (t \o u)[i] = text
    BY <2>1
  <2>. QED
    BY <2>2 DEF Says
<1>2. ASSUME Says(u, text) PROVE Says(t \o u, text)
  <2>1. PICK i \in 1..Len(u) : u[i] = text
    BY <1>2 DEF Says
  <2>2. Len(t) + i \in 1..Len(t \o u) /\ (t \o u)[Len(t) + i] = text
    BY <2>1
  <2>. QED
    BY <2>2 DEF Says
<1>3. ASSUME Says(t \o u, text), ~Says(t, text) PROVE Says(u, text)
  <2>1. PICK i \in 1..Len(t \o u) : (t \o u)[i] = text
    BY <1>3 DEF Says
  <2>2. i \notin 1..Len(t)
    BY <1>3, <2>1 DEF Says
  <2>3. i - Len(t) \in 1..Len(u) /\ u[i - Len(t)] = text
    BY <2>1, <2>2
  <2>. QED
    BY <2>3 DEF Says
<1>4. t \o u \in Seq(S)
  OBVIOUS
<1>. QED
  BY <1>1, <1>2, <1>3, <1>4

(* The texts for the risks are the declared ones.                          *)
LEMMA RisksAreSaid ==
  ASSUME NEW declared \in SUBSET RiskIndicators
  PROVE  /\ RiskTexts(declared) \in Seq(Written)
         /\ \A text : Says(RiskTexts(declared), text) <=>
                         \E risk \in declared : text = RiskText(risk)
<1>1. ASSUME NEW risk \in RiskIndicators
      PROVE  /\ Told(risk, declared) \in Seq(Written)
             /\ \A text : Says(Told(risk, declared), text) <=>
                             risk \in declared /\ text = RiskText(risk)
  <2>1. RiskText(risk) \in Written
    BY DEF Written
  <2>2. CASE risk \in declared
    <3>1. Told(risk, declared) = <<RiskText(risk)>>
      BY <2>2 DEF Told
    <3>. HIDE DEF Told
    <3>2. \A text : Says(<<RiskText(risk)>>, text) <=> text = RiskText(risk)
      BY DEF Says
    <3>. QED
      BY <2>1, <2>2, <3>1, <3>2
  <2>3. CASE risk \notin declared
    <3>1. Told(risk, declared) = <<>>
      BY <2>3 DEF Told
    <3>2. \A text : ~Says(<<>>, text)
      BY DEF Says
    <3>. QED
      BY <2>3, <3>1, <3>2
  <2>. QED
    BY <2>2, <2>3
<1>. DEFINE T(risk) == Told(risk, declared)
            t1 == T("concurrency") \o T("dependency-change")
            t2 == t1 \o T("destructive-data")
            t3 == t2 \o T("identity-or-access")
            t4 == t3 \o T("infrastructure")
            t5 == t4 \o T("migration")
            t6 == t5 \o T("public-interface")
            t7 == t6 \o T("retry-idempotency")
<1>2. RiskTexts(declared) = t7
  BY DEF RiskTexts
<1>. HIDE DEF T
<1>3. ASSUME NEW risk \in RiskIndicators
      PROVE  /\ T(risk) \in Seq(Written)
             /\ \A text : Says(T(risk), text) <=> risk \in declared /\ text = RiskText(risk)
  BY <1>1 DEF T
<1>. DEFINE R1 == {"concurrency"} \cup {"dependency-change"}
            R2 == R1 \cup {"destructive-data"}
            R3 == R2 \cup {"identity-or-access"}
            R4 == R3 \cup {"infrastructure"}
            R5 == R4 \cup {"migration"}
            R6 == R5 \cup {"public-interface"}
            R7 == R6 \cup {"retry-idempotency"}
            For(t, R) == /\ t \in Seq(Written)
                         /\ \A text : Says(t, text) <=>
                                         \E risk \in R \cap declared : text = RiskText(risk)
<1>4. ASSUME NEW t, NEW R \in SUBSET RiskIndicators, For(t, R), NEW risk \in RiskIndicators
      PROVE  For(t \o T(risk), R \cup {risk})
  <2>1. \A text : Says(t \o T(risk), text) <=> Says(t, text) \/ Says(T(risk), text)
    BY <1>3, <1>4, SaysBoth
  <2>2. t \o T(risk) \in Seq(Written)
    BY <1>3, <1>4
  <2>. QED
    BY <1>3, <1>4, <2>1, <2>2
<1>5. For(T("concurrency"), {"concurrency"})
  BY <1>3 DEF RiskIndicators
<1>. HIDE DEF For
<1>. USE DEF RiskIndicators
<1>6. For(t1, R1)
  BY <1>4, <1>5
<1>. HIDE DEF t1, R1
<1>7. R1 \in SUBSET RiskIndicators
  BY DEF R1
<1>8. For(t2, R2) /\ R2 \in SUBSET RiskIndicators
  BY <1>4, <1>6, <1>7
<1>. HIDE DEF t2, R2
<1>9. For(t3, R3) /\ R3 \in SUBSET RiskIndicators
  BY <1>4, <1>8
<1>. HIDE DEF t3, R3
<1>10. For(t4, R4) /\ R4 \in SUBSET RiskIndicators
  BY <1>4, <1>9
<1>. HIDE DEF t4, R4
<1>11. For(t5, R5) /\ R5 \in SUBSET RiskIndicators
  BY <1>4, <1>10
<1>. HIDE DEF t5, R5
<1>12. For(t6, R6) /\ R6 \in SUBSET RiskIndicators
  BY <1>4, <1>11
<1>. HIDE DEF t6, R6
<1>13. For(t7, R7)
  BY <1>4, <1>12
<1>14. R7 = RiskIndicators
  BY DEF R7, R6, R5, R4, R3, R2, R1
<1>15. R7 \cap declared = declared
  BY <1>14
<1>. QED
  BY <1>2, <1>13, <1>15 DEF For

(* The program's own texts say what the run is about.                      *)
LEMMA OwnTextsSay ==
  ASSUME NEW made \in Reviews
  PROVE  /\ OwnTexts(made) \in Seq(Written)
         /\ Says(OwnTexts(made), PrText) <=> made.pr
         /\ \A risk \in RiskIndicators :
               Says(OwnTexts(made), RiskText(risk)) <=> risk \in made.declared
         /\ \A f \in Files :
               Says(OwnTexts(made), ConfigurationText(f)) <=> made.configuration = f
<1>. DEFINE pr == IF made.pr THEN <<PrText>> ELSE <<>>
            risks == RiskTexts(made.declared)
            loaded == IF made.configuration = NoConfiguration THEN <<>>
                      ELSE <<ConfigurationText(made.configuration)>>
<1>0. /\ made.pr \in BOOLEAN /\ made.declared \in SUBSET RiskIndicators
      /\ made.configuration \in Files \cup {NoConfiguration}
  BY DEF Reviews
<1>1. pr \in Seq(Written) /\ \A text : Says(pr, text) <=> made.pr /\ text = PrText
  <2>1. PrText \in Written
    BY DEF Written
  <2>2. /\ \A text : Says(<<PrText>>, text) <=> text = PrText
        /\ \A text : ~Says(<<>>, text)
    BY DEF Says
  <2>3. CASE made.pr
    BY <2>1, <2>2, <2>3
  <2>4. CASE ~made.pr
    BY <2>2, <2>4
  <2>. QED
    BY <2>3, <2>4
<1>2. /\ risks \in Seq(Written)
      /\ \A text : Says(risks, text) <=> \E risk \in made.declared : text = RiskText(risk)
  BY <1>0, RisksAreSaid
<1>3. /\ loaded \in Seq(Written)
      /\ \A text : Says(loaded, text) <=>
            made.configuration # NoConfiguration /\ text = ConfigurationText(made.configuration)
  <2>1. made.configuration # NoConfiguration => ConfigurationText(made.configuration) \in Written
    BY <1>0 DEF Written
  <2>2. /\ \A t, text : Says(<<t>>, text) <=> text = t
        /\ \A text : ~Says(<<>>, text)
    BY DEF Says
  <2>3. CASE made.configuration = NoConfiguration
    BY <2>2, <2>3
  <2>4. CASE made.configuration # NoConfiguration
    BY <2>1, <2>2, <2>4
  <2>. QED
    BY <2>3, <2>4
<1>4. OwnTexts(made) = (pr \o risks) \o loaded
  BY DEF OwnTexts
<1>. HIDE DEF pr, risks, loaded
<1>5. pr \o risks \in Seq(Written) /\ OwnTexts(made) \in Seq(Written)
  BY <1>1, <1>2, <1>3, <1>4
<1>6. ASSUME NEW text
      PROVE  Says(OwnTexts(made), text) <=> Says(pr, text) \/ Says(risks, text) \/ Says(loaded, text)
  <2>. DEFINE both == pr \o risks
  <2>0. both \in Seq(Written)
    BY <1>5
  <2>. HIDE DEF both
  <2>1. Says(both \o loaded, text) <=> Says(both, text) \/ Says(loaded, text)
    BY <1>3, <2>0, SaysBoth
  <2>2. Says(pr \o risks, text) <=> Says(pr, text) \/ Says(risks, text)
    BY <1>1, <1>2, SaysBoth
  <2>. QED
    BY <1>4, <2>1, <2>2 DEF both
<1>7. /\ \A risk : RiskText(risk) # PrText
      /\ \A f : ConfigurationText(f) # PrText
      /\ \A risk, f : ConfigurationText(f) # RiskText(risk)
      /\ \A risk, other : RiskText(risk) = RiskText(other) => risk = other
      /\ \A f, g : ConfigurationText(f) = ConfigurationText(g) => f = g
  BY DEF PrText, RiskText, ConfigurationText
<1>. HIDE DEF PrText, RiskText, ConfigurationText
<1>8. Says(OwnTexts(made), PrText) <=> made.pr
  BY <1>1, <1>2, <1>3, <1>6, <1>7
<1>9. ASSUME NEW risk \in RiskIndicators
      PROVE  Says(OwnTexts(made), RiskText(risk)) <=> risk \in made.declared
  BY <1>1, <1>2, <1>3, <1>6, <1>7
<1>10. ASSUME NEW f \in Files
       PROVE  Says(OwnTexts(made), ConfigurationText(f)) <=> made.configuration = f
  <2>1. f # NoConfiguration
    BY ConfigurationAssumption
  <2>. QED
    BY <1>1, <1>2, <1>3, <1>6, <1>7, <2>1
<1>. QED
  BY <1>5, <1>8, <1>9, <1>10

(* Unless the user writes one of the program's texts, two runs name the    *)
(* same package only if they are about the same.                           *)
LEMMA NamesAreOwn ==
  ASSUME NEW a \in Reviews, NEW b \in Reviews, Ordinary(a), Ordinary(b), Package(a) = Package(b)
  PROVE  a = b
<1>. DEFINE s == a.constraints
            t == b.constraints
            u == OwnTexts(a)
            v == OwnTexts(b)
<1>1. /\ s \in Seq(Constraint) /\ t \in Seq(Constraint)
      /\ u \in Seq(Written) /\ v \in Seq(Written)
      /\ a.range = b.range /\ s \o u = t \o v
      /\ \A i \in 1..Len(s) : s[i] \notin Written
      /\ \A i \in 1..Len(t) : t[i] \notin Written
  BY OwnTextsSay DEF Package, Reviews, Ordinary
<1>. HIDE DEF s, t, u, v
<1>2. /\ u \in Seq(Constraint) /\ v \in Seq(Constraint)
  BY <1>1 DEF Constraint
<1>3. ASSUME NEW s1 \in Seq(Constraint), NEW t1 \in Seq(Constraint),
             NEW u1 \in Seq(Written), NEW v1 \in Seq(Constraint), s1 \o u1 = t1 \o v1,
             \A i \in 1..Len(t1) : t1[i] \notin Written
      PROVE  Len(t1) <= Len(s1)
  <2>. SUFFICES ASSUME Len(s1) < Len(t1) PROVE FALSE
    OBVIOUS
  <2>. DEFINE i == Len(s1) + 1
  <2>0. u1 \in Seq(Constraint)
    BY <1>3 DEF Constraint
  <2>1. i \in 1..Len(t1) /\ (t1 \o v1)[i] = t1[i]
    OBVIOUS
  <2>2. Len(s1 \o u1) = Len(s1) + Len(u1) /\ Len(t1 \o v1) = Len(t1) + Len(v1)
    BY <2>0
  <2>3. 1 \in 1..Len(u1)
    BY <1>3, <2>0, <2>1, <2>2
  <2>4. (s1 \o u1)[i] = u1[1]
    BY <2>0, <2>3
  <2>5. u1[1] \in Written
    BY <2>3
  <2>. QED
    BY <1>3, <2>1, <2>4, <2>5
<1>4. Len(s) = Len(t)
  <2>1. Len(t) <= Len(s)
    BY <1>1, <1>2, <1>3
  <2>2. Len(s) <= Len(t)
    BY <1>1, <1>2, <1>3
  <2>. QED
    BY <1>1, <2>1, <2>2
<1>5. s = t
  <2>1. \A i \in 1..Len(s) : (s \o u)[i] = s[i] /\ (t \o v)[i] = t[i]
    BY <1>1, <1>2, <1>4
  <2>. QED
    BY <1>1, <1>4, <2>1, SeqEqual
<1>6. u = v
  <2>1. Len(u) = Len(v)
    BY <1>1, <1>2, <1>4
  <2>2. ASSUME NEW i \in 1..Len(u) PROVE u[i] = v[i]
    <3>1. (s \o u)[Len(s) + i] = u[i] /\ (t \o v)[Len(s) + i] = v[i]
      BY <1>1, <1>2, <1>4, <2>1
    <3>. QED
      BY <1>1, <3>1
  <2>. QED
    BY <1>1, <2>1, <2>2, SeqEqual
<1>7. a.pr = b.pr /\ a.declared = b.declared /\ a.configuration = b.configuration
  <2>1. ASSUME NEW c \in Reviews
        PROVE  /\ c.pr \in BOOLEAN /\ c.declared \in SUBSET RiskIndicators
               /\ c.configuration \in Files \cup {NoConfiguration}
    BY DEF Reviews
  <2>2. /\ a.pr <=> b.pr
        /\ \A risk \in RiskIndicators : risk \in a.declared <=> risk \in b.declared
        /\ \A f \in Files : a.configuration = f <=> b.configuration = f
    BY <1>6, OwnTextsSay DEF u, v
  <2>3. a.pr = b.pr
    BY <2>1, <2>2
  <2>4. a.declared = b.declared
    BY <2>1, <2>2
  <2>5. a.configuration = b.configuration
    BY <2>1, <2>2
  <2>. QED
    BY <2>3, <2>4, <2>5
<1>8. ASSUME NEW c \in Reviews
      PROVE  c = [range |-> c.range, constraints |-> c.constraints, pr |-> c.pr,
                  declared |-> c.declared, configuration |-> c.configuration]
  BY DEF Reviews
<1>9. a.constraints = b.constraints
  BY <1>5 DEF s, t
<1>. QED
  BY <1>1, <1>7, <1>8, <1>9

LEMMA MadeType ==
  ASSUME TypeOK, NEW p \in Runs
  PROVE  /\ Made(p) \in Reviews /\ Identity(p) \in Packages
         /\ shas[p] \in Comparison /\ command[p].declared \in SUBSET RiskIndicators
         /\ command[p] \in Command
<1>1. command[p] \in Command
  BY CommandAssumption DEF TypeOK
<1>2. Made(p) \in Reviews
  BY <1>1 DEF TypeOK, Made, Reviews, Command
<1>3. OwnTexts(Made(p)) \in Seq(Constraint) /\ Made(p).constraints \in Seq(Constraint)
      /\ Made(p).range \in Comparison
  BY <1>2, OwnTextsSay DEF Constraint, Reviews
<1>4. Identity(p) \in Packages
  BY <1>3 DEF Identity, Package, Packages
<1>. QED
  BY <1>1, <1>2, <1>4 DEF TypeOK, Command

(* What With changes, and what it leaves alone.                            *)
LEMMA WithEnd ==
  ASSUME NEW range \in Comparison, NEW end \in Ends, NEW c \in Commits
  PROVE  /\ With(range, end, c) \in Comparison
         /\ With(range, end, c)[end] = c
         /\ \A other \in Ends \ {end} : With(range, end, c)[other] = range[other]
BY DEF With, Comparison, Ends

Moments == [began : Moment, saw : Moment, fetched : Moment]

LEMMA WithMoment ==
  ASSUME NEW m \in Moments, NEW n \in Moment
  PROVE  /\ \A name \in {"began", "saw", "fetched"} : With(m, name, n) \in Moments
         /\ With(m, "began", n).began = n
         /\ With(m, "saw", n).saw = n
         /\ With(m, "fetched", n).fetched = n /\ With(m, "fetched", n).saw = m.saw
BY DEF With, Moments

LEMMA WithRecord ==
  ASSUME NEW r \in Records, NEW sent \in SUBSET Roles
  PROVE  /\ With(r, "stage", "closed") \in Records /\ With(r, "stage", "closed").stage = "closed"
         /\ With(r, "stage", "closed").sent = r.sent /\ With(r, "stage", "closed").made = r.made
         /\ With(r, "sent", sent) \in Records /\ With(r, "sent", sent).stage = r.stage
         /\ With(r, "sent", sent).sent = sent /\ With(r, "sent", sent).made = r.made
BY DEF With, Records

(* What CredentialFor may return.                                          *)
LEMMA CredentialType ==
  ASSUME NEW p \in Runs, NEW role
  PROVE  CredentialFor(p, role) \in Outcome \cup {"unavailable"}
BY DEF CredentialFor, Resolve, Outcome, Found

LEMMA HistoryTypes ==
  ASSUME GitTypeOK, Push \/ Move \/ FetchCommits, changes' \in Nat
  PROVE  GitTypeOK'
<1>. USE CommitAssumption, NowIsLast DEF GitTypeOK, Comparison, Ends
<1>1. CASE Push
  <2>1. PICK end \in Ends : \E c \in Tips[end] \ {Now(hub)[end]} :
              hub' = Append(hub, With(Now(hub), end, c))
    BY <1>1 DEF Push
  <2>2. PICK c \in Tips[end] : hub' = Append(hub, With(Now(hub), end, c))
    BY <2>1
  <2>3. With(Now(hub), end, c) \in Comparison
    BY <2>2, WithEnd
  <2>. QED
    BY <1>1, <2>2, <2>3 DEF Push
<1>2. CASE Move
  <2>1. PICK end \in Ends : \E c \in Tips[end] \ {Now(local)[end]} :
              /\ local' = Append(local, With(Now(local), end, c))
              /\ objects' = objects \cup Ancestors[c]
    BY <1>2 DEF Move
  <2>2. PICK c \in Tips[end] : /\ local' = Append(local, With(Now(local), end, c))
                               /\ objects' = objects \cup Ancestors[c]
    BY <2>1
  <2>3. With(Now(local), end, c) \in Comparison
    BY <2>2, WithEnd
  <2>. QED
    BY <1>2, <2>2, <2>3 DEF Move
<1>3. CASE FetchCommits
  BY <1>3 DEF FetchCommits
<1>. QED
  BY <1>1, <1>2, <1>3
-----------------------------------------------------------------------------
(* Type correctness, action by action.                                     *)
LEMMA ResolveTypes ==
  ASSUME TypeOK, NEW p \in Runs,
         Start(p) \/ View(p) \/ Fetch(p) \/ Resolve2(p) \/ Collect(p) \/ Configure(p) \/ Acquire(p)
  PROVE  TypeOK'
<1>. USE DEF TypeOK, Goto, Moment, Points, Compared, Packaged, Holding, Ended
<1>0. Opened' = Opened /\ GitTypeOK
  BY DEF Start, View, Fetch, Resolve2, ResolveEnd, Collect, Configure, Acquire, Opened
<1>. USE DEF Moments
<1>1. CASE Start(p)
  BY <1>0, <1>1, NowIsLast, WithMoment DEF Start, git, GitTypeOK
<1>2. CASE View(p)
  <2>1. Now(hub) \in Comparison /\ \A m \in Moments : With(m, "saw", Len(hub)) \in Moments
    BY <1>0, NowIsLast, WithMoment
  <2>2. CASE /\ viewed' = [viewed EXCEPT ![p] = Now(hub)]
             /\ since' = [since EXCEPT ![p] = With(@, "saw", Len(hub))]
    <3>1. since' \in [Runs -> Moments] /\ viewed' \in [Runs -> Comparison]
      BY <2>1, <2>2
    <3>. QED
      BY <1>0, <1>2, <3>1 DEF View, git, GitTypeOK
  <2>3. CASE UNCHANGED <<viewed, since>>
    BY <1>0, <1>2, <2>3 DEF View, git, GitTypeOK
  <2>. QED
    BY <1>2, <2>2, <2>3 DEF View
<1>3. CASE Fetch(p)
  <2>1. GitTypeOK'
    BY <1>0, <1>3, HistoryTypes DEF Fetch, git, GitTypeOK
  <2>. QED
    BY <1>0, <1>3, <2>1, NowIsLast, WithMoment DEF Fetch
<1>4. CASE Resolve2(p)
  <2>1. ASSUME NEW end \in Ends, NEW from, NEW to \in {"halfway", "collecting"},
               ResolveEnd(p, end, from, to)
        PROVE TypeOK'
    <3>1. Revision(p, end) \in Commits
      BY <1>0, NowIsLast DEF Revision, Comparison, Ends
    <3>2. With(shas[p], end, Revision(p, end)) \in Comparison
      BY <3>1, WithEnd
    <3>3. shas' \in [Runs -> Comparison]
      BY <2>1, <3>2 DEF ResolveEnd
    <3>4. pc' \in [Runs -> Points]
      <4>1. Goto(p, to) \/ Goto(p, "missing")
        BY <2>1 DEF ResolveEnd
      <4>. QED
        BY <4>1
    <3>5. UNCHANGED <<git, changes, command, since, viewed, configuration, bound, record, file, surroundings, faults>>
      BY <2>1 DEF ResolveEnd
    <3>. QED
      BY <1>0, <3>3, <3>4, <3>5 DEF git, GitTypeOK
  <2>. QED
    BY <1>4, <2>1 DEF Resolve2, Ends
<1>5. CASE Collect(p)
  BY <1>0, <1>5 DEF Collect, git, GitTypeOK
<1>6. CASE Configure(p)
  <2>1. configuration' \in [Runs -> Files \cup {NoConfiguration}]
    BY <1>6 DEF Configure
  <2>2. pc' \in [Runs -> Points]
    <3>1. Goto(p, "waiting") \/ Goto(p, "refused")
      BY <1>6 DEF Configure
    <3>. QED
      BY <3>1
  <2>3. UNCHANGED <<git, changes, command, since, viewed, shas, bound, record, file, surroundings, faults>>
    BY <1>6 DEF Configure
  <2>. QED
    BY <1>0, <2>1, <2>2, <2>3 DEF git, GitTypeOK
<1>7. CASE Acquire(p)
  BY <1>0, <1>7 DEF Acquire, git, GitTypeOK
<1>. QED
  BY <1>1, <1>2, <1>3, <1>4, <1>5, <1>6, <1>7

LEMMA RecordChanged ==
  ASSUME TypeOK, NEW id \in Opened, NEW r \in Records, record' = [record EXCEPT ![id] = r]
  PROVE  /\ Opened' = Opened /\ record' \in [Opened -> Records]
         /\ record'[id] = r /\ \A other \in Opened \ {id} : record'[other] = record[other]
<1>1. record \in [Opened -> Records]
  BY DEF TypeOK
<1>2. record' \in [Opened -> Records]
  BY <1>1
<1>. QED
  BY <1>1, <1>2 DEF Opened

(* Closing a record touches its stage only, asking its set of roles.       *)
LEMMA CloseKeeps ==
  ASSUME TypeOK, NEW p \in Runs, Identity(p) \in Opened, Close(p)
  PROVE  /\ Opened' = Opened /\ record' \in [Opened -> Records]
         /\ record'[Identity(p)].stage = "closed"
         /\ \A id \in Opened : /\ record'[id].sent = record[id].sent
                               /\ record'[id].made = record[id].made
                               /\ record[id].stage = "closed" => record'[id].stage = "closed"
<1>. DEFINE r == With(record[Identity(p)], "stage", "closed")
<1>1. record[Identity(p)] \in Records
  BY DEF TypeOK, Opened
<1>2. /\ r \in Records /\ r.stage = "closed"
      /\ r.sent = record[Identity(p)].sent /\ r.made = record[Identity(p)].made
  BY <1>1, WithRecord
<1>3. record' = [record EXCEPT ![Identity(p)] = r]
  BY DEF Close
<1>. HIDE DEF r
<1>. QED
  BY <1>2, <1>3, RecordChanged

LEMMA AskKeeps ==
  ASSUME TypeOK, NEW p \in Runs, Identity(p) \in Opened, NEW role \in Roles,
         record' = [record EXCEPT ![Identity(p)] = With(@, "sent", @.sent \cup {role})]
  PROVE  /\ Opened' = Opened /\ record' \in [Opened -> Records]
         /\ record'[Identity(p)].sent = record[Identity(p)].sent \cup {role}
         /\ \A id \in Opened : /\ id # Identity(p) => record'[id].sent = record[id].sent
                               /\ record'[id].made = record[id].made
                               /\ record'[id].stage = record[id].stage
<1>. DEFINE r == With(record[Identity(p)], "sent", record[Identity(p)].sent \cup {role})
<1>1. record[Identity(p)] \in Records
  BY DEF TypeOK, Opened
<1>2. record[Identity(p)].sent \cup {role} \in SUBSET Roles
  BY <1>1 DEF Records
<1>3. /\ r \in Records /\ r.stage = record[Identity(p)].stage
      /\ r.sent = record[Identity(p)].sent \cup {role} /\ r.made = record[Identity(p)].made
  BY <1>1, <1>2, WithRecord
<1>4. record' = [record EXCEPT ![Identity(p)] = r]
  OBVIOUS
<1>. HIDE DEF r
<1>. QED
  BY <1>3, <1>4, RecordChanged

(* Creating one adds an open record to those there are.                    *)
LEMMA CreateAdds ==
  ASSUME TypeOK, NEW p \in Runs, Create(p)
  PROVE  /\ Opened' = Opened \cup {Identity(p)} /\ record' \in [Opened' -> Records]
         /\ \A id \in Opened : record'[id] = record[id]
         /\ record'[Identity(p)] = [stage |-> "open", owner |-> p, sent |-> {}, made |-> Made(p)]
<1>1. Made(p) \in Reviews
  BY MadeType
<1>. DEFINE r == [stage |-> "open", owner |-> p, sent |-> {}, made |-> Made(p)]
<1>2. r \in Records
  BY <1>1 DEF Records
<1>3. record' = [id \in Opened \cup {Identity(p)} |-> IF id \in Opened THEN record[id] ELSE r]
      /\ Identity(p) \notin Opened
  BY DEF Create
<1>. HIDE DEF r
<1>4. record \in [Opened -> Records]
  BY DEF TypeOK
<1>5. Opened' = Opened \cup {Identity(p)}
  BY <1>3 DEF Opened
<1>. QED
  BY <1>2, <1>3, <1>4, <1>5 DEF r

LEMMA ReviewTypes ==
  ASSUME TypeOK, NEW p \in Runs, OwnInv(p), BoundInv(p),
         Create(p) \/ Reopen(p) \/ SelectRoles(p) \/ Bind(p) \/ Execute(p) \/ Ask(p) \/ Finish(p)
         \/ Fault(p)
  PROVE  TypeOK'
<1>. USE DEF Goto, Points, Compared, Packaged, Holding, Ended
<1>0. UNCHANGED <<git, changes, command, since, viewed, shas, configuration, file, surroundings>>
      /\ faults' \in Nat
  BY DEF Create, Reopen, SelectRoles, Bind, Execute, Ask, Finish, Fault, TypeOK, run
<1>. DEFINE Rest == /\ pc' \in [Runs -> Points] /\ bound' \in [Runs -> Seq(Outcome)]
                   /\ Opened' \subseteq Packages /\ record' \in [Opened' -> Records]
<1>. SUFFICES Rest
  <2>1. GitTypeOK'
    BY <1>0 DEF TypeOK, GitTypeOK, git
  <2>. QED
    BY <1>0, <2>1 DEF TypeOK, Opened
<1>1. CASE Create(p)
  <2>1. Opened' \subseteq Packages /\ record' \in [Opened' -> Records]
    BY <1>1, CreateAdds, MadeType DEF TypeOK
  <2>2. bound' = bound /\ Goto(p, "selecting")
    BY <1>1 DEF Create
  <2>. QED
    BY <2>1, <2>2 DEF TypeOK
<1>2. CASE Reopen(p) \/ Finish(p)
  BY <1>2, CloseKeeps DEF Reopen, Finish, TypeOK, OwnInv
<1>3. CASE SelectRoles(p) \/ Bind(p)
  <2>1. pc[p] \in {"selecting", "binding"} /\ Identity(p) \in Opened
    BY <1>3 DEF SelectRoles, Bind, OwnInv
  <2>2. ASSUME NEW role PROVE CredentialFor(p, role) # "unavailable" => CredentialFor(p, role) \in Outcome
    BY CredentialType
  <2>3. CASE GiveUp(p)
    BY <2>1, <2>3, CloseKeeps DEF GiveUp, TypeOK
  <2>4. CASE UNCHANGED <<record, bound>> /\ pc' \in [Runs -> Points]
    BY <2>4 DEF TypeOK, Opened
  <2>5. CASE /\ CredentialFor(p, NextRole(p)) # "unavailable"
             /\ bound' = [bound EXCEPT ![p] = Append(@, CredentialFor(p, NextRole(p)))]
             /\ UNCHANGED <<pc, record>>
    <3>1. CredentialFor(p, NextRole(p)) \in Outcome
      BY <2>2, <2>5
    <3>. QED
      BY <2>5, <3>1 DEF TypeOK, Opened
  <2>6. ASSUME NEW point \in Points, Goto(p, point) PROVE pc' \in [Runs -> Points]
    BY <2>6 DEF TypeOK
  <2>. QED
    BY <1>3, <2>3, <2>4, <2>5 DEF SelectRoles, Bind, TypeOK
<1>4. CASE Execute(p) \/ Fault(p)
  BY <1>4 DEF Execute, Fault, TypeOK, Opened
<1>5. CASE Ask(p)
  <2>1. PICK i \in 1..Len(bound[p]) :
             record' = [record EXCEPT ![Identity(p)] = With(@, "sent", @.sent \cup {PlanRoles(p)[i]})]
    BY <1>5 DEF Ask
  <2>2. pc[p] = "reviewing" /\ Identity(p) \in Opened /\ UNCHANGED <<pc, bound>>
    BY <1>5 DEF Ask, OwnInv, run
  <2>3. PlanRoles(p) \in Seq(Roles)
    BY MadeType, RolesType DEF PlanRoles
  <2>4. Len(bound[p]) \in Nat /\ Len(bound[p]) <= Len(PlanRoles(p))
    BY <2>2, <2>3 DEF BoundInv, TypeOK, AllBound
  <2>5. PlanRoles(p)[i] \in Roles
    BY <2>3, <2>4
  <2>. QED
    BY <2>1, <2>2, <2>5, AskKeeps DEF TypeOK
<1>. QED
  BY <1>1, <1>2, <1>3, <1>4, <1>5

LEMMA OtherTypes ==
  ASSUME TypeOK, Others
  PROVE  TypeOK'
<1>1. GitTypeOK
  BY DEF TypeOK
<1>2. changes' \in Nat
  BY <1>1 DEF Others, Push, Move, Edit, Change, GitTypeOK
<1>3. CASE Push \/ Move
  <2>1. UNCHANGED <<run, record, file, surroundings, faults>>
    BY <1>3 DEF Others, Edit, git, Push, Move
  <2>. QED
    BY <1>1, <1>2, <1>3, <2>1, HistoryTypes DEF TypeOK, run, Opened
<1>4. CASE Edit
  BY <1>1, <1>2, <1>4 DEF Edit, TypeOK, run, Opened, git, GitTypeOK
<1>. QED
  BY <1>3, <1>4 DEF Others

-----------------------------------------------------------------------------
(* The histories.                                                          *)
HistoriesGrow == /\ Len(hub) <= Len(hub') /\ \A i \in 1..Len(hub) : hub'[i] = hub[i]
                 /\ Len(local) <= Len(local') /\ \A i \in 1..Len(local) : local'[i] = local[i]
                 /\ objects \subseteq objects'

LEMMA HostGrows ==
  ASSUME GitTypeOK, HostInv, NEW x \in Comparison, hub' = Append(hub, x)
  PROVE  /\ HostInv' /\ Len(hub') = Len(hub) + 1
         /\ \A i \in 1..Len(hub) : hub'[i] = hub[i]
<1>1. /\ Len(hub) \in Nat \ {0} /\ Len(hub') = Len(hub) + 1 /\ hub'[Len(hub) + 1] = x
      /\ \A i \in 1..Len(hub) : hub'[i] = hub[i]
      /\ hub' \in Seq(Comparison)
  BY DEF GitTypeOK
<1>2. SUFFICES ASSUME NEW k \in 1..Len(hub'), NEW i \in 1..k, ~Rewritten(i, k)',
                      NEW end \in Ends
               PROVE  hub'[i][end] \in Ancestors[hub'[k][end]]
  BY <1>1 DEF HostInv, Rewritten
<1>3. \A j \in (i + 1)..k : hub'[j - 1][end] \in Ancestors[hub'[j][end]]
  BY <1>2 DEF Rewritten
<1>4. ASSUME NEW m \in 1..Len(hub), i <= m, m <= k PROVE hub[i][end] \in Ancestors[hub[m][end]]
  <2>1. ~Rewritten(i, m)
    BY <1>1, <1>2, <1>4 DEF Rewritten
  <2>. QED
    BY <1>4, <2>1 DEF HostInv
<1>5. CASE k <= Len(hub)
  BY <1>1, <1>4, <1>5
<1>6. CASE k = Len(hub) + 1
  <2>1. hub'[k][end] \in Commits
    BY <1>1, <1>6 DEF Comparison, Ends
  <2>2. CASE i = k
    BY <2>1, <2>2, CommitAssumption
  <2>3. CASE i < k
    <3>1. hub[i][end] \in Ancestors[hub[Len(hub)][end]]
      BY <1>1, <1>4, <1>6, <2>3
    <3>2. hub[Len(hub)][end] \in Ancestors[hub'[k][end]]
      BY <1>1, <1>3, <1>6, <2>3
    <3>. QED
      BY <1>1, <1>6, <2>1, <2>3, <3>1, <3>2, CommitAssumption
  <2>. QED
    BY <2>2, <2>3
<1>. QED
  BY <1>1, <1>5, <1>6

(* Whatever happens, git's histories only grow.                            *)
LEMMA GitGrows ==
  ASSUME TypeOK, HostInv, CloneInv, Push \/ Move \/ FetchCommits \/ UNCHANGED <<hub, local, objects>>
  PROVE  HostInv' /\ CloneInv' /\ HistoriesGrow
<1>0. GitTypeOK
  BY DEF TypeOK
<1>1. CASE Push
  <2>1. PICK end \in Ends : \E c \in Tips[end] \ {Now(hub)[end]} :
              hub' = Append(hub, With(Now(hub), end, c))
    BY <1>1 DEF Push
  <2>2. PICK c \in Tips[end] : hub' = Append(hub, With(Now(hub), end, c))
    BY <2>1
  <2>3. With(Now(hub), end, c) \in Comparison
    BY <1>0, <2>2, WithEnd, NowIsLast, CommitAssumption DEF Ends
  <2>4. HostInv' /\ Len(hub') = Len(hub) + 1 /\ \A i \in 1..Len(hub) : hub'[i] = hub[i]
    BY <1>0, <2>2, <2>3, HostGrows
  <2>5. UNCHANGED <<local, objects>>
    BY <1>1 DEF Push
  <2>. QED
    BY <1>0, <2>4, <2>5, NowIsLast DEF HistoriesGrow, CloneInv, Now
<1>2. CASE Move
  <2>1. PICK end \in Ends : \E c \in Tips[end] \ {Now(local)[end]} :
              /\ local' = Append(local, With(Now(local), end, c))
              /\ objects' = objects \cup Ancestors[c]
    BY <1>2 DEF Move
  <2>2. PICK c \in Tips[end] : /\ local' = Append(local, With(Now(local), end, c))
                               /\ objects' = objects \cup Ancestors[c]
    BY <2>1
  <2>3. c \in Commits /\ c \in Ancestors[c]
    BY <2>2, CommitAssumption DEF Ends
  <2>4. /\ With(Now(local), end, c) \in Comparison
        /\ With(Now(local), end, c)[end] = c
        /\ \A other \in Ends \ {end} : With(Now(local), end, c)[other] = Now(local)[other]
    BY <1>0, <2>3, WithEnd, NowIsLast
  <2>5. /\ Len(local') = Len(local) + 1 /\ \A i \in 1..Len(local) : local'[i] = local[i]
        /\ local'[Len(local) + 1] = With(Now(local), end, c)
    BY <1>0, <2>2, <2>4 DEF GitTypeOK
  <2>6. Now(local)' = With(Now(local), end, c)
    BY <2>5 DEF Now
  <2>7. CloneInv'
    BY <2>2, <2>3, <2>4, <2>6 DEF CloneInv
  <2>8. hub' = hub
    BY <1>2 DEF Move
  <2>. QED
    BY <1>0, <2>2, <2>5, <2>7, <2>8, NowIsLast DEF HistoriesGrow, HostInv, Rewritten
<1>3. CASE FetchCommits \/ UNCHANGED <<hub, local, objects>>
  <2>1. UNCHANGED <<hub, local>> /\ objects \subseteq objects'
    BY <1>3 DEF FetchCommits
  <2>. QED
    <3>1. HistoriesGrow
      BY <1>0, <2>1, NowIsLast DEF HistoriesGrow
    <3>2. CloneInv'
      BY <2>1 DEF CloneInv, Now
    <3>3. HostInv'
      BY <2>1 DEF HostInv, Rewritten
    <3>. QED
      BY <3>1, <3>2, <3>3
<1>. QED
  BY <1>1, <1>2, <1>3

(* What an invocation knows is kept while it takes no step itself.         *)
Same(q) == /\ pc'[q] = pc[q] /\ command'[q] = command[q] /\ since'[q] = since[q]
           /\ viewed'[q] = viewed[q] /\ shas'[q] = shas[q]
           /\ configuration'[q] = configuration[q] /\ bound'[q] = bound[q]

LEMMA RewrittenKept ==
  ASSUME GitTypeOK, HistoriesGrow, NEW i \in 1..Len(hub), NEW k \in i..Len(hub)
  PROVE  Rewritten(i, k) <=> Rewritten(i, k)'
<1>1. \A j \in (i + 1)..k : j \in 1..Len(hub) /\ j - 1 \in 1..Len(hub)
  BY DEF GitTypeOK
<1>2. \A j \in (i + 1)..k : hub'[j] = hub[j] /\ hub'[j - 1] = hub[j - 1]
  BY <1>1 DEF HistoriesGrow
<1>. QED
  BY <1>2 DEF Rewritten

LEMMA KnownKept ==
  ASSUME TypeOK, HistoriesGrow, NEW q \in Runs, Same(q), ViewInv(q), BranchInv(q), Compares(q)
  PROVE  ViewInv(q)' /\ BranchInv(q)' /\ Compares(q)'
<1>. USE DEF Same, HistoriesGrow
<1>0. Len(hub) \in Nat \ {0} /\ Len(local) \in Nat \ {0} /\ Len(hub') \in Nat /\ Len(local') \in Nat
  BY NowIsLast DEF TypeOK, GitTypeOK
<1>1. since[q].began \in Nat \ {0} /\ since[q].saw \in Nat \ {0} /\ since[q].fetched \in Nat \ {0}
  BY DEF TypeOK, Moment
<1>2. ViewInv(q)'
  BY <1>0, <1>1 DEF ViewInv, Named
<1>3. BranchInv(q)'
  BY <1>0, <1>1 DEF BranchInv, Named
<1>4. Compares(q)'
  <2>1. CASE pc[q] = "missing"
    <3>1. command[q].pr /\ Rewritten(since[q].saw, since[q].fetched)
      BY <2>1 DEF Compares
    <3>2. since[q].saw \in 1..Len(hub) /\ since[q].fetched \in since[q].saw .. Len(hub)
      BY <2>1, <3>1 DEF ViewInv, Named
    <3>3. Rewritten(since[q].saw, since[q].fetched)'
      BY <3>1, <3>2, RewrittenKept DEF TypeOK
    <3>. QED
      BY <2>1, <3>1, <3>3 DEF Compares, Compared, Packaged, Holding, Rewritten
  <2>2. CASE pc[q] \in Compared /\ command[q].pr
    <3>1. PICK i \in since[q].saw .. since[q].fetched : hub[i] = shas[q]
      BY <2>2 DEF Compares
    <3>2. i \in 1..Len(hub)
      BY <1>0, <1>1, <2>2, <3>1 DEF ViewInv, Named
    <3>3. hub'[i] = shas'[q]
      BY <3>1, <3>2
    <3>. QED
      BY <2>2, <3>1, <3>3 DEF Compares, Compared, Packaged, Holding
  <2>3. CASE pc[q] \in Compared /\ ~command[q].pr
    <3>1. PICK i \in since[q].began .. Len(local), j \in since[q].began .. Len(local) :
               i <= j /\ shas[q] = [base |-> local[i].base, head |-> local[j].head]
      BY <1>0, <1>1, <2>3 DEF Compares
    <3>2. i \in 1..Len(local) /\ j \in 1..Len(local) /\ j \in i .. Len(local')
          /\ i \in since'[q].began .. Len(local')
      BY <1>0, <1>1, <3>1
    <3>3. shas'[q] = [base |-> local'[i].base, head |-> local'[j].head]
      BY <3>1, <3>2
    <3>. QED
      BY <2>3, <3>2, <3>3 DEF Compares, Compared, Packaged, Holding
  <2>. QED
    BY <2>1, <2>2, <2>3 DEF Compares
<1>. QED
  BY <1>2, <1>3, <1>4

LEMMA BoundKept ==
  ASSUME NEW q \in Runs, Same(q), BoundInv(q)
  PROVE  BoundInv(q)'
BY DEF Same, BoundInv, AllBound, CanAsk, BindingOf, PlanRoles, RoleSet

-----------------------------------------------------------------------------
(* How a comparison comes about.                                           *)
LEMMA ViewKnown ==
  ASSUME TypeOK, NEW p \in Runs, ViewInv(p), BranchInv(p), Compares(p), Start(p) \/ View(p)
  PROVE  ViewInv(p)' /\ BranchInv(p)' /\ Compares(p)'
<1>. USE DEF Named, Compared, Packaged, Holding
<1>0. Len(hub) \in Nat \ {0} /\ Len(local) \in Nat \ {0} /\ Now(hub) = hub[Len(hub)]
  BY NowIsLast DEF TypeOK
<1>1. CASE Start(p)
  <2>1. /\ pc'[p] = IF command[p].pr THEN "viewing" ELSE "resolving"
        /\ since'[p] = With(since[p], "began", Len(local))
        /\ UNCHANGED <<hub, local, command, viewed, shas>>
    BY <1>1 DEF Start, Goto, TypeOK, git
  <2>2. since'[p].began = Len(local)
    <3>1. since[p] \in Moments /\ Len(local) \in Moment
      BY <1>0 DEF TypeOK, Moments, Moment
    <3>2. With(since[p], "began", Len(local)).began = Len(local)
      BY <3>1, WithMoment
    <3>. QED
      BY <2>1, <3>2
  <2>. QED
    BY <1>0, <2>1, <2>2 DEF ViewInv, BranchInv, Compares
<1>2. CASE View(p)
  <2>1. command[p].pr /\ pc[p] = "viewing" /\ UNCHANGED <<hub, local, objects, command, shas>>
    BY <1>2 DEF View, git, BranchInv
  <2>2. CASE pc'[p] = "refused"
    BY <2>1, <2>2 DEF ViewInv, BranchInv, Compares
  <2>3. CASE /\ viewed' = [viewed EXCEPT ![p] = Now(hub)] /\ Goto(p, "fetching")
             /\ since' = [since EXCEPT ![p] = With(@, "saw", Len(hub))]
    <3>1. viewed'[p] = Now(hub) /\ pc'[p] = "fetching" /\ since'[p] = With(since[p], "saw", Len(hub))
      BY <2>3 DEF TypeOK, Goto
    <3>2. since'[p].saw = Len(hub)
      BY <1>0, <3>1, WithMoment DEF TypeOK, Moments, Moment
    <3>. QED
      BY <1>0, <2>1, <3>1, <3>2 DEF ViewInv, BranchInv, Compares
  <2>. QED
    BY <1>2, <2>2, <2>3 DEF View, Goto, TypeOK
<1>. QED
  BY <1>1, <1>2

LEMMA FetchKnown ==
  ASSUME TypeOK, NEW p \in Runs, ViewInv(p), BranchInv(p), Compares(p), Fetch(p)
  PROVE  ViewInv(p)' /\ BranchInv(p)' /\ Compares(p)'
<1>. USE DEF Named, Compared, Packaged, Holding
<1>0. Len(hub) \in Nat \ {0} /\ Len(local) \in Nat \ {0} /\ Now(hub) = hub[Len(hub)]
  BY NowIsLast DEF TypeOK
<1>1. command[p].pr /\ pc[p] = "fetching" /\ UNCHANGED <<hub, local, command, viewed, shas>>
  BY DEF Fetch, FetchCommits, git, BranchInv
<1>2. since'[p] = With(since[p], "fetched", Len(hub))
  BY DEF Fetch, TypeOK
<1>3. since'[p].fetched = Len(hub) /\ since'[p].saw = since[p].saw
  <2>1. since[p] \in Moments /\ Len(hub) \in Moment
    BY <1>0 DEF TypeOK, Moments, Moment
  <2>2. With(since[p], "fetched", Len(hub)).fetched = Len(hub)
        /\ With(since[p], "fetched", Len(hub)).saw = since[p].saw
    BY <2>1, WithMoment
  <2>. QED
    BY <1>2, <2>2
<1>4. CASE pc'[p] = "refused"
  BY <1>1, <1>4 DEF ViewInv, BranchInv, Compares
<1>5. CASE FetchCommits /\ pc'[p] = "resolving"
  <2>1. \A end \in Ends : Ancestors[hub[Len(hub)][end]] \subseteq objects'
    BY <1>0, <1>5 DEF FetchCommits, Ends
  <2>2. since[p].saw \in 1..Len(hub) /\ viewed[p] = hub[since[p].saw]
    BY <1>1 DEF ViewInv
  <2>. QED
    BY <1>0, <1>1, <1>3, <1>5, <2>1, <2>2 DEF ViewInv, BranchInv, Compares
<1>. QED
  BY <1>4, <1>5 DEF Fetch, Goto, TypeOK

(* A commit is missing only if the host's history was rewritten.           *)
LEMMA MissingIsRewritten ==
  ASSUME TypeOK, HostInv, CloneInv, NEW p \in Runs, ViewInv(p), BranchInv(p),
         pc[p] \in {"resolving", "halfway"}, NEW end \in Ends, Revision(p, end) \notin objects
  PROVE  command[p].pr /\ Rewritten(since[p].saw, since[p].fetched)
<1>1. command[p].pr
  BY DEF Revision, CloneInv
<1>2. /\ since[p].saw \in 1..Len(hub) /\ viewed[p] = hub[since[p].saw]
      /\ since[p].fetched \in since[p].saw .. Len(hub)
      /\ Ancestors[hub[since[p].fetched][end]] \subseteq objects
  BY <1>1 DEF ViewInv, Named
<1>3. hub[since[p].saw][end] \notin Ancestors[hub[since[p].fetched][end]]
  BY <1>1, <1>2 DEF Revision
<1>4. Len(hub) \in Nat /\ since[p].fetched \in 1..Len(hub) /\ since[p].saw \in 1..since[p].fetched
  BY <1>2 DEF TypeOK, GitTypeOK
<1>. QED
  BY <1>1, <1>3, <1>4 DEF HostInv

LEMMA ResolveKnown ==
  ASSUME TypeOK, HostInv, CloneInv, NEW p \in Runs, ViewInv(p), BranchInv(p), Compares(p), Resolve2(p)
  PROVE  ViewInv(p)' /\ BranchInv(p)' /\ Compares(p)'
<1>. USE DEF Named, Compared, Packaged, Holding
<1>0. Len(hub) \in Nat \ {0} /\ Len(local) \in Nat \ {0} /\ Now(local) = local[Len(local)]
  BY NowIsLast DEF TypeOK
<1>1. pc[p] \in {"resolving", "halfway"} /\ UNCHANGED <<hub, local, objects, since, command, viewed>>
  BY DEF Resolve2, ResolveEnd, git
<1>2. CASE pc'[p] = "missing"
  <2>1. \E end \in Ends : Revision(p, end) \notin objects
    BY <1>1, <1>2 DEF Resolve2, ResolveEnd, Goto, TypeOK, Ends
  <2>2. command[p].pr /\ Rewritten(since[p].saw, since[p].fetched)
    BY <1>1, <2>1, MissingIsRewritten
  <2>. QED
    BY <1>1, <1>2, <2>2 DEF ViewInv, BranchInv, Compares, Rewritten
<1>3. CASE pc[p] = "resolving" /\ pc'[p] = "halfway" /\ shas' = [shas EXCEPT ![p] = With(@, "base", Revision(p, "base"))]
  <2>1. Revision(p, "base") \in Commits
    BY NowIsLast DEF TypeOK, Revision, Comparison
  <2>2. shas'[p].base = Revision(p, "base")
    BY <1>3, <2>1, WithEnd DEF TypeOK, Ends
  <2>3. command[p].pr => shas'[p].base = viewed[p].base
    BY <2>2 DEF Revision
  <2>4. ~command[p].pr => /\ shas'[p].base = local[Len(local)].base
                          /\ since[p].began \in 1..Len(local)
    BY <1>0, <1>3, <2>2 DEF Revision, BranchInv
  <2>. QED
    BY <1>0, <1>1, <1>3, <2>3, <2>4 DEF ViewInv, BranchInv, Compares
<1>4. CASE pc[p] = "halfway" /\ pc'[p] = "collecting" /\ shas' = [shas EXCEPT ![p] = With(@, "head", Revision(p, "head"))]
  <2>1. Revision(p, "head") \in Commits /\ shas[p] \in Comparison
    BY NowIsLast DEF TypeOK, Revision, Comparison
  <2>2. shas'[p] = [base |-> shas[p].base, head |-> Revision(p, "head")]
    <3>1. shas'[p] = With(shas[p], "head", Revision(p, "head"))
      BY <1>4 DEF TypeOK
    <3>2. /\ shas'[p] \in Comparison /\ shas'[p].head = Revision(p, "head")
          /\ shas'[p].base = shas[p].base
      BY <2>1, <3>1, WithEnd DEF Ends
    <3>. QED
      BY <3>2 DEF Comparison
  <2>3. CASE command[p].pr
    <3>1. shas[p].base = viewed[p].base /\ viewed[p] \in Comparison
      BY <1>4, <2>3 DEF ViewInv, TypeOK
    <3>2. shas'[p] = viewed[p]
      BY <2>2, <2>3, <3>1 DEF Revision, Comparison
    <3>3. /\ since[p].saw \in 1..Len(hub) /\ viewed[p] = hub[since[p].saw]
          /\ since[p].fetched \in since[p].saw .. Len(hub)
      BY <1>4, <2>3 DEF ViewInv
    <3>4. since[p].saw \in since[p].saw .. since[p].fetched
      BY <1>0, <3>3
    <3>. QED
      BY <1>1, <1>4, <2>3, <3>2, <3>3, <3>4 DEF ViewInv, BranchInv, Compares
  <2>4. CASE ~command[p].pr
    <3>1. PICK i \in since[p].began .. Len(local) : shas[p].base = local[i].base
      BY <1>4, <2>4 DEF BranchInv
    <3>2. Len(local) \in i .. Len(local)
      BY <1>0, <3>1 DEF TypeOK, Moment
    <3>3. shas'[p] = [base |-> local[i].base, head |-> local[Len(local)].head]
      BY <1>0, <2>2, <2>4, <3>1 DEF Revision
    <3>. QED
      BY <1>1, <1>4, <2>4, <3>1, <3>2, <3>3 DEF ViewInv, BranchInv, Compares
  <2>. QED
    BY <2>3, <2>4
<1>. QED
  BY <1>2, <1>3, <1>4 DEF Resolve2, ResolveEnd, Goto, TypeOK

(* From then on it is not touched.                                         *)
LEMMA LaterKnown ==
  ASSUME TypeOK, NEW p \in Runs, ViewInv(p), BranchInv(p), Compares(p),
         pc[p] \in Compared, pc'[p] \in Compared \cup {"refused", "failed"},
         UNCHANGED <<git, since, viewed, shas, command>>
  PROVE  ViewInv(p)' /\ BranchInv(p)' /\ Compares(p)'
BY DEF ViewInv, BranchInv, Compares, Named, Compared, Packaged, Holding, git

-----------------------------------------------------------------------------
(* Validation, selection and lookup between them give an adapter what it   *)
(* asks for.                                                               *)
LEMMA SettingsSuffice ==
  ASSUME NEW b \in ProviderBinding, ValidBinding(b), b.transport \in Supported \ {"fake"},
         NEW environment, NEW at, Resolve(b, environment, at) # "unavailable"
  PROVE  \/ Ready(b, Resolve(b, environment, at))
         \/ /\ Resolve(b, environment, at) = "nothing"
            /\ b.credential_source \in {"none"} \cup Variables
<1>1. b.credential_source \notin Chains
  BY DEF ValidBinding, ReferenceOK, Supported, Compatible, Chains
<1>2. Resolve(b, environment, at) \in Found
      \/ (Resolve(b, environment, at) = "nothing" /\ b.credential_source \in {"none"} \cup Variables)
  BY <1>1 DEF Resolve, Found
<1>3. \/ b.transport = "gemini" /\ EndpointSafe(b)
      \/ b.transport = "bedrock-converse" /\ b.region
      \/ b.transport \in Compatible /\ b.endpoint # "absent" /\ EndpointSafe(b)
  BY DEF ValidBinding, SettingsOK, Supported, Bedrock, Compatible
<1>. QED
  BY <1>2, <1>3 DEF Ready

(* What is looked up for a role that is bound.                             *)
LEMMA RoleCanAsk ==
  ASSUME TypeOK, NEW p \in Runs, configuration[p] # NoConfiguration, Loads(configuration[p]),
         Selects(configuration[p], RoleSet(p)), NEW role \in RoleSet(p),
         CredentialFor(p, role) # "unavailable"
  PROVE  LET b == BindingFor(configuration[p], role)
         IN  \/ Ready(b, CredentialFor(p, role))
             \/ b.transport = "fake"
             \/ /\ CredentialFor(p, role) = "nothing"
                /\ b.credential_source \in {"none"} \cup Variables
<1>. DEFINE b == BindingFor(configuration[p], role)
<1>1. configuration[p] \in Files
  BY DEF TypeOK
<1>2. b \in ProviderBinding /\ ValidBinding(b) /\ b.transport \in Supported
  BY <1>1, FileAssumption DEF Selects, Loads, BindingFor, ConfigurationFile
<1>3. b.transport # "fake" => CredentialFor(p, role) = Resolve(b, command[p].environment, surroundings)
  BY DEF CredentialFor
<1>. HIDE DEF b
<1>. QED
  BY <1>2, <1>3, SettingsSuffice DEF b

LEMMA BoundSteps ==
  ASSUME TypeOK, NEW p \in Runs, BoundInv(p), Step(p) \/ Fault(p)
  PROVE  BoundInv(p)'
<1>. USE DEF Goto
<1>0. bound[p] \in Seq(Outcome) /\ Len(bound[p]) \in Nat /\ PlanRoles(p) \in Seq(Roles)
      /\ Len(PlanRoles(p)) \in Nat
  BY MadeType, RolesType DEF TypeOK, PlanRoles
<1>1. CASE Start(p) \/ View(p) \/ Fetch(p) \/ Resolve2(p) \/ Collect(p) \/ Acquire(p) \/ Create(p)
  <2>1. /\ pc[p] \notin {"binding", "reviewing"} \cup Ended
        /\ pc'[p] \notin {"binding", "reviewing"}
        /\ UNCHANGED <<configuration, bound>>
    BY <1>1 DEF Start, View, Fetch, Resolve2, ResolveEnd, Collect, Acquire, Create, Ended, TypeOK
  <2>. QED
    BY <2>1 DEF BoundInv
<1>2. CASE Configure(p)
  <2>1. /\ bound'[p] = <<>> /\ pc'[p] \in {"waiting", "refused"}
        /\ configuration'[p] = configuration[p] \/ Loads(configuration'[p])
    BY <1>2 DEF Configure, BoundInv, Ended, TypeOK
  <2>. QED
    BY <2>1 DEF BoundInv, Ended
<1>3. ASSUME pc'[p] \in Ended, UNCHANGED configuration PROVE BoundInv(p)'
  BY <1>3 DEF BoundInv, Ended
<1>4. CASE Reopen(p) \/ Finish(p) \/ Fault(p)
  BY <1>3, <1>4 DEF Reopen, Finish, Fault, Ended, TypeOK
<1>5. CASE SelectRoles(p)
  <2>1. bound[p] = <<>> /\ UNCHANGED <<configuration, bound, shas, command>>
    BY <1>5 DEF SelectRoles, GiveUp, BoundInv, Ended
  <2>2. CASE configuration[p] = NoConfiguration
    <3>1. pc'[p] = "reviewing"
      BY <1>5, <2>2 DEF SelectRoles, TypeOK
    <3>. QED
      BY <2>1, <2>2, <3>1 DEF BoundInv, Ended
  <2>3. CASE configuration[p] # NoConfiguration /\ Selects(configuration[p], RoleSet(p))
    <3>1. pc'[p] = "binding"
      BY <1>5, <2>3 DEF SelectRoles, TypeOK
    <3>2. Len(bound[p]) = 0
      BY <2>1
    <3>3. RoleSet(p)' = RoleSet(p) /\ PlanRoles(p)' = PlanRoles(p)
      BY <2>1 DEF RoleSet, PlanRoles
    <3>. QED
      BY <1>0, <2>1, <2>3, <3>1, <3>2, <3>3 DEF BoundInv, Ended
  <2>4. CASE GiveUp(p)
    BY <1>3, <2>1, <2>4 DEF GiveUp, Ended, TypeOK
  <2>. QED
    BY <1>5, <2>2, <2>3, <2>4 DEF SelectRoles
<1>6. CASE Bind(p)
  <2>1. /\ UNCHANGED <<configuration, shas, command>> /\ pc[p] = "binding"
        /\ configuration[p] # NoConfiguration
        /\ Selects(configuration[p], RoleSet(p)) /\ Loads(configuration[p])
        /\ Len(bound[p]) < Len(PlanRoles(p))
        /\ \A i \in 1..Len(bound[p]) : CanAsk(p, i)
    BY <1>0, <1>6 DEF Bind, BoundInv, AllBound
  <2>2. CASE GiveUp(p)
    BY <1>3, <2>1, <2>2 DEF GiveUp, Ended, TypeOK
  <2>3. CASE /\ CredentialFor(p, NextRole(p)) # "unavailable"
             /\ bound' = [bound EXCEPT ![p] = Append(@, CredentialFor(p, NextRole(p)))]
             /\ UNCHANGED <<pc, record>>
    <3>0. PICK n \in Nat : n = Len(bound[p]) + 1
      BY <1>0
    <3>1. n \in 1..Len(PlanRoles(p)) /\ NextRole(p) = PlanRoles(p)[n]
      BY <1>0, <2>1, <3>0 DEF NextRole
    <3>2. NextRole(p) \in RoleSet(p)
      BY <3>1 DEF RoleSet
    <3>3. CredentialFor(p, NextRole(p)) \in Outcome
      BY <2>3, CredentialType
    <3>4. /\ Len(bound'[p]) = n /\ bound'[p][n] = CredentialFor(p, NextRole(p))
          /\ \A i \in 1..Len(bound[p]) : bound'[p][i] = bound[p][i]
      BY <1>0, <3>0, <2>3, <3>3 DEF TypeOK
    <3>5. PlanRoles(p)' = PlanRoles(p) /\ RoleSet(p)' = RoleSet(p)
      BY <2>1 DEF PlanRoles, RoleSet
    <3>6. \A i \in 1..Len(PlanRoles(p)) : BindingOf(p, i)' = BindingOf(p, i)
      BY <2>1, <3>5 DEF BindingOf
    <3>7. BindingOf(p, n) = BindingFor(configuration[p], NextRole(p))
      BY <3>1 DEF BindingOf
    <3>8. CanAsk(p, n)'
      BY <2>1, <2>3, <3>1, <3>2, <3>4, <3>6, <3>7, RoleCanAsk DEF CanAsk
    <3>9. ASSUME NEW i \in 1..Len(bound[p]) PROVE CanAsk(p, i)'
      <4>1. i \in 1..Len(PlanRoles(p))
        BY <1>0, <2>1
      <4>. QED
        BY <2>1, <3>4, <3>6, <4>1 DEF CanAsk
    <3>10. \A i \in 1..n : i = n \/ i \in 1..Len(bound[p])
      BY <1>0, <3>0
    <3>11. Len(bound'[p]) <= Len(PlanRoles(p))
      BY <3>1, <3>4
    <3>12. \A i \in 1..Len(bound'[p]) : CanAsk(p, i)'
      BY <3>4, <3>8, <3>9, <3>10
    <3>. QED
      BY <2>1, <2>3, <3>5, <3>11, <3>12 DEF BoundInv, Ended
  <2>. QED
    BY <1>6, <2>2, <2>3 DEF Bind
<1>7. CASE Execute(p)
  <2>1. /\ pc[p] = "binding" /\ pc'[p] = "reviewing" /\ AllBound(p)
        /\ UNCHANGED <<configuration, bound, shas, command>>
    BY <1>7 DEF Execute, TypeOK
  <2>2. AllBound(p)' /\ PlanRoles(p)' = PlanRoles(p) /\ RoleSet(p)' = RoleSet(p)
    BY <2>1 DEF AllBound, PlanRoles, RoleSet
  <2>3. \A i \in 1..Len(bound[p]) : CanAsk(p, i) => CanAsk(p, i)'
    BY <2>1, <2>2 DEF CanAsk, BindingOf
  <2>. QED
    BY <2>1, <2>2, <2>3 DEF BoundInv, Ended
<1>8. CASE Ask(p)
  BY <1>8, BoundKept DEF Ask, run, Same
<1>. QED
  BY <1>1, <1>2, <1>4, <1>5, <1>6, <1>7, <1>8 DEF Step

-----------------------------------------------------------------------------
(* The records.                                                            *)
RecordsGrow == /\ Opened \subseteq Opened'
               /\ \A id \in Opened : /\ record'[id].made = record[id].made
                                     /\ record[id].stage = "closed" => record'[id].stage = "closed"

LEMMA Untouched ==
  ASSUME record' = record
  PROVE  Opened' = Opened /\ RecordsGrow /\ (RecordInv => RecordInv')
BY DEF Opened, RecordsGrow, RecordInv

LEMMA CloseIsKept ==
  ASSUME TypeOK, RecordInv, NEW p \in Runs, Identity(p) \in Opened, Close(p)
  PROVE  RecordInv' /\ RecordsGrow
<1>1. Opened' = Opened
  BY CloseKeeps
<1>2. \A id \in Opened : /\ record'[id].sent = record[id].sent
                         /\ record'[id].made = record[id].made
                         /\ record[id].stage = "closed" => record'[id].stage = "closed"
  BY CloseKeeps
<1>3. RecordsGrow
  BY <1>1, <1>2 DEF RecordsGrow
<1>4. RecordInv'
  BY <1>1, <1>2 DEF RecordInv
<1>. QED
  BY <1>3, <1>4

LEMMA RecordSteps ==
  ASSUME TypeOK, RecordInv, NEW p \in Runs, OwnInv(p), BoundInv(p), Step(p) \/ Fault(p)
  PROVE  RecordInv' /\ RecordsGrow
<1>1. CASE Start(p) \/ View(p) \/ Fetch(p) \/ Resolve2(p) \/ Collect(p) \/ Configure(p)
           \/ Acquire(p) \/ Execute(p) \/ Fault(p)
  BY <1>1, Untouched
  DEF Start, View, Fetch, Resolve2, ResolveEnd, Collect, Configure, Acquire, Execute, Fault
<1>2. CASE Create(p)
  <2>1. Identity(p) = Package(Made(p))
    BY DEF Identity
  <2>. QED
    <3>1. Opened' = Opened \cup {Identity(p)} /\ \A id \in Opened : record'[id] = record[id]
      BY <1>2, CreateAdds
    <3>2. Package(record'[Identity(p)].made) = Identity(p) /\ record'[Identity(p)].sent = {}
      <4>. DEFINE r == [stage |-> "open", owner |-> p, sent |-> {}, made |-> Made(p)]
      <4>1. record'[Identity(p)] = r
        BY <1>2, CreateAdds
      <4>2. r.made = Made(p) /\ r.sent = {}
        OBVIOUS
      <4>. HIDE DEF r
      <4>. QED
        BY <2>1, <4>1, <4>2
    <3>3. RecordsGrow
      BY <3>1 DEF RecordsGrow
    <3>4. RecordInv'
      BY <3>1, <3>2 DEF RecordInv
    <3>. QED
      BY <3>3, <3>4
<1>3. CASE Reopen(p) \/ Finish(p)
  BY <1>3, CloseIsKept DEF Reopen, Finish, OwnInv
<1>4. CASE SelectRoles(p) \/ Bind(p)
  <2>1. Identity(p) \in Opened
    BY <1>4 DEF SelectRoles, Bind, OwnInv
  <2>2. record' = record \/ Close(p)
    BY <1>4 DEF SelectRoles, Bind, GiveUp
  <2>. QED
    BY <2>1, <2>2, Untouched, CloseIsKept
<1>5. CASE Ask(p)
  <2>1. PICK i \in 1..Len(bound[p]) :
             record' = [record EXCEPT ![Identity(p)] = With(@, "sent", @.sent \cup {PlanRoles(p)[i]})]
    BY <1>5 DEF Ask
  <2>2. pc[p] = "reviewing" /\ Identity(p) \in Opened
    BY <1>5 DEF Ask, OwnInv
  <2>3. PlanRoles(p) \in Seq(Roles)
    BY MadeType, RolesType DEF PlanRoles
  <2>4. bound[p] # <<>>
    BY <2>1
  <2>5. configuration[p] # NoConfiguration /\ Len(bound[p]) <= Len(PlanRoles(p))
    BY <2>2, <2>4 DEF BoundInv
  <2>6. i \in 1..Len(PlanRoles(p)) /\ PlanRoles(p)[i] \in Roles
    BY <2>3, <2>5 DEF TypeOK
  <2>7. /\ record[Identity(p)].made = Made(p)
        /\ Made(p).configuration # NoConfiguration
        /\ RolesFor(Made(p).range, Made(p).declared) = PlanRoles(p)
    BY <2>2, <2>5 DEF OwnInv, Made, PlanRoles
  <2>8. /\ Opened' = Opened
        /\ record'[Identity(p)].sent = record[Identity(p)].sent \cup {PlanRoles(p)[i]}
        /\ \A id \in Opened : /\ id # Identity(p) => record'[id].sent = record[id].sent
                              /\ record'[id].made = record[id].made
                              /\ record'[id].stage = record[id].stage
    BY <2>1, <2>2, <2>6, AskKeeps
  <2>9. RecordsGrow
    <3>1. /\ Opened' = Opened
          /\ \A id \in Opened : /\ record'[id].stage = record[id].stage
                                /\ record'[id].made = record[id].made
      BY <2>8
    <3>. QED
      BY <3>1 DEF RecordsGrow
  <2>10. ASSUME NEW id \in Opened'
         PROVE  LET made == record'[id].made
                    roles == RolesFor(made.range, made.declared)
                IN  /\ Package(made) = id
                    /\ \A role \in record'[id].sent : \E k \in 1..Len(roles) : roles[k] = role
                    /\ made.configuration = NoConfiguration => record'[id].sent = {}
    <3>1. CASE id = Identity(p)
      BY <2>2, <2>6, <2>7, <2>8, <3>1 DEF RecordInv
    <3>2. CASE id # Identity(p)
      BY <2>8, <2>10, <3>2 DEF RecordInv
    <3>. QED
      BY <3>1, <3>2
  <2>. QED
    BY <2>9, <2>10 DEF RecordInv
<1>. QED
  BY <1>1, <1>2, <1>3, <1>4, <1>5 DEF Step

Working == {"selecting", "binding", "reviewing"}

LEMMA AskedIsKept ==
  ASSUME TypeOK, NEW p \in Runs, Identity(p) \in Opened, Ask(p)
  PROVE  record'[Identity(p)].made = record[Identity(p)].made
<1>1. PICK i \in 1..Len(bound[p]) :
           record' = [record EXCEPT ![Identity(p)] = With(@, "sent", @.sent \cup {PlanRoles(p)[i]})]
  BY DEF Ask
<1>. DEFINE old == record[Identity(p)]
            r == With(old, "sent", old.sent \cup {PlanRoles(p)[i]})
<1>2. old \in Records
  BY DEF TypeOK, Opened
<1>. HIDE DEF old
<1>3. r.made = old.made
  BY <1>2 DEF With, Records
<1>4. record'[Identity(p)] = r
  BY <1>1 DEF TypeOK, Opened, old
<1>. HIDE DEF r
<1>. QED
  BY <1>3, <1>4 DEF old

LEMMA OwnSteps ==
  ASSUME TypeOK, NEW p \in Runs, OwnInv(p), Step(p) \/ Fault(p)
  PROVE  OwnInv(p)'
<1>. USE DEF Goto
<1>1. CASE Start(p) \/ View(p) \/ Fetch(p) \/ Resolve2(p) \/ Collect(p) \/ Configure(p)
           \/ Acquire(p) \/ Fault(p)
  BY <1>1
  DEF Start, View, Fetch, Resolve2, ResolveEnd, Collect, Configure, Acquire, Fault, OwnInv, TypeOK
<1>2. CASE Create(p) \/ Reopen(p) \/ SelectRoles(p) \/ Bind(p) \/ Execute(p) \/ Ask(p) \/ Finish(p)
  <2>1. Identity(p)' = Identity(p)
    BY <1>2 DEF Create, Reopen, SelectRoles, Bind, Execute, Ask, Finish, Identity, Made, run
  <2>2. CASE Create(p)
    <3>1. Identity(p) \in Opened'
      BY <2>2, CreateAdds
    <3>2. pc'[p] = "selecting" /\ Made(p)' = Made(p)
      BY <2>2 DEF Create, TypeOK, Made
    <3>3. record'[Identity(p)].made = Made(p)
      <4>. DEFINE r == [stage |-> "open", owner |-> p, sent |-> {}, made |-> Made(p)]
      <4>1. record'[Identity(p)] = r
        BY <2>2, CreateAdds
      <4>2. r.made = Made(p)
        OBVIOUS
      <4>. HIDE DEF r
      <4>. QED
        BY <4>1, <4>2
    <3>. QED
      BY <2>1, <3>1, <3>2, <3>3 DEF OwnInv
  <2>3. CASE Close(p) /\ Identity(p) \in Opened /\ pc'[p] = "returned"
    BY <2>1, <2>3, CloseKeeps DEF OwnInv
  <2>4. CASE /\ pc[p] \in Working /\ pc'[p] \in Working /\ Opened' = Opened
             /\ record'[Identity(p)].made = record[Identity(p)].made
    <3>1. Made(p)' = Made(p)
      BY <1>2 DEF Create, Reopen, SelectRoles, Bind, Execute, Ask, Finish, Made, run
    <3>. QED
      BY <2>1, <2>4, <3>1 DEF OwnInv, Working
  <2>5. CASE Reopen(p) \/ Finish(p)
    BY <2>3, <2>5 DEF Reopen, Finish, OwnInv, TypeOK
  <2>6. CASE SelectRoles(p) \/ Bind(p)
    <3>1. Identity(p) \in Opened
      BY <2>6 DEF SelectRoles, Bind, OwnInv
    <3>2. CASE GiveUp(p)
      BY <2>3, <3>1, <3>2 DEF GiveUp, TypeOK
    <3>3. CASE record' = record /\ pc'[p] \in {"reviewing", "binding"}
      BY <2>4, <2>6, <3>3, Untouched DEF SelectRoles, Bind, Working
    <3>4. pc[p] = "binding" /\ UNCHANGED pc => pc'[p] = "binding"
      OBVIOUS
    <3>. QED
      BY <2>6, <3>2, <3>3, <3>4 DEF SelectRoles, Bind, TypeOK
  <2>7. CASE Execute(p)
    BY <2>4, <2>7, Untouched DEF Execute, Working, TypeOK
  <2>8. CASE Ask(p)
    <3>1. pc[p] = "reviewing" /\ pc'[p] = "reviewing" /\ Identity(p) \in Opened
      BY <2>8 DEF Ask, OwnInv, run
    <3>2. Opened' = Opened
      BY <2>8 DEF Ask, Opened, TypeOK
    <3>3. record'[Identity(p)].made = record[Identity(p)].made
      BY <2>8, <3>1, AskedIsKept
    <3>. QED
      BY <2>4, <3>1, <3>2, <3>3 DEF Working
  <2>. QED
    BY <1>2, <2>2, <2>5, <2>6, <2>7, <2>8
<1>. QED
  BY <1>1, <1>2 DEF Step

LEMMA OwnKept ==
  ASSUME NEW q \in Runs, Same(q), OwnInv(q), RecordsGrow
  PROVE  OwnInv(q)'
<1>1. Identity(q)' = Identity(q) /\ Made(q)' = Made(q)
  BY DEF Same, Identity, Made
<1>. QED
  BY <1>1 DEF Same, OwnInv, RecordsGrow

-----------------------------------------------------------------------------
OthersSame(p) == \A q \in Runs \ {p} : Same(q)

LEMMA OnlyOneSteps ==
  ASSUME TypeOK, NEW p \in Runs, Step(p) \/ Fault(p)
  PROVE  OthersSame(p)
<1>. USE DEF OthersSame, Same, TypeOK, Goto
<1>1. CASE Start(p) \/ View(p) \/ Fetch(p) \/ Resolve2(p) \/ Collect(p) \/ Configure(p) \/ Acquire(p)
  BY <1>1 DEF Start, View, Fetch, Resolve2, ResolveEnd, Collect, Configure, Acquire
<1>2. CASE Create(p) \/ Reopen(p) \/ SelectRoles(p) \/ Execute(p) \/ Finish(p) \/ Fault(p)
  BY <1>2 DEF Create, Reopen, SelectRoles, GiveUp, Execute, Finish, Fault
<1>3. CASE Bind(p) \/ Ask(p)
  BY <1>3 DEF Bind, GiveUp, Ask, run
<1>. QED
  BY <1>1, <1>2, <1>3 DEF Step

LEMMA StepGrows ==
  ASSUME TypeOK, HostInv, CloneInv, NEW p \in Runs, Step(p) \/ Fault(p)
  PROVE  HostInv' /\ CloneInv' /\ HistoriesGrow
<1>1. CASE Fetch(p)
  BY <1>1, GitGrows DEF Fetch, git
<1>2. CASE ~Fetch(p)
  <2>1. UNCHANGED git
    BY <1>2
    DEF Step, Start, View, Resolve2, ResolveEnd, Collect, Configure, Acquire, Create, Reopen,
        SelectRoles, Bind, Execute, Ask, Finish, Fault
  <2>. QED
    BY <2>1, GitGrows DEF git
<1>. QED
  BY <1>1, <1>2

LEMMA OwnKnown ==
  ASSUME TypeOK, HostInv, CloneInv, NEW p \in Runs, ViewInv(p), BranchInv(p), Compares(p),
         Step(p) \/ Fault(p)
  PROVE  ViewInv(p)' /\ BranchInv(p)' /\ Compares(p)'
<1>1. CASE Start(p) \/ View(p) \/ Fetch(p) \/ Resolve2(p)
  BY <1>1, ViewKnown, FetchKnown, ResolveKnown
<1>2. CASE Collect(p) \/ Configure(p) \/ Acquire(p) \/ Create(p) \/ Reopen(p) \/ SelectRoles(p)
           \/ Bind(p) \/ Execute(p) \/ Ask(p) \/ Finish(p) \/ Fault(p)
  <2>1. UNCHANGED <<git, since, viewed, shas, command>>
    BY <1>2
    DEF Collect, Configure, Acquire, Create, Reopen, SelectRoles, Bind, Execute, Ask, Finish,
        Fault, run
  <2>2. pc[p] \in Compared
    BY <1>2
    DEF Collect, Configure, Acquire, Create, Reopen, SelectRoles, Bind, Execute, Ask, Finish,
        Fault, Compared, Packaged, Holding
  <2>3. pc'[p] \in Compared \cup {"refused", "failed"}
    BY <1>2, <2>2
    DEF Collect, Configure, Acquire, Create, Reopen, SelectRoles, Bind, GiveUp, Execute, Ask,
        Finish, Fault, run, Goto, TypeOK, Compared, Packaged, Holding
  <2>. QED
    BY <2>1, <2>2, <2>3, LaterKnown
<1>. QED
  BY <1>1, <1>2 DEF Step

LEMMA StepTypes ==
  ASSUME TypeOK, NEW p \in Runs, OwnInv(p), BoundInv(p), Step(p) \/ Fault(p)
  PROVE  TypeOK'
BY ResolveTypes, ReviewTypes DEF Step

LEMMA NextKeeps == ASSUME InvocationInv, [Next]_vars PROVE InvocationInv'
<1>. USE DEF InvocationInv, ComparedIsNamed
<1>1. ASSUME NEW p \in Runs, Step(p) \/ Fault(p) PROVE InvocationInv'
  <2>1. TypeOK'
    BY <1>1, StepTypes
  <2>2. HostInv' /\ CloneInv' /\ HistoriesGrow
    BY <1>1, StepGrows
  <2>3. RecordInv' /\ RecordsGrow
    BY <1>1, RecordSteps
  <2>4. ViewInv(p)' /\ BranchInv(p)' /\ Compares(p)' /\ OwnInv(p)' /\ BoundInv(p)'
    BY <1>1, OwnKnown, OwnSteps, BoundSteps
  <2>5. ASSUME NEW q \in Runs \ {p}
        PROVE  ViewInv(q)' /\ BranchInv(q)' /\ Compares(q)' /\ OwnInv(q)' /\ BoundInv(q)'
    <3>1. Same(q)
      BY <1>1, OnlyOneSteps DEF OthersSame
    <3>. QED
      BY <2>2, <2>3, <3>1, KnownKept, OwnKept, BoundKept
  <2>. QED
    BY <2>1, <2>2, <2>3, <2>4, <2>5
<1>2. ASSUME TypeOK', HostInv', CloneInv', HistoriesGrow, record' = record, \A q \in Runs : Same(q)
      PROVE  InvocationInv'
  <2>1. RecordInv' /\ RecordsGrow
    BY <1>2, Untouched
  <2>. QED
    BY <1>2, <2>1, KnownKept, OwnKept, BoundKept
<1>3. CASE Others
  <2>1. Push \/ Move \/ UNCHANGED <<hub, local, objects>>
    BY <1>3 DEF Others, Edit, git
  <2>2. record' = record /\ \A q \in Runs : Same(q)
    BY <1>3 DEF Others, Edit, run, Same
  <2>. QED
    BY <1>2, <1>3, <2>1, <2>2, OtherTypes, GitGrows
<1>4. CASE UNCHANGED vars
  <2>1. TypeOK'
    BY <1>4 DEF vars, run, git, TypeOK, GitTypeOK, Opened
  <2>2. record' = record /\ UNCHANGED <<hub, local, objects>> /\ \A q \in Runs : Same(q)
    BY <1>4 DEF vars, run, git, Same
  <2>. QED
    BY <1>2, <2>1, <2>2, GitGrows
<1>. QED
  BY <1>1, <1>3, <1>4 DEF Next

LEMMA InitHolds == Init => InvocationInv
<1>. SUFFICES ASSUME Init PROVE InvocationInv
  OBVIOUS
<1>. USE DEF Init, GitInit
<1>1. First \in Comparison
  BY CommitAssumption DEF Comparison
<1>2. /\ Len(hub) = 1 /\ hub[1] = First /\ Len(local) = 1 /\ local[1] = First
  OBVIOUS
<1>3. GitTypeOK
  BY <1>1, CommitAssumption DEF GitTypeOK, Comparison
<1>4. Opened = {}
  BY DEF Opened
<1>5. TypeOK
  BY <1>1, <1>3, <1>4 DEF TypeOK, Points, Moment, Opened
<1>6. HostInv
  BY <1>1, <1>2, CommitAssumption DEF HostInv, Comparison, Ends
<1>7. CloneInv
  BY <1>1, <1>2, CommitAssumption DEF CloneInv, Now, Comparison, Ends
<1>8. RecordInv
  BY <1>4 DEF RecordInv
<1>9. ASSUME NEW p \in Runs
      PROVE ViewInv(p) /\ BranchInv(p) /\ Compares(p) /\ OwnInv(p) /\ BoundInv(p)
  BY <1>9 DEF ViewInv, BranchInv, Compares, OwnInv, BoundInv, Named, Compared, Packaged, Holding,
              Ended
<1>. QED
  BY <1>5, <1>6, <1>7, <1>8, <1>9 DEF InvocationInv, ComparedIsNamed

-----------------------------------------------------------------------------
THEOREM InvocationInvariance == Spec => []InvocationInv
BY InitHolds, NextKeeps, PTL DEF Spec

(* cli.main with any number of invocations, commits, pushes, edits and     *)
(* faults never leaves its states.                                         *)
THEOREM InvocationTypes == Spec => []TypeOK
<1>1. InvocationInv => TypeOK
  BY DEF InvocationInv
<1>. QED
  BY <1>1, InvocationInvariance, PTL

(* The range resolve_pull_request and collect_git_evidence settle on is    *)
(* one that was there, whoever pushes, rewrites or fetches when.           *)
THEOREM NamedRanges == Spec => []ComparedIsNamed
<1>1. InvocationInv => ComparedIsNamed
  BY DEF InvocationInv
<1>. QED
  BY <1>1, InvocationInvariance, PTL

(* What validate_safe_binding, validate_selected_roles and                 *)
(* resolve_credential accept, the adapters can ask with, but for the named *)
(* exceptions: for every binding file and plan.                            *)
THEOREM AdaptersAreReady == Spec => []BoundCanAsk
<1>1. InvocationInv => BoundCanAsk
  BY DEF InvocationInv, BoundCanAsk, BoundInv, AllBound
<1>. QED
  BY <1>1, InvocationInvariance, PTL

(* The list of texts a package is named by tells apart what runs are about *)
(* as long as no user writes the program's own texts: a returned record is *)
(* then this invocation's own, whoever made it.                            *)
THEOREM RecordsAreOwn == Spec => []ReturnedIsOwn
<1>1. InvocationInv => ReturnedIsOwn
  <2>. SUFFICES ASSUME InvocationInv, NEW p \in Runs, pc[p] = "returned"
                PROVE  /\ Identity(p) \in Opened
                       /\ record[Identity(p)].stage = "closed"
                       /\ Ordinary(Made(p)) /\ Ordinary(record[Identity(p)].made) =>
                             /\ record[Identity(p)].made = Made(p)
                             /\ record[Identity(p)].sent \subseteq RoleSet(p)
                             /\ configuration[p] = NoConfiguration =>
                                   record[Identity(p)].sent = {}
    BY DEF ReturnedIsOwn
  <2>1. Identity(p) \in Opened /\ record[Identity(p)].stage = "closed"
    BY DEF InvocationInv, OwnInv
  <2>. SUFFICES ASSUME Ordinary(Made(p)), Ordinary(record[Identity(p)].made)
                PROVE  /\ record[Identity(p)].made = Made(p)
                       /\ record[Identity(p)].sent \subseteq RoleSet(p)
                       /\ configuration[p] = NoConfiguration => record[Identity(p)].sent = {}
    BY <2>1
  <2>2. Made(p) \in Reviews /\ record[Identity(p)].made \in Reviews
    BY <2>1, MadeType DEF InvocationInv, TypeOK, Records
  <2>3. Package(record[Identity(p)].made) = Package(Made(p))
    BY <2>1 DEF InvocationInv, RecordInv, Identity
  <2>4. record[Identity(p)].made = Made(p)
    BY <2>2, <2>3, NamesAreOwn
  <2>5. /\ Made(p).configuration = configuration[p]
        /\ RolesFor(Made(p).range, Made(p).declared) = PlanRoles(p)
    BY DEF Made, PlanRoles
  <2>. QED
    BY <2>1, <2>4, <2>5 DEF InvocationInv, RecordInv, RoleSet
<1>. QED
  BY <1>1, InvocationInvariance, PTL

-----------------------------------------------------------------------------
(* One run's record: two are never in one package's critical section.      *)
HoldInv ==
  \A p, q \in Runs : p # q /\ {pc[p], pc[q]} \subseteq Holding => Identity(p) # Identity(q)

(* A record's owner is at work on it, with the record open, or has ended;  *)
(* whoever is at work on a record owns it.                                 *)
OwnerInv(id) == LET r == record[id].owner
                IN  \/ pc[r] \in Ended
                    \/ pc[r] \in Working /\ Identity(r) = id /\ record[id].stage = "open"

OwnersInv == /\ HoldInv
             /\ \A id \in Opened : OwnerInv(id)
             /\ \A p \in Runs : pc[p] \in Working => record[Identity(p)].owner = p

(* A record keeps its owner; source goes out for it only by the owner, at  *)
(* work on it; it is closed when the owner is at its end, and then stays   *)
(* as it is.                                                               *)
Owned(id) ==
  LET r == record[id].owner
  IN  /\ id \in Opened'
      /\ record'[id].owner = r
      /\ record[id].stage = "closed" => record'[id] = record[id]
      /\ record'[id].sent # record[id].sent => pc[r] = "reviewing" /\ Identity(r) = id
      /\ record'[id].stage # record[id].stage => pc'[r] \in Ended

RecordsAreOwned == [][\A id \in Opened : Owned(id)]_vars

LEMMA Closes ==
  ASSUME TypeOK, NEW p \in Runs, Identity(p) \in Opened, Close(p)
  PROVE  /\ Opened' = Opened
         /\ \A id \in Opened \ {Identity(p)} : record'[id] = record[id]
         /\ record'[Identity(p)].owner = record[Identity(p)].owner
         /\ record'[Identity(p)].sent = record[Identity(p)].sent
         /\ record[Identity(p)].stage = "closed" => record'[Identity(p)] = record[Identity(p)]
<1>. DEFINE old == record[Identity(p)]
            r == With(old, "stage", "closed")
<1>1. old \in Records
  BY DEF TypeOK, Opened
<1>. HIDE DEF old
<1>2. /\ r \in Records /\ r.owner = old.owner /\ r.sent = old.sent
      /\ old.stage = "closed" => r = old
  BY <1>1 DEF With, Records
<1>3. record' = [record EXCEPT ![Identity(p)] = r]
  BY DEF Close, old
<1>. HIDE DEF r
<1>. QED
  BY <1>2, <1>3, RecordChanged DEF old

LEMMA Asks ==
  ASSUME TypeOK, NEW p \in Runs, Identity(p) \in Opened, BoundInv(p), Ask(p)
  PROVE  /\ Opened' = Opened
         /\ \A id \in Opened \ {Identity(p)} : record'[id] = record[id]
         /\ record'[Identity(p)].owner = record[Identity(p)].owner
         /\ record'[Identity(p)].stage = record[Identity(p)].stage
         /\ pc[p] = "reviewing" /\ pc' = pc
<1>1. PICK i \in 1..Len(bound[p]) :
           record' = [record EXCEPT ![Identity(p)] = With(@, "sent", @.sent \cup {PlanRoles(p)[i]})]
  BY DEF Ask
<1>2. pc[p] = "reviewing" /\ pc' = pc
  BY DEF Ask, run
<1>3. PlanRoles(p) \in Seq(Roles) /\ bound[p] # <<>>
  BY <1>1, MadeType, RolesType DEF PlanRoles
<1>4. Len(bound[p]) <= Len(PlanRoles(p))
  BY <1>2, <1>3 DEF BoundInv
<1>. DEFINE old == record[Identity(p)]
            r == With(old, "sent", old.sent \cup {PlanRoles(p)[i]})
<1>5. old \in Records /\ PlanRoles(p)[i] \in Roles
  BY <1>3, <1>4 DEF TypeOK, Opened
<1>. HIDE DEF old
<1>6. r \in Records /\ r.owner = old.owner /\ r.stage = old.stage
  BY <1>5 DEF With, Records
<1>7. record' = [record EXCEPT ![Identity(p)] = r]
  BY <1>1 DEF old
<1>. HIDE DEF r
<1>. QED
  BY <1>2, <1>6, <1>7, RecordChanged DEF old

LEMMA Creates ==
  ASSUME TypeOK, NEW p \in Runs, Create(p)
  PROVE  /\ Opened' = Opened \cup {Identity(p)} /\ Identity(p) \notin Opened
         /\ \A id \in Opened : record'[id] = record[id]
         /\ record'[Identity(p)].owner = p /\ record'[Identity(p)].stage = "open"
         /\ pc[p] = "opening" /\ pc'[p] = "selecting"
<1>. DEFINE r == [stage |-> "open", owner |-> p, sent |-> {}, made |-> Made(p)]
<1>1. /\ Opened' = Opened \cup {Identity(p)}
      /\ \A id \in Opened : record'[id] = record[id]
      /\ record'[Identity(p)] = r
  BY CreateAdds
<1>2. r.owner = p /\ r.stage = "open"
  OBVIOUS
<1>. HIDE DEF r
<1>. QED
  BY <1>1, <1>2 DEF Create, Goto, TypeOK

(* What a run does to its program counter, its identity and the records.   *)
LEMMA OwnMoves ==
  ASSUME TypeOK, NEW p \in Runs, OwnInv(p), BoundInv(p), Step(p) \/ Fault(p)
  PROVE  /\ pc[p] \notin Ended
         /\ pc[p] \in Holding => Identity(p)' = Identity(p) /\ pc'[p] \in Holding \cup Ended
         /\ pc'[p] \in Holding =>
               /\ Identity(p)' = Identity(p)
               /\ pc[p] \in Holding \/ ~Locked(Identity(p))
         /\ \/ record' = record /\ (pc[p] \in Working => pc'[p] \in Working \cup Ended)
                                /\ (pc'[p] \in Working => pc[p] \in Working)
            \/ Create(p)
            \/ Close(p) /\ Identity(p) \in Opened /\ pc[p] \in Holding /\ pc'[p] = "returned"
            \/ Ask(p) /\ Identity(p) \in Opened
<1>. USE DEF Goto, TypeOK, Points, Holding, Ended, Working
<1>1. CASE Start(p) \/ View(p) \/ Fetch(p) \/ Resolve2(p) \/ Collect(p) \/ Configure(p)
  <2>1. /\ record' = record /\ pc[p] \notin Holding \cup Ended /\ pc'[p] \notin Holding
    BY <1>1 DEF Start, View, Fetch, Resolve2, ResolveEnd, Collect, Configure
  <2>. QED
    BY <2>1
<1>2. CASE Acquire(p) \/ Create(p) \/ Reopen(p) \/ SelectRoles(p) \/ Bind(p) \/ Execute(p)
           \/ Ask(p) \/ Finish(p) \/ Fault(p)
  <2>0. Identity(p)' = Identity(p)
    BY <1>2 DEF Acquire, Create, Reopen, SelectRoles, Bind, Execute, Ask, Finish, Fault,
                Identity, Made, run
  <2>1. CASE Acquire(p)
    BY <2>0, <2>1 DEF Acquire
  <2>2. CASE Create(p)
    BY <2>0, <2>2, Creates
  <2>3. CASE Reopen(p) \/ Finish(p)
    BY <2>0, <2>3 DEF Reopen, Finish, OwnInv
  <2>4. CASE SelectRoles(p) \/ Bind(p)
    <3>1. pc[p] \in {"selecting", "binding"} /\ Identity(p) \in Opened
      BY <2>4 DEF SelectRoles, Bind, OwnInv
    <3>2. \/ record' = record /\ pc'[p] \in {"binding", "reviewing"}
          \/ Close(p) /\ pc'[p] = "returned"
      BY <2>4 DEF SelectRoles, Bind, GiveUp
    <3>. QED
      BY <2>0, <3>1, <3>2
  <2>5. CASE Execute(p) \/ Fault(p)
    <3>1. record' = record /\ pc[p] \in Holding /\ pc'[p] \in {"reviewing", "failed"}
      BY <2>5 DEF Execute, Fault
    <3>2. pc'[p] = "reviewing" => pc[p] \in Working
      BY <2>5 DEF Execute, Fault
    <3>. QED
      BY <2>0, <3>1, <3>2
  <2>6. CASE Ask(p)
    BY <2>0, <2>6 DEF Ask, OwnInv, run
  <2>. QED
    BY <1>2, <2>1, <2>2, <2>3, <2>4, <2>5, <2>6
<1>. QED
  BY <1>1, <1>2 DEF Step

LEMMA HoldersKept ==
  ASSUME InvocationInv, HoldInv, NEW p \in Runs, Step(p) \/ Fault(p)
  PROVE  HoldInv'
<1>. SUFFICES ASSUME NEW a \in Runs, NEW b \in Runs, a # b, {pc'[a], pc'[b]} \subseteq Holding
              PROVE  Identity(a)' # Identity(b)'
  BY DEF HoldInv
<1>1. \A q \in Runs \ {p} : pc'[q] = pc[q] /\ Identity(q)' = Identity(q)
  BY OnlyOneSteps DEF InvocationInv, OthersSame, Same, Identity, Made
<1>2. pc'[p] \in Holding => /\ Identity(p)' = Identity(p)
                            /\ pc[p] \in Holding \/ ~Locked(Identity(p))
  BY OwnMoves DEF InvocationInv
<1>. QED
  BY <1>1, <1>2 DEF HoldInv, Locked

(* A step of one run, seen from every record.                              *)
LEMMA OwnersStep ==
  ASSUME InvocationInv, OwnersInv, NEW p \in Runs, Step(p) \/ Fault(p)
  PROVE  OwnersInv' /\ \A id \in Opened : Owned(id)
<1>1. \A q \in Runs \ {p} : pc'[q] = pc[q] /\ Identity(q)' = Identity(q)
  BY OnlyOneSteps DEF InvocationInv, OthersSame, Same, Identity, Made
<1>2. HoldInv'
  BY HoldersKept DEF OwnersInv
<1>3. TypeOK /\ OwnInv(p) /\ BoundInv(p)
  BY DEF InvocationInv
<1>4. /\ pc[p] \notin Ended
      /\ pc[p] \in Holding => Identity(p)' = Identity(p) /\ pc'[p] \in Holding \cup Ended
      /\ pc'[p] \in Holding => Identity(p)' = Identity(p)
      /\ \/ record' = record /\ (pc[p] \in Working => pc'[p] \in Working \cup Ended)
                             /\ (pc'[p] \in Working => pc[p] \in Working)
         \/ Create(p)
         \/ Close(p) /\ Identity(p) \in Opened /\ pc[p] \in Holding /\ pc'[p] = "returned"
         \/ Ask(p) /\ Identity(p) \in Opened
  BY <1>3, OwnMoves
<1>5. \A id \in Opened : /\ record[id].owner \in Runs
                         /\ OwnerInv(id)
  BY <1>3 DEF OwnersInv, TypeOK, Records
<1>6. \A q \in Runs : pc[q] \in Working => Identity(q) \in Opened /\ record[Identity(q)].owner = q
  BY DEF OwnersInv, InvocationInv, OwnInv, Working
<1>7. Working \subseteq Holding /\ "returned" \in Ended /\ Working \cap Ended = {}
  BY DEF Working, Holding, Ended
<1>. SUFFICES /\ \A id \in Opened' : OwnerInv(id)'
              /\ \A q \in Runs : pc'[q] \in Working => record'[Identity(q)'].owner = q
              /\ \A id \in Opened : Owned(id)
  BY <1>2 DEF OwnersInv
<1>8. CASE record' = record /\ (pc[p] \in Working => pc'[p] \in Working \cup Ended)
                            /\ (pc'[p] \in Working => pc[p] \in Working)
  <2>1. Opened' = Opened
    BY <1>8 DEF Opened
  <2>2. ASSUME NEW id \in Opened PROVE OwnerInv(id)' /\ Owned(id)
    BY <1>1, <1>4, <1>5, <1>7, <1>8, <2>1, <2>2 DEF OwnerInv, Owned
  <2>. QED
    BY <1>1, <1>4, <1>6, <1>7, <1>8, <2>1, <2>2
<1>9. CASE Create(p)
  <2>1. /\ Opened' = Opened \cup {Identity(p)} /\ Identity(p) \notin Opened
        /\ \A id \in Opened : record'[id] = record[id]
        /\ record'[Identity(p)].owner = p /\ record'[Identity(p)].stage = "open"
        /\ pc[p] = "opening" /\ pc'[p] = "selecting"
    BY <1>3, <1>9, Creates
  <2>2. pc[p] \notin Working \cup Ended /\ pc'[p] \in Working /\ Identity(p)' = Identity(p)
    BY <1>4, <1>7, <2>1 DEF Working
  <2>3. ASSUME NEW id \in Opened PROVE OwnerInv(id)' /\ Owned(id)
    BY <1>1, <1>5, <2>1, <2>2, <2>3 DEF OwnerInv, Owned
  <2>4. OwnerInv(Identity(p))'
    BY <2>1, <2>2 DEF OwnerInv
  <2>. QED
    BY <1>1, <1>6, <2>1, <2>2, <2>3, <2>4
<1>10. CASE Close(p) /\ Identity(p) \in Opened /\ pc[p] \in Holding /\ pc'[p] = "returned"
  <2>1. /\ Opened' = Opened
        /\ \A id \in Opened \ {Identity(p)} : record'[id] = record[id]
        /\ record'[Identity(p)].owner = record[Identity(p)].owner
        /\ record'[Identity(p)].sent = record[Identity(p)].sent
        /\ record[Identity(p)].stage = "closed" => record'[Identity(p)] = record[Identity(p)]
    BY <1>3, <1>10, Closes
  <2>2. pc'[record[Identity(p)].owner] \in Ended
    <3>1. CASE record[Identity(p)].owner = p
      BY <1>7, <1>10, <3>1
    <3>2. CASE record[Identity(p)].owner # p
      BY <1>1, <1>5, <1>7, <1>10, <3>2 DEF OwnersInv, HoldInv, OwnerInv
    <3>. QED
      BY <3>1, <3>2
  <2>3. ASSUME NEW id \in Opened PROVE OwnerInv(id)' /\ Owned(id)
    <3>1. CASE id = Identity(p)
      BY <1>10, <2>1, <2>2, <3>1 DEF OwnerInv, Owned
    <3>2. CASE id # Identity(p)
      BY <1>1, <1>5, <1>7, <1>10, <2>1, <2>3, <3>2 DEF OwnerInv, Owned
    <3>. QED
      BY <3>1, <3>2
  <2>. QED
    BY <1>1, <1>6, <1>7, <1>10, <2>1, <2>3
<1>11. CASE Ask(p) /\ Identity(p) \in Opened
  <2>1. /\ Opened' = Opened
        /\ \A id \in Opened \ {Identity(p)} : record'[id] = record[id]
        /\ record'[Identity(p)].owner = record[Identity(p)].owner
        /\ record'[Identity(p)].stage = record[Identity(p)].stage
        /\ pc[p] = "reviewing" /\ pc' = pc
    BY <1>3, <1>11, Asks
  <2>2. pc[p] \in Working /\ pc[p] \in Holding /\ Identity(p)' = Identity(p)
        /\ record[Identity(p)].owner = p
    BY <1>4, <1>6, <1>7, <2>1 DEF Working
  <2>3. record[Identity(p)].stage = "open"
    BY <1>5, <1>7, <1>11, <2>2 DEF OwnerInv
  <2>4. ASSUME NEW id \in Opened PROVE OwnerInv(id)' /\ Owned(id)
    <3>1. CASE id = Identity(p)
      BY <1>11, <2>1, <2>2, <2>3, <3>1 DEF OwnerInv, Owned
    <3>2. CASE id # Identity(p)
      BY <1>1, <1>5, <2>1, <2>2, <2>4, <3>2 DEF OwnerInv, Owned
    <3>. QED
      BY <3>1, <3>2
  <2>. QED
    BY <1>1, <1>6, <2>1, <2>2, <2>4
<1>. QED
  BY <1>4, <1>8, <1>9, <1>10, <1>11

(* For any number of commands at once, and whatever is pushed, edited or   *)
(* killed meanwhile: each package has one run whose reviewers are sent its *)
(* source, the one that made its record; nobody closes the record under    *)
(* that run, and nothing changes it after.                                 *)
THEOREM RecordsHaveOwners == Spec => RecordsAreOwned
<1>1. Init => OwnersInv
  BY DEF Init, OwnersInv, HoldInv, Opened, Holding, Working
<1>2. ASSUME InvocationInv, OwnersInv, [Next]_vars
      PROVE  OwnersInv' /\ [\A id \in Opened : Owned(id)]_vars
  <2>1. CASE UNCHANGED <<run, record>>
    <3>1. UNCHANGED <<pc, command, shas, configuration, record>>
      BY <2>1 DEF run
    <3>2. \A q : Identity(q)' = Identity(q)
      BY <3>1 DEF Identity, Made
    <3>3. OwnersInv'
      BY <1>2, <3>1, <3>2 DEF OwnersInv, HoldInv, OwnerInv, Opened
    <3>4. \A id \in Opened : Owned(id)
      BY <3>1 DEF Owned, Opened
    <3>. QED
      BY <3>3, <3>4
  <2>2. CASE \E p \in Runs : Step(p) \/ Fault(p)
    BY <1>2, <2>2, OwnersStep
  <2>3. Others => UNCHANGED <<run, record>>
    BY DEF Others, Edit, run
  <2>. QED
    BY <1>2, <2>1, <2>2, <2>3 DEF Next, vars
<1>. QED
  BY <1>1, <1>2, InvocationInvariance, PTL DEF Spec, RecordsAreOwned

=============================================================================
