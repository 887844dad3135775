------------------------ MODULE NormalizationProofs ------------------------
(***************************************************************************)
(* Theorems about normalize_findings, for any findings: the groups' ids    *)
(* are distinct, span only cited lines, and are the defects themselves     *)
(* where overlap is transitive.                                            *)
(***************************************************************************)
EXTENDS Normalization, TLAPS, SequenceTheorems, WellFoundedInduction

(* What Min and Max choose.                                                *)
LEMMA MinIsLeast ==
  ASSUME NEW S, NEW x \in S, \A y \in S : x <= y PROVE Min(S) \in S /\ \A y \in S : Min(S) <= y
BY DEF Min

LEMMA MaxIsGreatest ==
  ASSUME NEW S, NEW x \in S, \A y \in S : x >= y PROVE Max(S) \in S /\ \A y \in S : Max(S) >= y
BY DEF Max

LEMMA LeastIsMin ==
  ASSUME NEW S, NEW x \in S, x \in Int, \A y \in S : x <= y /\ y \in Int PROVE Min(S) = x
<1>1. PICK m \in S : m = Min(S) /\ \A y \in S : m <= y
  BY MinIsLeast
<1>2. m = x
  BY <1>1
<1>. QED
  BY <1>1, <1>2, Zenon

LEMMA GreatestIsMax ==
  ASSUME NEW S, NEW x \in S, x \in Int, \A y \in S : x >= y /\ y \in Int PROVE Max(S) = x
<1>1. PICK m \in S : m = Max(S) /\ \A y \in S : m >= y
  BY MaxIsGreatest
<1>2. m = x
  BY <1>1
<1>. QED
  BY <1>1, <1>2, Zenon

LEMMA InitInv == Init => NormalizationInv
<1>. SUFFICES ASSUME Init PROVE NormalizationInv
  OBVIOUS
<1>1. PICK n \in 0..MaxFindings : findings \in [1..n -> Finding]
  BY DEF Init
<1>2. n \in Nat
  BY LineAssumption
<1>3. findings \in Seq(Finding)
  BY <1>1, <1>2, SeqDef
<1>4. home = <<>> /\ count = 0 /\ Len(home) = 0
  BY DEF Init
<1>5. TypeOK
  BY <1>3, <1>4 DEF TypeOK
<1>. QED
  BY <1>4, <1>5 DEF NormalizationInv, EndsInv, ApartInv, WholeInv, ClassInv

(* The findings already placed, and the one about to be.                   *)
LEMMA Placed ==
  ASSUME TypeOK, Len(home) < Len(findings)
  PROVE  /\ Len(home) \in Nat /\ count \in Nat
         /\ \A i \in 1..Len(home) + 1 : findings[i] \in Finding
         /\ \A i \in 1..Len(home) : home[i] \in 1..count
BY DEF TypeOK

LEMMA SameDefectIsSymmetric ==
  ASSUME NEW f \in Finding, NEW g \in Finding
  PROVE  /\ SameDefect(f, g) <=> SameDefect(g, f)
         /\ SameDefect(f, f)
         /\ f.lo \in Int /\ f.hi \in Int /\ f.lo <= f.hi
BY LineAssumption DEF SameDefect, Finding

(* What appending to home does to the clusters.                            *)
LEMMA MembersAfter ==
  ASSUME TypeOK, NEW c \in Nat, home' = Append(home, c)
  PROVE  /\ Len(home') = Len(home) + 1
         /\ \A i \in 1..Len(home) : home'[i] = home[i]
         /\ home'[Len(home) + 1] = c
         /\ \A d : d # c => Members(d)' = Members(d)
         /\ Members(c)' = Members(c) \cup {Len(home) + 1}
<1>1. Len(home) \in Nat /\ Len(home') = Len(home) + 1
      /\ \A i \in 1..Len(home') : home'[i] = IF i = Len(home') THEN c ELSE home[i]
  BY DEF TypeOK
<1>. QED
  BY <1>1 DEF Members

LEMMA LeastExists ==
  ASSUME NEW S \in SUBSET Nat, S # {} PROVE \E x \in S : \A y \in S : x <= y
<1>1. PICK x \in S : \A y \in S : ~(<<y, x>> \in OpToRel(<, Nat))
  BY NatLessThanWellFounded, WFMin
<1>2. \A y \in S : ~(y < x)
  BY <1>1 DEF OpToRel
<1>. QED
  BY <1>2

(* The one cluster a step touches: an old one that the finding matches, or *)
(* a new one; either way no earlier cluster matches it.                    *)
PlacedIn(c) == /\ Len(home) < Len(findings)
               /\ home' = Append(home, c)
               /\ findings' = findings
               /\ count' \in Nat /\ count <= count'
               /\ c \in 1..count' /\ 1..count' = 1..count \cup {c}
               /\ \/ c \in Matching
                  \/ c = count + 1 /\ Members(c) = {}
               /\ \A d \in Matching : c <= d

LEMMA StepPlaces ==
  ASSUME TypeOK, Join \/ Found PROVE \E c \in Nat : PlacedIn(c)
<1>0. count \in Nat /\ Len(home) < Len(findings)
  BY DEF TypeOK, Join, Found
<1>1. CASE Join
  <2>1. Matching \in SUBSET Nat /\ Matching # {} /\ Matching \subseteq 1..count
    BY <1>0, <1>1 DEF Matching, Join
  <2>2. PICK c \in Matching : c = Min(Matching) /\ \A d \in Matching : c <= d
    BY <2>1, LeastExists, MinIsLeast
  <2>3. PlacedIn(c)
    BY <1>0, <1>1, <2>1, <2>2 DEF PlacedIn, Join
  <2>. QED
    BY <2>1, <2>2, <2>3
<1>2. CASE Found
  <2>1. Members(count + 1) = {}
    BY <1>0, Placed DEF Members
  <2>2. PlacedIn(count + 1)
    BY <1>0, <1>2, <2>1 DEF PlacedIn, Found
  <2>. QED
    BY <1>0, <2>2
<1>. QED
  BY <1>1, <1>2

(* The facts the cases below share.                                        *)
LEMMA PlacedFacts ==
  ASSUME TypeOK, NEW c \in Nat, PlacedIn(c), NEW k, k = Len(home) + 1
  PROVE  /\ k \in Nat /\ k \notin Members(c)
         /\ \A d : \A i \in Members(d) : i \in Nat /\ i < k
         /\ \A d : d # c => Members(d)' = Members(d)
         /\ Members(c)' = Members(c) \cup {k}
         /\ \A d : \A i \in Members(d)' : findings[i] \in Finding
         /\ \A d : \A i \in Members(d) : findings[i] \in Finding
         /\ findings[k] \in Finding
         /\ Members(c) # {} => \E g \in Members(c) : SameDefect(findings[k], findings[g])
         /\ \A d \in 1..count : d < c =>
               \A i \in Members(d) : ~SameDefect(findings[k], findings[i])
<1>1. Len(home) \in Nat /\ count \in Nat
  BY Placed DEF PlacedIn
<1>2. \A d : d # c => Members(d)' = Members(d)
  BY MembersAfter DEF PlacedIn
<1>3. Members(c)' = Members(c) \cup {k}
  BY MembersAfter DEF PlacedIn
<1>4. \A d : \A i \in Members(d) : i \in 1..Len(home)
  BY DEF Members
<1>5. \A i \in 1..k : findings[i] \in Finding
  BY Placed DEF PlacedIn
<1>6. \A d : \A i \in Members(d)' : i \in 1..k
  BY <1>1, <1>2, <1>3, <1>4
<1>7. Members(c) # {} => c \in Matching
  BY DEF PlacedIn
<1>8. \A d \in 1..count : d < c => d \notin Matching
  BY <1>1 DEF PlacedIn
<1>9. \A d \in 1..count : d \in Matching <=>
         \E i \in Members(d) : SameDefect(findings[k], findings[i])
  BY DEF Matching
<1>10. c \in Matching => \E g \in Members(c) : SameDefect(findings[k], findings[g])
  BY DEF Matching
<1>. QED
  BY <1>1, <1>2, <1>3, <1>4, <1>5, <1>6, <1>7, <1>8, <1>9, <1>10

-----------------------------------------------------------------------------
(* One finding more keeps each part of the invariant.                      *)
LEMMA TypeKept ==
  ASSUME TypeOK, NEW c \in Nat, PlacedIn(c) PROVE TypeOK'
<1>1. home' \in Seq(1..count') /\ Len(home') = Len(home) + 1
  <2>1. home \in Seq(1..count') /\ c \in 1..count'
    BY SeqDef DEF TypeOK, PlacedIn
  <2>. QED
    BY <2>1 DEF PlacedIn
<1>. QED
  BY <1>1 DEF TypeOK, PlacedIn

LEMMA EndsKept ==
  ASSUME TypeOK, EndsInv, NEW c \in Nat, PlacedIn(c) PROVE EndsInv'
<1>. DEFINE k == Len(home) + 1
<1>0. /\ count \in Nat /\ findings' = findings /\ 1..count' = 1..count \cup {c}
      /\ c \in 1..count \/ Members(c) = {}
  BY DEF PlacedIn, TypeOK, Matching
<1>1. ASSUME NEW d \in 1..count', d # c
      PROVE  /\ (\E i \in Members(d) : IsFirst(d, i))'
             /\ (\E i \in Members(d) : \A j \in Members(d) : findings[i].lo <= findings[j].lo)'
             /\ (\E i \in Members(d) : \A j \in Members(d) : findings[j].hi <= findings[i].hi)'
  <2>1. d \in 1..count /\ Members(d)' = Members(d)
    BY <1>0, <1>1, PlacedFacts
  <2>. QED
    BY <1>0, <2>1 DEF EndsInv, IsFirst
<1>2. (\E i \in Members(c) : IsFirst(c, i))'
  <2>1. CASE Members(c) = {}
    BY <2>1, PlacedFacts DEF IsFirst
  <2>2. CASE Members(c) # {}
    <3>1. PICK i \in Members(c) : IsFirst(c, i)
      BY <1>0, <2>2 DEF EndsInv
    <3>. QED
      BY <3>1, PlacedFacts DEF IsFirst
  <2>. QED
    BY <2>1, <2>2
<1>3. \A i \in Members(c)' : findings[i].lo \in Int /\ findings[i].hi \in Int
  BY PlacedFacts, SameDefectIsSymmetric
<1>4. Members(c)' = Members(c) \cup {k}
  BY PlacedFacts
<1>5. \E i \in Members(c)' : \A j \in Members(c)' : findings[i].lo <= findings[j].lo
  <2>1. CASE Members(c) = {}
    BY <2>1, <1>3, <1>4
  <2>2. CASE Members(c) # {}
    <3>1. PICK i \in Members(c) : \A j \in Members(c) : findings[i].lo <= findings[j].lo
      BY <1>0, <2>2 DEF EndsInv
    <3>2. CASE findings[i].lo <= findings[k].lo
      BY <3>1, <3>2, <1>3, <1>4
    <3>3. CASE ~(findings[i].lo <= findings[k].lo)
      BY <3>1, <3>3, <1>3, <1>4
    <3>. QED
      BY <3>2, <3>3
  <2>. QED
    BY <2>1, <2>2
<1>6. \E i \in Members(c)' : \A j \in Members(c)' : findings[j].hi <= findings[i].hi
  <2>1. CASE Members(c) = {}
    BY <2>1, <1>3, <1>4
  <2>2. CASE Members(c) # {}
    <3>1. PICK i \in Members(c) : \A j \in Members(c) : findings[j].hi <= findings[i].hi
      BY <1>0, <2>2 DEF EndsInv
    <3>2. CASE findings[k].hi <= findings[i].hi
      BY <3>1, <3>2, <1>3, <1>4
    <3>3. CASE ~(findings[k].hi <= findings[i].hi)
      BY <3>1, <3>3, <1>3, <1>4
    <3>. QED
      BY <3>2, <3>3
  <2>. QED
    BY <2>1, <2>2
<1>. QED
  BY <1>0, <1>1, <1>2, <1>5, <1>6 DEF EndsInv

LEMMA ApartKept ==
  ASSUME TypeOK, ApartInv, NEW c \in Nat, PlacedIn(c) PROVE ApartInv'
<1>. DEFINE k == Len(home) + 1
<1>0. /\ count \in Nat /\ findings' = findings /\ 1..count' = 1..count \cup {c}
      /\ c \in 1..count \/ (c = count + 1 /\ Members(c) = {})
  BY DEF PlacedIn, TypeOK, Matching
<1>. SUFFICES ASSUME NEW b \in 1..count', NEW d \in 1..count', b < d,
                     NEW i \in Members(b)', NEW j \in Members(d)', IsFirst(b, i)'
              PROVE  ~SameDefect(findings[j], findings[i])
  BY <1>0 DEF ApartInv, SameDefect
<1>1. b \in 1..count
  BY <1>0
<1>2. i \in Members(b) /\ IsFirst(b, i)
  <2>1. CASE b # c
    BY <2>1, PlacedFacts DEF IsFirst
  <2>2. CASE b = c
    <3>1. Members(c) # {}
      BY <1>0, <1>1, <2>2 DEF PlacedIn, Matching
    <3>. QED
      BY <3>1, <2>2, PlacedFacts DEF IsFirst
  <2>. QED
    BY <2>1, <2>2
<1>3. CASE j \in Members(d)
  <2>1. d \in 1..count
    BY <1>0, <1>3
  <2>. QED
    BY <1>1, <1>2, <1>3, <2>1 DEF ApartInv
<1>4. CASE j \notin Members(d)
  <2>1. d = c /\ j = k
    BY <1>4, PlacedFacts
  <2>. QED
    BY <1>1, <1>2, <2>1, PlacedFacts
<1>. QED
  BY <1>3, <1>4

LEMMA WholeKept ==
  ASSUME TypeOK, WholeInv, NEW c \in Nat, PlacedIn(c) PROVE WholeInv'
<1>. DEFINE k == Len(home) + 1
            Spanned(i, j, S) ==
              \A line \in findings[i].lo .. findings[j].hi :
                 \E n \in S : line \in findings[n].lo .. findings[n].hi
            Alike(i, j) == /\ findings[i].title = findings[j].title
                           /\ findings[i].path = findings[j].path
<1>0. /\ findings' = findings /\ 1..count' = 1..count \cup {c}
      /\ c \in 1..count \/ Members(c) = {}
  BY DEF PlacedIn, Matching
<1>1. \A d \in 1..count : \A i, j \in Members(d) : Alike(i, j) /\ Spanned(i, j, Members(d))
  BY DEF WholeInv
<1>2. \A i \in Members(c)' : /\ findings[i].lo \in Int /\ findings[i].hi \in Int
                             /\ findings[i].lo <= findings[i].hi
  BY PlacedFacts, SameDefectIsSymmetric
<1>3. Members(c)' = Members(c) \cup {k}
  BY PlacedFacts
<1>4. ASSUME NEW i \in Members(c)', NEW j \in Members(c)'
      PROVE  Alike(i, j) /\ Spanned(i, j, Members(c)')
  <2>1. CASE Members(c) = {}
    BY <2>1, <1>3
  <2>2. CASE Members(c) # {}
    <3>1. PICK g \in Members(c) : SameDefect(findings[k], findings[g])
      BY <2>2, PlacedFacts
    <3>2. c \in 1..count /\ Alike(k, g) /\ findings[k].lo <= findings[g].hi
          /\ findings[g].lo <= findings[k].hi
      BY <1>0, <2>2, <3>1 DEF SameDefect
    <3>3. \A n \in Members(c) : Alike(n, g) /\ Alike(g, n)
      BY <1>1, <3>2
    <3>4. Alike(i, j)
      BY <1>3, <3>2, <3>3
    <3>5. CASE i \in Members(c) /\ j \in Members(c)
      BY <1>1, <1>3, <3>2, <3>4, <3>5
    <3>6. CASE i = k /\ j = k
      BY <1>3, <3>4, <3>6
    <3>7. CASE i = k /\ j \in Members(c)
      <4>1. Spanned(g, j, Members(c))
        BY <1>1, <3>2, <3>7
      <4>2. ASSUME NEW line \in findings[i].lo .. findings[j].hi
            PROVE  \E n \in Members(c)' : line \in findings[n].lo .. findings[n].hi
        <5>1. CASE line <= findings[k].hi
          BY <1>2, <1>3, <3>7, <5>1
        <5>2. CASE ~(line <= findings[k].hi)
          <6>1. line \in findings[g].lo .. findings[j].hi
            BY <1>2, <1>3, <3>2, <3>7, <5>2
          <6>. QED
            BY <4>1, <6>1, <1>3
        <5>. QED
          BY <5>1, <5>2
      <4>. QED
        BY <3>4, <4>2
    <3>8. CASE i \in Members(c) /\ j = k
      <4>1. Spanned(i, g, Members(c))
        BY <1>1, <3>2, <3>8
      <4>2. ASSUME NEW line \in findings[i].lo .. findings[j].hi
            PROVE  \E n \in Members(c)' : line \in findings[n].lo .. findings[n].hi
        <5>1. CASE findings[k].lo <= line
          BY <1>2, <1>3, <3>8, <5>1
        <5>2. CASE ~(findings[k].lo <= line)
          <6>1. line \in findings[i].lo .. findings[g].hi
            BY <1>2, <1>3, <3>2, <3>8, <5>2
          <6>. QED
            BY <4>1, <6>1, <1>3
        <5>. QED
          BY <5>1, <5>2
      <4>. QED
        BY <3>4, <4>2
    <3>. QED
      BY <1>3, <3>5, <3>6, <3>7, <3>8
  <2>. QED
    BY <2>1, <2>2
<1>5. ASSUME NEW d \in 1..count', d # c, NEW i \in Members(d)', NEW j \in Members(d)'
      PROVE  Alike(i, j) /\ Spanned(i, j, Members(d)')
  <2>1. d \in 1..count /\ Members(d)' = Members(d)
    BY <1>0, <1>5, PlacedFacts
  <2>. QED
    BY <1>1, <2>1
<1>6. ASSUME NEW d \in 1..count', NEW i \in Members(d)', NEW j \in Members(d)'
      PROVE  Alike(i, j) /\ Spanned(i, j, Members(d)')
  BY <1>4, <1>5
<1>. QED
  BY <1>0, <1>6 DEF WholeInv

LEMMA ClassKept ==
  ASSUME TypeOK, ClassInv, NEW c \in Nat, PlacedIn(c) PROVE ClassInv'
<1>. DEFINE k == Len(home) + 1
<1>0. /\ findings' = findings /\ Len(home) \in Nat /\ count \in Nat
      /\ Len(home') = k /\ home'[k] = c /\ k <= Len(findings)
      /\ \A i \in 1..Len(home) : home'[i] = home[i]
      /\ c \in Matching \/ c = count + 1
      /\ \A d \in Matching : c <= d
  BY MembersAfter, Placed DEF PlacedIn
<1>. SUFFICES ASSUME OverlapIsTransitive, NEW i \in 1..k, NEW j \in 1..k
              PROVE  home'[i] = home'[j] <=> SameDefect(findings[i], findings[j])
  BY <1>0 DEF ClassInv, OverlapIsTransitive, SameDefect
<1>1. \A m \in 1..k : findings[m] \in Finding
  BY <1>0, Placed
<1>2. \A m, n \in 1..k : SameDefect(findings[m], findings[n]) => SameDefect(findings[n], findings[m])
  BY <1>1, SameDefectIsSymmetric
<1>3. \A l, m, n \in 1..k :
        SameDefect(findings[l], findings[m]) /\ SameDefect(findings[m], findings[n])
          => SameDefect(findings[l], findings[n])
  <2>1. Len(findings) \in Nat
    BY DEF TypeOK
  <2>2. \A m \in 1..k : m \in 1..Len(findings)
    BY <1>0, <2>1
  <2>. QED
    BY <2>2 DEF OverlapIsTransitive
<1>4. \A m, n \in 1..Len(home) : home[m] = home[n] <=> SameDefect(findings[m], findings[n])
  BY DEF ClassInv
<1>5. ASSUME NEW m \in 1..Len(home)
      PROVE  home[m] = c <=> SameDefect(findings[k], findings[m])
  <2>1. ASSUME home[m] = c PROVE SameDefect(findings[k], findings[m])
    <3>1. m \in Members(c)
      BY <2>1 DEF Members
    <3>2. PICK g \in Members(c) : SameDefect(findings[k], findings[g])
      BY <3>1, PlacedFacts
    <3>3. g \in 1..Len(home) /\ home[g] = c
      BY DEF Members
    <3>. QED
      BY <1>0, <1>3, <1>4, <2>1, <3>2, <3>3
  <2>2. ASSUME SameDefect(findings[k], findings[m]) PROVE home[m] = c
    <3>1. home[m] \in 1..count /\ m \in Members(home[m])
      BY Placed DEF Members, PlacedIn
    <3>2. home[m] \in Matching
      BY <2>2, <3>1 DEF Matching
    <3>3. c <= home[m] /\ c \in Matching
      BY <1>0, <3>1, <3>2
    <3>4. PICK g \in Members(c) : SameDefect(findings[k], findings[g])
      BY <3>3 DEF Matching
    <3>5. g \in 1..Len(home) /\ home[g] = c
      BY DEF Members
    <3>6. SameDefect(findings[g], findings[m])
      BY <1>0, <1>2, <1>3, <2>2, <3>4, <3>5
    <3>. QED
      BY <1>4, <3>5, <3>6
  <2>. QED
    BY <2>1, <2>2
<1>6. SameDefect(findings[k], findings[k])
  BY <1>0, <1>1, SameDefectIsSymmetric
<1>7. CASE i \in 1..Len(home) /\ j \in 1..Len(home)
  BY <1>0, <1>4, <1>7
<1>8. CASE i = k /\ j \in 1..Len(home)
  BY <1>0, <1>5, <1>8
<1>9. CASE i \in 1..Len(home) /\ j = k
  BY <1>0, <1>2, <1>5, <1>9
<1>10. CASE i = k /\ j = k
  BY <1>6, <1>10
<1>. QED
  BY <1>0, <1>7, <1>8, <1>9, <1>10

THEOREM NormalizationInvariance == Spec => []NormalizationInv
<1>1. NormalizationInv /\ [Next]_vars => NormalizationInv'
  <2>. SUFFICES ASSUME NormalizationInv, [Next]_vars PROVE NormalizationInv'
    OBVIOUS
  <2>1. CASE Next
    <3>1. PICK c \in Nat : PlacedIn(c)
      BY <2>1, StepPlaces DEF NormalizationInv, Next
    <3>. QED
      BY <3>1, TypeKept, EndsKept, ApartKept, WholeKept, ClassKept DEF NormalizationInv
  <2>2. CASE UNCHANGED vars
    BY <2>2 DEF NormalizationInv, vars, TypeOK, EndsInv, ApartInv, WholeInv, ClassInv,
                IsFirst, Members, SameDefect, OverlapIsTransitive
  <2>. QED
    BY <2>1, <2>2
<1>. QED
  BY <1>1, InitInv, PTL DEF Spec

-----------------------------------------------------------------------------
(* What a group's identity is made of.                                     *)
LEMMA IdentityOf ==
  ASSUME TypeOK, EndsInv, NEW c \in 1..count
  PROVE  \E f, l, h \in Members(c) :
            /\ IsFirst(c, f)
            /\ Identity(c).title = findings[f].title
            /\ Identity(c).path = findings[f].path
            /\ Identity(c).start = findings[l].lo
            /\ Identity(c).end = findings[h].hi
            /\ \A j \in Members(c) : findings[l].lo <= findings[j].lo
            /\ \A j \in Members(c) : findings[j].hi <= findings[h].hi
<1>. DEFINE los == {findings[i].lo : i \in Members(c)}
            his == {findings[i].hi : i \in Members(c)}
<1>1. PICK f \in Members(c) : IsFirst(c, f)
  BY DEF EndsInv
<1>2. PICK l \in Members(c) : \A j \in Members(c) : findings[l].lo <= findings[j].lo
  BY DEF EndsInv
<1>3. PICK h \in Members(c) : \A j \in Members(c) : findings[j].hi <= findings[h].hi
  BY DEF EndsInv
<1>4. \A i \in Members(c) : i \in Nat /\ findings[i].lo \in Int /\ findings[i].hi \in Int
  BY SameDefectIsSymmetric DEF Members, TypeOK
<1>5. Min(Members(c)) = f
  <2>1. Min(Members(c)) \in Members(c) /\ \A j \in Members(c) : Min(Members(c)) <= j
    BY <1>1, MinIsLeast DEF IsFirst
  <2>. QED
    BY <1>1, <1>4, <2>1 DEF IsFirst
<1>6. Min(los) = findings[l].lo
  <2>1. findings[l].lo \in los /\ \A y \in los : findings[l].lo <= y /\ y \in Int
    BY <1>2, <1>4
  <2>. HIDE DEF los
  <2>. QED
    BY <2>1, LeastIsMin, Zenon
<1>7. Max(his) = findings[h].hi
  <2>1. findings[h].hi \in his /\ \A y \in his : findings[h].hi >= y /\ y \in Int
    BY <1>3, <1>4
  <2>. HIDE DEF his
  <2>. QED
    BY <2>1, GreatestIsMax, Zenon
<1>8. /\ Identity(c).title = findings[f].title
      /\ Identity(c).path = findings[f].path
      /\ Identity(c).start = findings[l].lo
      /\ Identity(c).end = findings[h].hi
  BY <1>5, <1>6, <1>7 DEF Identity
<1>. QED
  BY <1>1, <1>2, <1>3, <1>8

LEMMA SpanCited == NormalizationInv => SpanIsCited
<1>. SUFFICES ASSUME NormalizationInv, NEW c \in 1..count
              PROVE  /\ \A line \in Identity(c).start .. Identity(c).end :
                           \E i \in Members(c) : line \in findings[i].lo .. findings[i].hi
                     /\ \A i \in Members(c) : /\ findings[i].title = Identity(c).title
                                              /\ findings[i].path = Identity(c).path
  BY DEF SpanIsCited
<1>1. PICK f, l, h \in Members(c) : /\ Identity(c).title = findings[f].title
                                    /\ Identity(c).path = findings[f].path
                                    /\ Identity(c).start = findings[l].lo
                                    /\ Identity(c).end = findings[h].hi
  BY IdentityOf DEF NormalizationInv
<1>. QED
  BY <1>1 DEF NormalizationInv, WholeInv

LEMMA NoSharedId ==
  ASSUME NormalizationInv, NEW c \in 1..count, NEW d \in 1..count, c < d
  PROVE  Identity(c) # Identity(d)
<1>. SUFFICES ASSUME Identity(c) = Identity(d) PROVE FALSE
  OBVIOUS
<1>1. PICK f, l, h \in Members(c) :
         /\ IsFirst(c, f)
         /\ Identity(c).title = findings[f].title
         /\ Identity(c).path = findings[f].path
         /\ Identity(c).start = findings[l].lo
         /\ Identity(c).end = findings[h].hi
         /\ findings[l].lo <= findings[f].lo
         /\ findings[f].hi <= findings[h].hi
  BY IdentityOf DEF NormalizationInv
<1>2. \A i : i \in Members(c) \/ i \in Members(d) =>
         /\ findings[i] \in Finding
         /\ findings[i].lo \in Int /\ findings[i].hi \in Int
         /\ findings[i].lo <= findings[i].hi
  BY SameDefectIsSymmetric DEF NormalizationInv, TypeOK, Members
<1>3. findings[f].lo \in Identity(c).start .. Identity(c).end
  BY <1>1, <1>2
<1>4. PICK j \in Members(d) : findings[f].lo \in findings[j].lo .. findings[j].hi
  BY <1>3, SpanCited DEF SpanIsCited
<1>5. findings[j].title = findings[f].title /\ findings[j].path = findings[f].path
  BY <1>1, SpanCited DEF SpanIsCited
<1>6. SameDefect(findings[j], findings[f])
  BY <1>2, <1>4, <1>5 DEF SameDefect
<1>. QED
  BY <1>1, <1>6 DEF NormalizationInv, ApartInv

(* normalize_findings places every finding in a cluster there is.          *)
THEOREM PlacesAreClusters == Spec => []TypeOK
<1>1. NormalizationInv => TypeOK
  BY DEF NormalizationInv
<1>. QED
  BY <1>1, NormalizationInvariance, PTL

(* Whatever a first pass finds and in whatever order: no two groups share  *)
(* an id, an id spans only lines that a member of its group cites, and     *)
(* where overlap is transitive the groups are the defects.                 *)
THEOREM GroupsAreSound == Spec => [](IdsAreDistinct /\ SpanIsCited /\ GroupsAreDefects)
<1>1. NormalizationInv => IdsAreDistinct
  <2>. SUFFICES ASSUME NormalizationInv, NEW c \in 1..count, NEW d \in 1..count,
                       Identity(c) = Identity(d), c # d
                PROVE  FALSE
    BY DEF IdsAreDistinct
  <2>1. CASE c < d
    BY <2>1, NoSharedId
  <2>2. CASE d < c
    BY <2>2, NoSharedId
  <2>. QED
    BY <2>1, <2>2
<1>2. NormalizationInv => GroupsAreDefects
  BY DEF NormalizationInv, ClassInv, GroupsAreDefects, Done
<1>. QED
  BY <1>1, <1>2, SpanCited, NormalizationInvariance, PTL
=============================================================================
