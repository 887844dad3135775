--------------------------- MODULE Normalization ---------------------------
(***************************************************************************)
(* domain/normalization.py: normalize_findings places the material         *)
(* findings of a first pass, one after the other, into clusters that       *)
(* plausibly describe one defect, and derives each group's identity from   *)
(* its members.  A finding joins the first cluster with a member it        *)
(* matches; matching is overlap, which is not transitive, so what a        *)
(* finding meets depends on what came before.                              *)
(*                                                                         *)
(* Every finding here cites evidence (Finding rejects a material one that  *)
(* does not) and belongs to the package under review.  A title stands for  *)
(* its case-folded form, and sha256 for itself: an injection.              *)
(***************************************************************************)
EXTENDS Integers, Sequences, FiniteSetsExt

CONSTANTS Titles, Paths,
          MaxLine,       \* bound: line numbers cited
          MaxFindings    \* bound: findings of one first pass

ASSUME LineAssumption == MaxLine \in Nat /\ MaxFindings \in Nat

(* A finding, by its title and its primary citation.                       *)
Finding == {f \in [title : Titles, path : Paths, lo : 1..MaxLine, hi : 1..MaxLine] :
              f.lo <= f.hi}

VARIABLES findings,   \* the material findings, in role order
          home,       \* home[i]: the place in `clusters` of the i-th finding's cluster
          count       \* the length of `clusters`

vars == <<findings, home, count>>

TypeOK == /\ findings \in Seq(Finding)
          /\ home \in Seq(1..count)
          /\ Len(home) <= Len(findings)
          /\ count \in Nat

Init == /\ findings \in UNION {[1..n -> Finding] : n \in 0..MaxFindings}
        /\ home = <<>>
        /\ count = 0

(* Mutant of SameDefect: half of the overlap test.                         *)
SameDefectHalf(f, g) == f.title = g.title /\ f.path = g.path /\ f.lo <= g.hi

SameDefect(f, g) == /\ f.title = g.title
                    /\ f.path = g.path
                    /\ f.lo <= g.hi
                    /\ g.lo <= f.hi

Members(c) == {i \in 1..Len(home) : home[i] = c}

(* The clusters with a member the next finding matches.                    *)
Matching == {c \in 1..count :
               \E i \in Members(c) : SameDefect(findings[Len(home) + 1], findings[i])}

Join == /\ Len(home) < Len(findings)
        /\ Matching # {}
        /\ home' = Append(home, Min(Matching))
        /\ UNCHANGED <<findings, count>>

(* Mutants of Found: the new cluster is not kept; a finding founds one     *)
(* although it matches another.                                            *)
FoundUncounted == /\ Len(home) < Len(findings)
                  /\ Matching = {}
                  /\ home' = Append(home, count + 1)
                  /\ UNCHANGED <<findings, count>>

FoundAlways == /\ Len(home) < Len(findings)
               /\ home' = Append(home, count + 1)
               /\ count' = count + 1
               /\ UNCHANGED findings

Found == /\ Len(home) < Len(findings)
         /\ Matching = {}
         /\ home' = Append(home, count + 1)
         /\ count' = count + 1
         /\ UNCHANGED findings

Next == Join \/ Found

Spec == Init /\ [][Next]_vars

Done == Len(home) = Len(findings)

(* Mutant of Identity: the title is left out.                              *)
IdentityOfPlace(c) ==
  [title |-> "",
   path  |-> findings[Min(Members(c))].path,
   start |-> Min({findings[i].lo : i \in Members(c)}),
   end   |-> Max({findings[i].hi : i \in Members(c)})]

(* _cluster_identity: what the group's id is the hash of.                  *)
Identity(c) ==
  LET first == findings[Min(Members(c))]
  IN  [title |-> first.title,
       path  |-> first.path,
       start |-> Min({findings[i].lo : i \in Members(c)}),
       end   |-> Max({findings[i].hi : i \in Members(c)})]

-----------------------------------------------------------------------------
(* Two groups never share an id, so a decision names one group: execute_   *)
(* plan tells groups apart by id only.                                     *)
IdsAreDistinct == \A c, d \in 1..count : Identity(c) = Identity(d) => c = d

(* A group's id spans no line that none of its members cites, and its      *)
(* title and path are every member's.                                      *)
SpanIsCited ==
  \A c \in 1..count :
     /\ \A line \in Identity(c).start .. Identity(c).end :
           \E i \in Members(c) : line \in findings[i].lo .. findings[i].hi
     /\ \A i \in Members(c) : /\ findings[i].title = Identity(c).title
                              /\ findings[i].path = Identity(c).path

(* Where overlap happens to be transitive the groups are its classes: no   *)
(* defect is split in two and no two defects are merged.                   *)
OverlapIsTransitive ==
  \A i, j, k \in 1..Len(findings) :
     SameDefect(findings[i], findings[j]) /\ SameDefect(findings[j], findings[k])
       => SameDefect(findings[i], findings[k])

GroupsAreDefects ==
  Done /\ OverlapIsTransitive =>
     \A i, j \in 1..Len(findings) :
        home[i] = home[j] <=> SameDefect(findings[i], findings[j])

-----------------------------------------------------------------------------
(* Why: the parts of an inductive invariant.                               *)
IsFirst(c, i) == i \in Members(c) /\ \A j \in Members(c) : i <= j

(* Every cluster has a first member, a lowest and a highest line.          *)
EndsInv ==
  \A c \in 1..count :
     /\ \E i \in Members(c) : IsFirst(c, i)
     /\ \E i \in Members(c) : \A j \in Members(c) : findings[i].lo <= findings[j].lo
     /\ \E i \in Members(c) : \A j \in Members(c) : findings[j].hi <= findings[i].hi

(* No member of a later cluster matches the finding that founded an        *)
(* earlier one: it would have joined that one.                             *)
ApartInv ==
  \A c, d \in 1..count :
     c < d => \A i \in Members(c), j \in Members(d) :
                 IsFirst(c, i) => ~SameDefect(findings[j], findings[i])

(* The citations of a cluster leave no gap, under one title and path.      *)
WholeInv ==
  \A c \in 1..count : \A i, j \in Members(c) :
     /\ findings[i].title = findings[j].title
     /\ findings[i].path = findings[j].path
     /\ \A line \in findings[i].lo .. findings[j].hi :
           \E k \in Members(c) : line \in findings[k].lo .. findings[k].hi

(* The placed findings are grouped as defects wherever overlap is.         *)
ClassInv ==
  OverlapIsTransitive =>
     \A i, j \in 1..Len(home) :
        home[i] = home[j] <=> SameDefect(findings[i], findings[j])

NormalizationInv == TypeOK /\ EndsInv /\ ApartInv /\ WholeInv /\ ClassInv
=============================================================================
