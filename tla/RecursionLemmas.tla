-------------------------- MODULE RecursionLemmas --------------------------
(***************************************************************************)
(* Facts about what recursive functions compute, for sequences of any      *)
(* length.  The library's induction theorems take a predicate as a         *)
(* parameter; here a predicate is the set of numbers that have it, whose   *)
(* complement, if it has a number, has a least one (WFMin).                *)
(***************************************************************************)
EXTENDS Integers, SequencesExt, SequenceTheorems, WellFoundedInduction, TLAPS

(* A set that has zero, and every number after one of its own, has all.    *)
LEMMA SetInduction ==
  ASSUME NEW S, 0 \in S, \A n \in Nat : n \in S => n + 1 \in S
  PROVE  Nat \subseteq S
<1>. DEFINE T == Nat \ S
<1>1. SUFFICES ASSUME T # {} PROVE FALSE
  OBVIOUS
<1>2. PICK m \in T : \A k \in T : <<k, m>> \notin OpToRel(<, Nat)
  BY <1>1, NatLessThanWellFounded, WFMin, Zenon
<1>3. m \in Nat /\ m \notin S /\ m # 0
  OBVIOUS
<1>4. m - 1 \in T
  BY <1>3
<1>5. m - 1 \in Nat /\ m - 1 < m
  BY <1>3
<1>6. <<m - 1, m>> \in OpToRel(<, Nat)
  BY <1>3, <1>5, Zenon DEF OpToRel
<1>. QED
  BY <1>2, <1>4, <1>6

-----------------------------------------------------------------------------
(* f is the recursion over 0..N that starts with base and goes on by step. *)
Solves(f, N, base, step) ==
  f[0] = base /\ \A n \in 1..N : f[n] = step[<<f[n - 1], n>>]

(* A recursion whose steps stay in V has a solution ...                    *)
LEMMA RecursionExists ==
  ASSUME NEW N \in Nat, NEW V, NEW base \in V, NEW step \in [V \X (1..N) -> V]
  PROVE  \E f \in [0..N -> V] : Solves(f, N, base, step)
<1>. DEFINE S == {m \in Nat : m <= N => \E f \in [0..m -> V] : Solves(f, m, base, step)}
<1>. USE DEF Solves
<1>1. 0 \in S
  <2>1. Solves([n \in 0..0 |-> base], 0, base, step)
    OBVIOUS
  <2>. QED
    BY <2>1
<1>2. ASSUME NEW m \in Nat, m \in S PROVE m + 1 \in S
  <2>. SUFFICES ASSUME m + 1 <= N
                PROVE \E f \in [0..(m + 1) -> V] : Solves(f, m + 1, base, step)
    OBVIOUS
  <2>1. PICK f \in [0..m -> V] : Solves(f, m, base, step)
    BY <1>2
  <2>. DEFINE h == [n \in 0..(m + 1) |-> IF n <= m THEN f[n] ELSE step[<<f[m], m + 1>>]]
  <2>2. step[<<f[m], m + 1>>] \in V
    OBVIOUS
  <2>3. h \in [0..(m + 1) -> V]
    BY <2>2
  <2>4. ASSUME NEW n \in 1..(m + 1) PROVE h[n] = step[<<h[n - 1], n>>]
    <3>1. CASE n <= m
      <4>1. f[n] = step[<<f[n - 1], n>>] /\ h[n] = f[n] /\ h[n - 1] = f[n - 1]
        BY <2>1, <3>1
      <4>. QED
        BY <4>1
    <3>2. CASE n = m + 1
      <4>1. h[m + 1] = step[<<f[m], m + 1>>] /\ h[n - 1] = f[m]
        BY <3>2
      <4>. QED
        BY <3>2, <4>1
    <3>. QED
      BY <3>1, <3>2
  <2>5. h[0] = base
    BY <2>1
  <2>. QED
    BY <2>3, <2>4, <2>5
<1>. HIDE DEF S
<1>3. N \in S
  BY <1>1, <1>2, SetInduction
<1>. QED
  BY <1>3 DEF S

(* ... and only one: f and g agree where one step keeps their agreement.   *)
Alike(f, g, lo, N) ==
  f[lo] = g[lo] /\ \A n \in (lo + 1)..N : f[n - 1] = g[n - 1] => f[n] = g[n]

LEMMA SolutionsAgree ==
  ASSUME NEW lo \in Nat, NEW N \in Nat, NEW f, NEW g, Alike(f, g, lo, N), NEW n \in lo..N
  PROVE  f[n] = g[n]
<1>. DEFINE S == {k \in Nat : lo + k <= N => f[lo + k] = g[lo + k]}
<1>1. 0 \in S
  BY DEF Alike
<1>2. ASSUME NEW k \in Nat, k \in S PROVE k + 1 \in S
  <2>. SUFFICES ASSUME lo + (k + 1) <= N PROVE f[lo + (k + 1)] = g[lo + (k + 1)]
    OBVIOUS
  <2>1. lo + (k + 1) \in (lo + 1)..N /\ (lo + (k + 1)) - 1 = lo + k /\ lo + k <= N
    OBVIOUS
  <2>2. f[lo + k] = g[lo + k]
    BY <1>2, <2>1
  <2>. QED
    BY <2>1, <2>2 DEF Alike
<1>. HIDE DEF S
<1>3. n - lo \in S /\ lo + (n - lo) = n /\ n <= N
  BY <1>1, <1>2, SetInduction
<1>. QED
  BY <1>3 DEF S

-----------------------------------------------------------------------------
(* g puts the pieces of seqs together one by one.                          *)
Flattens(g, seqs) ==
  /\ Len(seqs) \in Nat /\ (Len(seqs) = 0 => seqs = <<>>)
  /\ g[0] = <<>>
  /\ \A n \in 1..Len(seqs) : g[n] = g[n - 1] \o seqs[n]
  /\ Len(seqs) > 0 => g[1] = seqs[1]

LEMMA FlattenIs ==
  ASSUME NEW seqs, NEW g, Flattens(g, seqs)
  PROVE  FlattenSeq(seqs) = g[Len(seqs)]
<1>. USE DEF Flattens
<1>1. CASE Len(seqs) = 0
  BY <1>1 DEF FlattenSeq
<1>2. CASE Len(seqs) > 0
  <2>. DEFINE Eq(f) == f = [i \in 1..Len(seqs) |-> IF i = 1 THEN seqs[i] ELSE f[i - 1] \o seqs[i]]
              flatten == CHOOSE f : Eq(f)
  <2>1. FlattenSeq(seqs) = flatten[Len(seqs)]
    <3>1. Len(seqs) # 0
      BY <1>2
    <3>. QED
      BY <3>1 DEF FlattenSeq
  <2>2. Eq([i \in 1..Len(seqs) |-> g[i]])
    <3>. DEFINE h == [i \in 1..Len(seqs) |-> g[i]]
    <3>1. ASSUME NEW i \in 1..Len(seqs)
          PROVE  g[i] = IF i = 1 THEN seqs[i] ELSE h[i - 1] \o seqs[i]
      <4>1. CASE i = 1
        BY <1>2, <4>1
      <4>2. CASE i # 1
        <5>1. i \in 1..Len(seqs) /\ h[i - 1] = g[i - 1]
          BY <4>2
        <5>. QED
          BY <4>2, <5>1
      <4>. QED
        BY <4>1, <4>2
    <3>. QED
      BY <3>1, Zenon
  <2>3. Eq(flatten)
    BY <2>2
  <2>. HIDE DEF flatten
  <2>4. \A i \in 1..Len(seqs) : flatten[i] = IF i = 1 THEN seqs[i] ELSE flatten[i - 1] \o seqs[i]
    BY <2>3
  <2>5. ASSUME NEW n \in (1 + 1)..Len(seqs), flatten[n - 1] = g[n - 1] PROVE flatten[n] = g[n]
    <3>1. n \in 1..Len(seqs) /\ n # 1
      OBVIOUS
    <3>2. flatten[n] = flatten[n - 1] \o seqs[n] /\ g[n] = g[n - 1] \o seqs[n]
      BY <2>4, <3>1
    <3>. QED
      BY <2>5, <3>2
  <2>6. flatten[1] = g[1]
    BY <1>2, <2>4
  <2>7. Alike(flatten, g, 1, Len(seqs))
    BY <2>5, <2>6, Zenon DEF Alike
  <2>8. Len(seqs) \in Nat /\ 1 \in Nat /\ Len(seqs) \in 1..Len(seqs)
    BY <1>2
  <2>9. flatten[Len(seqs)] = g[Len(seqs)]
    BY ONLY <2>7, <2>8, SolutionsAgree
  <2>. QED
    BY <2>1, <2>9
<1>. QED
  BY <1>1, <1>2

LEMMA FlattenEmpty == FlattenSeq(<<>>) = <<>>
BY DEF FlattenSeq

LEMMA FlattenExists ==
  ASSUME NEW S, NEW seqs \in Seq(Seq(S))
  PROVE  \E g \in [0..Len(seqs) -> Seq(S)] : Flattens(g, seqs)
<1>. DEFINE V == Seq(S)
            N == Len(seqs)
            step == [vn \in V \X (1..N) |-> vn[1] \o seqs[vn[2]]]
<1>1. <<>> \in V /\ N \in Nat
  OBVIOUS
<1>2. ASSUME NEW v \in V, NEW n \in 1..N
      PROVE  v \o seqs[n] \in V /\ step[<<v, n>>] = v \o seqs[n]
  <2>1. seqs[n] \in Seq(S)
    OBVIOUS
  <2>2. v \o seqs[n] \in Seq(S)
    BY <2>1
  <2>. QED
    BY <2>2
<1>3. step \in [V \X (1..N) -> V]
  BY <1>2
<1>. HIDE DEF step, V, N
<1>4. PICK g \in [0..N -> V] : Solves(g, N, <<>>, step)
  BY <1>1, <1>3, RecursionExists, Zenon
<1>5. \A n \in 1..N : g[n - 1] \in V /\ g[n] = g[n - 1] \o seqs[n]
  <2>1. SUFFICES ASSUME NEW n \in 1..N
                 PROVE  g[n - 1] \in V /\ g[n] = g[n - 1] \o seqs[n]
    OBVIOUS
  <2>2. n - 1 \in 0..N
    BY <1>1
  <2>3. g[n - 1] \in V
    BY <1>4, <2>2
  <2>4. g[n] = step[<<g[n - 1], n>>]
    BY <1>4, Zenon DEF Solves
  <2>. QED
    BY <1>2, <2>3, <2>4, Zenon
<1>6. g[0] = <<>>
  BY <1>4, Zenon DEF Solves
<1>7. N > 0 => g[1] = seqs[1]
  <2>1. \A s \in Seq(S) : <<>> \o s = s
    BY ConcatEmptySeq
  <2>2. N > 0 => 1 \in 1..N /\ seqs[1] \in Seq(S)
    BY <1>1 DEF N
  <2>3. N > 0 => g[1] = g[1 - 1] \o seqs[1]
    BY <1>5, <2>2, Zenon
  <2>4. 1 - 1 = 0
    OBVIOUS
  <2>. QED
    BY <1>6, <2>1, <2>2, <2>3, <2>4, Zenon
<1>8. N \in Nat /\ (N = 0 => seqs = <<>>)
  BY DEF N
<1>. QED
  BY <1>4, <1>5, <1>6, <1>7, <1>8, Zenon DEF Flattens, N, V

(* One sequence more, behind the others.                                   *)
LEMMA FlattenAppend ==
  ASSUME NEW S, NEW seqs \in Seq(Seq(S)), NEW s \in Seq(S)
  PROVE  /\ FlattenSeq(seqs) \in Seq(S)
         /\ FlattenSeq(Append(seqs, s)) = FlattenSeq(seqs) \o s
<1>. DEFINE more == Append(seqs, s)
            L == Len(seqs)
<1>1. more \in Seq(Seq(S)) /\ Len(more) = L + 1 /\ L \in Nat /\ more[L + 1] = s
      /\ \A n \in 1..L : more[n] = seqs[n]
  OBVIOUS
<1>0. L = 0 => seqs = <<>>
  OBVIOUS
<1>. HIDE DEF more, L
<1>2. PICK g \in [0..Len(more) -> Seq(S)] : Flattens(g, more)
  BY <1>1, FlattenExists, Zenon
<1>3. FlattenSeq(more) = g[L + 1]
  BY <1>1, <1>2, FlattenIs
<1>4. FlattenSeq(seqs) = g[L]
  <2>1. L \in Nat /\ (\A n \in 1..L : n \in 1..Len(more) /\ more[n] = seqs[n])
        /\ (L > 0 => Len(more) > 0 /\ 1 \in 1..L)
    BY <1>1
  <2>2. Flattens(g, seqs)
    BY <1>0, <1>2, <2>1 DEF Flattens, L
  <2>. QED
    BY <2>2, FlattenIs DEF L
<1>5. g[L + 1] = g[L] \o s /\ g[L] \in Seq(S)
  <2>1. L + 1 \in 1..Len(more) /\ (L + 1) - 1 = L /\ L \in 0..Len(more)
    BY <1>1
  <2>2. g[L + 1] = g[(L + 1) - 1] \o more[L + 1]
    BY <1>2, <2>1, Zenon DEF Flattens
  <2>. QED
    BY <1>1, <1>2, <2>1, <2>2
<1>. QED
  BY <1>3, <1>4, <1>5 DEF more

LEMMA FlattenOne ==
  ASSUME NEW S, NEW s \in Seq(S)
  PROVE  FlattenSeq(<<s>>) = s
<1>1. Append(<<>>, s) = <<s>> /\ <<>> \in Seq(Seq(S))
  OBVIOUS
<1>2. <<>> \o s = s
  BY ConcatEmptySeq
<1>. QED
  BY <1>1, <1>2, FlattenAppend, FlattenEmpty

(* Pieces of one element each are the sequence of the elements.            *)
LEMMA FlattenSingles ==
  ASSUME NEW S, NEW e \in Seq(S)
  PROVE  FlattenSeq([k \in 1..Len(e) |-> <<e[k]>>]) = e
<1>. DEFINE N == Len(e)
            seqs == [k \in 1..N |-> <<e[k]>>]
            g == [n \in 0..N |-> SubSeq(e, 1, n)]
<1>1. N \in Nat /\ Len(seqs) = N /\ \A n \in 1..N : seqs[n] = <<e[n]>>
  OBVIOUS
<1>2. N = 0 => seqs = <<>>
  OBVIOUS
<1>3. SubSeq(e, 1, 0) = <<>>
  BY SubSeqEmpty
<1>4. ASSUME NEW n \in 1..N PROVE SubSeq(e, 1, n) = SubSeq(e, 1, n - 1) \o <<e[n]>>
  <2>1. 1 \in 1..N /\ n \in 1..n
    BY <1>1
  <2>. QED
    BY <2>1, SubSeqRecursiveSecond
<1>5. N > 0 => SubSeq(e, 1, 1) = <<e[1]>>
  <2>1. SUFFICES ASSUME N > 0 PROVE SubSeq(e, 1, 1) = <<e[1]>>
    OBVIOUS
  <2>2. 1 \in 1..N /\ 1 - 1 = 0 /\ <<e[1]>> \in Seq(S)
    BY <1>1, <2>1
  <2>3. SubSeq(e, 1, 1) = SubSeq(e, 1, 0) \o <<e[1]>>
    BY <1>4, <2>2
  <2>4. <<>> \o <<e[1]>> = <<e[1]>>
    BY <2>2, ConcatEmptySeq
  <2>. QED
    BY <1>3, <2>3, <2>4
<1>6. SubSeq(e, 1, N) = e
  BY SubSeqFull
<1>. HIDE DEF N, seqs
<1>7. /\ \A n \in 1..N : g[n] = SubSeq(e, 1, n) /\ g[n - 1] = SubSeq(e, 1, n - 1)
      /\ g[0] = SubSeq(e, 1, 0) /\ g[N] = SubSeq(e, 1, N)
      /\ N > 0 => 1 \in 1..N
  BY <1>1
<1>. HIDE DEF g
<1>8. \A n \in 1..N : g[n] = g[n - 1] \o seqs[n]
  BY <1>1, <1>4, <1>7
<1>9. g[0] = <<>> /\ (N > 0 => g[1] = seqs[1])
  <2>1. g[0] = <<>>
    BY <1>3, <1>7
  <2>2. ASSUME N > 0 PROVE g[1] = seqs[1]
    <3>1. 1 \in 1..N /\ SubSeq(e, 1, 1) = <<e[1]>>
      BY <1>5, <1>7, <2>2
    <3>2. g[1] = SubSeq(e, 1, 1) /\ seqs[1] = <<e[1]>>
      BY <1>1, <1>7, <3>1, Zenon
    <3>. QED
      BY <3>1, <3>2
  <2>. QED
    BY <2>1, <2>2
<1>10. Flattens(g, seqs)
  BY <1>1, <1>2, <1>8, <1>9 DEF Flattens
<1>11. FlattenSeq(seqs) = e
  BY <1>1, <1>6, <1>7, <1>10, FlattenIs
<1>. QED
  BY <1>11 DEF seqs, N
=============================================================================
