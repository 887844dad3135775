-------------------------- MODULE FullReviewProofs --------------------------
(***************************************************************************)
(* What the split of a tree's patch computes, and what a review of the     *)
(* whole tree keeps, for any number of invocations, any tree, cap and      *)
(* schedule.                                                               *)
(***************************************************************************)
EXTENDS FullReview, RecursionLemmas

-----------------------------------------------------------------------------
(* The split.                                                              *)

(* sum is the recursion by which Bytes adds up the sizes.                  *)
Sums(sum, chunk) ==
  sum[0] = 0 /\ \A n \in 1..Len(chunk) : sum[n] = sum[n - 1] + chunk[n].size

LEMMA BytesExists ==
  ASSUME NEW chunk \in Seq(File)
  PROVE  \E sum \in [0..Len(chunk) -> Nat] : Sums(sum, chunk)
<1>. DEFINE N == Len(chunk)
            step == [vn \in Nat \X (1..N) |-> vn[1] + chunk[vn[2]].size]
<1>1. N \in Nat /\ 0 \in Nat
  OBVIOUS
<1>2. ASSUME NEW v \in Nat, NEW n \in 1..N
      PROVE  v + chunk[n].size \in Nat /\ step[<<v, n>>] = v + chunk[n].size
  <2>1. chunk[n] \in File
    OBVIOUS
  <2>2. chunk[n].size \in Nat
    BY <2>1, BoundAssumption DEF File
  <2>. QED
    BY <2>2
<1>3. step \in [Nat \X (1..N) -> Nat]
  BY <1>2
<1>. HIDE DEF step, N
<1>4. PICK sum \in [0..N -> Nat] : Solves(sum, N, 0, step)
  BY <1>1, <1>3, RecursionExists, Zenon
<1>5. \A n \in 1..N : sum[n] = sum[n - 1] + chunk[n].size
  <2>1. SUFFICES ASSUME NEW n \in 1..N PROVE sum[n] = sum[n - 1] + chunk[n].size
    OBVIOUS
  <2>2. n - 1 \in 0..N
    BY <1>1
  <2>3. sum[n - 1] \in Nat
    BY <1>4, <2>2
  <2>4. sum[n] = step[<<sum[n - 1], n>>]
    BY <1>4, Zenon DEF Solves
  <2>. QED
    BY <1>2, <2>3, <2>4, Zenon
<1>6. sum[0] = 0
  BY <1>4, Zenon DEF Solves
<1>. QED
  BY <1>4, <1>5, <1>6, Zenon DEF Sums, N

LEMMA BytesIs ==
  ASSUME NEW chunk \in Seq(File), NEW sum, Sums(sum, chunk)
  PROVE  Bytes(chunk) = sum[Len(chunk)]
<1>. DEFINE N == Len(chunk)
            Eq(f) == f = [n \in 0..N |-> IF n = 0 THEN 0 ELSE f[n - 1] + chunk[n].size]
            mine == CHOOSE f : Eq(f)
<1>0. N \in Nat
  OBVIOUS
<1>1. Bytes(chunk) = mine[N]
  BY DEF Bytes
<1>2. Eq([n \in 0..N |-> sum[n]])
  <2>. DEFINE h == [n \in 0..N |-> sum[n]]
  <2>1. ASSUME NEW n \in 0..N
        PROVE  sum[n] = IF n = 0 THEN 0 ELSE h[n - 1] + chunk[n].size
    <3>1. CASE n = 0
      BY <3>1 DEF Sums
    <3>2. CASE n # 0
      <4>1. n \in 1..N /\ h[n - 1] = sum[n - 1]
        BY <3>2
      <4>. QED
        BY <3>2, <4>1 DEF Sums
    <3>. QED
      BY <3>1, <3>2
  <2>. QED
    BY <2>1, Zenon
<1>3. Eq(mine)
  BY <1>2
<1>. HIDE DEF mine
<1>4. \A n \in 0..N : mine[n] = IF n = 0 THEN 0 ELSE mine[n - 1] + chunk[n].size
  BY <1>3
<1>5. mine[0] = sum[0]
  BY <1>0, <1>4 DEF Sums
<1>6. ASSUME NEW n \in (0 + 1)..N, mine[n - 1] = sum[n - 1] PROVE mine[n] = sum[n]
  <2>1. n \in 1..N /\ n \in 0..N /\ n # 0
    OBVIOUS
  <2>. QED
    BY <1>4, <1>6, <2>1 DEF Sums
<1>7. Alike(mine, sum, 0, N)
  BY <1>5, <1>6, Zenon DEF Alike
<1>8. 0 \in Nat /\ N \in 0..N
  BY <1>0
<1>9. mine[N] = sum[N]
  <2>. HIDE DEF N
  <2>. QED
    BY <1>0, <1>7, <1>8, SolutionsAgree
<1>. QED
  BY <1>1, <1>9

LEMMA BytesAppend ==
  ASSUME NEW chunk \in Seq(File), NEW file \in File
  PROVE  Bytes(chunk) \in Nat /\ Bytes(Append(chunk, file)) = Bytes(chunk) + file.size
<1>. DEFINE more == Append(chunk, file)
            N == Len(chunk)
<1>1. more \in Seq(File) /\ Len(more) = N + 1 /\ N \in Nat /\ more[N + 1] = file
      /\ \A n \in 1..N : more[n] = chunk[n]
  OBVIOUS
<1>. HIDE DEF more, N
<1>2. PICK sum \in [0..Len(more) -> Nat] : Sums(sum, more)
  BY <1>1, BytesExists
<1>3. Bytes(more) = sum[N + 1]
  BY <1>1, <1>2, BytesIs
<1>4. Bytes(chunk) = sum[N]
  <2>1. \A n \in 1..N : n \in 1..Len(more) /\ more[n] = chunk[n]
    BY <1>1
  <2>2. Sums(sum, chunk)
    BY <1>2, <2>1 DEF Sums, N
  <2>. QED
    BY <2>2, BytesIs DEF N
<1>5. sum[N + 1] = sum[N] + file.size /\ sum[N] \in Nat
  <2>1. N + 1 \in 1..Len(more) /\ (N + 1) - 1 = N /\ N \in 0..Len(more)
    BY <1>1
  <2>2. sum[N + 1] = sum[(N + 1) - 1] + more[N + 1].size
    BY <1>2, <2>1, Zenon DEF Sums
  <2>. QED
    BY <1>1, <1>2, <2>1, <2>2
<1>. QED
  BY <1>3, <1>4, <1>5 DEF more

(* A sequence that is not empty is its front and its last element.         *)
LEMMA FrontAndLast ==
  ASSUME NEW S, NEW s \in Seq(S), s # <<>>
  PROVE  /\ Len(s) \in Nat \ {0} /\ s[Len(s)] \in S
         /\ \E front \in Seq(S) :
               /\ Len(front) = Len(s) - 1
               /\ \A i \in 1..(Len(s) - 1) : front[i] = s[i]
               /\ s = Append(front, s[Len(s)])
               /\ \A e \in S : [s EXCEPT ![Len(s)] = e] = Append(front, e)
<1>. DEFINE L == Len(s)
            front == SubSeq(s, 1, L - 1)
<1>1. L \in Nat \ {0} /\ L \in 1..L
  BY EmptySeq
<1>2. \A i \in 1..L : s[i] \in S
  BY ElementOfSeq
<1>3. front \in Seq(S) /\ Len(front) = L - 1 /\ \A i \in 1..(L - 1) : front[i] = s[i]
  <2>1. \A i \in 1..(L - 1) : s[i] \in S
    BY <1>1, <1>2
  <2>2. 1 \in Int /\ L - 1 \in Int /\ (L - 1) - 1 + 1 = L - 1 /\ (~(1 <= L - 1) => L - 1 = 0)
        /\ \A i \in 1..(L - 1) : 1 + i - 1 = i
    <3>. HIDE DEF L
    <3>. QED
      BY <1>1
  <2>. HIDE DEF L
  <2>3. /\ front \in Seq(S)
        /\ Len(front) = IF 1 <= L - 1 THEN (L - 1) - 1 + 1 ELSE 0
        /\ \A i \in 1..((L - 1) - 1 + 1) : front[i] = s[1 + i - 1]
    BY <2>1, <2>2, SubSeqProperties DEF L
  <2>. QED
    BY <2>2, <2>3
<1>4. ASSUME NEW e \in S
      PROVE  /\ Append(front, e) \in Seq(S) /\ Len(Append(front, e)) = L
             /\ \A i \in 1..L : Append(front, e)[i] = IF i = L THEN e ELSE s[i]
  <2>. HIDE DEF L
  <2>1. /\ Append(front, e) \in Seq(S) /\ Len(Append(front, e)) = (L - 1) + 1
        /\ Append(front, e)[(L - 1) + 1] = e
        /\ \A i \in 1..(L - 1) : Append(front, e)[i] = front[i]
    BY <1>3
  <2>2. (L - 1) + 1 = L /\ \A i \in 1..L : i = L \/ i \in 1..(L - 1)
    BY <1>1
  <2>. QED
    BY <1>1, <1>3, <2>1, <2>2
<1>5. s = Append(front, s[L])
  <2>. DEFINE t == Append(front, s[L])
  <2>1. t \in Seq(S) /\ Len(s) = Len(t) /\ \A i \in 1..Len(s) : s[i] = t[i]
    BY <1>1, <1>2, <1>4
  <2>. HIDE DEF t
  <2>2. s = t
    BY <2>1, SeqEqual
  <2>. QED
    BY <2>2 DEF t
<1>6. ASSUME NEW e \in S PROVE [s EXCEPT ![L] = e] = Append(front, e)
  <2>. DEFINE t == Append(front, e)
              u == [s EXCEPT ![L] = e]
  <2>1. u \in Seq(S) /\ Len(u) = Len(s) /\ \A i \in 1..Len(s) : u[i] = IF i = L THEN e ELSE s[i]
    BY <1>1, ExceptSeq
  <2>2. t \in Seq(S) /\ Len(t) = Len(s) /\ \A i \in 1..Len(s) : t[i] = IF i = L THEN e ELSE s[i]
    BY <1>4
  <2>. HIDE DEF t, u
  <2>3. Len(u) = Len(t) /\ \A i \in 1..Len(u) : u[i] = t[i]
    BY <2>1, <2>2
  <2>4. u = t
    BY <2>1, <2>2, <2>3, SeqEqual
  <2>. QED
    BY <2>4 DEF t, u
<1>. HIDE DEF front
<1>. QED
  BY <1>1, <1>2, <1>3, <1>5, <1>6

LEMMA AppendIsJoin ==
  ASSUME NEW S, NEW s \in Seq(S), NEW e \in S
  PROVE  /\ <<e>> \in Seq(S) /\ Len(<<e>>) = 1
         /\ Append(s, e) \in Seq(S) /\ Append(s, e) = s \o <<e>>
<1>1. <<e>> \in Seq(S) /\ Len(<<e>>) = 1
  OBVIOUS
<1>2. Append(s, e) = s \o <<e>> /\ Append(s, e) \in Seq(S)
  BY AppendIsConcat, AppendProperties
<1>. QED
  BY <1>1, <1>2

(* What the second loop keeps: whole files in order, and no chunk above    *)
(* the bound but a single file.                                            *)
Splits(done, all) ==
  /\ done \in Seq(Seq(File))
  /\ FlattenSeq(done) = all
  /\ \A c \in 1..Len(done) : Oversized(done[c]) => Len(done[c]) = 1

(* A chunk more, or another last chunk, keeps the bound if it is in it.    *)
LEMMA BoundedAppend ==
  ASSUME NEW S, NEW front \in Seq(Seq(S)), NEW more \in Seq(S),
         Oversized(more) => Len(more) = 1,
         \A c \in 1..Len(front) : Oversized(front[c]) => Len(front[c]) = 1
  PROVE  /\ Append(front, more) \in Seq(Seq(S))
         /\ \A c \in 1..Len(Append(front, more)) :
               Oversized(Append(front, more)[c]) => Len(Append(front, more)[c]) = 1
<1>. DEFINE next == Append(front, more)
<1>1. /\ next \in Seq(Seq(S)) /\ Len(next) = Len(front) + 1 /\ Len(front) \in Nat
      /\ next[Len(front) + 1] = more /\ \A c \in 1..Len(front) : next[c] = front[c]
  OBVIOUS
<1>. HIDE DEF next
<1>2. ASSUME NEW c \in 1..Len(next), Oversized(next[c]) PROVE Len(next[c]) = 1
  <2>1. c = Len(front) + 1 \/ c \in 1..Len(front)
    BY <1>1
  <2>2. CASE c = Len(front) + 1
    BY <1>1, <1>2, <2>2, Zenon
  <2>3. CASE c \in 1..Len(front)
    BY <1>1, <1>2, <2>3, Zenon
  <2>. QED
    BY <2>1, <2>2, <2>3
<1>. QED
  BY <1>1, <1>2 DEF next

LEMMA PutSplits ==
  ASSUME NEW all \in Seq(File), NEW done, Splits(done, all), NEW file \in File
  PROVE  Splits(Put(done, file), Append(all, file))
<1>. USE DEF Splits
<1>0. ChunkBound \in Nat /\ file.size \in Nat
  BY CapAssumption, BoundAssumption DEF ChunkBound, File
<1>1. CASE done = <<>> \/ Bytes(Last(done)) + file.size > ChunkBound
  <2>. DEFINE one == <<file>>
              next == Append(done, one)
  <2>1. Put(done, file) = next
    BY <1>1 DEF Put
  <2>2. one \in Seq(File) /\ Len(one) = 1 /\ Append(all, file) = all \o one
    BY AppendIsJoin
  <2>. HIDE DEF one
  <2>3. FlattenSeq(next) = all \o one
    BY <2>2, FlattenAppend
  <2>4. /\ next \in Seq(Seq(File))
        /\ \A c \in 1..Len(next) : Oversized(next[c]) => Len(next[c]) = 1
    BY <2>2, BoundedAppend
  <2>. HIDE DEF next
  <2>. QED
    BY <2>1, <2>2, <2>3, <2>4
<1>2. CASE done # <<>> /\ ~(Bytes(Last(done)) + file.size > ChunkBound)
  <2>. DEFINE L == Len(done)
              last == done[L]
  <2>1. /\ L \in Nat \ {0} /\ last \in Seq(File)
        /\ \E front \in Seq(Seq(File)) :
              /\ Len(front) = L - 1
              /\ \A c \in 1..(L - 1) : front[c] = done[c]
              /\ done = Append(front, last)
              /\ \A e \in Seq(File) : [done EXCEPT ![L] = e] = Append(front, e)
    <3>. DEFINE T == Seq(File)
    <3>. HIDE DEF T
    <3>1. ASSUME NEW s \in Seq(T), s # <<>>
          PROVE  /\ Len(s) \in Nat \ {0} /\ s[Len(s)] \in T
                 /\ \E front \in Seq(T) :
                       /\ Len(front) = Len(s) - 1
                       /\ \A i \in 1..(Len(s) - 1) : front[i] = s[i]
                       /\ s = Append(front, s[Len(s)])
                       /\ \A e \in T : [s EXCEPT ![Len(s)] = e] = Append(front, e)
      BY <3>1, FrontAndLast
    <3>2. done \in Seq(T) /\ done # <<>>
      BY <1>2 DEF T
    <3>. QED
      BY ONLY <3>1, <3>2, Zenon DEF T
  <2>a. PICK front \in Seq(Seq(File)) :
              /\ Len(front) = L - 1
              /\ \A c \in 1..(L - 1) : front[c] = done[c]
              /\ done = Append(front, last)
              /\ \A e \in Seq(File) : [done EXCEPT ![L] = e] = Append(front, e)
    BY <2>1
  <2>. DEFINE more == Append(last, file)
              next == Append(front, more)
  <2>2. Put(done, file) = [done EXCEPT ![L] = more]
    BY <1>2 DEF Put
  <2>3. ~(Bytes(last) + file.size > ChunkBound)
    BY <1>2 DEF Last
  <2>4. \A c \in 1..L : Oversized(done[c]) => Len(done[c]) = 1
    BY <2>1, <2>a
  <2>5. FlattenSeq(done) = all
    OBVIOUS
  <2>. HIDE DEF L, last
  <2>6. more \in Seq(File)
    BY <2>1, <2>a, AppendIsJoin
  <2>7. Bytes(last) \in Nat /\ Bytes(more) = Bytes(last) + file.size
    BY <2>1, <2>a, BytesAppend
  <2>. HIDE DEF more
  <2>8. Put(done, file) = next
    BY <2>1, <2>a, <2>2, <2>6
  <2>9. /\ next \in Seq(Seq(File))
        /\ \A c \in 1..Len(next) : Oversized(next[c]) => Len(next[c]) = 1
    <3>1. ~Oversized(more)
      BY <1>0, <2>3, <2>7 DEF Oversized
    <3>2. \A c \in 1..(L - 1) : c \in 1..L
      BY <2>1, <2>a
    <3>3. \A c \in 1..Len(front) : Oversized(front[c]) => Len(front[c]) = 1
      BY <2>1, <2>a, <2>4, <3>2, Zenon
    <3>. QED
      BY <2>1, <2>a, <2>6, <3>1, <3>3, BoundedAppend
  <2>10. FlattenSeq(next) = Append(all, file)
    <3>1. FlattenSeq(done) = FlattenSeq(front) \o last /\ FlattenSeq(front) \in Seq(File)
      BY <2>1, <2>a, FlattenAppend
    <3>2. FlattenSeq(next) = FlattenSeq(front) \o more
      BY <2>1, <2>a, <2>6, FlattenAppend
    <3>3. ASSUME NEW s \in Seq(File) PROVE (s \o last) \o <<file>> = s \o more
      <4>1. more = last \o <<file>> /\ <<file>> \in Seq(File)
        BY <2>1, AppendIsConcat DEF more
      <4>2. (s \o last) \o <<file>> = s \o (last \o <<file>>)
        BY <2>1, <4>1, ConcatAssociative
      <4>. QED
        BY <4>1, <4>2
    <3>4. Append(all, file) = all \o <<file>>
      BY AppendIsJoin
    <3>. QED
      BY <2>5, <3>1, <3>2, <3>3, <3>4
  <2>. HIDE DEF next
  <2>. QED
    BY <2>8, <2>9, <2>10
<1>. QED
  BY <1>1, <1>2

(* The recursion of Split, as far as the n-th file.                        *)
Fills(done, N) ==
  done[0] = <<>> /\ \A n \in 1..N : done[n] = Put(done[n - 1], files[n])

LEMMA FillsExists ==
  ASSUME files \in Seq(File)
  PROVE  \E done : Fills(done, Len(files))
<1>. DEFINE N == Len(files)
            V == Seq(Seq(File))
            step == [vn \in V \X (1..N) |-> Put(vn[1], files[vn[2]])]
<1>1. N \in Nat /\ <<>> \in V
  OBVIOUS
<1>2. ASSUME NEW v \in V, NEW n \in 1..N
      PROVE  Put(v, files[n]) \in V /\ step[<<v, n>>] = Put(v, files[n])
  <2>1. files[n] \in File
    BY ElementOfSeq
  <2>2. Append(v, <<files[n]>>) \in V
    BY <2>1
  <2>3. v # <<>> => [v EXCEPT ![Len(v)] = Append(@, files[n])] \in V
    BY <2>1
  <2>4. Put(v, files[n]) \in V
    BY <2>2, <2>3, Zenon DEF Put
  <2>. QED
    BY <2>4
<1>3. step \in [V \X (1..N) -> V]
  BY <1>2
<1>. HIDE DEF step, N, V
<1>4. PICK done \in [0..N -> V] : Solves(done, N, <<>>, step)
  BY <1>1, <1>3, RecursionExists, Zenon
<1>5. \A n \in 1..N : done[n] = Put(done[n - 1], files[n])
  <2>1. SUFFICES ASSUME NEW n \in 1..N PROVE done[n] = Put(done[n - 1], files[n])
    OBVIOUS
  <2>2. n - 1 \in 0..N
    BY <1>1
  <2>3. done[n - 1] \in V
    BY <1>4, <2>2
  <2>4. done[n] = step[<<done[n - 1], n>>]
    BY <1>4, Zenon DEF Solves
  <2>. QED
    BY <1>2, <2>3, <2>4, Zenon
<1>6. done[0] = <<>>
  BY <1>4, Zenon DEF Solves
<1>. QED
  BY <1>5, <1>6, Zenon DEF Fills, N

LEMMA SplitFills ==
  ASSUME files \in Seq(File)
  PROVE  \E done : Fills(done, Len(files)) /\ Split = done[Len(files)]
<1>. DEFINE N == Len(files)
            Eq(f) == f = [n \in 0..N |-> IF n = 0 THEN <<>> ELSE Put(f[n - 1], files[n])]
            mine == CHOOSE f : Eq(f)
<1>0. N \in Nat
  OBVIOUS
<1>1. Split = mine[N]
  BY DEF Split
<1>2. PICK done : Fills(done, N)
  BY FillsExists
<1>3. Eq([n \in 0..N |-> done[n]])
  <2>. DEFINE h == [n \in 0..N |-> done[n]]
  <2>1. ASSUME NEW n \in 0..N
        PROVE  done[n] = IF n = 0 THEN <<>> ELSE Put(h[n - 1], files[n])
    <3>1. CASE n = 0
      BY <1>2, <3>1 DEF Fills
    <3>2. CASE n # 0
      <4>1. n \in 1..N /\ h[n - 1] = done[n - 1]
        BY <1>0, <3>2
      <4>. QED
        BY <1>2, <3>2, <4>1, Zenon DEF Fills
    <3>. QED
      BY <3>1, <3>2
  <2>. QED
    BY <2>1, Zenon
<1>4. Eq(mine)
  BY <1>3
<1>. HIDE DEF mine
<1>5. \A n \in 0..N : mine[n] = IF n = 0 THEN <<>> ELSE Put(mine[n - 1], files[n])
  BY <1>4
<1>6. /\ 0 \in 0..N /\ \A n \in 1..N : n \in 0..N /\ n # 0
  BY <1>0
<1>7. Fills(mine, N)
  BY <1>5, <1>6, Zenon DEF Fills
<1>. QED
  BY <1>1, <1>7

(* split_patch_into_chunks loses no file, keeps their order, and puts two  *)
(* into one chunk only within the bound.                                   *)
LEMMA SplitFacts ==
  ASSUME files \in Seq(File)
  PROVE  Splits(Split, files)
<1>. DEFINE N == Len(files)
            upto(n) == SubSeq(files, 1, n)
<1>0. N \in Nat
  OBVIOUS
<1>1. PICK done : Fills(done, N) /\ Split = done[N]
  BY SplitFills
<1>. DEFINE S == {n \in Nat : n <= N => Splits(done[n], upto(n))}
<1>2. 0 \in S
  <2>1. upto(0) = <<>>
    BY SubSeqEmpty
  <2>2. Splits(<<>>, <<>>)
    BY FlattenEmpty DEF Splits
  <2>. QED
    BY <1>1, <2>1, <2>2 DEF Fills
<1>3. ASSUME NEW n \in Nat, n \in S PROVE n + 1 \in S
  <2>. SUFFICES ASSUME n + 1 <= N PROVE Splits(done[n + 1], upto(n + 1))
    OBVIOUS
  <2>1. n + 1 \in 1..N /\ (n + 1) - 1 = n /\ n <= N /\ 1 \in 1..N
    BY <1>0
  <2>2. done[n + 1] = Put(done[n], files[n + 1])
    BY <1>1, <2>1 DEF Fills
  <2>3. files[n + 1] \in File
    BY <2>1, ElementOfSeq
  <2>4. upto(n) \in Seq(File)
    BY <1>0, <2>1
  <2>5. upto(n + 1) = Append(upto(n), files[n + 1])
    BY <1>0, <2>1
  <2>6. Splits(done[n], upto(n))
    BY <1>3, <2>1
  <2>. HIDE DEF upto
  <2>. QED
    BY <2>2, <2>3, <2>4, <2>5, <2>6, PutSplits
<1>. HIDE DEF S
<1>4. N \in S
  BY <1>0, <1>2, <1>3, SetInduction
<1>5. upto(N) = files
  BY SubSeqFull
<1>. HIDE DEF N, upto
<1>. QED
  BY <1>0, <1>1, <1>4, <1>5 DEF S

-----------------------------------------------------------------------------
(* What holds at the start.                                                *)

LEMMA InitialPatch ==
  ASSUME Init
  PROVE  files \in Seq(File) /\ Splits(chunks, files)
<1>1. files \in Seq(File)
  <2>1. PICK n \in 0..MaxFiles : files \in [1..n -> File]
    BY DEF Init
  <2>2. n \in Nat
    BY BoundAssumption
  <2>. QED
    BY <2>1, <2>2
<1>. QED
  BY <1>1, SplitFacts DEF Init

LEMMA TotalIsNatural ==
  ASSUME chunks \in Seq(Seq(File))
  PROVE  Total \in Nat
BY DEF Total

LEMMA Initially ==
  ASSUME Init
  PROVE  ReviewInv
<1>1. files \in Seq(File) /\ chunks \in Seq(Seq(File))
  BY InitialPatch DEF Splits
<1>. Total \in Nat
  BY <1>1, TotalIsNatural
<1>2. TypeOK
  BY <1>1, RunAssumption DEF Init, TypeOK, Holding
<1>3. ASSUME NEW r \in Runs
      PROVE AtInv(r) /\ PastInv(r) /\ BehindInv(r) /\ FailedInv(r)
  BY RunAssumption DEF Init, AtInv, PastInv, BehindInv, FailedInv, Holding
<1>. QED
  BY <1>2, <1>3 DEF ReviewInv, Init

-----------------------------------------------------------------------------
(* The types.                                                              *)

LEMMA MoveTypes ==
  ASSUME ReviewInv, NEW r \in Runs,
         Collect(r) \/ Skip(r) \/ Freeze(r) \/ Complete(r) \/ Ask(r)
  PROVE  TypeOK'
<1>. USE DEF ReviewInv, TypeOK, patch, records, Goto, Advance, Holding, Ended, Total
<1>1. CASE Collect(r)
  <2>1. CASE Goto(r, "next")
    BY <1>1, <2>1 DEF Collect
  <2>2. CASE Goto(r, "refused")
    BY <1>1, <2>2 DEF Collect
  <2>. QED
    BY <1>1, <2>1, <2>2, Zenon DEF Collect
<1>2. CASE Skip(r)
  BY <1>2 DEF Skip
<1>3. CASE Freeze(r)
  <2>1. CASE Goto(r, "waiting")
    BY <1>3, <2>1 DEF Freeze
  <2>2. CASE Goto(r, "failed")
    BY <1>3, <2>2 DEF Freeze
  <2>. QED
    BY <1>3, <2>1, <2>2, Zenon DEF Freeze
<1>4. CASE Complete(r)
  BY <1>4 DEF Complete
<1>5. CASE Ask(r)
  BY <1>5 DEF Ask, AtInv
<1>. QED
  BY <1>1, <1>2, <1>3, <1>4, <1>5

LEMMA RecordTypes ==
  ASSUME ReviewInv, NEW r \in Runs,
         Acquire(r) \/ Create(r) \/ Return(r) \/ Reopen(r) \/ Abandon(r) \/ Finish(r) \/ Fault(r)
  PROVE  TypeOK'
<1>. USE RunAssumption DEF ReviewInv, TypeOK, patch, records, Goto, Advance, Unlock, CloseAs,
                           Holding, Ended, Total
<1>. pc[r] \in {"waiting"} \cup Holding => cursor[r] \in 1..Total
  BY DEF AtInv
<1>1. CASE Acquire(r)
  BY <1>1 DEF Acquire
<1>2. CASE Create(r)
  BY <1>2 DEF Create
<1>3. CASE Return(r)
  BY <1>3 DEF Return
<1>4. CASE Reopen(r)
  BY <1>4 DEF Reopen
<1>5. CASE Abandon(r)
  BY <1>5 DEF Abandon
<1>6. CASE Finish(r)
  BY <1>6 DEF Finish
<1>7. CASE Fault(r)
  <2>1. pc[r] \notin {"idle"} \cup Ended
    BY <1>7 DEF Fault
  <2>2. CASE Goto(r, "failed")
    BY <1>7, <2>1, <2>2 DEF Fault
  <2>3. CASE Goto(r, "crashed")
    BY <1>7, <2>1, <2>3 DEF Fault
  <2>. QED
    BY <1>7, <2>2, <2>3, Zenon DEF Fault
<1>. QED
  BY <1>1, <1>2, <1>3, <1>4, <1>5, <1>6, <1>7

-----------------------------------------------------------------------------
(* What the runs know of the records.                                      *)

Keeps(q) == pc'[q] = pc[q] /\ cursor'[q] = cursor[q] /\ skipped'[q] = skipped[q]

LEMMA OthersStay ==
  ASSUME ReviewInv, NEW r \in Runs, Collect(r) \/ Step(r) \/ Ask(r) \/ Fault(r)
  PROVE  /\ UNCHANGED patch
         /\ \A q \in Runs \ {r} : Keeps(q)
<1>. USE DEF ReviewInv, TypeOK, patch, Keeps, Goto, Advance, CloseAs
<1>1. CASE Collect(r)
  BY <1>1 DEF Collect
<1>2. CASE Skip(r) \/ Freeze(r) \/ Acquire(r) \/ Create(r)
  BY <1>2 DEF Skip, Freeze, Acquire, Create
<1>3. CASE Return(r) \/ Reopen(r) \/ Abandon(r) \/ Finish(r) \/ Complete(r)
  BY <1>3 DEF Return, Reopen, Abandon, Finish, Complete
<1>4. CASE Ask(r)
  BY <1>4 DEF Ask
<1>5. CASE Fault(r)
  BY <1>5 DEF Fault
<1>. QED
  BY <1>1, <1>2, <1>3, <1>4, <1>5 DEF Step

(* A step changes the record of the chunk its run is at and holds the lock *)
(* of, and never opens a closed one.                                       *)
LEMMA OwnChunkOnly ==
  ASSUME ReviewInv, NEW r \in Runs, Collect(r) \/ Step(r) \/ Ask(r) \/ Fault(r)
  PROVE  /\ \A c \in 1..Total : \/ stage'[c] = stage[c] /\ owner'[c] = owner[c]
                                \/ c = cursor[r] /\ pc[r] \in Holding
         /\ \A c \in 1..Total : stage[c] = "closed" => stage'[c] = "closed"
         /\ \A c \in 1..Total : owner'[c] # owner[c] => owner'[c] = r /\ pc'[r] = "reviewing"
<1>. USE DEF ReviewInv, TypeOK, AtInv, records, Goto, CloseAs, Holding
<1>1. CASE Collect(r) \/ Skip(r) \/ Freeze(r) \/ Acquire(r) \/ Return(r) \/ Complete(r)
           \/ Ask(r) \/ Fault(r)
  <2>1. stage' = stage /\ owner' = owner
    BY <1>1 DEF Collect, Skip, Freeze, Acquire, Return, Complete, Ask, Fault
  <2>. QED
    BY <2>1, Zenon
<1>2. CASE Create(r)
  BY <1>2 DEF Create
<1>3. CASE Reopen(r)
  BY <1>3 DEF Reopen
<1>4. CASE Abandon(r)
  BY <1>4 DEF Abandon
<1>5. CASE Finish(r)
  BY <1>5 DEF Finish
<1>. QED
  BY <1>1, <1>2, <1>3, <1>4, <1>5 DEF Step

(* Two runs are never inside the same chunk.                               *)
LEMMA Exclusive ==
  ASSUME TypeOK, NEW r \in Runs, NEW q \in Runs \ {r}, pc[r] \in Holding, pc[q] \in Holding,
         cursor[r] \in 1..Total
  PROVE  cursor[q] # cursor[r]
BY DEF TypeOK

LEMMA OthersAreKept ==
  ASSUME ReviewInv, NEW r \in Runs, Collect(r) \/ Step(r) \/ Ask(r) \/ Fault(r),
         NEW q \in Runs \ {r}
  PROVE  AtInv(q)' /\ PastInv(q)' /\ BehindInv(q)' /\ FailedInv(q)'
<1>1. chunks' = chunks /\ Keeps(q)
  BY OthersStay DEF patch
<1>2. pc[r] \in Holding => cursor[r] \in 1..Total
  BY DEF ReviewInv, AtInv, TypeOK
<1>3. pc[r] \in Holding /\ pc[q] \in Holding => cursor[q] # cursor[r]
  BY <1>2, Exclusive DEF ReviewInv
<1>. USE DEF ReviewInv, TypeOK, Keeps, Total
<1>a. /\ \A c \in 1..Total : \/ stage'[c] = stage[c] /\ owner'[c] = owner[c]
                             \/ c = cursor[r] /\ pc[r] \in Holding
      /\ \A c \in 1..Total : stage[c] = "closed" => stage'[c] = "closed"
      /\ \A c \in 1..Total : owner'[c] # owner[c] => owner'[c] = r
  BY OwnChunkOnly
<1>b. \A c \in 1..Total : Oversized(chunks[c])' <=> Oversized(chunks[c])
  BY <1>1
<1>c. Total \in Nat /\ cursor[q] \in Nat
  OBVIOUS
<1>4. AtInv(q)'
  <2>1. AtInv(q)
    OBVIOUS
  <2>2. pc[q] \in {"waiting"} \cup Holding => cursor[q] \in 1..Total
    BY <2>1, <1>c DEF AtInv
  <2>3. pc[q] \in Holding => stage'[cursor[q]] = stage[cursor[q]] /\ owner'[cursor[q]] = owner[cursor[q]]
    BY <2>2, <1>3, <1>a
  <2>4. pc[q] \in {"waiting"} \cup Holding => ~Oversized(Chunk(q))'
    BY <2>1, <2>2, <1>1, <1>b DEF AtInv, Chunk
  <2>. QED
    BY <2>1, <2>2, <2>3, <2>4, <1>1, <1>c DEF AtInv, Holding
<1>5. PastInv(q)'
  BY <1>1, <1>a, <1>c DEF PastInv
<1>6. BehindInv(q)'
  BY <1>1, <1>a, <1>b, <1>c DEF BehindInv
<1>7. faults' = faults \/ faults' = faults + 1
  BY DEF Step, Collect, Skip, Freeze, Acquire, Create, Return, Reopen, Abandon, Finish, Complete,
         Ask, Fault
<1>8. FailedInv(q)'
  BY <1>1, <1>7 DEF ReviewInv, TypeOK, FailedInv, Keeps, Total
<1>. QED
  BY <1>4, <1>5, <1>6, <1>8

(* The run that moves without touching a record: nothing new is behind it. *)
LEMMA OnlyMoved ==
  ASSUME ReviewInv, NEW r \in Runs, UNCHANGED <<chunks, cursor, skipped, stage, owner>>,
         pc[r] \notin Ended,
         pc[r] # "reviewing" \/ pc'[r] \in Ended,
         pc'[r] \notin {"reviewing", "closing"},
         pc'[r] \in {"waiting"} \cup Holding => cursor[r] <= Total /\ ~Oversized(Chunk(r)),
         pc'[r] = "failed" => faults' > 0 \/ Requested = 0,
         pc'[r] = "returned" => cursor[r] > Total
  PROVE  AtInv(r)' /\ PastInv(r)' /\ BehindInv(r)' /\ FailedInv(r)'
<1>1. PastInv(r) /\ BehindInv(r)
  BY DEF ReviewInv
<1>2. AtInv(r)'
  BY DEF AtInv, Chunk, Total
<1>3. PastInv(r)'
  BY <1>1 DEF PastInv, Total, Ended
<1>4. BehindInv(r)'
  BY <1>1 DEF BehindInv, Total
<1>5. FailedInv(r)'
  BY DEF FailedInv, Total
<1>. QED
  BY <1>2, <1>3, <1>4, <1>5

LEMMA MoverByMove ==
  ASSUME ReviewInv, NEW r \in Runs,
         Collect(r) \/ Freeze(r) \/ Acquire(r) \/ Complete(r) \/ Fault(r)
  PROVE  AtInv(r)' /\ PastInv(r)' /\ BehindInv(r)' /\ FailedInv(r)'
<1>0. UNCHANGED <<chunks, cursor, skipped, stage, owner>>
  BY DEF Collect, Freeze, Acquire, Complete, Fault, patch, records
<1>. USE DEF Goto, Ended, Holding
<1>. pc \in [Runs -> {"idle", "next", "waiting"} \cup Holding \cup Ended] /\ faults \in Nat
  BY DEF ReviewInv, TypeOK
<1>1. CASE Collect(r)
  <2>1. pc[r] = "idle" /\ pc'[r] \in {"next", "refused"}
    BY <1>1 DEF Collect
  <2>. QED
    BY <1>0, <2>1, OnlyMoved
<1>2. CASE Freeze(r)
  <2>1. /\ pc[r] = "next" /\ cursor[r] <= Total /\ ~Oversized(Chunk(r))
        /\ \/ pc'[r] = "waiting"
           \/ pc'[r] = "failed" /\ Bytes(Chunk(r)) > EvidenceBound
    BY <1>2 DEF Freeze
  <2>2. pc'[r] = "failed" => Requested = 0
    BY <2>1, CapAssumption DEF Oversized, ChunkBound, EvidenceBound
  <2>. QED
    BY <1>0, <2>1, <2>2, OnlyMoved
<1>3. CASE Acquire(r)
  <2>1. pc[r] = "waiting" /\ pc'[r] = "opening" /\ cursor[r] <= Total /\ ~Oversized(Chunk(r))
    BY <1>3 DEF Acquire, ReviewInv, AtInv
  <2>. QED
    BY <1>0, <2>1, OnlyMoved
<1>4. CASE Complete(r)
  <2>1. pc[r] = "next" /\ pc'[r] = "returned" /\ cursor[r] > Total
    BY <1>4 DEF Complete
  <2>. QED
    BY <1>0, <2>1, OnlyMoved
<1>5. CASE Fault(r)
  <2>1. pc[r] \notin Ended /\ pc'[r] \in {"failed", "crashed"} /\ faults' > 0
    BY <1>5 DEF Fault
  <2>. QED
    BY <1>0, <2>1, OnlyMoved
<1>. QED
  BY <1>1, <1>2, <1>3, <1>4, <1>5

LEMMA MoverBySkip ==
  ASSUME ReviewInv, NEW r \in Runs, Skip(r)
  PROVE  AtInv(r)' /\ PastInv(r)' /\ BehindInv(r)' /\ FailedInv(r)'
<1>1. /\ pc' = pc /\ pc[r] = "next" /\ cursor[r] \in 1..Total /\ cursor'[r] = cursor[r] + 1
      /\ skipped'[r] = skipped[r] \cup {cursor[r]} /\ Oversized(chunks[cursor[r]])
      /\ UNCHANGED <<chunks, stage, owner, faults>>
  BY DEF Skip, Advance, Chunk, patch, records, ReviewInv, TypeOK
<1>2. PastInv(r) /\ BehindInv(r) /\ Total' = Total /\ Total \in Nat
  BY <1>1, TotalIsNatural DEF ReviewInv, TypeOK, Total
<1>3. AtInv(r)' /\ FailedInv(r)'
  BY <1>1 DEF AtInv, FailedInv, Holding
<1>4. PastInv(r)'
  BY <1>1, <1>2 DEF PastInv
<1>5. BehindInv(r)'
  BY <1>1, <1>2 DEF BehindInv
<1>. QED
  BY <1>3, <1>4, <1>5

LEMMA MoverByAsk ==
  ASSUME ReviewInv, NEW r \in Runs, Ask(r)
  PROVE  AtInv(r)' /\ PastInv(r)' /\ BehindInv(r)' /\ FailedInv(r)'
<1>1. UNCHANGED <<chunks, pc, cursor, skipped, stage, owner, faults>>
  BY DEF Ask, patch
<1>2. AtInv(r) /\ PastInv(r) /\ BehindInv(r) /\ FailedInv(r)
  BY DEF ReviewInv
<1>. QED
  BY <1>1, <1>2 DEF AtInv, PastInv, BehindInv, FailedInv, Chunk, Total

(* The run that moves with the record: its own step, or the record's end.  *)
LEMMA MoverByRecord ==
  ASSUME ReviewInv, NEW r \in Runs,
         Create(r) \/ Return(r) \/ Reopen(r) \/ Abandon(r) \/ Finish(r)
  PROVE  AtInv(r)' /\ PastInv(r)' /\ BehindInv(r)' /\ FailedInv(r)'
<1>1. /\ pc[r] \in Holding
      /\ chunks' = chunks /\ skipped' = skipped /\ faults' = faults
  BY DEF Create, Return, Reopen, Abandon, Finish, Holding, patch
<1>2. cursor[r] \in 1..Total /\ Total \in Nat /\ ~Oversized(Chunk(r))
  BY <1>1 DEF ReviewInv, AtInv, TypeOK, Total
<1>3. \/ pc'[r] = "reviewing" /\ stage'[cursor[r]] = "running" /\ owner'[cursor[r]] = r
         /\ cursor'[r] = cursor[r]
      \/ pc'[r] = "closing" /\ stage'[cursor[r]] = "closing" /\ cursor'[r] = cursor[r]
         /\ pc[r] = "opening"
      \/ pc'[r] = "next" /\ stage'[cursor[r]] = "closed" /\ cursor'[r] = cursor[r] + 1
  <2>. USE <1>2 DEF ReviewInv, TypeOK, records, Goto, Advance, CloseAs
  <2>1. CASE Create(r)
    BY <2>1 DEF Create
  <2>2. CASE Return(r)
    BY <2>2 DEF Return
  <2>3. CASE Reopen(r)
    BY <2>3 DEF Reopen
  <2>4. CASE Abandon(r)
    BY <2>4 DEF Abandon
  <2>5. CASE Finish(r)
    BY <2>5 DEF Finish
  <2>. QED
    BY <2>1, <2>2, <2>3, <2>4, <2>5
<1>4. owner' = owner \/ pc'[r] = "reviewing"
  BY DEF Create, Return, Reopen, Abandon, Finish, records, ReviewInv, TypeOK, Goto
<1>5. /\ \A c \in 1..Total : c # cursor[r] => stage'[c] = stage[c] /\ owner'[c] = owner[c]
      /\ \A c \in 1..Total : stage[c] = "closed" => stage'[c] = "closed"
  BY OwnChunkOnly DEF Step
<1>6. PastInv(r) /\ BehindInv(r) /\ pc[r] \notin Ended
  BY <1>1 DEF ReviewInv, Holding, Ended
<1>7. AtInv(r)'
  BY <1>1, <1>2, <1>3 DEF AtInv, Holding, Chunk, Total
<1>8. PastInv(r)'
  BY <1>1, <1>2, <1>3, <1>4, <1>5, <1>6 DEF PastInv, Total
<1>9. BehindInv(r)'
  BY <1>1, <1>2, <1>3, <1>5, <1>6 DEF BehindInv, Total, Chunk
<1>10. FailedInv(r)'
  BY <1>3 DEF FailedInv
<1>. QED
  BY <1>7, <1>8, <1>9, <1>10

LEMMA OversizedIsAbsent ==
  ASSUME ReviewInv, NEW r \in Runs, Collect(r) \/ Step(r) \/ Ask(r) \/ Fault(r)
  PROVE  \A c \in 1..Total' : Oversized(chunks'[c]) => stage'[c] = "absent"
<1>1. chunks' = chunks
  BY OthersStay DEF patch
<1>2. \A c \in 1..Total : stage'[c] = stage[c] \/ (c = cursor[r] /\ pc[r] \in Holding)
  BY OwnChunkOnly
<1>3. pc[r] \in Holding => ~Oversized(chunks[cursor[r]])
  BY DEF ReviewInv, AtInv, Chunk
<1>. QED
  BY <1>1, <1>2, <1>3 DEF ReviewInv, Total

LEMMA StepInvariance ==
  ASSUME ReviewInv, [Next]_vars
  PROVE  ReviewInv'
<1>1. CASE UNCHANGED vars
  BY <1>1 DEF vars, patch, ReviewInv, TypeOK, AtInv, PastInv, BehindInv, FailedInv, Total, Chunk,
              Holding, Ended
<1>2. ASSUME NEW r \in Runs, Collect(r) \/ Step(r) \/ Ask(r) \/ Fault(r)
      PROVE ReviewInv'
  <2>1. TypeOK'
    BY <1>2, MoveTypes, RecordTypes DEF Step
  <2>2. AtInv(r)' /\ PastInv(r)' /\ BehindInv(r)' /\ FailedInv(r)'
    BY <1>2, MoverByMove, MoverBySkip, MoverByAsk, MoverByRecord DEF Step
  <2>3. \A q \in Runs : AtInv(q)' /\ PastInv(q)' /\ BehindInv(q)' /\ FailedInv(q)'
    BY <1>2, <2>2, OthersAreKept
  <2>4. \A c \in 1..Total' : Oversized(chunks'[c]) => stage'[c] = "absent"
    BY <1>2, OversizedIsAbsent
  <2>. QED
    BY <2>1, <2>3, <2>4 DEF ReviewInv
<1>. QED
  BY <1>1, <1>2 DEF Next

(* The inductive invariant: what a run is at, what it left behind, what it *)
(* made, and why a run fails.                                              *)
THEOREM ReviewInvariance == Spec => []ReviewInv
BY Initially, StepInvariance, PTL DEF Spec

(* Every variable keeps its type, and a chunk's lock is held by the one    *)
(* run that is inside it, whoever fails or dies.                           *)
THEOREM ReviewTypes == Spec => []TypeOK
<1>1. ReviewInv => TypeOK
  BY DEF ReviewInv
<1>. QED
  BY <1>1, ReviewInvariance, PTL

(* The chunks are the patch and stay it: split_patch_into_chunks loses no  *)
(* file and keeps their order, and what is above the cap is one file.      *)
THEOREM SplitIsThePatch == Spec => []ChunksAreThePatch
<1>1. Init => ChunksAreThePatch
  BY InitialPatch DEF Splits, ChunksAreThePatch, Total
<1>2. ReviewInv /\ ChunksAreThePatch /\ [Next]_vars => ChunksAreThePatch'
  <2>1. ASSUME ReviewInv, [Next]_vars PROVE UNCHANGED <<files, chunks>>
    BY <2>1, OthersStay DEF Next, vars, patch
  <2>. QED
    BY <2>1 DEF ChunksAreThePatch, Total
<1>. QED
  BY <1>1, <1>2, ReviewInvariance, PTL DEF Spec

(* A run that returns leaves no file behind: each is in a closed record or *)
(* reported, whatever ran beside it or died before it.                     *)
THEOREM FilesAreAccounted == Spec => []EveryFileIsAccounted
<1>1. ASSUME ReviewInv
      PROVE EveryFileIsAccounted
  <2>. USE <1>1 DEF ReviewInv
  <2>1. ASSUME NEW r \in Runs, pc[r] = "returned"
        PROVE \A c \in 1..Total :
                 IF Oversized(chunks[c]) THEN c \in skipped[r] /\ stage[c] = "absent"
                                         ELSE c \notin skipped[r] /\ stage[c] = "closed"
    BY <2>1 DEF TypeOK, FailedInv, BehindInv, Total
  <2>2. ASSUME NEW r \in Runs, pc[r] = "returned"
        PROVE ExitStatus(r) = 0 <=> \A c \in 1..Total : stage[c] = "closed"
    <3>1. skipped[r] \subseteq 1..Total
      BY DEF TypeOK
    <3>2. skipped[r] = {} <=> \A c \in 1..Total : stage[c] = "closed"
      BY <2>1, <2>2, <3>1
    <3>. QED
      BY <2>2, <3>2 DEF ExitStatus
  <2>. QED
    BY <2>1, <2>2 DEF EveryFileIsAccounted, FailedInv
<1>. QED
  BY <1>1, ReviewInvariance, PTL

-----------------------------------------------------------------------------
(* Every chunk's record is a ReviewRecord.                                 *)

LEMMA RecordStep ==
  ASSUME ReviewInv, NEW r \in Runs, Collect(r) \/ Step(r) \/ Ask(r) \/ Fault(r),
         NEW c \in 1..Total
  PROVE  \/ UNCHANGED <<stage[c], owner[c], asked[c], verdict[c]>>
         \/ ChunkRecord(c)!Claim(r)
         \/ ChunkRecord(c)!Ask(r)
         \/ \E v \in ChunkRecord(c)!Verdicts : ChunkRecord(c)!Decide(r, v)
         \/ ChunkRecord(c)!TakeOver(r)
         \/ ChunkRecord(c)!Abandon(r)
<1>. USE DEF records, Goto, CloseAs
<1>0. /\ stage \in [1..Total -> {"absent", "running", "closing", "closed"}]
      /\ owner \in [1..Total -> Runs \cup {Nobody}]
      /\ asked \in [1..Total -> SUBSET Runs]
      /\ DOMAIN verdict = 1..Total
      /\ pc[r] \in Holding => cursor[r] \in 1..Total
      /\ pc[r] = "reviewing" => stage[cursor[r]] = "running" /\ owner[cursor[r]] = r
      /\ pc[r] = "closing" => stage[cursor[r]] = "closing"
  BY DEF ReviewInv, TypeOK, AtInv
<1>a. pc[r] \in {"opening", "closing"} => owner[cursor[r]] # r
  <2>1. cursor[r] \in Int
    BY DEF ReviewInv, TypeOK
  <2>. QED
    BY <1>0, <2>1 DEF ReviewInv, PastInv, Holding, Ended
<1>1. CASE \/ Collect(r) \/ Skip(r) \/ Freeze(r) \/ Acquire(r) \/ Return(r) \/ Complete(r)
           \/ Fault(r)
  BY <1>1 DEF Collect, Skip, Freeze, Acquire, Return, Complete, Fault
<1>2. CASE Create(r)
  BY <1>0, <1>2 DEF Create, Holding, ChunkRecord!Claim
<1>3. CASE Ask(r)
  BY <1>0, <1>3 DEF Ask, Holding, ChunkRecord!Ask
<1>4. CASE Finish(r)
  BY <1>0, <1>4, OutcomeAssumption DEF Finish, Holding, ChunkRecord!Decide, ChunkRecord!Verdicts
<1>5. CASE Reopen(r)
  BY <1>0, <1>a, <1>5 DEF Reopen, Holding, ChunkRecord!TakeOver
<1>6. CASE Abandon(r)
  BY <1>0, <1>a, <1>6 DEF Abandon, Holding, ChunkRecord!Abandon
<1>. QED
  BY <1>1, <1>2, <1>3, <1>4, <1>5, <1>6 DEF Step

(* However often the command is repeated, at once or after it died, every  *)
(* chunk's record goes through the steps of ReviewRecord.                  *)
THEOREM ChunksImplementRecords == Spec => ChunksAreRecords
<1>1. ASSUME ReviewInv, [Next]_vars
      PROVE [\A c \in 1..Total : [ChunkRecord(c)!Next]_(ChunkRecord(c)!vars)]_vars
  <2>1. SUFFICES ASSUME NEW r \in Runs, Collect(r) \/ Step(r) \/ Ask(r) \/ Fault(r),
                        NEW c \in 1..Total
                 PROVE  [ChunkRecord(c)!Next]_(ChunkRecord(c)!vars)
    BY <1>1, Zenon DEF Next
  <2>. QED
    BY <1>1, <2>1, RecordStep DEF ChunkRecord!Next, ChunkRecord!vars
<1>. QED
  BY <1>1, ReviewInvariance, PTL DEF Spec, ChunksAreRecords

(* So no two runs ever ask reviewers about one chunk, and an ACCEPT or a   *)
(* CHANGE of a chunk rests on what its own run asked: for any number of    *)
(* invocations over any tree, by what one record promises alone.           *)
THEOREM ChunksKeepPromises == Spec => [](\A c \in 1..Total : ChunkRecord(c)!Promised)
<1>. DEFINE Kept == \A c \in 1..Total : ChunkRecord(c)!Promised
<1>1. Init => Kept
  BY DEF Init, ChunkRecord!Promised, ChunkRecord!Verdicts
<1>2. ReviewInv /\ Kept /\ [Next]_vars => Kept'
  <2>. SUFFICES ASSUME ReviewInv, Kept, [Next]_vars, NEW c \in 1..Total'
                 PROVE  ChunkRecord(c)!Promised'
    OBVIOUS
  <2>2. UNCHANGED chunks
    BY OthersStay DEF Next, vars, patch
  <2>3. c \in 1..Total /\ ChunkRecord(c)!Promised
    BY <2>2 DEF Total
  <2>4. CASE UNCHANGED <<stage[c], owner[c], asked[c], verdict[c]>>
    BY <2>3, <2>4 DEF ChunkRecord!Promised
  <2>5. CASE ~UNCHANGED <<stage[c], owner[c], asked[c], verdict[c]>>
    <3>1. PICK r \in Runs : Collect(r) \/ Step(r) \/ Ask(r) \/ Fault(r)
      BY <2>5 DEF Next, vars
    <3>2. \/ ChunkRecord(c)!Claim(r)
          \/ ChunkRecord(c)!Ask(r)
          \/ \E v \in ChunkRecord(c)!Verdicts : ChunkRecord(c)!Decide(r, v)
          \/ ChunkRecord(c)!TakeOver(r)
          \/ ChunkRecord(c)!Abandon(r)
      BY <2>3, <2>5, <3>1, RecordStep
    <3>. QED
      BY <2>3, <3>2 DEF ChunkRecord!Promised, ChunkRecord!Verdicts, ChunkRecord!Claim,
         ChunkRecord!Ask, ChunkRecord!Decide, ChunkRecord!TakeOver, ChunkRecord!Abandon
  <2>. QED
    BY <2>4, <2>5
<1>. QED
  BY <1>1, <1>2, ReviewInvariance, PTL DEF Spec

-----------------------------------------------------------------------------
(* The variant.                                                            *)

(* How far a run is from its end: four for each chunk that is left, and    *)
(* the steps the one it is at may take.                                    *)
Left(r) == 4 * (Total + 1 - cursor[r])
             + (CASE pc[r] = "idle" -> 5
                  [] pc[r] = "next" -> 4
                  [] pc[r] = "waiting" -> 3
                  [] pc[r] = "opening" -> 2
                  [] pc[r] \in {"reviewing", "closing"} -> 1
                  [] OTHER -> 0)

(* No run goes back: whatever it finds of other runs' records and however  *)
(* a chunk ends, each step but a reviewer call takes it nearer its end,    *)
(* and no step of another takes it further away.                           *)
RunsAdvance == [][\A r \in Runs : UNCHANGED <<pc[r], cursor[r]>> \/ Left(r)' < Left(r)]_vars

LEMMA RunAdvances ==
  ASSUME ReviewInv, NEW r \in Runs, Collect(r) \/ Step(r) \/ Fault(r)
  PROVE  Left(r)' < Left(r)
<1>0. /\ Total' = Total /\ Total \in Nat /\ cursor[r] \in 1..(Total + 1)
      /\ pc \in [Runs -> {"idle", "next", "waiting"} \cup Holding \cup Ended]
      /\ DOMAIN cursor = Runs
  BY OthersStay DEF ReviewInv, TypeOK, patch, Total
<1>1. CASE Collect(r)
  <2>1. pc[r] = "idle" /\ pc'[r] \in {"next", "refused"} /\ cursor' = cursor
    BY <1>0, <1>1 DEF Collect, Goto
  <2>. QED
    BY <1>0, <2>1 DEF Left
<1>2. CASE Skip(r) \/ Return(r) \/ Abandon(r) \/ Finish(r)
  <2>1. /\ pc[r] \in {"next", "opening", "closing", "reviewing"} /\ pc'[r] = "next"
        /\ cursor'[r] = cursor[r] + 1
    BY <1>0, <1>2 DEF Skip, Return, Abandon, Finish, CloseAs, Goto, Advance
  <2>. QED
    BY <1>0, <2>1 DEF Left
<1>3. CASE Freeze(r) \/ Acquire(r) \/ Create(r) \/ Reopen(r) \/ Complete(r)
  <2>1. cursor' = cursor
    BY <1>3 DEF Freeze, Acquire, Create, Reopen, Complete
  <2>2. \/ pc[r] = "next" /\ pc'[r] \in {"failed", "waiting", "returned"}
        \/ pc[r] = "waiting" /\ pc'[r] = "opening"
        \/ pc[r] = "opening" /\ pc'[r] \in {"reviewing", "closing"}
    BY <1>0, <1>3 DEF Freeze, Acquire, Create, Reopen, Complete, Goto
  <2>. QED
    BY <1>0, <2>1, <2>2 DEF Left
<1>4. CASE Fault(r)
  <2>1. /\ pc[r] \in {"next", "waiting", "opening", "reviewing", "closing"}
        /\ pc'[r] \in {"failed", "crashed"} /\ cursor' = cursor
    BY <1>0, <1>4 DEF Fault, Goto, Holding, Ended
  <2>. QED
    BY <1>0, <2>1 DEF Left
<1>. QED
  BY <1>1, <1>2, <1>3, <1>4 DEF Step

(* A run of N chunks takes at most 4N + 5 steps, its reviewer calls apart, *)
(* and no step of another gives any back, however their locks and records  *)
(* interleave: what no run can do is go over a chunk again.                *)
THEOREM RunsOnlyAdvance ==
  Spec => [](\A r \in Runs : Left(r) \in 0..(4 * Total + 5)) /\ RunsAdvance
<1>1. ReviewInv => \A r \in Runs : Left(r) \in 0..(4 * Total + 5)
  <2>. SUFFICES ASSUME ReviewInv, NEW r \in Runs
                PROVE  Left(r) \in 0..(4 * Total + 5)
    OBVIOUS
  <2>1. Total \in Nat /\ cursor[r] \in 1..(Total + 1)
    BY DEF ReviewInv, TypeOK, Total
  <2>. QED
    BY <2>1 DEF Left
<1>2. ASSUME ReviewInv, [Next]_vars
      PROVE  [\A r \in Runs : UNCHANGED <<pc[r], cursor[r]>> \/ Left(r)' < Left(r)]_vars
  <2>1. SUFFICES ASSUME NEW q \in Runs, Collect(q) \/ Step(q) \/ Ask(q) \/ Fault(q),
                        NEW r \in Runs
                 PROVE  UNCHANGED <<pc[r], cursor[r]>> \/ Left(r)' < Left(r)
    BY <1>2, Zenon DEF Next
  <2>2. CASE r # q
    BY <1>2, <2>1, <2>2, OthersStay DEF Keeps
  <2>3. CASE Ask(q)
    BY <2>3 DEF Ask
  <2>. QED
    BY <1>2, <2>1, <2>2, <2>3, RunAdvances
<1>. QED
  BY <1>1, <1>2, ReviewInvariance, PTL DEF Spec, RunsAdvance
=============================================================================
