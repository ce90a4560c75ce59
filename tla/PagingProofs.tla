----------------------------- MODULE PagingProofs -----------------------------
(***************************************************************************)
(* Lemmas about the page arithmetic of Paging: how many pages and full     *)
(* pages a token count makes, what a path is made of, and that the paths   *)
(* of a token sequence's prefixes are prefixes of its path.                *)
(***************************************************************************)
EXTENDS Paging, TLAPS

USE PageSizeAssumption

\* Full pages and needed pages of n tokens (pages_needed, _align_down).
LEMMA PageCounts ==
    ASSUME NEW n \in Nat
    PROVE  /\ FullPages(n) \in Nat
           /\ PagesNeeded(n) \in Nat
           /\ FullPages(n) <= PagesNeeded(n)
           /\ FullPages(n) * PageSize <= n
           /\ n < (FullPages(n) + 1) * PageSize
           /\ n <= PagesNeeded(n) * PageSize
  BY DEF FullPages, PagesNeeded

\* A page is among the full pages of n tokens iff its last token is.
LEMMA FullPagesIff ==
    ASSUME NEW n \in Nat, NEW i \in Nat
    PROVE  i <= FullPages(n) <=> i * PageSize <= n
  BY DEF FullPages

\* Whole pages only: k pages of tokens are k full pages and need k pages.
LEMMA WholePages ==
    ASSUME NEW k \in Nat
    PROVE  FullPages(k * PageSize) = k /\ PagesNeeded(k * PageSize) = k
  BY DEF FullPages, PagesNeeded

\* No tokens need no pages.
LEMMA NoPages == PagesNeeded(0) = 0
  <1>1. PagesNeeded(0 * PageSize) = 0
    BY WholePages
  <1>2. 0 * PageSize = 0
    OBVIOUS
  <1> QED BY <1>1, <1>2

\* More tokens have no fewer full pages.
LEMMA FullPagesMonotone ==
    ASSUME NEW m \in Nat, NEW n \in Nat, m <= n
    PROVE  FullPages(m) <= FullPages(n)
  BY DEF FullPages

\* A function from 1 .. n is a sequence of length n.
LEMMA FunctionIsSeq ==
    ASSUME NEW S, NEW n \in Nat, NEW f \in [1 .. n -> S]
    PROVE  f \in Seq(S) /\ Len(f) = n
  OBVIOUS

\* A sequence followed by another begins with the first.
LEMMA ConcatPrefix ==
    ASSUME NEW T, NEW s \in Seq(T), NEW t \in Seq(T)
    PROVE  /\ s \o t \in Seq(T) /\ Len(s \o t) = Len(s) + Len(t)
           /\ SubSeq(s \o t, 1, Len(s)) = s
  OBVIOUS

\* A token appended to the output is appended to prompt and output together.
LEMMA ConcatAppend ==
    ASSUME NEW T, NEW s \in Seq(T), NEW t \in Seq(T), NEW x \in T
    PROVE  /\ s \o Append(t, x) = Append(s \o t, x)
           /\ s \o t \in Seq(T)
  OBVIOUS

\* The i-th full page of a token sequence is the run of PageSize tokens up
\* to position i * PageSize.
LEMMA PathBlocks ==
    ASSUME NEW T, NEW s \in Seq(T)
    PROVE  /\ Blocks(s) \in Seq(Seq(T)) /\ Len(Blocks(s)) = PagesNeeded(Len(s))
           /\ PathOf(s) \in Seq(Seq(T))
           /\ Len(PathOf(s)) = FullPages(Len(s))
           /\ \A i \in 1 .. FullPages(Len(s)) :
                PathOf(s)[i] = SubSeq(s, (i - 1) * PageSize + 1, i * PageSize)
  <1> DEFINE n == Len(s)
             f == FullPages(n)
             block(i) == SubSeq(s, (i - 1) * PageSize + 1, Lesser(i * PageSize, n))
  <1>1. n \in Nat /\ f \in Nat /\ PagesNeeded(n) \in Nat /\ f <= PagesNeeded(n)
    BY PageCounts
  <1>2. ASSUME NEW i \in 1 .. PagesNeeded(n)
        PROVE  block(i) \in Seq(T)
    <2>1. (i - 1) * PageSize + 1 \in Nat \ {0}
      OBVIOUS
    <2>2. Lesser(i * PageSize, n) \in Nat /\ Lesser(i * PageSize, n) <= n
      BY DEF Lesser
    <2> QED BY <2>1, <2>2
  <1>3. /\ Blocks(s) \in Seq(Seq(T)) /\ Len(Blocks(s)) = PagesNeeded(n)
        /\ \A i \in 1 .. PagesNeeded(n) : Blocks(s)[i] = block(i)
    <2>1. Blocks(s) = [i \in 1 .. PagesNeeded(n) |-> block(i)]
      BY DEF Blocks
    <2> HIDE DEF block, n
    <2>2. Blocks(s) \in [1 .. PagesNeeded(n) -> Seq(T)]
      BY <2>1, <1>2
    <2> QED BY <1>1, <2>1, <2>2, FunctionIsSeq
  <1>4. /\ PathOf(s) \in Seq(Seq(T)) /\ Len(PathOf(s)) = f
        /\ \A i \in 1 .. f : PathOf(s)[i] = Blocks(s)[i]
    BY <1>1, <1>3 DEF PathOf, Upto
  <1>5. ASSUME NEW i \in 1 .. f
        PROVE  Lesser(i * PageSize, n) = i * PageSize
    BY FullPagesIff, <1>1 DEF Lesser
  <1>6. ASSUME NEW i \in 1 .. f
        PROVE  PathOf(s)[i] = SubSeq(s, (i - 1) * PageSize + 1, i * PageSize)
    <2>1. PathOf(s)[i] = block(i)
      BY <1>1, <1>3, <1>4
    <2> QED BY <1>5, <2>1
  <1> QED BY <1>3, <1>4, <1>6

\* Prefixes of a token sequence have prefixes of its path for paths: what a
\* request has committed stays on the path of what it commits later.
LEMMA PathMonotone ==
    ASSUME NEW T, NEW s \in Seq(T), NEW m \in 0 .. Len(s), NEW n \in 0 .. m
    PROVE  Covers(PathOf(SubSeq(s, 1, m)), PathOf(SubSeq(s, 1, n)))
  <1> DEFINE p == PathOf(SubSeq(s, 1, m))
             q == PathOf(SubSeq(s, 1, n))
  <1>1. SubSeq(s, 1, m) \in Seq(T) /\ Len(SubSeq(s, 1, m)) = m
    OBVIOUS
  <1>2. SubSeq(s, 1, n) \in Seq(T) /\ Len(SubSeq(s, 1, n)) = n
    OBVIOUS
  <1>3. /\ p \in Seq(Seq(T)) /\ Len(p) = FullPages(m)
        /\ \A i \in 1 .. FullPages(m) :
             p[i] = SubSeq(SubSeq(s, 1, m), (i - 1) * PageSize + 1, i * PageSize)
    BY <1>1, PathBlocks
  <1>4. /\ q \in Seq(Seq(T)) /\ Len(q) = FullPages(n)
        /\ \A i \in 1 .. FullPages(n) :
             q[i] = SubSeq(SubSeq(s, 1, n), (i - 1) * PageSize + 1, i * PageSize)
    BY <1>2, PathBlocks
  <1> HIDE DEF p, q
  <1>5. Len(q) <= Len(p) /\ Len(q) \in Nat /\ Len(q) = FullPages(n)
    BY <1>3, <1>4, FullPagesMonotone, PageCounts
  <1>6. ASSUME NEW i \in 1 .. Len(q)
        PROVE  p[i] = q[i]
    <2>1. i * PageSize <= n
      BY <1>5, FullPagesIff
    <2>2. i - 1 \in Nat /\ (i - 1) * PageSize + 1 \in Nat \ {0}
      OBVIOUS
    <2> DEFINE l == (i - 1) * PageSize + 1
               u == i * PageSize
    <2>3. u \in Nat /\ u <= n
      BY <2>1
    <2>4. SubSeq(SubSeq(s, 1, m), l, u) = SubSeq(SubSeq(s, 1, n), l, u)
      <3> HIDE DEF l, u
      <3> QED BY <2>2, <2>3 DEF l
    <2>5. i \in 1 .. FullPages(n) /\ i \in 1 .. FullPages(m)
      BY <1>3, <1>4, <1>5, PageCounts
    <2>6. p[i] = SubSeq(SubSeq(s, 1, m), l, u)
      BY <1>3, <2>5
    <2>7. q[i] = SubSeq(SubSeq(s, 1, n), l, u)
      BY <1>4, <2>5
    <2> QED BY <2>4, <2>6, <2>7
  <1>7. Upto(p, Len(q)) = q
    BY <1>3, <1>4, <1>5, <1>6 DEF Upto
  <1> QED BY <1>5, <1>7 DEF Covers, p, q

\* Prefixes of one path of different lengths are different.
LEMMA PrefixLengths ==
    ASSUME NEW T, NEW p \in Seq(T), NEW i \in 0 .. Len(p)
    PROVE  /\ Upto(p, i) \in Seq(T) /\ Len(Upto(p, i)) = i
           /\ Covers(p, Upto(p, i))
           /\ \A j \in 0 .. i : Upto(Upto(p, i), j) = Upto(p, j)
  BY DEF Upto, Covers

\* A prefix of a prefix is a prefix.
LEMMA CoversTransitive ==
    ASSUME NEW T, NEW p \in Seq(T), NEW q \in Seq(T), NEW o \in Seq(T),
           Covers(p, q), Covers(q, o)
    PROVE  Covers(p, o)
  BY DEF Upto, Covers
===============================================================================
