--------------------------- MODULE RadixCacheProofs ---------------------------
(***************************************************************************)
(* Lemmas about the radix tree of RadixCache, for every tree of the right  *)
(* shape: which page it maps a path to, and what a walk, an insertion, an  *)
(* eviction and a change of reference counts do to that map.               *)
(*                                                                         *)
(* A path is held by the one node whose edge it ends in; the map sends it  *)
(* to the page its holder has for it.  So an operation is understood by    *)
(* what it does to holders: splitting an edge divides the paths of one     *)
(* holder between two, inserting adds a holder, evicting takes some away.  *)
(***************************************************************************)
EXTENDS RadixCache, PagingProofs, FiniteSetTheorems, WellFoundedInduction

\* The paths the tree has, and the page it maps each of them to.
PathsIn(t) == UNION {{Upto(n, i) : i \in 1 .. Len(n)} : n \in Nodes(t)}

MapOf(t) ==
    [p \in PathsIn(t) |->
        LET n == CHOOSE n \in Nodes(t) : Covers(n, p)
        IN  PagesForNode(t, n)[Len(p)]]

\* The pages a map has for the first k paths on the way to p.
PagesUpto(f, p, k) == [i \in 1 .. k |-> f[Upto(p, i)]]

\* A map without the paths of F.
Without(f, F) == [p \in DOMAIN f \ F |-> f[p]]

\* p ends in the edge into n, and the paths that end in the edges of E.
Holds(t, n, p) == n \in Nodes(t) /\ Covers(n, p) /\ ParentLen(t, n) < Len(p)
HeldBy(t, E) == {p \in PathsIn(t) : \E n \in E : Holds(t, n, p)}

\* Two nodes that part after at least one page do so at a node.
Branching(t) ==
    \A m, n \in Nodes(t) : \A k \in 1 .. Len(m) - 1 :
        k < Len(n) /\ Upto(m, k) = Upto(n, k) /\ m[k + 1] # n[k + 1]
            => Upto(m, k) \in Nodes(t)

\* A tree whose nodes are paths over the blocks of B and hold pages of G.
NodeOver(G, L) == [pages : Seq(G), ref_count : Int, last_access : L]

TreeOver(B, G, t) ==
    /\ Nodes(t) \subseteq Seq(B) \ {Root} /\ IsFiniteSet(Nodes(t))
    /\ \E L : t \in [Nodes(t) -> NodeOver(G, L)]

RadixTree(B, G, t) ==
    /\ TreeOver(B, G, t) /\ Branching(t)
    /\ \A n \in Nodes(t) : Len(t[n].pages) = Len(n) - ParentLen(t, n)

-------------------------------------------------------------------------------
(* Prefixes. *)

\* A non-empty set of numbers has a least one: what stands in for induction here.
LEMMA Least ==
    ASSUME NEW T, T \subseteq Nat, T # {}
    PROVE  \E x \in T : \A y \in T : x <= y
  <1>1. IsWellFoundedOn(OpToRel(<, Nat), Nat)
    BY NatLessThanWellFounded
  <1>2. PICK x \in T : \A y \in T : ~(<<y, x>> \in OpToRel(<, Nat))
    BY <1>1, WFMin
  <1>3. \A y \in T : ~(y < x)
    BY <1>2 DEF OpToRel
  <1> QED BY <1>3

\* A set of numbers up to n has a greatest one.
LEMMA Greatest ==
    ASSUME NEW n \in Nat, NEW T, T \subseteq 0 .. n, T # {}
    PROVE  \E x \in T : \A y \in T : y <= x
  <1> DEFINE D == {n - x : x \in T}
  <1>1. D \subseteq Nat /\ D # {}
    <2>1. \A x \in T : x \in Nat /\ x <= n
      OBVIOUS
    <2>2. \A x \in T : n - x \in Nat
      BY <2>1
    <2> QED BY <2>2
  <1>2. PICK d \in D : \A e \in D : d <= e
    BY <1>1, Least
  <1>3. PICK x \in T : d = n - x
    BY <1>2
  <1>4. \A y \in T : n - x <= n - y
    BY <1>2, <1>3
  <1>5. \A y \in T : y <= x
    BY <1>4
  <1> QED BY <1>5

\* The values of a function on a finite set are finite in number, and as many
\* as its arguments if it is injective.
LEMMA FiniteImage ==
    ASSUME NEW S, IsFiniteSet(S), NEW T, NEW f \in [S -> T], T = {f[x] : x \in S}
    PROVE  /\ IsFiniteSet(T)
           /\ (\A x, y \in S : f[x] = f[y] => x = y) => Cardinality(T) = Cardinality(S)
  <1>1. f \in Surjection(S, T)
    BY DEF Surjection
  <1>2. (\A x, y \in S : f[x] = f[y] => x = y) => f \in Injection(S, T)
    BY DEF Injection, IsInjective
  <1> QED BY <1>1, <1>2, FS_Surjection

\* p is a prefix of q when they agree on every block of p.
LEMMA CoversIff ==
    ASSUME NEW B, NEW p \in Seq(B), NEW q \in Seq(B)
    PROVE  Covers(q, p) <=> Len(p) <= Len(q) /\ \A i \in 1 .. Len(p) : q[i] = p[i]
  <1>1. ASSUME Len(p) <= Len(q)
        PROVE  /\ Upto(q, Len(p)) \in Seq(B) /\ Len(Upto(q, Len(p))) = Len(p)
               /\ \A i \in 1 .. Len(p) : Upto(q, Len(p))[i] = q[i]
    BY <1>1 DEF Upto
  <1>2. ASSUME Len(p) <= Len(q), \A i \in 1 .. Len(p) : q[i] = p[i]
        PROVE  Upto(q, Len(p)) = p
    BY <1>1, <1>2
  <1> QED BY <1>1, <1>2 DEF Covers

\* A prefix of a path has the length asked for and the path's blocks.
LEMMA UptoFacts ==
    ASSUME NEW B, NEW p \in Seq(B), NEW i \in 0 .. Len(p)
    PROVE  /\ Upto(p, i) \in Seq(B) /\ Len(Upto(p, i)) = i
           /\ \A j \in 1 .. i : Upto(p, i)[j] = p[j]
  BY DEF Upto

\* Prefixes of equal length agree when their blocks do.
LEMMA SameUpto ==
    ASSUME NEW B, NEW p \in Seq(B), NEW q \in Seq(B),
           NEW k \in Nat, k <= Len(p), k <= Len(q)
    PROVE  Upto(p, k) = Upto(q, k) <=> \A i \in 1 .. k : p[i] = q[i]
  <1>1. k \in 0 .. Len(p) /\ k \in 0 .. Len(q)
    OBVIOUS
  <1>2. /\ Upto(p, k) \in Seq(B) /\ Len(Upto(p, k)) = k
        /\ \A j \in 1 .. k : Upto(p, k)[j] = p[j]
    BY <1>1, UptoFacts
  <1>3. /\ Upto(q, k) \in Seq(B) /\ Len(Upto(q, k)) = k
        /\ \A j \in 1 .. k : Upto(q, k)[j] = q[j]
    BY <1>1, UptoFacts
  <1> QED BY <1>2, <1>3

\* Of two prefixes of the same path, the shorter is a prefix of the longer.
LEMMA PrefixesNest ==
    ASSUME NEW B, NEW p \in Seq(B), NEW q \in Seq(B), NEW o \in Seq(B),
           Covers(o, p), Covers(o, q), Len(q) <= Len(p)
    PROVE  Covers(p, q)
  BY CoversIff

\* A prefix as long as the whole is the whole.
LEMMA WholePrefix ==
    ASSUME NEW B, NEW p \in Seq(B), NEW q \in Seq(B), Covers(q, p), Len(q) <= Len(p)
    PROVE  p = q
  BY CoversIff

\* A path covers itself and the root; only the root has length 0.
LEMMA CoversFacts ==
    ASSUME NEW B, NEW p \in Seq(B)
    PROVE  /\ Covers(p, p) /\ Covers(p, Root) /\ Upto(p, Len(p)) = p /\ Upto(p, 0) = Root
           /\ (Covers(Root, p) => p = Root)
           /\ (p # Root <=> Len(p) > 0)
  <1>1. Upto(p, Len(p)) = p /\ Upto(p, 0) = <<>>
    BY DEF Upto
  <1>2. Len(<<>>) = 0 /\ (p # <<>> <=> Len(p) > 0) /\ Len(p) \in Nat
    OBVIOUS
  <1> QED BY <1>1, <1>2 DEF Covers, Root

\* The common prefix of two paths: CommonLen is its length, and both go on
\* differently from there unless one of them ends.
LEMMA CommonPrefix ==
    ASSUME NEW B, NEW p \in Seq(B), NEW q \in Seq(B)
    PROVE  /\ CommonLen(p, q) \in 0 .. Lesser(Len(p), Len(q))
           /\ Upto(p, CommonLen(p, q)) = Upto(q, CommonLen(p, q))
           /\ \/ CommonLen(p, q) = Lesser(Len(p), Len(q))
              \/ p[CommonLen(p, q) + 1] # q[CommonLen(p, q) + 1]
  <1> DEFINE l == Lesser(Len(p), Len(q))
             Agree(k) == Upto(p, k) = Upto(q, k)
             T == {k \in 0 .. l : Agree(k)}
  <1>1. l \in Nat /\ l <= Len(p) /\ l <= Len(q)
    BY DEF Lesser
  <1>2. \A k \in 0 .. l : Agree(k) <=> \A i \in 1 .. k : p[i] = q[i]
    BY <1>1, SameUpto
  <1> HIDE DEF l, Agree
  <1>3. 0 \in T
    BY <1>1, <1>2
  <1>4. PICK k \in T : \A j \in T : j <= k
    BY <1>1, <1>3, Greatest
  <1>5. k \in 0 .. l /\ Agree(k)
    BY <1>4
  <1>6. k = l \/ p[k + 1] # q[k + 1]
    <2> SUFFICES ASSUME k # l, p[k + 1] = q[k + 1]
                 PROVE  FALSE
      OBVIOUS
    <2>1. k + 1 \in 0 .. l
      BY <1>1, <1>5
    <2>2. \A i \in 1 .. k + 1 : i \in 1 .. k \/ i = k + 1
      BY <1>5
    <2>3. \A i \in 1 .. k + 1 : p[i] = q[i]
      BY <2>2, <1>5, <1>2
    <2>4. k + 1 \in T
      BY <2>1, <2>3, <1>2
    <2> QED BY <2>4, <1>4, <1>5
  <1>7. \E j \in 0 .. l : Agree(j) /\ (j = l \/ p[j + 1] # q[j + 1])
    BY <1>5, <1>6
  <1> USE DEF l, Agree
  <1> QED BY <1>7 DEF CommonLen

\* Two paths that share a prefix, neither a prefix of the other, part at some
\* block after it.
LEMMA Part ==
    ASSUME NEW B, NEW p \in Seq(B), NEW q \in Seq(B), NEW o \in Seq(B),
           Covers(p, o), Covers(q, o), ~Covers(p, q), ~Covers(q, p)
    PROVE  \E k \in Nat : /\ Len(o) <= k /\ k < Len(p) /\ k < Len(q)
                          /\ Upto(p, k) = Upto(q, k) /\ p[k + 1] # q[k + 1]
  <1> DEFINE k == CommonLen(p, q)
  <1>1. /\ k \in 0 .. Lesser(Len(p), Len(q))
        /\ Upto(p, k) = Upto(q, k)
        /\ k = Lesser(Len(p), Len(q)) \/ p[k + 1] # q[k + 1]
    BY CommonPrefix
  <1> HIDE DEF k
  <1>2. k \in Nat /\ k <= Len(p) /\ k <= Len(q) /\ Len(p) \in Nat /\ Len(q) \in Nat
    BY <1>1 DEF Lesser
  <1>3. k # Len(p) /\ k # Len(q)
    <2>1. \A i \in 1 .. k : p[i] = q[i]
      BY <1>1, <1>2, SameUpto
    <2> QED BY <2>1, <1>2, CoversIff
  <1>4. k < Len(p) /\ k < Len(q) /\ p[k + 1] # q[k + 1]
    BY <1>1, <1>2, <1>3 DEF Lesser
  <1>5. Len(o) <= k
    <2> SUFFICES ASSUME k < Len(o)
                 PROVE  FALSE
      BY <1>2
    <2>1. k + 1 \in 1 .. Len(o)
      BY <1>2
    <2> QED BY <2>1, <1>4, CoversIff
  <1> QED BY <1>1, <1>2, <1>4, <1>5

-------------------------------------------------------------------------------
(* Parents and holders. *)

\* Where a node's edge starts: after the longest other node on its path.
StartsAt(t, n, k) ==
    /\ k \in 0 .. Len(n) - 1
    /\ k = 0 \/ Upto(n, k) \in Nodes(t)
    /\ \A j \in k + 1 .. Len(n) - 1 : Upto(n, j) \notin Nodes(t)

\* CHOOSE in ParentLen finds what it looks for: where the edge to n starts.
LEMMA ParentExists ==
    ASSUME NEW B, NEW t, NEW n \in Seq(B) \ {Root}
    PROVE  StartsAt(t, n, ParentLen(t, n))
  <1> DEFINE T == {k \in 0 .. Len(n) - 1 : k = 0 \/ Upto(n, k) \in Nodes(t)}
  <1>1. Len(n) \in Nat /\ Len(n) > 0
    BY CoversFacts
  <1>2. 0 \in T
    BY <1>1
  <1>3. Len(n) - 1 \in Nat /\ T \subseteq 0 .. Len(n) - 1
    BY <1>1
  <1>4. PICK k \in T : \A j \in T : j <= k
    BY <1>2, <1>3, Greatest
  <1>5. \A j \in k + 1 .. Len(n) - 1 : Upto(n, j) \notin Nodes(t)
    <2> SUFFICES ASSUME NEW j \in k + 1 .. Len(n) - 1, Upto(n, j) \in Nodes(t)
                 PROVE  FALSE
      OBVIOUS
    <2>1. k \in 0 .. Len(n) - 1
      BY <1>4
    <2>2. j \in 0 .. Len(n) - 1 /\ j > k
      BY <2>1, <1>1
    <2> QED BY <2>2, <2>1, <1>4
  <1>6. StartsAt(t, n, k)
    BY <1>4, <1>5 DEF StartsAt
  <1> QED BY <1>6 DEF ParentLen, StartsAt

\* An edge starts in one place only, so whoever shows k to be one has ParentLen.
LEMMA ParentIs ==
    ASSUME NEW B, NEW t, NEW n \in Seq(B) \ {Root}, NEW k, StartsAt(t, n, k)
    PROVE  ParentLen(t, n) = k
  <1> DEFINE j == ParentLen(t, n)
  <1>1. StartsAt(t, n, j)
    BY ParentExists
  <1>2. Len(n) \in Nat
    OBVIOUS
  <1> HIDE DEF j
  <1>3. ~(j < k) /\ ~(k < j)
    BY <1>1, <1>2 DEF StartsAt
  <1>4. j = k
    BY <1>1, <1>2, <1>3 DEF StartsAt
  <1> QED BY <1>4 DEF j

\* An edge has at least a page, and every other node on the way to n is at or above
\* n's parent.
LEMMA ParentFacts ==
    ASSUME NEW B, NEW t, Nodes(t) \subseteq Seq(B) \ {Root}, NEW n \in Nodes(t)
    PROVE  /\ n \in Seq(B) /\ n # Root /\ Len(n) \in Nat /\ Len(n) > 0
           /\ ParentLen(t, n) \in Nat /\ ParentLen(t, n) < Len(n)
           /\ ParentLen(t, n) = 0 \/ Upto(n, ParentLen(t, n)) \in Nodes(t)
           /\ \A m \in Nodes(t) : Covers(n, m) => m = n \/ Len(m) <= ParentLen(t, n)
  <1>1. n \in Seq(B) /\ n # Root /\ Len(n) \in Nat /\ Len(n) > 0
    BY CoversFacts
  <1>2. StartsAt(t, n, ParentLen(t, n))
    BY <1>1, ParentExists
  <1>3. /\ ParentLen(t, n) \in Nat /\ ParentLen(t, n) < Len(n)
        /\ ParentLen(t, n) = 0 \/ Upto(n, ParentLen(t, n)) \in Nodes(t)
        /\ \A j \in ParentLen(t, n) + 1 .. Len(n) - 1 : Upto(n, j) \notin Nodes(t)
    BY <1>1, <1>2 DEF StartsAt
  <1>4. ASSUME NEW m \in Nodes(t), Covers(n, m), m # n, Len(m) > ParentLen(t, n)
        PROVE  FALSE
    <2>1. m \in Seq(B) /\ Len(m) \in Nat /\ Len(m) <= Len(n) /\ Upto(n, Len(m)) = m
      BY <1>4 DEF Covers
    <2>2. Len(m) # Len(n)
      BY <2>1, <1>1, <1>4, WholePrefix
    <2> QED BY <2>1, <2>2, <1>1, <1>3, <1>4
  <1>5. \A m \in Nodes(t) : Len(m) \in Nat
    OBVIOUS
  <1> QED BY <1>1, <1>3, <1>4, <1>5

\* The paths of a tree are the non-empty prefixes of its nodes.
LEMMA PathFacts ==
    ASSUME NEW B, NEW t, Nodes(t) \subseteq Seq(B) \ {Root}
    PROVE  /\ \A p \in PathsIn(t) : p \in Seq(B) /\ p # Root /\ Len(p) > 0
           /\ \A p \in Seq(B) : p \in PathsIn(t) <=> p # Root /\ \E n \in Nodes(t) : Covers(n, p)
  <1>1. ASSUME NEW n \in Nodes(t), NEW i \in 1 .. Len(n)
        PROVE  Upto(n, i) \in Seq(B) /\ Upto(n, i) # Root /\ Covers(n, Upto(n, i))
               /\ Len(Upto(n, i)) > 0
    <2>1. n \in Seq(B) /\ i \in 0 .. Len(n) /\ i > 0
      OBVIOUS
    <2>2. Upto(n, i) \in Seq(B) /\ Len(Upto(n, i)) = i /\ Covers(n, Upto(n, i))
      BY <2>1, PrefixLengths
    <2> QED BY <2>1, <2>2, CoversFacts
  <1>2. \A p \in PathsIn(t) : \E n \in Nodes(t) : \E i \in 1 .. Len(n) : p = Upto(n, i)
    BY DEF PathsIn
  <1>3. ASSUME NEW p \in Seq(B), p # Root, NEW n \in Nodes(t), Covers(n, p)
        PROVE  p \in PathsIn(t)
    <2>1. Len(p) \in 1 .. Len(n) /\ p = Upto(n, Len(p))
      BY <1>3, CoversFacts DEF Covers
    <2> QED BY <2>1 DEF PathsIn
  <1> QED BY <1>1, <1>2, <1>3

\* Every path of the tree has one holder, and any node on whose path it lies
\* is the holder or below it.
LEMMA HolderExists ==
    ASSUME NEW B, NEW t, Nodes(t) \subseteq Seq(B) \ {Root}, Branching(t),
           NEW p \in PathsIn(t)
    PROVE  \E h \in Nodes(t) : /\ Holds(t, h, p)
                               /\ \A n \in Nodes(t) : Covers(n, p) => Covers(n, h)
                               /\ \A n : Holds(t, n, p) => n = h
  <1> DEFINE T == {Len(n) : n \in {n \in Nodes(t) : Covers(n, p)}}
  <1>1. p \in Seq(B) /\ p # Root /\ Len(p) > 0 /\ \E n \in Nodes(t) : Covers(n, p)
    BY PathFacts
  <1>2. T \subseteq Nat /\ T # {}
    <2>1. \A n \in Nodes(t) : Len(n) \in Nat
      BY ParentFacts
    <2> QED BY <2>1, <1>1
  <1>3. PICK l \in T : \A k \in T : l <= k
    BY <1>2, Least
  <1>4. PICK h \in Nodes(t) : Covers(h, p) /\ Len(h) = l
    BY <1>3
  <1>5. \A n \in Nodes(t) : Covers(n, p) => Len(h) <= Len(n)
    BY <1>3, <1>4
  <1> HIDE DEF T
  <1>6. h \in Seq(B) /\ h # Root /\ Len(h) \in Nat /\ Len(p) <= Len(h) /\ Len(p) \in Nat
    BY <1>1, <1>4 DEF Covers
  <1>7. ParentLen(t, h) < Len(p)
    <2> DEFINE k == ParentLen(t, h)
               o == Upto(h, k)
    <2>1. k \in Nat /\ k < Len(h) /\ (k = 0 \/ o \in Nodes(t))
      BY ParentFacts
    <2> SUFFICES ASSUME k >= Len(p)
                 PROVE  FALSE
      BY <2>1, <1>6
    <2>2. k \in 0 .. Len(h) /\ k > 0
      BY <2>1, <1>6, <1>1
    <2>3. o \in Seq(B) /\ Len(o) = k /\ Covers(h, o)
      BY <2>2, <1>6, PrefixLengths
    <2>4. Covers(o, p)
      BY <2>3, <1>1, <1>4, <1>6, PrefixesNest
    <2> QED BY <2>1, <2>2, <2>3, <2>4, <1>5, <1>6
  <1>8. ASSUME NEW n \in Nodes(t), Covers(n, p)
        PROVE  Covers(n, h)
    <2> SUFFICES ASSUME ~Covers(n, h)
                 PROVE  FALSE
      OBVIOUS
    <2>1. n \in Seq(B) /\ Len(n) \in Nat /\ Len(h) <= Len(n)
      BY <1>5, <1>8
    <2>2. ~Covers(h, n)
      <3> SUFFICES ASSUME Covers(h, n)
                   PROVE  FALSE
        OBVIOUS
      <3>1. n = h
        BY <2>1, <1>6, WholePrefix
      <3> QED BY <3>1, <1>6, CoversFacts
    <2>3. PICK k \in Nat : /\ Len(p) <= k /\ k < Len(h) /\ k < Len(n)
                           /\ Upto(h, k) = Upto(n, k) /\ h[k + 1] # n[k + 1]
      BY <1>1, <1>4, <1>6, <1>8, <2>1, <2>2, Part
    <2>4. Upto(h, k) \in Nodes(t)
      <3>1. k \in 1 .. Len(h) - 1
        BY <2>3, <1>1, <1>6
      <3> QED BY <3>1, <2>3 DEF Branching
    <2>5. k \in 0 .. Len(h)
      BY <2>3
    <2>6. Upto(h, k) \in Seq(B) /\ Len(Upto(h, k)) = k /\ Covers(h, Upto(h, k))
      BY <2>5, <1>6, PrefixLengths
    <2>7. Covers(Upto(h, k), p)
      BY <2>3, <2>6, <1>1, <1>4, <1>6, PrefixesNest
    <2> QED BY <2>3, <2>4, <2>6, <2>7, <1>5, <1>6
  <1>9. ASSUME NEW n, Holds(t, n, p)
        PROVE  n = h
    <2>1. n \in Nodes(t) /\ Covers(n, p) /\ ParentLen(t, n) < Len(p)
      BY <1>9 DEF Holds
    <2>2. Covers(n, h)
      BY <2>1, <1>8
    <2>3. h = n \/ Len(h) <= ParentLen(t, n)
      BY <2>1, <2>2, ParentFacts
    <2>4. ParentLen(t, n) \in Nat
      BY <2>1, ParentFacts
    <2> QED BY <2>1, <2>3, <2>4, <1>6
  <1> QED BY <1>4, <1>7, <1>8, <1>9 DEF Holds

\* The nodes on the way to n that pages_for_node collects from: the page it
\* lists for a path is the holder's.
LEMMA PagesAre ==
    ASSUME NEW B, NEW t, Nodes(t) \subseteq Seq(B) \ {Root}, Branching(t),
           NEW n \in Nodes(t), NEW i \in 1 .. Len(n), NEW h, Holds(t, h, Upto(n, i))
    PROVE  PagesForNode(t, n)[i] = t[h].pages[i - ParentLen(t, h)]
  <1> DEFINE p == Upto(n, i)
  <1>1. n \in Seq(B) /\ Len(n) \in Nat /\ i \in 0 .. Len(n) /\ i > 0
    BY ParentFacts
  <1>2. p \in Seq(B) /\ Len(p) = i /\ Covers(n, p)
    BY <1>1, PrefixLengths
  <1>3. p # Root
    BY <1>1, <1>2, CoversFacts
  <1>4. p \in PathsIn(t)
    BY <1>2, <1>3, PathFacts
  <1> HIDE DEF p
  <1>5. h \in Nodes(t) /\ Covers(h, p) /\ ParentLen(t, h) < i
    BY <1>2 DEF Holds, p
  <1>6. Covers(n, h) /\ \A m : Holds(t, m, p) => m = h
    <2>1. PICK g \in Nodes(t) : /\ Holds(t, g, p)
                                /\ \A m \in Nodes(t) : Covers(m, p) => Covers(m, g)
                                /\ \A m : Holds(t, m, p) => m = g
      BY <1>4, HolderExists
    <2>2. Holds(t, h, p)
      BY <1>5, <1>2 DEF Holds
    <2> QED BY <2>1, <2>2, <1>2
  <1>7. i <= Len(h)
    BY <1>2, <1>5 DEF Covers
  <1>8. ASSUME NEW m \in Nodes(t), Covers(n, m), ParentLen(t, m) < i, i <= Len(m)
        PROVE  m = h
    <2>1. m \in Seq(B)
      OBVIOUS
    <2>2. Covers(m, p)
      BY <2>1, <1>1, <1>2, <1>8, PrefixesNest
    <2> QED BY <2>2, <1>2, <1>6, <1>8 DEF Holds
  <1>9. (CHOOSE m \in Nodes(t) : Covers(n, m) /\ ParentLen(t, m) < i /\ i <= Len(m)) = h
    BY <1>5, <1>6, <1>7, <1>8
  <1> QED BY <1>9 DEF PagesForNode

\* The page a path is mapped to is the one the node that holds it has for it.
LEMMA MapAt ==
    ASSUME NEW B, NEW t, Nodes(t) \subseteq Seq(B) \ {Root}, Branching(t),
           NEW p \in PathsIn(t), NEW h, Holds(t, h, p)
    PROVE  MapOf(t)[p] = t[h].pages[Len(p) - ParentLen(t, h)]
  <1>1. PICK n \in Nodes(t) : n = CHOOSE m \in Nodes(t) : Covers(m, p)
    BY PathFacts
  <1>2. Covers(n, p)
    BY <1>1, PathFacts
  <1>3. p \in Seq(B) /\ Len(p) > 0
    BY PathFacts
  <1>4. Len(p) \in 1 .. Len(n) /\ Upto(n, Len(p)) = p
    BY <1>2, <1>3 DEF Covers
  <1>5. PagesForNode(t, n)[Len(p)] = t[h].pages[Len(p) - ParentLen(t, h)]
    BY <1>4, PagesAre
  <1> QED BY <1>1, <1>5 DEF MapOf

\* What a match hands out for a node (_pages_for_node) is the pages of its prefixes.
LEMMA MapOfNode ==
    ASSUME NEW B, NEW t, Nodes(t) \subseteq Seq(B) \ {Root}, Branching(t),
           NEW n \in Nodes(t) \cup {Root}
    PROVE  PagesForNode(t, n) = PagesUpto(MapOf(t), n, Len(n))
  <1>1. CASE n = Root
    <2>1. Len(n) = 0
      BY <1>1 DEF Root
    <2>2. 1 .. Len(n) = {}
      BY <2>1
    <2> QED BY <2>2 DEF PagesForNode, PagesUpto
  <1>2. CASE n \in Nodes(t)
    <2>1. ASSUME NEW i \in 1 .. Len(n)
          PROVE  PagesForNode(t, n)[i] = MapOf(t)[Upto(n, i)]
      <3>1. n \in Seq(B) /\ i \in 0 .. Len(n) /\ i > 0
        BY <1>2
      <3>2. Upto(n, i) \in Seq(B) /\ Len(Upto(n, i)) = i /\ Covers(n, Upto(n, i))
        BY <3>1, PrefixLengths
      <3>3. Upto(n, i) \in PathsIn(t)
        BY <1>2, <3>1, <3>2, CoversFacts, PathFacts
      <3>4. PICK h \in Nodes(t) : Holds(t, h, Upto(n, i))
        BY <3>3, HolderExists
      <3>5. PagesForNode(t, n)[i] = t[h].pages[i - ParentLen(t, h)]
        BY <1>2, <3>4, PagesAre
      <3>6. MapOf(t)[Upto(n, i)] = t[h].pages[i - ParentLen(t, h)]
        BY <3>2, <3>3, <3>4, MapAt
      <3> QED BY <3>5, <3>6
    <2>2. PagesForNode(t, n) = [i \in 1 .. Len(n) |-> PagesForNode(t, n)[i]]
      BY DEF PagesForNode
    <2> QED BY <2>1, <2>2 DEF PagesUpto
  <1> QED BY <1>1, <1>2

\* Two trees with the same paths, whose holders have the same pages for them,
\* are the same map.
LEMMA SameMap ==
    ASSUME NEW B, NEW t, Nodes(t) \subseteq Seq(B) \ {Root}, Branching(t),
           NEW u, Nodes(u) \subseteq Seq(B) \ {Root}, Branching(u),
           PathsIn(u) = PathsIn(t),
           \A p \in PathsIn(t) : \E g, h :
                /\ Holds(t, g, p) /\ Holds(u, h, p)
                /\ t[g].pages[Len(p) - ParentLen(t, g)] = u[h].pages[Len(p) - ParentLen(u, h)]
    PROVE  MapOf(u) = MapOf(t)
  <1>1. ASSUME NEW p \in PathsIn(t)
        PROVE  MapOf(u)[p] = MapOf(t)[p]
    <2>1. PICK g, h :
                /\ Holds(t, g, p) /\ Holds(u, h, p)
                /\ t[g].pages[Len(p) - ParentLen(t, g)] = u[h].pages[Len(p) - ParentLen(u, h)]
      OBVIOUS
    <2>2. MapOf(t)[p] = t[g].pages[Len(p) - ParentLen(t, g)]
      BY <2>1, MapAt
    <2>3. p \in PathsIn(u) /\ Holds(u, h, p)
      BY <2>1
    <2>4. MapOf(u)[p] = u[h].pages[Len(p) - ParentLen(u, h)]
      BY <2>3, MapAt
    <2> QED BY <2>1, <2>2, <2>4
  <1>2. /\ MapOf(t) = [p \in PathsIn(t) |-> MapOf(t)[p]]
        /\ MapOf(u) = [p \in PathsIn(u) |-> MapOf(u)[p]]
    BY DEF MapOf
  <1> QED BY <1>1, <1>2

-------------------------------------------------------------------------------
(* Changes of access times and reference counts only. *)

SameEdges(t, u) ==
    Nodes(u) = Nodes(t) /\ \A n \in Nodes(t) : u[n].pages = t[n].pages

\* Who holds which path depends on nothing but which nodes there are.
LEMMA SameHolders ==
    ASSUME NEW t, NEW u, Nodes(u) = Nodes(t)
    PROVE  /\ \A n : ParentLen(u, n) = ParentLen(t, n)
           /\ \A n, p : Holds(u, n, p) <=> Holds(t, n, p)
           /\ PathsIn(u) = PathsIn(t) /\ (Branching(u) <=> Branching(t))
  <1>1. \A n : ParentLen(u, n) = ParentLen(t, n)
    BY DEF ParentLen
  <1>2. PathsIn(u) = PathsIn(t) /\ (Branching(u) <=> Branching(t))
    BY DEF PathsIn, Branching
  <1> QED BY <1>1, <1>2 DEF Holds

\* Trees with the same edges, whatever their counts and ranks, stand for the same map.
LEMMA SameEdgesSameMap ==
    ASSUME NEW B, NEW t, Nodes(t) \subseteq Seq(B) \ {Root}, Branching(t),
           NEW u, SameEdges(t, u)
    PROVE  MapOf(u) = MapOf(t)
  <1>1. /\ \A n : ParentLen(u, n) = ParentLen(t, n)
        /\ \A n, p : Holds(u, n, p) <=> Holds(t, n, p)
        /\ PathsIn(u) = PathsIn(t) /\ Branching(u) /\ Nodes(u) \subseteq Seq(B) \ {Root}
    BY SameHolders DEF SameEdges
  <1>2. ASSUME NEW p \in PathsIn(t)
        PROVE  \E g, h :
                /\ Holds(t, g, p) /\ Holds(u, h, p)
                /\ t[g].pages[Len(p) - ParentLen(t, g)] = u[h].pages[Len(p) - ParentLen(u, h)]
    <2>1. PICK h \in Nodes(t) : Holds(t, h, p)
      BY HolderExists
    <2>2. u[h].pages = t[h].pages
      BY DEF SameEdges
    <2> QED BY <2>1, <2>2, <1>1
  <1> QED BY <1>1, <1>2, SameMap

\* An update of counts and ranks alone leaves a radix tree with the same map.
LEMMA EdgesKept ==
    ASSUME NEW B, NEW G, NEW t, RadixTree(B, G, t), NEW u, TreeOver(B, G, u),
           Nodes(u) = Nodes(t), \A n \in Nodes(t) : u[n].pages = t[n].pages
    PROVE  /\ RadixTree(B, G, u) /\ MapOf(u) = MapOf(t) /\ PathsIn(u) = PathsIn(t)
           /\ SameEdges(t, u)
  <1>1. SameEdges(t, u)
    BY DEF SameEdges
  <1>2. Nodes(t) \subseteq Seq(B) \ {Root} /\ Branching(t)
    BY DEF RadixTree, TreeOver
  <1>3. /\ \A n : ParentLen(u, n) = ParentLen(t, n)
        /\ PathsIn(u) = PathsIn(t) /\ Branching(u)
    BY <1>2, SameHolders
  <1>4. MapOf(u) = MapOf(t)
    BY <1>1, <1>2, SameEdgesSameMap
  <1> QED BY <1>1, <1>3, <1>4 DEF RadixTree

-------------------------------------------------------------------------------
(* _split_node. *)

\* The two parts of a sequence cut after j elements.
LEMMA Cut ==
    ASSUME NEW G, NEW q \in Seq(G), NEW j \in 0 .. Len(q)
    PROVE  /\ SubSeq(q, 1, j) \in Seq(G) /\ Len(SubSeq(q, 1, j)) = j
           /\ \A i \in 1 .. j : SubSeq(q, 1, j)[i] = q[i]
           /\ SubSeq(q, j + 1, Len(q)) \in Seq(G)
           /\ Len(SubSeq(q, j + 1, Len(q))) = Len(q) - j
           /\ \A i \in 1 .. Len(q) - j : SubSeq(q, j + 1, Len(q))[i] = q[j + i]
  OBVIOUS

\* Splitting the edge into c after k blocks of it: the paths c held are held
\* by the new node up to there and by c after, on the same pages.
LEMMA SplitKeeps ==
    ASSUME NEW B, NEW G, NEW t, RadixTree(B, G, t), NEW c \in Nodes(t),
           NEW k \in Nat, ParentLen(t, c) < k, k < Len(c),
           NEW m, m = Upto(c, k), NEW u, u = Split(t, c, m)
    PROVE  /\ RadixTree(B, G, u) /\ MapOf(u) = MapOf(t) /\ PathsIn(u) = PathsIn(t)
           /\ Nodes(u) = Nodes(t) \cup {m} /\ m \notin Nodes(t)
           /\ u[m].ref_count = t[c].ref_count
           /\ \A n \in Nodes(t) : u[n].ref_count = t[n].ref_count
           /\ \A n \in Nodes(t) : Covers(n, m) => Covers(n, c)
  <1> DEFINE N == Nodes(t)
             s == ParentLen(t, c)
             head == SubSeq(t[c].pages, 1, k - s)
             tail == SubSeq(t[c].pages, k - s + 1, Len(t[c].pages))
  <1>1. /\ N \subseteq Seq(B) \ {Root} /\ IsFiniteSet(N) /\ Branching(t)
        /\ \A n \in N : Len(t[n].pages) = Len(n) - ParentLen(t, n)
    BY DEF RadixTree, TreeOver
  <1>2. PICK L : t \in [N -> NodeOver(G, L)]
    BY DEF RadixTree, TreeOver
  <1>3. /\ c \in Seq(B) /\ Len(c) \in Nat /\ s \in Nat /\ s < k
        /\ s = 0 \/ Upto(c, s) \in N
        /\ \A n \in N : Covers(c, n) => n = c \/ Len(n) <= s
    BY <1>1, ParentFacts
  <1>4. m \in Seq(B) /\ Len(m) = k /\ Covers(c, m) /\ \A j \in 0 .. k : Upto(m, j) = Upto(c, j)
    <2>1. k \in 0 .. Len(c)
      BY <1>3
    <2> QED BY <2>1, <1>3, PrefixLengths
  <1>5. m # Root /\ m \notin N /\ m # c
    <2>1. m # Root
      BY <1>3, <1>4, CoversFacts
    <2> QED BY <2>1, <1>3, <1>4
  <1>6. m \in PathsIn(t) /\ Holds(t, c, m)
    BY <1>1, <1>3, <1>4, <1>5, PathFacts DEF Holds
  <1>7. \A n \in N : Covers(n, m) => Covers(n, c)
    BY <1>1, <1>6, HolderExists
  <1>8. Len(m) - s = k - s
    BY <1>4
  <1>9. u = [n \in N \cup {m} |->
                IF n = m THEN [t[c] EXCEPT !.pages = head]
                ELSE IF n = c THEN [t[c] EXCEPT !.pages = tail] ELSE t[n]]
    BY <1>8 DEF Split
  <1>10. /\ t[c].pages \in Seq(G) /\ Len(t[c].pages) = Len(c) - s
         /\ t[c] \in NodeOver(G, L)
    BY <1>1, <1>2 DEF NodeOver
  <1>11. /\ head \in Seq(G) /\ Len(head) = k - s
         /\ \A i \in 1 .. k - s : head[i] = t[c].pages[i]
         /\ tail \in Seq(G) /\ Len(tail) = Len(c) - k
         /\ \A i \in 1 .. Len(c) - k : tail[i] = t[c].pages[k - s + i]
    <2> DEFINE q == t[c].pages
               i == k - s
    <2>1. q \in Seq(G) /\ i \in 0 .. Len(q) /\ Len(q) - i = Len(c) - k
      BY <1>3, <1>10
    <2> HIDE DEF q, i
    <2>2. /\ SubSeq(q, 1, i) \in Seq(G) /\ Len(SubSeq(q, 1, i)) = i
          /\ \A x \in 1 .. i : SubSeq(q, 1, i)[x] = q[x]
          /\ SubSeq(q, i + 1, Len(q)) \in Seq(G)
          /\ Len(SubSeq(q, i + 1, Len(q))) = Len(q) - i
          /\ \A x \in 1 .. Len(q) - i : SubSeq(q, i + 1, Len(q))[x] = q[i + x]
      BY <2>1, Cut
    <2>3. head = SubSeq(q, 1, i) /\ tail = SubSeq(q, i + 1, Len(q))
      BY DEF q, i
    <2> HIDE DEF head, tail
    <2>4. i = k - s /\ q = t[c].pages
      BY DEF q, i
    <2> QED BY <2>1, <2>2, <2>3, <2>4
  <1> HIDE DEF N, head, tail
  <1>12. /\ Nodes(u) = N \cup {m}
         /\ u[m] = [t[c] EXCEPT !.pages = head]
         /\ u[c] = [t[c] EXCEPT !.pages = tail]
         /\ \A n \in N : n # c => u[n] = t[n]
    BY <1>5, <1>9 DEF Nodes, N
  <1>13. /\ u[m].pages = head /\ u[m].ref_count = t[c].ref_count /\ u[m] \in NodeOver(G, L)
         /\ u[c].pages = tail /\ u[c].ref_count = t[c].ref_count /\ u[c] \in NodeOver(G, L)
    BY <1>10, <1>11, <1>12 DEF NodeOver
  <1>14. u \in [Nodes(u) -> NodeOver(G, L)]
    <2>1. \A n \in N : u[n] \in NodeOver(G, L)
      BY <1>2, <1>12, <1>13
    <2> QED BY <2>1, <1>9, <1>12, <1>13
  <1>15. TreeOver(B, G, u)
    <2>1. IsFiniteSet(N \cup {m})
      BY <1>1, FS_AddElement
    <2> QED BY <2>1, <1>1, <1>4, <1>5, <1>12, <1>14 DEF TreeOver, N
  <1>16. Branching(u)
    <2> SUFFICES ASSUME NEW a \in N \cup {m}, NEW b \in N \cup {m}, NEW j \in 1 .. Len(a) - 1,
                        j < Len(b), Upto(a, j) = Upto(b, j), a[j + 1] # b[j + 1]
                 PROVE  Upto(a, j) \in N \cup {m}
      BY <1>12 DEF Branching
    <2> DEFINE Stand(x) == IF x = m THEN c ELSE x
    <2>1. ASSUME NEW x \in N \cup {m}, j < Len(x)
          PROVE  /\ Stand(x) \in N /\ j < Len(Stand(x))
                 /\ Upto(x, j) = Upto(Stand(x), j) /\ x[j + 1] = Stand(x)[j + 1]
      <3>1. CASE x = m
        <4>1. Stand(x) = c
          BY <3>1
        <4>2. j < k /\ j \in 0 .. k /\ j + 1 \in 1 .. k
          BY <2>1, <3>1, <1>4
        <4>3. m[j + 1] = c[j + 1]
          BY <4>2, <1>3, <1>4, CoversIff
        <4> QED BY <4>1, <4>2, <4>3, <3>1, <1>3, <1>4 DEF N
      <3>2. CASE x # m
        BY <3>2, <2>1
      <3> QED BY <3>1, <3>2
    <2>2. j < Len(a) /\ a \in Seq(B) /\ j \in Nat
      BY <1>1, <1>4 DEF N
    <2>3. /\ Stand(a) \in N /\ j < Len(Stand(a)) /\ Upto(a, j) = Upto(Stand(a), j)
          /\ a[j + 1] = Stand(a)[j + 1]
      BY <2>1, <2>2
    <2>4. /\ Stand(b) \in N /\ j < Len(Stand(b)) /\ Upto(b, j) = Upto(Stand(b), j)
          /\ b[j + 1] = Stand(b)[j + 1]
      BY <2>1
    <2> HIDE DEF Stand
    <2>5. j \in 1 .. Len(Stand(a)) - 1
      <3>1. Len(Stand(a)) \in Nat
        BY <2>3, <1>1, ParentFacts DEF N
      <3> QED BY <3>1, <2>3
    <2>6. Upto(Stand(a), j) \in N
      BY <2>3, <2>4, <2>5, <1>1 DEF Branching, N
    <2> QED BY <2>3, <2>6
  \* Where the edges of the new tree start.
  <1>17. ParentLen(u, m) = s
    <2>1. \A j \in s + 1 .. k - 1 : Upto(m, j) \notin N \cup {m}
      <3> SUFFICES ASSUME NEW j \in s + 1 .. k - 1, Upto(m, j) \in N \cup {m}
                   PROVE  FALSE
        OBVIOUS
      <3>1. j \in 0 .. k /\ j \in 0 .. Len(c) /\ s < j /\ j < k
        BY <1>3
      <3>2. Upto(m, j) = Upto(c, j) /\ Len(Upto(c, j)) = j /\ Covers(c, Upto(c, j))
        BY <3>1, <1>3, <1>4, PrefixLengths
      <3> QED BY <3>1, <3>2, <1>3, <1>4
    <2>2. s \in 0 .. k - 1 /\ Upto(m, s) = Upto(c, s)
      BY <1>3, <1>4
    <2>3. StartsAt(u, m, s)
      BY <2>1, <2>2, <1>3, <1>4, <1>12 DEF StartsAt
    <2> QED BY <2>3, <1>4, <1>5, ParentIs
  <1>18. ParentLen(u, c) = k
    <2>1. \A j \in k + 1 .. Len(c) - 1 : Upto(c, j) \notin N \cup {m}
      <3> SUFFICES ASSUME NEW j \in k + 1 .. Len(c) - 1, Upto(c, j) \in N \cup {m}
                   PROVE  FALSE
        OBVIOUS
      <3>1. j \in 0 .. Len(c) /\ s < j /\ k < j /\ j < Len(c)
        BY <1>3
      <3>2. Len(Upto(c, j)) = j /\ Covers(c, Upto(c, j))
        BY <3>1, <1>3, PrefixLengths
      <3> QED BY <3>1, <3>2, <1>3, <1>4
    <2>2. StartsAt(u, c, k)
      BY <2>1, <1>3, <1>12 DEF StartsAt
    <2> QED BY <2>2, <1>1, <1>3, ParentIs DEF N
  <1>19. ASSUME NEW n \in N, n # c
         PROVE  ParentLen(u, n) = ParentLen(t, n)
    <2> DEFINE e == ParentLen(t, n)
    <2>1. /\ n \in Seq(B) \ {Root} /\ Len(n) \in Nat /\ e \in Nat
          /\ \A o \in N : Covers(n, o) => o = n \/ Len(o) <= e
      BY <1>1, ParentFacts DEF N
    <2>2. StartsAt(t, n, e)
      BY <2>1, ParentExists
    <2> HIDE DEF e
    <2>3. ASSUME NEW j \in e + 1 .. Len(n) - 1, Upto(n, j) = m
          PROVE  FALSE
      <3>1. j \in 0 .. Len(n)
        BY <2>1
      <3>2. Len(m) = j /\ Covers(n, m)
        BY <3>1, <2>1, <2>3, PrefixLengths
      <3>3. Covers(n, c)
        BY <3>2, <1>7
      <3>4. Len(c) <= e
        BY <3>3, <2>1, <1>19 DEF N
      <3> QED BY <3>2, <3>4, <2>1, <1>3, <1>4
    <2>4. StartsAt(u, n, e)
      BY <2>2, <2>3, <1>12 DEF StartsAt, N
    <2> QED BY <2>1, <2>4, ParentIs DEF e
  <1>20. \A n \in Nodes(u) : Len(u[n].pages) = Len(n) - ParentLen(u, n)
    BY <1>1, <1>4, <1>11, <1>12, <1>13, <1>17, <1>18, <1>19 DEF N
  <1>21. RadixTree(B, G, u)
    BY <1>15, <1>16, <1>20 DEF RadixTree
  \* The paths and their pages.
  <1>22. PathsIn(u) = PathsIn(t)
    <2>1. Nodes(u) \subseteq Seq(B) \ {Root} /\ N \subseteq Seq(B)
      BY <1>1, <1>15 DEF TreeOver
    <2>2. ASSUME NEW p \in Seq(B)
          PROVE  (\E n \in N \cup {m} : Covers(n, p)) <=> (\E n \in N : Covers(n, p))
      <3>1. Covers(m, p) => Covers(c, p)
        BY <1>3, <1>4, CoversTransitive
      <3> QED BY <3>1 DEF N
    <2>3. \A p \in Seq(B) : p \in PathsIn(u) <=> p \in PathsIn(t)
      BY <2>1, <2>2, <1>1, <1>12, PathFacts DEF N
    <2>4. \A p \in PathsIn(u) \cup PathsIn(t) : p \in Seq(B)
      BY <2>1, <1>1, PathFacts DEF N
    <2> QED BY <2>3, <2>4
  <1>23. ASSUME NEW p \in PathsIn(t)
         PROVE  \E g, h :
                /\ Holds(t, g, p) /\ Holds(u, h, p)
                /\ t[g].pages[Len(p) - ParentLen(t, g)] = u[h].pages[Len(p) - ParentLen(u, h)]
    <2>1. PICK g \in N : Holds(t, g, p)
      BY <1>1, HolderExists DEF N
    <2>2. p \in Seq(B) /\ Len(p) \in Nat /\ Covers(g, p) /\ ParentLen(t, g) < Len(p)
      BY <2>1, <1>1, PathFacts DEF Holds, N
    <2>3. CASE g # c
      <3>1. Holds(u, g, p) /\ u[g] = t[g] /\ ParentLen(u, g) = ParentLen(t, g)
        BY <2>1, <2>2, <2>3, <1>12, <1>19 DEF Holds
      <3> QED BY <3>1, <2>1
    <2>4. CASE g = c /\ Len(p) <= k
      <3>1. Covers(m, p)
        BY <2>2, <2>4, <1>3, <1>4, PrefixesNest
      <3>2. Holds(u, m, p)
        BY <3>1, <2>2, <2>4, <1>12, <1>17 DEF Holds
      <3>3. Len(p) - s \in 1 .. k - s
        BY <2>2, <2>4, <1>3
      <3>4. u[m].pages[Len(p) - s] = t[c].pages[Len(p) - s]
        BY <3>3, <1>11, <1>13
      <3> QED BY <3>2, <3>4, <2>1, <2>4, <1>17
    <2>5. CASE g = c /\ Len(p) > k
      <3>1. Holds(u, c, p)
        BY <2>2, <2>5, <1>12, <1>18, <1>3 DEF Holds, N
      <3>2. Len(p) - k \in 1 .. Len(c) - k /\ k - s + (Len(p) - k) = Len(p) - s
        BY <2>2, <2>5, <1>3 DEF Covers
      <3>3. u[c].pages[Len(p) - k] = t[c].pages[Len(p) - s]
        BY <3>2, <1>11, <1>13
      <3> QED BY <3>1, <3>3, <2>1, <2>5, <1>18
    <2> QED BY <2>2, <2>3, <2>4, <2>5
  <1>24. MapOf(u) = MapOf(t)
    <2>1. Nodes(u) \subseteq Seq(B) \ {Root} /\ Nodes(t) \subseteq Seq(B) \ {Root}
      BY <1>1, <1>15 DEF TreeOver, N
    <2>2. Branching(t)
      BY <1>1
    <2>3. \A p \in PathsIn(t) : \E g, h :
                /\ Holds(t, g, p) /\ Holds(u, h, p)
                /\ t[g].pages[Len(p) - ParentLen(t, g)] = u[h].pages[Len(p) - ParentLen(u, h)]
      BY <1>23
    <2>4. Branching(u) /\ PathsIn(u) = PathsIn(t)
      BY <1>16, <1>22
    <2>5. /\ Nodes(t) \subseteq Seq(B) \ {Root} /\ Branching(t)
          /\ Nodes(u) \subseteq Seq(B) \ {Root} /\ Branching(u)
      BY <2>1, <2>2, <2>4
    <2> HIDE DEF N, s
    <2> QED BY ONLY <2>3, <2>4, <2>5, SameMap
  <1>25. \A n \in N : u[n].ref_count = t[n].ref_count
    BY <1>12, <1>13
  <1> QED BY <1>5, <1>7, <1>12, <1>13, <1>21, <1>22, <1>24, <1>25 DEF N

-------------------------------------------------------------------------------
(* Access times. *)

\* Setting last_access_time leaves shape, map and reference counts alone.
LEMMA TouchKeeps ==
    ASSUME NEW B, NEW G, NEW t, RadixTree(B, G, t), NEW N, NEW u, u = Touch(t, N)
    PROVE  /\ RadixTree(B, G, u) /\ MapOf(u) = MapOf(t) /\ PathsIn(u) = PathsIn(t)
           /\ Nodes(u) = Nodes(t) /\ SameEdges(t, u)
           /\ \A n \in Nodes(t) : u[n].ref_count = t[n].ref_count
  <1>1. PICK L : t \in [Nodes(t) -> NodeOver(G, L)]
    BY DEF RadixTree, TreeOver
  <1> DEFINE K == L \cup {Newest(t) + 1}
  <1>2. Nodes(u) = Nodes(t)
    BY DEF Touch, Nodes
  <1>3. ASSUME NEW n \in Nodes(t)
        PROVE  /\ u[n] \in NodeOver(G, K)
               /\ u[n].pages = t[n].pages /\ u[n].ref_count = t[n].ref_count
    <2>1. t[n] \in NodeOver(G, L)
      BY <1>1
    <2>2. u[n] = IF n \in N THEN [t[n] EXCEPT !.last_access = Newest(t) + 1] ELSE t[n]
      BY DEF Touch
    <2>3. CASE n \in N
      BY <2>1, <2>2, <2>3 DEF NodeOver
    <2>4. CASE n \notin N
      BY <2>1, <2>2, <2>4 DEF NodeOver
    <2> QED BY <2>3, <2>4
  <1>4. u \in [Nodes(u) -> NodeOver(G, K)]
    BY <1>2, <1>3 DEF Touch, Nodes
  <1> HIDE DEF K
  <1>5. TreeOver(B, G, u)
    BY <1>2, <1>4 DEF RadixTree, TreeOver
  <1> QED BY <1>2, <1>3, <1>5, EdgesKept

\* So does renumbering the ranks, after which they are numbers.
LEMMA RankedKeeps ==
    ASSUME NEW B, NEW G, NEW t, RadixTree(B, G, t), NEW u, u = Ranked(t)
    PROVE  /\ RadixTree(B, G, u) /\ MapOf(u) = MapOf(t) /\ PathsIn(u) = PathsIn(t)
           /\ Nodes(u) = Nodes(t) /\ SameEdges(t, u)
           /\ \A n \in Nodes(t) : u[n].ref_count = t[n].ref_count
           /\ u \in [Nodes(u) -> NodeOver(G, Nat)]
  <1>1. PICK L : t \in [Nodes(t) -> NodeOver(G, L)]
    BY DEF RadixTree, TreeOver
  <1>2. Nodes(u) = Nodes(t)
    BY DEF Ranked, Nodes
  <1>3. ASSUME NEW n \in Nodes(t)
        PROVE  /\ u[n] \in NodeOver(G, Nat)
               /\ u[n].pages = t[n].pages /\ u[n].ref_count = t[n].ref_count
    <2> DEFINE M == {m \in Nodes(t) : t[m].last_access < t[n].last_access}
               A == {t[m].last_access : m \in M}
    <2>1. t[n] \in NodeOver(G, L)
      BY <1>1
    <2>2. u[n] = [t[n] EXCEPT !.last_access = Cardinality(A)]
      BY DEF Ranked
    <2>3. IsFiniteSet(M)
      <3>1. M \subseteq Nodes(t) /\ IsFiniteSet(Nodes(t))
        BY DEF RadixTree, TreeOver
      <3> QED BY <3>1, FS_Subset
    <2> HIDE DEF M
    <2>4. IsFiniteSet(A)
      <3> DEFINE f == [m \in M |-> t[m].last_access]
      <3>1. A = {f[m] : m \in M} /\ f \in [M -> A]
        OBVIOUS
      <3> HIDE DEF f
      <3> QED BY <2>3, <3>1, FiniteImage
    <2>5. Cardinality(A) \in Nat
      BY <2>4, FS_CardinalityType
    <2> HIDE DEF A
    <2> QED BY <2>1, <2>2, <2>5 DEF NodeOver
  <1>4. u \in [Nodes(u) -> NodeOver(G, Nat)]
    BY <1>2, <1>3 DEF Ranked, Nodes
  <1>5. TreeOver(B, G, u)
    BY <1>2, <1>4 DEF RadixTree, TreeOver
  <1> QED BY <1>2, <1>3, <1>4, <1>5, EdgesKept

-------------------------------------------------------------------------------
(* _tree_walk. *)

\* d is a node on p, and no path of the tree follows p any further.
WalkTo(t, p, d) ==
    /\ d \in Nodes(t) \cup {Root} /\ Covers(p, d)
    /\ \A i \in Len(d) + 1 .. Len(p) : \A n \in Nodes(t) : ~Covers(n, Upto(p, i))

\* The node where the descent of a match ends: below it no edge goes on along the path.
LEMMA DeepestFacts ==
    ASSUME NEW B, NEW t, Nodes(t) \subseteq Seq(B) \ {Root}, NEW p \in Seq(B),
           NEW d, d = Deepest(t, p)
    PROVE  /\ d \in OnPath(t, p) \cup {Root} /\ d \in Seq(B) /\ Covers(p, d)
           /\ \A m \in OnPath(t, p) : Len(m) <= Len(d)
  <1> DEFINE P == OnPath(t, p) \cup {Root}
             T == {Len(n) : n \in P}
  <1>1. \A n \in P : n \in Seq(B) /\ Covers(p, n)
    <2>1. Root \in Seq(B) /\ Covers(p, Root)
      BY CoversFacts DEF Root
    <2> QED BY <2>1 DEF OnPath
  <1>2. Root \in P
    OBVIOUS
  <1> HIDE DEF P
  <1>3. T \subseteq 0 .. Len(p) /\ T # {}
    <2>1. \A n \in P : Len(n) \in 0 .. Len(p)
      BY <1>1 DEF Covers
    <2> QED BY <2>1, <1>2
  <1>4. PICK l \in T : \A k \in T : k <= l
    <2>1. Len(p) \in Nat
      OBVIOUS
    <2> HIDE DEF T
    <2> QED BY <2>1, <1>3, Greatest
  <1>5. PICK e \in P : Len(e) = l
    BY <1>4
  <1>6. \A m \in P : Len(m) <= Len(e)
    BY <1>4, <1>5
  <1>7. \E x \in P : \A m \in OnPath(t, p) : Len(m) <= Len(x)
    BY <1>6 DEF P
  <1>8. d \in P /\ \A m \in OnPath(t, p) : Len(m) <= Len(d)
    BY <1>7 DEF Deepest, P
  <1> QED BY <1>1, <1>8 DEF P

\* The walk stops at d when no child of d begins with the next page of p.
LEMMA NoChild ==
    ASSUME NEW B, NEW t, Nodes(t) \subseteq Seq(B) \ {Root}, Branching(t),
           NEW p \in Seq(B), NEW d, d = Deepest(t, p), NextChild(t, p, d) = {}
    PROVE  WalkTo(t, p, d)
  <1>1. /\ d \in Nodes(t) \cup {Root} /\ d \in Seq(B) /\ Covers(p, d) /\ Len(d) \in Nat
        /\ Len(p) \in Nat /\ Len(d) <= Len(p)
    BY DeepestFacts DEF OnPath, Covers
  <1>2. ASSUME NEW i \in Len(d) + 1 .. Len(p), NEW n \in Nodes(t), Covers(n, Upto(p, i))
        PROVE  FALSE
    <2> DEFINE l == Len(d) + 1
               q == Upto(p, l)
    <2>1. i \in 0 .. Len(p) /\ l \in 0 .. Len(p) /\ l <= i /\ l > 0
      BY <1>1
    <2>2. /\ q \in Seq(B) /\ Len(q) = l /\ Covers(p, q) /\ \A j \in 1 .. l : q[j] = p[j]
          /\ Upto(p, i) \in Seq(B) /\ Len(Upto(p, i)) = i /\ Covers(p, Upto(p, i))
      BY <2>1, PrefixLengths, UptoFacts
    <2> HIDE DEF q
    <2>3. Covers(Upto(p, i), q)
      BY <2>1, <2>2, PrefixesNest
    <2>4. Covers(n, q) /\ n \in Seq(B)
      BY <2>2, <2>3, <1>2, CoversTransitive
    <2>5. q \in PathsIn(t)
      BY <2>1, <2>2, <2>4, CoversFacts, PathFacts
    <2>6. PICK c \in Nodes(t) : Holds(t, c, q)
      BY <2>5, HolderExists
    <2>7. c \in Seq(B) /\ Covers(c, q) /\ ParentLen(t, c) < l /\ l <= Len(c)
      BY <2>2, <2>6 DEF Holds, Covers
    <2>8. Covers(c, d)
      <3>1. Covers(q, d)
        BY <2>2, <1>1, PrefixesNest
      <3> QED BY <3>1, <2>2, <2>7, <1>1, CoversTransitive
    <2>9. ParentLen(t, c) = Len(d)
      <3>1. /\ ParentLen(t, c) \in Nat
            /\ \A m \in Nodes(t) : Covers(c, m) => m = c \/ Len(m) <= ParentLen(t, c)
        BY ParentFacts
      <3>2. ParentLen(t, c) <= Len(d)
        BY <3>1, <2>7, <1>1
      <3>3. CASE d = Root
        BY <3>1, <3>2, <3>3 DEF Root
      <3>4. CASE d \in Nodes(t)
        BY <3>1, <3>2, <3>4, <2>7, <2>8, <1>1
      <3> QED BY <3>3, <3>4, <1>1
    <2>10. Len(d) < Len(c) /\ Len(d) < Len(p)
      BY <2>1, <2>7, <1>1
    <2>11. c[l] = p[l]
      BY <2>2, <2>7, <2>1, CoversIff
    <2>12. c \in NextChild(t, p, d)
      BY <2>8, <2>9, <2>10, <2>11 DEF NextChild, Below
    <2> QED BY <2>12
  <1> QED BY <1>1, <1>2 DEF WalkTo

\* The child that begins with the next page of p leaves p inside its edge.
LEMMA ChildParts ==
    ASSUME NEW B, NEW t, Nodes(t) \subseteq Seq(B) \ {Root},
           NEW p \in Seq(B), NEW d, d = Deepest(t, p), NEW c \in NextChild(t, p, d),
           NEW k, k = CommonLen(c, p)
    PROVE  /\ c \in Nodes(t) /\ k \in Nat /\ k <= Len(p)
           /\ ParentLen(t, c) < k /\ k < Len(c)
           /\ Upto(c, k) = Upto(p, k)
           /\ k = Len(p) \/ c[k + 1] # p[k + 1]
  <1>1. /\ d \in Seq(B) /\ Covers(p, d) /\ Len(d) \in Nat
        /\ \A m \in OnPath(t, p) : Len(m) <= Len(d)
    BY DeepestFacts
  <1>2. /\ c \in Nodes(t) /\ c \in Seq(B) /\ Covers(c, d) /\ Len(d) < Len(c)
        /\ ParentLen(t, c) = Len(d) /\ Len(d) < Len(p) /\ c[Len(d) + 1] = p[Len(d) + 1]
    BY DEF NextChild, Below
  <1>3. /\ k \in 0 .. Lesser(Len(c), Len(p)) /\ Upto(c, k) = Upto(p, k)
        /\ k = Lesser(Len(c), Len(p)) \/ c[k + 1] # p[k + 1]
    BY <1>2, CommonPrefix
  <1>4. k \in Nat /\ k <= Len(c) /\ k <= Len(p) /\ Len(c) \in Nat /\ Len(p) \in Nat
    BY <1>2, <1>3 DEF Lesser
  <1>5. Len(d) < k
    <2> SUFFICES ASSUME k <= Len(d)
                 PROVE  FALSE
      BY <1>1, <1>4
    <2>1. c[k + 1] # p[k + 1]
      BY <1>2, <1>3, <1>4 DEF Lesser
    <2>2. k # Len(d)
      BY <2>1, <1>2
    <2>3. k + 1 \in 1 .. Len(d)
      BY <2>2, <1>1, <1>4
    <2> QED BY <2>1, <2>3, <1>1, <1>2, CoversIff
  <1>6. k # Len(c)
    <2> SUFFICES ASSUME k = Len(c)
                 PROVE  FALSE
      OBVIOUS
    <2>1. Covers(p, c)
      BY <1>2, <1>3, <1>4, CoversFacts DEF Covers
    <2> QED BY <2>1, <1>1, <1>2 DEF OnPath
  <1>7. k = Len(p) \/ c[k + 1] # p[k + 1]
    BY <1>3, <1>4, <1>6 DEF Lesser
  <1> QED BY <1>2, <1>3, <1>4, <1>5, <1>6, <1>7

\* n of the new tree has the references of c, and every node of the old one
\* that lies below n lies below c.
StandsFor(t, n, c) == \A x \in Nodes(t) \cup {Root} : Covers(x, n) <=> Covers(x, c)

\* Every node of u stands for one of t and has its references.
RefsFrom(t, u) ==
    \A n \in Nodes(u) : \E c \in Nodes(t) :
        StandsFor(t, n, c) /\ u[n].ref_count = t[c].ref_count

\* A walk changes the tree's edges but not its map, and leads to the longest
\* part of p that the tree has.  The read-only walk finds the same length.
LEMMA WalkKeeps ==
    ASSUME NEW B, NEW G, NEW t, RadixTree(B, G, t), NEW p \in Seq(B),
           NEW u, u = Walk(t, p).tree, NEW d, d = Walk(t, p).node
    PROVE  /\ RadixTree(B, G, u) /\ MapOf(u) = MapOf(t) /\ PathsIn(u) = PathsIn(t)
           /\ WalkTo(u, p, d) /\ Len(d) = PreviewLen(t, p)
           /\ Nodes(t) \subseteq Nodes(u)
           /\ RefsFrom(t, u)
  <1> DEFINE e == Deepest(t, p)
             passed == OnPath(t, p)
             v == Touch(t, passed)
             c == CHOOSE c \in NextChild(t, p, e) : TRUE
             k == CommonLen(c, p)
             m == Upto(p, k)
             s == Split(t, c, m)
             w == Touch(s, passed \cup {c, m})
  <1>1. Nodes(t) \subseteq Seq(B) \ {Root} /\ Branching(t)
    BY DEF RadixTree, TreeOver
  <1>2. CASE NextChild(t, p, e) = {}
    <2>1. u = v /\ d = e
      BY <1>2 DEF Walk
    <2>2. Len(d) = PreviewLen(t, p)
      BY <1>2, <2>1 DEF PreviewLen
    <2> HIDE DEF e
    <2>3. WalkTo(t, p, d)
      BY <1>1, <1>2, <2>1, NoChild DEF e
    <2>4. /\ RadixTree(B, G, u) /\ MapOf(u) = MapOf(t) /\ PathsIn(u) = PathsIn(t)
          /\ Nodes(u) = Nodes(t)
          /\ \A n \in Nodes(t) : u[n].ref_count = t[n].ref_count
      BY <2>1, TouchKeeps
    <2>5. WalkTo(u, p, d)
      BY <2>3, <2>4 DEF WalkTo
    <2>6. \A n \in Nodes(t) : StandsFor(t, n, n)
      BY DEF StandsFor
    <2>7. RefsFrom(t, u)
      BY <2>4, <2>6 DEF RefsFrom
    <2> QED BY <2>2, <2>4, <2>5, <2>7
  <1>3. CASE NextChild(t, p, e) # {}
    <2>1. u = w /\ d = m
      BY <1>3 DEF Walk
    <2>2. PreviewLen(t, p) = k
      BY <1>3 DEF PreviewLen
    <2>3. c \in NextChild(t, p, e)
      BY <1>3
    <2> HIDE DEF c, e
    <2>4. /\ c \in Nodes(t) /\ k \in Nat /\ k <= Len(p)
          /\ ParentLen(t, c) < k /\ k < Len(c)
          /\ Upto(c, k) = Upto(p, k)
          /\ k = Len(p) \/ c[k + 1] # p[k + 1]
      BY <1>1, <2>3, ChildParts DEF e
    <2> HIDE DEF k
    <2>5. m = Upto(c, k)
      BY <2>4
    <2> HIDE DEF m
    <2>6. /\ RadixTree(B, G, s) /\ MapOf(s) = MapOf(t) /\ PathsIn(s) = PathsIn(t)
          /\ Nodes(s) = Nodes(t) \cup {m} /\ m \notin Nodes(t)
          /\ s[m].ref_count = t[c].ref_count
          /\ \A n \in Nodes(t) : s[n].ref_count = t[n].ref_count
          /\ \A n \in Nodes(t) : Covers(n, m) => Covers(n, c)
      BY <2>4, <2>5, SplitKeeps
    <2> HIDE DEF s
    <2>7. /\ RadixTree(B, G, w) /\ MapOf(w) = MapOf(s) /\ PathsIn(w) = PathsIn(s)
          /\ Nodes(w) = Nodes(s)
          /\ \A n \in Nodes(s) : w[n].ref_count = s[n].ref_count
      BY <2>6, TouchKeeps
    <2> HIDE DEF w
    <2>8. /\ c \in Seq(B) /\ Len(c) \in Nat /\ Len(p) \in Nat
          /\ m \in Seq(B) /\ Len(m) = k /\ Covers(p, m) /\ Covers(c, m)
      <3>1. c \in Seq(B) /\ Len(c) \in Nat /\ Len(p) \in Nat
        BY <1>1, <2>4
      <3>2. k \in 0 .. Len(p) /\ k \in 0 .. Len(c)
        BY <3>1, <2>4
      <3>3. Upto(p, k) \in Seq(B) /\ Len(Upto(p, k)) = k /\ Covers(p, Upto(p, k))
        BY <3>2, PrefixLengths
      <3>4. Covers(c, Upto(c, k))
        BY <3>1, <3>2, PrefixLengths
      <3> QED BY <3>1, <3>3, <3>4, <2>5 DEF m
    <2>9. ASSUME NEW i \in Len(m) + 1 .. Len(p), NEW n \in Nodes(w), Covers(n, Upto(p, i))
          PROVE  FALSE
      <3> DEFINE q == Upto(p, i)
      <3>1. i \in 0 .. Len(p) /\ k < i /\ k < Len(p) /\ k + 1 \in 1 .. i
        BY <2>4, <2>8
      <3>2. q \in Seq(B) /\ Len(q) = i /\ Covers(p, q) /\ \A j \in 1 .. i : q[j] = p[j]
        BY <3>1, PrefixLengths, UptoFacts
      <3> HIDE DEF q
      <3>3. n \in Seq(B) /\ Covers(n, q)
        BY <2>6, <2>7, <2>8, <2>9, <1>1 DEF q
      <3>4. Covers(n, m)
        <4>1. Covers(q, m)
          BY <3>1, <3>2, <2>8, PrefixesNest
        <4> QED BY <4>1, <3>2, <3>3, <2>8, CoversTransitive
      <3>5. n[k + 1] = p[k + 1]
        BY <3>1, <3>2, <3>3, CoversIff
      <3>6. n \in Nodes(t)
        <4>1. Len(n) >= i
          BY <3>2, <3>3 DEF Covers
        <4> QED BY <4>1, <3>1, <2>4, <2>6, <2>7, <2>8
      <3>7. Covers(n, c)
        BY <3>4, <3>6, <2>6
      <3>8. n[k + 1] = c[k + 1]
        <4>1. k + 1 \in 1 .. Len(c)
          BY <2>4, <2>8
        <4> QED BY <4>1, <3>3, <3>7, <2>8, CoversIff
      <3> QED BY <3>1, <3>5, <3>8, <2>4
    <2>10. WalkTo(w, p, m)
      BY <2>6, <2>7, <2>8, <2>9 DEF WalkTo
    <2>11. StandsFor(t, m, c)
      <3>1. \A x \in Nodes(t) : x \in Seq(B)
        BY <1>1
      <3>2. \A x \in Nodes(t) : Covers(x, m) <=> Covers(x, c)
        BY <3>1, <2>6, <2>8, CoversTransitive
      <3>3. ~Covers(Root, m) /\ ~Covers(Root, c)
        <4>1. m # Root /\ c # Root
          BY <2>4, <2>6, <2>7, <1>1 DEF RadixTree, TreeOver
        <4> QED BY <4>1, <2>8, CoversFacts
      <3> QED BY <3>2, <3>3 DEF StandsFor
    <2>12. \A n \in Nodes(t) : StandsFor(t, n, n)
      BY DEF StandsFor
    <2>13. RefsFrom(t, w)
      <3> SUFFICES ASSUME NEW n \in Nodes(w)
                   PROVE  \E x \in Nodes(t) :
                            StandsFor(t, n, x) /\ w[n].ref_count = t[x].ref_count
        BY DEF RefsFrom
      <3>1. CASE n = m
        BY <3>1, <2>4, <2>6, <2>7, <2>11
      <3>2. CASE n \in Nodes(t)
        BY <3>2, <2>6, <2>7, <2>12
      <3> QED BY <3>1, <3>2, <2>6, <2>7
    <2> QED BY <2>1, <2>2, <2>6, <2>7, <2>8, <2>10, <2>13
  <1> QED BY <1>2, <1>3

\* The node a walk leads to tells how much of the path the map has.
LEMMA WalkHits ==
    ASSUME NEW B, NEW t, Nodes(t) \subseteq Seq(B) \ {Root}, NEW p \in Seq(B),
           NEW d, WalkTo(t, p, d)
    PROVE  /\ d \in Seq(B) /\ Len(d) \in 0 .. Len(p) /\ d = Upto(p, Len(d))
           /\ \A i \in 1 .. Len(d) : Upto(p, i) \in PathsIn(t)
           /\ \A i \in Len(d) + 1 .. Len(p) : Upto(p, i) \notin PathsIn(t)
  <1>1. d \in Seq(B) /\ Len(d) \in 0 .. Len(p) /\ d = Upto(p, Len(d)) /\ Len(p) \in Nat
    <2>1. Root \in Seq(B)
      BY DEF Root
    <2>2. d \in Seq(B) /\ Covers(p, d)
      BY <2>1 DEF WalkTo
    <2> QED BY <2>2 DEF Covers
  <1>2. ASSUME NEW i \in 1 .. Len(d)
        PROVE  Upto(p, i) \in PathsIn(t)
    <2>1. d \in Nodes(t)
      <3>1. d # Root
        BY <1>1, CoversFacts
      <3> QED BY <3>1 DEF WalkTo
    <2>2. i \in 0 .. Len(p) /\ i \in 0 .. Len(d) /\ i > 0
      BY <1>1
    <2>3. /\ Upto(p, i) \in Seq(B) /\ Len(Upto(p, i)) = i
          /\ Upto(d, i) = Upto(p, i) /\ Covers(d, Upto(d, i))
      BY <2>2, <1>1, PrefixLengths
    <2> QED BY <2>1, <2>2, <2>3, CoversFacts, PathFacts
  <1>3. ASSUME NEW i \in Len(d) + 1 .. Len(p)
        PROVE  Upto(p, i) \notin PathsIn(t)
    <2>1. i \in 0 .. Len(p)
      BY <1>1
    <2>2. Upto(p, i) \in Seq(B)
      BY <2>1, PrefixLengths
    <2> QED BY <2>2, PathFacts DEF WalkTo
  <1> QED BY <1>1, <1>2, <1>3

-------------------------------------------------------------------------------
(* inc_lock_ref and dec_lock_ref. *)

\* inc_lock_ref counts one more on the nodes up to the root and changes nothing else.
LEMMA IncKeeps ==
    ASSUME NEW B, NEW G, NEW t, RadixTree(B, G, t), NEW n, NEW u, u = IncLockRef(t, n)
    PROVE  /\ RadixTree(B, G, u) /\ MapOf(u) = MapOf(t) /\ PathsIn(u) = PathsIn(t)
           /\ Nodes(u) = Nodes(t)
           /\ \A m \in Nodes(t) :
                u[m].ref_count = IF Covers(n, m) THEN t[m].ref_count + 1 ELSE t[m].ref_count
  <1>1. PICK L : t \in [Nodes(t) -> NodeOver(G, L)]
    BY DEF RadixTree, TreeOver
  <1>2. Nodes(u) = Nodes(t)
    BY DEF IncLockRef, Nodes
  <1>3. ASSUME NEW m \in Nodes(t)
        PROVE  /\ u[m] \in NodeOver(G, L) /\ u[m].pages = t[m].pages
               /\ u[m].ref_count = IF Covers(n, m) THEN t[m].ref_count + 1
                                                   ELSE t[m].ref_count
    <2>1. t[m] \in NodeOver(G, L)
      BY <1>1
    <2>2. u[m] = IF Covers(n, m) THEN [t[m] EXCEPT !.ref_count = @ + 1] ELSE t[m]
      BY DEF IncLockRef
    <2>3. CASE Covers(n, m)
      BY <2>1, <2>2, <2>3 DEF NodeOver
    <2>4. CASE ~Covers(n, m)
      BY <2>1, <2>2, <2>4 DEF NodeOver
    <2> QED BY <2>3, <2>4
  <1>4. u \in [Nodes(u) -> NodeOver(G, L)]
    BY <1>2, <1>3 DEF IncLockRef, Nodes
  <1>5. TreeOver(B, G, u)
    BY <1>2, <1>4 DEF RadixTree, TreeOver
  <1> QED BY <1>2, <1>3, <1>5, EdgesKept

\* dec_lock_ref counts one less there and changes nothing else.
LEMMA DecKeeps ==
    ASSUME NEW B, NEW G, NEW t, RadixTree(B, G, t), NEW n, NEW w, w = DecLockRef(t, n)
    PROVE  /\ RadixTree(B, G, w) /\ MapOf(w) = MapOf(t) /\ PathsIn(w) = PathsIn(t)
           /\ Nodes(w) = Nodes(t)
           /\ \A m \in Nodes(t) :
                w[m].ref_count = IF Covers(n, m) THEN t[m].ref_count - 1 ELSE t[m].ref_count
  <1> DEFINE u == [m \in Nodes(t) |->
                     IF Covers(n, m) THEN [t[m] EXCEPT !.ref_count = @ - 1] ELSE t[m]]
  <1>1. PICK L : t \in [Nodes(t) -> NodeOver(G, L)]
    BY DEF RadixTree, TreeOver
  <1>2. Nodes(u) = Nodes(t)
    BY DEF Nodes
  <1>3. ASSUME NEW m \in Nodes(t)
        PROVE  /\ u[m] \in NodeOver(G, L) /\ u[m].pages = t[m].pages
               /\ u[m].ref_count = IF Covers(n, m) THEN t[m].ref_count - 1
                                                   ELSE t[m].ref_count
    <2>1. t[m] \in NodeOver(G, L)
      BY <1>1
    <2>3. CASE Covers(n, m)
      BY <2>1, <2>3 DEF NodeOver
    <2>4. CASE ~Covers(n, m)
      BY <2>1, <2>4 DEF NodeOver
    <2> QED BY <2>3, <2>4
  <1>4. u \in [Nodes(u) -> NodeOver(G, L)]
    BY <1>2, <1>3 DEF Nodes
  <1>5. w = Touch(u, OnPath(t, n))
    BY DEF DecLockRef
  <1> HIDE DEF u
  <1>6. TreeOver(B, G, u)
    BY <1>2, <1>4 DEF RadixTree, TreeOver
  <1>7. RadixTree(B, G, u) /\ MapOf(u) = MapOf(t) /\ PathsIn(u) = PathsIn(t)
    BY <1>2, <1>3, <1>6, EdgesKept
  <1>8. /\ RadixTree(B, G, w) /\ MapOf(w) = MapOf(u) /\ PathsIn(w) = PathsIn(u)
        /\ Nodes(w) = Nodes(u)
        /\ \A m \in Nodes(u) : w[m].ref_count = u[m].ref_count
    BY <1>5, <1>7, TouchKeeps
  <1> QED BY <1>2, <1>3, <1>7, <1>8

-------------------------------------------------------------------------------
(* insert_and_return. *)

\* The paths on the way to p that are longer than k, and a tree with one more
\* leaf.
Beyond(p, k) == {Upto(p, i) : i \in k + 1 .. Len(p)}
WithLeaf(t, p, leaf) == [n \in Nodes(t) \cup {p} |-> IF n = p THEN leaf ELSE t[n]]

\* A leaf for the rest of p, below the node the walk along p led to.
LEMMA LeafAdded ==
    ASSUME NEW B, NEW G, NEW t, RadixTree(B, G, t), NEW p \in Seq(B),
           NEW d, WalkTo(t, p, d), Len(d) < Len(p),
           NEW K, NEW leaf \in NodeOver(G, K), Len(leaf.pages) = Len(p) - Len(d),
           NEW u, u = WithLeaf(t, p, leaf)
    PROVE  /\ RadixTree(B, G, u) /\ Nodes(u) = Nodes(t) \cup {p} /\ p \notin Nodes(t)
           /\ \A n \in Nodes(t) : u[n] = t[n] /\ ~Covers(n, p)
           /\ u[p] = leaf
           /\ PathsIn(u) = PathsIn(t) \cup Beyond(p, Len(d))
           /\ \A q \in PathsIn(t) : MapOf(u)[q] = MapOf(t)[q]
           /\ \A i \in Len(d) + 1 .. Len(p) : MapOf(u)[Upto(p, i)] = leaf.pages[i - Len(d)]
  <1> DEFINE N == Nodes(t)
             l == Len(d)
  <1>1. /\ N \subseteq Seq(B) \ {Root} /\ IsFiniteSet(N) /\ Branching(t)
        /\ \A n \in N : Len(t[n].pages) = Len(n) - ParentLen(t, n)
    BY DEF RadixTree, TreeOver
  <1>2. PICK L : t \in [N -> NodeOver(G, L)]
    BY DEF RadixTree, TreeOver
  <1>3. /\ d \in Seq(B) /\ l \in Nat /\ l < Len(p) /\ d = Upto(p, l) /\ Len(p) \in Nat
        /\ \A i \in 1 .. l : Upto(p, i) \in PathsIn(t)
        /\ \A i \in l + 1 .. Len(p) : Upto(p, i) \notin PathsIn(t)
        /\ l = 0 \/ d \in N
    <2>1. /\ d \in Seq(B) /\ Len(d) \in 0 .. Len(p) /\ d = Upto(p, Len(d))
          /\ \A i \in 1 .. Len(d) : Upto(p, i) \in PathsIn(t)
          /\ \A i \in Len(d) + 1 .. Len(p) : Upto(p, i) \notin PathsIn(t)
      BY <1>1, WalkHits
    <2>2. l = 0 \/ d \in N
      BY DEF WalkTo, Root
    <2> QED BY <2>1, <2>2
  <1>4. /\ \A i \in l + 1 .. Len(p) : \A n \in N : ~Covers(n, Upto(p, i))
        /\ p = Upto(p, Len(p)) /\ p # Root
    BY <1>3, CoversFacts DEF WalkTo
  <1> HIDE DEF N, l
  <1>5. \A n \in N : ~Covers(n, p)
    BY <1>3, <1>4
  <1>6. p \notin N
    BY <1>5, CoversFacts
  <1>7. /\ Nodes(u) = N \cup {p} /\ u[p] = leaf
        /\ \A n \in N : u[n] = t[n] /\ n # p
    BY <1>6 DEF Nodes, N, WithLeaf
  <1>8. u \in [Nodes(u) -> NodeOver(G, L \cup K)]
    <2>1. \A n \in N : u[n] \in NodeOver(G, L \cup K)
      BY <1>2, <1>7 DEF NodeOver
    <2>2. u[p] \in NodeOver(G, L \cup K)
      BY <1>7 DEF NodeOver
    <2>3. \A n \in Nodes(u) : u[n] \in NodeOver(G, L \cup K)
      BY <2>1, <2>2, <1>7
    <2>4. u = [n \in Nodes(u) |-> u[n]]
      BY DEF Nodes, WithLeaf
    <2> QED BY <2>3, <2>4
  <1>9. TreeOver(B, G, u)
    <2>1. IsFiniteSet(N \cup {p})
      BY <1>1, FS_AddElement
    <2>2. Nodes(u) \subseteq Seq(B) \ {Root}
      BY <1>1, <1>4, <1>7
    <2> QED BY <2>1, <2>2, <1>7, <1>8 DEF TreeOver
  \* Where nodes part from p they part at a node.
  <1>10. ASSUME NEW n \in N, NEW j \in Nat, 0 < j, j < Len(p), j < Len(n),
                Upto(n, j) = Upto(p, j), n[j + 1] # p[j + 1]
         PROVE  Upto(p, j) \in N
    <2>1. n \in Seq(B) /\ Len(n) \in Nat
      BY <1>1
    <2>2. j <= l
      <3> SUFFICES ASSUME j \in l + 1 .. Len(p)
                   PROVE  FALSE
        BY <1>3, <1>10
      <3>1. Covers(n, Upto(p, j))
        <4>1. Len(Upto(p, j)) = j
          BY <1>3, <1>10, PrefixLengths
        <4> QED BY <4>1, <1>10 DEF Covers
      <3> QED BY <3>1, <1>4
    <2>3. CASE j = l
      BY <2>3, <1>3, <1>10
    <2>4. CASE j < l
      <3>1. d \in N /\ Len(d) = l /\ j \in 1 .. Len(d) - 1 /\ j + 1 \in 1 .. l /\ l \in 0 .. Len(p)
            /\ j \in 0 .. l
        BY <2>4, <1>3, <1>10 DEF l
      <3>2. Upto(d, j) = Upto(p, j) /\ d[j + 1] = p[j + 1]
        BY <3>1, <1>3, PrefixLengths, UptoFacts
      <3>3. Upto(d, j) \in Nodes(t)
        BY <3>1, <3>2, <1>1, <1>10 DEF Branching, N
      <3> QED BY <3>2, <3>3 DEF N
    <2> QED BY <2>2, <2>3, <2>4, <1>3, <1>10
  <1>11. Branching(u)
    <2> SUFFICES ASSUME NEW a \in N \cup {p}, NEW b \in N \cup {p}, NEW j \in 1 .. Len(a) - 1,
                        j < Len(b), Upto(a, j) = Upto(b, j), a[j + 1] # b[j + 1]
                 PROVE  Upto(a, j) \in N \cup {p}
      BY <1>7 DEF Branching
    <2>1. a \in Seq(B) /\ j \in Nat /\ 0 < j /\ j < Len(a)
      BY <1>1
    <2>2. CASE a \in N /\ b \in N
      BY <2>2, <1>1 DEF Branching, N
    <2>3. CASE a = p /\ b \in N
      BY <2>1, <2>3, <1>10
    <2>4. CASE a \in N /\ b = p
      BY <2>1, <2>4, <1>10
    <2> QED BY <2>2, <2>3, <2>4
  \* Where the edges of the new tree start.
  <1>12. ParentLen(u, p) = l
    <2>1. \A j \in l + 1 .. Len(p) - 1 : Upto(p, j) \notin N \cup {p}
      <3> SUFFICES ASSUME NEW j \in l + 1 .. Len(p) - 1, Upto(p, j) \in N \cup {p}
                   PROVE  FALSE
        OBVIOUS
      <3>1. j \in 0 .. Len(p) /\ j \in l + 1 .. Len(p) /\ j < Len(p)
        BY <1>3
      <3>2. Upto(p, j) \in Seq(B) /\ Len(Upto(p, j)) = j
        BY <3>1, PrefixLengths
      <3>3. Covers(Upto(p, j), Upto(p, j))
        BY <3>2, CoversFacts
      <3> QED BY <3>1, <3>2, <3>3, <1>4
    <2>2. l \in 0 .. Len(p) - 1 /\ (l = 0 \/ Upto(p, l) \in N \cup {p})
      BY <1>3
    <2>3. StartsAt(u, p, l)
      BY <2>1, <2>2, <1>7 DEF StartsAt
    <2> QED BY <2>3, <1>4, ParentIs
  <1>13. ASSUME NEW n \in N
         PROVE  ParentLen(u, n) = ParentLen(t, n)
    <2> DEFINE e == ParentLen(t, n)
    <2>1. n \in Seq(B) \ {Root} /\ Len(n) \in Nat /\ e \in Nat
      BY <1>1, ParentFacts DEF N
    <2>2. StartsAt(t, n, e)
      BY <2>1, ParentExists
    <2> HIDE DEF e
    <2>3. ASSUME NEW j \in e + 1 .. Len(n) - 1, Upto(n, j) = p
          PROVE  FALSE
      <3>1. j \in 0 .. Len(n)
        BY <2>1
      <3>2. Covers(n, p)
        BY <3>1, <2>1, <2>3, PrefixLengths
      <3> QED BY <3>2, <1>5
    <2>4. StartsAt(u, n, e)
      BY <2>2, <2>3, <1>7 DEF StartsAt, N
    <2> QED BY <2>1, <2>4, ParentIs DEF e
  <1>14. RadixTree(B, G, u)
    <2>1. \A n \in Nodes(u) : Len(u[n].pages) = Len(n) - ParentLen(u, n)
      BY <1>1, <1>7, <1>12, <1>13 DEF l
    <2> QED BY <2>1, <1>9, <1>11 DEF RadixTree
  \* The paths and their pages.
  <1>15. \A n \in N : \A q : Holds(t, n, q) => Holds(u, n, q)
    BY <1>7, <1>13 DEF Holds
  <1>16. ASSUME NEW i \in l + 1 .. Len(p)
         PROVE  Upto(p, i) \in Seq(B) /\ Len(Upto(p, i)) = i /\ Holds(u, p, Upto(p, i))
    <2>1. i \in 0 .. Len(p) /\ l < i
      BY <1>3
    <2>2. Upto(p, i) \in Seq(B) /\ Len(Upto(p, i)) = i /\ Covers(p, Upto(p, i))
      BY <2>1, PrefixLengths
    <2> QED BY <2>1, <2>2, <1>7, <1>12 DEF Holds
  <1>17. PathsIn(u) = PathsIn(t) \cup {Upto(p, i) : i \in l + 1 .. Len(p)}
    <2>1. Nodes(u) \subseteq Seq(B) \ {Root} /\ Nodes(t) \subseteq Seq(B) \ {Root}
      BY <1>1, <1>9 DEF TreeOver, N
    <2>2. ASSUME NEW q \in PathsIn(u)
          PROVE  q \in PathsIn(t) \cup {Upto(p, i) : i \in l + 1 .. Len(p)}
      <3>1. q \in Seq(B) /\ q # Root /\ Len(q) > 0 /\ \E n \in Nodes(u) : Covers(n, q)
        BY <2>1, PathFacts
      <3>2. CASE \E n \in N : Covers(n, q)
        BY <3>1, <3>2, <2>1, PathFacts DEF N
      <3>3. CASE Covers(p, q)
        <4>1. Len(q) \in 1 .. Len(p) /\ q = Upto(p, Len(q))
          BY <3>1, <3>3 DEF Covers
        <4>2. CASE Len(q) \in 1 .. l
          BY <4>1, <4>2, <1>3
        <4>3. CASE Len(q) \in l + 1 .. Len(p)
          BY <4>1, <4>3
        <4> QED BY <4>1, <4>2, <4>3, <1>3
      <3> QED BY <3>1, <3>2, <3>3, <1>7
    <2>3. \A q \in PathsIn(t) : q \in PathsIn(u)
      BY <2>1, <1>7, PathFacts DEF N
    <2>4. \A i \in l + 1 .. Len(p) : Upto(p, i) \in PathsIn(u)
      <3> SUFFICES ASSUME NEW i \in l + 1 .. Len(p)
                   PROVE  Upto(p, i) \in PathsIn(u)
        OBVIOUS
      <3>1. i > 0
        BY <1>3
      <3>2. Upto(p, i) \in Seq(B) /\ Upto(p, i) # Root /\ Covers(p, Upto(p, i))
        BY <3>1, <1>16, CoversFacts DEF Holds
      <3> QED BY <3>2, <2>1, <1>7, PathFacts
    <2> QED BY <2>2, <2>3, <2>4
  <1>21. PathsIn(u) = PathsIn(t) \cup Beyond(p, l)
    BY <1>17 DEF Beyond
  <1>18. Nodes(u) \subseteq Seq(B) \ {Root} /\ Nodes(t) \subseteq Seq(B) \ {Root}
    BY <1>1, <1>9 DEF TreeOver, N
  <1>19. ASSUME NEW q \in PathsIn(t)
         PROVE  MapOf(u)[q] = MapOf(t)[q]
    <2>1. PICK g \in N : Holds(t, g, q)
      BY <1>1, HolderExists DEF N
    <2>2. Holds(u, g, q) /\ u[g] = t[g] /\ ParentLen(u, g) = ParentLen(t, g)
      BY <2>1, <1>7, <1>13, <1>15
    <2>3. MapOf(t)[q] = t[g].pages[Len(q) - ParentLen(t, g)]
      BY <2>1, <1>1, <1>18, MapAt
    <2>4. q \in PathsIn(u)
      BY <1>17
    <2>5. MapOf(u)[q] = u[g].pages[Len(q) - ParentLen(u, g)]
      BY ONLY <2>2, <2>4, <1>11, <1>18, MapAt
    <2> QED BY <2>2, <2>3, <2>5
  <1>20. ASSUME NEW i \in l + 1 .. Len(p)
         PROVE  MapOf(u)[Upto(p, i)] = leaf.pages[i - l]
    <2>1. Upto(p, i) \in PathsIn(u) /\ Holds(u, p, Upto(p, i)) /\ Len(Upto(p, i)) = i
      BY <1>16, <1>17
    <2>2. MapOf(u)[Upto(p, i)] = u[p].pages[Len(Upto(p, i)) - ParentLen(u, p)]
      BY <2>1, <1>11, <1>18, MapAt
    <2> QED BY <2>1, <2>2, <1>7, <1>12
  <1> QED BY <1>5, <1>6, <1>7, <1>14, <1>19, <1>20, <1>21 DEF N, l

\* Every node of u stands for one of t and has its references, or lies on no
\* path to a node of t and has none.
RefsFromOr0(t, u) ==
    \A n \in Nodes(u) :
        \/ \E c \in Nodes(t) : StandsFor(t, n, c) /\ u[n].ref_count = t[c].ref_count
        \/ /\ u[n].ref_count = 0
           /\ \A x \in Nodes(t) \cup {Root} : ~Covers(x, n)

\* insert_and_return puts into the map the pages of the paths it did not have,
\* and tells how many it had.  Nodes it makes by splitting stand for old ones;
\* the new leaf lies on no old path and is not referenced.
LEMMA InsertKeeps ==
    ASSUME NEW B, NEW G, NEW t, RadixTree(B, G, t), NEW p \in Seq(B),
           NEW pages \in Seq(G), Len(p) <= Len(pages),
           NEW u, u = Insert(t, p, pages).tree, NEW had, had = Insert(t, p, pages).had
    PROVE  /\ RadixTree(B, G, u) /\ p \in Nodes(u) \cup {Root}
           /\ had \in 0 .. Len(p)
           /\ \A i \in 1 .. had : Upto(p, i) \in PathsIn(t)
           /\ \A i \in had + 1 .. Len(p) : Upto(p, i) \notin PathsIn(t)
           /\ PathsIn(u) = PathsIn(t) \cup Beyond(p, had)
           /\ \A q \in PathsIn(t) : MapOf(u)[q] = MapOf(t)[q]
           /\ \A i \in had + 1 .. Len(p) : MapOf(u)[Upto(p, i)] = pages[i]
           /\ Nodes(t) \subseteq Nodes(u)
           /\ RefsFromOr0(t, u)
  <1> DEFINE w == Walk(t, p).tree
             d == Walk(t, p).node
             leaf == [pages |-> SubSeq(pages, Len(d) + 1, Len(p)), ref_count |-> 0,
                      last_access |-> Newest(w) + 1]
             v == WithLeaf(w, p, leaf)
  <1>1. Len(p) \in Nat /\ Nodes(t) \subseteq Seq(B) \ {Root}
    BY DEF RadixTree, TreeOver
  <1>2. CASE p = Root
    <2>1. Len(p) = 0
      BY <1>2 DEF Root
    <2>2. u = t /\ had = 0
      BY <1>2 DEF Insert
    <2>3. \A n \in Nodes(t) : StandsFor(t, n, n)
      BY DEF StandsFor
    <2>4. 1 .. 0 = {} /\ 0 + 1 .. 0 = {}
      OBVIOUS
    <2>5. RefsFromOr0(t, u) /\ Beyond(p, had) = {}
      BY <2>1, <2>2, <2>3, <2>4 DEF RefsFromOr0, Beyond
    <2> QED BY <2>1, <2>2, <2>4, <2>5, <1>2
  <1>3. CASE p # Root
    <2>1. had = Len(d) /\ u = IF had = Len(p) THEN w ELSE v
      BY <1>3 DEF Insert, WithLeaf
    <2>0. /\ w = Walk(t, p).tree /\ d = Walk(t, p).node
          /\ RadixTree(B, G, t) /\ p \in Seq(B)
      OBVIOUS
    <2> HIDE DEF w, d
    <2>2. /\ RadixTree(B, G, w) /\ MapOf(w) = MapOf(t) /\ PathsIn(w) = PathsIn(t)
          /\ WalkTo(w, p, d)
          /\ Nodes(t) \subseteq Nodes(w)
          /\ RefsFrom(t, w)
      BY ONLY <2>0, WalkKeeps
    <2>3. Nodes(w) \subseteq Seq(B) \ {Root}
      BY <2>2 DEF RadixTree, TreeOver
    <2>4. /\ d \in Seq(B) /\ Len(d) \in 0 .. Len(p) /\ d = Upto(p, Len(d))
          /\ \A i \in 1 .. Len(d) : Upto(p, i) \in PathsIn(t)
          /\ \A i \in Len(d) + 1 .. Len(p) : Upto(p, i) \notin PathsIn(t)
      BY <2>2, <2>3, WalkHits
    <2>5. CASE had = Len(p)
      <3>1. u = w /\ p = d
        BY <2>1, <2>4, <2>5, CoversFacts
      <3>2. had + 1 .. Len(p) = {}
        BY <2>5, <1>1
      <3>3. p \in Nodes(u) \cup {Root}
        BY <3>1, <2>2 DEF WalkTo
      <3>4. RefsFromOr0(t, u) /\ Beyond(p, had) = {}
        BY <3>1, <3>2, <2>2 DEF RefsFromOr0, RefsFrom, Beyond
      <3> QED BY <3>1, <3>2, <3>3, <3>4, <2>1, <2>2, <2>4
    <2>6. CASE had # Len(p)
      <3>1. u = v /\ Len(d) < Len(p) /\ Len(d) \in Nat /\ Len(pages) \in Nat
        BY <2>1, <2>4, <2>6, <1>1
      <3>2. /\ SubSeq(pages, Len(d) + 1, Len(p)) \in Seq(G)
            /\ Len(SubSeq(pages, Len(d) + 1, Len(p))) = Len(p) - Len(d)
            /\ \A i \in 1 .. Len(p) - Len(d) :
                 SubSeq(pages, Len(d) + 1, Len(p))[i] = pages[Len(d) + i]
        <4> HIDE DEF v, leaf
        <4>1. \A a, b \in Nat : a < b /\ b <= Len(pages) =>
                /\ SubSeq(pages, a + 1, b) \in Seq(G)
                /\ Len(SubSeq(pages, a + 1, b)) = b - a
                /\ \A i \in 1 .. b - a : SubSeq(pages, a + 1, b)[i] = pages[a + i]
          OBVIOUS
        <4> QED BY <4>1, <3>1, <1>1
      <3>3. leaf \in NodeOver(G, {Newest(w) + 1}) /\ Len(leaf.pages) = Len(p) - Len(d)
        BY <3>2 DEF NodeOver
      <3>4. leaf.ref_count = 0
        OBVIOUS
      <3>5. \A i \in Len(d) + 1 .. Len(p) : leaf.pages[i - Len(d)] = pages[i]
        <4> SUFFICES ASSUME NEW i \in Len(d) + 1 .. Len(p)
                     PROVE  leaf.pages[i - Len(d)] = pages[i]
          OBVIOUS
        <4>1. i - Len(d) \in 1 .. Len(p) - Len(d) /\ Len(d) + (i - Len(d)) = i
          BY <3>1, <1>1
        <4> QED BY <4>1, <3>2
      <3> HIDE DEF leaf
      <3>13. v = WithLeaf(w, p, leaf)
        OBVIOUS
      <3>14. PICK K : leaf \in NodeOver(G, K)
        BY <3>3
      <3>15. Len(leaf.pages) = Len(p) - Len(d)
        BY <3>3
      <3> HIDE DEF v
      <3>16. /\ RadixTree(B, G, w) /\ WalkTo(w, p, d) /\ Len(d) < Len(p)
             /\ leaf \in NodeOver(G, K) /\ Len(leaf.pages) = Len(p) - Len(d)
             /\ v = WithLeaf(w, p, leaf)
        BY <2>2, <3>1, <3>13, <3>14, <3>15
      <3>6. /\ RadixTree(B, G, v) /\ Nodes(v) = Nodes(w) \cup {p} /\ p \notin Nodes(w)
            /\ \A n \in Nodes(w) : v[n] = w[n] /\ ~Covers(n, p)
            /\ v[p] = leaf
            /\ PathsIn(v) = PathsIn(w) \cup Beyond(p, Len(d))
            /\ \A q \in PathsIn(w) : MapOf(v)[q] = MapOf(w)[q]
            /\ \A i \in Len(d) + 1 .. Len(p) : MapOf(v)[Upto(p, i)] = leaf.pages[i - Len(d)]
        BY <3>16, LeafAdded
      <3>7. \A x \in Nodes(t) \cup {Root} : ~Covers(x, p)
        BY <3>6, <2>2, <1>3, CoversFacts
      <3>8. RefsFromOr0(t, v)
        <4> SUFFICES ASSUME NEW n \in Nodes(v)
                     PROVE
                \/ \E c \in Nodes(t) : StandsFor(t, n, c) /\ v[n].ref_count = t[c].ref_count
                \/ /\ v[n].ref_count = 0
                   /\ \A x \in Nodes(t) \cup {Root} : ~Covers(x, n)
          BY DEF RefsFromOr0
        <4>1. CASE n = p
          BY <4>1, <3>4, <3>6, <3>7
        <4>2. CASE n \in Nodes(w)
          BY <4>2, <3>6, <2>2 DEF RefsFrom
        <4> QED BY <4>1, <4>2, <3>6
      <3>9. /\ u = v /\ had = Len(d) /\ MapOf(w) = MapOf(t) /\ PathsIn(w) = PathsIn(t)
            /\ Nodes(t) \subseteq Nodes(w)
        BY <3>1, <2>1, <2>2
      <3>10. /\ RadixTree(B, G, u) /\ p \in Nodes(u) \cup {Root}
             /\ PathsIn(u) = PathsIn(t) \cup Beyond(p, had)
             /\ \A q \in PathsIn(t) : MapOf(u)[q] = MapOf(t)[q]
             /\ Nodes(t) \subseteq Nodes(u)
        BY <3>6, <3>9
      <3>11. \A i \in had + 1 .. Len(p) : MapOf(u)[Upto(p, i)] = pages[i]
        BY <3>5, <3>6, <3>9
      <3> QED BY <3>8, <3>9, <3>10, <3>11, <2>4
    <2> QED BY <2>5, <2>6
  <1> QED BY <1>2, <1>3

-------------------------------------------------------------------------------
(* Eviction. *)

\* A set of nodes that can leave: with a node all below it.
LeafFirst(t, E) ==
    E \subseteq Nodes(t) /\ \A n \in E : \A m \in Nodes(t) : Covers(m, n) => m \in E

\* Dropping such a set drops the paths its nodes hold from the map.
LEMMA PruneKeeps ==
    ASSUME NEW B, NEW G, NEW t, RadixTree(B, G, t), NEW E, LeafFirst(t, E),
           NEW u, u = Pruned(t, E)
    PROVE  /\ RadixTree(B, G, u) /\ Nodes(u) = Nodes(t) \ E
           /\ \A n \in Nodes(u) : u[n] = t[n]
           /\ PathsIn(u) = PathsIn(t) \ HeldBy(t, E)
           /\ MapOf(u) = Without(MapOf(t), HeldBy(t, E))
  <1> DEFINE N == Nodes(t)
  <1>1. /\ N \subseteq Seq(B) \ {Root} /\ IsFiniteSet(N) /\ Branching(t)
        /\ \A n \in N : Len(t[n].pages) = Len(n) - ParentLen(t, n)
    BY DEF RadixTree, TreeOver
  <1>2. PICK L : t \in [N -> NodeOver(G, L)]
    BY DEF RadixTree, TreeOver
  <1>3. \A n \in E : \A m \in N : Covers(m, n) => m \in E
    BY DEF LeafFirst
  <1>4. Nodes(u) = N \ E /\ \A n \in N \ E : u[n] = t[n]
    BY DEF Pruned, Nodes
  <1>5. TreeOver(B, G, u)
    <2>1. u \in [Nodes(u) -> NodeOver(G, L)]
      BY <1>2, <1>4 DEF Pruned
    <2>2. IsFiniteSet(N \ E)
      BY <1>1, FS_Difference
    <2> QED BY <2>1, <2>2, <1>1, <1>4 DEF TreeOver
  <1> HIDE DEF N
  \* What is above a node that stays stays.
  <1>6. ASSUME NEW n \in N \ E, NEW j \in 0 .. Len(n)
        PROVE  Upto(n, j) \notin E
    <2>1. n \in Seq(B)
      BY <1>1
    <2>2. Covers(n, Upto(n, j))
      BY <2>1, PrefixLengths
    <2> QED BY <2>2, <1>3
  <1>7. Branching(u)
    <2> SUFFICES ASSUME NEW a \in N \ E, NEW b \in N \ E, NEW j \in 1 .. Len(a) - 1,
                        j < Len(b), Upto(a, j) = Upto(b, j), a[j + 1] # b[j + 1]
                 PROVE  Upto(a, j) \in N \ E
      BY <1>4 DEF Branching
    <2>1. Upto(a, j) \in N
      BY <1>1 DEF Branching, N
    <2>2. j \in 0 .. Len(a)
      BY <1>1
    <2> QED BY <2>1, <2>2, <1>6
  <1>8. ASSUME NEW n \in N \ E
        PROVE  ParentLen(u, n) = ParentLen(t, n)
    <2> DEFINE e == ParentLen(t, n)
    <2>1. n \in Seq(B) \ {Root} /\ Len(n) \in Nat
      BY <1>1
    <2>2. StartsAt(t, n, e)
      BY <2>1, ParentExists
    <2> HIDE DEF e
    <2>3. e \in 0 .. Len(n)
      BY <2>1, <2>2 DEF StartsAt
    <2>4. StartsAt(u, n, e)
      BY <2>2, <2>3, <1>4, <1>6 DEF StartsAt, N
    <2> QED BY <2>1, <2>4, ParentIs DEF e
  <1>9. RadixTree(B, G, u)
    BY <1>1, <1>4, <1>5, <1>7, <1>8 DEF RadixTree
  <1>10. Nodes(u) \subseteq Seq(B) \ {Root} /\ Nodes(t) \subseteq Seq(B) \ {Root}
    BY <1>1, <1>5 DEF TreeOver, N
  <1>11. PathsIn(u) = PathsIn(t) \ HeldBy(t, E)
    <2>1. ASSUME NEW p \in PathsIn(u)
          PROVE  p \in PathsIn(t) /\ p \notin HeldBy(t, E)
      <3>1. p \in Seq(B) /\ p # Root /\ \E n \in Nodes(u) : Covers(n, p)
        BY <1>10, PathFacts
      <3>2. PICK n \in N \ E : Covers(n, p)
        BY <3>1, <1>4
      <3>3. p \in PathsIn(t)
        BY <3>1, <3>2, <1>10, PathFacts DEF N
      <3>4. PICK h \in N : /\ Holds(t, h, p)
                           /\ \A m \in N : Covers(m, p) => Covers(m, h)
                           /\ \A m : Holds(t, m, p) => m = h
        BY <3>3, <1>1, <1>10, HolderExists DEF N
      <3>5. h \notin E
        BY <3>2, <3>4, <1>3
      <3> QED BY <3>3, <3>4, <3>5 DEF HeldBy
    <2>2. ASSUME NEW p \in PathsIn(t), p \notin HeldBy(t, E)
          PROVE  p \in PathsIn(u)
      <3>1. PICK h \in N : Holds(t, h, p)
        BY <1>1, <1>10, HolderExists DEF N
      <3>2. h \notin E
        BY <3>1, <2>2 DEF HeldBy
      <3>3. Covers(h, p) /\ p \in Seq(B) /\ p # Root
        BY <3>1, <1>10, PathFacts DEF Holds
      <3> QED BY <3>2, <3>3, <1>4, <1>10, PathFacts
    <2> QED BY <2>1, <2>2
  <1>12. ASSUME NEW p \in PathsIn(u)
         PROVE  MapOf(u)[p] = MapOf(t)[p]
    <2>1. p \in PathsIn(t) /\ p \notin HeldBy(t, E)
      BY <1>11
    <2>2. PICK h \in N : Holds(t, h, p)
      BY <2>1, <1>1, <1>10, HolderExists DEF N
    <2>3. h \notin E
      BY <2>1, <2>2 DEF HeldBy
    <2>4. Holds(u, h, p) /\ u[h] = t[h] /\ ParentLen(u, h) = ParentLen(t, h)
      BY <2>2, <2>3, <1>4, <1>8 DEF Holds
    <2>5. MapOf(t)[p] = t[h].pages[Len(p) - ParentLen(t, h)]
      BY <2>1, <2>2, <1>1, <1>10, MapAt
    <2>6. MapOf(u)[p] = u[h].pages[Len(p) - ParentLen(u, h)]
      BY ONLY <2>4, <1>7, <1>10, <1>12, MapAt
    <2> QED BY <2>4, <2>5, <2>6
  <1>13. MapOf(u) = [p \in PathsIn(u) |-> MapOf(u)[p]]
    BY DEF MapOf
  <1>14. DOMAIN MapOf(t) = PathsIn(t)
    BY DEF MapOf
  <1>15. MapOf(u) = Without(MapOf(t), HeldBy(t, E))
    BY <1>11, <1>12, <1>13, <1>14 DEF Without
  <1> QED BY <1>4, <1>9, <1>11, <1>15 DEF N

-------------------------------------------------------------------------------
(* Pages and paths of a set of nodes. *)

\* The pages of E, counted one by one, are as many as the paths E holds.
LEMMA HeldCount ==
    ASSUME NEW B, NEW G, NEW t, RadixTree(B, G, t), NEW E, E \subseteq Nodes(t)
    PROVE  /\ IsFiniteSet(HeldBy(t, E))
           /\ PageCount(t, E) = Cardinality(HeldBy(t, E)) /\ PageCount(t, E) \in Nat
  <1> DEFINE slots(n) == {<<n, i>> : i \in 1 .. Len(t[n].pages)}
             S == UNION {slots(n) : n \in E}
             end(n, i) == Upto(n, ParentLen(t, n) + i)
             f == [x \in S |-> end(x[1], x[2])]
             T == {f[x] : x \in S}
  <1>1. /\ Nodes(t) \subseteq Seq(B) \ {Root} /\ IsFiniteSet(Nodes(t)) /\ Branching(t)
        /\ \A n \in Nodes(t) : Len(t[n].pages) = Len(n) - ParentLen(t, n)
    BY DEF RadixTree, TreeOver
  <1>2. \A n \in Nodes(t) : ParentLen(t, n) \in Nat /\ Len(n) \in Nat /\ ParentLen(t, n) < Len(n)
                            /\ n \in Seq(B)
    BY <1>1, ParentFacts
  <1>3. \A x \in S : /\ x[1] \in E /\ x[2] \in 1 .. Len(x[1]) - ParentLen(t, x[1])
                     /\ x = <<x[1], x[2]>>
    <2>1. ASSUME NEW x \in S
          PROVE  /\ x[1] \in E /\ x[2] \in 1 .. Len(x[1]) - ParentLen(t, x[1])
                 /\ x = <<x[1], x[2]>>
      <3>1. PICK n \in E : x \in slots(n)
        OBVIOUS
      <3>2. PICK i \in 1 .. Len(t[n].pages) : x = <<n, i>>
        BY <3>1
      <3> QED BY <3>2, <1>1
    <2> QED BY <2>1
  <1>4. \A n \in E : \A i \in 1 .. Len(n) - ParentLen(t, n) : <<n, i>> \in S
    <2>1. ASSUME NEW n \in E, NEW i \in 1 .. Len(n) - ParentLen(t, n)
          PROVE  <<n, i>> \in S
      <3>1. <<n, i>> \in slots(n)
        BY <1>1
      <3> QED BY <3>1
    <2> QED BY <2>1
  <1>5. IsFiniteSet(S)
    <2>1. \A n \in E : IsFiniteSet(slots(n))
      <3> SUFFICES ASSUME NEW n \in E
                   PROVE  IsFiniteSet(slots(n))
        OBVIOUS
      <3> DEFINE I == 1 .. Len(t[n].pages)
                 g == [i \in I |-> <<n, i>>]
      <3>1. Len(t[n].pages) \in Int
        BY <1>1, <1>2
      <3>2. IsFiniteSet(I)
        BY <3>1, FS_Interval
      <3>3. slots(n) = {g[i] : i \in I} /\ g \in [I -> slots(n)]
        OBVIOUS
      <3> HIDE DEF I, g, slots
      <3> QED BY <3>2, <3>3, FiniteImage
    <2> DEFINE U == {slots(n) : n \in E}
               g == [n \in E |-> slots(n)]
    <2>2. IsFiniteSet(E)
      BY <1>1, FS_Subset
    <2>3. U = {g[n] : n \in E} /\ g \in [E -> U] /\ S = UNION U
      OBVIOUS
    <2>4. \A s \in U : IsFiniteSet(s)
      BY <2>1
    <2> HIDE DEF U, g, slots, S
    <2>5. IsFiniteSet(U)
      BY <2>2, <2>3, FiniteImage
    <2>6. IsFiniteSet(UNION U)
      BY <2>4, <2>5, FS_UNION
    <2> QED BY <2>3, <2>6
  <1>6. PageCount(t, E) = Cardinality(S)
    BY DEF PageCount
  <1> HIDE DEF S, slots
  \* The path that ends at the i-th page of n is held by n.
  <1>7. ASSUME NEW n \in E, NEW i \in 1 .. Len(n) - ParentLen(t, n)
        PROVE  /\ end(n, i) \in HeldBy(t, E) /\ Holds(t, n, end(n, i))
               /\ Len(end(n, i)) = ParentLen(t, n) + i
    <2> DEFINE k == ParentLen(t, n) + i
    <2>1. n \in Nodes(t) /\ n \in Seq(B) /\ k \in 0 .. Len(n) /\ k > ParentLen(t, n) /\ k > 0
      BY <1>2
    <2>2. Upto(n, k) \in Seq(B) /\ Len(Upto(n, k)) = k /\ Covers(n, Upto(n, k))
      BY <2>1, PrefixLengths
    <2>3. Upto(n, k) \in PathsIn(t)
      BY <2>1, <2>2, <1>1, CoversFacts, PathFacts
    <2> QED BY <2>1, <2>2, <2>3 DEF HeldBy, Holds
  <1>8. T = HeldBy(t, E)
    <2>1. \A x \in S : f[x] \in HeldBy(t, E)
      BY <1>3, <1>7
    <2>2. ASSUME NEW p \in HeldBy(t, E)
          PROVE  p \in T
      <3>1. PICK n \in E : Holds(t, n, p)
        BY DEF HeldBy
      <3>2. p \in PathsIn(t)
        BY DEF HeldBy
      <3>3. p \in Seq(B) /\ Covers(n, p) /\ ParentLen(t, n) < Len(p)
        BY <3>1, <3>2, <1>1, PathFacts DEF Holds
      <3> DEFINE i == Len(p) - ParentLen(t, n)
      <3>4. Len(p) \in Nat /\ Len(p) <= Len(n) /\ p = Upto(n, Len(p))
        BY <3>3 DEF Covers
      <3>5. i \in 1 .. Len(n) - ParentLen(t, n) /\ ParentLen(t, n) + i = Len(p)
        BY <3>3, <3>4, <1>2
      <3>6. <<n, i>> \in S
        BY <3>5, <1>4
      <3>7. f[<<n, i>>] = end(n, i)
        BY <3>6
      <3>8. end(n, i) = p
        BY <3>4, <3>5
      <3> QED BY <3>6, <3>7, <3>8
    <2> QED BY <2>1, <2>2
  <1>9. ASSUME NEW x \in S, NEW y \in S, f[x] = f[y]
        PROVE  x = y
    <2>1. /\ Holds(t, x[1], f[x]) /\ Holds(t, y[1], f[x]) /\ f[x] \in PathsIn(t)
          /\ Len(f[x]) = ParentLen(t, x[1]) + x[2] /\ Len(f[x]) = ParentLen(t, y[1]) + y[2]
      BY <1>3, <1>7, <1>9 DEF HeldBy
    <2>2. x[1] \in Nodes(t) /\ y[1] \in Nodes(t)
      BY <1>3
    <2> DEFINE p == f[x]
    <2>3. /\ Holds(t, x[1], p) /\ Holds(t, y[1], p) /\ p \in PathsIn(t)
      BY <2>1
    <2> HIDE DEF p, f
    <2>4. x[1] = y[1]
      BY <2>2, <2>3, <1>1, HolderExists
    <2>5. x[2] = y[2]
      <3>1. x[2] \in Int /\ y[2] \in Int /\ ParentLen(t, x[1]) \in Nat
        BY <1>2, <1>3
      <3> QED BY <2>1, <2>4, <3>1
    <2> QED BY <2>4, <2>5, <1>3
  <1>10. f \in [S -> T]
    OBVIOUS
  <1> HIDE DEF f
  <1>11. IsFiniteSet(T) /\ Cardinality(T) = Cardinality(S)
    BY <1>5, <1>9, <1>10, FiniteImage
  <1>12. Cardinality(S) \in Nat
    BY <1>5, FS_CardinalityType
  <1> QED BY <1>6, <1>8, <1>11, <1>12

\* All nodes together hold all paths.
LEMMA AllHeld ==
    ASSUME NEW B, NEW G, NEW t, RadixTree(B, G, t)
    PROVE  /\ HeldBy(t, Nodes(t)) = PathsIn(t) /\ IsFiniteSet(PathsIn(t))
           /\ PageCount(t, Nodes(t)) = Cardinality(PathsIn(t))
  <1>1. Nodes(t) \subseteq Seq(B) \ {Root} /\ Branching(t)
    BY DEF RadixTree, TreeOver
  <1>2. HeldBy(t, Nodes(t)) = PathsIn(t)
    BY <1>1, HolderExists DEF HeldBy
  <1> QED BY <1>2, HeldCount

\* The pages of E are those the paths it holds map to.
LEMMA HeldPages ==
    ASSUME NEW B, NEW G, NEW t, RadixTree(B, G, t), NEW E, E \subseteq Nodes(t)
    PROVE  PagesOf(t, E) = {MapOf(t)[p] : p \in HeldBy(t, E)}
  <1>1. /\ Nodes(t) \subseteq Seq(B) \ {Root} /\ Branching(t)
        /\ \A n \in Nodes(t) : Len(t[n].pages) = Len(n) - ParentLen(t, n)
    BY DEF RadixTree, TreeOver
  <1>2. ASSUME NEW p \in HeldBy(t, E)
        PROVE  MapOf(t)[p] \in PagesOf(t, E)
    <2>1. PICK n \in E : Holds(t, n, p)
      BY DEF HeldBy
    <2>2. p \in PathsIn(t) /\ p \in Seq(B)
      BY <1>1, PathFacts DEF HeldBy
    <2>3. Covers(n, p) /\ ParentLen(t, n) < Len(p) /\ ParentLen(t, n) \in Nat /\ Len(n) \in Nat
      BY <2>1, <1>1, ParentFacts DEF Holds
    <2>4. Len(p) - ParentLen(t, n) \in 1 .. Len(t[n].pages)
      BY <2>2, <2>3, <1>1 DEF Covers
    <2>5. MapOf(t)[p] = t[n].pages[Len(p) - ParentLen(t, n)]
      BY <2>1, <2>2, <1>1, MapAt
    <2> QED BY <2>4, <2>5 DEF PagesOf
  <1>3. ASSUME NEW n \in E, NEW i \in 1 .. Len(t[n].pages)
        PROVE  t[n].pages[i] \in {MapOf(t)[p] : p \in HeldBy(t, E)}
    <2> DEFINE k == ParentLen(t, n) + i
               p == Upto(n, k)
    <2>1. /\ n \in Nodes(t) /\ n \in Seq(B) /\ ParentLen(t, n) \in Nat /\ Len(n) \in Nat
          /\ Len(t[n].pages) = Len(n) - ParentLen(t, n)
      BY <1>1, ParentFacts
    <2>2. k \in 0 .. Len(n) /\ k > ParentLen(t, n) /\ k > 0 /\ k - ParentLen(t, n) = i
      BY <2>1
    <2>3. p \in Seq(B) /\ Len(p) = k /\ Covers(n, p)
      BY <2>1, <2>2, PrefixLengths
    <2>4. p \in PathsIn(t)
      BY <2>1, <2>2, <2>3, <1>1, CoversFacts, PathFacts
    <2>5. Holds(t, n, p) /\ p \in HeldBy(t, E)
      BY <2>1, <2>2, <2>3, <2>4 DEF HeldBy, Holds
    <2>6. MapOf(t)[p] = t[n].pages[Len(p) - ParentLen(t, n)]
      BY <2>4, <2>5, <1>1, MapAt
    <2> QED BY <2>2, <2>3, <2>5, <2>6
  <1>4. \A x : x \in PagesOf(t, E)
                <=> \E n \in E : \E i \in 1 .. Len(t[n].pages) : x = t[n].pages[i]
    BY DEF PagesOf
  <1> QED BY <1>2, <1>3, <1>4

\* With a path all longer ones of the tree are held by nodes that can leave.
LEMMA HeldClosed ==
    ASSUME NEW B, NEW G, NEW t, RadixTree(B, G, t), NEW E, LeafFirst(t, E),
           NEW p \in HeldBy(t, E), NEW q \in PathsIn(t), Covers(q, p)
    PROVE  q \in HeldBy(t, E)
  <1>1. Nodes(t) \subseteq Seq(B) \ {Root} /\ Branching(t)
    BY DEF RadixTree, TreeOver
  <1>2. PICK n \in E : Holds(t, n, p)
    BY DEF HeldBy
  <1>3. p \in PathsIn(t) /\ p \in Seq(B) /\ q \in Seq(B)
    BY <1>1, PathFacts DEF HeldBy
  <1>4. PICK h \in Nodes(t) : Holds(t, h, q)
    BY <1>1, HolderExists
  <1>5. Covers(h, p)
    <2>1. h \in Seq(B) /\ Covers(h, q)
      BY <1>1, <1>4 DEF Holds
    <2> QED BY <2>1, <1>3, CoversTransitive
  <1>6. Covers(h, n)
    BY <1>1, <1>2, <1>3, <1>5, HolderExists
  <1>7. h \in E
    BY <1>2, <1>6 DEF LeafFirst
  <1> QED BY <1>4, <1>7 DEF HeldBy

\* What evict may remove.
LEMMA EvictableFacts ==
    ASSUME NEW t, NEW need \in Int, NEW E \in EvictableSets(t, need)
    PROVE  /\ LeafFirst(t, E)
           /\ need <= 0 => E = {}
           /\ need > 0 => /\ E \subseteq Evictable(t)
                          /\ PageCount(t, E) >= need \/ E = Evictable(t)
  <1>1. CASE need <= 0
    BY <1>1 DEF EvictableSets, LeafFirst
  <1>2. CASE need > 0
    <2>1. /\ E \subseteq Evictable(t)
          /\ \A n \in E, m \in Nodes(t) : Covers(m, n) => m \in E
          /\ PageCount(t, E) >= need \/ E = Evictable(t)
      BY <1>2 DEF EvictableSets
    <2> QED BY <2>1, <1>2 DEF LeafFirst, Evictable
  <1> QED BY <1>1, <1>2

===============================================================================
