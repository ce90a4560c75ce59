---------------------------- MODULE PagedKVProofs ----------------------------
(***************************************************************************)
(* Proofs about PagedKV: its type invariant and the safety of its page     *)
(* bookkeeping, for every value of the constants.  The inductive           *)
(* invariant is KVInv (in PagedKV).  The lemmas ...KeepsPages show that    *)
(* an operation of the engine keeps PagesInv, the part about pages; the    *)
(* lemmas ...Keeps that it keeps all of KVInv.                             *)
(***************************************************************************)
EXTENDS PagedKV, PagingProofs, FiniteSetTheorems

\* The pages of a table from position k on.
Above(t, k) == {t[i] : i \in k + 1 .. Len(t)}
Distinct(t, k) == \A i, j \in k + 1 .. Len(t) : t[i] = t[j] => i = j

\* A table extended by n pages keeps what it had and then lists the new pages.
LEMMA TableGrown ==
    ASSUME NEW S, NEW t \in Seq(S), NEW n \in Nat, NEW new \in [1 .. n -> S]
    PROVE  /\ t \o new \in Seq(S) /\ Len(t \o new) = Len(t) + n
           /\ \A i \in 1 .. Len(t) : (t \o new)[i] = t[i]
           /\ \A i \in 1 .. n : (t \o new)[Len(t) + i] = new[i]
  <1>1. new \in Seq(S) /\ Len(new) = n
    BY FunctionIsSeq
  <1> QED BY <1>1

\* page_table.extend: a request's own pages are those it had and the new ones,
\* still without repetition.
LEMMA AboveGrown ==
    ASSUME NEW S, NEW t \in Seq(S), NEW k \in 0 .. Len(t),
           NEW n \in Nat, NEW new \in [1 .. n -> S],
           \A i, j \in 1 .. n : new[i] = new[j] => i = j,
           \A i \in 1 .. n : new[i] \notin Above(t, k),
           Distinct(t, k)
    PROVE  /\ Above(t \o new, k) = Above(t, k) \cup {new[i] : i \in 1 .. n}
           /\ Distinct(t \o new, k)
  <1> DEFINE l == Len(t)
             u == t \o new
  <1>1. /\ u \in Seq(S) /\ Len(u) = l + n /\ l \in Nat /\ k \in 0 .. l
        /\ \A i \in 1 .. l : u[i] = t[i]
        /\ \A i \in 1 .. n : u[l + i] = new[i]
    BY TableGrown
  <1>2. /\ Above(t, k) = {t[i] : i \in k + 1 .. l}
        /\ Above(u, k) = {u[i] : i \in k + 1 .. l + n}
    BY <1>1 DEF Above
  <1> HIDE DEF l, u
  <1>4. \A i \in k + 1 .. l : u[i] = t[i] /\ u[i] \in Above(t, k)
    BY <1>1, <1>2
  <1>5. \A i \in l + 1 .. l + n : i - l \in 1 .. n /\ u[i] = new[i - l]
    <2> SUFFICES ASSUME NEW i \in l + 1 .. l + n
                 PROVE  i - l \in 1 .. n /\ u[i] = new[i - l]
      OBVIOUS
    <2>1. i - l \in 1 .. n /\ i = l + (i - l)
      BY <1>1
    <2> QED BY <2>1, <1>1
  <1>0. \A i \in k + 1 .. l + n : i \in k + 1 .. l \/ i \in l + 1 .. l + n
    BY <1>1
  <1>6. \A i \in k + 1 .. l + n : u[i] \in Above(t, k) \cup {new[j] : j \in 1 .. n}
    BY <1>0, <1>4, <1>5
  <1>7. \A i \in k + 1 .. l : t[i] \in Above(u, k)
    <2> SUFFICES ASSUME NEW i \in k + 1 .. l
                 PROVE  t[i] \in Above(u, k)
      OBVIOUS
    <2>1. i \in k + 1 .. l + n /\ u[i] = t[i]
      BY <1>1, <1>4
    <2> QED BY <2>1, <1>2
  <1>8. \A i \in 1 .. n : new[i] \in Above(u, k)
    <2> SUFFICES ASSUME NEW i \in 1 .. n
                 PROVE  new[i] \in Above(u, k)
      OBVIOUS
    <2>1. l + i \in k + 1 .. l + n /\ u[l + i] = new[i]
      BY <1>1
    <2> QED BY <2>1, <1>2
  <1>9. ASSUME NEW i \in k + 1 .. l + n, NEW j \in k + 1 .. l + n, u[i] = u[j]
        PROVE  i = j
    <2>1. (i \in k + 1 .. l \/ i \in l + 1 .. l + n) /\ (j \in k + 1 .. l \/ j \in l + 1 .. l + n)
      BY <1>0
    <2>2. CASE i \in k + 1 .. l /\ j \in k + 1 .. l
      BY <2>2, <1>4, <1>9 DEF Distinct, l
    <2>3. CASE i \in l + 1 .. l + n /\ j \in l + 1 .. l + n
      <3>1. i - l \in 1 .. n /\ j - l \in 1 .. n /\ new[i - l] = new[j - l]
        BY <2>3, <1>5, <1>9
      <3>2. i - l = j - l
        BY <3>1
      <3> QED BY <3>2, <1>1
    <2>4. CASE i \in k + 1 .. l /\ j \in l + 1 .. l + n
      BY <2>4, <1>4, <1>5, <1>9
    <2>5. CASE i \in l + 1 .. l + n /\ j \in k + 1 .. l
      BY <2>5, <1>4, <1>5, <1>9
    <2> QED BY <2>1, <2>2, <2>3, <2>4, <2>5
  <1>10. Distinct(u, k)
    BY <1>1, <1>9 DEF Distinct
  <1>11. Above(u, k) = Above(t, k) \cup {new[i] : i \in 1 .. n}
    <2>1. Above(u, k) \subseteq Above(t, k) \cup {new[i] : i \in 1 .. n}
      BY <1>2, <1>6
    <2>2. Above(t, k) \subseteq Above(u, k)
      BY <1>2, <1>7
    <2>3. {new[i] : i \in 1 .. n} \subseteq Above(u, k)
      BY <1>8
    <2> QED BY <2>1, <2>2, <2>3
  <1> QED BY <1>10, <1>11 DEF u

OwnDistinct(s) == Distinct(s.table, Len(s.node))

\* If one request changes its own pages, and the pages it and the cache and
\* the free list have between them stay the same and apart, every page still
\* has one place.
LEMMA PartitionKept ==
    ASSUME PagesPartitioned, NEW r \in Request,
           \A q \in Request \ {r} : st'[q] = st[q],
           \A p, q \in Cached' : cached'[p] = cached'[q] => p = q,
           PagesAt(Cached)' \cap free' = {},
           Own(st'[r]) \cap free' = {},
           Own(st'[r]) \cap PagesAt(Cached)' = {},
           free' \cup PagesAt(Cached)' \cup Own(st'[r])
               = free \cup PagesAt(Cached) \cup Own(st[r]),
           OwnDistinct(st'[r])
    PROVE  PagesPartitioned'
  <1>1. /\ \A q \in Request :
              /\ Own(st[q]) \cap free = {}
              /\ Own(st[q]) \cap PagesAt(Cached) = {}
              /\ \A w \in Request \ {q} : Own(st[q]) \cap Own(st[w]) = {}
        /\ Page = free \cup PagesAt(Cached) \cup UNION {Own(st[q]) : q \in Request}
    BY DEF PagesPartitioned
  <1>2. \A q \in Request \ {r} : Own(st'[q]) = Own(st[q])
    OBVIOUS
  <1>3. \A q \in Request : OwnDistinct(st'[q])
    <2>1. \A q \in Request : OwnDistinct(st[q])
      BY DEF PagesPartitioned, OwnDistinct, Distinct
    <2> QED BY <2>1
  <1>4. ASSUME NEW q \in Request
        PROVE  /\ Own(st'[q]) \cap free' = {}
               /\ Own(st'[q]) \cap PagesAt(Cached)' = {}
               /\ \A w \in Request \ {q} : Own(st'[q]) \cap Own(st'[w]) = {}
    <2>1. CASE q = r
      BY <2>1, <1>1, <1>2
    <2>2. CASE q # r
      BY <2>2, <1>1, <1>2
    <2> QED BY <2>1, <2>2
  <1>5. Page = free' \cup PagesAt(Cached)' \cup UNION {Own(st'[q]) : q \in Request}
    <2> DEFINE others == UNION {Own(st[q]) : q \in Request \ {r}}
    <2>1. UNION {Own(st[q]) : q \in Request} = Own(st[r]) \cup others
      OBVIOUS
    <2>2. UNION {Own(st'[q]) : q \in Request} = Own(st'[r]) \cup others
      BY <1>2
    <2> HIDE DEF others
    <2> QED BY <1>1, <2>1, <2>2
  <1>6. \A q \in Request : \A i, j \in Len(st'[q].node) + 1 .. Len(st'[q].table) :
              st'[q].table[i] = st'[q].table[j] => i = j
    BY <1>3 DEF OwnDistinct, Distinct
  <1> QED BY <1>4, <1>5, <1>6 DEF PagesPartitioned

\* evict drops unlocked paths, a path only with all that are below it.
LEMMA EvictedUnlocked ==
    ASSUME NEW n \in Int, NEW E \in EvictSets(n)
    PROVE  /\ E \subseteq Cached /\ E \subseteq Unlocked(st)
           /\ \A p \in E, q \in Cached : Covers(q, p) => q \in E
  BY DEF EvictSets, Unlocked

\* Eviction leaves the cache prefix-closed and every borrowed path in it.
LEMMA EvictionKeeps ==
    ASSUME KVInv, NEW n \in Int, NEW E \in EvictSets(n),
           cached' = WithoutPaths(E)
    PROVE  /\ Cached' = Cached \ E
           /\ \A p \in Cached' : cached'[p] = cached[p]
           /\ PrefixClosed'
           /\ \A r \in Request : \A i \in 1 .. Len(st[r].node) : Upto(st[r].node, i) \in Cached'
  <1>1. /\ E \subseteq Cached /\ E \subseteq Unlocked(st)
        /\ \A p \in E, q \in Cached : Covers(q, p) => q \in E
    BY EvictedUnlocked
  <1>2. Cached' = Cached \ E /\ \A p \in Cached' : cached'[p] = cached[p]
    BY DEF WithoutPaths, Cached
  <1>3. PrefixClosed'
    <2> SUFFICES ASSUME NEW p \in Cached'
                 PROVE  p # <<>> /\ \A i \in 1 .. Len(p) : Upto(p, i) \in Cached'
      BY DEF PrefixClosed
    <2>1. p \in Cached /\ p \in Path /\ p \notin E
      BY <1>2 DEF KVInv, KVTypeOK
    <2>2. p # <<>> /\ \A i \in 1 .. Len(p) : Upto(p, i) \in Cached
      BY <2>1 DEF KVInv, PagesInv, PrefixClosed
    <2>3. \A i \in 1 .. Len(p) : Covers(p, Upto(p, i))
      BY <2>1, PrefixLengths DEF Path
    <2> QED BY <1>1, <1>2, <2>1, <2>2, <2>3
  <1>4. ASSUME NEW r \in Request, NEW i \in 1 .. Len(st[r].node)
        PROVE  Upto(st[r].node, i) \in Cached'
    <2>1. st[r].node \in Path
      BY DEF KVInv, KVTypeOK, StateType
    <2>2. Covers(st[r].node, Upto(st[r].node, i))
      BY <2>1, PrefixLengths DEF Path
    <2>3. Upto(st[r].node, i) \in Cached /\ Upto(st[r].node, i) \notin E
      BY <1>1, <2>2 DEF KVInv, PagesInv, BorrowedStayCached, Unlocked
    <2> QED BY <1>2, <2>3
  <1> QED BY <1>2, <1>3, <1>4

\* What the invariant says of one paged state.
LEMMA StateFacts ==
    ASSUME KVTypeOK, StatesFit, NEW r \in Request
    PROVE  /\ st[r] \in StateType
           /\ st[r].table \in Seq(Page) /\ st[r].node \in Path
           /\ Len(st[r].node) \in 0 .. Len(st[r].table)
           /\ st[r].len \in Nat
           /\ Own(st[r]) = Above(st[r].table, Len(st[r].node))
  BY DEF KVTypeOK, StatesFit, StateType, Path, Own, Above

\* The part of PagesPartitioned about one request.
LEMMA OwnFacts ==
    ASSUME PagesPartitioned, NEW r \in Request
    PROVE  /\ Own(st[r]) \cap free = {}
           /\ Own(st[r]) \cap PagesAt(Cached) = {}
           /\ PagesAt(Cached) \cap free = {}
           /\ OwnDistinct(st[r])
           /\ \A p, q \in Cached : cached[p] = cached[q] => p = q
  BY DEF PagesPartitioned, OwnDistinct, Distinct

\* Growing a table moves free and evicted pages into it, one place each.
LEMMA GrowKeepsPages ==
    ASSUME KVInv, NEW r \in Request, NEW n \in Nat, GrowTable(r, n)
    PROVE  PagesInv'
  <1>0. KVTypeOK /\ StatesFit /\ PagesPartitioned /\ BorrowedStayCached
    BY DEF KVInv, PagesInv
  <1>1. PICK E \in EvictSets(n - Cardinality(free)) :
          /\ ExtendTable(r, n, free \cup PagesAt(E))
          /\ cached' = WithoutPaths(E)
    BY DEF GrowTable
  <1>2. n - Cardinality(free) \in Int
    BY FS_CardinalityType, FS_Subset, PageAssumption DEF KVInv, KVTypeOK
  <1> DEFINE pool == free \cup PagesAt(E)
             t == st[r].table
             k == Len(st[r].node)
  <1>3. PICK new \in [1 .. n -> pool] :
          /\ \A i, j \in 1 .. n : new[i] = new[j] => i = j
          /\ st' = [st EXCEPT ![r].table = @ \o new]
          /\ free' = pool \ {new[i] : i \in 1 .. n}
    BY <1>1 DEF ExtendTable
  <1>4. /\ Cached' = Cached \ E /\ E \subseteq Cached
        /\ \A p \in Cached' : cached'[p] = cached[p]
        /\ PrefixClosed'
        /\ \A q \in Request : \A i \in 1 .. Len(st[q].node) : Upto(st[q].node, i) \in Cached'
    BY <1>1, <1>2, EvictionKeeps, EvictedUnlocked
  <1>5. PagesAt(E) \subseteq Page /\ pool \subseteq Page
    BY <1>4 DEF KVInv, KVTypeOK, PagesAt
  <1>6. /\ t \in Seq(Page) /\ k \in 0 .. Len(t) /\ Own(st[r]) = Above(t, k)
        /\ Distinct(t, k)
    BY <1>0, StateFacts, OwnFacts DEF OwnDistinct
  <1>7. /\ st'[r].table = t \o new /\ st'[r].node = st[r].node
        /\ \A q \in Request \ {r} : st'[q] = st[q]
    BY <1>0, <1>3 DEF KVTypeOK, StateType
  <1>8. /\ PagesAt(Cached)' = PagesAt(Cached) \ PagesAt(E)
        /\ PagesAt(E) \subseteq PagesAt(Cached)
    BY <1>0, <1>4, OwnFacts DEF PagesAt
  <1>9. new \in [1 .. n -> Page] /\ \A i \in 1 .. n : new[i] \in pool
    BY <1>5
  <1>10. \A i \in 1 .. n : new[i] \notin Above(t, k)
    BY <1>0, <1>6, <1>8, <1>9, OwnFacts
  <1>11. /\ Own(st'[r]) = Own(st[r]) \cup {new[i] : i \in 1 .. n}
         /\ OwnDistinct(st'[r])
         /\ Len(t \o new) = Len(t) + n
         /\ \A i \in 1 .. Len(t) : (t \o new)[i] = t[i]
    <2>1. Own(st'[r]) = Above(t \o new, k)
      BY <1>7 DEF Own, Above
    <2>2. /\ Above(t \o new, k) = Above(t, k) \cup {new[i] : i \in 1 .. n}
          /\ Distinct(t \o new, k)
      <3> HIDE DEF t, k
      <3> QED BY <1>3, <1>6, <1>9, <1>10, AboveGrown
    <2>3. /\ Len(t \o new) = Len(t) + n
          /\ \A i \in 1 .. Len(t) : (t \o new)[i] = t[i]
      <3> HIDE DEF t
      <3> QED BY <1>6, <1>9, TableGrown
    <2> QED BY <1>6, <1>7, <2>1, <2>2, <2>3 DEF OwnDistinct
  <1>12. BorrowedStayCached'
    <2> SUFFICES ASSUME NEW q \in Request, NEW i \in 1 .. Len(st'[q].node)
                 PROVE  /\ Upto(st'[q].node, i) \in Cached'
                        /\ i <= Len(st'[q].table)
                        /\ st'[q].table[i] = cached'[Upto(st'[q].node, i)]
      BY DEF BorrowedStayCached
    <2>1. st'[q].node = st[q].node
      BY <1>7
    <2>2. /\ Upto(st[q].node, i) \in Cached'
          /\ i <= Len(st[q].table)
          /\ st[q].table[i] = cached'[Upto(st[q].node, i)]
      BY <1>0, <1>4, <2>1 DEF BorrowedStayCached
    <2>3. CASE q # r
      BY <1>7, <2>2, <2>3
    <2>4. CASE q = r
      <3>1. i \in 1 .. Len(t) /\ i <= Len(t \o new)
        BY <1>6, <1>11, <2>1, <2>2, <2>4
      <3>2. (t \o new)[i] = t[i]
        BY <1>11, <3>1
      <3> QED BY <1>7, <2>2, <2>4, <3>1, <3>2
    <2> QED BY <2>3, <2>4
  <1>13. PagesPartitioned'
    <2> DEFINE N == {new[i] : i \in 1 .. n}
    <2>1. N \subseteq pool
      BY <1>9
    <2>2. Own(st[r]) \cap pool = {} /\ pool \cap PagesAt(Cached)' = {}
      BY <1>0, <1>8, OwnFacts
    <2>3. free' = pool \ N /\ Own(st'[r]) = Own(st[r]) \cup N
      BY <1>3, <1>11
    <2> HIDE DEF N
    <2>4. /\ PagesAt(Cached)' \cap free' = {}
          /\ Own(st'[r]) \cap free' = {}
          /\ Own(st'[r]) \cap PagesAt(Cached)' = {}
          /\ free' \cup PagesAt(Cached)' \cup Own(st'[r])
               = free \cup PagesAt(Cached) \cup Own(st[r])
      <3> HIDE DEF pool
      <3>1. pool = free \cup PagesAt(E)
        BY DEF pool
      <3>2. Own(st[r]) \cap PagesAt(Cached) = {}
        BY <1>0, OwnFacts
      <3> QED BY <1>8, <2>1, <2>2, <2>3, <3>1, <3>2
    <2>5. \A p, q \in Cached' : cached'[p] = cached'[q] => p = q
      BY <1>0, <1>4, OwnFacts
    <2> QED BY <1>0, <1>7, <1>11, <2>4, <2>5, PartitionKept
  <1> QED BY <1>4, <1>12, <1>13 DEF PagesInv

\* allocate that fails evicts every unlocked path first.
LEMMA UnlockedIsEvictSet ==
    ASSUME KVTypeOK
    PROVE  Unlocked(st) \in EvictSets(1)
  <1> SUFFICES ASSUME NEW p \in Unlocked(st), NEW q \in Cached, Covers(q, p)
               PROVE  q \in Unlocked(st)
    BY DEF EvictSets
  <1>1. p \in Path /\ q \in Path /\ \A r \in Request : st[r].node \in Path
    BY DEF KVTypeOK, StateType, Unlocked
  <1>2. \A r \in Request : Covers(st[r].node, q) => Covers(st[r].node, p)
    BY <1>1, CoversTransitive DEF Path
  <1> QED BY <1>2 DEF Unlocked

\* A failing allocation returns the pages it evicts to the free list.
LEMMA ExhaustedKeepsPages ==
    ASSUME KVInv, NEW n, Exhausted(n)
    PROVE  PagesInv'
  <1>0. KVTypeOK /\ StatesFit /\ PagesPartitioned /\ BorrowedStayCached
    BY DEF KVInv, PagesInv
  <1> DEFINE E == Unlocked(st)
  <1>1. E \in EvictSets(1) /\ cached' = WithoutPaths(E) /\ st' = st
        /\ free' = free \cup PagesAt(E)
    BY <1>0, UnlockedIsEvictSet DEF Exhausted
  <1> HIDE DEF E
  <1>2. /\ Cached' = Cached \ E /\ E \subseteq Cached
        /\ \A p \in Cached' : cached'[p] = cached[p]
        /\ PrefixClosed'
        /\ \A q \in Request : \A i \in 1 .. Len(st[q].node) : Upto(st[q].node, i) \in Cached'
    BY <1>1, EvictionKeeps, EvictedUnlocked
  <1>3. /\ PagesAt(Cached)' = PagesAt(Cached) \ PagesAt(E)
        /\ PagesAt(E) \subseteq PagesAt(Cached)
    <2>1. \A p, q \in Cached : cached[p] = cached[q] => p = q
      BY <1>0 DEF PagesPartitioned
    <2> QED BY <1>2, <2>1 DEF PagesAt
  <1>4. BorrowedStayCached'
    BY <1>0, <1>1, <1>2 DEF BorrowedStayCached
  <1>5. PagesPartitioned'
    <2>1. \A p, q \in Cached' : cached'[p] = cached'[q] => p = q
      BY <1>0, <1>2 DEF PagesPartitioned
    <2>2. \A q \in Request : st'[q] = st[q] /\ Own(st'[q]) = Own(st[q])
      BY <1>1
    <2>3. /\ PagesAt(Cached) \cap free = {}
          /\ \A q \in Request :
               /\ Own(st[q]) \cap free = {}
               /\ Own(st[q]) \cap PagesAt(Cached) = {}
               /\ \A w \in Request \ {q} : Own(st[q]) \cap Own(st[w]) = {}
               /\ \A i, j \in Len(st[q].node) + 1 .. Len(st[q].table) :
                    st[q].table[i] = st[q].table[j] => i = j
          /\ Page = free \cup PagesAt(Cached) \cup UNION {Own(st[q]) : q \in Request}
      BY <1>0 DEF PagesPartitioned
    <2>4. Page = free' \cup PagesAt(Cached)' \cup UNION {Own(st'[q]) : q \in Request}
      <3>1. free' \cup PagesAt(Cached)' = free \cup PagesAt(Cached)
        BY <1>1, <1>3
      <3>2. UNION {Own(st'[q]) : q \in Request} = UNION {Own(st[q]) : q \in Request}
        BY <2>2
      <3> QED BY <2>3, <3>1, <3>2
    <2> QED BY <1>1, <1>3, <2>1, <2>2, <2>3, <2>4 DEF PagesPartitioned
  <1> QED BY <1>2, <1>4, <1>5 DEF PagesInv

\* Dropping a state, with its own pages going back to the free list.
LEMMA RetractKeepsPages ==
    ASSUME KVInv, NEW r \in Request, RetractPagedState(r)
    PROVE  PagesInv'
  <1>0. KVTypeOK /\ StatesFit /\ PagesPartitioned /\ BorrowedStayCached /\ PrefixClosed
    BY DEF KVInv, PagesInv
  <1>1. /\ st'[r] = NoState /\ \A q \in Request \ {r} : st'[q] = st[q]
        /\ cached' = cached /\ Cached' = Cached /\ PagesAt(Cached)' = PagesAt(Cached)
        /\ free' = free \cup Own(st[r])
    BY <1>0 DEF RetractPagedState, KVTypeOK, Cached, PagesAt
  <1>2. NoState.node = <<>> /\ NoState.table = <<>> /\ Own(NoState) = {} /\ OwnDistinct(NoState)
    BY DEF NoState, Own, OwnDistinct, Distinct
  <1>3. PagesPartitioned'
    <2>1. /\ PagesAt(Cached)' \cap free' = {}
          /\ Own(st'[r]) \cap free' = {}
          /\ Own(st'[r]) \cap PagesAt(Cached)' = {}
          /\ free' \cup PagesAt(Cached)' \cup Own(st'[r])
               = free \cup PagesAt(Cached) \cup Own(st[r])
      BY <1>0, <1>1, <1>2, OwnFacts
    <2>2. \A p, q \in Cached' : cached'[p] = cached'[q] => p = q
      BY <1>0, <1>1, OwnFacts
    <2> QED BY <1>0, <1>1, <1>2, <2>1, <2>2, PartitionKept
  <1>4. BorrowedStayCached'
    <2> SUFFICES ASSUME NEW q \in Request, NEW i \in 1 .. Len(st'[q].node)
                 PROVE  /\ Upto(st'[q].node, i) \in Cached'
                        /\ i <= Len(st'[q].table)
                        /\ st'[q].table[i] = cached'[Upto(st'[q].node, i)]
      BY DEF BorrowedStayCached
    <2>1. CASE q = r
      BY <1>1, <1>2, <2>1
    <2>2. CASE q # r
      BY <1>0, <1>1, <2>2 DEF BorrowedStayCached
    <2> QED BY <2>1, <2>2
  <1>5. PrefixClosed'
    BY <1>0, <1>1 DEF PrefixClosed
  <1> QED BY <1>3, <1>4, <1>5 DEF PagesInv

\* What MatchPath and CommitPath look like: paths of a prefix of Ids(r).
LEMMA PathTypes ==
    ASSUME KVTypeOK, StatesFit, NEW r \in Request
    PROVE  /\ Ids(r) \in Seq(Token) /\ Prompt[r] \in Seq(Token)
           /\ CommitPath(r) \in Path
           /\ CacheOn => Len(CommitPath(r)) = FullPages(st[r].len)
           /\ ~CacheOn => CommitPath(r) = <<>>
           /\ Len(CommitPath(r)) \in 0 .. Len(st[r].table)
  <1>1. Prompt[r] \in Seq(Token) /\ out[r] \in Seq(Token) /\ Ids(r) \in Seq(Token)
    BY PromptAssumption DEF KVTypeOK, Ids
  <1>2. st[r].len \in Nat /\ st[r].len <= Len(Ids(r)) /\ Len(st[r].table) \in Nat
        /\ PagesNeeded(st[r].len) <= Len(st[r].table)
    BY <1>1, StateFacts DEF StatesFit
  <1>3. /\ SubSeq(Ids(r), 1, st[r].len) \in Seq(Token)
        /\ Len(SubSeq(Ids(r), 1, st[r].len)) = st[r].len
    BY <1>1, <1>2
  <1>4. CASE CacheOn
    <2>1. CommitPath(r) = PathOf(SubSeq(Ids(r), 1, st[r].len))
      BY <1>4 DEF CommitPath
    <2>2. CommitPath(r) \in Path /\ Len(CommitPath(r)) = FullPages(st[r].len)
      BY <1>3, <2>1, PathBlocks DEF Path
    <2>3. FullPages(st[r].len) \in Nat /\ FullPages(st[r].len) <= PagesNeeded(st[r].len)
          /\ PagesNeeded(st[r].len) \in Nat
      BY <1>2, PageCounts
    <2> QED BY <1>1, <1>2, <1>4, <2>2, <2>3
  <1>5. CASE ~CacheOn
    BY <1>1, <1>2, <1>5 DEF CommitPath, Path
  <1> QED BY <1>4, <1>5, CacheOnAssumption

\* What prefill runs and what prepare looks up are prefixes of the request's
\* tokens, prompt and output.
LEMMA MatchPathType ==
    ASSUME KVTypeOK, NEW r \in Request, Prefilling(r)
    PROVE  /\ PrefillIds(r) \in Seq(Token) /\ Len(PrefillIds(r)) <= Len(Ids(r))
           /\ PrefillIds(r) = SubSeq(Ids(r), 1, Len(PrefillIds(r)))
           /\ MatchPath(r) \in Path
           /\ ~CacheOn => MatchPath(r) = <<>>
           /\ CacheOn => \E m \in 0 .. Len(Ids(r)) : MatchPath(r) = PathOf(SubSeq(Ids(r), 1, m))
  <1>1. Prompt[r] \in Seq(Token) \ {<<>>} /\ out[r] \in Seq(Token) /\ Ids(r) = Prompt[r] \o out[r]
    BY PromptAssumption DEF KVTypeOK, Ids
  <1> DEFINE ids == Ids(r)
             n == Len(Prompt[r])
  <1>2. /\ ids \in Seq(Token) /\ n \in 1 .. Len(ids) /\ Prompt[r] = SubSeq(ids, 1, n)
        /\ Len(ids) \in Nat \ {0}
    <2> DEFINE p == Prompt[r]
               o == out[r]
    <2>1. p \in Seq(Token) /\ p # <<>> /\ o \in Seq(Token) /\ Ids(r) = p \o o
      BY <1>1
    <2>2. Len(p) \in Nat \ {0} /\ Len(o) \in Nat
      <3> HIDE DEF p, o
      <3> QED BY <2>1
    <2>3. /\ Ids(r) \in Seq(Token) /\ Len(Ids(r)) = Len(p) + Len(o)
          /\ SubSeq(Ids(r), 1, Len(p)) = p
      <3> HIDE DEF p, o
      <3> QED BY <2>1, ConcatPrefix
    <2> HIDE DEF o
    <2> QED BY <2>2, <2>3
  <1>3. \E m \in 0 .. Len(ids) : PrefillIds(r) = SubSeq(ids, 1, m)
    <2>1. CASE rehydrate[r]
      BY <1>2, <2>1 DEF PrefillIds, ButLast
    <2>2. CASE ~rehydrate[r]
      BY <1>2, <2>2 DEF PrefillIds
    <2> QED BY <2>1, <2>2
  <1>4. \E m \in 0 .. Len(ids) :
          (IF rehydrate[r] THEN PrefillIds(r) ELSE ButLast(PrefillIds(r))) = SubSeq(ids, 1, m)
    <2>1. CASE rehydrate[r]
      BY <1>3, <2>1
    <2>2. CASE ~rehydrate[r]
      <3>1. ButLast(PrefillIds(r)) = SubSeq(SubSeq(ids, 1, n), 1, n - 1)
        BY <1>2, <2>2 DEF PrefillIds, ButLast
      <3>2. SubSeq(SubSeq(ids, 1, n), 1, n - 1) = SubSeq(ids, 1, n - 1) /\ n - 1 \in 0 .. Len(ids)
        <4> HIDE DEF n, ids
        <4> QED BY <1>2
      <3> QED BY <2>2, <3>1, <3>2
    <2> QED BY <2>1, <2>2
  <1> HIDE DEF ids, n
  <1>5. CASE CacheOn
    <2>1. PICK m \in 0 .. Len(ids) : MatchPath(r) = PathOf(SubSeq(ids, 1, m))
      BY <1>4, <1>5 DEF MatchPath
    <2>2. SubSeq(ids, 1, m) \in Seq(Token)
      BY <1>2
    <2>3. MatchPath(r) \in Path
      BY <2>1, <2>2, PathBlocks DEF Path
    <2> QED BY <1>2, <1>3, <1>5, <2>1, <2>3 DEF ids
  <1>6. CASE ~CacheOn
    BY <1>2, <1>3, <1>6 DEF MatchPath, Path, ids
  <1> QED BY <1>5, <1>6, CacheOnAssumption

\* Attaching a cached prefix gives the request no page of its own.
LEMMA PrepareKeepsPages ==
    ASSUME KVInv, NEW r \in Request, Prefilling(r), PreparePagedPrefill(r)
    PROVE  PagesInv'
  <1>0. KVTypeOK /\ StatesFit /\ PagesPartitioned /\ BorrowedStayCached /\ PrefixClosed
    BY DEF KVInv, PagesInv
  <1>1. PICK s \in PreparedStates(r) : st' = [st EXCEPT ![r] = s]
    BY DEF PreparePagedPrefill
  <1>2. /\ st'[r] = s /\ \A q \in Request \ {r} : st'[q] = st[q]
        /\ cached' = cached /\ Cached' = Cached /\ PagesAt(Cached)' = PagesAt(Cached)
        /\ free' = free
    BY <1>0, <1>1 DEF PreparePagedPrefill, KVTypeOK, Cached, PagesAt
  <1>3. /\ Own(s) = Own(st[r]) /\ OwnDistinct(s)
        /\ \A i \in 1 .. Len(s.node) : /\ Upto(s.node, i) \in Cached
                                       /\ i <= Len(s.table)
                                       /\ s.table[i] = cached[Upto(s.node, i)]
    <2>1. CASE st[r].prepared
      <3>1. s = st[r]
        BY <2>1 DEF PreparedStates
      <3> QED BY <1>0, <3>1, OwnFacts DEF BorrowedStayCached
    <2>2. CASE ~st[r].prepared
      <3>1. st[r] = NoState
        BY <1>0, <2>2 DEF StatesFit
      <3>2. Own(NoState) = {}
        BY DEF NoState, Own
      <3> DEFINE p == MatchPath(r)
      <3>3. PICK k \in 0 .. Len(p) :
              /\ LongestHit(p, k)
              /\ s = [table |-> [i \in 1 .. k |-> cached[Upto(p, i)]], len |-> k * PageSize,
                      node |-> Upto(p, k), prepared |-> TRUE]
        BY <2>2 DEF PreparedStates
      <3>4. p \in Path
        BY <1>0, MatchPathType
      <3> HIDE DEF p
      <3>5. /\ Len(s.node) = k /\ \A i \in 1 .. k : Upto(s.node, i) = Upto(p, i)
        BY <3>3, <3>4, PrefixLengths DEF Path
      <3>6. Len(s.table) = k /\ \A i \in 1 .. k : s.table[i] = cached[Upto(p, i)]
        BY <3>3
      <3>7. \A i \in 1 .. k : Upto(p, i) \in Cached
        BY <3>3 DEF LongestHit
      <3>8. Own(s) = {} /\ OwnDistinct(s)
        BY <3>5, <3>6 DEF Own, OwnDistinct, Distinct
      <3> QED BY <3>1, <3>2, <3>5, <3>6, <3>7, <3>8
    <2> QED BY <2>1, <2>2
  <1>4. PagesPartitioned'
    <2>1. /\ PagesAt(Cached)' \cap free' = {}
          /\ Own(st'[r]) \cap free' = {}
          /\ Own(st'[r]) \cap PagesAt(Cached)' = {}
          /\ free' \cup PagesAt(Cached)' \cup Own(st'[r])
               = free \cup PagesAt(Cached) \cup Own(st[r])
      BY <1>0, <1>2, <1>3, OwnFacts
    <2>2. \A p, q \in Cached' : cached'[p] = cached'[q] => p = q
      BY <1>0, <1>2, OwnFacts
    <2> QED BY <1>0, <1>2, <1>3, <2>1, <2>2, PartitionKept
  <1>5. BorrowedStayCached'
    <2> SUFFICES ASSUME NEW q \in Request, NEW i \in 1 .. Len(st'[q].node)
                 PROVE  /\ Upto(st'[q].node, i) \in Cached'
                        /\ i <= Len(st'[q].table)
                        /\ st'[q].table[i] = cached'[Upto(st'[q].node, i)]
      BY DEF BorrowedStayCached
    <2>1. CASE q = r
      BY <1>2, <1>3, <2>1
    <2>2. CASE q # r
      BY <1>0, <1>2, <2>2 DEF BorrowedStayCached
    <2> QED BY <2>1, <2>2
  <1>6. PrefixClosed'
    BY <1>0, <1>2 DEF PrefixClosed
  <1> QED BY <1>4, <1>5, <1>6 DEF PagesInv

\* How much of the path to commit is cached: at least what r has borrowed,
\* and what is not there yet r holds in pages of its own.
LEMMA CommitBounds ==
    ASSUME KVInv, NEW r \in Request, NEW k \in 0 .. Len(CommitPath(r)),
           LongestHit(CommitPath(r), k)
    PROVE  /\ CommitPath(r) \in Path
           /\ Len(st[r].node) \in 0 .. k
           /\ Len(CommitPath(r)) \in k .. Len(st[r].table)
           /\ \A i \in 1 .. k : Upto(CommitPath(r), i) \in Cached
           /\ \A i \in k + 1 .. Len(CommitPath(r)) : Upto(CommitPath(r), i) \notin Cached
           /\ \A i \in 1 .. Len(CommitPath(r)) :
                Len(Upto(CommitPath(r), i)) = i
  <1> DEFINE p == CommitPath(r)
             n == st[r].node
  <1>1. KVTypeOK /\ StatesFit /\ BorrowedStayCached /\ Covers(p, n)
    BY DEF KVInv, PagesInv, NodeOnPath
  <1>2. p \in Path /\ Len(p) \in 0 .. Len(st[r].table) /\ n \in Path /\ Len(n) \in Nat
    BY <1>1, PathTypes, StateFacts
  <1>3. /\ \A i \in 1 .. k : Upto(p, i) \in Cached
        /\ \A i \in k + 1 .. Len(p) : Upto(p, i) \notin Cached
    BY DEF LongestHit
  <1>4. Len(n) <= k
    <2> SUFFICES ASSUME Len(n) > k PROVE FALSE
      BY <1>2
    <2>1. Len(n) \in k + 1 .. Len(p) /\ Len(n) \in 1 .. Len(n) /\ Upto(p, Len(n)) = n
      BY <1>1, <1>2 DEF Covers
    <2>2. Upto(n, Len(n)) \in Cached
      BY <1>1, <2>1 DEF BorrowedStayCached
    <2>3. Upto(n, Len(n)) = n
      BY <1>2 DEF Upto, Path
    <2> QED BY <1>3, <2>1, <2>2, <2>3
  <1> QED BY <1>2, <1>3, <1>4, PrefixLengths DEF Path

\* A commit shares out r's own pages: those of newly cached paths go to the
\* cache, duplicates to the free list, the rest stays or is freed.
LEMMA CommitKeepsPages ==
    ASSUME KVInv, NEW r \in Request, NEW finished \in BOOLEAN, CommitPagedCache(r, finished)
    PROVE  PagesInv'
  <1>0. KVTypeOK /\ StatesFit /\ PagesPartitioned /\ BorrowedStayCached /\ PrefixClosed
    BY DEF KVInv, PagesInv
  <1> DEFINE s == st[r]
             t == s.table
             p == CommitPath(r)
             l == Len(t)
             n == Len(s.node)
             c == Len(p)
  <1>1. PICK k \in 0 .. c :
          /\ LongestHit(p, k)
          /\ cached' = [q \in Cached \cup {Upto(p, i) : i \in k + 1 .. c} |->
                          IF q \in Cached THEN cached[q] ELSE t[Len(q)]]
          /\ free' = free \cup {t[i] : i \in (n + 1 .. k) \cup
                                  (IF finished THEN c + 1 .. l ELSE {})}
          /\ st' = [st EXCEPT ![r] =
                      IF finished THEN NoState
                      ELSE [s EXCEPT !.table = [i \in 1 .. l |->
                                                  IF i <= k THEN cached[Upto(p, i)]
                                                            ELSE t[i]],
                                     !.node = p,
                                     !.prepared = TRUE]]
    BY DEF CommitPagedCache
  <1>2. /\ p \in Path /\ n \in 0 .. k /\ c \in k .. l /\ k \in Nat /\ l \in Nat
        /\ t \in Seq(Page) /\ Own(s) = {t[i] : i \in n + 1 .. l}
    BY <1>0, <1>1, CommitBounds, StateFacts DEF Own
  <1>3. /\ \A i \in 1 .. k : Upto(p, i) \in Cached
        /\ \A i \in k + 1 .. c : Upto(p, i) \notin Cached
        /\ \A i \in 1 .. c : Len(Upto(p, i)) = i
    BY <1>1, CommitBounds
  <1>4. /\ \A i, j \in n + 1 .. l : t[i] = t[j] => i = j
        /\ Own(s) \cap free = {} /\ Own(s) \cap PagesAt(Cached) = {}
        /\ PagesAt(Cached) \cap free = {}
        /\ \A q, o \in Cached : cached[q] = cached[o] => q = o
    BY <1>0, OwnFacts DEF OwnDistinct, Distinct
  <1>5. /\ \A q \in Request \ {r} : st'[q] = st[q]
        /\ finished => st'[r] = NoState
        /\ ~finished =>
             /\ st'[r].node = p
             /\ st'[r].table = [i \in 1 .. l |-> IF i <= k THEN cached[Upto(p, i)] ELSE t[i]]
    BY <1>0, <1>1 DEF KVTypeOK, StateType
  <1> DEFINE A == {t[i] : i \in n + 1 .. k}
             B == {t[i] : i \in k + 1 .. c}
             C == {t[i] : i \in c + 1 .. l}
  <1>6. /\ Own(s) = A \cup B \cup C
        /\ A \cap B = {} /\ A \cap C = {} /\ B \cap C = {}
    <2> HIDE DEF s, t, p, l, n, c
    <2>1. /\ \A i \in n + 1 .. k : i \in n + 1 .. l
          /\ \A i \in k + 1 .. c : i \in n + 1 .. l
          /\ \A i \in c + 1 .. l : i \in n + 1 .. l
          /\ \A i \in n + 1 .. l : i \in n + 1 .. k \/ i \in k + 1 .. c \/ i \in c + 1 .. l
      BY <1>2
    <2>2. Own(s) \subseteq A \cup B \cup C
      BY <1>2, <2>1
    <2>3. A \cup B \cup C \subseteq Own(s)
      BY <1>2, <2>1
    <2>4. A \cap B = {}
      BY <1>2, <1>4, <2>1
    <2>5. A \cap C = {}
      BY <1>2, <1>4, <2>1
    <2>6. B \cap C = {}
      BY <1>2, <1>4, <2>1
    <2> QED BY <2>2, <2>3, <2>4, <2>5, <2>6
  <1>7. /\ Cached' = Cached \cup {Upto(p, i) : i \in k + 1 .. c}
        /\ \A q \in Cached : cached'[q] = cached[q]
        /\ \A i \in k + 1 .. c : cached'[Upto(p, i)] = t[i]
    <2>1. \A i \in k + 1 .. c : cached'[Upto(p, i)] = t[Len(Upto(p, i))]
      BY <1>1, <1>3
    <2>2. \A i \in k + 1 .. c : Len(Upto(p, i)) = i
      BY <1>2, <1>3
    <2> QED BY <1>1, <2>1, <2>2 DEF Cached
  <1>8. PagesAt(Cached)' = PagesAt(Cached) \cup B
    BY <1>7 DEF PagesAt
  <1>9. free' = free \cup A \cup (IF finished THEN C ELSE {})
    BY <1>1
  <1>10. /\ Own(st'[r]) = IF finished THEN {} ELSE C
         /\ OwnDistinct(st'[r])
    <2>1. CASE finished
      <3>1. st'[r] = NoState
        BY <1>5, <2>1
      <3>2. Own(NoState) = {} /\ OwnDistinct(NoState)
        BY DEF NoState, Own, OwnDistinct, Distinct
      <3> QED BY <2>1, <3>1, <3>2
    <2>2. CASE ~finished
      <3>1. /\ Len(st'[r].table) = l /\ Len(st'[r].node) = c
            /\ \A i \in c + 1 .. l : st'[r].table[i] = t[i]
        <4> HIDE DEF s, t, p, l
        <4> QED BY <1>2, <1>5, <2>2
      <3>2. Own(st'[r]) = C
        BY <3>1 DEF Own
      <3>3. OwnDistinct(st'[r])
        <4>1. \A i \in c + 1 .. l : i \in n + 1 .. l
          BY <1>2
        <4> QED BY <1>4, <3>1, <4>1 DEF OwnDistinct, Distinct
      <3> QED BY <2>2, <3>2, <3>3
    <2> QED BY <2>1, <2>2
  <1>11. \A q, o \in Cached' : cached'[q] = cached'[o] => q = o
    <2> HIDE DEF s, t, p, l, n, c
    <2> SUFFICES ASSUME NEW q \in Cached', NEW o \in Cached', cached'[q] = cached'[o]
                 PROVE  q = o
      OBVIOUS
    <2>1. \A i \in k + 1 .. c : i \in n + 1 .. l /\ t[i] \in Own(s)
      BY <1>2
    <2>2. \A i \in k + 1 .. c : t[i] \notin PagesAt(Cached)
      BY <1>4, <2>1
    <2>3. CASE q \in Cached /\ o \in Cached
      BY <1>4, <1>7, <2>3
    <2>4. CASE q \in Cached /\ o \notin Cached
      BY <1>7, <2>2, <2>4 DEF PagesAt
    <2>5. CASE q \notin Cached /\ o \in Cached
      BY <1>7, <2>2, <2>5 DEF PagesAt
    <2>6. CASE q \notin Cached /\ o \notin Cached
      BY <1>4, <1>7, <2>1, <2>6
    <2> QED BY <2>3, <2>4, <2>5, <2>6
  <1>12. PagesPartitioned'
    <2> HIDE DEF s, A, B, C
    <2>1. s = st[r]
      BY DEF s
    <2>2. /\ PagesAt(Cached)' \cap free' = {}
          /\ Own(st'[r]) \cap free' = {}
          /\ Own(st'[r]) \cap PagesAt(Cached)' = {}
          /\ free' \cup PagesAt(Cached)' \cup Own(st'[r])
               = free \cup PagesAt(Cached) \cup Own(st[r])
      <3>1. CASE finished
        BY <1>4, <1>6, <1>8, <1>9, <1>10, <2>1, <3>1
      <3>2. CASE ~finished
        BY <1>4, <1>6, <1>8, <1>9, <1>10, <2>1, <3>2
      <3> QED BY <3>1, <3>2
    <2> QED BY <1>0, <1>5, <1>10, <1>11, <2>2, PartitionKept
  <1>13. BorrowedStayCached'
    <2> SUFFICES ASSUME NEW q \in Request, NEW i \in 1 .. Len(st'[q].node)
                 PROVE  /\ Upto(st'[q].node, i) \in Cached'
                        /\ i <= Len(st'[q].table)
                        /\ st'[q].table[i] = cached'[Upto(st'[q].node, i)]
      BY DEF BorrowedStayCached
    <2>1. CASE q # r
      BY <1>0, <1>5, <1>7, <2>1 DEF BorrowedStayCached
    <2>2. CASE q = r /\ finished
      BY <1>5, <2>2 DEF NoState
    <2>3. CASE q = r /\ ~finished
      <3> HIDE DEF s, t, p, l, n
      <3>1. i \in 1 .. c /\ i \in 1 .. l /\ st'[r].node = p
            /\ st'[r].table = [j \in 1 .. l |-> IF j <= k THEN cached[Upto(p, j)] ELSE t[j]]
        BY <1>2, <1>5, <2>3
      <3>2. Len(st'[r].table) = l
        BY <1>2, <3>1
      <3>3. i <= Len(st'[r].table)
        BY <1>2, <3>1, <3>2
      <3>4. CASE i <= k
        <4>1. i \in 1 .. k
          BY <1>2, <3>1, <3>4
        <4>2. Upto(p, i) \in Cached /\ Upto(p, i) \in Cached'
          BY <1>3, <1>7, <4>1
        <4>3. cached'[Upto(p, i)] = cached[Upto(p, i)] /\ st'[r].table[i] = cached[Upto(p, i)]
          BY <1>7, <3>1, <3>4, <4>2
        <4> QED BY <2>3, <3>1, <3>3, <4>2, <4>3
      <3>5. CASE i > k
        <4>1. i \in k + 1 .. c
          BY <1>2, <3>1, <3>5
        <4>2. Upto(p, i) \in Cached' /\ cached'[Upto(p, i)] = t[i] /\ st'[r].table[i] = t[i]
          BY <1>2, <1>7, <3>1, <3>5, <4>1
        <4> QED BY <2>3, <3>1, <3>3, <4>2
      <3> QED BY <1>2, <3>1, <3>4, <3>5
    <2> QED BY <2>1, <2>2, <2>3
  <1>14. PrefixClosed'
    <2> SUFFICES ASSUME NEW q \in Cached'
                 PROVE  q # <<>> /\ \A i \in 1 .. Len(q) : Upto(q, i) \in Cached'
      BY DEF PrefixClosed
    <2>1. CASE q \in Cached
      BY <1>0, <1>7, <2>1 DEF PrefixClosed
    <2>2. CASE q \notin Cached
      <3>1. PICK j \in k + 1 .. c : q = Upto(p, j)
        BY <1>7, <2>2
      <3> HIDE DEF s, t, p, l, n
      <3>2. j \in 0 .. Len(p) /\ j \in Nat \ {0}
        BY <1>2, <3>1
      <3>3. Len(q) = j /\ \A i \in 1 .. j : Upto(q, i) = Upto(p, i)
        BY <1>2, <3>1, <3>2, PrefixLengths DEF Path
      <3>4. \A i \in 1 .. j : i \in 1 .. k \/ i \in k + 1 .. c
        BY <1>2, <3>1
      <3>5. \A i \in 1 .. j : Upto(p, i) \in Cached'
        BY <1>3, <1>7, <3>4
      <3> QED BY <3>2, <3>3, <3>5
    <2> QED BY <2>1, <2>2
  <1> QED BY <1>12, <1>13, <1>14 DEF PagesInv

-------------------------------------------------------------------------------
(* Types, and the facts about single states. *)

\* What StatesFit and NodeOnPath say of one request.
StateFits(r, s) ==
    /\ ~s.prepared => s = NoState
    /\ s.len <= Len(Ids(r))
    /\ PagesNeeded(s.len) <= Len(s.table)
    /\ Len(s.node) <= Len(s.table)
    /\ Covers(CommitPath(r), s.node)

\* Returning pages to the pool keeps the type of kv.
LEMMA ErasedType ==
    ASSUME kv \in [Page -> Path], NEW G
    PROVE  Erased(G) \in [Page -> Path]
  BY DEF Erased, Path

\* A state stays fit if only its table grows and its KV comes to more of its
\* tokens, or a token is appended.
LEMMA FitStays ==
    ASSUME KVInv, NEW r \in Request,
           Ids(r)' = Ids(r) \/ \E x \in Token : Ids(r)' = Append(Ids(r), x),
           st'[r] \in StateType,
           st'[r].node = st[r].node,
           st[r].prepared \/ st'[r] = st[r],
           st'[r].prepared = st[r].prepared,
           Len(st[r].table) <= Len(st'[r].table),
           st[r].len <= st'[r].len, st'[r].len <= Len(Ids(r)),
           PagesNeeded(st'[r].len) <= Len(st'[r].table)
    PROVE  StateFits(r, st[r])'
  <1>0. KVTypeOK /\ StatesFit /\ Covers(CommitPath(r), st[r].node)
    BY DEF KVInv, NodeOnPath
  <1>1. /\ Ids(r) \in Seq(Token) /\ CommitPath(r) \in Path
        /\ st[r].node \in Path /\ st[r].len \in Nat /\ Len(st[r].node) <= Len(st[r].table)
        /\ Len(st[r].node) \in Nat /\ Len(st[r].table) \in Nat
    BY <1>0, PathTypes, StateFacts
  <1>2. st'[r].len \in Nat /\ Len(st'[r].table) \in Nat
    BY DEF StateType
  <1> DEFINE ids == Ids(r)
             m == st'[r].len
             n == st[r].len
  <1>3. m \in 0 .. Len(ids) /\ n \in 0 .. m
    BY <1>1, <1>2
  <1>4. /\ SubSeq(Ids(r)', 1, m) = SubSeq(ids, 1, m)
        /\ Len(ids) <= Len(Ids(r)')
    <2> HIDE DEF ids, m
    <2>1. ids \in Seq(Token) /\ m \in 0 .. Len(ids)
      BY <1>1, <1>3 DEF ids
    <2>2. CASE Ids(r)' = ids
      BY <2>1, <2>2
    <2>3. CASE \E x \in Token : Ids(r)' = Append(ids, x)
      <3>1. PICK x \in Token : Ids(r)' = Append(ids, x)
        BY <2>3
      <3>2. Len(Append(ids, x)) = Len(ids) + 1 /\ SubSeq(Append(ids, x), 1, m) = SubSeq(ids, 1, m)
        BY <2>1
      <3>3. Len(ids) \in Nat
        BY <2>1
      <3>4. Len(ids) <= Len(Append(ids, x))
        BY <3>2, <3>3
      <3> QED BY <3>1, <3>2, <3>4
    <2> QED BY <2>2, <2>3 DEF ids
  <1>5. Covers(CommitPath(r)', st[r].node)
    <2>1. CASE CacheOn
      <3>1. /\ CommitPath(r) = PathOf(SubSeq(ids, 1, n))
            /\ CommitPath(r)' = PathOf(SubSeq(ids, 1, m))
        BY <1>4, <2>1 DEF CommitPath
      <3>2. Covers(PathOf(SubSeq(ids, 1, m)), PathOf(SubSeq(ids, 1, n)))
        <4> HIDE DEF m, n, ids
        <4>1. ids \in Seq(Token)
          BY <1>1 DEF ids
        <4> QED BY <1>3, <4>1, PathMonotone
      <3>3. PathOf(SubSeq(ids, 1, m)) \in Path
        <4> HIDE DEF m, n, ids
        <4>1. SubSeq(ids, 1, m) \in Seq(Token)
          BY <1>1, <1>3 DEF ids
        <4> QED BY <4>1, PathBlocks DEF Path
      <3> QED BY <1>0, <1>1, <3>1, <3>2, <3>3, CoversTransitive DEF Path
    <2>2. CASE ~CacheOn
      <3>1. CommitPath(r)' = CommitPath(r)
        BY <2>2 DEF CommitPath
      <3> QED BY <1>0, <3>1
    <2> QED BY <2>1, <2>2, CacheOnAssumption
  <1>6. ~st'[r].prepared => st'[r] = NoState
    BY <1>0 DEF StatesFit
  <1>7. Len(Ids(r)') \in Nat /\ st'[r].len <= Len(Ids(r)')
    <2>1. Len(Ids(r)') \in Nat /\ Len(Ids(r)) \in Nat
      BY <1>1
    <2> QED BY <1>2, <1>4, <2>1
  <1>8. Len(st'[r].node) <= Len(st'[r].table)
    BY <1>1, <1>2
  <1> QED BY <1>5, <1>6, <1>7, <1>8 DEF StateFits

\* A request without a paged state is in order.
LEMMA NoStateFits ==
    ASSUME NEW r \in Request, Ids(r)' \in Seq(Token), st'[r] = NoState
    PROVE  StateFits(r, st[r])' /\ NoState \in StateType
  <1>1. PagesNeeded(0) = 0
    BY NoPages
  <1>2. CommitPath(r)' \in Seq(Seq(Token))
    <2>1. CASE CacheOn
      <3> DEFINE s == SubSeq(Ids(r)', 1, 0)
      <3>1. CommitPath(r)' = PathOf(s)
        BY <2>1 DEF CommitPath, NoState
      <3>2. s \in Seq(Token)
        OBVIOUS
      <3> HIDE DEF s
      <3> QED BY <3>1, <3>2, PathBlocks
    <2>2. CASE ~CacheOn
      BY <2>2 DEF CommitPath
    <2> QED BY <2>1, <2>2, CacheOnAssumption
  <1>3. Covers(CommitPath(r)', <<>>)
    BY <1>2 DEF Covers, Upto
  <1>4. Len(Ids(r)') \in Nat
    OBVIOUS
  <1> QED BY <1>1, <1>3, <1>4 DEF StateFits, NoState, StateType, Path

\* A step that leaves a request's state and output alone keeps it in order.
LEMMA UnchangedFits ==
    ASSUME KVInv, out' = out, NEW r \in Request, st'[r] = st[r]
    PROVE  StateFits(r, st[r])'
  <1>1. Ids(r)' = Ids(r) /\ CommitPath(r)' = CommitPath(r)
    BY DEF Ids, CommitPath
  <1> QED BY <1>1 DEF KVInv, StatesFit, NodeOnPath, StateFits

\* page_table.extend(pool.allocate(n)) keeps the invariant.
LEMMA GrowKeeps ==
    ASSUME KVInv, NEW r \in Request, NEW n \in Nat, st[r].prepared,
           GrowTable(r, n), UNCHANGED <<out, rehydrate>>
    PROVE  KVInv'
  <1>0. KVTypeOK /\ StatesFit
    BY DEF KVInv
  <1>1. PICK E \in EvictSets(n - Cardinality(free)) :
          /\ ExtendTable(r, n, free \cup PagesAt(E))
          /\ cached' = WithoutPaths(E)
          /\ kv' = Erased(PagesAt(E))
    BY DEF GrowTable
  <1>2. E \subseteq Cached /\ Cached' = Cached \ E /\ \A p \in Cached' : cached'[p] = cached[p]
    <2>1. n - Cardinality(free) \in Int
      BY <1>0, FS_CardinalityType, FS_Subset, PageAssumption DEF KVTypeOK
    <2> QED BY <1>1, <2>1, EvictionKeeps, EvictedUnlocked
  <1> DEFINE pool == free \cup PagesAt(E)
             t == st[r].table
  <1>3. PICK new \in [1 .. n -> pool] :
          /\ st' = [st EXCEPT ![r].table = @ \o new]
          /\ free' = pool \ {new[i] : i \in 1 .. n}
    BY <1>1 DEF ExtendTable
  <1>4. pool \subseteq Page /\ new \in [1 .. n -> Page]
    <2>1. pool \subseteq Page
      BY <1>0, <1>2 DEF KVTypeOK, PagesAt
    <2> QED BY <2>1
  <1>5. /\ t \o new \in Seq(Page) /\ Len(t \o new) = Len(t) + n /\ Len(t) \in Nat
    <2>1. t \in Seq(Page)
      BY <1>0, StateFacts
    <2> HIDE DEF t
    <2> QED BY <1>4, <2>1, TableGrown
  <1>6. /\ st'[r] = [st[r] EXCEPT !.table = t \o new]
        /\ st'[r].table = t \o new /\ st'[r].node = st[r].node
        /\ st'[r].len = st[r].len /\ st'[r].prepared = st[r].prepared
        /\ st'[r] \in StateType
        /\ \A q \in Request \ {r} : st'[q] = st[q]
        /\ st' \in [Request -> StateType]
    BY <1>0, <1>3, <1>5 DEF KVTypeOK, StateType
  <1>7. KVTypeOK'
    <2>1. /\ out' \in [Request -> Seq(Token)] /\ rehydrate' \in [Request -> BOOLEAN]
          /\ free' \subseteq Page
      BY <1>0, <1>3, <1>4 DEF KVTypeOK
    <2>2. kv' \in [Page -> Path]
      BY <1>0, <1>1, ErasedType DEF KVTypeOK
    <2>3. Cached' \subseteq Path /\ cached' \in [Cached' -> Page]
      BY <1>0, <1>1, <1>2 DEF KVTypeOK, WithoutPaths
    <2> QED BY <1>6, <2>1, <2>2, <2>3 DEF KVTypeOK
  <1>8. \A q \in Request : StateFits(q, st[q])'
    <2>1. StateFits(r, st[r])'
      <3>1. Ids(r)' = Ids(r)
        BY DEF Ids
      <3>2. /\ st[r].len <= Len(Ids(r)) /\ st[r].len \in Nat
            /\ PagesNeeded(st[r].len) <= Len(t) /\ PagesNeeded(st[r].len) \in Nat
        BY <1>0, StateFacts, PageCounts DEF StatesFit
      <3>3. PagesNeeded(st'[r].len) <= Len(st'[r].table) /\ Len(st[r].table) <= Len(st'[r].table)
        BY <1>5, <1>6, <3>2
      <3>4. st[r].len <= st'[r].len /\ st'[r].len <= Len(Ids(r))
        BY <1>6, <3>2
      <3> QED BY <1>6, <3>1, <3>3, <3>4, FitStays
    <2> QED BY <1>6, <2>1, UnchangedFits
  <1>9. StatesFit' /\ NodeOnPath'
    BY <1>8 DEF StateFits, StatesFit, NodeOnPath
  <1> QED BY <1>7, <1>9, GrowKeepsPages DEF KVInv

\* allocate raising "KV pool exhausted" keeps the invariant.
LEMMA ExhaustedKeeps ==
    ASSUME KVInv, NEW n, Exhausted(n), UNCHANGED <<out, rehydrate>>
    PROVE  KVInv'
  <1>0. KVTypeOK
    BY DEF KVInv
  <1> DEFINE E == Unlocked(st)
  <1>1. E \subseteq Cached /\ cached' = WithoutPaths(E) /\ st' = st
        /\ free' = free \cup PagesAt(E) /\ kv' = Erased(PagesAt(E))
    BY DEF Exhausted, Unlocked
  <1> HIDE DEF E
  <1>2. KVTypeOK'
    <2>1. Cached' \subseteq Path /\ cached' \in [Cached' -> Page]
      BY <1>0, <1>1 DEF KVTypeOK, WithoutPaths, Cached
    <2>2. kv' \in [Page -> Path]
      BY <1>0, <1>1, ErasedType DEF KVTypeOK
    <2>3. PagesAt(E) \subseteq Page
      BY <1>0, <1>1 DEF KVTypeOK, PagesAt
    <2> QED BY <1>0, <1>1, <2>1, <2>2, <2>3 DEF KVTypeOK
  <1>3. StatesFit' /\ NodeOnPath'
    BY <1>1, UnchangedFits DEF StateFits, StatesFit, NodeOnPath
  <1> QED BY <1>2, <1>3, ExhaustedKeepsPages DEF KVInv

\* retract_paged_state keeps the invariant.
LEMMA RetractKeeps ==
    ASSUME KVInv, NEW r \in Request, RetractPagedState(r),
           out' = out, rehydrate' \in [Request -> BOOLEAN]
    PROVE  KVInv'
  <1>0. KVTypeOK /\ StatesFit
    BY DEF KVInv
  <1>1. Ids(r) \in Seq(Token) /\ Ids(r)' = Ids(r)
    BY <1>0, PathTypes DEF Ids
  <1>2. NoState \in StateType
    BY DEF NoState, StateType, Path
  <1>3. /\ st'[r] = NoState /\ \A q \in Request \ {r} : st'[q] = st[q]
        /\ st' \in [Request -> StateType]
    BY <1>0, <1>2 DEF RetractPagedState, KVTypeOK
  <1>4. KVTypeOK'
    <2>1. kv' \in [Page -> Path]
      BY <1>0, ErasedType DEF KVTypeOK, RetractPagedState
    <2>2. Own(st[r]) \subseteq Page
      <3>1. /\ st[r].table \in Seq(Page) /\ Len(st[r].node) \in 0 .. Len(st[r].table)
        BY <1>0, StateFacts
      <3> QED BY <3>1 DEF Own
    <2> QED BY <1>0, <1>3, <2>1, <2>2 DEF KVTypeOK, RetractPagedState, Cached
  <1>5. \A q \in Request : StateFits(q, st[q])'
    <2>1. StateFits(r, st[r])'
      BY <1>1, <1>3, NoStateFits
    <2> QED BY <1>3, <2>1, UnchangedFits
  <1>6. StatesFit' /\ NodeOnPath'
    BY <1>5 DEF StateFits, StatesFit, NodeOnPath
  <1> QED BY <1>4, <1>6, RetractKeepsPages DEF KVInv

\* release_paged_prefill of a state that has not grown keeps the invariant: it
\* has no page of its own that would be lost.
LEMMA ReleaseKeeps ==
    ASSUME KVInv, NEW r \in Request, Retractable(st[r]) = 0,
           ReleasePagedPrefill(r), UNCHANGED <<out, rehydrate>>
    PROVE  KVInv'
  <1>0. KVTypeOK /\ StatesFit
    BY DEF KVInv
  <1>1. Own(st[r]) = {}
    <2>1. Len(st[r].node) = Len(st[r].table) /\ Len(st[r].table) \in Nat
      BY <1>0, StateFacts DEF Retractable
    <2> QED BY <2>1 DEF Own
  <1>2. free \cup Own(st[r]) = free /\ Erased(Own(st[r])) = kv
    <2>1. kv \in [Page -> Path]
      BY <1>0 DEF KVTypeOK
    <2> QED BY <1>1, <2>1 DEF Erased
  <1>3. RetractPagedState(r)
    BY <1>2 DEF ReleasePagedPrefill, RetractPagedState
  <1>4. rehydrate' \in [Request -> BOOLEAN]
    BY <1>0 DEF KVTypeOK
  <1> QED BY <1>3, <1>4, RetractKeeps

\* The state prepare leaves behind fits.
LEMMA PreparedFits ==
    ASSUME KVInv, NEW r \in Request, Prefilling(r), out' = out,
           NEW s \in PreparedStates(r), st'[r] = s
    PROVE  s \in StateType /\ StateFits(r, st[r])'
  <1>0. KVTypeOK /\ StatesFit
    BY DEF KVInv
  <1>1. CASE st[r].prepared
    <2>1. st'[r] = st[r]
      BY <1>1 DEF PreparedStates
    <2> QED BY <1>0, <2>1, UnchangedFits, StateFacts
  <1>2. CASE ~st[r].prepared
    <2> DEFINE p == MatchPath(r)
               ids == Ids(r)
    <2>1. PICK k \in 0 .. Len(p) :
            /\ LongestHit(p, k)
            /\ s = [table |-> [i \in 1 .. k |-> cached[Upto(p, i)]], len |-> k * PageSize,
                    node |-> Upto(p, k), prepared |-> TRUE]
      BY <1>2 DEF PreparedStates
    <2>2. p \in Path /\ ids \in Seq(Token) /\ ids' = ids
      BY <1>0, MatchPathType, PathTypes DEF Ids
    <2>3. k \in Nat /\ k * PageSize \in Nat /\ PagesNeeded(k * PageSize) = k
          /\ FullPages(k * PageSize) = k
      <3>1. k \in Nat
        OBVIOUS
      <3> QED BY <3>1, WholePages, PageSizeAssumption
    <2>4. Upto(p, k) \in Path /\ Len(Upto(p, k)) = k
      <3> HIDE DEF p
      <3> QED BY <2>2, PrefixLengths DEF Path
    <2>5. s \in StateType /\ Len(s.table) = k
      <3>1. \A i \in 1 .. k : Upto(p, i) \in Cached
        BY <2>1 DEF LongestHit
      <3> DEFINE f == [i \in 1 .. k |-> cached[Upto(p, i)]]
      <3>2. f \in [1 .. k -> Page]
        BY <1>0, <3>1 DEF KVTypeOK
      <3>3. f \in Seq(Page) /\ Len(f) = k
        <4> HIDE DEF f
        <4> QED BY <2>3, <3>2, FunctionIsSeq
      <3> QED BY <2>1, <2>3, <2>4, <3>3 DEF StateType
    <2>6. /\ k * PageSize <= Len(ids)
          /\ Covers(CommitPath(r)', Upto(p, k))
      <3>1. CASE CacheOn
        <4>1. PICK m \in 0 .. Len(ids) : p = PathOf(SubSeq(ids, 1, m))
          BY <1>0, <3>1, MatchPathType
        <4> HIDE DEF p, ids
        <4>2. SubSeq(ids, 1, m) \in Seq(Token) /\ Len(SubSeq(ids, 1, m)) = m /\ m \in Nat
          BY <2>2
        <4>3. Len(p) = FullPages(m) /\ FullPages(m) \in Nat
          BY <4>1, <4>2, PathBlocks, PageCounts
        <4>4. k * PageSize <= m
          BY <2>3, <4>2, <4>3, FullPagesIff
        <4>5. k * PageSize \in 0 .. m /\ k * PageSize <= Len(ids) /\ Len(ids) \in Nat
          BY <2>2, <2>3, <4>4
        <4> DEFINE q == PathOf(SubSeq(ids, 1, k * PageSize))
        <4>6. Covers(p, q)
          BY <2>2, <4>1, <4>5, PathMonotone
        <4>7. q \in Path /\ Len(q) = k
          <5>1. /\ SubSeq(ids, 1, k * PageSize) \in Seq(Token)
                /\ Len(SubSeq(ids, 1, k * PageSize)) = k * PageSize
            BY <2>2, <2>3, <4>5
          <5> QED BY <2>3, <5>1, PathBlocks DEF Path
        <4>8. q = Upto(p, k)
          BY <4>6, <4>7 DEF Covers
        <4>9. CommitPath(r)' = q
          <5>1. st'[r].len = k * PageSize
            BY <2>1
          <5> QED BY <2>2, <3>1, <5>1 DEF CommitPath, ids
        <4>10. Covers(q, q)
          BY <4>7 DEF Covers, Upto, Path
        <4> QED BY <4>5, <4>8, <4>9, <4>10
      <3>2. CASE ~CacheOn
        <4>1. p = <<>> /\ CommitPath(r)' = <<>>
          BY <1>0, <3>2, MatchPathType DEF CommitPath
        <4>2. k = 0 /\ Upto(p, k) = <<>>
          BY <4>1 DEF Upto
        <4>3. Covers(<<>>, <<>>) /\ 0 * PageSize = 0 /\ 0 <= Len(ids)
          BY <2>2, PageSizeAssumption DEF Covers, Upto
        <4> QED BY <4>1, <4>2, <4>3
      <3> QED BY <3>1, <3>2, CacheOnAssumption
    <2>7. /\ s.prepared = TRUE /\ s.len = k * PageSize /\ s.node = Upto(p, k)
      BY <2>1
    <2>8. k <= k
      BY <2>3
    <2> HIDE DEF p
    <2> QED BY <2>2, <2>3, <2>4, <2>5, <2>6, <2>7, <2>8 DEF StateFits
  <1> QED BY <1>1, <1>2

\* prepare_paged_prefill keeps the invariant.
LEMMA PrepareKeeps ==
    ASSUME KVInv, NEW r \in Request, Prefilling(r),
           PreparePagedPrefill(r), UNCHANGED <<out, rehydrate>>
    PROVE  KVInv'
  <1>0. KVTypeOK
    BY DEF KVInv
  <1>1. PICK s \in PreparedStates(r) : st' = [st EXCEPT ![r] = s]
    BY DEF PreparePagedPrefill
  <1>2. st'[r] = s /\ \A q \in Request \ {r} : st'[q] = st[q]
    BY <1>0, <1>1 DEF KVTypeOK
  <1>3. s \in StateType /\ StateFits(r, st[r])'
    BY <1>2, PreparedFits
  <1>4. KVTypeOK'
    BY <1>0, <1>1, <1>3 DEF KVTypeOK, PreparePagedPrefill, Cached
  <1>5. \A q \in Request : StateFits(q, st[q])'
    BY <1>2, <1>3, UnchangedFits
  <1>6. StatesFit' /\ NodeOnPath'
    BY <1>5 DEF StateFits, StatesFit, NodeOnPath
  <1> QED BY <1>4, <1>6, PrepareKeepsPages DEF KVInv

\* A commit, together with the token that was appended just before it.
LEMMA CommitKeeps ==
    ASSUME KVInv, NEW r \in Request, NEW x \in Token, NEW finished \in BOOLEAN,
           out' = [out EXCEPT ![r] = Append(@, x)], rehydrate' = rehydrate,
           CommitPagedCache(r, finished)
    PROVE  KVInv'
  <1>0. KVTypeOK /\ StatesFit
    BY DEF KVInv
  <1> DEFINE s == st[r]
             t == s.table
             p == CommitPath(r)
             l == Len(t)
             n == Len(s.node)
             c == Len(p)
  <1>1. PICK k \in 0 .. c :
          /\ LongestHit(p, k)
          /\ cached' = [q \in Cached \cup {Upto(p, i) : i \in k + 1 .. c} |->
                          IF q \in Cached THEN cached[q] ELSE t[Len(q)]]
          /\ free' = free \cup {t[i] : i \in (n + 1 .. k) \cup
                                  (IF finished THEN c + 1 .. l ELSE {})}
          /\ kv' = Erased({t[i] : i \in (n + 1 .. k) \cup
                                  (IF finished THEN c + 1 .. l ELSE {})})
          /\ st' = [st EXCEPT ![r] =
                      IF finished THEN NoState
                      ELSE [s EXCEPT !.table = [i \in 1 .. l |->
                                                  IF i <= k THEN cached[Upto(p, i)]
                                                            ELSE t[i]],
                                     !.node = p,
                                     !.prepared = TRUE]]
    BY DEF CommitPagedCache
  <1>2. /\ p \in Path /\ n \in 0 .. k /\ c \in k .. l /\ k \in Nat /\ l \in Nat
        /\ t \in Seq(Page) /\ s \in StateType
    BY <1>0, <1>1, CommitBounds, StateFacts
  <1>3. /\ \A i \in 1 .. k : Upto(p, i) \in Cached
        /\ \A i \in 1 .. c : Upto(p, i) \in Path /\ Len(Upto(p, i)) = i
    <2>1. \A i \in 1 .. k : Upto(p, i) \in Cached
      BY <1>1, CommitBounds
    <2>2. \A i \in 1 .. c : Upto(p, i) \in Path /\ Len(Upto(p, i)) = i
      BY <1>2, PrefixLengths DEF Path
    <2> QED BY <2>1, <2>2
  <1>4. out' \in [Request -> Seq(Token)] /\ \A q \in Request \ {r} : Ids(q)' = Ids(q)
    BY <1>0 DEF KVTypeOK, Ids
  <1>5. Ids(r)' = Append(Ids(r), x) /\ Ids(r) \in Seq(Token)
    <2>1. out'[r] = Append(out[r], x)
      BY <1>0 DEF KVTypeOK
    <2>2. Prompt[r] \in Seq(Token) /\ out[r] \in Seq(Token)
      BY <1>0, PromptAssumption DEF KVTypeOK
    <2>3. Ids(r)' = Prompt[r] \o Append(out[r], x) /\ Ids(r) = Prompt[r] \o out[r]
      BY <2>1 DEF Ids
    <2>4. /\ Prompt[r] \o Append(out[r], x) = Append(Prompt[r] \o out[r], x)
          /\ Prompt[r] \o out[r] \in Seq(Token)
      <3> DEFINE a == Prompt[r]
                 b == out[r]
      <3>1. a \in Seq(Token) /\ b \in Seq(Token)
        BY <2>2
      <3>2. a \o Append(b, x) = Append(a \o b, x) /\ a \o b \in Seq(Token)
        <4> HIDE DEF a, b
        <4> QED BY <3>1, ConcatAppend
      <3> QED BY <3>2, Zenon
    <2>5. Ids(r)' = Append(Ids(r), x)
      BY <2>3, <2>4, Zenon
    <2> QED BY <2>3, <2>4, <2>5
  <1>6. /\ st'[r] \in StateType
        /\ \A q \in Request \ {r} : st'[q] = st[q]
        /\ finished => st'[r] = NoState
        /\ ~finished => /\ st'[r].node = p /\ st'[r].prepared = TRUE
                        /\ st'[r].len = s.len /\ Len(st'[r].table) = l
    <2> DEFINE f == [i \in 1 .. l |-> IF i <= k THEN cached[Upto(p, i)] ELSE t[i]]
    <2>1. f \in [1 .. l -> Page]
      <3> SUFFICES ASSUME NEW i \in 1 .. l
                   PROVE  (IF i <= k THEN cached[Upto(p, i)] ELSE t[i]) \in Page
        OBVIOUS
      <3>1. CASE i <= k
        <4>1. i \in 1 .. k
          BY <1>2, <3>1
        <4>2. Upto(p, i) \in Cached
          BY <1>3, <4>1
        <4> QED BY <1>0, <3>1, <4>2 DEF KVTypeOK
      <3>2. CASE ~(i <= k)
        BY <1>2, <3>2
      <3> QED BY <3>1, <3>2
    <2>2. f \in Seq(Page) /\ Len(f) = l
      <3> HIDE DEF f, l
      <3> QED BY <1>2, <2>1, FunctionIsSeq
    <2>3. /\ \A q \in Request \ {r} : st'[q] = st[q]
          /\ finished => st'[r] = NoState
          /\ ~finished => st'[r] = [s EXCEPT !.table = f, !.node = p, !.prepared = TRUE]
      BY <1>0, <1>1 DEF KVTypeOK
    <2>4. NoState \in StateType
      BY DEF NoState, StateType, Path
    <2>5. CASE finished
      BY <2>3, <2>4, <2>5
    <2>6. CASE ~finished
      <3>1. st'[r] = [s EXCEPT !.table = f, !.node = p, !.prepared = TRUE]
        BY <2>3, <2>6
      <3> HIDE DEF f, s, p
      <3>2. /\ st'[r].table = f /\ st'[r].node = p /\ st'[r].len = s.len
            /\ st'[r].prepared = TRUE /\ st'[r] \in StateType
        BY <1>2, <2>2, <3>1 DEF StateType
      <3> QED BY <2>2, <2>3, <2>6, <3>2
    <2> QED BY <2>5, <2>6
  <1>7. KVTypeOK'
    <2>1. st' \in [Request -> StateType]
      BY <1>0, <1>1, <1>6 DEF KVTypeOK
    <2>2. kv' \in [Page -> Path]
      BY <1>0, <1>1, ErasedType DEF KVTypeOK
    <2>3. \A i \in (n + 1 .. k) \cup (IF finished THEN c + 1 .. l ELSE {}) : i \in 1 .. l
      BY <1>2
    <2>4. free' \subseteq Page
      <3>1. \A i \in 1 .. l : t[i] \in Page
        BY <1>2
      <3> QED BY <1>0, <1>1, <2>3, <3>1 DEF KVTypeOK
    <2>5. Cached' \subseteq Path /\ cached' \in [Cached' -> Page]
      <3> DEFINE D == Cached \cup {Upto(p, i) : i \in k + 1 .. c}
      <3>1. \A i \in k + 1 .. c : i \in 1 .. c /\ i \in 1 .. l
        BY <1>2
      <3>2. D \subseteq Path
        BY <1>0, <1>3, <3>1 DEF KVTypeOK
      <3>3. \A q \in D : (IF q \in Cached THEN cached[q] ELSE t[Len(q)]) \in Page
        <4>1. \A q \in Cached : cached[q] \in Page
          BY <1>0 DEF KVTypeOK
        <4>2. \A i \in k + 1 .. c : t[Len(Upto(p, i))] \in Page
          <5> SUFFICES ASSUME NEW i \in k + 1 .. c
                       PROVE  t[Len(Upto(p, i))] \in Page
            OBVIOUS
          <5>1. Len(Upto(p, i)) = i
            BY <1>3, <3>1
          <5>2. i \in 1 .. l
            BY <3>1
          <5>3. t[i] \in Page
            BY <1>2, <5>2
          <5> QED BY <5>1, <5>3
        <4> QED BY <4>1, <4>2
      <3>4. cached' = [q \in D |-> IF q \in Cached THEN cached[q] ELSE t[Len(q)]]
        BY <1>1
      <3> HIDE DEF D, t
      <3> QED BY <3>2, <3>3, <3>4 DEF Cached
    <2> QED BY <1>0, <1>4, <2>1, <2>2, <2>4, <2>5 DEF KVTypeOK
  <1>8. StateFits(r, st[r])'
    <2>1. CASE finished
      <3>1. Ids(r)' \in Seq(Token)
        BY <1>5
      <3> QED BY <1>6, <2>1, <3>1, NoStateFits
    <2>2. CASE ~finished
      <3> DEFINE ids == Ids(r)
                 m == s.len
      <3>1. m \in 0 .. Len(ids) /\ m \in Nat /\ Len(ids) \in Nat
        <4>1. m \in Nat /\ m <= Len(ids)
          BY <1>0, StateFacts DEF StatesFit
        <4>2. Len(ids) \in Nat
          BY <1>5
        <4> QED BY <4>1, <4>2
      <3>2. SubSeq(Append(ids, x), 1, m) = SubSeq(ids, 1, m) /\ Len(Append(ids, x)) = Len(ids) + 1
        <4>1. ids \in Seq(Token)
          BY <1>5
        <4> HIDE DEF ids, m
        <4> QED BY <3>1, <4>1
      <3>3. CommitPath(r)' = p
        BY <1>5, <1>6, <2>2, <3>2 DEF CommitPath
      <3>4. Covers(p, p)
        BY <1>2 DEF Covers, Upto, Path
      <3>5. st'[r].len <= Len(Ids(r)')
        BY <1>5, <1>6, <2>2, <3>1, <3>2
      <3>6. PagesNeeded(st'[r].len) <= Len(st'[r].table)
        BY <1>0, <1>6, <2>2 DEF StatesFit
      <3>7. Len(st'[r].node) <= Len(st'[r].table)
        BY <1>2, <1>6, <2>2
      <3> QED BY <1>6, <2>2, <3>3, <3>4, <3>5, <3>6, <3>7 DEF StateFits
    <2> QED BY <2>1, <2>2
  <1>9. ASSUME NEW q \in Request \ {r}
        PROVE  StateFits(q, st[q])'
    <2>1. Ids(q)' = Ids(q) /\ st'[q] = st[q]
      BY <1>4, <1>6
    <2>2. CommitPath(q)' = CommitPath(q)
      BY <2>1 DEF CommitPath
    <2> QED BY <2>1, <2>2 DEF KVInv, StatesFit, NodeOnPath, StateFits
  <1>10. StatesFit' /\ NodeOnPath'
    BY <1>8, <1>9 DEF StateFits, StatesFit, NodeOnPath
  <1> QED BY <1>7, <1>10, CommitKeepsPages DEF KVInv

\* Page tables, cache and free list all stay the same.
LEMMA SameTablesKeepPages ==
    ASSUME PagesInv, free' = free, cached' = cached,
           \A r \in Request : st'[r].table = st[r].table /\ st'[r].node = st[r].node
    PROVE  PagesInv'
  <1>1. /\ Cached' = Cached /\ PagesAt(Cached)' = PagesAt(Cached)
        /\ \A r \in Request : Own(st'[r]) = Own(st[r])
    BY DEF Cached, PagesAt, Own
  <1>2. PrefixClosed' /\ BorrowedStayCached'
    BY <1>1 DEF PagesInv, PrefixClosed, BorrowedStayCached
  <1>3. PagesPartitioned'
    <2>1. /\ \A p, q \in Cached : cached[p] = cached[q] => p = q
          /\ PagesAt(Cached) \cap free = {}
          /\ \A q \in Request :
               /\ Own(st[q]) \cap free = {}
               /\ Own(st[q]) \cap PagesAt(Cached) = {}
               /\ \A w \in Request \ {q} : Own(st[q]) \cap Own(st[w]) = {}
               /\ \A i, j \in Len(st[q].node) + 1 .. Len(st[q].table) :
                    st[q].table[i] = st[q].table[j] => i = j
          /\ Page = free \cup PagesAt(Cached) \cup UNION {Own(st[q]) : q \in Request}
      BY DEF PagesInv, PagesPartitioned
    <2>2. UNION {Own(st'[q]) : q \in Request} = UNION {Own(st[q]) : q \in Request}
      BY <1>1
    <2>3. \A q \in Request :
            /\ Own(st'[q]) \cap free' = {}
            /\ Own(st'[q]) \cap PagesAt(Cached)' = {}
            /\ \A w \in Request \ {q} : Own(st'[q]) \cap Own(st'[w]) = {}
      BY <1>1, <2>1
    <2>4. \A q \in Request : \A i, j \in Len(st'[q].node) + 1 .. Len(st'[q].table) :
            st'[q].table[i] = st'[q].table[j] => i = j
      BY <2>1
    <2> QED BY <1>1, <2>1, <2>2, <2>3, <2>4 DEF PagesPartitioned
  <1> QED BY <1>2, <1>3 DEF PagesInv

\* A forward only moves lengths on and writes into the pages of the batch.
LEMMA ForwardKeeps ==
    ASSUME KVInv, NEW R \in SUBSET Request, NEW fed \in [R -> Seq(Token)],
           \A r \in R : /\ st[r].prepared
                        /\ st[r].len <= Len(fed[r]) /\ Len(fed[r]) <= Len(Ids(r))
                        /\ PagesNeeded(Len(fed[r])) <= Len(st[r].table),
           Forward(R, fed), UNCHANGED <<out, rehydrate, cached>>
    PROVE  KVInv'
  <1>0. /\ KVTypeOK /\ StatesFit /\ PagesPartitioned /\ BorrowedStayCached /\ PrefixClosed
        /\ free' = free /\ cached' = cached /\ Cached' = Cached
        /\ PagesAt(Cached)' = PagesAt(Cached)
    BY DEF KVInv, PagesInv, Forward, Cached, PagesAt
  <1>1. \A r \in Request :
          /\ r \in R => st'[r] = [st[r] EXCEPT !.len = Len(fed[r])]
          /\ r \notin R => st'[r] = st[r]
    BY DEF Forward
  <1>2. \A r \in R : Len(fed[r]) \in Nat
    OBVIOUS
  <1>3. \A r \in Request :
          /\ st'[r] \in StateType
          /\ st'[r].table = st[r].table /\ st'[r].node = st[r].node
          /\ st'[r].prepared = st[r].prepared
          /\ st[r].prepared \/ st'[r] = st[r]
          /\ r \in R => st'[r].len = Len(fed[r])
    <2> SUFFICES ASSUME NEW r \in Request
                 PROVE  /\ st'[r] \in StateType
                        /\ st'[r].table = st[r].table /\ st'[r].node = st[r].node
                        /\ st'[r].prepared = st[r].prepared
                        /\ st[r].prepared \/ st'[r] = st[r]
                        /\ r \in R => st'[r].len = Len(fed[r])
      OBVIOUS
    <2>1. st[r] \in StateType
      BY <1>0, StateFacts
    <2>2. CASE r \in R
      BY <1>1, <1>2, <2>1, <2>2 DEF StateType
    <2>3. CASE r \notin R
      BY <1>1, <2>1, <2>3
    <2> QED BY <2>2, <2>3
  <1>4. ASSUME NEW r \in Request
        PROVE  StateFits(r, st[r])'
    <2>1. CASE r \in R
      <3>1. Ids(r)' = Ids(r)
        BY DEF Ids
      <3>2. Len(st[r].table) <= Len(st'[r].table)
        <4>1. Len(st[r].table) \in Nat
          BY <1>0, StateFacts
        <4> QED BY <1>3, <4>1
      <3>3. /\ st[r].len <= st'[r].len /\ st'[r].len <= Len(Ids(r))
            /\ PagesNeeded(st'[r].len) <= Len(st'[r].table)
        BY <1>3, <2>1
      <3> QED BY <1>3, <3>1, <3>2, <3>3, FitStays
    <2>2. CASE r \notin R
      BY <1>1, <2>2, UnchangedFits
    <2> QED BY <2>1, <2>2
  <1>5. KVTypeOK'
    <2>1. st' \in [Request -> StateType]
      <3>1. DOMAIN st' = Request /\ st' = [r \in Request |-> st'[r]]
        BY DEF Forward
      <3> QED BY <1>3, <3>1
    <2>2. kv' \in [Page -> Path]
      <3> DEFINE writes(r, g) == {i \in 1 .. PagesNeeded(Len(fed[r])) :
                                    i * PageSize > st[r].len /\ st[r].table[i] = g}
                 new(g) == LET r == CHOOSE r \in R : writes(r, g) # {}
                               i == CHOOSE i \in writes(r, g) : TRUE
                           IN  Upto(Blocks(fed[r]), i)
      <3>1. kv' = [g \in Page |-> IF \E r \in R : writes(r, g) # {} THEN new(g) ELSE kv[g]]
        BY DEF Forward
      <3>2. ASSUME NEW g \in Page, \E r \in R : writes(r, g) # {}
            PROVE  new(g) \in Path
        <4> DEFINE r == CHOOSE r \in R : writes(r, g) # {}
                   i == CHOOSE i \in writes(r, g) : TRUE
        <4>1. r \in R /\ writes(r, g) # {}
          BY <3>2
        <4>2. i \in writes(r, g)
          BY <4>1
        <4>3. i \in 1 .. PagesNeeded(Len(fed[r]))
          BY <4>2
        <4>4. fed[r] \in Seq(Token)
          BY <4>1
        <4> HIDE DEF r, i
        <4>5. Blocks(fed[r]) \in Path /\ Len(Blocks(fed[r])) = PagesNeeded(Len(fed[r]))
          BY <4>4, PathBlocks DEF Path
        <4>6. Upto(Blocks(fed[r]), i) \in Path
          BY <4>3, <4>5, PrefixLengths DEF Path
        <4> QED BY <4>6 DEF r, i
      <3> HIDE DEF new, writes
      <3> QED BY <1>0, <3>1, <3>2 DEF KVTypeOK
    <2> QED BY <1>0, <2>1, <2>2 DEF KVTypeOK
  <1>6. PagesInv'
    BY <1>0, <1>3, SameTablesKeepPages DEF KVInv
  <1>7. StatesFit' /\ NodeOnPath'
    BY <1>4 DEF StateFits, StatesFit, NodeOnPath
  <1> QED BY <1>5, <1>6, <1>7 DEF KVInv

\* Neither paged states, pages nor the cache change; r may get a token.
LEMMA OutputKeeps ==
    ASSUME KVInv, NEW r \in Request,
           out' = out \/ \E x \in Token : out' = [out EXCEPT ![r] = Append(@, x)],
           rehydrate' \in [Request -> BOOLEAN], UNCHANGED <<st, cached, free, kv>>
    PROVE  KVInv'
  <1>0. KVTypeOK /\ StatesFit /\ PagesInv
    BY DEF KVInv
  <1>1. KVTypeOK'
    <2>1. out' \in [Request -> Seq(Token)]
      <3>1. CASE out' = out
        BY <1>0, <3>1 DEF KVTypeOK
      <3>2. CASE \E x \in Token : out' = [out EXCEPT ![r] = Append(@, x)]
        <4>1. PICK x \in Token : out' = [out EXCEPT ![r] = Append(@, x)]
          BY <3>2
        <4>2. Append(out[r], x) \in Seq(Token)
          BY <1>0 DEF KVTypeOK
        <4> QED BY <1>0, <4>1, <4>2 DEF KVTypeOK
      <3> QED BY <3>1, <3>2
    <2> QED BY <1>0, <2>1 DEF KVTypeOK, Cached
  <1>2. PagesInv'
    BY <1>0, SameTablesKeepPages
  <1>3. ASSUME NEW q \in Request
        PROVE  StateFits(q, st[q])'
    <2>1. Ids(q)' = Ids(q) \/ \E x \in Token : Ids(q)' = Append(Ids(q), x)
      <3>1. CASE out' = out \/ q # r
        <4>1. out'[q] = out[q]
          BY <1>0, <3>1 DEF KVTypeOK
        <4> QED BY <4>1 DEF Ids
      <3>2. CASE out' # out /\ q = r
        <4>1. PICK x \in Token : out' = [out EXCEPT ![r] = Append(@, x)]
          BY <3>2
        <4>2. out'[r] = Append(out[r], x)
          BY <1>0, <4>1 DEF KVTypeOK
        <4> DEFINE a == Prompt[r]
                   b == out[r]
        <4>3. a \in Seq(Token) /\ b \in Seq(Token)
          BY <1>0, PromptAssumption DEF KVTypeOK
        <4>4. a \o Append(b, x) = Append(a \o b, x)
          <5> HIDE DEF a, b
          <5> QED BY <4>3, ConcatAppend
        <4>5. Ids(r)' = a \o Append(b, x) /\ Ids(r) = a \o b
          BY <4>2 DEF Ids
        <4>6. Ids(r)' = Append(Ids(r), x)
          BY <4>4, <4>5, Zenon
        <4> QED BY <3>2, <4>6
      <3> QED BY <3>1, <3>2
    <2>2. /\ st'[q] = st[q] /\ st[q] \in StateType /\ st[q].len \in Nat
          /\ Len(st[q].table) \in Nat
          /\ st[q].len <= Len(Ids(q)) /\ PagesNeeded(st[q].len) <= Len(st[q].table)
      BY <1>0, StateFacts DEF StatesFit
    <2>3. st[q].len <= st'[q].len /\ Len(st[q].table) <= Len(st'[q].table)
      BY <2>2
    <2> QED BY <2>1, <2>2, <2>3, FitStays
  <1>4. StatesFit' /\ NodeOnPath'
    BY <1>3 DEF StateFits, StatesFit, NodeOnPath
  <1> QED BY <1>1, <1>2, <1>4 DEF KVInv

-------------------------------------------------------------------------------
(* KVInv is inductive. *)

\* A prefill never runs past the request's tokens.
LEMMA PrefillIdsBound ==
    ASSUME KVTypeOK, NEW r \in Request, Prefilling(r)
    PROVE  Len(PrefillIds(r)) \in Nat /\ Len(PrefillIds(r)) <= Len(Ids(r)) /\ Len(Ids(r)) \in Nat
  <1>1. Ids(r) \in Seq(Token)
    <2>1. Prompt[r] \in Seq(Token) /\ out[r] \in Seq(Token)
      BY PromptAssumption DEF KVTypeOK
    <2> QED BY <2>1 DEF Ids
  <1> QED BY <1>1, MatchPathType

\* What a chunk brings: more tokens, and no more than there are.
LEMMA ChunkBounds ==
    ASSUME KVInv, NEW r \in Request, MayPrefill(r), NEW chunk \in Nat
    PROVE  /\ ChunkEnd(r, st[r], chunk) \in Nat
           /\ st[r].len <= ChunkEnd(r, st[r], chunk)
           /\ ChunkEnd(r, st[r], chunk) <= Len(PrefillIds(r))
           /\ PrefillNeeded(r, st[r], chunk) = Missing(st[r], ChunkEnd(r, st[r], chunk))
           /\ PrefillNeeded(r, st[r], chunk) \in Nat
  <1>1. KVTypeOK /\ StatesFit
    BY DEF KVInv
  <1>2. /\ Len(PrefillIds(r)) \in Nat /\ st[r].len \in Nat /\ Len(st[r].table) \in Nat
        /\ ~(st[r].len >= Len(PrefillIds(r)))
    BY <1>1, PrefillIdsBound, StateFacts DEF MayPrefill, PrefillComplete
  <1>3. /\ ChunkEnd(r, st[r], chunk) \in Nat
        /\ st[r].len <= ChunkEnd(r, st[r], chunk)
        /\ ChunkEnd(r, st[r], chunk) <= Len(PrefillIds(r))
    BY <1>2 DEF ChunkEnd, Lesser
  <1>4. PrefillNeeded(r, st[r], chunk) = Missing(st[r], ChunkEnd(r, st[r], chunk))
    BY DEF PrefillNeeded, MayPrefill
  <1>5. PagesNeeded(ChunkEnd(r, st[r], chunk)) \in Nat
    BY <1>3, PageCounts
  <1> QED BY <1>2, <1>3, <1>4, <1>5 DEF Missing

\* A request that decodes has a state, one token short of its ids.
LEMMA DecodeBounds ==
    ASSUME KVInv, NEW r \in Request, MayDecode(r)
    PROVE  /\ st[r].prepared /\ st[r].len \in Nat /\ st[r].len + 1 = Len(Ids(r))
           /\ Missing(st[r], st[r].len + 1) \in Nat
           /\ Ids(r) \in Seq(Token) /\ out[r] \in Seq(Token) /\ out[r] # <<>>
  <1>1. KVTypeOK /\ StatesFit
    BY DEF KVInv
  <1>2. /\ Prompt[r] \in Seq(Token) /\ Prompt[r] # <<>> /\ out[r] \in Seq(Token) /\ out[r] # <<>>
        /\ st[r].len + 1 = Len(Ids(r)) /\ st[r].len \in Nat /\ Len(st[r].table) \in Nat
    BY <1>1, PromptAssumption, StateFacts DEF KVTypeOK, MayDecode, Running
  <1>3. Ids(r) \in Seq(Token) /\ Len(Ids(r)) \in Nat /\ Len(Ids(r)) > 1
    <2> DEFINE a == Prompt[r]
               b == out[r]
    <2>1. a \in Seq(Token) /\ a # <<>> /\ b \in Seq(Token) /\ b # <<>>
      BY <1>2
    <2>2. a \o b \in Seq(Token) /\ Len(a \o b) \in Nat /\ Len(a \o b) > 1
      <3> HIDE DEF a, b
      <3>1. Len(a) \in Nat \ {0} /\ Len(b) \in Nat \ {0}
        BY <2>1
      <3>2. a \o b \in Seq(Token) /\ Len(a \o b) = Len(a) + Len(b)
        BY <2>1, ConcatPrefix
      <3> QED BY <3>1, <3>2
    <2> QED BY <2>2 DEF Ids
  <1>4. st[r].len # 0
    BY <1>2, <1>3
  <1>5. st[r].prepared
    BY <1>1, <1>4 DEF StatesFit, NoState
  <1>6. PagesNeeded(st[r].len + 1) \in Nat
    <2> DEFINE m == st[r].len + 1
    <2>1. m \in Nat
      BY <1>2
    <2>2. PagesNeeded(m) \in Nat
      <3> HIDE DEF m
      <3> QED BY <2>1, PageCounts
    <2> QED BY <2>2
  <1>7. Missing(st[r], st[r].len + 1) \in Nat
    <2> DEFINE m == PagesNeeded(st[r].len + 1)
               l == Len(st[r].table)
    <2>1. m \in Nat /\ l \in Nat
      BY <1>2, <1>6
    <2>2. Missing(st[r], st[r].len + 1) = IF m > l THEN m - l ELSE 0
      BY DEF Missing
    <2> HIDE DEF m, l
    <2> QED BY <2>1, <2>2
  <1> QED BY <1>2, <1>3, <1>5, <1>7

\* The empty engine satisfies the invariant.
LEMMA InitKeeps == KVInit => KVInv
  <1> SUFFICES ASSUME KVInit PROVE KVInv
    OBVIOUS
  <1>1. NoState \in StateType /\ NoState.node = <<>> /\ NoState.table = <<>> /\ NoState.len = 0
    BY DEF NoState, StateType, Path
  <1>2. Cached = {} /\ \A r \in Request : st[r] = NoState /\ out[r] = <<>>
    BY DEF KVInit, Cached
  <1>3. KVTypeOK
    BY <1>1, <1>2 DEF KVInit, KVTypeOK, Cached, Path
  <1>4. \A r \in Request : Ids(r) \in Seq(Token) /\ Len(Ids(r)) \in Nat
    <2> SUFFICES ASSUME NEW r \in Request
                 PROVE  Ids(r) \in Seq(Token) /\ Len(Ids(r)) \in Nat
      OBVIOUS
    <2>1. Prompt[r] \in Seq(Token) /\ out[r] \in Seq(Token)
      BY <1>3, PromptAssumption DEF KVTypeOK
    <2>2. Ids(r) \in Seq(Token)
      BY <2>1 DEF Ids
    <2> QED BY <2>2
  <1>5. PagesNeeded(0) = 0
    BY NoPages
  <1>6. StatesFit
    BY <1>1, <1>2, <1>4, <1>5 DEF StatesFit
  <1>7. NodeOnPath
    <2> SUFFICES ASSUME NEW r \in Request PROVE Covers(CommitPath(r), <<>>)
      BY <1>1, <1>2 DEF NodeOnPath
    <2>1. CommitPath(r) \in Path
      BY <1>3, <1>6, PathTypes
    <2> QED BY <2>1 DEF Covers, Upto, Path
  <1>8. PagesInv
    <2>1. Own(NoState) = {}
      BY DEF NoState, Own
    <2>2. PagesAt(Cached) = {} /\ free = Page
      BY <1>2 DEF PagesAt, KVInit
    <2>3. PagesPartitioned
      BY <1>1, <1>2, <2>1, <2>2 DEF PagesPartitioned
    <2>4. PrefixClosed /\ BorrowedStayCached
      BY <1>1, <1>2 DEF PrefixClosed, BorrowedStayCached
    <2> QED BY <2>3, <2>4 DEF PagesInv
  <1> QED BY <1>3, <1>6, <1>7, <1>8 DEF KVInv

\* Every operation of the engine keeps the invariant.
LEMMA NextKeeps == KVInv /\ [KVNext]_kvVars => KVInv'
  <1> SUFFICES ASSUME KVInv, [KVNext]_kvVars PROVE KVInv'
    OBVIOUS
  <1>0. KVTypeOK /\ StatesFit
    BY DEF KVInv
  <1>1. ASSUME NEW r \in Request, Prepare(r) PROVE KVInv'
    BY <1>1, PrepareKeeps DEF Prepare
  <1>2. ASSUME NEW r \in Request, Release(r) PROVE KVInv'
    BY <1>2, ReleaseKeeps DEF Release
  <1>3. ASSUME NEW R \in (SUBSET Request) \ {{}}, Resume(R) PROVE KVInv'
    <2>1. rehydrate' \in [Request -> BOOLEAN]
      BY <1>0, <1>3 DEF Resume, KVTypeOK
    <2>2. R # {} /\ R \subseteq Request
      OBVIOUS
    <2>3. PICK r \in Request : r \in R
      BY <2>2
    <2> QED BY <1>3, <2>1, <2>3, OutputKeeps DEF Resume
  <1>4. ASSUME NEW r \in Request, Retract(r) PROVE KVInv'
    <2>1. rehydrate' \in [Request -> BOOLEAN]
      BY <1>0, <1>4 DEF Retract, KVTypeOK
    <2> QED BY <1>4, <2>1, RetractKeeps DEF Retract
  <1>5. ASSUME NEW r \in Request, RunOut(r) PROVE KVInv'
    BY <1>5, ExhaustedKeeps DEF RunOut
  <1>6. ASSUME NEW r \in Request, GrowForPrefill(r) PROVE KVInv'
    <2>1. PICK chunk \in ChunkSizes : GrowTable(r, PrefillNeeded(r, st[r], chunk))
      BY <1>6 DEF GrowForPrefill
    <2>2. MayPrefill(r) /\ chunk \in Nat /\ st[r].prepared /\ UNCHANGED <<out, rehydrate>>
      BY <1>6, ChunkAssumption DEF GrowForPrefill, MayPrefill
    <2>3. PrefillNeeded(r, st[r], chunk) \in Nat
      BY <2>2, ChunkBounds
    <2> QED BY <2>1, <2>2, <2>3, GrowKeeps
  <1>7. ASSUME NEW r \in Request, GrowForDecode(r) PROVE KVInv'
    <2>1. MayDecode(r) /\ UNCHANGED <<out, rehydrate>>
          /\ GrowTable(r, Missing(st[r], st[r].len + 1))
      BY <1>7 DEF GrowForDecode
    <2>2. st[r].prepared /\ Missing(st[r], st[r].len + 1) \in Nat
      BY <2>1, DecodeBounds
    <2> QED BY <2>1, <2>2, GrowKeeps
  <1>8. ASSUME NEW r \in Request, NEW x \in Token, FirstToken(r, x) PROVE KVInv'
    <2>1. CheckFinished(out'[r]) \in BOOLEAN
      BY DEF CheckFinished
    <2> QED BY <1>8, <2>1, CommitKeeps DEF FirstToken
  <1>9. ASSUME NEW r \in Request, NEW x \in Token, NextToken(r, x) PROVE KVInv'
    <2>1. CASE CheckFinished(out'[r])
      BY <1>9, <2>1, CommitKeeps DEF NextToken
    <2>2. CASE ~CheckFinished(out'[r])
      <3>1. rehydrate' \in [Request -> BOOLEAN]
        BY <1>0, <1>9 DEF NextToken, KVTypeOK
      <3> QED BY <1>9, <2>2, <3>1, OutputKeeps DEF NextToken
    <2> QED BY <2>1, <2>2
  <1>10. ASSUME NEW R \in SUBSET Request, PrefillForward(R) PROVE KVInv'
    <2>1. PICK chunk \in ChunkSizes :
            /\ \A r \in R : MayPrefill(r) /\ PrefillNeeded(r, st[r], chunk) = 0
            /\ Forward(R, [r \in R |-> PrefillFed(r, chunk)])
      BY <1>10 DEF PrefillForward
    <2> DEFINE fed == [r \in R |-> PrefillFed(r, chunk)]
    <2>2. ASSUME NEW r \in R
          PROVE  /\ fed[r] \in Seq(Token) /\ Len(fed[r]) = ChunkEnd(r, st[r], chunk)
                 /\ st[r].prepared
                 /\ st[r].len <= Len(fed[r]) /\ Len(fed[r]) <= Len(Ids(r))
                 /\ PagesNeeded(Len(fed[r])) <= Len(st[r].table)
      <3> DEFINE m == ChunkEnd(r, st[r], chunk)
                 ids == PrefillIds(r)
      <3>1. MayPrefill(r) /\ Prefilling(r) /\ st[r].prepared /\ chunk \in Nat
        BY <2>1, ChunkAssumption DEF MayPrefill
      <3>2. /\ m \in Nat /\ st[r].len <= m /\ m <= Len(ids) /\ Missing(st[r], m) = 0
        BY <2>1, <3>1, ChunkBounds
      <3>3. /\ ids \in Seq(Token) /\ Len(ids) \in Nat /\ Len(ids) <= Len(Ids(r))
            /\ Len(Ids(r)) \in Nat
        BY <1>0, <3>1, MatchPathType, PrefillIdsBound
      <3>4. fed[r] = SubSeq(ids, 1, m)
        BY DEF PrefillFed
      <3>5. SubSeq(ids, 1, m) \in Seq(Token) /\ Len(SubSeq(ids, 1, m)) = m
        <4> HIDE DEF ids, m
        <4> QED BY <3>2, <3>3
      <3>6. PagesNeeded(m) <= Len(st[r].table)
        <4>1. Missing(st[r], m) = 0 /\ m \in Nat
          BY <3>2
        <4> HIDE DEF fed, m, ids
        <4>2. PagesNeeded(m) \in Nat
          BY <4>1, PageCounts
        <4>3. st[r].table \in Seq(Page)
          BY <1>0, StateFacts
        <4>4. Len(st[r].table) \in Nat
          BY <4>3
        <4> QED BY <4>1, <4>2, <4>4 DEF Missing
      <3>7. m <= Len(Ids(r))
        BY <3>2, <3>3
      <3> HIDE DEF fed, m, ids
      <3> QED BY <3>1, <3>2, <3>4, <3>5, <3>6, <3>7 DEF m
    <2>3. fed \in [R -> Seq(Token)]
      BY <2>2
    <2>4. UNCHANGED <<out, rehydrate, cached>>
      BY <1>10 DEF PrefillForward
    <2>5. Forward(R, fed)
      BY <2>1
    <2> HIDE DEF fed
    <2> QED BY <2>2, <2>3, <2>4, <2>5, ForwardKeeps
  <1>11. ASSUME NEW R \in SUBSET Request, DecodeForward(R) PROVE KVInv'
    <2> DEFINE fed == [r \in R |-> DecodeFed(r)]
    <2>1. /\ \A r \in R : MayDecode(r) /\ Missing(st[r], st[r].len + 1) = 0
          /\ Forward(R, fed) /\ UNCHANGED <<out, rehydrate, cached>>
      BY <1>11 DEF DecodeForward
    <2>2. ASSUME NEW r \in R
          PROVE  /\ fed[r] \in Seq(Token)
                 /\ st[r].prepared
                 /\ st[r].len <= Len(fed[r]) /\ Len(fed[r]) <= Len(Ids(r))
                 /\ PagesNeeded(Len(fed[r])) <= Len(st[r].table)
      <3> DEFINE m == st[r].len
                 ids == Ids(r)
                 x == out[r][Len(out[r])]
      <3>1. /\ st[r].prepared /\ m \in Nat /\ m + 1 = Len(ids)
            /\ Missing(st[r], m + 1) = 0
            /\ ids \in Seq(Token) /\ out[r] \in Seq(Token) /\ out[r] # <<>>
        BY <2>1, DecodeBounds
      <3>2. x \in Token
        BY <3>1
      <3>3. fed[r] = Append(SubSeq(ids, 1, m), x)
        BY DEF DecodeFed
      <3>4. /\ Append(SubSeq(ids, 1, m), x) \in Seq(Token)
            /\ Len(Append(SubSeq(ids, 1, m), x)) = m + 1
        <4> HIDE DEF ids, m, x
        <4>1. SubSeq(ids, 1, m) \in Seq(Token) /\ Len(SubSeq(ids, 1, m)) = m
          BY <3>1
        <4> QED BY <3>2, <4>1
      <3>5. PagesNeeded(m + 1) <= Len(st[r].table)
        <4>1. m + 1 \in Nat
          BY <3>1
        <4>2. PagesNeeded(m + 1) \in Nat /\ Len(st[r].table) \in Nat
          <5> DEFINE w == m + 1
          <5>1. PagesNeeded(w) \in Nat
            <6> HIDE DEF w
            <6> QED BY <4>1, PageCounts DEF w
          <5> QED BY <1>0, <5>1, StateFacts
        <4> QED BY <3>1, <4>2 DEF Missing
      <3>6. m <= m + 1 /\ m + 1 <= Len(ids)
        BY <3>1
      <3> HIDE DEF fed
      <3> QED BY <3>1, <3>3, <3>4, <3>5, <3>6
    <2>3. fed \in [R -> Seq(Token)]
      BY <2>2
    <2> HIDE DEF fed
    <2> QED BY <2>1, <2>2, <2>3, ForwardKeeps
  <1>12. CASE UNCHANGED kvVars
    <2>1. out' = out /\ st' = st /\ cached' = cached /\ free' = free /\ kv' = kv
          /\ rehydrate' = rehydrate
      BY <1>12 DEF kvVars
    <2>2. KVTypeOK'
      BY <1>0, <2>1 DEF KVTypeOK, Cached
    <2>3. PagesInv'
      BY <2>1, SameTablesKeepPages DEF KVInv
    <2>4. StatesFit' /\ NodeOnPath'
      BY <2>1, UnchangedFits DEF StateFits, StatesFit, NodeOnPath
    <2> QED BY <2>2, <2>3, <2>4 DEF KVInv
  <1> QED BY <1>1, <1>2, <1>3, <1>4, <1>5, <1>6, <1>7, <1>8, <1>9, <1>10, <1>11, <1>12
          DEF KVNext

\* The inductive invariant holds in every reachable state, for any number of
\* requests and pages, any page size and chunk size, cache on or off.
THEOREM KVInvariant == KVSpec => []KVInv
  BY InitKeeps, NextKeeps, PTL DEF KVSpec

\* The paged states, the cache, the free list and the pages keep their types
\* through every operation, a failing allocate and a retraction included.
THEOREM TypeCorrect == KVSpec => []KVTypeOK
  <1>1. KVInv => KVTypeOK
    BY DEF KVInv
  <1> QED BY <1>1, KVInvariant, PTL

\* allocate, evict, commit, retract and release between them never lose a page,
\* never hand one out twice, never free one that is still in use.
THEOREM OnePlacePerPage == KVSpec => []PagesPartitioned
  <1>1. KVInv => PagesPartitioned
    BY DEF KVInv, PagesInv
  <1> QED BY <1>1, KVInvariant, PTL

\* Eviction and other requests' commits never pull a page from under a request
\* that borrowed it by inc_lock_ref.
THEOREM BorrowedAreCached == KVSpec => []BorrowedStayCached
  <1>1. KVInv => BorrowedStayCached
    BY DEF KVInv, PagesInv
  <1> QED BY <1>1, KVInvariant, PTL

\* What a request borrows is a prefix of its own tokens' path, also after
\* retraction and rehydration, so its commit never frees what it borrowed.
THEOREM BorrowedOnPath == KVSpec => []NodeOnPath
  <1>1. KVInv => NodeOnPath
    BY DEF KVInv
  <1> QED BY <1>1, KVInvariant, PTL

\* Every cached path can be reached from the root, whatever was evicted.
THEOREM CacheIsPrefixClosed == KVSpec => []PrefixClosed
  <1>1. KVInv => PrefixClosed
    BY DEF KVInv, PagesInv
  <1> QED BY <1>1, KVInvariant, PTL

-------------------------------------------------------------------------------
(* Attention always reads the right history (KVFaithful).  KVInv and          *)
(* KVFaithful are inductive together: KVInv says that no operation writes   *)
(* or erases a page that the cache or another request reads, so what has    *)
(* to be shown is what the pages an operation does touch hold after it.     *)

\* The parts of KVFaithful: each cached path maps to a page that holds it, and
\* a request finds its own tokens through its page table.
CacheReads == \A p \in Cached : kv[cached[p]] = p

Reads(r) ==
    \A i \in 1 .. PagesNeeded(st[r].len) :
        kv[st[r].table[i]] = Upto(Blocks(SubSeq(Ids(r), 1, st[r].len)), i)

AllRead == CacheReads /\ \A r \in Request : Reads(r)

HistoryInv == KVInv /\ AllRead

-------------------------------------------------------------------------------
(* Pages of tokens. *)

\* The full pages of a token sequence are the first ones of its blocks.
LEMMA BlocksOfPath ==
    ASSUME NEW T, NEW s \in Seq(T), NEW i \in 0 .. FullPages(Len(s))
    PROVE  Upto(PathOf(s), i) = Upto(Blocks(s), i)
  <1> DEFINE n == Len(s)
             b == Blocks(s)
             f == FullPages(n)
  <1>1. n \in Nat
    OBVIOUS
  <1>2. b \in Seq(Seq(T)) /\ Len(b) = PagesNeeded(n) /\ PathOf(s) = Upto(b, f)
    BY PathBlocks DEF PathOf
  <1> HIDE DEF n, b
  <1>3. f \in Nat /\ PagesNeeded(n) \in Nat /\ f <= PagesNeeded(n)
    BY <1>1, PageCounts
  <1> HIDE DEF f
  <1>4. f \in 0 .. Len(b)
    BY <1>2, <1>3
  <1>5. \A j \in 0 .. f : Upto(Upto(b, f), j) = Upto(b, j)
    BY <1>2, <1>4, PrefixLengths
  <1> QED BY <1>2, <1>5 DEF n, b, f

\* A full page of some tokens stays the same page when more tokens follow.
LEMMA BlocksOfPrefix ==
    ASSUME NEW T, NEW s \in Seq(T), NEW m \in 0 .. Len(s), NEW n \in 0 .. m,
           NEW i \in 0 .. FullPages(n)
    PROVE  Upto(Blocks(SubSeq(s, 1, n)), i) = Upto(Blocks(SubSeq(s, 1, m)), i)
  <1> DEFINE u == SubSeq(s, 1, m)
             v == SubSeq(s, 1, n)
  <1>1. u \in Seq(T) /\ v \in Seq(T) /\ Len(u) = m /\ Len(v) = n
    OBVIOUS
  <1>2. Covers(PathOf(u), PathOf(v))
    BY PathMonotone
  <1> HIDE DEF u, v
  <1>3. /\ PathOf(u) \in Seq(Seq(T)) /\ Len(PathOf(u)) = FullPages(m)
        /\ Len(PathOf(v)) = FullPages(n) /\ FullPages(n) \in Nat /\ FullPages(m) \in Nat
    <2>1. m \in Nat /\ n \in Nat
      BY <1>1
    <2> QED BY <1>1, <2>1, PathBlocks, PageCounts
  <1>4. PathOf(v) = Upto(PathOf(u), FullPages(n)) /\ FullPages(n) <= FullPages(m)
    BY <1>2, <1>3 DEF Covers
  <1>5. Upto(PathOf(v), i) = Upto(PathOf(u), i)
    BY <1>3, <1>4, PrefixLengths
  <1>6. i \in 0 .. FullPages(m)
    BY <1>3, <1>4
  <1>7. Upto(PathOf(u), i) = Upto(Blocks(u), i) /\ Upto(PathOf(v), i) = Upto(Blocks(v), i)
    BY <1>1, <1>6, BlocksOfPath
  <1> QED BY <1>5, <1>7 DEF u, v

-------------------------------------------------------------------------------
(* Which pages are read. *)

\* A page in a table is borrowed from the cache or the request's own.
LEMMA TablePage ==
    ASSUME KVInv, NEW r \in Request, NEW i \in 1 .. Len(st[r].table)
    PROVE  /\ st[r].table[i] \in Page
           /\ i <= Len(st[r].node) => /\ Upto(st[r].node, i) \in Cached
                                      /\ st[r].table[i] = cached[Upto(st[r].node, i)]
                                      /\ st[r].table[i] \in PagesAt(Cached)
           /\ i > Len(st[r].node) => st[r].table[i] \in Own(st[r])
  <1>1. KVTypeOK /\ StatesFit /\ BorrowedStayCached
    BY DEF KVInv, PagesInv
  <1>2. /\ st[r].table \in Seq(Page) /\ Len(st[r].node) \in Nat
        /\ Len(st[r].table) \in Nat
    BY <1>1, StateFacts
  <1>3. CASE i <= Len(st[r].node)
    <2>1. i \in 1 .. Len(st[r].node)
      BY <1>2, <1>3
    <2> QED BY <1>1, <1>2, <1>3, <2>1 DEF BorrowedStayCached, PagesAt
  <1>4. CASE i > Len(st[r].node)
    <2>1. i \in Len(st[r].node) + 1 .. Len(st[r].table)
      BY <1>2, <1>4
    <2> QED BY <1>2, <1>4, <2>1 DEF Own
  <1> QED BY <1>2, <1>3, <1>4

\* What a request reads is in its table.
LEMMA ReadInTable ==
    ASSUME KVInv, NEW r \in Request, NEW i \in 1 .. PagesNeeded(st[r].len)
    PROVE  i \in 1 .. Len(st[r].table)
  <1>1. /\ st[r].len \in Nat /\ Len(st[r].table) \in Nat
        /\ PagesNeeded(st[r].len) <= Len(st[r].table)
    BY StateFacts DEF KVInv, StatesFit
  <1>2. PagesNeeded(st[r].len) \in Nat
    BY <1>1, PageCounts
  <1> QED BY <1>1, <1>2

\* A request goes on reading what it read if its tokens, its pages and what
\* they hold stay as they were.
LEMMA ReadsStay ==
    ASSUME KVInv, NEW r \in Request, Reads(r),
           Ids(r)' = Ids(r) \/ \E x \in Token : Ids(r)' = Append(Ids(r), x),
           st'[r].len = st[r].len,
           \A i \in 1 .. PagesNeeded(st[r].len) :
               /\ st'[r].table[i] = st[r].table[i]
               /\ kv'[st[r].table[i]] = kv[st[r].table[i]]
    PROVE  Reads(r)'
  <1> DEFINE ids == Ids(r)
             n == st[r].len
  <1>1. ids \in Seq(Token) /\ n \in Nat /\ n <= Len(ids)
    BY PathTypes, StateFacts DEF KVInv, StatesFit
  <1>2. SubSeq(Ids(r)', 1, n) = SubSeq(ids, 1, n)
    <2>1. CASE Ids(r)' = Ids(r)
      BY <2>1
    <2>2. CASE \E x \in Token : Ids(r)' = Append(Ids(r), x)
      <3>1. PICK x \in Token : Ids(r)' = Append(ids, x)
        BY <2>2
      <3>2. SubSeq(Append(ids, x), 1, n) = SubSeq(ids, 1, n)
        <4> HIDE DEF ids, n
        <4> QED BY <1>1
      <3> QED BY <3>1, <3>2
    <2> QED BY <2>1, <2>2
  <1> QED BY <1>2 DEF Reads

\* A page a request holds beyond what it borrowed is its own: neither the cache
\* nor another request has it in a table.
LEMMA OwnIsPrivate ==
    ASSUME KVInv, NEW r \in Request, NEW g \in Own(st[r])
    PROVE  /\ \A p \in Cached : cached[p] # g
           /\ \A q \in Request \ {r} : \A i \in 1 .. Len(st[q].table) : st[q].table[i] # g
  <1>1. PagesPartitioned
    BY DEF KVInv, PagesInv
  <1>2. /\ g \notin PagesAt(Cached)
        /\ \A q \in Request \ {r} : g \notin Own(st[q])
    BY <1>1 DEF PagesPartitioned
  <1>3. ASSUME NEW q \in Request \ {r}, NEW i \in 1 .. Len(st[q].table)
        PROVE  st[q].table[i] # g
    <2>1. Len(st[q].node) \in Nat
      BY StateFacts DEF KVInv
    <2>2. i <= Len(st[q].node) \/ i > Len(st[q].node)
      BY <2>1
    <2> QED BY <1>2, <2>2, TablePage
  <1> QED BY <1>2, <1>3 DEF PagesAt

\* A request whose tokens and state stay reads on, whatever is erased beside
\* the pages it reads.
LEMMA ErasedElsewhere ==
    ASSUME KVInv, NEW r \in Request, Reads(r),
           Ids(r)' = Ids(r) \/ \E x \in Token : Ids(r)' = Append(Ids(r), x),
           st'[r].len = st[r].len,
           \A i \in 1 .. Len(st[r].table) : st'[r].table[i] = st[r].table[i],
           NEW G, kv' = Erased(G),
           \A i \in 1 .. Len(st[r].table) : st[r].table[i] \notin G
    PROVE  Reads(r)'
  <1>1. ASSUME NEW i \in 1 .. PagesNeeded(st[r].len)
        PROVE  /\ st'[r].table[i] = st[r].table[i]
               /\ kv'[st[r].table[i]] = kv[st[r].table[i]]
    <2>1. i \in 1 .. Len(st[r].table)
      BY ReadInTable
    <2>2. st[r].table[i] \in Page
      BY <2>1, TablePage
    <2> QED BY <2>1, <2>2 DEF Erased
  <1> QED BY <1>1, ReadsStay

-------------------------------------------------------------------------------
(* Every operation leaves the right history behind. *)

\* A request without a paged state reads nothing.
LEMMA NothingRead ==
    ASSUME NEW r \in Request, st'[r] = NoState
    PROVE  Reads(r)'
  BY NoPages DEF Reads, NoState

\* What evict drops is neither in the cache afterwards nor in any page table.
LEMMA EvictedUnread ==
    ASSUME KVInv, NEW n \in Int, NEW E \in EvictSets(n), cached' = WithoutPaths(E)
    PROVE  /\ \A p \in Cached' : /\ p \in Cached /\ cached'[p] = cached[p]
                                 /\ cached[p] \notin PagesAt(E)
           /\ \A r \in Request : \A i \in 1 .. Len(st[r].table) :
                st[r].table[i] \notin PagesAt(E)
  <1>1. /\ E \subseteq Cached /\ Cached' = Cached \ E
        /\ \A p \in Cached' : cached'[p] = cached[p]
        /\ \A r \in Request : \A i \in 1 .. Len(st[r].node) : Upto(st[r].node, i) \in Cached'
    BY EvictedUnlocked, EvictionKeeps
  <1>2. \A p, q \in Cached : cached[p] = cached[q] => p = q
    BY DEF KVInv, PagesInv, PagesPartitioned
  <1>3. \A p \in Cached' : /\ p \in Cached /\ cached'[p] = cached[p]
                           /\ cached[p] \notin PagesAt(E)
    BY <1>1, <1>2 DEF PagesAt
  <1>4. ASSUME NEW r \in Request, NEW i \in 1 .. Len(st[r].table)
        PROVE  st[r].table[i] \notin PagesAt(E)
    <2>1. Len(st[r].node) \in Nat
      BY StateFacts DEF KVInv
    <2>2. CASE i <= Len(st[r].node)
      <3>1. i \in 1 .. Len(st[r].node)
        BY <2>1, <2>2
      <3> QED BY <1>1, <1>3, <2>2, <3>1, TablePage
    <2>3. CASE i > Len(st[r].node)
      BY <1>1, <2>3, TablePage, OwnIsPrivate DEF PagesAt
    <2> QED BY <2>1, <2>2, <2>3
  <1> QED BY <1>3, <1>4

\* The cache reads on when no page it keeps is erased.
LEMMA CacheReadsOn ==
    ASSUME KVInv, CacheReads, NEW G, kv' = Erased(G),
           \A p \in Cached' : /\ p \in Cached /\ cached'[p] = cached[p]
                              /\ cached[p] \notin G
    PROVE  CacheReads'
  <1>1. \A p \in Cached : cached[p] \in Page
    BY DEF KVInv, KVTypeOK
  <1> QED BY <1>1 DEF CacheReads, Erased

\* page_table.extend(pool.allocate(n)): the new pages are behind what is read.
LEMMA GrowReads ==
    ASSUME HistoryInv, NEW r \in Request, NEW n \in Nat,
           GrowTable(r, n), UNCHANGED <<out, rehydrate>>
    PROVE  AllRead'
  <1>0. KVInv /\ KVTypeOK /\ StatesFit /\ CacheReads /\ \A q \in Request : Reads(q)
    BY DEF HistoryInv, KVInv, AllRead
  <1>1. PICK E \in EvictSets(n - Cardinality(free)) :
          /\ ExtendTable(r, n, free \cup PagesAt(E))
          /\ cached' = WithoutPaths(E)
          /\ kv' = Erased(PagesAt(E))
    BY DEF GrowTable
  <1>2. n - Cardinality(free) \in Int
    BY <1>0, FS_CardinalityType, FS_Subset, PageAssumption DEF KVTypeOK
  <1>3. /\ \A p \in Cached' : /\ p \in Cached /\ cached'[p] = cached[p]
                              /\ cached[p] \notin PagesAt(E)
        /\ \A q \in Request : \A i \in 1 .. Len(st[q].table) : st[q].table[i] \notin PagesAt(E)
    BY <1>0, <1>1, <1>2, EvictedUnread
  <1>4. CacheReads'
    BY <1>0, <1>1, <1>3, CacheReadsOn
  <1> DEFINE pool == free \cup PagesAt(E)
             t == st[r].table
  <1>5. PICK new \in [1 .. n -> pool] : st' = [st EXCEPT ![r].table = @ \o new]
    BY <1>1 DEF ExtendTable
  <1>6. \A i \in 1 .. Len(t) : (t \o new)[i] = t[i]
    <2>1. E \subseteq Cached
      BY <1>2, EvictedUnlocked
    <2>2. pool \subseteq Page /\ t \in Seq(Page)
      BY <1>0, <2>1, StateFacts DEF KVTypeOK, PagesAt
    <2>3. new \in [1 .. n -> Page]
      BY <2>2
    <2> HIDE DEF t
    <2> QED BY <2>2, <2>3, TableGrown
  <1>7. ASSUME NEW q \in Request
        PROVE  /\ st'[q].len = st[q].len
               /\ \A i \in 1 .. Len(st[q].table) : st'[q].table[i] = st[q].table[i]
    <2>1. CASE q = r
      <3>1. st'[r] = [st[r] EXCEPT !.table = t \o new] /\ st[r] \in StateType
        BY <1>0, <1>5 DEF KVTypeOK
      <3>2. st'[r].len = st[r].len /\ st'[r].table = t \o new
        BY <3>1 DEF StateType
      <3> QED BY <1>6, <2>1, <3>2
    <2>2. CASE q # r
      BY <1>0, <1>5, <2>2 DEF KVTypeOK
    <2> QED BY <2>1, <2>2
  <1>8. \A q \in Request : Ids(q)' = Ids(q)
    BY DEF Ids
  <1>9. \A q \in Request : Reads(q)'
    BY <1>0, <1>1, <1>3, <1>7, <1>8, ErasedElsewhere
  <1> QED BY <1>4, <1>9 DEF AllRead

\* allocate raising "KV pool exhausted" has dropped only what nobody reads.
LEMMA ExhaustedReads ==
    ASSUME HistoryInv, NEW n, Exhausted(n), UNCHANGED <<out, rehydrate>>
    PROVE  AllRead'
  <1>0. KVInv /\ KVTypeOK /\ CacheReads /\ \A q \in Request : Reads(q)
    BY DEF HistoryInv, KVInv, AllRead
  <1> DEFINE E == Unlocked(st)
  <1>1. E \in EvictSets(1) /\ cached' = WithoutPaths(E) /\ st' = st /\ kv' = Erased(PagesAt(E))
    BY <1>0, UnlockedIsEvictSet DEF Exhausted
  <1> HIDE DEF E
  <1>2. /\ \A p \in Cached' : /\ p \in Cached /\ cached'[p] = cached[p]
                              /\ cached[p] \notin PagesAt(E)
        /\ \A q \in Request : \A i \in 1 .. Len(st[q].table) : st[q].table[i] \notin PagesAt(E)
    BY <1>0, <1>1, EvictedUnread
  <1>3. CacheReads'
    BY <1>0, <1>1, <1>2, CacheReadsOn
  <1>4. \A q \in Request : Ids(q)' = Ids(q)
    BY DEF Ids
  <1>5. \A q \in Request : Reads(q)'
    BY <1>0, <1>1, <1>2, <1>4, ErasedElsewhere
  <1> QED BY <1>3, <1>5 DEF AllRead

\* retract_paged_state frees pages nobody else reads.
LEMMA RetractReads ==
    ASSUME HistoryInv, NEW r \in Request, RetractPagedState(r), out' = out
    PROVE  AllRead'
  <1>0. KVInv /\ KVTypeOK /\ CacheReads /\ \A q \in Request : Reads(q)
    BY DEF HistoryInv, KVInv, AllRead
  <1>1. /\ st'[r] = NoState /\ \A q \in Request \ {r} : st'[q] = st[q]
        /\ cached' = cached /\ Cached' = Cached /\ kv' = Erased(Own(st[r]))
    BY <1>0 DEF RetractPagedState, KVTypeOK, Cached
  <1>2. /\ \A p \in Cached : cached[p] \notin Own(st[r])
        /\ \A q \in Request \ {r} :
             \A i \in 1 .. Len(st[q].table) : st[q].table[i] \notin Own(st[r])
    BY <1>0, OwnIsPrivate
  <1>3. CacheReads'
    BY <1>0, <1>1, <1>2, CacheReadsOn
  <1>4. \A q \in Request : Ids(q)' = Ids(q)
    BY DEF Ids
  <1>5. \A q \in Request \ {r} : Reads(q)'
    BY <1>0, <1>1, <1>2, <1>4, ErasedElsewhere
  <1>6. Reads(r)'
    BY <1>1, NothingRead
  <1> QED BY <1>3, <1>5, <1>6 DEF AllRead

\* Neither tables nor pages change; a request may get a token, or lose its state.
LEMMA OutputReads ==
    ASSUME HistoryInv, UNCHANGED <<cached, kv>>,
           \A q \in Request : st'[q] = st[q] \/ st'[q] = NoState,
           \A q \in Request : Ids(q)' = Ids(q) \/ \E x \in Token : Ids(q)' = Append(Ids(q), x)
    PROVE  AllRead'
  <1>0. KVInv /\ CacheReads /\ \A q \in Request : Reads(q)
    BY DEF HistoryInv, AllRead
  <1>1. CacheReads'
    BY <1>0 DEF CacheReads, Cached
  <1>2. ASSUME NEW q \in Request
        PROVE  Reads(q)'
    <2>1. CASE st'[q] = st[q]
      BY <1>0, <2>1, ReadsStay
    <2>2. CASE st'[q] = NoState
      BY <2>2, NothingRead
    <2> QED BY <2>1, <2>2
  <1> QED BY <1>1, <1>2 DEF AllRead

\* The pages prepare attaches hold the tokens of the request that attaches them.
LEMMA PrepareReads ==
    ASSUME HistoryInv, NEW r \in Request, Prefilling(r),
           PreparePagedPrefill(r), UNCHANGED <<out, rehydrate>>
    PROVE  AllRead'
  <1>0. KVInv /\ KVTypeOK /\ CacheReads /\ \A q \in Request : Reads(q)
    BY DEF HistoryInv, KVInv, AllRead
  <1>1. PICK s \in PreparedStates(r) : st' = [st EXCEPT ![r] = s]
    BY DEF PreparePagedPrefill
  <1>2. /\ st'[r] = s /\ \A q \in Request \ {r} : st'[q] = st[q]
        /\ kv' = kv /\ cached' = cached /\ Cached' = Cached
    BY <1>0, <1>1 DEF KVTypeOK, PreparePagedPrefill, Cached
  <1>3. \A q \in Request : Ids(q)' = Ids(q)
    BY DEF Ids
  <1>4. CacheReads'
    BY <1>0, <1>2 DEF CacheReads
  <1>5. \A q \in Request \ {r} : Reads(q)'
    BY <1>0, <1>2, <1>3, ReadsStay
  <1>6. CASE st[r].prepared
    <2>1. st'[r] = st[r]
      BY <1>2, <1>6 DEF PreparedStates
    <2>2. Reads(r)'
      BY <1>0, <1>2, <1>3, <2>1, ReadsStay
    <2> QED BY <1>4, <1>5, <2>2 DEF AllRead
  <1>7. CASE ~st[r].prepared
    <2> DEFINE p == MatchPath(r)
               c == CommitPath(r)'
               m == st'[r].len
               b == Blocks(SubSeq(Ids(r)', 1, m))
    <2>1. PICK k \in 0 .. Len(p) :
            /\ LongestHit(p, k)
            /\ s = [table |-> [i \in 1 .. k |-> cached[Upto(p, i)]], len |-> k * PageSize,
                    node |-> Upto(p, k), prepared |-> TRUE]
      BY <1>7 DEF PreparedStates
    <2>2. p \in Path /\ Len(p) \in Nat /\ k \in Nat
      BY <1>0, MatchPathType DEF Path
    <2>3. m = k * PageSize /\ FullPages(m) = k /\ PagesNeeded(m) = k /\ m \in Nat
      <3>1. k * PageSize \in Nat /\ FullPages(k * PageSize) = k /\ PagesNeeded(k * PageSize) = k
        BY <2>2, WholePages, PageSizeAssumption
      <3> QED BY <1>2, <2>1, <3>1
    <2>4. Covers(c, Upto(p, k)) /\ m <= Len(Ids(r)')
      <3>1. StateFits(r, st[r])'
        BY <1>0, <1>2, PreparedFits
      <3> QED BY <1>2, <2>1, <3>1 DEF StateFits
    <2>5. SubSeq(Ids(r)', 1, m) \in Seq(Token) /\ Len(SubSeq(Ids(r)', 1, m)) = m
      <3> DEFINE ids == Ids(r)'
      <3>1. ids \in Seq(Token)
        BY <1>0, <1>3, PathTypes DEF KVInv
      <3> HIDE DEF ids, m
      <3> QED BY <2>3, <2>4, <3>1 DEF ids
    <2>6. ASSUME NEW i \in 1 .. k
          PROVE  Upto(p, i) = Upto(b, i)
      <3>1. CacheOn
        <4> SUFFICES ASSUME ~CacheOn PROVE FALSE
          OBVIOUS
        <4>1. p = <<>>
          BY <1>0, MatchPathType
        <4> HIDE DEF p
        <4>2. k = 0
          BY <4>1
        <4> QED BY <4>2
      <3>2. c = PathOf(SubSeq(Ids(r)', 1, m))
        BY <3>1 DEF CommitPath
      <3>3. c \in Path /\ Len(c) = k
        <4> HIDE DEF c, m
        <4> QED BY <2>3, <2>5, <3>2, PathBlocks DEF Path
      <3>4. Upto(c, k) = Upto(p, k) /\ Len(Upto(p, k)) = k
        <4> HIDE DEF p, c, m
        <4>1. Len(Upto(p, k)) = k
          BY <2>2, PrefixLengths DEF Path
        <4> QED BY <2>4, <4>1 DEF Covers
      <3>5. Upto(p, i) = Upto(c, i)
        <4> HIDE DEF p, c
        <4>1. i \in 0 .. k /\ k \in 0 .. Len(c)
          BY <2>2, <3>3
        <4>2. Upto(Upto(p, k), i) = Upto(p, i) /\ Upto(Upto(c, k), i) = Upto(c, i)
          BY <2>2, <3>3, <4>1, PrefixLengths DEF Path
        <4> QED BY <3>4, <4>2
      <3>6. Upto(c, i) = Upto(b, i)
        <4> DEFINE u == SubSeq(Ids(r)', 1, m)
        <4>1. u \in Seq(Token) /\ i \in 0 .. FullPages(Len(u))
          BY <2>3, <2>5
        <4>2. Upto(PathOf(u), i) = Upto(Blocks(u), i)
          <5> HIDE DEF u
          <5> QED BY <4>1, BlocksOfPath
        <4> QED BY <3>2, <4>2
      <3> QED BY <3>5, <3>6
    <2>7. ASSUME NEW i \in 1 .. k
          PROVE  kv'[st'[r].table[i]] = Upto(b, i)
      <3>1. Upto(p, i) \in Cached
        BY <2>1 DEF LongestHit
      <3>2. st'[r].table[i] = cached[Upto(p, i)]
        BY <1>2, <2>1
      <3>3. kv[cached[Upto(p, i)]] = Upto(p, i)
        BY <1>0, <3>1 DEF CacheReads
      <3> QED BY <1>2, <2>6, <3>2, <3>3
    <2>8. Reads(r)'
      BY <2>3, <2>7 DEF Reads
    <2> QED BY <1>4, <1>5, <2>8 DEF AllRead
  <1> QED BY <1>6, <1>7

\* A sampled token comes behind the tokens of its request only.
LEMMA SampledToken ==
    ASSUME KVTypeOK, NEW r \in Request, NEW x \in Token, out' = [out EXCEPT ![r] = Append(@, x)]
    PROVE  /\ Ids(r)' = Append(Ids(r), x)
           /\ \A q \in Request \ {r} : Ids(q)' = Ids(q)
  <1> DEFINE a == Prompt[r]
             b == out[r]
  <1>1. a \in Seq(Token) /\ b \in Seq(Token)
    BY PromptAssumption DEF KVTypeOK
  <1>2. Ids(r)' = a \o Append(b, x) /\ Ids(r) = a \o b
    BY DEF KVTypeOK, Ids
  <1>3. a \o Append(b, x) = Append(a \o b, x)
    <2> HIDE DEF a, b
    <2> QED BY <1>1, ConcatAppend
  <1>4. \A q \in Request \ {r} : Ids(q)' = Ids(q)
    BY DEF KVTypeOK, Ids
  <1>5. Ids(r)' = Append(Ids(r), x)
    BY <1>2, <1>3, Zenon
  <1> QED BY <1>4, <1>5

\* The pages of the path r commits hold that path, as far as r reads them.
LEMMA CommittedPages ==
    ASSUME KVInv, NEW r \in Request, Reads(r), NEW i \in 1 .. Len(CommitPath(r))
    PROVE  /\ i \in 1 .. PagesNeeded(st[r].len)
           /\ Upto(CommitPath(r), i) = Upto(Blocks(SubSeq(Ids(r), 1, st[r].len)), i)
           /\ kv[st[r].table[i]] = Upto(CommitPath(r), i)
  <1> DEFINE m == st[r].len
             u == SubSeq(Ids(r), 1, m)
  <1>1. /\ Ids(r) \in Seq(Token) /\ m \in Nat /\ m <= Len(Ids(r))
        /\ CacheOn => Len(CommitPath(r)) = FullPages(m)
        /\ ~CacheOn => CommitPath(r) = <<>>
    BY PathTypes, StateFacts DEF KVInv, StatesFit
  <1>2. CacheOn
    BY <1>1
  <1>3. u \in Seq(Token) /\ Len(u) = m
    <2> HIDE DEF m
    <2> QED BY <1>1
  <1>4. CommitPath(r) = PathOf(u)
    BY <1>2 DEF CommitPath
  <1>5. i \in 1 .. FullPages(m) /\ i \in 1 .. PagesNeeded(m)
    <2>1. FullPages(m) \in Nat /\ PagesNeeded(m) \in Nat /\ FullPages(m) <= PagesNeeded(m)
      BY <1>1, PageCounts
    <2> QED BY <1>1, <1>2, <2>1
  <1>6. Upto(CommitPath(r), i) = Upto(Blocks(u), i)
    <2> HIDE DEF u, m
    <2>1. i \in 0 .. FullPages(Len(u))
      BY <1>3, <1>5
    <2> QED BY <1>3, <1>4, <2>1, BlocksOfPath
  <1> QED BY <1>5, <1>6 DEF Reads

\* A commit puts pages in the cache under what they hold, and frees duplicates
\* and leftovers that nobody reads any more.
LEMMA CommitReads ==
    ASSUME HistoryInv, NEW r \in Request, NEW x \in Token, NEW finished \in BOOLEAN,
           out' = [out EXCEPT ![r] = Append(@, x)], CommitPagedCache(r, finished)
    PROVE  AllRead'
  <1>0. KVInv /\ KVTypeOK /\ StatesFit /\ CacheReads /\ \A q \in Request : Reads(q)
    BY DEF HistoryInv, KVInv, AllRead
  <1> DEFINE s == st[r]
             t == s.table
             p == CommitPath(r)
             l == Len(t)
             n == Len(s.node)
             c == Len(p)
  <1>1. PICK k \in 0 .. c :
          /\ LongestHit(p, k)
          /\ cached' = [q \in Cached \cup {Upto(p, i) : i \in k + 1 .. c} |->
                          IF q \in Cached THEN cached[q] ELSE t[Len(q)]]
          /\ kv' = Erased({t[i] : i \in (n + 1 .. k) \cup
                                  (IF finished THEN c + 1 .. l ELSE {})})
          /\ st' = [st EXCEPT ![r] =
                      IF finished THEN NoState
                      ELSE [s EXCEPT !.table = [i \in 1 .. l |->
                                                  IF i <= k THEN cached[Upto(p, i)]
                                                            ELSE t[i]],
                                     !.node = p,
                                     !.prepared = TRUE]]
    BY DEF CommitPagedCache
  <1> DEFINE F == (n + 1 .. k) \cup (IF finished THEN c + 1 .. l ELSE {})
             G == {t[i] : i \in F}
  <1>2. /\ n \in 0 .. k /\ c \in k .. l /\ k \in Nat /\ l \in Nat
        /\ t \in Seq(Page) /\ Own(s) = {t[i] : i \in n + 1 .. l}
        /\ \A i \in 1 .. k : Upto(p, i) \in Cached
        /\ \A i \in k + 1 .. c : Upto(p, i) \notin Cached /\ Len(Upto(p, i)) = i
    BY <1>0, <1>1, CommitBounds, StateFacts DEF Own
  <1>3. \A i, j \in n + 1 .. l : t[i] = t[j] => i = j
    BY OwnFacts DEF HistoryInv, KVInv, PagesInv, OwnDistinct, Distinct
  <1>4. F \subseteq n + 1 .. l /\ G \subseteq Own(s)
    BY <1>2
  <1>5. /\ \A q \in Request \ {r} : st'[q] = st[q]
        /\ finished => st'[r] = NoState
        /\ ~finished =>
             /\ st'[r].len = s.len
             /\ st'[r].table = [i \in 1 .. l |-> IF i <= k THEN cached[Upto(p, i)] ELSE t[i]]
    BY <1>0, <1>1 DEF KVTypeOK, StateType
  <1>6. kv' = Erased(G)
    BY <1>1
  <1>7. /\ Cached' = Cached \cup {Upto(p, i) : i \in k + 1 .. c}
        /\ \A q \in Cached : cached'[q] = cached[q]
        /\ \A i \in k + 1 .. c : cached'[Upto(p, i)] = t[i]
    <2>1. \A i \in k + 1 .. c : cached'[Upto(p, i)] = t[Len(Upto(p, i))]
      BY <1>1, <1>2
    <2>2. \A i \in k + 1 .. c : Len(Upto(p, i)) = i
      BY <1>2
    <2> QED BY <1>1, <2>1, <2>2 DEF Cached
  <1>8. \A q \in Cached : cached[q] \in Page /\ cached[q] \notin G
    BY <1>0, <1>4, OwnIsPrivate DEF KVTypeOK
  <1> HIDE DEF s, t, p, l, n, c, F, G
  <1>9. ASSUME NEW i \in n + 1 .. l, i \notin F
        PROVE  t[i] \in Page /\ t[i] \notin G
    <2>1. i \in 1 .. l /\ i \in 1 .. Len(t)
      BY <1>2 DEF l
    <2>2. t[i] \in Page
      BY <1>2, <2>1
    <2>3. t[i] \notin G
      BY <1>3, <1>4, <1>9 DEF G
    <2> QED BY <2>2, <2>3
  <1>10. \A g \in Page : g \notin G => kv'[g] = kv[g]
    BY <1>6 DEF Erased
  <1>11. CacheReads'
    <2> SUFFICES ASSUME NEW q \in Cached' PROVE kv'[cached'[q]] = q
      BY DEF CacheReads
    <2>1. CASE q \in Cached
      BY <1>0, <1>7, <1>8, <1>10, <2>1 DEF CacheReads
    <2>2. CASE q \notin Cached
      <3>1. PICK i \in k + 1 .. c : q = Upto(p, i)
        BY <1>7, <2>2
      <3>2. i \in n + 1 .. l /\ i \in 1 .. c /\ i \notin F
        BY <1>2 DEF F
      <3>3. kv[t[i]] = Upto(p, i)
        BY <1>0, <3>2, CommittedPages DEF t, s, p, c
      <3> QED BY <1>7, <1>9, <1>10, <3>1, <3>2, <3>3
    <2> QED BY <2>1, <2>2
  <1>12. ASSUME NEW q \in Request \ {r}
         PROVE  Reads(q)'
    <2>1. Ids(q)' = Ids(q)
      BY <1>0, SampledToken
    <2>2. \A i \in 1 .. Len(st[q].table) : st[q].table[i] \notin G
      BY <1>0, <1>4, OwnIsPrivate DEF s
    <2> QED BY <1>0, <1>5, <1>6, <2>1, <2>2, ErasedElsewhere
  <1>13. Reads(r)'
    <2>1. CASE finished
      BY <1>5, <2>1, NothingRead
    <2>2. CASE ~finished
      <3> DEFINE m == s.len
                 b == Blocks(SubSeq(Ids(r), 1, m))
      <3>1. /\ st'[r].len = m
            /\ st'[r].table = [i \in 1 .. l |-> IF i <= k THEN cached[Upto(p, i)] ELSE t[i]]
        BY <1>5, <2>2
      <3>2. SubSeq(Ids(r)', 1, m) = SubSeq(Ids(r), 1, m)
        <4> DEFINE ids == Ids(r)
        <4>1. ids \in Seq(Token) /\ m \in Nat /\ m <= Len(ids) /\ Ids(r)' = Append(ids, x)
          BY <1>0, SampledToken, PathTypes, StateFacts DEF StatesFit, s
        <4>2. SubSeq(Append(ids, x), 1, m) = SubSeq(ids, 1, m)
          <5> HIDE DEF ids, m
          <5> QED BY <4>1
        <4> QED BY <4>1, <4>2
      <3>3. ASSUME NEW i \in 1 .. PagesNeeded(m)
            PROVE  kv'[st'[r].table[i]] = Upto(b, i)
        <4>1. i \in 1 .. l
          BY <1>0, ReadInTable DEF s, t, l
        <4>2. CASE i <= k
          <5>1. i \in 1 .. k /\ i \in 1 .. c
            BY <1>2, <4>1, <4>2
          <5>2. Upto(p, i) \in Cached /\ st'[r].table[i] = cached[Upto(p, i)]
            BY <1>2, <3>1, <4>1, <4>2, <5>1
          <5>3. kv'[cached[Upto(p, i)]] = Upto(p, i)
            BY <1>0, <1>8, <1>10, <5>2 DEF CacheReads
          <5>4. Upto(p, i) = Upto(b, i)
            BY <1>0, <5>1, CommittedPages DEF p, s, c
          <5> QED BY <5>2, <5>3, <5>4
        <4>3. CASE i > k
          <5>1. i \in n + 1 .. l /\ i \notin F
            BY <1>2, <2>2, <4>1, <4>3 DEF F
          <5>2. st'[r].table[i] = t[i]
            BY <1>2, <3>1, <4>1, <4>3
          <5>3. kv[t[i]] = Upto(b, i)
            BY <1>0 DEF Reads, s, t
          <5> QED BY <1>9, <1>10, <5>1, <5>2, <5>3
        <4> QED BY <1>2, <4>1, <4>2, <4>3
      <3> HIDE DEF m
      <3> QED BY <3>1, <3>2, <3>3 DEF Reads
    <2> QED BY <2>1, <2>2
  <1> QED BY <1>11, <1>12, <1>13 DEF AllRead

\* A forward writes only pages of the batch that nobody else reads, and leaves
\* in them the tokens that were fed: the request's own, up to the new length.
LEMMA ForwardReads ==
    ASSUME HistoryInv, NEW R \in SUBSET Request, NEW fed \in [R -> Seq(Token)],
           \A r \in R : /\ st[r].len <= Len(fed[r]) /\ Len(fed[r]) <= Len(Ids(r))
                        /\ PagesNeeded(Len(fed[r])) <= Len(st[r].table)
                        /\ fed[r] = SubSeq(Ids(r), 1, Len(fed[r])),
           Forward(R, fed), UNCHANGED <<out, rehydrate, cached>>
    PROVE  AllRead'
  <1>0. KVInv /\ KVTypeOK /\ StatesFit /\ CacheReads /\ \A q \in Request : Reads(q)
    BY DEF HistoryInv, KVInv, AllRead
  <1> DEFINE writes(r, g) == {i \in 1 .. PagesNeeded(Len(fed[r])) :
                                 i * PageSize > st[r].len /\ st[r].table[i] = g}
             writer(g) == CHOOSE r \in R : writes(r, g) # {}
             place(r, g) == CHOOSE i \in writes(r, g) : TRUE
  <1>1. kv' = [g \in Page |-> IF \E r \in R : writes(r, g) # {}
                              THEN Upto(Blocks(fed[writer(g)]), place(writer(g), g))
                              ELSE kv[g]]
    BY DEF Forward
  <1>2. \A r \in Request :
          /\ r \in R => st'[r] = [st[r] EXCEPT !.len = Len(fed[r])]
          /\ r \notin R => st'[r] = st[r]
    BY DEF Forward
  <1>3. \A r \in Request :
          /\ st'[r].table = st[r].table
          /\ r \in R => st'[r].len = Len(fed[r])
    BY <1>0, <1>2, StateFacts DEF StateType
  <1>4. cached' = cached /\ Cached' = Cached /\ \A q \in Request : Ids(q)' = Ids(q)
    BY DEF Cached, Ids
  \* What is written is the writer's own, behind its full pages.
  <1>5. ASSUME NEW r \in R, NEW g, NEW i \in writes(r, g)
        PROVE  /\ g \in Own(st[r]) /\ g \in Page
               /\ i \in Len(st[r].node) + 1 .. Len(st[r].table) /\ st[r].table[i] = g
               /\ i > FullPages(st[r].len)
    <2> DEFINE m == st[r].len
               w == PagesNeeded(Len(fed[r]))
               l == Len(st[r].table)
               n == Len(st[r].node)
    <2>1. i \in 1 .. w /\ i * PageSize > m /\ st[r].table[i] = g
      OBVIOUS
    <2>2. m \in Nat /\ n \in Nat /\ l \in Nat /\ w \in Nat /\ w <= l
      <3> DEFINE f == Len(fed[r])
      <3>1. f \in Nat /\ PagesNeeded(f) <= Len(st[r].table)
        OBVIOUS
      <3>2. m \in Nat /\ n \in Nat /\ l \in Nat
        BY <1>0, StateFacts
      <3>3. PagesNeeded(f) \in Nat
        <4> HIDE DEF f
        <4> QED BY <3>1, PageCounts
      <3> QED BY <3>1, <3>2, <3>3
    <2>3. FullPages(m) \in Nat /\ n <= FullPages(m)
      <3>1. FullPages(m) \in Nat
        BY <2>2, PageCounts
      <3>2. Covers(CommitPath(r), st[r].node)
        BY <1>0 DEF KVInv, NodeOnPath
      <3>3. n <= Len(CommitPath(r)) /\ Len(CommitPath(r)) <= FullPages(m)
        <4>1. CASE CacheOn
          BY <1>0, <3>1, <3>2, <4>1, PathTypes DEF Covers
        <4>2. CASE ~CacheOn
          BY <1>0, <3>1, <3>2, <4>2, PathTypes DEF Covers
        <4> QED BY <4>1, <4>2, CacheOnAssumption
      <3>4. Len(CommitPath(r)) \in Nat
        BY <1>0, PathTypes
      <3> QED BY <2>2, <3>1, <3>3, <3>4
    <2>4. ~(i <= FullPages(m))
      <3>1. i \in Nat /\ i * PageSize \in Nat
        BY <2>1, PageSizeAssumption
      <3> HIDE DEF m
      <3> QED BY <2>1, <2>2, <3>1, FullPagesIff
    <2>5. i \in 1 .. l /\ i > n /\ i > FullPages(m)
      <3> HIDE DEF m, w, l, n
      <3> QED BY <2>1, <2>2, <2>3, <2>4
    <2>6. g \in Own(st[r]) /\ g \in Page
      BY <1>0, <2>1, <2>5, TablePage
    <2>7. i \in n + 1 .. l
      <3> HIDE DEF l, n, w, m
      <3> QED BY <2>1, <2>2, <2>5
    <2> QED BY <2>1, <2>5, <2>6, <2>7
  \* So it is in nobody else's table, and at one place of the writer's.
  <1>6. ASSUME NEW r \in R, NEW g, NEW i \in writes(r, g)
        PROVE  /\ \A p \in Cached : cached[p] # g
               /\ \A q \in Request \ {r} : \A j \in 1 .. Len(st[q].table) : st[q].table[j] # g
               /\ \A j \in 1 .. Len(st[r].table) : st[r].table[j] = g => j = i
    <2>1. g \in Own(st[r]) /\ st[r].table[i] = g
          /\ i \in Len(st[r].node) + 1 .. Len(st[r].table)
      BY <1>5
    <2>2. /\ \A p \in Cached : cached[p] # g
          /\ \A q \in Request \ {r} : \A j \in 1 .. Len(st[q].table) : st[q].table[j] # g
      BY <1>0, <2>1, OwnIsPrivate
    <2>3. ASSUME NEW j \in 1 .. Len(st[r].table), st[r].table[j] = g
          PROVE  j = i
      <3>1. Len(st[r].node) \in Nat /\ Len(st[r].table) \in Nat
        BY <1>0, StateFacts
      <3>2. CASE j <= Len(st[r].node)
        BY <1>0, <2>2, <2>3, <3>2, TablePage
      <3>3. CASE j > Len(st[r].node)
        <4>1. j \in Len(st[r].node) + 1 .. Len(st[r].table)
          BY <3>1, <3>3
        <4>2. OwnDistinct(st[r])
          BY <1>0, OwnFacts DEF KVInv, PagesInv
        <4> QED BY <2>1, <2>3, <4>1, <4>2 DEF OwnDistinct, Distinct
      <3> QED BY <3>1, <3>2, <3>3
    <2> QED BY <2>2, <2>3
  <1> HIDE DEF writes, writer, place
  <1>7. ASSUME NEW g \in Page, \A r \in R : writes(r, g) = {}
        PROVE  kv'[g] = kv[g]
    BY <1>1, <1>7
  <1>8. CacheReads'
    <2> SUFFICES ASSUME NEW p \in Cached PROVE kv'[cached[p]] = p
      BY <1>4 DEF CacheReads
    <2>1. cached[p] \in Page
      BY <1>0 DEF KVTypeOK
    <2>2. \A r \in R : writes(r, cached[p]) = {}
      BY <1>6
    <2> QED BY <1>0, <1>7, <2>1, <2>2 DEF CacheReads
  <1>9. ASSUME NEW q \in Request, q \notin R
        PROVE  Reads(q)'
    <2>1. ASSUME NEW i \in 1 .. PagesNeeded(st[q].len)
          PROVE  kv'[st[q].table[i]] = kv[st[q].table[i]]
      <3>1. i \in 1 .. Len(st[q].table)
        BY <1>0, ReadInTable
      <3>2. st[q].table[i] \in Page
        BY <1>0, <3>1, TablePage
      <3>3. \A r \in R : writes(r, st[q].table[i]) = {}
        BY <1>6, <1>9, <3>1
      <3> QED BY <1>7, <3>2, <3>3
    <2> QED BY <1>0, <1>2, <1>4, <1>9, <2>1, ReadsStay
  <1>10. ASSUME NEW q \in R
         PROVE  Reads(q)'
    <2> DEFINE m == Len(fed[q])
               ids == Ids(q)
               t == st[q].table
    <2>1. /\ ids \in Seq(Token) /\ st[q].len \in Nat /\ m \in Nat
          /\ st[q].len <= m /\ m <= Len(ids) /\ Len(ids) \in Nat
          /\ PagesNeeded(m) \in Nat /\ PagesNeeded(m) <= Len(t) /\ Len(t) \in Nat
      <3>1. /\ ids \in Seq(Token) /\ st[q].len \in Nat /\ fed[q] \in Seq(Token) /\ Len(t) \in Nat
            /\ st[q].len <= m /\ m <= Len(ids) /\ PagesNeeded(m) <= Len(t)
        BY <1>0, StateFacts, PathTypes
      <3>2. m \in Nat /\ Len(ids) \in Nat
        BY <3>1
      <3> QED BY <3>1, <3>2, PageCounts
    <2>2. fed[q] = SubSeq(ids, 1, m)
      OBVIOUS
    <2>3. ASSUME NEW i \in 1 .. PagesNeeded(m)
          PROVE  kv'[t[i]] = Upto(Blocks(SubSeq(ids, 1, m)), i)
      <3> DEFINE g == t[i]
      <3>1. i \in 1 .. Len(t) /\ i \in Nat
        BY <2>1
      <3>2. g \in Page
        BY <1>0, <3>1, TablePage
      <3>3. CASE i * PageSize > st[q].len
        <4>1. i \in writes(q, g)
          BY <3>3 DEF writes
        <4>2. \A r \in R : writes(r, g) # {} => r = q
          BY <1>6, <3>1
        <4>3. writer(g) = q
          BY <4>1, <4>2 DEF writer
        <4>4. \A j \in writes(q, g) : j = i
          BY <1>6, <3>1
        <4>5. place(q, g) = i
          BY <4>1, <4>4 DEF place
        <4>6. kv'[g] = Upto(Blocks(fed[writer(g)]), place(writer(g), g))
          BY <1>1, <3>2, <4>1
        <4> QED BY <2>2, <4>3, <4>5, <4>6, Zenon
      <3>4. CASE ~(i * PageSize > st[q].len)
        <4>1. i * PageSize \in Nat
          BY <3>1, PageSizeAssumption
        <4>2. i <= FullPages(st[q].len)
          BY <2>1, <3>1, <3>4, <4>1, FullPagesIff
        <4>3. /\ FullPages(st[q].len) \in Nat /\ PagesNeeded(st[q].len) \in Nat
              /\ FullPages(st[q].len) <= PagesNeeded(st[q].len)
          BY <2>1, PageCounts
        <4>4. \A r \in R : writes(r, g) = {}
          <5> SUFFICES ASSUME NEW r \in R, NEW j \in writes(r, g) PROVE FALSE
            OBVIOUS
          <5>1. r = q /\ j = i
            BY <1>6, <3>1
          <5>2. i > FullPages(st[q].len)
            BY <1>5, <5>1
          <5> QED BY <3>1, <4>2, <4>3, <5>2
        <4>5. kv'[g] = kv[g]
          BY <1>7, <3>2, <4>4
        <4>6. kv[g] = Upto(Blocks(SubSeq(ids, 1, st[q].len)), i)
          <5>1. i \in 1 .. PagesNeeded(st[q].len)
            BY <3>1, <4>2, <4>3
          <5> QED BY <1>0, <5>1 DEF Reads
        <4>7. Upto(Blocks(SubSeq(ids, 1, st[q].len)), i) = Upto(Blocks(SubSeq(ids, 1, m)), i)
          <5>1. /\ m \in 0 .. Len(ids) /\ st[q].len \in 0 .. m
                /\ i \in 0 .. FullPages(st[q].len)
            BY <2>1, <3>1, <4>2, <4>3
          <5> HIDE DEF m, ids
          <5> QED BY <2>1, <5>1, BlocksOfPrefix
        <4> QED BY <4>5, <4>6, <4>7
      <3> QED BY <3>3, <3>4
    <2> HIDE DEF m
    <2>4. st'[q].len = m /\ st'[q].table = t
      BY <1>3 DEF m
    <2> QED BY <1>4, <2>3, <2>4 DEF Reads
  <1> QED BY <1>8, <1>9, <1>10 DEF AllRead

-------------------------------------------------------------------------------
(* HistoryInv is inductive. *)

\* No request reads anything, and nothing is cached.
LEMMA InitReads == KVInit => HistoryInv
  <1> SUFFICES ASSUME KVInit PROVE HistoryInv
    OBVIOUS
  <1>1. Cached = {} /\ \A r \in Request : st[r] = NoState
    BY DEF KVInit, Cached
  <1>2. AllRead
    BY <1>1, NoPages DEF AllRead, CacheReads, Reads, NoState
  <1> QED BY <1>2, InitKeeps DEF HistoryInv

\* Every operation of the engine leaves the right history behind.
LEMMA NextReads == HistoryInv /\ [KVNext]_kvVars => AllRead'
  <1> SUFFICES ASSUME HistoryInv, [KVNext]_kvVars PROVE AllRead'
    OBVIOUS
  <1>0. KVInv /\ KVTypeOK /\ StatesFit
    BY DEF HistoryInv, KVInv
  <1>1. ASSUME NEW r \in Request, Prepare(r) PROVE AllRead'
    BY <1>1, PrepareReads DEF Prepare
  <1>2. ASSUME NEW r \in Request, Release(r) PROVE AllRead'
    <2>1. st' = [st EXCEPT ![r] = NoState] /\ UNCHANGED <<out, cached, kv>>
      BY <1>2 DEF Release, ReleasePagedPrefill
    <2>2. \A q \in Request : st'[q] = st[q] \/ st'[q] = NoState
      BY <1>0, <2>1 DEF KVTypeOK
    <2>3. \A q \in Request : Ids(q)' = Ids(q)
      BY <2>1 DEF Ids
    <2> QED BY <2>1, <2>2, <2>3, OutputReads
  <1>3. ASSUME NEW R \in SUBSET Request, Resume(R) PROVE AllRead'
    <2>1. UNCHANGED <<out, st, cached, kv>>
      BY <1>3 DEF Resume
    <2>2. \A q \in Request : Ids(q)' = Ids(q)
      BY <2>1 DEF Ids
    <2> QED BY <2>1, <2>2, OutputReads
  <1>4. ASSUME NEW r \in Request, Retract(r) PROVE AllRead'
    BY <1>4, RetractReads DEF Retract
  <1>5. ASSUME NEW r \in Request, RunOut(r) PROVE AllRead'
    BY <1>5, ExhaustedReads DEF RunOut
  <1>6. ASSUME NEW r \in Request, GrowForPrefill(r) PROVE AllRead'
    <2>1. PICK chunk \in ChunkSizes : GrowTable(r, PrefillNeeded(r, st[r], chunk))
      BY <1>6 DEF GrowForPrefill
    <2>2. MayPrefill(r) /\ chunk \in Nat /\ UNCHANGED <<out, rehydrate>>
      BY <1>6, ChunkAssumption DEF GrowForPrefill
    <2>3. PrefillNeeded(r, st[r], chunk) \in Nat
      BY <1>0, <2>2, ChunkBounds
    <2> QED BY <2>1, <2>2, <2>3, GrowReads
  <1>7. ASSUME NEW r \in Request, GrowForDecode(r) PROVE AllRead'
    <2>1. MayDecode(r) /\ UNCHANGED <<out, rehydrate>>
          /\ GrowTable(r, Missing(st[r], st[r].len + 1))
      BY <1>7 DEF GrowForDecode
    <2>2. Missing(st[r], st[r].len + 1) \in Nat
      BY <1>0, <2>1, DecodeBounds
    <2> QED BY <2>1, <2>2, GrowReads
  <1>8. ASSUME NEW r \in Request, NEW x \in Token, FirstToken(r, x) PROVE AllRead'
    <2>1. CheckFinished(out'[r]) \in BOOLEAN
      BY DEF CheckFinished
    <2> QED BY <1>8, <2>1, CommitReads DEF FirstToken
  <1>9. ASSUME NEW r \in Request, NEW x \in Token, NextToken(r, x) PROVE AllRead'
    <2>1. CASE CheckFinished(out'[r])
      BY <1>9, <2>1, CommitReads DEF NextToken
    <2>2. CASE ~CheckFinished(out'[r])
      <3>1. out' = [out EXCEPT ![r] = Append(@, x)] /\ UNCHANGED <<st, cached, kv>>
        BY <1>9, <2>2 DEF NextToken
      <3>2. \A q \in Request : Ids(q)' = Ids(q) \/ \E y \in Token : Ids(q)' = Append(Ids(q), y)
        BY <1>0, <3>1, SampledToken
      <3> QED BY <3>1, <3>2, OutputReads
    <2> QED BY <2>1, <2>2
  <1>10. ASSUME NEW R \in SUBSET Request, PrefillForward(R) PROVE AllRead'
    <2>1. PICK chunk \in ChunkSizes :
            /\ \A r \in R : MayPrefill(r) /\ PrefillNeeded(r, st[r], chunk) = 0
            /\ Forward(R, [r \in R |-> PrefillFed(r, chunk)])
      BY <1>10 DEF PrefillForward
    <2> DEFINE fed == [r \in R |-> PrefillFed(r, chunk)]
    <2>2. ASSUME NEW r \in R
          PROVE  /\ fed[r] \in Seq(Token)
                 /\ st[r].len <= Len(fed[r]) /\ Len(fed[r]) <= Len(Ids(r))
                 /\ PagesNeeded(Len(fed[r])) <= Len(st[r].table)
                 /\ fed[r] = SubSeq(Ids(r), 1, Len(fed[r]))
      <3> DEFINE m == ChunkEnd(r, st[r], chunk)
                 ids == PrefillIds(r)
                 all == Ids(r)
      <3>1. MayPrefill(r) /\ Prefilling(r) /\ chunk \in Nat
        BY <2>1, ChunkAssumption DEF MayPrefill
      <3>2. /\ m \in Nat /\ st[r].len <= m /\ m <= Len(ids) /\ Missing(st[r], m) = 0
        BY <1>0, <2>1, <3>1, ChunkBounds
      <3>3. /\ ids \in Seq(Token) /\ Len(ids) \in Nat /\ Len(ids) <= Len(all)
            /\ ids = SubSeq(all, 1, Len(ids))
            /\ all \in Seq(Token) /\ Len(all) \in Nat
        BY <1>0, <3>1, MatchPathType, PrefillIdsBound, PathTypes
      <3>4. fed[r] = SubSeq(ids, 1, m)
        BY DEF PrefillFed
      <3>5. /\ SubSeq(ids, 1, m) \in Seq(Token) /\ Len(SubSeq(ids, 1, m)) = m
            /\ SubSeq(ids, 1, m) = SubSeq(all, 1, m)
        <4> HIDE DEF ids, m, all
        <4>1. SubSeq(ids, 1, m) \in Seq(Token) /\ Len(SubSeq(ids, 1, m)) = m
          BY <3>2, <3>3
        <4>2. SubSeq(SubSeq(all, 1, Len(ids)), 1, m) = SubSeq(all, 1, m)
          BY <3>2, <3>3
        <4> QED BY <3>3, <4>1, <4>2
      <3>6. PagesNeeded(m) <= Len(st[r].table)
        <4>1. Missing(st[r], m) = 0 /\ m \in Nat
          BY <3>2
        <4> HIDE DEF fed, m, ids, all
        <4>2. PagesNeeded(m) \in Nat
          BY <4>1, PageCounts
        <4>3. st[r].table \in Seq(Page)
          BY <1>0, StateFacts
        <4>4. Len(st[r].table) \in Nat
          BY <4>3
        <4> QED BY <4>1, <4>2, <4>4 DEF Missing
      <3>7. m <= Len(Ids(r))
        BY <3>2, <3>3
      <3> HIDE DEF fed, m, ids
      <3> QED BY <3>1, <3>2, <3>4, <3>5, <3>6, <3>7 DEF m
    <2>3. fed \in [R -> Seq(Token)]
      BY <2>2
    <2>4. UNCHANGED <<out, rehydrate, cached>>
      BY <1>10 DEF PrefillForward
    <2>5. Forward(R, fed)
      BY <2>1
    <2> HIDE DEF fed
    <2> QED BY <2>2, <2>3, <2>4, <2>5, ForwardReads
  <1>11. ASSUME NEW R \in SUBSET Request, DecodeForward(R) PROVE AllRead'
    <2> DEFINE fed == [r \in R |-> DecodeFed(r)]
    <2>1. /\ \A r \in R : MayDecode(r) /\ Missing(st[r], st[r].len + 1) = 0
          /\ Forward(R, fed) /\ UNCHANGED <<out, rehydrate, cached>>
      BY <1>11 DEF DecodeForward
    <2>2. ASSUME NEW r \in R
          PROVE  /\ fed[r] \in Seq(Token)
                 /\ st[r].len <= Len(fed[r]) /\ Len(fed[r]) <= Len(Ids(r))
                 /\ PagesNeeded(Len(fed[r])) <= Len(st[r].table)
                 /\ fed[r] = SubSeq(Ids(r), 1, Len(fed[r]))
      <3> DEFINE m == st[r].len
                 ids == Ids(r)
                 w == m + 1
      <3>1. /\ m \in Nat /\ w = Len(ids) /\ Missing(st[r], w) = 0
            /\ ids \in Seq(Token) /\ out[r] \in Seq(Token) /\ out[r] # <<>>
        BY <1>0, <2>1, DecodeBounds
      <3>2. fed[r] = ids
        <4>1. Append(SubSeq(ids, 1, m), out[r][Len(out[r])]) = ids
          <5> DEFINE a == Prompt[r]
                     b == out[r]
          <5>1. a \in Seq(Token) /\ b \in Seq(Token) /\ b # <<>> /\ ids = a \o b
            BY <1>0, <3>1, PromptAssumption DEF KVTypeOK, Ids
          <5>2. ids[Len(ids)] = b[Len(b)]
            <6> HIDE DEF a, b, ids
            <6> QED BY <5>1
          <5>3. Append(SubSeq(ids, 1, m), ids[Len(ids)]) = ids
            <6>1. Len(ids) = m + 1
              BY <3>1
            <6> HIDE DEF ids, m
            <6> QED BY <3>1, <6>1
          <5> QED BY <5>2, <5>3
        <4> QED BY <4>1 DEF DecodeFed
      <3>3. SubSeq(ids, 1, Len(ids)) = ids /\ Len(ids) \in Nat
        <4> HIDE DEF ids
        <4> QED BY <3>1
      <3>4. PagesNeeded(w) <= Len(st[r].table)
        <4>1. PagesNeeded(w) \in Nat
          <5>1. w \in Nat
            BY <3>1
          <5> HIDE DEF w
          <5> QED BY <5>1, PageCounts
        <4>2. Len(st[r].table) \in Nat
          BY <1>0, StateFacts
        <4> HIDE DEF w
        <4> QED BY <3>1, <4>1, <4>2 DEF Missing
      <3>5. m <= Len(ids) /\ Len(ids) <= Len(ids)
        BY <3>1, <3>3
      <3> HIDE DEF fed
      <3> QED BY <3>1, <3>2, <3>3, <3>4, <3>5
    <2>3. fed \in [R -> Seq(Token)]
      BY <2>2
    <2> HIDE DEF fed
    <2> QED BY <2>1, <2>2, <2>3, ForwardReads
  <1>12. CASE UNCHANGED kvVars
    <2>1. UNCHANGED <<out, st, cached, kv>>
      BY <1>12 DEF kvVars
    <2>2. \A q \in Request : Ids(q)' = Ids(q)
      BY <2>1 DEF Ids
    <2> QED BY <2>1, <2>2, OutputReads
  <1> QED BY <1>1, <1>2, <1>3, <1>4, <1>5, <1>6, <1>7, <1>8, <1>9, <1>10, <1>11, <1>12
          DEF KVNext

\* At every cache_seq_len position a request reads, through its page table, KV
\* computed for its own tokens up to there, and a cached path maps to a page
\* that holds it: for any requests, pages, page size and chunk sizes, through
\* sharing, eviction, retraction and rehydration.
THEOREM ReadsRightHistory == KVSpec => []KVFaithful
  <1>1. HistoryInv /\ [KVNext]_kvVars => HistoryInv'
    BY NextKeeps, NextReads DEF HistoryInv
  <1>2. HistoryInv => KVFaithful
    <2> SUFFICES ASSUME HistoryInv PROVE KVFaithful
      OBVIOUS
    <2>1. \A r \in Request : PagesNeeded(st[r].len) <= Len(st[r].table)
      BY DEF HistoryInv, KVInv, StatesFit
    <2> QED BY <2>1 DEF HistoryInv, AllRead, CacheReads, Reads, KVFaithful
  <1> QED BY <1>1, <1>2, InitReads, PTL DEF KVSpec

===============================================================================
