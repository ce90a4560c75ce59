--------------------------- MODULE PagedEngineProofs ---------------------------
(***************************************************************************)
(* Proofs about PagedEngine: its invariants, and that the engine on the    *)
(* radix tree implements the engine on the map (PagedKV), for every value  *)
(* of the constants.                                                       *)
(*                                                                         *)
(* KVP is PagedKVProofs at the map the tree stands for, so what is proved  *)
(* there of PagedKV can be used here: EngineInv is KVInv of that map with  *)
(* TreeInv, the shape of the tree and what its reference counts are.       *)
(* Each operation on the tree is shown to be PagedKV's operation on the    *)
(* map and to keep TreeInv; KVInv is then kept because PagedKV keeps it.   *)
(***************************************************************************)
EXTENDS PagedEngine, RadixCacheProofs

KVP == INSTANCE PagedKVProofs WITH cached <- CachedMap

-------------------------------------------------------------------------------
(* Reference counts.  s is a function from requests to paged states.       *)

RefsTo(s, n) == {r \in Request : Covers(s[r].node, n)}
HeldIn(t, s) == \A r \in Request : s[r].node \in Nodes(t) \cup {Root}
Counts(t, s) == \A n \in Nodes(t) : t[n].ref_count = Cardinality(RefsTo(s, n))

\* A tree of the right shape that has the nodes the states hold, each node
\* with one reference from every state that holds it or a node below it.
TreeOK(t, s) == RadixTree(Seq(Token), Page, t) /\ HeldIn(t, s) /\ Counts(t, s)

TreeInv ==
    /\ TreeOK(tree, st)
    /\ tree \in [Nodes(tree) -> NodeType]
    /\ numCached = Cardinality(PathsIn(tree))

EngineInv == KVP!KVInv /\ TreeInv

\* The references to a node are finite in number.
LEMMA RefsFinite ==
    ASSUME NEW s, NEW n
    PROVE  IsFiniteSet(RefsTo(s, n)) /\ Cardinality(RefsTo(s, n)) \in Nat
  <1>1. IsFiniteSet(RefsTo(s, n))
    BY RequestAssumption, FS_Subset DEF RefsTo
  <1> QED BY <1>1, FS_CardinalityType

\* Only the empty path lies on the way to the root.
LEMMA RootHoldsNothing ==
    ASSUME NEW B, NEW n \in Seq(B) \ {Root}
    PROVE  ~Covers(Root, n)
  BY CoversFacts

\* inc_lock_ref for a request that held nothing.
LEMMA CountsInc ==
    ASSUME NEW t, Nodes(t) \subseteq Path \ {Root},
           NEW s, Counts(t, s), NEW r \in Request, s[r].node = Root,
           NEW z, \A q \in Request \ {r} : z[q] = s[q],
           NEW u, Nodes(u) = Nodes(t),
           \A m \in Nodes(t) : u[m].ref_count =
                IF Covers(z[r].node, m) THEN t[m].ref_count + 1 ELSE t[m].ref_count
    PROVE  Counts(u, z)
  <1> SUFFICES ASSUME NEW n \in Nodes(t)
               PROVE  u[n].ref_count = Cardinality(RefsTo(z, n))
    BY DEF Counts
  <1>1. ~Covers(s[r].node, n)
    BY RootHoldsNothing DEF Path
  <1>2. t[n].ref_count = Cardinality(RefsTo(s, n)) /\ r \notin RefsTo(s, n)
    BY <1>1 DEF Counts, RefsTo
  <1>3. RefsTo(z, n) = IF Covers(z[r].node, n) THEN RefsTo(s, n) \cup {r} ELSE RefsTo(s, n)
    BY <1>1 DEF RefsTo
  <1>4. Cardinality(RefsTo(s, n) \cup {r}) = Cardinality(RefsTo(s, n)) + 1
    BY <1>2, RefsFinite, FS_AddElement
  <1> QED BY <1>2, <1>3, <1>4

\* dec_lock_ref for a request that holds nothing afterwards.
LEMMA CountsDec ==
    ASSUME NEW t, Nodes(t) \subseteq Path \ {Root},
           NEW s, Counts(t, s), NEW r \in Request,
           NEW z, \A q \in Request \ {r} : z[q] = s[q], z[r].node = Root,
           NEW u, Nodes(u) = Nodes(t),
           \A m \in Nodes(t) : u[m].ref_count =
                IF Covers(s[r].node, m) THEN t[m].ref_count - 1 ELSE t[m].ref_count
    PROVE  Counts(u, z)
  <1> SUFFICES ASSUME NEW n \in Nodes(t)
               PROVE  u[n].ref_count = Cardinality(RefsTo(z, n))
    BY DEF Counts
  <1>1. ~Covers(z[r].node, n)
    BY RootHoldsNothing DEF Path
  <1>2. t[n].ref_count = Cardinality(RefsTo(s, n))
    BY DEF Counts
  <1>3. CASE Covers(s[r].node, n)
    <2>1. r \in RefsTo(s, n) /\ RefsTo(z, n) = RefsTo(s, n) \ {r}
      BY <1>1, <1>3 DEF RefsTo
    <2>2. Cardinality(RefsTo(s, n) \ {r}) = Cardinality(RefsTo(s, n)) - 1
      BY <2>1, RefsFinite, FS_RemoveElement
    <2> QED BY <1>2, <1>3, <2>1, <2>2
  <1>4. CASE ~Covers(s[r].node, n)
    <2>1. RefsTo(z, n) = RefsTo(s, n)
      BY <1>1, <1>4 DEF RefsTo
    <2> QED BY <1>2, <1>4, <2>1
  <1> QED BY <1>3, <1>4

\* Splitting edges and adding a leaf leaves the counts right.
LEMMA CountsFrom ==
    ASSUME NEW t, NEW s, Counts(t, s), HeldIn(t, s), NEW u, RefsFromOr0(t, u)
    PROVE  Counts(u, s)
  <1> SUFFICES ASSUME NEW n \in Nodes(u)
               PROVE  u[n].ref_count = Cardinality(RefsTo(s, n))
    BY DEF Counts
  <1>1. CASE \E c \in Nodes(t) : StandsFor(t, n, c) /\ u[n].ref_count = t[c].ref_count
    <2>1. PICK c \in Nodes(t) : StandsFor(t, n, c) /\ u[n].ref_count = t[c].ref_count
      BY <1>1
    <2>2. RefsTo(s, n) = RefsTo(s, c)
      BY <2>1 DEF RefsTo, HeldIn, StandsFor
    <2> QED BY <2>1, <2>2 DEF Counts
  <1>2. CASE u[n].ref_count = 0 /\ \A x \in Nodes(t) \cup {Root} : ~Covers(x, n)
    <2>1. RefsTo(s, n) = {}
      BY <1>2 DEF RefsTo, HeldIn
    <2> QED BY <2>1, <1>2, FS_EmptySet
  <1> QED BY <1>1, <1>2 DEF RefsFromOr0

\* A node has references as soon as one below it has.
LEMMA CountsGrow ==
    ASSUME NEW t, NEW s, TreeOK(t, s), NEW n \in Nodes(t), NEW m \in Nodes(t), Covers(m, n),
           t[n].ref_count = 0
    PROVE  t[m].ref_count = 0
  <1>1. Nodes(t) \subseteq Path /\ Root \in Path
    BY DEF TreeOK, RadixTree, TreeOver, Path, Root
  <1>2. RefsTo(s, n) = {}
    BY RefsFinite, FS_EmptySet DEF TreeOK, Counts
  <1>3. \A r \in RefsTo(s, m) : r \in RefsTo(s, n)
    <2> SUFFICES ASSUME NEW r \in Request, Covers(s[r].node, m)
                 PROVE  Covers(s[r].node, n)
      BY DEF RefsTo
    <2>1. s[r].node \in Path /\ m \in Path /\ n \in Path
      BY <1>1 DEF TreeOK, HeldIn
    <2> QED BY <2>1, CoversTransitive DEF Path
  <1>4. RefsTo(s, m) = {}
    BY <1>2, <1>3
  <1> QED BY <1>4, FS_EmptySet DEF TreeOK, Counts

-------------------------------------------------------------------------------
(* PagedKV speaks of the same things as PagedEngine: the definitions the    *)
(* two share are those of PagedState.                                       *)

\* The same finite sets and cardinalities.
LEMMA SameCardinality ==
    /\ \A S : KVP!IsFiniteSet(S) <=> IsFiniteSet(S)
    /\ \A S : KVP!Cardinality(S) = Cardinality(S)
  BY DEF KVP!IsFiniteSet, IsFiniteSet, KVP!Cardinality, Cardinality

\* The same paths.
LEMMA SamePaths ==
    /\ \A p, i : KVP!Upto(p, i) = Upto(p, i)
    /\ \A q, p : KVP!Covers(q, p) <=> Covers(q, p)
    /\ \A s : KVP!Blocks(s) = Blocks(s) /\ KVP!PathOf(s) = PathOf(s)
    /\ KVP!Path = Path
  BY DEF KVP!Upto, Upto, KVP!Covers, Covers, KVP!Blocks, Blocks, KVP!PathOf, PathOf,
         KVP!Path, Path, KVP!PagesNeeded, PagesNeeded, KVP!FullPages, FullPages,
         KVP!Lesser, Lesser

\* The same request tokens and phases.
LEMMA SameRequests ==
    /\ \A r : KVP!Ids(r) = Ids(r) /\ KVP!PrefillIds(r) = PrefillIds(r)
    /\ \A r : KVP!MatchPath(r) = MatchPath(r) /\ KVP!CommitPath(r) = CommitPath(r)
    /\ \A r : KVP!Prefilling(r) <=> Prefilling(r)
    /\ \A r : KVP!Running(r) <=> Running(r)
    /\ \A r, s : KVP!PrefillComplete(r, s) <=> PrefillComplete(r, s)
    /\ \A r : KVP!MayPrefill(r) <=> MayPrefill(r)
    /\ \A r : KVP!MayDecode(r) <=> MayDecode(r)
    /\ \A o : KVP!CheckFinished(o) <=> CheckFinished(o)
    /\ KVP!NoState = NoState /\ KVP!StateType = StateType
  BY SamePaths DEF KVP!Ids, Ids, KVP!PrefillIds, PrefillIds, KVP!MatchPath, MatchPath,
     KVP!CommitPath, CommitPath, KVP!Prefilling, Prefilling, KVP!Running, Running,
     KVP!PrefillComplete, PrefillComplete, KVP!MayPrefill, MayPrefill,
     KVP!MayDecode, MayDecode, KVP!CheckFinished, CheckFinished, KVP!Finished, Finished,
     KVP!NoState, NoState, KVP!StateType, StateType, KVP!ButLast, ButLast

\* The same tables.
LEMMA SameTables ==
    /\ \A s : KVP!Own(s) = Own(s) /\ KVP!Retractable(s) = Retractable(s)
    /\ \A r, s, c : KVP!PrefillNeeded(r, s, c) = PrefillNeeded(r, s, c)
    /\ \A s, n : KVP!Missing(s, n) = Missing(s, n)
    /\ \A r, c : KVP!PrefillFed(r, c) = PrefillFed(r, c)
    /\ \A r : KVP!DecodeFed(r) = DecodeFed(r)
  <1>1. \A s : KVP!Own(s) = Own(s)
    BY DEF KVP!Own, Own
  <1>2. \A s : KVP!Retractable(s) = Retractable(s)
    BY DEF KVP!Retractable, Retractable
  <1>3. \A s, n : KVP!Missing(s, n) = Missing(s, n)
    BY DEF KVP!Missing, Missing, KVP!PagesNeeded, PagesNeeded
  <1>4. \A r, s, c : KVP!ChunkEnd(r, s, c) = ChunkEnd(r, s, c)
    BY SameRequests DEF KVP!ChunkEnd, ChunkEnd, KVP!Lesser, Lesser
  <1>5. \A r, s, c : KVP!PrefillNeeded(r, s, c) = PrefillNeeded(r, s, c)
    BY <1>3, <1>4, SameRequests DEF KVP!PrefillNeeded, PrefillNeeded
  <1>6. \A r, c : KVP!PrefillFed(r, c) = PrefillFed(r, c)
    BY <1>4, SameRequests DEF KVP!PrefillFed, PrefillFed
  <1>7. \A r : KVP!DecodeFed(r) = DecodeFed(r)
    BY SameRequests DEF KVP!DecodeFed, DecodeFed
  <1> QED BY <1>1, <1>2, <1>3, <1>5, <1>6, <1>7

\* So is emptying the pages that are returned.
LEMMA SameErased ==
    ASSUME NEW G
    PROVE  KVP!Erased(G) = Erased(G)
  BY DEF KVP!Erased, Erased

\* Handing pages to a table is the same operation in both,
LEMMA SameExtend ==
    ASSUME NEW r, NEW n, NEW pool
    PROVE  KVP!ExtendTable(r, n, pool) <=> ExtendTable(r, n, pool)
  BY DEF KVP!ExtendTable, ExtendTable

\* and so is a forward.
LEMMA SameForward ==
    ASSUME NEW R, NEW fed
    PROVE  KVP!Forward(R, fed) <=> Forward(R, fed)
  BY DEF KVP!Forward, Forward, KVP!Upto, Upto, KVP!Blocks, Blocks,
         KVP!PagesNeeded, PagesNeeded, KVP!Lesser, Lesser

\* The map is the one the tree stands for.
LEMMA MapIsCached == CachedMap = MapOf(tree) /\ KVP!Cached = PathsIn(tree)
  BY DEF CachedMap, MapOf, PathsIn, KVP!Cached, CachedMap

-------------------------------------------------------------------------------
(* What PagedKVProofs says of the requests and their states. *)

\* The assumptions of PagedKVProofs.
LEMMA SameFinite == KVP!IsFiniteSet(Request) /\ KVP!IsFiniteSet(Page)
  BY SameCardinality, RequestAssumption, PageAssumption

\* KVInv types the variables, and of a request without a paged state nothing
\* is left.
LEMMA StatesTyped ==
    ASSUME KVP!KVInv
    PROVE  /\ out \in [Request -> Seq(Token)] /\ rehydrate \in [Request -> BOOLEAN]
           /\ st \in [Request -> StateType] /\ free \subseteq Page /\ kv \in [Page -> Path]
           /\ \A r \in Request : ~st[r].prepared => st[r] = NoState
           /\ \A r \in Request : Len(st[r].node) <= Len(st[r].table)
  BY SameRequests, SamePaths DEF KVP!KVInv, KVP!KVTypeOK, KVP!StatesFit

\* The paths that are looked up and committed.
LEMMA MatchPathTyped ==
    ASSUME KVP!KVInv, NEW r \in Request, Prefilling(r)
    PROVE  MatchPath(r) \in Path
  <1>1. KVP!KVTypeOK /\ KVP!Prefilling(r)
    BY SameRequests DEF KVP!KVInv
  <1>2. KVP!MatchPath(r) \in KVP!Path
    BY <1>1, KVP!MatchPathType, PageSizeAssumption, PromptAssumption, MaxNewAssumption,
       StopAssumption, CacheOnAssumption, ChunkAssumption, SameFinite
  <1> QED BY <1>2, SameRequests, SamePaths

\* The path a commit inserts is a prefix of the request's own blocks, and what it
\* borrowed is not longer than what it will find cached of it.
LEMMA CommitPathTyped ==
    ASSUME KVP!KVInv, NEW r \in Request
    PROVE  /\ CommitPath(r) \in Path /\ Len(CommitPath(r)) \in 0 .. Len(st[r].table)
           /\ \A k \in 0 .. Len(CommitPath(r)) :
                KVP!LongestHit(CommitPath(r), k) => Len(st[r].node) \in 0 .. k
  <1>1. KVP!KVTypeOK /\ KVP!StatesFit
    BY DEF KVP!KVInv
  <1>2. KVP!CommitPath(r) \in KVP!Path /\ Len(KVP!CommitPath(r)) \in 0 .. Len(st[r].table)
    BY <1>1, KVP!PathTypes, PageSizeAssumption, PromptAssumption, MaxNewAssumption,
       StopAssumption, CacheOnAssumption, ChunkAssumption, SameFinite
  <1>3. \A k \in 0 .. Len(KVP!CommitPath(r)) :
            KVP!LongestHit(KVP!CommitPath(r), k) => Len(st[r].node) \in 0 .. k
    BY KVP!CommitBounds, PageSizeAssumption, PromptAssumption, MaxNewAssumption,
       StopAssumption, CacheOnAssumption, ChunkAssumption, SameFinite
  <1> QED BY <1>2, <1>3, SameRequests, SamePaths

-------------------------------------------------------------------------------
(* prepare_paged_prefill. *)

\* z differs from s in the state of r alone.
SameBut(s, z, r) == \A q \in Request \ {r} : z[q] = s[q]

\* Tree t and states s become u and z when r attaches what t has of p: the
\* walk makes w of t and leads to d.
Attaches(t, s, r, p, w, d, u, z) ==
    /\ TreeOK(t, s) /\ r \in Request /\ s[r].node = Root /\ p \in Path
    /\ w = Walk(t, p).tree /\ d = Walk(t, p).node
    /\ u = Ranked(IncLockRef(w, d))
    /\ SameBut(s, z, r) /\ z[r].node = d

\* Walking along p and locking the node it leads to: a tree for the states
\* after, of which the request has the pages of the part of p it matched.
LEMMA TreePrepared ==
    ASSUME NEW t, NEW s, NEW r, NEW p, NEW w, NEW d, NEW u, NEW z,
           Attaches(t, s, r, p, w, d, u, z)
    PROVE  /\ TreeOK(u, z) /\ u \in [Nodes(u) -> NodeType]
           /\ MapOf(u) = MapOf(t) /\ PathsIn(u) = PathsIn(t)
           /\ Len(d) \in 0 .. Len(p) /\ d = Upto(p, Len(d))
           /\ \A i \in 1 .. Len(d) : Upto(p, i) \in PathsIn(t)
           /\ \A i \in Len(d) + 1 .. Len(p) : Upto(p, i) \notin PathsIn(t)
           /\ PagesForNode(w, d) = PagesUpto(MapOf(t), p, Len(d))
  <1> DEFINE v == IncLockRef(w, d)
  <1>0. PICK B : B = Seq(Token)
    OBVIOUS
  <1>1. RadixTree(B, Page, t) /\ p \in Seq(B)
    BY <1>0 DEF Attaches, TreeOK, Path
  <1>2. /\ RadixTree(B, Page, w) /\ MapOf(w) = MapOf(t) /\ PathsIn(w) = PathsIn(t)
        /\ WalkTo(w, p, d) /\ Nodes(t) \subseteq Nodes(w) /\ RefsFrom(t, w)
    BY <1>1, WalkKeeps DEF Attaches
  <1>3. Nodes(w) \subseteq Seq(B) \ {Root} /\ Branching(w)
    BY <1>2 DEF RadixTree, TreeOver
  <1>4. /\ d \in Seq(B) /\ Len(d) \in 0 .. Len(p) /\ d = Upto(p, Len(d))
        /\ \A i \in 1 .. Len(d) : Upto(p, i) \in PathsIn(w)
        /\ \A i \in Len(d) + 1 .. Len(p) : Upto(p, i) \notin PathsIn(w)
    BY <1>1, <1>2, <1>3, WalkHits
  <1>5. PagesForNode(w, d) = PagesUpto(MapOf(t), p, Len(d))
    <2>1. d \in Nodes(w) \cup {Root}
      BY <1>2 DEF WalkTo
    <2>2. PagesForNode(w, d) = PagesUpto(MapOf(w), d, Len(d))
      BY ONLY <2>1, <1>3, MapOfNode
    <2>3. \A i \in 1 .. Len(d) : Upto(d, i) = Upto(p, i)
      BY <1>1, <1>4, PrefixLengths
    <2> QED BY <2>2, <2>3, <1>2 DEF PagesUpto
  <1>6. HeldIn(w, s) /\ Counts(w, s)
    <2>1. HeldIn(t, s) /\ Counts(t, s)
      BY DEF Attaches, TreeOK
    <2>2. RefsFromOr0(t, w)
      BY <1>2 DEF RefsFrom, RefsFromOr0
    <2> QED BY <1>2, <2>1, <2>2, CountsFrom DEF HeldIn
  <1>7. /\ RadixTree(B, Page, v) /\ MapOf(v) = MapOf(w) /\ PathsIn(v) = PathsIn(w)
        /\ Nodes(v) = Nodes(w)
        /\ \A m \in Nodes(w) :
             v[m].ref_count = IF Covers(d, m) THEN w[m].ref_count + 1 ELSE w[m].ref_count
    BY <1>2, IncKeeps
  <1> HIDE DEF v
  <1>8. /\ RadixTree(B, Page, u) /\ MapOf(u) = MapOf(v) /\ PathsIn(u) = PathsIn(v)
        /\ Nodes(u) = Nodes(v) /\ u \in [Nodes(u) -> NodeOver(Page, Nat)]
        /\ \A m \in Nodes(v) : u[m].ref_count = v[m].ref_count
    BY <1>7, RankedKeeps DEF Attaches, v
  <1>9. Counts(u, z)
    <2>1. Nodes(w) \subseteq Path \ {Root} /\ Nodes(u) = Nodes(w)
      BY <1>0, <1>3, <1>7, <1>8 DEF Path
    <2>2. \A m \in Nodes(w) :
            u[m].ref_count = IF Covers(z[r].node, m) THEN w[m].ref_count + 1
                                                     ELSE w[m].ref_count
      BY <1>7, <1>8 DEF Attaches
    <2> QED BY <2>1, <2>2, <1>6, CountsInc DEF Attaches, SameBut
  <1>10. HeldIn(u, z)
    <2>1. d \in Nodes(w) \cup {Root}
      BY <1>2 DEF WalkTo
    <2> QED BY <2>1, <1>6, <1>7, <1>8 DEF HeldIn, Attaches, SameBut
  <1> QED BY <1>0, <1>2, <1>4, <1>5, <1>7, <1>8, <1>9, <1>10 DEF TreeOK, NodeOver, NodeType

\* On the map, prepare attaches and locks the longest cached prefix.
LEMMA PrepareStep ==
    ASSUME EngineInv, NEW r \in Request, Prepare(r)
    PROVE  KVP!Prepare(r) /\ TreeInv'
  <1>1. /\ Prefilling(r) /\ PreparePagedPrefill(r) /\ UNCHANGED <<out, rehydrate>>
        /\ UNCHANGED <<numCached, free, kv>>
    BY DEF Prepare, PreparePagedPrefill
  <1>2. KVP!KVInv /\ TreeInv /\ st \in [Request -> StateType]
    BY StatesTyped DEF EngineInv
  <1>3. CASE st[r].prepared
    <2>1. st' = st /\ tree' = tree
      BY <1>1, <1>3 DEF PreparePagedPrefill
    <2>2. CachedMap' = CachedMap
      BY <2>1 DEF CachedMap
    <2>3. st[r] \in KVP!PreparedStates(r) /\ st' = [st EXCEPT ![r] = st[r]]
      BY <1>2, <1>3, <2>1 DEF KVP!PreparedStates
    <2>4. KVP!PreparePagedPrefill(r)
      BY <1>1, <2>2, <2>3 DEF KVP!PreparePagedPrefill
    <2> QED BY <1>1, <1>2, <2>1, <2>4, SameRequests DEF KVP!Prepare, TreeInv
  <1>4. CASE ~st[r].prepared
    <2>0. PICK p, t, d : p = MatchPath(r) /\ t = Walk(tree, p).tree /\ d = Walk(tree, p).node
      OBVIOUS
    <2> DEFINE new == [table |-> PagesForNode(t, d), len |-> Len(d) * PageSize,
                       node |-> d, prepared |-> TRUE]
    <2>1. tree' = Ranked(IncLockRef(t, d)) /\ st' = [st EXCEPT ![r] = new]
      BY <1>1, <1>4, <2>0 DEF PreparePagedPrefill
    <2>2. p \in Path /\ st[r].node = Root /\ TreeOK(tree, st)
      BY <1>1, <1>2, <1>4, <2>0, MatchPathTyped, StatesTyped DEF NoState, Root, TreeInv
    <2>3. st'[r] = new /\ \A q \in Request \ {r} : st'[q] = st[q]
      BY <1>2, <2>1
    <2>4. st'[r].node = d
      BY <2>3
    <2>5. /\ TreeOK(tree', st') /\ tree' \in [Nodes(tree') -> NodeType]
          /\ MapOf(tree') = MapOf(tree) /\ PathsIn(tree') = PathsIn(tree)
          /\ Len(d) \in 0 .. Len(p) /\ d = Upto(p, Len(d))
          /\ \A i \in 1 .. Len(d) : Upto(p, i) \in PathsIn(tree)
          /\ \A i \in Len(d) + 1 .. Len(p) : Upto(p, i) \notin PathsIn(tree)
          /\ PagesForNode(t, d) = PagesUpto(MapOf(tree), p, Len(d))
      <3> HIDE DEF new
      <3>1. Attaches(tree, st, r, p, t, d, tree', st')
        BY <2>0, <2>1, <2>2, <2>3, <2>4 DEF Attaches, SameBut
      <3> QED BY <3>1, TreePrepared
    <2>6. CachedMap' = CachedMap
      BY <2>5, MapIsCached DEF CachedMap, MapOf, PathsIn
    <2>7. new \in KVP!PreparedStates(r)
      <3>1. KVP!LongestHit(p, Len(d))
        BY <2>5, MapIsCached, SamePaths DEF KVP!LongestHit
      <3>2. new = [table |-> [i \in 1 .. Len(d) |-> CachedMap[KVP!Upto(p, i)]],
                   len |-> Len(d) * PageSize, node |-> KVP!Upto(p, Len(d)), prepared |-> TRUE]
        BY <2>5, MapIsCached, SamePaths DEF PagesUpto
      <3> DEFINE state(k) == [table |-> [i \in 1 .. k |-> CachedMap[KVP!Upto(p, i)]],
                              len |-> k * PageSize, node |-> KVP!Upto(p, k), prepared |-> TRUE]
                 hits == {k \in 0 .. Len(p) : KVP!LongestHit(p, k)}
      <3>3. KVP!PreparedStates(r) = {state(k) : k \in hits}
        BY <1>4, <2>0, SameRequests DEF KVP!PreparedStates
      <3>4. Len(d) \in hits /\ new = state(Len(d))
        BY <2>5, <3>1, <3>2
      <3> HIDE DEF state, hits, new
      <3> QED BY <3>3, <3>4
    <2>8. KVP!PreparePagedPrefill(r)
      BY <1>1, <2>1, <2>6, <2>7 DEF KVP!PreparePagedPrefill
    <2>9. TreeInv'
      BY <1>1, <1>2, <2>5 DEF TreeInv
    <2> QED BY <1>1, <2>8, <2>9, SameRequests DEF KVP!Prepare
  <1> QED BY <1>3, <1>4

-------------------------------------------------------------------------------
(* release_paged_prefill and retract_paged_state. *)

\* Tree t and states s become u and z when r gives up what it holds.
GivesUp(t, s, r, u, z) ==
    /\ TreeOK(t, s) /\ r \in Request
    /\ u = Ranked(DecLockRef(t, s[r].node))
    /\ SameBut(s, z, r) /\ z[r].node = Root

\* Unlocking what a request held leaves the map as it was.
LEMMA TreeReleased ==
    ASSUME NEW t, NEW s, NEW r, NEW u, NEW z, GivesUp(t, s, r, u, z)
    PROVE  /\ TreeOK(u, z) /\ u \in [Nodes(u) -> NodeType]
           /\ MapOf(u) = MapOf(t) /\ PathsIn(u) = PathsIn(t)
  <1>0. PICK B, d, v : B = Seq(Token) /\ d = s[r].node /\ v = DecLockRef(t, d)
    OBVIOUS
  <1>1. RadixTree(B, Page, t) /\ HeldIn(t, s) /\ Counts(t, s)
    BY <1>0 DEF GivesUp, TreeOK
  <1>2. /\ RadixTree(B, Page, v) /\ MapOf(v) = MapOf(t) /\ PathsIn(v) = PathsIn(t)
        /\ Nodes(v) = Nodes(t)
        /\ \A m \in Nodes(t) :
             v[m].ref_count = IF Covers(d, m) THEN t[m].ref_count - 1 ELSE t[m].ref_count
    BY <1>0, <1>1, DecKeeps
  <1>3. /\ RadixTree(B, Page, u) /\ MapOf(u) = MapOf(v) /\ PathsIn(u) = PathsIn(v)
        /\ Nodes(u) = Nodes(v) /\ u \in [Nodes(u) -> NodeOver(Page, Nat)]
        /\ \A m \in Nodes(v) : u[m].ref_count = v[m].ref_count
    BY <1>0, <1>2, RankedKeeps DEF GivesUp
  <1>4. Nodes(t) \subseteq Path \ {Root}
    BY <1>0, <1>1 DEF RadixTree, TreeOver, Path
  <1>5. /\ r \in Request /\ \A q \in Request \ {r} : z[q] = s[q]
        /\ z[r].node = Root /\ Nodes(u) = Nodes(t)
        /\ \A m \in Nodes(t) : u[m].ref_count =
             IF Covers(s[r].node, m) THEN t[m].ref_count - 1 ELSE t[m].ref_count
    BY <1>0, <1>2, <1>3 DEF GivesUp, SameBut
  <1>6. Counts(u, z)
    BY <1>1, <1>4, <1>5, CountsDec
  <1>7. HeldIn(u, z)
    BY <1>1, <1>5 DEF HeldIn
  <1> QED BY <1>0, <1>2, <1>3, <1>6, <1>7 DEF TreeOK, NodeOver, NodeType

\* Giving up a state is the same on the map, which does not change.
LEMMA GiveUpStep ==
    ASSUME EngineInv, NEW r \in Request, st' = [st EXCEPT ![r] = NoState],
           tree' = Ranked(DecLockRef(tree, st[r].node)), numCached' = numCached
    PROVE  CachedMap' = CachedMap /\ TreeInv'
  <1>1. TreeInv /\ st \in [Request -> StateType]
    BY StatesTyped DEF EngineInv
  <1>2. GivesUp(tree, st, r, tree', st')
    BY <1>1 DEF GivesUp, SameBut, TreeInv, NoState, Root
  <1>3. /\ TreeOK(tree', st') /\ tree' \in [Nodes(tree') -> NodeType]
        /\ MapOf(tree') = MapOf(tree) /\ PathsIn(tree') = PathsIn(tree)
    BY <1>2, TreeReleased
  <1>4. CachedMap' = CachedMap
    BY <1>3, MapIsCached DEF CachedMap, MapOf, PathsIn
  <1> QED BY <1>1, <1>3, <1>4 DEF TreeInv

\* release_paged_prefill on the tree is the one on the map.
LEMMA ReleaseStep ==
    ASSUME EngineInv, NEW r \in Request, Release(r)
    PROVE  KVP!Release(r) /\ TreeInv'
  <1>1. /\ Prefilling(r) /\ Retractable(st[r]) = 0 /\ UNCHANGED <<out, rehydrate, free, kv>>
        /\ st' = [st EXCEPT ![r] = NoState]
        /\ tree' = Ranked(DecLockRef(tree, st[r].node)) /\ numCached' = numCached
    BY DEF Release, ReleasePagedPrefill
  <1>2. CachedMap' = CachedMap /\ TreeInv'
    BY <1>1, GiveUpStep
  <1> QED BY <1>1, <1>2, SameRequests, SameTables DEF KVP!Release, KVP!ReleasePagedPrefill

\* retract_paged_state on the tree is the one on the map.
LEMMA RetractStep ==
    ASSUME EngineInv, NEW r \in Request, Retract(r)
    PROVE  KVP!Retract(r) /\ TreeInv'
  <1>1. /\ MayDecode(r) /\ UNCHANGED out /\ rehydrate' = [rehydrate EXCEPT ![r] = TRUE]
        /\ st' = [st EXCEPT ![r] = NoState]
        /\ free' = free \cup Own(st[r]) /\ kv' = Erased(Own(st[r]))
        /\ tree' = Ranked(DecLockRef(tree, st[r].node)) /\ numCached' = numCached
    BY DEF Retract, RetractPagedState
  <1>2. CachedMap' = CachedMap /\ TreeInv'
    BY <1>1, GiveUpStep
  <1>3. KVP!Own(st[r]) = Own(st[r]) /\ KVP!Erased(Own(st[r])) = Erased(Own(st[r]))
    BY SameTables, SameErased
  <1> QED BY <1>1, <1>2, <1>3, SameRequests DEF KVP!Retract, KVP!RetractPagedState

\* A step that leaves tree and paged states alone, on the map as well.
LEMMA TreeStays ==
    ASSUME EngineInv, UNCHANGED <<tree, numCached>>,
           \A r \in Request : st'[r].node = st[r].node
    PROVE  CachedMap' = CachedMap /\ TreeInv'
  <1>1. TreeInv
    BY DEF EngineInv
  <1>2. CachedMap' = CachedMap
    BY DEF CachedMap
  <1>3. TreeOK(tree, st')
    <2>1. \A n : RefsTo(st', n) = RefsTo(st, n)
      BY DEF RefsTo
    <2> QED BY <1>1, <2>1 DEF TreeInv, TreeOK, HeldIn, Counts
  <1> QED BY <1>1, <1>2, <1>3 DEF TreeInv

\* Moving a rehydrated request back to running does not touch the tree.
LEMMA ResumeStep ==
    ASSUME EngineInv, NEW r \in Request, Resume(r)
    PROVE  KVP!Resume({r}) /\ TreeInv'
  <1>1. /\ rehydrate[r] /\ st[r].prepared /\ PrefillComplete(r, st[r])
        /\ rehydrate' = [rehydrate EXCEPT ![r] = FALSE]
        /\ UNCHANGED <<out, st, tree, numCached, free, kv>>
    BY DEF Resume
  <1>2. CachedMap' = CachedMap /\ TreeInv'
    BY <1>1, TreeStays
  <1>3. rehydrate \in [Request -> BOOLEAN]
    BY StatesTyped DEF EngineInv
  <1>4. rehydrate' = [q \in Request |-> rehydrate[q] /\ q \notin {r}]
    BY <1>1, <1>3, Zenon
  <1> QED BY <1>1, <1>2, <1>4, SameRequests DEF KVP!Resume

\* A forward changes nobody's node.
LEMMA ForwardNodes ==
    ASSUME KVP!KVInv, NEW R \in SUBSET Request, NEW fed, Forward(R, fed)
    PROVE  \A r \in Request : st'[r].node = st[r].node
  <1>1. st' = [r \in Request |-> IF r \in R THEN [st[r] EXCEPT !.len = Len(fed[r])] ELSE st[r]]
    BY DEF Forward
  <1>2. st \in [Request -> StateType]
    BY StatesTyped
  <1> QED BY <1>1, <1>2 DEF StateType

\* A chunk of a prefill touches pages and lengths, never the tree.
LEMMA PrefillForwardStep ==
    ASSUME EngineInv, NEW R \in SUBSET Request, PrefillForward(R)
    PROVE  KVP!PrefillForward(R) /\ TreeInv'
  <1>1. PICK chunk \in ChunkSizes :
            /\ \A r \in R : MayPrefill(r) /\ PrefillNeeded(r, st[r], chunk) = 0
            /\ Forward(R, [r \in R |-> PrefillFed(r, chunk)])
    BY DEF PrefillForward
  <1>2. UNCHANGED <<out, rehydrate, tree, numCached>>
    BY DEF PrefillForward
  <1>3. CachedMap' = CachedMap /\ TreeInv'
    BY <1>1, <1>2, ForwardNodes, TreeStays DEF EngineInv
  <1>4. [r \in R |-> KVP!PrefillFed(r, chunk)] = [r \in R |-> PrefillFed(r, chunk)]
    BY SameTables
  <1>5. KVP!Forward(R, [r \in R |-> KVP!PrefillFed(r, chunk)])
    BY <1>1, <1>4, SameForward
  <1> QED BY <1>1, <1>2, <1>3, <1>5, SameRequests, SameTables DEF KVP!PrefillForward

\* Nor does a decode forward.
LEMMA DecodeForwardStep ==
    ASSUME EngineInv, NEW R \in SUBSET Request, DecodeForward(R)
    PROVE  KVP!DecodeForward(R) /\ TreeInv'
  <1>1. /\ \A r \in R : MayDecode(r) /\ Missing(st[r], st[r].len + 1) = 0
        /\ Forward(R, [r \in R |-> DecodeFed(r)])
        /\ UNCHANGED <<out, rehydrate, tree, numCached>>
    BY DEF DecodeForward
  <1>2. CachedMap' = CachedMap /\ TreeInv'
    BY <1>1, ForwardNodes, TreeStays DEF EngineInv
  <1>3. [r \in R |-> KVP!DecodeFed(r)] = [r \in R |-> DecodeFed(r)]
    BY SameTables
  <1>4. KVP!Forward(R, [r \in R |-> KVP!DecodeFed(r)])
    BY <1>1, <1>3, SameForward
  <1> QED BY <1>1, <1>2, <1>4, SameRequests, SameTables DEF KVP!DecodeForward

-------------------------------------------------------------------------------
(* allocate: eviction, and the growth of page tables. *)

\* The paths no state holds, and the pages a map has for some paths.
UnlockedIn(t, s) == {p \in PathsIn(t) : \A r \in Request : ~Covers(s[r].node, p)}
ImageOf(f, F) == {f[p] : p \in F}

\* The nodes without references are those evict can get to, and what they
\* hold are the unlocked paths.
LEMMA EvictableIsUnlocked ==
    ASSUME NEW t, NEW s, TreeOK(t, s)
    PROVE  /\ Evictable(t) = {n \in Nodes(t) : t[n].ref_count = 0}
           /\ HeldBy(t, Evictable(t)) = UnlockedIn(t, s)
  <1>0. PICK B : B = Seq(Token)
    OBVIOUS
  <1>1. /\ Nodes(t) \subseteq Seq(B) \ {Root} /\ Branching(t)
        /\ HeldIn(t, s) /\ Counts(t, s)
    BY <1>0 DEF TreeOK, RadixTree, TreeOver
  <1>2. \A n \in Nodes(t) : n \in Evictable(t) <=> t[n].ref_count = 0
    <2> SUFFICES ASSUME NEW n \in Nodes(t)
                 PROVE  n \in Evictable(t) <=> t[n].ref_count = 0
      OBVIOUS
    <2>1. Covers(n, n)
      BY <1>1, CoversFacts
    <2>2. t[n].ref_count = 0 => \A m \in Nodes(t) : Covers(m, n) => t[m].ref_count = 0
      BY CountsGrow
    <2> QED BY <2>1, <2>2 DEF Evictable
  <1>3. Evictable(t) \subseteq Nodes(t)
    BY DEF Evictable
  <1>4. ASSUME NEW p \in PathsIn(t)
        PROVE  p \in HeldBy(t, Evictable(t)) <=> p \in UnlockedIn(t, s)
    <2>1. PICK h \in Nodes(t) : /\ Holds(t, h, p)
                                /\ \A n \in Nodes(t) : Covers(n, p) => Covers(n, h)
                                /\ \A n : Holds(t, n, p) => n = h
      BY <1>1, HolderExists
    <2>2. h \in Seq(B) /\ p \in Seq(B) /\ p # Root /\ Covers(h, p)
      BY <1>1, <2>1, PathFacts DEF Holds
    <2>3. p \in HeldBy(t, Evictable(t)) <=> t[h].ref_count = 0
      BY <1>2, <1>3, <2>1 DEF HeldBy
    <2>4. t[h].ref_count = 0 <=> RefsTo(s, h) = {}
      BY <1>1, RefsFinite, FS_EmptySet DEF Counts
    <2>5. ASSUME NEW r \in Request
          PROVE  Covers(s[r].node, h) <=> Covers(s[r].node, p)
      <3>1. s[r].node \in Nodes(t) \cup {Root}
        BY <1>1 DEF HeldIn
      <3>2. CASE s[r].node = Root
        BY <2>2, <3>2, <1>1, RootHoldsNothing
      <3>3. CASE s[r].node \in Nodes(t)
        <4>1. Covers(s[r].node, h) => Covers(s[r].node, p)
          BY <1>1, <2>2, <3>3, CoversTransitive
        <4> QED BY <2>1, <3>3, <4>1
      <3> QED BY <3>1, <3>2, <3>3
    <2> QED BY <2>3, <2>4, <2>5 DEF RefsTo, UnlockedIn
  <1> QED BY <1>2, <1>3, <1>4 DEF HeldBy, UnlockedIn

\* Tree t of states s becomes u when evict(need) drops the nodes of E, and
\* with them the paths F.
Evicts(t, s, need, E, F, u) ==
    /\ TreeOK(t, s) /\ need \in Int /\ E \in EvictableSets(t, need)
    /\ F = HeldBy(t, E) /\ u = Ranked(Pruned(t, E))

\* Eviction drops unlocked paths with all below them, and no fewer than asked
\* for unless it drops all that are unlocked.
LEMMA TreeEvicted ==
    ASSUME NEW t, NEW s, NEW need, NEW E, NEW F, NEW u, Evicts(t, s, need, E, F, u)
    PROVE  /\ TreeOK(u, s) /\ u \in [Nodes(u) -> NodeType]
           /\ PathsIn(u) = PathsIn(t) \ F /\ MapOf(u) = Without(MapOf(t), F)
           /\ F \subseteq PathsIn(t) /\ IsFiniteSet(PathsIn(t))
           /\ PageCount(t, E) = Cardinality(F) /\ PageCount(t, E) \in Nat
           /\ PagesOf(t, E) = ImageOf(MapOf(t), F)
           /\ \A p \in F, q \in PathsIn(t) : Covers(q, p) => q \in F
           /\ need <= 0 => F = {}
           /\ need > 0 => /\ F \subseteq UnlockedIn(t, s)
                          /\ Cardinality(F) >= need \/ F = UnlockedIn(t, s)
  <1>0. PICK B, v : B = Seq(Token) /\ v = Pruned(t, E)
    OBVIOUS
  <1>1. /\ RadixTree(B, Page, t) /\ HeldIn(t, s) /\ Counts(t, s) /\ F = HeldBy(t, E)
        /\ need \in Int /\ E \in EvictableSets(t, need) /\ TreeOK(t, s)
    BY <1>0 DEF Evicts, TreeOK
  <1>2. /\ LeafFirst(t, E)
        /\ need <= 0 => E = {}
        /\ need > 0 => /\ E \subseteq Evictable(t)
                       /\ PageCount(t, E) >= need \/ E = Evictable(t)
    BY <1>1, EvictableFacts
  <1>3. /\ RadixTree(B, Page, v) /\ Nodes(v) = Nodes(t) \ E
        /\ \A n \in Nodes(v) : v[n] = t[n]
        /\ PathsIn(v) = PathsIn(t) \ HeldBy(t, E)
        /\ MapOf(v) = Without(MapOf(t), HeldBy(t, E))
    <2>1. RadixTree(B, Page, t) /\ LeafFirst(t, E) /\ v = Pruned(t, E)
      BY <1>0, <1>1, <1>2
    <2> QED BY ONLY <2>1, PruneKeeps
  <1>4. /\ RadixTree(B, Page, u) /\ MapOf(u) = MapOf(v) /\ PathsIn(u) = PathsIn(v)
        /\ Nodes(u) = Nodes(v) /\ u \in [Nodes(u) -> NodeOver(Page, Nat)]
        /\ \A m \in Nodes(v) : u[m].ref_count = v[m].ref_count
    <2>1. RadixTree(B, Page, v) /\ u = Ranked(v)
      BY <1>0, <1>3 DEF Evicts
    <2> QED BY <2>1, RankedKeeps
  <1>5. E \subseteq Nodes(t)
    BY <1>2 DEF LeafFirst
  <1>6. IsFiniteSet(F) /\ PageCount(t, E) = Cardinality(F) /\ PageCount(t, E) \in Nat
    BY <1>1, <1>5, HeldCount
  <1>7. PagesOf(t, E) = ImageOf(MapOf(t), F)
    BY <1>1, <1>5, HeldPages DEF ImageOf
  <1>8. \A p \in F, q \in PathsIn(t) : Covers(q, p) => q \in F
    BY <1>1, <1>2, HeldClosed
  <1>9. F \subseteq PathsIn(t)
    BY <1>1 DEF HeldBy
  <1>10. IsFiniteSet(PathsIn(t))
    BY <1>1, AllHeld
  <1>11. MapOf(u) = Without(MapOf(t), F)
    BY <1>1, <1>3, <1>4
  <1>12. need <= 0 => F = {}
    BY <1>1, <1>2 DEF HeldBy
  <1>13. need > 0 => /\ F \subseteq UnlockedIn(t, s)
                     /\ Cardinality(F) >= need \/ F = UnlockedIn(t, s)
    <2> SUFFICES ASSUME need > 0
                 PROVE  /\ F \subseteq UnlockedIn(t, s)
                        /\ Cardinality(F) >= need \/ F = UnlockedIn(t, s)
      OBVIOUS
    <2>1. HeldBy(t, E) \subseteq HeldBy(t, Evictable(t))
      BY <1>2 DEF HeldBy
    <2> QED BY <1>1, <1>2, <1>6, <2>1, EvictableIsUnlocked
  <1>14. HeldIn(u, s)
    <2>1. ASSUME NEW r \in Request
          PROVE  s[r].node \in (Nodes(t) \ E) \cup {Root}
      <3>1. s[r].node \in Nodes(t) \cup {Root}
        BY <1>1 DEF HeldIn
      <3>2. CASE s[r].node \in E
        <4>1. need > 0 /\ s[r].node \in Evictable(t) /\ s[r].node \in Nodes(t)
          BY <1>1, <1>2, <1>5, <3>2
        <4>2. t[s[r].node].ref_count = 0
          BY <4>1, <1>1, EvictableIsUnlocked
        <4>3. RefsTo(s, s[r].node) = {}
          BY <4>1, <4>2, <1>1, RefsFinite, FS_EmptySet DEF Counts
        <4>4. Covers(s[r].node, s[r].node)
          BY <4>1, <1>1, CoversFacts DEF RadixTree, TreeOver
        <4> QED BY <4>3, <4>4 DEF RefsTo
      <3> QED BY <3>1, <3>2
    <2> QED BY <2>1, <1>3, <1>4 DEF HeldIn
  <1>15. Counts(u, s)
    BY <1>1, <1>3, <1>4 DEF Counts
  <1> QED BY <1>0, <1>1, <1>3, <1>4, <1>6, <1>7, <1>8, <1>9, <1>10, <1>11, <1>12, <1>13,
           <1>14, <1>15
       DEF TreeOK, NodeOver, NodeType

\* Evicting nodes from the tree evicts from the map the paths they hold.
LEMMA EvictStep ==
    ASSUME EngineInv, NEW n \in Int, NEW E \in EvictableSets(tree, n), Evicted(E),
           \A r \in Request : st'[r].node = st[r].node,
           NEW F, F = HeldBy(tree, E)
    PROVE  /\ F \in KVP!EvictSets(n) /\ PagesOf(tree, E) = KVP!PagesAt(F)
           /\ PageCount(tree, E) = Cardinality(F) /\ PageCount(tree, E) \in Nat
           /\ CachedMap' = KVP!WithoutPaths(F) /\ kv' = KVP!Erased(KVP!PagesAt(F))
           /\ n > PageCount(tree, E) => F = KVP!Unlocked(st)
           /\ TreeInv'
  <1>1. TreeInv /\ TreeOK(tree, st) /\ numCached = Cardinality(PathsIn(tree))
    BY DEF EngineInv, TreeInv
  <1>2. /\ tree' = Ranked(Pruned(tree, E)) /\ numCached' = numCached - PageCount(tree, E)
        /\ kv' = Erased(PagesOf(tree, E))
    BY DEF Evicted
  <1>3. Evicts(tree, st, n, E, F, tree')
    BY <1>1, <1>2 DEF Evicts
  <1>4. /\ TreeOK(tree', st) /\ tree' \in [Nodes(tree') -> NodeType]
        /\ PathsIn(tree') = PathsIn(tree) \ F /\ MapOf(tree') = Without(MapOf(tree), F)
        /\ F \subseteq PathsIn(tree) /\ IsFiniteSet(PathsIn(tree))
        /\ PageCount(tree, E) = Cardinality(F) /\ PageCount(tree, E) \in Nat
        /\ PagesOf(tree, E) = ImageOf(MapOf(tree), F)
        /\ \A p \in F, q \in PathsIn(tree) : Covers(q, p) => q \in F
        /\ n <= 0 => F = {}
        /\ n > 0 => /\ F \subseteq UnlockedIn(tree, st)
                    /\ Cardinality(F) >= n \/ F = UnlockedIn(tree, st)
    BY <1>3, TreeEvicted
  <1>5. KVP!Unlocked(st) = UnlockedIn(tree, st)
    BY MapIsCached, SamePaths DEF KVP!Unlocked, UnlockedIn
  <1>6. F \in KVP!EvictSets(n)
    BY <1>4, <1>5, MapIsCached, SamePaths, SameCardinality DEF KVP!EvictSets
  <1>7. PagesOf(tree, E) = KVP!PagesAt(F)
    BY <1>4, MapIsCached DEF KVP!PagesAt, ImageOf
  <1>8. CachedMap' = KVP!WithoutPaths(F)
    <2>1. CachedMap' = MapOf(tree')
      BY DEF CachedMap, MapOf, PathsIn
    <2>2. DOMAIN MapOf(tree) = PathsIn(tree)
      BY DEF MapOf
    <2> QED BY <1>4, <2>1, <2>2, MapIsCached DEF KVP!WithoutPaths, Without
  <1>9. kv' = KVP!Erased(KVP!PagesAt(F))
    BY <1>2, <1>7, SameErased
  <1>10. n > PageCount(tree, E) => F = KVP!Unlocked(st)
    BY <1>4, <1>5
  <1>11. numCached' = Cardinality(PathsIn(tree'))
    <2>1. PathsIn(tree) \cap F = F
      BY <1>4
    <2>2. Cardinality(PathsIn(tree) \ F) = Cardinality(PathsIn(tree)) - Cardinality(F)
      BY <1>4, <2>1, FS_Difference
    <2> QED BY <1>1, <1>2, <1>4, <2>2
  <1>12. TreeOK(tree', st')
    <2>1. \A m : RefsTo(st', m) = RefsTo(st, m)
      BY DEF RefsTo
    <2> QED BY <1>4, <2>1 DEF TreeOK, HeldIn, Counts
  <1> QED BY <1>4, <1>6, <1>7, <1>8, <1>9, <1>10, <1>11, <1>12 DEF TreeInv

\* page_table.extend(pool.allocate(n)).
LEMMA GrowStep ==
    ASSUME EngineInv, NEW r \in Request, NEW n \in Nat, GrowTable(r, n)
    PROVE  KVP!GrowTable(r, n) /\ TreeInv'
  <1>1. PICK E \in EvictableSets(tree, n - Cardinality(free)) :
            Evicted(E) /\ ExtendTable(r, n, free \cup PagesOf(tree, E))
    BY DEF GrowTable
  <1>2. st \in [Request -> StateType] /\ IsFiniteSet(free)
    BY StatesTyped, PageAssumption, FS_Subset DEF EngineInv
  <1>3. n - Cardinality(free) \in Int
    BY <1>2, FS_CardinalityType
  <1>4. \A q \in Request : st'[q].node = st[q].node
    <2>1. PICK new : st' = [st EXCEPT ![r].table = @ \o new]
      BY <1>1 DEF ExtendTable
    <2> QED BY <1>2, <2>1 DEF StateType
  <1> DEFINE F == HeldBy(tree, E)
  <1>5. /\ F \in KVP!EvictSets(n - Cardinality(free)) /\ PagesOf(tree, E) = KVP!PagesAt(F)
        /\ CachedMap' = KVP!WithoutPaths(F) /\ kv' = KVP!Erased(KVP!PagesAt(F))
        /\ TreeInv'
    BY <1>1, <1>3, <1>4, EvictStep
  <1>6. KVP!ExtendTable(r, n, free \cup KVP!PagesAt(F))
    BY <1>1, <1>5, SameExtend
  <1> HIDE DEF F
  <1> QED BY <1>5, <1>6, SameCardinality DEF KVP!GrowTable

\* allocate raising "KV pool exhausted".
LEMMA ExhaustedStep ==
    ASSUME EngineInv, NEW n \in Nat, Exhausted(n)
    PROVE  KVP!Exhausted(n) /\ TreeInv'
  <1>1. PICK E \in EvictableSets(tree, n - Cardinality(free)) :
            /\ Cardinality(free) + PageCount(tree, E) < n /\ Evicted(E)
            /\ free' = free \cup PagesOf(tree, E) /\ UNCHANGED st
    BY DEF Exhausted
  <1>2. IsFiniteSet(free)
    BY StatesTyped, PageAssumption, FS_Subset DEF EngineInv
  <1>3. n - Cardinality(free) \in Int /\ Cardinality(free) \in Nat
    BY <1>2, FS_CardinalityType
  <1> DEFINE F == HeldBy(tree, E)
  <1>4. /\ PagesOf(tree, E) = KVP!PagesAt(F)
        /\ PageCount(tree, E) = Cardinality(F) /\ PageCount(tree, E) \in Nat
        /\ CachedMap' = KVP!WithoutPaths(F) /\ kv' = KVP!Erased(KVP!PagesAt(F))
        /\ n - Cardinality(free) > PageCount(tree, E) => F = KVP!Unlocked(st)
        /\ TreeInv'
    BY <1>1, <1>3, EvictStep
  <1> HIDE DEF F
  <1>5. F = KVP!Unlocked(st)
    BY <1>1, <1>3, <1>4
  <1>6. n > KVP!Available(st)
    BY <1>1, <1>4, <1>5, SameCardinality DEF KVP!Available
  <1> QED BY <1>1, <1>4, <1>5, <1>6 DEF KVP!Exhausted

\* The pages an allocation asks for are a number.
LEMMA PrefillNeededNat ==
    ASSUME KVP!KVInv, NEW r \in Request, MayPrefill(r), NEW chunk \in ChunkSizes
    PROVE  PrefillNeeded(r, st[r], chunk) \in Nat
  <1>1. KVP!MayPrefill(r) /\ chunk \in Nat
    BY SameRequests, ChunkAssumption
  <1>2. KVP!PrefillNeeded(r, st[r], chunk) \in Nat
    BY <1>1, KVP!ChunkBounds, PageSizeAssumption, PromptAssumption, MaxNewAssumption,
       StopAssumption, CacheOnAssumption, ChunkAssumption, SameFinite
  <1> QED BY <1>2, SameTables

\* A request in decode never needs a negative number of pages.
LEMMA DecodeNeededNat ==
    ASSUME KVP!KVInv, NEW r \in Request, MayDecode(r)
    PROVE  Missing(st[r], st[r].len + 1) \in Nat
  <1>1. KVP!MayDecode(r)
    BY SameRequests
  <1>2. KVP!Missing(st[r], st[r].len + 1) \in Nat
    BY <1>1, KVP!DecodeBounds, PageSizeAssumption, PromptAssumption, MaxNewAssumption,
       StopAssumption, CacheOnAssumption, ChunkAssumption, SameFinite
  <1> QED BY <1>2, SameTables

\* A prefill that grows its table, evicting if it must, does so on the map as well.
LEMMA GrowForPrefillStep ==
    ASSUME EngineInv, NEW r \in Request, GrowForPrefill(r)
    PROVE  KVP!GrowForPrefill(r) /\ TreeInv'
  <1>1. PICK chunk \in ChunkSizes :
            /\ PrefillNeeded(r, st[r], chunk) > 0
            /\ GrowTable(r, PrefillNeeded(r, st[r], chunk))
    BY DEF GrowForPrefill
  <1>2. MayPrefill(r) /\ UNCHANGED <<out, rehydrate>>
    BY DEF GrowForPrefill
  <1>3. PrefillNeeded(r, st[r], chunk) \in Nat
    BY <1>2, PrefillNeededNat DEF EngineInv
  <1>4. KVP!GrowTable(r, PrefillNeeded(r, st[r], chunk)) /\ TreeInv'
    BY <1>1, <1>3, GrowStep
  <1> QED BY <1>1, <1>2, <1>4, SameRequests, SameTables DEF KVP!GrowForPrefill

\* So does a decode.
LEMMA GrowForDecodeStep ==
    ASSUME EngineInv, NEW r \in Request, GrowForDecode(r)
    PROVE  KVP!GrowForDecode(r) /\ TreeInv'
  <1>1. /\ MayDecode(r) /\ Missing(st[r], st[r].len + 1) > 0
        /\ GrowTable(r, Missing(st[r], st[r].len + 1)) /\ UNCHANGED <<out, rehydrate>>
    BY DEF GrowForDecode
  <1>2. Missing(st[r], st[r].len + 1) \in Nat
    BY <1>1, DecodeNeededNat DEF EngineInv
  <1>3. KVP!GrowTable(r, Missing(st[r], st[r].len + 1)) /\ TreeInv'
    BY <1>1, <1>2, GrowStep
  <1> QED BY <1>1, <1>3, SameRequests, SameTables DEF KVP!GrowForDecode

\* An allocation that fails has evicted all that can be evicted, on the map as well.
LEMMA RunOutStep ==
    ASSUME EngineInv, NEW r \in Request, RunOut(r)
    PROVE  KVP!RunOut(r) /\ TreeInv'
  <1>1. UNCHANGED <<out, rehydrate>>
    BY DEF RunOut
  <1>2. CASE \E chunk \in ChunkSizes :
                MayPrefill(r) /\ Exhausted(PrefillNeeded(r, st[r], chunk))
    <2>1. PICK chunk \in ChunkSizes :
            MayPrefill(r) /\ Exhausted(PrefillNeeded(r, st[r], chunk))
      BY <1>2
    <2>2. PrefillNeeded(r, st[r], chunk) \in Nat
      BY <2>1, PrefillNeededNat DEF EngineInv
    <2>3. KVP!Exhausted(PrefillNeeded(r, st[r], chunk)) /\ TreeInv'
      BY <2>1, <2>2, ExhaustedStep
    <2> QED BY <1>1, <2>1, <2>3, SameRequests, SameTables DEF KVP!RunOut
  <1>3. CASE MayDecode(r) /\ Exhausted(Missing(st[r], st[r].len + 1))
    <2>1. Missing(st[r], st[r].len + 1) \in Nat
      BY <1>3, DecodeNeededNat DEF EngineInv
    <2>2. KVP!Exhausted(Missing(st[r], st[r].len + 1)) /\ TreeInv'
      BY <1>3, <2>1, ExhaustedStep
    <2> QED BY <1>1, <1>3, <2>2, SameRequests, SameTables DEF KVP!RunOut
  <1> QED BY <1>2, <1>3 DEF RunOut

-------------------------------------------------------------------------------
(* commit_paged_cache. *)

\* A map with the pages of a table for the paths on the way to p beyond k.
Extended(f, p, k, table) ==
    [q \in DOMAIN f \cup Beyond(p, k) |-> IF q \in DOMAIN f THEN f[q] ELSE table[Len(q)]]

\* Inserting p with the pages of a table makes w of t, which had the first
\* had blocks of p.
Inserts(t, s, p, table, w, had) ==
    /\ TreeOK(t, s) /\ p \in Path /\ table \in Seq(Page) /\ Len(p) <= Len(table)
    /\ w = Insert(t, p, table).tree /\ had = Insert(t, p, table).had

\* insert_and_return keeps all that is in the map and adds the rest of p.
LEMMA TreeInserted ==
    ASSUME NEW t, NEW s, NEW p, NEW table, NEW w, NEW had, Inserts(t, s, p, table, w, had)
    PROVE  /\ TreeOK(w, s) /\ p \in Nodes(w) \cup {Root} /\ had \in 0 .. Len(p)
           /\ \A i \in 1 .. had : Upto(p, i) \in PathsIn(t)
           /\ \A i \in had + 1 .. Len(p) : Upto(p, i) \notin PathsIn(t)
           /\ PathsIn(w) = PathsIn(t) \cup Beyond(p, had)
           /\ MapOf(w) = Extended(MapOf(t), p, had, table)
           /\ PagesForNode(w, p) = PagesUpto(MapOf(w), p, Len(p))
           /\ \A i \in 1 .. had : MapOf(w)[Upto(p, i)] = MapOf(t)[Upto(p, i)]
           /\ \A i \in had + 1 .. Len(p) : MapOf(w)[Upto(p, i)] = table[i]
  <1>0. PICK B : B = Seq(Token)
    OBVIOUS
  <1>1. /\ RadixTree(B, Page, t) /\ p \in Seq(B) /\ table \in Seq(Page) /\ Len(p) <= Len(table)
        /\ w = Insert(t, p, table).tree /\ had = Insert(t, p, table).had
    BY <1>0 DEF Inserts, TreeOK, Path
  <1>2. /\ RadixTree(B, Page, w) /\ p \in Nodes(w) \cup {Root}
        /\ had \in 0 .. Len(p)
        /\ \A i \in 1 .. had : Upto(p, i) \in PathsIn(t)
        /\ \A i \in had + 1 .. Len(p) : Upto(p, i) \notin PathsIn(t)
        /\ PathsIn(w) = PathsIn(t) \cup Beyond(p, had)
        /\ \A q \in PathsIn(t) : MapOf(w)[q] = MapOf(t)[q]
        /\ \A i \in had + 1 .. Len(p) : MapOf(w)[Upto(p, i)] = table[i]
        /\ Nodes(t) \subseteq Nodes(w)
        /\ RefsFromOr0(t, w)
    BY ONLY <1>1, InsertKeeps
  <1>3. TreeOK(w, s)
    <2>1. HeldIn(t, s) /\ Counts(t, s)
      BY DEF Inserts, TreeOK
    <2> QED BY <1>0, <1>2, <2>1, CountsFrom DEF TreeOK, HeldIn
  <1>4. \A i \in had + 1 .. Len(p) : Len(Upto(p, i)) = i
    BY <1>1, <1>2, PrefixLengths
  <1>5. MapOf(w) = Extended(MapOf(t), p, had, table)
    <2>1. DOMAIN MapOf(t) = PathsIn(t) /\ MapOf(w) = [q \in PathsIn(w) |-> MapOf(w)[q]]
      BY DEF MapOf
    <2>2. ASSUME NEW q \in PathsIn(w), q \notin PathsIn(t)
          PROVE  MapOf(w)[q] = table[Len(q)]
      <3>1. PICK i \in had + 1 .. Len(p) : q = Upto(p, i)
        BY <1>2, <2>2 DEF Beyond
      <3> QED BY <3>1, <1>2, <1>4
    <2> QED BY <1>2, <2>1, <2>2 DEF Extended
  <1>6. PagesForNode(w, p) = PagesUpto(MapOf(w), p, Len(p))
    <2>1. Nodes(w) \subseteq Seq(B) \ {Root} /\ Branching(w)
      BY <1>2 DEF RadixTree, TreeOver
    <2> QED BY <1>2, <2>1, MapOfNode
  <1> QED BY <1>2, <1>3, <1>5, <1>6

\* Tree t and states s become u and z when r exchanges what it holds for p.
Exchanges(t, s, r, p, u, z) ==
    /\ TreeOK(t, s) /\ r \in Request /\ p \in Nodes(t) \cup {Root}
    /\ u = Ranked(IncLockRef(DecLockRef(t, s[r].node), p))
    /\ SameBut(s, z, r) /\ z[r].node = p

\* Unlocking the old node and locking the new one leaves the map as it was.
LEMMA TreeRelocked ==
    ASSUME NEW t, NEW s, NEW r, NEW p, NEW u, NEW z, Exchanges(t, s, r, p, u, z)
    PROVE  /\ TreeOK(u, z) /\ u \in [Nodes(u) -> NodeType]
           /\ MapOf(u) = MapOf(t) /\ PathsIn(u) = PathsIn(t)
  <1>0. PICK B, d, v, w : B = Seq(Token) /\ d = s[r].node /\ v = DecLockRef(t, d)
                          /\ w = IncLockRef(v, p)
    OBVIOUS
  <1>1. RadixTree(B, Page, t) /\ HeldIn(t, s) /\ Counts(t, s) /\ r \in Request
    BY <1>0 DEF Exchanges, TreeOK
  <1>2. /\ RadixTree(B, Page, v) /\ MapOf(v) = MapOf(t) /\ PathsIn(v) = PathsIn(t)
        /\ Nodes(v) = Nodes(t)
        /\ \A m \in Nodes(t) :
             v[m].ref_count = IF Covers(d, m) THEN t[m].ref_count - 1 ELSE t[m].ref_count
    BY <1>0, <1>1, DecKeeps
  <1>3. /\ RadixTree(B, Page, w) /\ MapOf(w) = MapOf(v) /\ PathsIn(w) = PathsIn(v)
        /\ Nodes(w) = Nodes(v)
        /\ \A m \in Nodes(v) :
             w[m].ref_count = IF Covers(p, m) THEN v[m].ref_count + 1 ELSE v[m].ref_count
    BY <1>0, <1>2, IncKeeps
  <1>4. /\ RadixTree(B, Page, u) /\ MapOf(u) = MapOf(w) /\ PathsIn(u) = PathsIn(w)
        /\ Nodes(u) = Nodes(w) /\ u \in [Nodes(u) -> NodeOver(Page, Nat)]
        /\ \A m \in Nodes(w) : u[m].ref_count = w[m].ref_count
    <2>1. u = Ranked(w)
      BY <1>0 DEF Exchanges
    <2> QED BY <1>3, <2>1, RankedKeeps
  <1>5. Nodes(t) \subseteq Path \ {Root}
    BY <1>0, <1>1 DEF RadixTree, TreeOver, Path
  \* Between the two, r holds nothing.
  <1> DEFINE y == [q \in Request |-> IF q = r THEN NoState ELSE s[q]]
  <1>6. y[r].node = Root /\ \A q \in Request \ {r} : y[q] = s[q] /\ z[q] = y[q]
    BY <1>1 DEF NoState, Root, Exchanges, SameBut
  <1> HIDE DEF y
  <1>7. Counts(v, y)
    BY <1>0, <1>1, <1>2, <1>5, <1>6, CountsDec
  <1>8. Counts(w, z)
    <2>1. Nodes(v) \subseteq Path \ {Root} /\ Nodes(w) = Nodes(v)
      BY <1>2, <1>3, <1>5
    <2>2. \A m \in Nodes(v) :
            w[m].ref_count = IF Covers(z[r].node, m) THEN v[m].ref_count + 1
                                                     ELSE v[m].ref_count
      BY <1>3 DEF Exchanges
    <2> QED BY <1>1, <1>6, <1>7, <2>1, <2>2, CountsInc
  <1>9. Counts(u, z)
    BY <1>4, <1>8 DEF Counts
  <1>10. HeldIn(u, z)
    <2>1. Nodes(u) = Nodes(t) /\ z[r].node \in Nodes(t) \cup {Root}
      BY <1>2, <1>3, <1>4 DEF Exchanges
    <2> QED BY <1>1, <1>6, <2>1 DEF HeldIn
  <1> QED BY <1>0, <1>2, <1>3, <1>4, <1>9, <1>10 DEF TreeOK, NodeOver, NodeType

\* k paths lie beyond the first had on the way to p.
LEMMA BeyondCount ==
    ASSUME NEW B, NEW p \in Seq(B), NEW k \in 0 .. Len(p)
    PROVE  IsFiniteSet(Beyond(p, k)) /\ Cardinality(Beyond(p, k)) = Len(p) - k
  <1> DEFINE I == k + 1 .. Len(p)
             f == [i \in I |-> Upto(p, i)]
             T == Beyond(p, k)
  <1>0. k + 1 \in Int /\ Len(p) \in Int /\ k <= Len(p) /\ k \in Int
    OBVIOUS
  <1>1. IsFiniteSet(I)
    BY <1>0, FS_Interval
  <1>2. Cardinality(I) = Len(p) - k
    <2>1. Cardinality(I) = IF k + 1 > Len(p) THEN 0 ELSE Len(p) - (k + 1) + 1
      BY ONLY <1>0, FS_Interval
    <2> QED BY <1>0, <2>1
  <1>3. T = {f[i] : i \in I}
    BY DEF Beyond
  <1>4. \A i, j \in I : f[i] = f[j] => i = j
    <2>1. \A i \in I : f[i] = Upto(p, i) /\ Len(Upto(p, i)) = i
      BY PrefixLengths
    <2> QED BY <2>1
  <1>6. f \in [I -> T]
    BY DEF Beyond
  <1> HIDE DEF I, f, T
  <1>5. IsFiniteSet(T) /\ Cardinality(T) = Cardinality(I)
    BY ONLY <1>1, <1>3, <1>4, <1>6, FiniteImage
  <1> QED BY <1>2, <1>5 DEF T

\* One sequence followed by another, element by element.
LEMMA Joined ==
    ASSUME NEW S, NEW a \in Seq(S), NEW b \in Seq(S)
    PROVE  /\ Len(a \o b) = Len(a) + Len(b)
           /\ a \o b = [i \in 1 .. Len(a) + Len(b) |-> (a \o b)[i]]
           /\ \A i \in 1 .. Len(a) : (a \o b)[i] = a[i]
           /\ \A i \in Len(a) + 1 .. Len(a) + Len(b) : (a \o b)[i] = b[i - Len(a)]
  <1>1. a \o b \in Seq(S) /\ Len(a \o b) = Len(a) + Len(b)
    OBVIOUS
  <1>2. \A i \in 1 .. Len(a) : (a \o b)[i] = a[i]
    OBVIOUS
  <1>3. \A i \in Len(a) + 1 .. Len(a) + Len(b) : (a \o b)[i] = b[i - Len(a)]
    OBVIOUS
  <1>4. \A s \in Seq(S) : s = [i \in 1 .. Len(s) |-> s[i]]
    OBVIOUS
  <1>5. a \o b = [i \in 1 .. Len(a \o b) |-> (a \o b)[i]]
    BY <1>1, <1>4
  <1> QED BY <1>1, <1>2, <1>3, <1>5

\* The table a commit leaves: cached pages for the first k paths on the way
\* to p, the request's own after.
TableAfter(f, p, k, table) ==
    [i \in 1 .. Len(table) |-> IF i <= k THEN f[Upto(p, i)] ELSE table[i]]

\* Rereading the pages of p from the tree, and keeping what lies past them,
\* gives that table.
LEMMA CommittedTable ==
    ASSUME NEW table \in Seq(Page), NEW p, Len(p) \in 0 .. Len(table), NEW k \in 0 .. Len(p),
           NEW f, NEW g, \A i \in 1 .. k : g[Upto(p, i)] = f[Upto(p, i)],
           \A i \in k + 1 .. Len(p) : g[Upto(p, i)] = table[i],
           PagesUpto(g, p, Len(p)) \in Seq(Page)
    PROVE  PagesUpto(g, p, Len(p)) \o SubSeq(table, Len(p) + 1, Len(table))
             = TableAfter(f, p, k, table)
  <1>0. PICK head, tail, n, l : /\ head = PagesUpto(g, p, Len(p)) /\ n = Len(table) /\ l = Len(p)
                                /\ tail = SubSeq(table, Len(p) + 1, Len(table))
    OBVIOUS
  <1>1. n \in Nat /\ l \in Nat /\ l <= n /\ k \in Nat /\ k <= l
    BY <1>0
  <1>2. head \in Seq(Page) /\ Len(head) = l /\ \A i \in 1 .. l : head[i] = g[Upto(p, i)]
    <2>1. head = [i \in 1 .. l |-> g[Upto(p, i)]] /\ head \in Seq(Page)
      BY <1>0 DEF PagesUpto
    <2> QED BY <1>1, <2>1
  <1>3. tail \in Seq(Page) /\ Len(tail) = n - l /\ \A i \in 1 .. n - l : tail[i] = table[l + i]
    BY <1>0, <1>1, Cut
  <1>4. /\ head \o tail = [i \in 1 .. n |-> (head \o tail)[i]]
        /\ \A i \in 1 .. l : (head \o tail)[i] = head[i]
        /\ \A i \in l + 1 .. n : (head \o tail)[i] = tail[i - l]
    <2>1. Len(head) + Len(tail) = n
      BY <1>1, <1>2, <1>3
    <2>2. /\ head \o tail = [i \in 1 .. Len(head) + Len(tail) |-> (head \o tail)[i]]
          /\ \A i \in 1 .. Len(head) : (head \o tail)[i] = head[i]
          /\ \A i \in Len(head) + 1 .. Len(head) + Len(tail) :
               (head \o tail)[i] = tail[i - Len(head)]
      BY ONLY <1>2, <1>3, Joined
    <2> QED BY <1>2, <2>1, <2>2
  <1>5. ASSUME NEW i \in 1 .. n
        PROVE  (head \o tail)[i] = IF i <= k THEN f[Upto(p, i)] ELSE table[i]
    <2>1. CASE i <= k
      <3>1. i \in 1 .. l /\ i \in 1 .. k
        BY <1>1, <2>1
      <3>2. g[Upto(p, i)] = f[Upto(p, i)]
        BY <3>1
      <3> QED BY <1>2, <1>4, <2>1, <3>1, <3>2
    <2>2. CASE ~(i <= k) /\ i <= l
      <3>1. i \in 1 .. l /\ i \in k + 1 .. Len(p)
        BY <1>0, <1>1, <2>2
      <3>2. g[Upto(p, i)] = table[i]
        BY <3>1
      <3> QED BY <1>2, <1>4, <2>2, <3>1, <3>2
    <2>3. CASE ~(i <= k) /\ ~(i <= l)
      <3>1. i \in l + 1 .. n /\ i - l \in 1 .. n - l /\ l + (i - l) = i
        BY <1>1, <2>3
      <3> QED BY <1>3, <1>4, <2>3, <3>1
    <2>4. CASE i <= k \/ ~(i <= k)
      BY <1>1, <2>1, <2>2, <2>3
    <2> QED BY <2>4
  <1>6. head \o tail = TableAfter(f, p, k, table)
    BY <1>0, <1>4, <1>5 DEF TableAfter
  <1> QED BY <1>0, <1>6

\* commit_paged_cache on the tree is a commit on the map, which had as many
\* blocks of the path as the insertion found.
LEMMA CommitStep ==
    ASSUME EngineInv, NEW r \in Request, NEW finished \in BOOLEAN, CommitPagedCache(r, finished)
    PROVE  KVP!CommitPagedCache(r, finished) /\ TreeInv'
  <1>0. PICK s, p, w, had : /\ s = st[r] /\ p = CommitPath(r)
                            /\ w = Insert(tree, p, s.table).tree
                            /\ had = Insert(tree, p, s.table).had
    OBVIOUS
  <1>1. /\ numCached' = numCached + (Len(p) - had)
        /\ free' = free \cup CommitFreed(s, p, had, finished)
        /\ kv' = Erased(CommitFreed(s, p, had, finished))
        /\ IF finished
           THEN /\ tree' = Ranked(DecLockRef(w, s.node))
                /\ st' = [st EXCEPT ![r] = NoState]
           ELSE /\ tree' = Ranked(IncLockRef(DecLockRef(w, s.node), p))
                /\ st' = [st EXCEPT ![r] =
                            [s EXCEPT !.table = PagesForNode(w, p) \o
                                          SubSeq(s.table, Len(p) + 1, Len(s.table)),
                                      !.node = p,
                                      !.prepared = TRUE]]
    BY <1>0 DEF CommitPagedCache
  <1>2. /\ TreeOK(tree, st) /\ numCached = Cardinality(PathsIn(tree))
        /\ st \in [Request -> StateType] /\ s \in StateType /\ s.table \in Seq(Page)
        /\ p \in Path /\ Len(p) \in 0 .. Len(s.table)
    BY <1>0, StatesTyped, CommitPathTyped DEF EngineInv, TreeInv, StateType
  <1>3. Inserts(tree, st, p, s.table, w, had)
    BY <1>0, <1>2 DEF Inserts
  <1>4. /\ TreeOK(w, st) /\ p \in Nodes(w) \cup {Root} /\ had \in 0 .. Len(p)
        /\ \A i \in 1 .. had : Upto(p, i) \in PathsIn(tree)
        /\ \A i \in had + 1 .. Len(p) : Upto(p, i) \notin PathsIn(tree)
        /\ PathsIn(w) = PathsIn(tree) \cup Beyond(p, had)
        /\ MapOf(w) = Extended(MapOf(tree), p, had, s.table)
        /\ PagesForNode(w, p) = PagesUpto(MapOf(w), p, Len(p))
        /\ \A i \in 1 .. had : MapOf(w)[Upto(p, i)] = MapOf(tree)[Upto(p, i)]
        /\ \A i \in had + 1 .. Len(p) : MapOf(w)[Upto(p, i)] = s.table[i]
    BY <1>3, TreeInserted
  \* What the step makes of the table.
  <1> DEFINE table == PagesForNode(w, p) \o SubSeq(s.table, Len(p) + 1, Len(s.table))
             new == [s EXCEPT !.table = table, !.node = p, !.prepared = TRUE]
  <1>5. table = TableAfter(MapOf(tree), p, had, s.table)
    <2>1. PagesUpto(MapOf(w), p, Len(p)) \in Seq(Page)
      <3>1. \A q \in PathsIn(tree) : MapOf(tree)[q] \in Page
        BY MapIsCached DEF EngineInv, KVP!KVInv, KVP!KVTypeOK
      <3>2. \A i \in 1 .. Len(p) : MapOf(w)[Upto(p, i)] \in Page
        <4> SUFFICES ASSUME NEW i \in 1 .. Len(p)
                     PROVE  MapOf(w)[Upto(p, i)] \in Page
          OBVIOUS
        <4>1. CASE i <= had
          <5>1. i \in 1 .. had
            BY <1>4, <4>1
          <5> QED BY <1>4, <5>1, <3>1
        <4>2. CASE ~(i <= had)
          <5>1. i \in had + 1 .. Len(p) /\ i \in 1 .. Len(s.table)
            BY <1>2, <1>4, <4>2
          <5>2. s.table[i] \in Page
            BY <1>2, <5>1
          <5> QED BY <1>4, <5>1, <5>2
        <4> QED BY <4>1, <4>2
      <3>3. PagesUpto(MapOf(w), p, Len(p)) \in [1 .. Len(p) -> Page]
        BY <3>2 DEF PagesUpto
      <3>4. Len(p) \in Nat
        BY <1>2
      <3> QED BY ONLY <3>3, <3>4, FunctionIsSeq
    <2>2. PagesUpto(MapOf(w), p, Len(p)) \o SubSeq(s.table, Len(p) + 1, Len(s.table))
            = TableAfter(MapOf(tree), p, had, s.table)
      BY ONLY <1>2, <1>4, <2>1, CommittedTable
    <2> QED BY <1>4, <2>2
  <1> HIDE DEF table
  <1>6. /\ st' = [st EXCEPT ![r] = IF finished THEN NoState ELSE new]
        /\ \A q \in Request \ {r} : st'[q] = st[q]
        /\ st'[r] = IF finished THEN NoState ELSE new
    BY <1>1, <1>2 DEF table
  <1>7. /\ TreeOK(tree', st') /\ tree' \in [Nodes(tree') -> NodeType]
        /\ MapOf(tree') = MapOf(w) /\ PathsIn(tree') = PathsIn(w)
    <2>1. CASE finished
      <3>1. GivesUp(w, st, r, tree', st')
        BY <1>0, <1>1, <1>4, <1>6, <2>1 DEF GivesUp, SameBut, NoState, Root
      <3> QED BY <3>1, TreeReleased
    <2>2. CASE ~finished
      <3>1. st'[r].node = p
        BY <1>2, <1>6, <2>2 DEF StateType
      <3>2. Exchanges(w, st, r, p, tree', st')
        BY <1>0, <1>1, <1>4, <1>6, <2>2, <3>1 DEF Exchanges, SameBut
      <3> QED BY <3>2, TreeRelocked
    <2> QED BY <2>1, <2>2
  <1>8. numCached' = Cardinality(PathsIn(tree'))
    <2>1. IsFiniteSet(PathsIn(tree))
      <3>1. RadixTree(Seq(Token), Page, tree)
        BY <1>2 DEF TreeOK
      <3> QED BY <3>1, AllHeld
    <2>2. IsFiniteSet(Beyond(p, had)) /\ Cardinality(Beyond(p, had)) = Len(p) - had
      <3>1. p \in Seq(Seq(Token)) /\ had \in 0 .. Len(p)
        BY <1>2, <1>4 DEF Path
      <3> QED BY ONLY <3>1, BeyondCount
    <2>3. PathsIn(tree) \cap Beyond(p, had) = {}
      BY <1>4 DEF Beyond
    <2>4. Cardinality(PathsIn(tree) \cup Beyond(p, had))
            = Cardinality(PathsIn(tree)) + Cardinality(Beyond(p, had))
                - Cardinality(PathsIn(tree) \cap Beyond(p, had))
      BY ONLY <2>1, <2>2, FS_Union
    <2>5. Cardinality(PathsIn(tree)) \in Nat /\ Cardinality(Beyond(p, had)) \in Nat
      BY <2>1, <2>2, FS_CardinalityType
    <2>6. Cardinality(PathsIn(tree) \cup Beyond(p, had))
            = Cardinality(PathsIn(tree)) + Cardinality(Beyond(p, had))
      BY <2>3, <2>4, <2>5, FS_EmptySet
    <2>7. PathsIn(tree') = PathsIn(tree) \cup Beyond(p, had)
      BY <1>4, <1>7
    <2> QED BY <1>1, <1>2, <2>2, <2>6, <2>7
  <1>9. TreeInv'
    BY <1>7, <1>8 DEF TreeInv
  \* The same on the map.
  <1> DEFINE freed(k) == {s.table[i] : i \in (Len(s.node) + 1 .. k) \cup
                            (IF finished THEN Len(p) + 1 .. Len(s.table) ELSE {})}
             added(k) == {KVP!Upto(p, i) : i \in k + 1 .. Len(p)}
  <1>10. freed(had) = CommitFreed(s, p, had, finished)
    BY DEF CommitFreed
  <1>11. KVP!LongestHit(p, had)
    BY <1>4, MapIsCached, SamePaths DEF KVP!LongestHit
  <1>12. CachedMap' = [q \in KVP!Cached \cup added(had) |->
                         IF q \in KVP!Cached THEN CachedMap[q] ELSE s.table[Len(q)]]
    <2>1. CachedMap' = MapOf(tree')
      BY DEF CachedMap, MapOf, PathsIn
    <2>2. DOMAIN MapOf(tree) = PathsIn(tree)
      BY DEF MapOf
    <2>3. added(had) = Beyond(p, had)
      BY SamePaths DEF Beyond
    <2>4. MapOf(tree') = Extended(MapOf(tree), p, had, s.table)
      BY <1>4, <1>7
    <2> HIDE DEF added
    <2> QED BY <2>1, <2>2, <2>3, <2>4, MapIsCached DEF Extended
  <1>13. ~finished => new = [s EXCEPT !.table = [i \in 1 .. Len(s.table) |->
                                        IF i <= had THEN CachedMap[KVP!Upto(p, i)]
                                                    ELSE s.table[i]],
                                    !.node = p,
                                    !.prepared = TRUE]
    BY <1>5, MapIsCached, SamePaths DEF TableAfter
  <1>14. KVP!CommitPath(r) = p /\ KVP!NoState = NoState
    BY <1>0, SameRequests
  <1>15. kv' = KVP!Erased(freed(had)) /\ free' = free \cup freed(had)
    BY <1>1, <1>10, SameErased
  <1>16. st' = [st EXCEPT ![r] =
                  IF finished THEN KVP!NoState
                  ELSE [s EXCEPT !.table = [i \in 1 .. Len(s.table) |->
                                              IF i <= had THEN CachedMap[KVP!Upto(p, i)]
                                                          ELSE s.table[i]],
                                 !.node = p,
                                 !.prepared = TRUE]]
    <2> HIDE DEF new
    <2> QED BY <1>6, <1>13, <1>14
  <1>17. KVP!CommitPagedCache(r, finished)
    <2> DEFINE S == st[r]
               P == KVP!CommitPath(r)
               freed1(k) == {S.table[i] : i \in (Len(S.node) + 1 .. k) \cup
                               (IF finished THEN Len(P) + 1 .. Len(S.table) ELSE {})}
               added1(k) == {KVP!Upto(P, i) : i \in k + 1 .. Len(P)}
    <2>1. S = s /\ P = p
      BY <1>0, <1>14
    <2>2. freed1(had) = freed(had) /\ added1(had) = added(had)
      BY <2>1
    <2>3. /\ had \in 0 .. Len(P) /\ KVP!LongestHit(P, had)
          /\ free' = free \cup freed1(had) /\ kv' = KVP!Erased(freed1(had))
      BY <1>4, <1>11, <1>15, <2>1, <2>2
    <2>4. CachedMap' = [q \in KVP!Cached \cup added1(had) |->
                         IF q \in KVP!Cached THEN CachedMap[q] ELSE S.table[Len(q)]]
      <3> HIDE DEF added, added1, S
      <3> QED BY <1>12, <2>1, <2>2
    <2>5. st' = [st EXCEPT ![r] =
                  IF finished THEN KVP!NoState
                  ELSE [S EXCEPT !.table = [i \in 1 .. Len(S.table) |->
                                              IF i <= had THEN CachedMap[KVP!Upto(P, i)]
                                                          ELSE S.table[i]],
                                 !.node = P,
                                 !.prepared = TRUE]]
      <3> HIDE DEF S, P
      <3> QED BY <1>16, <2>1
    <2> QED BY <2>3, <2>4, <2>5 DEF KVP!CommitPagedCache
  <1> QED BY <1>9, <1>17

-------------------------------------------------------------------------------
(* Every step of the engine on the tree is one on the map. *)

\* The token after a prefill commits the prompt on the map as it does in the tree.
LEMMA FirstTokenStep ==
    ASSUME EngineInv, NEW r \in Request, NEW x \in Token, FirstToken(r, x)
    PROVE  KVP!FirstToken(r, x) /\ TreeInv'
  <1>1. /\ Prefilling(r) /\ ~rehydrate[r] /\ st[r].prepared /\ PrefillComplete(r, st[r])
        /\ out' = [out EXCEPT ![r] = Append(@, x)] /\ UNCHANGED rehydrate
        /\ CommitPagedCache(r, CheckFinished(out'[r]))
    BY DEF FirstToken
  <1>2. CheckFinished(out'[r]) \in BOOLEAN
    BY DEF CheckFinished
  <1>3. KVP!CommitPagedCache(r, CheckFinished(out'[r])) /\ TreeInv'
    BY <1>1, <1>2, CommitStep
  <1>4. KVP!CheckFinished(out'[r]) = CheckFinished(out'[r])
    BY DEF KVP!CheckFinished, CheckFinished
  <1> QED BY <1>1, <1>3, <1>4, SameRequests DEF KVP!FirstToken

\* A decoded token commits if it is the last one.
LEMMA NextTokenStep ==
    ASSUME EngineInv, NEW r \in Request, NEW x \in Token, NextToken(r, x)
    PROVE  KVP!NextToken(r, x) /\ TreeInv'
  <1>1. /\ Running(r) /\ st[r].len = Len(Ids(r))
        /\ out' = [out EXCEPT ![r] = Append(@, x)] /\ UNCHANGED rehydrate
    BY DEF NextToken
  <1>2. KVP!CheckFinished(out'[r]) <=> CheckFinished(out'[r])
    BY DEF KVP!CheckFinished, CheckFinished
  <1>3. CASE CheckFinished(out'[r])
    <2>1. CommitPagedCache(r, TRUE)
      BY <1>3 DEF NextToken
    <2>2. KVP!CommitPagedCache(r, TRUE) /\ TreeInv'
      BY <2>1, CommitStep
    <2> QED BY <1>1, <1>2, <1>3, <2>2, SameRequests DEF KVP!NextToken
  <1>4. CASE ~CheckFinished(out'[r])
    <2>1. UNCHANGED <<st, tree, numCached, free, kv>>
      BY <1>4 DEF NextToken
    <2>2. CachedMap' = CachedMap /\ TreeInv'
      BY <2>1, TreeStays
    <2> QED BY <1>1, <1>2, <1>4, <2>1, <2>2, SameRequests DEF KVP!NextToken
  <1> QED BY <1>3, <1>4

\* Each action of the engine is the action of the same name on the map.
LEMMA StepMaps ==
    ASSUME EngineInv, EngineNext
    PROVE  KVP!KVNext /\ TreeInv'
  <1>1. ASSUME NEW r \in Request, Prepare(r)
        PROVE  KVP!KVNext /\ TreeInv'
    BY <1>1, PrepareStep DEF KVP!KVNext
  <1>2. ASSUME NEW r \in Request, Release(r)
        PROVE  KVP!KVNext /\ TreeInv'
    BY <1>2, ReleaseStep DEF KVP!KVNext
  <1>3. ASSUME NEW r \in Request, Resume(r)
        PROVE  KVP!KVNext /\ TreeInv'
    <2>1. {r} \in (SUBSET Request) \ {{}}
      OBVIOUS
    <2> QED BY <1>3, <2>1, ResumeStep DEF KVP!KVNext
  <1>4. ASSUME NEW r \in Request, Retract(r)
        PROVE  KVP!KVNext /\ TreeInv'
    BY <1>4, RetractStep DEF KVP!KVNext
  <1>5. ASSUME NEW r \in Request, RunOut(r)
        PROVE  KVP!KVNext /\ TreeInv'
    BY <1>5, RunOutStep DEF KVP!KVNext
  <1>6. ASSUME NEW r \in Request, GrowForPrefill(r)
        PROVE  KVP!KVNext /\ TreeInv'
    BY <1>6, GrowForPrefillStep DEF KVP!KVNext
  <1>7. ASSUME NEW r \in Request, GrowForDecode(r)
        PROVE  KVP!KVNext /\ TreeInv'
    BY <1>7, GrowForDecodeStep DEF KVP!KVNext
  <1>8. ASSUME NEW r \in Request, NEW x \in Token, FirstToken(r, x)
        PROVE  KVP!KVNext /\ TreeInv'
    BY <1>8, FirstTokenStep DEF KVP!KVNext
  <1>9. ASSUME NEW r \in Request, NEW x \in Token, NextToken(r, x)
        PROVE  KVP!KVNext /\ TreeInv'
    BY <1>9, NextTokenStep DEF KVP!KVNext
  <1>10. ASSUME NEW R \in (SUBSET Request) \ {{}}, PrefillForward(R)
         PROVE  KVP!KVNext /\ TreeInv'
    BY <1>10, PrefillForwardStep DEF KVP!KVNext
  <1>11. ASSUME NEW R \in (SUBSET Request) \ {{}}, DecodeForward(R)
         PROVE  KVP!KVNext /\ TreeInv'
    BY <1>11, DecodeForwardStep DEF KVP!KVNext
  <1> QED BY <1>1, <1>2, <1>3, <1>4, <1>5, <1>6, <1>7, <1>8, <1>9, <1>10, <1>11 DEF EngineNext

\* The empty tree is the empty map.
LEMMA EngineStarts == EngineInit => KVP!KVInit /\ EngineInv
  <1> SUFFICES ASSUME EngineInit
               PROVE  KVP!KVInit /\ EngineInv
    OBVIOUS
  <1>1. /\ out = [r \in Request |-> <<>>] /\ rehydrate = [r \in Request |-> FALSE]
        /\ st = [r \in Request |-> NoState] /\ tree = [n \in {} |-> n] /\ numCached = 0
        /\ free = Page /\ kv = [g \in Page |-> <<>>]
    BY DEF EngineInit
  <1>2. Nodes(tree) = {} /\ PathsIn(tree) = {}
    BY <1>1 DEF Nodes, PathsIn
  <1>3. CachedMap = [p \in {} |-> p]
    <2>1. MapOf(tree) = [p \in {} |-> p]
      BY <1>2 DEF MapOf
    <2> QED BY <2>1, MapIsCached
  <1>4. KVP!KVInit
    BY <1>1, <1>3, SameRequests DEF KVP!KVInit
  <1>5. KVP!KVInv
    BY <1>4, KVP!InitKeeps, PageSizeAssumption, PromptAssumption, MaxNewAssumption,
       StopAssumption, CacheOnAssumption, ChunkAssumption, SameFinite
  <1>6. tree \in [Nodes(tree) -> NodeType]
    BY <1>1, <1>2
  <1>7. RadixTree(Seq(Token), Page, tree)
    <2>1. NodeType = NodeOver(Page, Nat)
      BY DEF NodeType, NodeOver
    <2>2. IsFiniteSet(Nodes(tree))
      BY <1>2, FS_EmptySet
    <2> QED BY <1>2, <1>6, <2>1, <2>2 DEF RadixTree, TreeOver, Branching
  <1>8. HeldIn(tree, st) /\ Counts(tree, st)
    BY <1>1, <1>2 DEF HeldIn, Counts, NoState, Root
  <1>9. numCached = Cardinality(PathsIn(tree))
    BY <1>1, <1>2, FS_EmptySet
  <1> QED BY <1>4, <1>5, <1>6, <1>7, <1>8, <1>9 DEF EngineInv, TreeInv, TreeOK

\* EngineInv is inductive, and steps and stutters are so on the map.
LEMMA EngineKeeps ==
    ASSUME EngineInv, [EngineNext]_engineVars
    PROVE  EngineInv' /\ [KVP!KVNext]_(KVP!kvVars)
  <1>1. CASE UNCHANGED engineVars
    <2>1. /\ UNCHANGED <<out, rehydrate, st, tree, numCached, free, kv>>
      BY <1>1 DEF engineVars
    <2>2. CachedMap' = CachedMap /\ TreeInv'
      BY <2>1, TreeStays
    <2>3. UNCHANGED KVP!kvVars
      BY <2>1, <2>2 DEF KVP!kvVars
    <2>4. KVP!KVInv'
      BY <2>3, KVP!NextKeeps, PageSizeAssumption, PromptAssumption, MaxNewAssumption,
         StopAssumption, CacheOnAssumption, ChunkAssumption, SameFinite DEF EngineInv
    <2> QED BY <2>2, <2>3, <2>4 DEF EngineInv
  <1>2. CASE EngineNext
    <2>1. KVP!KVNext /\ TreeInv'
      BY <1>2, StepMaps
    <2>2. KVP!KVInv'
      BY <2>1, KVP!NextKeeps, PageSizeAssumption, PromptAssumption, MaxNewAssumption,
         StopAssumption, CacheOnAssumption, ChunkAssumption, SameFinite DEF EngineInv
    <2> QED BY <2>1, <2>2 DEF EngineInv
  <1> QED BY <1>1, <1>2

\* The invariant of the engine on the tree holds in every reachable state.
THEOREM EngineInvariant == EngineSpec => []EngineInv
  <1>1. EngineInit => EngineInv
    BY EngineStarts
  <1>2. EngineInv /\ [EngineNext]_engineVars => EngineInv'
    BY EngineKeeps
  <1> QED BY <1>1, <1>2, PTL DEF EngineSpec

\* The tree, its counter and the paged states keep their types.
THEOREM EngineTypeCorrect == EngineSpec => []EngineTypeOK
  <1>1. EngineInv => EngineTypeOK
    <2> SUFFICES ASSUME EngineInv
                 PROVE  EngineTypeOK
      OBVIOUS
    <2>1. RadixTree(Seq(Token), Page, tree) /\ tree \in [Nodes(tree) -> NodeType]
      BY DEF EngineInv, TreeInv, TreeOK
    <2>2. Nodes(tree) \subseteq Path
      BY <2>1 DEF RadixTree, TreeOver, Path
    <2>3. numCached \in Int
      <3>1. IsFiniteSet(PathsIn(tree))
        BY <2>1, AllHeld
      <3> QED BY <3>1, FS_CardinalityType DEF EngineInv, TreeInv
    <2> QED BY <2>1, <2>2, <2>3, StatesTyped DEF EngineTypeOK, EngineInv
  <1> QED BY <1>1, EngineInvariant, PTL

\* A node's reference count is the number of requests that hold it or a node
\* below it, whatever splits, commits, evictions and retractions came between.
THEOREM RefCountsAreExact == EngineSpec => []RefCountExact
  <1>1. EngineInv => RefCountExact
    BY DEF EngineInv, TreeInv, TreeOK, Counts, RefsTo, RefCountExact
  <1> QED BY <1>1, EngineInvariant, PTL

\* The node a request holds is never evicted.
THEOREM HeldNodesStay == EngineSpec => []HeldNodesInTree
  <1>1. EngineInv => HeldNodesInTree
    BY DEF EngineInv, TreeInv, TreeOK, HeldIn, HeldNodesInTree
  <1> QED BY <1>1, EngineInvariant, PTL

\* Two nodes have their longest common path for a node, or part at the root.
LEMMA NodesPart ==
    ASSUME NEW B, NEW t, Nodes(t) \subseteq Seq(B) \ {Root}, Branching(t),
           NEW m \in Nodes(t), NEW n \in Nodes(t)
    PROVE  \E k \in 0 .. Len(m) : /\ k = 0 \/ Upto(m, k) \in Nodes(t)
                                  /\ k <= Len(n) /\ Upto(n, k) = Upto(m, k)
                                  /\ k = Len(m) \/ k = Len(n) \/ m[k + 1] # n[k + 1]
  <1>0. m \in Seq(B) /\ n \in Seq(B) /\ Len(m) \in Nat /\ Len(n) \in Nat
    OBVIOUS
  <1>1. PICK k : k = CommonLen(m, n)
    OBVIOUS
  <1>2. /\ k \in 0 .. Lesser(Len(m), Len(n)) /\ Upto(m, k) = Upto(n, k)
        /\ k = Lesser(Len(m), Len(n)) \/ m[k + 1] # n[k + 1]
    BY <1>0, <1>1, CommonPrefix
  <1>3. k \in Nat /\ k <= Len(m) /\ k <= Len(n)
    BY <1>0, <1>2 DEF Lesser
  <1>4. k = Len(m) \/ k = Len(n) \/ m[k + 1] # n[k + 1]
    BY <1>2 DEF Lesser
  <1>5. k = 0 \/ Upto(m, k) \in Nodes(t)
    <2>1. CASE k = Len(m)
      BY <2>1, <1>0, CoversFacts
    <2>2. CASE k = Len(n)
      BY <2>2, <1>0, <1>2, CoversFacts
    <2>3. CASE k # Len(m) /\ k # Len(n) /\ m[k + 1] # n[k + 1]
      <3>1. k # 0 => k \in 1 .. Len(m) - 1 /\ k < Len(n)
        BY <2>3, <1>0, <1>3
      <3> QED BY <2>3, <3>1, <1>2 DEF Branching
    <2> QED BY <1>4, <2>1, <2>2, <2>3
  <1> QED BY <1>2, <1>3, <1>4, <1>5

\* The tree stays a radix tree of whole pages, and the counter kept beside it
\* agrees with the pages in it.
THEOREM TreeKeepsShape == EngineSpec => []TreeShape
  <1>1. EngineInv => TreeShape
    <2> SUFFICES ASSUME EngineInv
                 PROVE  TreeShape
      OBVIOUS
    <2>0. PICK B : B = Seq(Token)
      OBVIOUS
    <2>1. RadixTree(B, Page, tree) /\ numCached = Cardinality(PathsIn(tree))
      BY <2>0 DEF EngineInv, TreeInv, TreeOK
    <2>2. /\ Nodes(tree) \subseteq Seq(B) \ {Root} /\ Branching(tree)
          /\ \A n \in Nodes(tree) : Len(tree[n].pages) = Len(n) - ParentLen(tree, n)
      BY <2>1 DEF RadixTree, TreeOver
    <2>3. numCached = PageCount(tree, Nodes(tree))
      BY <2>1, AllHeld
    <2>4. ASSUME NEW m \in Nodes(tree), NEW n \in Nodes(tree)
          PROVE  \E k \in 0 .. Len(m) : /\ k = 0 \/ Upto(m, k) \in Nodes(tree)
                                        /\ k <= Len(n) /\ Upto(n, k) = Upto(m, k)
                                        /\ k = Len(m) \/ k = Len(n) \/ m[k + 1] # n[k + 1]
      BY <2>2, NodesPart
    <2> QED BY <2>2, <2>3, <2>4 DEF TreeShape
  <1> QED BY <1>1, EngineInvariant, PTL

\* evict frees as much as num_evictable reports, up to what is asked of it:
\* no unlocked node has a locked one below it.
THEOREM EvictsWhatItReports == EngineSpec => []EvictableExact
  <1>1. EngineInv => EvictableExact
    <2> SUFFICES ASSUME EngineInv, NEW need \in 1 .. NumEvictable(tree) + 1,
                        NEW E \in EvictableSets(tree, need)
                 PROVE  PageCount(tree, E) >= Lesser(need, NumEvictable(tree))
      BY DEF EvictableExact
    <2>1. TreeOK(tree, st) /\ RadixTree(Seq(Token), Page, tree)
      BY DEF EngineInv, TreeInv, TreeOK
    <2>2. Evictable(tree) = {n \in Nodes(tree) : tree[n].ref_count = 0}
      BY <2>1, EvictableIsUnlocked
    <2>3. NumEvictable(tree) = PageCount(tree, Evictable(tree))
      BY <2>2 DEF NumEvictable
    <2>4. Evictable(tree) \subseteq Nodes(tree) /\ need \in Int
      BY <2>2
    <2>5. PageCount(tree, Evictable(tree)) \in Nat
      BY <2>1, <2>4, HeldCount
    <2>6. need > 0 /\ need \in Int
      BY <2>3, <2>5
    <2>7. E \subseteq Evictable(tree) /\ (PageCount(tree, E) >= need \/ E = Evictable(tree))
      BY <2>6, EvictableFacts
    <2>8. PageCount(tree, E) \in Nat
      BY <2>1, <2>4, <2>7, HeldCount
    <2> QED BY <2>3, <2>5, <2>6, <2>7, <2>8 DEF Lesser
  <1> QED BY <1>1, EngineInvariant, PTL

-------------------------------------------------------------------------------
(* The estimates of the agent policy. *)

\* A read-only walk finds the longest cached prefix, and so the same one in
\* every tree that stands for the same paths.
LEMMA PreviewsAgree ==
    ASSUME NEW t, NEW u, RadixTree(Seq(Token), Page, t), RadixTree(Seq(Token), Page, u),
           PathsIn(u) = PathsIn(t), NEW p \in Path
    PROVE  PreviewLen(t, p) \in Nat /\ PreviewLen(u, p) = PreviewLen(t, p)
  <1> DEFINE Longest(k) == /\ k \in 0 .. Len(p)
                           /\ \A i \in 1 .. k : Upto(p, i) \in PathsIn(t)
                           /\ \A i \in k + 1 .. Len(p) : Upto(p, i) \notin PathsIn(t)
  <1>1. ASSUME NEW v, RadixTree(Seq(Token), Page, v), PathsIn(v) = PathsIn(t)
        PROVE  Longest(PreviewLen(v, p))
    <2>0. PICK B, w, d : B = Seq(Token) /\ w = Walk(v, p).tree /\ d = Walk(v, p).node
      OBVIOUS
    <2>1. RadixTree(B, Page, v) /\ p \in Seq(B)
      BY <1>1, <2>0 DEF Path
    <2>2. /\ RadixTree(B, Page, w) /\ PathsIn(w) = PathsIn(v)
          /\ WalkTo(w, p, d) /\ Len(d) = PreviewLen(v, p)
      BY <2>0, <2>1, WalkKeeps
    <2>3. Nodes(w) \subseteq Seq(B) \ {Root}
      BY <2>2 DEF RadixTree, TreeOver
    <2>4. /\ Len(d) \in 0 .. Len(p)
          /\ \A i \in 1 .. Len(d) : Upto(p, i) \in PathsIn(w)
          /\ \A i \in Len(d) + 1 .. Len(p) : Upto(p, i) \notin PathsIn(w)
      BY <2>1, <2>2, <2>3, WalkHits
    <2> QED BY <1>1, <2>2, <2>4
  <1>2. ASSUME NEW j, Longest(j), NEW k, Longest(k)
        PROVE  j = k
    <2>1. j \in Nat /\ k \in Nat /\ j <= Len(p) /\ k <= Len(p) /\ Len(p) \in Nat
      BY <1>2 DEF Path
    <2>2. ~(j < k)
      BY <1>2, <2>1
    <2>3. ~(k < j)
      BY <1>2, <2>1
    <2> QED BY <2>1, <2>2, <2>3
  <1>3. Longest(PreviewLen(t, p)) /\ Longest(PreviewLen(u, p))
    BY <1>1
  <1>4. PreviewLen(t, p) \in Nat
    BY <1>3
  <1> HIDE DEF Longest
  <1> QED BY <1>2, <1>3, <1>4

\* The sequence to prefill has a length.
LEMMA PrefillLength ==
    ASSUME KVP!KVInv, NEW r \in Request
    PROVE  Len(PrefillIds(r)) \in Nat
  <1>1. out[r] \in Seq(Token) /\ Prompt[r] \in Seq(Token)
    BY StatesTyped, PromptAssumption
  <1>2. Ids(r) \in Seq(Token)
    BY <1>1 DEF Ids
  <1>3. PrefillIds(r) \in Seq(Token)
    <2>1. ButLast(Ids(r)) \in Seq(Token)
      BY <1>2 DEF ButLast
    <2> QED BY <1>1, <2>1 DEF PrefillIds
  <1> QED BY <1>3

\* A request that is to prefill becomes prepared, or is no longer, only by
\* prepare and release, unless it gets a token.
LEMMA FlagMoves ==
    ASSUME EngineInv, EngineNext, NEW r \in Request, Attached(r) \/ Detached(r)
    PROVE  Prepare(r) \/ Release(r)
  <1>1. /\ out \in [Request -> Seq(Token)] /\ st \in [Request -> StateType]
        /\ Prefilling(r) /\ out' = out /\ st'[r].prepared # st[r].prepared
    BY StatesTyped DEF EngineInv, Attached, Detached
  <1>2. ASSUME NEW q \in Request, NEW x, st' = [st EXCEPT ![q] = x]
        PROVE  q = r
    BY <1>1, <1>2
  <1>3. ASSUME NEW q \in Request, NEW n, NEW pool, ExtendTable(q, n, pool)
        PROVE  FALSE
    <2>1. PICK new : st' = [st EXCEPT ![q].table = @ \o new]
      BY <1>3 DEF ExtendTable
    <2>2. st'[r].prepared = st[r].prepared
      BY <1>1, <2>1 DEF StateType
    <2> QED BY <1>1, <2>2
  <1>4. ASSUME NEW R \in SUBSET Request, NEW fed, Forward(R, fed)
        PROVE  FALSE
    <2>1. st' = [q \in Request |-> IF q \in R THEN [st[q] EXCEPT !.len = Len(fed[q])] ELSE st[q]]
      BY <1>4 DEF Forward
    <2>2. st'[r].prepared = st[r].prepared
      BY <1>1, <2>1 DEF StateType
    <2> QED BY <1>1, <2>2
  <1>5. ASSUME NEW q \in Request, NEW x, out' = [out EXCEPT ![q] = Append(@, x)]
        PROVE  FALSE
    <2>1. out'[q] = Append(out[q], x) /\ out[q] \in Seq(Token)
      BY <1>1, <1>5
    <2>2. Len(Append(out[q], x)) = Len(out[q]) + 1 /\ Len(out[q]) \in Nat
      BY <2>1
    <2> QED BY <1>1, <2>1, <2>2
  <1>6. ASSUME NEW q \in Request, Prepare(q) PROVE Prepare(r)
    <2>1. CASE st[q].prepared
      BY <1>1, <1>6, <2>1 DEF Prepare, PreparePagedPrefill
    <2>2. CASE ~st[q].prepared
      <3>1. PICK x : st' = [st EXCEPT ![q] = x]
        BY <1>6, <2>2 DEF Prepare, PreparePagedPrefill
      <3> QED BY <1>2, <1>6, <3>1
    <2> QED BY <2>1, <2>2
  <1>7. ASSUME NEW q \in Request, Release(q) PROVE Release(r)
    <2>1. st' = [st EXCEPT ![q] = NoState]
      BY <1>7 DEF Release, ReleasePagedPrefill
    <2> QED BY <1>2, <1>7, <2>1
  <1>8. ASSUME NEW q \in Request, Retract(q) PROVE FALSE
    <2>1. st' = [st EXCEPT ![q] = NoState] /\ Running(q)
      BY <1>8 DEF Retract, RetractPagedState, MayDecode
    <2>2. q = r
      BY <1>2, <2>1
    <2> QED BY <1>1, <2>1, <2>2 DEF Running, Prefilling
  <1>9. ASSUME NEW q \in Request, Resume(q) \/ RunOut(q) PROVE FALSE
    <2>1. st' = st
      BY <1>9 DEF Resume, RunOut, Exhausted
    <2> QED BY <1>1, <2>1
  <1>10. ASSUME NEW q \in Request, GrowForPrefill(q) \/ GrowForDecode(q) PROVE FALSE
    BY <1>3, <1>10 DEF GrowForPrefill, GrowForDecode, GrowTable
  <1>11. ASSUME NEW q \in Request, NEW x \in Token, FirstToken(q, x) \/ NextToken(q, x)
         PROVE  FALSE
    BY <1>5, <1>11 DEF FirstToken, NextToken
  <1>12. ASSUME NEW R \in SUBSET Request, PrefillForward(R) \/ DecodeForward(R) PROVE FALSE
    BY <1>4, <1>12 DEF PrefillForward, DecodeForward
  <1> QED BY <1>6, <1>7, <1>8, <1>9, <1>10, <1>11, <1>12 DEF EngineNext

\* Neither changes what the tree stands for.
LEMMA PathsStay ==
    ASSUME EngineInv, NEW r \in Request, Prepare(r) \/ Release(r)
    PROVE  PathsIn(tree') = PathsIn(tree) /\ TreeInv'
  <1>1. (KVP!Prepare(r) \/ KVP!Release(r)) /\ TreeInv'
    BY PrepareStep, ReleaseStep
  <1>2. CachedMap' = CachedMap
    BY <1>1 DEF KVP!Prepare, KVP!PreparePagedPrefill, KVP!Release, KVP!ReleasePagedPrefill
  <1>3. DOMAIN CachedMap = PathsIn(tree) /\ DOMAIN CachedMap' = PathsIn(tree')
    BY DEF CachedMap, PathsIn
  <1> QED BY <1>1, <1>2, <1>3

\* What prepare attaches is what was estimated.
LEMMA PreparedNeeds ==
    ASSUME EngineInv, NEW r \in Request, Prepare(r), ~st[r].prepared, NEW c \in ChunkSizes
    PROVE  PrefillNeeded(r, st'[r], c) = EstimatedPages(tree, r, c)
  <1>1. PICK B, p, w, d, k, n :
            /\ B = Seq(Token) /\ p = MatchPath(r) /\ w = Walk(tree, p).tree
            /\ d = Walk(tree, p).node /\ k = Len(d) /\ n = Len(PrefillIds(r))
    OBVIOUS
  <1>2. /\ KVP!KVInv /\ Prefilling(r) /\ RadixTree(B, Page, tree) /\ p \in Seq(B) /\ n \in Nat
    BY <1>1, MatchPathTyped, PrefillLength DEF Prepare, EngineInv, TreeInv, TreeOK, Path
  <1>3. PreviewLen(tree, p) = k /\ k \in Nat
    <2>1. Len(d) = PreviewLen(tree, p)
      BY <1>1, <1>2, WalkKeeps
    <2>2. PreviewLen(tree, p) \in Nat
      BY <1>1, <1>2, PreviewsAgree DEF Path
    <2> QED BY <1>1, <2>1, <2>2
  <1>4. st'[r].len = k * PageSize /\ Len(st'[r].table) = k
    <2>1. st'[r] = [table |-> PagesForNode(w, d), len |-> Len(d) * PageSize,
                    node |-> d, prepared |-> TRUE]
      BY <1>1, <1>2, StatesTyped DEF Prepare, PreparePagedPrefill
    <2>2. Len(PagesForNode(w, d)) = Len(d)
      BY <1>1, <1>3 DEF PagesForNode
    <2> QED BY <1>1, <2>1, <2>2
  <1>5. PICK l, e : l = k * PageSize /\ e = IF c = 0 THEN n ELSE Lesser(l + c, n)
    OBVIOUS
  <1>6. l \in Nat /\ c \in Nat /\ e \in Nat
    BY <1>2, <1>3, <1>5, PageSizeAssumption, ChunkAssumption DEF Lesser
  <1>7. PagesNeeded(l) = k /\ PagesNeeded(e) \in Nat
    BY <1>3, <1>5, <1>6, WholePages, PageCounts
  <1>8. CASE l >= n
    <2>1. PrefillNeeded(r, st'[r], c) = 0
      BY <1>1, <1>4, <1>5, <1>8 DEF PrefillNeeded, PrefillComplete
    <2>2. EstimatedPages(tree, r, c) = 0
      BY <1>1, <1>2, <1>3, <1>5, <1>6, <1>8 DEF EstimatedPages, EstimatedHit, Lesser
    <2> QED BY <2>1, <2>2
  <1>9. CASE l < n
    <2>1. e >= l
      BY <1>2, <1>5, <1>6, <1>9 DEF Lesser
    <2>2. PagesNeeded(e) >= k
      <3>1. FullPages(l) <= FullPages(e) /\ FullPages(l) = k
        BY <1>3, <1>5, <1>6, <2>1, FullPagesMonotone, WholePages
      <3>2. FullPages(e) <= PagesNeeded(e) /\ FullPages(e) \in Nat
        BY <1>6, PageCounts
      <3> QED BY <1>3, <1>7, <3>1, <3>2
    <2>3. PrefillNeeded(r, st'[r], c) = PagesNeeded(e) - k
      <3>1. ~PrefillComplete(r, st'[r])
        BY <1>1, <1>2, <1>4, <1>5, <1>6, <1>9 DEF PrefillComplete
      <3>2. ChunkEnd(r, st'[r], c) = e
        BY <1>1, <1>4, <1>5 DEF ChunkEnd
      <3>3. Missing(st'[r], e) = PagesNeeded(e) - k
        BY <1>3, <1>4, <1>7, <2>2 DEF Missing
      <3> QED BY <3>1, <3>2, <3>3 DEF PrefillNeeded
    <2>4. EstimatedPages(tree, r, c) = PagesNeeded(e) - k
      <3>1. EstimatedHit(tree, r) = l
        BY <1>1, <1>3, <1>5 DEF EstimatedHit
      <3>2. Lesser(l, n) = l /\ ~(l >= n)
        BY <1>2, <1>6, <1>9 DEF Lesser
      <3> QED BY <1>1, <1>5, <1>7, <3>1, <3>2 DEF EstimatedPages
    <2> QED BY <2>3, <2>4
  <1> QED BY <1>2, <1>6, <1>8, <1>9

\* The pages num_evictable reports are those of the paths nobody holds.
LEMMA EvictableCount ==
    ASSUME NEW t, NEW s, TreeOK(t, s)
    PROVE  /\ IsFiniteSet(UnlockedIn(t, s))
           /\ NumEvictable(t) = Cardinality(UnlockedIn(t, s))
  <1>1. /\ Evictable(t) = {n \in Nodes(t) : t[n].ref_count = 0}
        /\ HeldBy(t, Evictable(t)) = UnlockedIn(t, s)
    BY EvictableIsUnlocked
  <1>2. NumEvictable(t) = PageCount(t, Evictable(t)) /\ Evictable(t) \subseteq Nodes(t)
    BY <1>1 DEF NumEvictable
  <1>3. RadixTree(Seq(Token), Page, t)
    BY DEF TreeOK
  <1> QED BY <1>1, <1>2, <1>3, HeldCount

\* Attaching makes nothing evictable.
LEMMA PreparingLocks ==
    ASSUME EngineInv, NEW r \in Request, Prepare(r), ~st[r].prepared
    PROVE  NumEvictable(tree') <= NumEvictable(tree)
  <1>1. TreeOK(tree, st) /\ TreeOK(tree', st') /\ PathsIn(tree') = PathsIn(tree)
    BY PathsStay DEF EngineInv, TreeInv
  <1>2. st[r].node = Root /\ \A q \in Request \ {r} : st'[q] = st[q]
    BY StatesTyped DEF EngineInv, NoState, Root, Prepare, PreparePagedPrefill
  <1>3. UnlockedIn(tree', st') \subseteq UnlockedIn(tree, st)
    <2> SUFFICES ASSUME NEW p \in PathsIn(tree), \A q \in Request : ~Covers(st'[q].node, p)
                 PROVE  \A q \in Request : ~Covers(st[q].node, p)
      BY <1>1 DEF UnlockedIn
    <2>1. p \in Seq(Seq(Token)) /\ p # Root
      <3>0. PICK B : B = Seq(Token)
        OBVIOUS
      <3>1. Nodes(tree) \subseteq Seq(B) \ {Root}
        BY <1>1, <3>0 DEF TreeOK, RadixTree, TreeOver
      <3> QED BY <3>0, <3>1, PathFacts
    <2>2. ~Covers(st[r].node, p)
      BY <1>2, <2>1, RootHoldsNothing
    <2> QED BY <1>2, <2>2
  <1>4. /\ IsFiniteSet(UnlockedIn(tree, st))
        /\ NumEvictable(tree) = Cardinality(UnlockedIn(tree, st))
    BY <1>1, EvictableCount
  <1>5. NumEvictable(tree') = Cardinality(UnlockedIn(tree', st'))
    BY <1>1, EvictableCount
  <1>6. Cardinality(UnlockedIn(tree', st')) <= Cardinality(UnlockedIn(tree, st))
    BY <1>3, <1>4, FS_Subset
  <1> QED BY <1>4, <1>5, <1>6

\* The pages estimated for each candidate stay true while others are prepared,
\* splitting edges of the tree, and released, and are what admission finds the
\* candidate to need once it is prepared: whoever is passed over for its
\* estimate would not have fitted.
THEOREM EstimatesStayTrue == EngineSpec => EstimatesHold
  <1>1. ASSUME EngineInv, [EngineNext]_engineVars, NEW r \in Request, NEW c \in ChunkSizes,
               Attached(r) \/ Detached(r)
        PROVE  /\ Attached(r) => /\ PrefillNeeded(r, st'[r], c) = EstimatedPages(tree, r, c)
                                 /\ NumEvictable(tree') <= NumEvictable(tree)
               /\ \A q \in Request : Prefilling(q) =>
                    EstimatedPages(tree', q, c) = EstimatedPages(tree, q, c)
    <2>1. EngineNext
      BY <1>1 DEF engineVars, Attached, Detached
    <2>2. Prepare(r) \/ Release(r)
      BY <1>1, <2>1, FlagMoves
    <2>3. Attached(r) => Prepare(r) /\ ~st[r].prepared
      <3>1. Release(r) => ~st'[r].prepared
        <4>1. st \in [Request -> StateType]
          BY <1>1, StatesTyped DEF EngineInv
        <4> QED BY <4>1 DEF Release, ReleasePagedPrefill, NoState
      <3> QED BY <2>2, <3>1 DEF Attached
    <2>4. Attached(r) => /\ PrefillNeeded(r, st'[r], c) = EstimatedPages(tree, r, c)
                         /\ NumEvictable(tree') <= NumEvictable(tree)
      BY <1>1, <2>3, PreparedNeeds, PreparingLocks
    <2>5. ASSUME NEW q \in Request, Prefilling(q)
          PROVE  EstimatedPages(tree', q, c) = EstimatedPages(tree, q, c)
      <3>1. /\ RadixTree(Seq(Token), Page, tree) /\ RadixTree(Seq(Token), Page, tree')
            /\ PathsIn(tree') = PathsIn(tree)
        BY <1>1, <2>2, PathsStay DEF EngineInv, TreeInv, TreeOK
      <3>2. MatchPath(q) \in Path
        BY <1>1, <2>5, MatchPathTyped DEF EngineInv
      <3>3. PreviewLen(tree', MatchPath(q)) = PreviewLen(tree, MatchPath(q))
        BY <3>1, <3>2, PreviewsAgree
      <3> QED BY <3>3 DEF EstimatedPages, EstimatedHit
    <2> QED BY <2>4, <2>5
  <1>2. EngineInv /\ [EngineNext]_engineVars =>
            [\A r \in Request, c \in ChunkSizes :
                /\ Attached(r) => /\ PrefillNeeded(r, st'[r], c) = EstimatedPages(tree, r, c)
                                  /\ NumEvictable(tree') <= NumEvictable(tree)
                /\ Attached(r) \/ Detached(r) =>
                      \A q \in Request : Prefilling(q) =>
                          EstimatedPages(tree', q, c) = EstimatedPages(tree, q, c)
            ]_engineVars
    BY <1>1
  <1> QED BY <1>2, EngineInvariant, PTL DEF EngineSpec, EstimatesHold

-------------------------------------------------------------------------------
(* Refinement.  KV, of PagedEngine, is PagedKV at the same map as KVP. *)

\* Both start with an empty cache and all pages free.
LEMMA SameInit == KVP!KVInit <=> KV!KVInit
  BY DEF KVP!KVInit, KV!KVInit, KVP!NoState, KV!NoState

\* (The two instances have their own copies of every definition, which are the
\* same once expanded.)
LEMMA SameNext == KVP!KVNext <=> KV!KVNext
  <1> USE DEF KVP!Lesser, KV!Lesser, KVP!PagesNeeded, KV!PagesNeeded, KVP!FullPages,
              KV!FullPages, KVP!Upto, KV!Upto, KVP!Covers, KV!Covers, KVP!Blocks, KV!Blocks,
              KVP!PathOf, KV!PathOf, KVP!Ids, KV!Ids, KVP!ButLast, KV!ButLast, KVP!PrefillIds,
              KV!PrefillIds, KVP!MatchPath, KV!MatchPath, KVP!CommitPath, KV!CommitPath,
              KVP!PrefillComplete, KV!PrefillComplete, KVP!CheckFinished, KV!CheckFinished,
              KVP!Finished, KV!Finished, KVP!Prefilling, KV!Prefilling, KVP!Running, KV!Running,
              KVP!MayPrefill, KV!MayPrefill, KVP!MayDecode, KV!MayDecode, KVP!Own, KV!Own,
              KVP!Retractable, KV!Retractable, KVP!ChunkEnd, KV!ChunkEnd, KVP!Missing,
              KV!Missing, KVP!PrefillNeeded, KV!PrefillNeeded, KVP!PrefillFed, KV!PrefillFed,
              KVP!DecodeFed, KV!DecodeFed, KVP!ExtendTable, KV!ExtendTable, KVP!Erased,
              KV!Erased, KVP!Forward, KV!Forward, KVP!NoState, KV!NoState, KVP!Cached,
              KV!Cached, KVP!PagesAt, KV!PagesAt, KVP!WithoutPaths, KV!WithoutPaths,
              KVP!Unlocked, KV!Unlocked, KVP!LongestHit, KV!LongestHit, KVP!PreparedStates,
              KV!PreparedStates, KVP!Available, KV!Available, KVP!EvictSets, KV!EvictSets,
              KVP!Cardinality, KV!Cardinality
  <1>1. \A r : KVP!Prepare(r) <=> KV!Prepare(r)
    BY DEF KVP!Prepare, KV!Prepare, KVP!PreparePagedPrefill, KV!PreparePagedPrefill
  <1>2. \A r : KVP!Release(r) <=> KV!Release(r)
    BY DEF KVP!Release, KV!Release, KVP!ReleasePagedPrefill, KV!ReleasePagedPrefill
  <1>3. \A r : KVP!Retract(r) <=> KV!Retract(r)
    BY DEF KVP!Retract, KV!Retract, KVP!RetractPagedState, KV!RetractPagedState
  <1>4. \A r : KVP!RunOut(r) <=> KV!RunOut(r)
    BY DEF KVP!RunOut, KV!RunOut, KVP!Exhausted, KV!Exhausted
  <1>5. \A r : KVP!GrowForPrefill(r) <=> KV!GrowForPrefill(r)
    BY DEF KVP!GrowForPrefill, KV!GrowForPrefill, KVP!GrowTable, KV!GrowTable
  <1>6. \A r : KVP!GrowForDecode(r) <=> KV!GrowForDecode(r)
    BY DEF KVP!GrowForDecode, KV!GrowForDecode, KVP!GrowTable, KV!GrowTable
  <1>7. \A r, x : KVP!FirstToken(r, x) <=> KV!FirstToken(r, x)
    BY DEF KVP!FirstToken, KV!FirstToken, KVP!CommitPagedCache, KV!CommitPagedCache
  <1>8. \A r, x : KVP!NextToken(r, x) <=> KV!NextToken(r, x)
    BY DEF KVP!NextToken, KV!NextToken, KVP!CommitPagedCache, KV!CommitPagedCache
  <1>9. \A R : KVP!Resume(R) <=> KV!Resume(R)
    BY DEF KVP!Resume, KV!Resume
  <1>10. \A R : KVP!PrefillForward(R) <=> KV!PrefillForward(R)
    BY DEF KVP!PrefillForward, KV!PrefillForward
  <1>11. \A R : KVP!DecodeForward(R) <=> KV!DecodeForward(R)
    BY DEF KVP!DecodeForward, KV!DecodeForward
  <1> QED BY <1>1, <1>2, <1>3, <1>4, <1>5, <1>6, <1>7, <1>8, <1>9, <1>10, <1>11
        DEF KVP!KVNext, KV!KVNext

\* The engine on the radix tree implements the engine on the map: whatever
\* prepare, commit, evict, retract and the splits of the tree do, the map it
\* stands for changes as PagedKV says.
THEOREM EngineImplementsPagedKV == EngineSpec => ImplementsPagedKV
  <1>1. EngineInit => KV!KVInit
    BY EngineStarts, SameInit
  <1>2. EngineInv /\ [EngineNext]_engineVars => [KV!KVNext]_(KV!kvVars)
    BY EngineKeeps, SameNext DEF KVP!kvVars, KV!kvVars
  <1> QED BY <1>1, <1>2, EngineInvariant, PTL DEF EngineSpec, ImplementsPagedKV, KV!KVSpec

\* Through the tree, too, no page is in two places or lost, and whoever borrows
\* a prefix finds it cached until it lets go.
THEOREM EnginePagesHaveOnePlace ==
    EngineSpec => [](KVP!PagesPartitioned /\ KVP!BorrowedStayCached)
  <1>1. EngineInv => KVP!PagesPartitioned /\ KVP!BorrowedStayCached
    BY DEF EngineInv, KVP!KVInv, KVP!PagesInv
  <1> QED BY <1>1, EngineInvariant, PTL

\* Through the tree, too, a request's table leads to the KV of its own tokens.
THEOREM EngineReadsRightHistory == EngineSpec => []KVP!KVFaithful
  <1>1. EngineInit => KVP!KVInit
    BY EngineStarts
  <1>2. EngineInv /\ [EngineNext]_engineVars => [KVP!KVNext]_(KVP!kvVars)
    BY EngineKeeps
  <1>3. EngineSpec => KVP!KVSpec
    BY <1>1, <1>2, EngineInvariant, PTL DEF EngineSpec, KVP!KVSpec
  <1>4. KVP!KVSpec => []KVP!KVFaithful
    BY KVP!ReadsRightHistory, PageSizeAssumption, PromptAssumption, MaxNewAssumption,
       StopAssumption, CacheOnAssumption, ChunkAssumption, SameFinite
  <1> QED BY <1>3, <1>4, PTL

===============================================================================
