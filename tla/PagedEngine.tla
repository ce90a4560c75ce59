----------------------------- MODULE PagedEngine -----------------------------
(***************************************************************************)
(* The engine's paged operations on the real radix tree: the detailed      *)
(* module that implements PagedKV.  The state machine calls them in any    *)
(* order the life of a request allows, as PagedKV's does.                  *)
(***************************************************************************)
EXTENDS PagedState, RadixCache

VARIABLES
    tree,           \* the radix tree
    numCached       \* _num_cached_pages, the counter kept beside it

engineVars == <<out, rehydrate, st, tree, numCached, free, kv>>

EngineInit ==
    /\ out = [r \in Request |-> <<>>]
    /\ rehydrate = [r \in Request |-> FALSE]
    /\ st = [r \in Request |-> NoState]
    /\ tree = [n \in {} |-> n]
    /\ numCached = 0
    /\ free = Page
    /\ kv = [g \in Page |-> <<>>]

-------------------------------------------------------------------------------
(* Engine operations. *)

\* match_prefix and inc_lock_ref of what matched.
PreparePagedPrefill(r) ==
    /\ IF st[r].prepared THEN UNCHANGED <<st, tree>>
       ELSE LET w == Walk(tree, MatchPath(r))
            IN  /\ tree' = Ranked(IncLockRef(w.tree, w.node))
                /\ st' = [st EXCEPT ![r] =
                            [table |-> PagesForNode(w.tree, w.node),
                             len |-> Len(w.node) * PageSize,
                             node |-> w.node, prepared |-> TRUE]]
    /\ UNCHANGED <<numCached, free, kv>>

\* estimate_paged_cache_hit_tokens, the tree being t.
EstimatedHit(t, r) == PreviewLen(t, MatchPath(r)) * PageSize

\* estimate_paged_prefill_additional_pages_needed.  (end is not before start:
\* the max(0, ..) around the difference changes nothing.)
EstimatedPages(t, r, chunk) ==
    LET whole == Len(PrefillIds(r))
        start == Lesser(EstimatedHit(t, r), whole)
        end == IF chunk = 0 THEN whole ELSE Lesser(start + chunk, whole)
    IN  IF start >= whole THEN 0 ELSE PagesNeeded(end) - PagesNeeded(start)

ReleasePagedPrefill(r) ==
    /\ tree' = Ranked(DecLockRef(tree, st[r].node))
    /\ st' = [st EXCEPT ![r] = NoState]
    /\ UNCHANGED <<numCached, free, kv>>

\* Mutant: the counter is forgotten.
Evicted_Uncounted(E) ==
    /\ tree' = Ranked(Pruned(tree, E))
    /\ kv' = Erased(PagesOf(tree, E))
    /\ UNCHANGED numCached

\* Drop the nodes of E, their pages going back to the pool.
Evicted(E) ==
    /\ tree' = Ranked(Pruned(tree, E))
    /\ numCached' = numCached - PageCount(tree, E)
    /\ kv' = Erased(PagesOf(tree, E))

\* page_table.extend(pool.allocate(n)).
GrowTable(r, n) ==
    \E E \in EvictableSets(tree, n - Cardinality(free)) :
        /\ Cardinality(free) + PageCount(tree, E) >= n
        /\ Evicted(E)
        /\ ExtendTable(r, n, free \cup PagesOf(tree, E))

\* pool.allocate(n) evicts what it can and still has too few pages.
Exhausted(n) ==
    \E E \in EvictableSets(tree, n - Cardinality(free)) :
        /\ Cardinality(free) + PageCount(tree, E) < n
        /\ Evicted(E)
        /\ free' = free \cup PagesOf(tree, E)
        /\ UNCHANGED st

\* Mutant: the borrowed pages count as duplicates too.
CommitFreed_Borrowed(s, p, had, finished) ==
    {s.table[i] : i \in (1 .. had) \cup (IF finished THEN Len(p) + 1 .. Len(s.table) ELSE {})}

\* The pages a commit returns to the pool: own copies of what was cached
\* already, and of a finished request what lies past the cached part.
CommitFreed(s, p, had, finished) ==
    {s.table[i] : i \in (Len(s.node) + 1 .. had) \cup
        (IF finished THEN Len(p) + 1 .. Len(s.table) ELSE {})}

\* commit_paged_cache.  The lock on the old node is dropped before the one
\* on the new node is taken.
CommitPagedCache(r, finished) ==
    LET s == st[r]
        p == CommitPath(r)
        ins == Insert(tree, p, s.table)
        pages == PagesForNode(ins.tree, p)
        unlocked == DecLockRef(ins.tree, s.node)
        freed == CommitFreed(s, p, ins.had, finished)
    IN  /\ numCached' = numCached + (Len(p) - ins.had)
        /\ free' = free \cup freed
        /\ kv' = Erased(freed)
        /\ IF finished
           THEN tree' = Ranked(unlocked) /\ st' = [st EXCEPT ![r] = NoState]
           ELSE /\ tree' = Ranked(IncLockRef(unlocked, p))
                /\ st' = [st EXCEPT ![r] =
                            [s EXCEPT !.table = pages \o
                                          SubSeq(s.table, Len(p) + 1, Len(s.table)),
                                      !.node = p,
                                      !.prepared = TRUE]]

RetractPagedState(r) ==
    /\ tree' = Ranked(DecLockRef(tree, st[r].node))
    /\ free' = free \cup Own(st[r])
    /\ kv' = Erased(Own(st[r]))
    /\ st' = [st EXCEPT ![r] = NoState]
    /\ UNCHANGED numCached

-------------------------------------------------------------------------------
(* The state machine. *)

Prepare(r) ==
    /\ Prefilling(r)
    /\ PreparePagedPrefill(r)
    /\ UNCHANGED <<out, rehydrate>>

Release(r) ==
    /\ Prefilling(r) /\ Retractable(st[r]) = 0
    /\ ReleasePagedPrefill(r)
    /\ UNCHANGED <<out, rehydrate>>

Resume(r) ==
    /\ rehydrate[r] /\ st[r].prepared /\ PrefillComplete(r, st[r])
    /\ rehydrate' = [rehydrate EXCEPT ![r] = FALSE]
    /\ UNCHANGED <<out, st, tree, numCached, free, kv>>

GrowForPrefill(r) ==
    /\ MayPrefill(r)
    /\ \E chunk \in ChunkSizes :
         /\ PrefillNeeded(r, st[r], chunk) > 0
         /\ GrowTable(r, PrefillNeeded(r, st[r], chunk))
    /\ UNCHANGED <<out, rehydrate>>

GrowForDecode(r) ==
    /\ MayDecode(r)
    /\ Missing(st[r], st[r].len + 1) > 0
    /\ GrowTable(r, Missing(st[r], st[r].len + 1))
    /\ UNCHANGED <<out, rehydrate>>

RunOut(r) ==
    /\ \/ \E chunk \in ChunkSizes :
            MayPrefill(r) /\ Exhausted(PrefillNeeded(r, st[r], chunk))
       \/ MayDecode(r) /\ Exhausted(Missing(st[r], st[r].len + 1))
    /\ UNCHANGED <<out, rehydrate>>

PrefillForward(R) ==
    /\ \E chunk \in ChunkSizes :
         /\ \A r \in R : MayPrefill(r) /\ PrefillNeeded(r, st[r], chunk) = 0
         /\ Forward(R, [r \in R |-> PrefillFed(r, chunk)])
    /\ UNCHANGED <<out, rehydrate, tree, numCached>>

DecodeForward(R) ==
    /\ \A r \in R : MayDecode(r) /\ Missing(st[r], st[r].len + 1) = 0
    /\ Forward(R, [r \in R |-> DecodeFed(r)])
    /\ UNCHANGED <<out, rehydrate, tree, numCached>>

FirstToken(r, t) ==
    /\ Prefilling(r) /\ ~rehydrate[r] /\ st[r].prepared
    /\ PrefillComplete(r, st[r])
    /\ out' = [out EXCEPT ![r] = Append(@, t)]
    /\ CommitPagedCache(r, CheckFinished(out'[r]))
    /\ UNCHANGED rehydrate

NextToken(r, t) ==
    /\ Running(r) /\ st[r].len = Len(Ids(r))
    /\ out' = [out EXCEPT ![r] = Append(@, t)]
    /\ IF CheckFinished(out'[r])
       THEN CommitPagedCache(r, TRUE)
       ELSE UNCHANGED <<st, tree, numCached, free, kv>>
    /\ UNCHANGED rehydrate

Retract(r) ==
    /\ MayDecode(r)
    /\ RetractPagedState(r)
    /\ rehydrate' = [rehydrate EXCEPT ![r] = TRUE]
    /\ UNCHANGED out

EngineNext ==
    \/ \E r \in Request :
         \/ Prepare(r) \/ Release(r) \/ Resume(r) \/ Retract(r) \/ RunOut(r)
         \/ GrowForPrefill(r) \/ GrowForDecode(r)
         \/ \E t \in Token : FirstToken(r, t) \/ NextToken(r, t)
    \/ \E R \in (SUBSET Request) \ {{}} : PrefillForward(R) \/ DecodeForward(R)

EngineSpec == EngineInit /\ [][EngineNext]_engineVars

-------------------------------------------------------------------------------
(* Properties. *)

NodeType == [pages : Seq(Page), ref_count : Int, last_access : Nat]

EngineTypeOK ==
    /\ out \in [Request -> Seq(Token)]
    /\ rehydrate \in [Request -> BOOLEAN]
    /\ st \in [Request -> StateType]
    /\ Nodes(tree) \subseteq Path /\ tree \in [Nodes(tree) -> NodeType]
    /\ numCached \in Int
    /\ free \subseteq Page
    /\ kv \in [Page -> Path]

\* A node's reference count is the number of requests whose cache_node is it
\* or lies below it, whatever splits, commits and releases came between.
\* One too few and the pages of a running request are evicted under it; one
\* too many and they stay in the cache for good.  (Never negative follows:
\* dec_lock_ref's RuntimeError cannot be raised.)
RefCountExact ==
    \A n \in Nodes(tree) :
        tree[n].ref_count = Cardinality({r \in Request : Covers(st[r].node, n)})

\* Every request's cache_node is in the tree, so walking up from it meets
\* the nodes that were locked.
HeldNodesInTree == \A r \in Request : st[r].node \in Nodes(tree) \cup {Root}

\* The tree is a radix tree of whole pages: each edge is at least one page
\* long with one page per block, no two children of a node begin with the
\* same page (or one would shadow the other in the children dict, its pages
\* lost), and the counter agrees with the pages in it.
TreeShape ==
    /\ \A n \in Nodes(tree) :
         /\ n # Root
         /\ Len(tree[n].pages) = Len(n) - ParentLen(tree, n)
    /\ \A m, n \in Nodes(tree) :
         m # n => \E k \in 0 .. Len(m) : /\ k = 0 \/ Upto(m, k) \in Nodes(tree)
                                         /\ k <= Len(n) /\ Upto(n, k) = Upto(m, k)
                                         /\ k = Len(m) \/ k = Len(n) \/ m[k + 1] # n[k + 1]
    /\ numCached = PageCount(tree, Nodes(tree))

\* Admission may count on it: evict can free exactly what num_evictable
\* reports, because no unlocked node has a locked one below it.
EvictableExact ==
    \A need \in 1 .. NumEvictable(tree) + 1 :
        \A E \in EvictableSets(tree, need) :
            PageCount(tree, E) >= Lesser(need, NumEvictable(tree))

\* This step prepares r, or releases r again.
Attached(r) == Prefilling(r) /\ out' = out /\ ~st[r].prepared /\ st'[r].prepared
Detached(r) == Prefilling(r) /\ out' = out /\ st[r].prepared /\ ~st'[r].prepared

\* The agent policy takes the estimates of all candidates before it prepares
\* any, and passes over those whose estimate does not fit.  Preparing r, which
\* splits an edge if the match ends inside one, finds that r needs the pages
\* that were estimated for it and makes no page available; preparing and
\* releasing r leaves the others' estimates true.  So whoever is passed over
\* would not fit when prepared either.
EstimatesHold ==
    [][\A r \in Request, c \in ChunkSizes :
          /\ Attached(r) => /\ PrefillNeeded(r, st'[r], c) = EstimatedPages(tree, r, c)
                            /\ NumEvictable(tree') <= NumEvictable(tree)
          /\ Attached(r) \/ Detached(r) =>
                \A q \in Request : Prefilling(q) =>
                    EstimatedPages(tree', q, c) = EstimatedPages(tree, q, c)
      ]_engineVars

\* What the tree maps each path to.
CachedMap ==
    [p \in UNION {{Upto(n, i) : i \in 1 .. Len(n)} : n \in Nodes(tree)} |->
        LET n == CHOOSE n \in Nodes(tree) : Covers(n, p)
        IN  PagesForNode(tree, n)[Len(p)]]

KV == INSTANCE PagedKV WITH cached <- CachedMap

\* The engine on the tree implements the engine on the map, and with it has
\* all of the map's properties: no page in two places or none, borrowed
\* pages stay cached, attention reads the right KV.
ImplementsPagedKV == KV!KVSpec

===============================================================================
