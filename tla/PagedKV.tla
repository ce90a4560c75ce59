-------------------------------- MODULE PagedKV --------------------------------
(***************************************************************************)
(* What the engine's paged bookkeeping (engine.py: prepare, release,       *)
(* commit, retract and free of the paged state, the page-table growth of   *)
(* paged_batched_prefill and paged_batched_decode), the KV page pool and   *)
(* the radix cache promise together, without the tree.                     *)
(*                                                                         *)
(* The cache is a prefix-closed map from paths (page-aligned token         *)
(* prefixes) to pages.  A path is locked while a request borrows it.       *)
(* Pages are handed out by allocate, after evicting unlocked paths when    *)
(* the free list is short; which unlocked paths is left open here.  The    *)
(* tree, its reference counts and its LRU order belong to PagedEngine.     *)
(***************************************************************************)
EXTENDS PagedState

VARIABLE cached         \* path -> page, the content of the radix cache

kvVars == <<out, rehydrate, st, cached, free, kv>>

-------------------------------------------------------------------------------
(* The cache as a map. *)

Cached == DOMAIN cached
PagesAt(E) == {cached[p] : p \in E}
WithoutPaths(E) == [p \in Cached \ E |-> cached[p]]

\* A path is locked while it lies on the way to a node some request holds.
Unlocked(states) == {p \in Cached : \A r \in Request : ~Covers(states[r].node, p)}

\* k blocks of p are cached and no longer prefix of p is.
LongestHit(p, k) ==
    /\ \A i \in 1 .. k : Upto(p, i) \in Cached
    /\ \A i \in k + 1 .. Len(p) : Upto(p, i) \notin Cached

\* Mutant: cache_seq_len is not set from the match.
PreparedStates_NoLen(r) ==
    IF st[r].prepared THEN {st[r]}
    ELSE LET p == MatchPath(r)
         IN  {[table |-> [i \in 1 .. k |-> cached[Upto(p, i)]], len |-> 0,
               node |-> Upto(p, k), prepared |-> TRUE] :
              k \in {j \in 0 .. Len(p) : LongestHit(p, j)}}

\* The states prepare_paged_prefill can leave behind for r (exactly one).
PreparedStates(r) ==
    IF st[r].prepared THEN {st[r]}
    ELSE LET p == MatchPath(r)
         IN  {[table |-> [i \in 1 .. k |-> cached[Upto(p, i)]], len |-> k * PageSize,
               node |-> Upto(p, k), prepared |-> TRUE] :
              k \in {j \in 0 .. Len(p) : LongestHit(p, j)}}

\* pool.num_free + pool.num_evictable, with the given paged states.
Available(states) == Cardinality(free) + Cardinality(Unlocked(states))

-------------------------------------------------------------------------------
(* One operator per engine operation: its whole effect on st, cached, free  *)
(* and kv.                                                                  *)

\* Mutant: locked paths are evicted too.
EvictSets_Locked(n) ==
    IF n <= 0 THEN {{}}
    ELSE {E \in SUBSET Cached :
            /\ \A p \in E, q \in Cached : Covers(q, p) => q \in E
            /\ Cardinality(E) >= n}

\* Mutant: inner nodes are evicted from under their children.
EvictSets_AnyOrder(n) ==
    IF n <= 0 THEN {{}}
    ELSE {E \in SUBSET Unlocked(st) : Cardinality(E) >= n \/ E = Unlocked(st)}

\* What evict(n) may drop: unlocked paths, a path never without the longer
\* ones below it, and at least n pages if that many are unlocked.
EvictSets(n) ==
    IF n <= 0 THEN {{}}
    ELSE {E \in SUBSET Unlocked(st) :
            /\ \A p \in E, q \in Cached : Covers(q, p) => q \in E
            /\ Cardinality(E) >= n \/ E = Unlocked(st)}

\* page_table.extend(pool.allocate(n)).
GrowTable(r, n) ==
    \E E \in EvictSets(n - Cardinality(free)) :
        /\ ExtendTable(r, n, free \cup PagesAt(E))
        /\ cached' = WithoutPaths(E)
        /\ kv' = Erased(PagesAt(E))

\* pool.allocate(n) raises "KV pool exhausted": evict has already dropped
\* every unlocked path by then.
Exhausted(n) ==
    /\ n > Available(st)
    /\ free' = free \cup PagesAt(Unlocked(st))
    /\ cached' = WithoutPaths(Unlocked(st))
    /\ kv' = Erased(PagesAt(Unlocked(st)))
    /\ UNCHANGED st

\* prepare_paged_prefill: attach and lock the longest cached prefix.
PreparePagedPrefill(r) ==
    /\ \E s \in PreparedStates(r) : st' = [st EXCEPT ![r] = s]
    /\ UNCHANGED <<cached, free, kv>>

\* release_paged_prefill: drop the state, unlocking what it borrowed.
ReleasePagedPrefill(r) ==
    /\ st' = [st EXCEPT ![r] = NoState]
    /\ UNCHANGED <<cached, free, kv>>

\* commit_paged_cache: the full pages of r's KV-backed tokens go into the
\* cache; of those already cached, r's own copies are duplicates and return
\* to the pool.  When r has finished, the rest of its table returns too.
CommitPagedCache(r, finished) ==
    LET s == st[r]
        p == CommitPath(r)
        freed(k) == {s.table[i] : i \in (Len(s.node) + 1 .. k) \cup
                        (IF finished THEN Len(p) + 1 .. Len(s.table) ELSE {})}
        added(k) == {Upto(p, i) : i \in k + 1 .. Len(p)}
    IN  \E k \in 0 .. Len(p) :
          /\ LongestHit(p, k)
          /\ cached' = [q \in Cached \cup added(k) |->
                          IF q \in Cached THEN cached[q] ELSE s.table[Len(q)]]
          /\ free' = free \cup freed(k)
          /\ kv' = Erased(freed(k))
          /\ st' = [st EXCEPT ![r] =
                      IF finished THEN NoState
                      ELSE [s EXCEPT !.table = [i \in 1 .. Len(s.table) |->
                                                  IF i <= k THEN cached[Upto(p, i)]
                                                            ELSE s.table[i]],
                                     !.node = p,
                                     !.prepared = TRUE]]

\* Mutant: the borrowed pages are returned to the pool as well.
RetractPagedState_Whole(r) ==
    /\ free' = free \cup {st[r].table[i] : i \in 1 .. Len(st[r].table)}
    /\ kv' = Erased({st[r].table[i] : i \in 1 .. Len(st[r].table)})
    /\ st' = [st EXCEPT ![r] = NoState]
    /\ UNCHANGED cached

\* retract_paged_state: own pages return to the pool, borrowed ones are
\* only unlocked.
RetractPagedState(r) ==
    /\ free' = free \cup Own(st[r])
    /\ kv' = Erased(Own(st[r]))
    /\ st' = [st EXCEPT ![r] = NoState]
    /\ UNCHANGED cached

-------------------------------------------------------------------------------
(* The state machine: the engine's operations in any order the life of a    *)
(* request allows.  A request prefills (possibly in chunks), runs, may be    *)
(* retracted and rehydrated, and finishes.                                   *)

KVInit ==
    /\ out = [r \in Request |-> <<>>]
    /\ rehydrate = [r \in Request |-> FALSE]
    /\ st = [r \in Request |-> NoState]
    /\ cached = [p \in {} |-> p]
    /\ free = Page
    /\ kv = [g \in Page |-> <<>>]

Prepare(r) ==
    /\ Prefilling(r)
    /\ PreparePagedPrefill(r)
    /\ UNCHANGED <<out, rehydrate>>

\* Only a state that has not grown yet is released.
Release(r) ==
    /\ Prefilling(r) /\ Retractable(st[r]) = 0
    /\ ReleasePagedPrefill(r)
    /\ UNCHANGED <<out, rehydrate>>

\* Rehydrated requests run on, several at once if the cache had all of them.
Resume(R) ==
    /\ \A r \in R : rehydrate[r] /\ st[r].prepared /\ PrefillComplete(r, st[r])
    /\ rehydrate' = [r \in Request |-> rehydrate[r] /\ r \notin R]
    /\ UNCHANGED <<out, st, cached, free, kv>>

GrowForPrefill(r) ==
    /\ MayPrefill(r)
    /\ \E chunk \in ChunkSizes :
         /\ PrefillNeeded(r, st[r], chunk) > 0
         /\ GrowTable(r, PrefillNeeded(r, st[r], chunk))
    /\ UNCHANGED <<out, rehydrate>>

GrowForDecode(r) ==
    /\ MayDecode(r)
    /\ Missing(st[r], st[r].len + 1) > 0
    /\ GrowTable(r, Missing(st[r], st[r].len + 1))
    /\ UNCHANGED <<out, rehydrate>>

RunOut(r) ==
    /\ \/ \E chunk \in ChunkSizes :
            MayPrefill(r) /\ Exhausted(PrefillNeeded(r, st[r], chunk))
       \/ MayDecode(r) /\ Exhausted(Missing(st[r], st[r].len + 1))
    /\ UNCHANGED <<out, rehydrate>>

PrefillForward(R) ==
    /\ \E chunk \in ChunkSizes :
         /\ \A r \in R : MayPrefill(r) /\ PrefillNeeded(r, st[r], chunk) = 0
         /\ Forward(R, [r \in R |-> PrefillFed(r, chunk)])
    /\ UNCHANGED <<out, rehydrate, cached>>

DecodeForward(R) ==
    /\ \A r \in R : MayDecode(r) /\ Missing(st[r], st[r].len + 1) = 0
    /\ Forward(R, [r \in R |-> DecodeFed(r)])
    /\ UNCHANGED <<out, rehydrate, cached>>

\* The token sampled after the last prompt chunk.
FirstToken(r, t) ==
    /\ Prefilling(r) /\ ~rehydrate[r] /\ st[r].prepared
    /\ PrefillComplete(r, st[r])
    /\ out' = [out EXCEPT ![r] = Append(@, t)]
    /\ CommitPagedCache(r, CheckFinished(out'[r]))
    /\ UNCHANGED rehydrate

\* The token sampled by a decode.
NextToken(r, t) ==
    /\ Running(r) /\ st[r].len = Len(Ids(r))
    /\ out' = [out EXCEPT ![r] = Append(@, t)]
    /\ IF CheckFinished(out'[r])
       THEN CommitPagedCache(r, TRUE)
       ELSE UNCHANGED <<st, cached, free, kv>>
    /\ UNCHANGED rehydrate

Retract(r) ==
    /\ MayDecode(r)
    /\ RetractPagedState(r)
    /\ rehydrate' = [rehydrate EXCEPT ![r] = TRUE]
    /\ UNCHANGED out

KVNext ==
    \/ \E r \in Request :
         \/ Prepare(r) \/ Release(r) \/ Retract(r) \/ RunOut(r)
         \/ GrowForPrefill(r) \/ GrowForDecode(r)
         \/ \E t \in Token : FirstToken(r, t) \/ NextToken(r, t)
    \/ \E R \in (SUBSET Request) \ {{}} : Resume(R) \/ PrefillForward(R) \/ DecodeForward(R)

KVSpec == KVInit /\ [][KVNext]_kvVars

-------------------------------------------------------------------------------
(* Properties. *)

KVTypeOK ==
    /\ out \in [Request -> Seq(Token)]
    /\ rehydrate \in [Request -> BOOLEAN]
    /\ st \in [Request -> StateType]
    /\ Cached \subseteq Path /\ cached \in [Cached -> Page]
    /\ free \subseteq Page
    /\ kv \in [Page -> Path]

\* Every usable page is in exactly one place: on the free list, in the cache
\* under one path, or at one position of one request's own part of its page
\* table.  A page in two places would be written under a reader or handed
\* out twice; a page in none is lost to the pool for good.
PagesPartitioned ==
    /\ \A p, q \in Cached : cached[p] = cached[q] => p = q
    /\ PagesAt(Cached) \cap free = {}
    /\ \A r \in Request :
         /\ Own(st[r]) \cap free = {}
         /\ Own(st[r]) \cap PagesAt(Cached) = {}
         /\ \A q \in Request \ {r} : Own(st[r]) \cap Own(st[q]) = {}
         /\ \A i, j \in Len(st[r].node) + 1 .. Len(st[r].table) :
              st[r].table[i] = st[r].table[j] => i = j
    /\ Page = free \cup PagesAt(Cached) \cup UNION {Own(st[r]) : r \in Request}

\* What a request borrows stays in the cache, on the same pages, as long as
\* it holds the node: eviction and other requests' commits never pull it
\* away.
BorrowedStayCached ==
    \A r \in Request : \A i \in 1 .. Len(st[r].node) :
        /\ Upto(st[r].node, i) \in Cached
        /\ i <= Len(st[r].table)
        /\ st[r].table[i] = cached[Upto(st[r].node, i)]

\* A cached path is reachable: all its shorter prefixes are cached.
PrefixClosed ==
    \A p \in Cached : p # <<>> /\ \A i \in 1 .. Len(p) : Upto(p, i) \in Cached

\* Attention reads the right history: through its page table a request sees,
\* at each of its cache_seq_len positions, KV computed for exactly its own
\* tokens up to there, and each cached path maps to a page holding exactly
\* that path, whoever wrote it.
KVFaithful ==
    /\ \A p \in Cached : kv[cached[p]] = p
    /\ \A r \in Request : LET s == st[r] IN
         /\ PagesNeeded(s.len) <= Len(s.table)
         /\ \A i \in 1 .. PagesNeeded(s.len) :
              kv[s.table[i]] = Upto(Blocks(SubSeq(Ids(r), 1, s.len)), i)

\* What a request borrows lies on the path it will commit: it is a prefix of
\* its own tokens, after any retraction and rehydration too.  Otherwise the
\* commit, which takes what it borrowed for the first pages of that path,
\* would lock one prefix and read another.
NodeOnPath == \A r \in Request : Covers(CommitPath(r), st[r].node)

-------------------------------------------------------------------------------
(* The inductive invariant. *)

PagesInv == PrefixClosed /\ BorrowedStayCached /\ PagesPartitioned

\* A state that was not prepared is empty, tables are long enough for what
\* they hold, and KV never runs ahead of the tokens.
StatesFit ==
    \A r \in Request : LET s == st[r] IN
        /\ ~s.prepared => s = NoState
        /\ s.len <= Len(Ids(r))
        /\ PagesNeeded(s.len) <= Len(s.table)
        /\ Len(s.node) <= Len(s.table)

KVInv == KVTypeOK /\ StatesFit /\ NodeOnPath /\ PagesInv

===============================================================================
