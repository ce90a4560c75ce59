# A TLA+ model of miniengine

miniengine (`src/miniengine`) is a small LLM serving engine: an HTTP server
takes chat completions, one scheduler thread batches the requests, and an engine
runs a transformer over them. It has three modes: `baseline` (one request at a
time), `batched` (iteration-level batching, one KV tensor per request) and
`paged` (KV in a pool of fixed pages, a radix tree sharing the pages of common
prefixes, chunked prefill, retraction when the pool runs out in decode, captured
CUDA graphs). This directory holds its specification: TLA+ modules, TLC
configurations that check them on small instances, and TLAPS proofs.

`PROJECT.json` lists the components, the runs, for every property a mutant of
the code that breaks it, the source lines behind each definition, the hazards
and the findings.

## The system

| Part | State | Operations | Interacts with |
|---|---|---|---|
| HTTP server (`server.py`) | one coroutine per request; `token_queue` of each request | `chat_completions`, `_stream_response`, `_collect_full_response`, `/cache_stats` | `Scheduler.add_request` under its lock; one executor thread blocked in `token_queue.get` per output awaited |
| Scheduler (`scheduler.py`) | queues `waiting`, `retracted`, `prefilling`, `running`; `max_running`, mode, policy | `add_request`, `start`, `stop`, `_loop`, `step` in three modes | calls the engine; puts tokens and the sentinel on the queues |
| Engine, unpaged (`engine.py`) | `request.kv_cache` | `prefill`, `decode_step`, `batched_decode` with padding | model |
| Engine, paged (`engine.py`) | `_paged_state[r]`: page table, `cache_seq_len`, cache node, prepared flag | `prepare_`, `release_`, `retract_`, `free_`, `commit_paged_...`, `paged_batched_prefill`, `paged_batched_decode` | pool, radix cache, model |
| KV page pool (`kv_memory_pool.py`) | free list, tensors, scratch page 0 | `allocate`, `free`, `num_free`, `num_evictable` | evicts from the radix cache when short |
| Radix cache (`radix_cache.py`) | tree of nodes with pages, lock counts, access times; counters | `match_prefix`, `insert_and_return`, `inc_/dec_lock_ref`, `evict`, `reset` | gives evicted pages back to the pool |
| CUDA graph runner (`engine.py`) | per bucket: captured graph, persistent buffers | `capture_all`, `can_handle`, `run` | pool tensors |
| Model, sampler, tokenizer, profiling, CLI | weights, log file | forward, sample | - |

Two kinds of threads run: the scheduler's, and the server's event loop with its
executor. They share the waiting queue (locked), the token queues (thread-safe)
and, unlocked, what `/cache_stats` reads. Everything else in the engine belongs
to the scheduler thread, so the difficulty is less in races than in long legal
sequences: pages that move between free list, cache, borrower and owner;
availability computed at one point of a step and used at a later one; requests
moved between four queues and three local lists; exceptions that leave a step
half-way, after which `_loop` just calls `step` again.

What makes each part correct:

- *pool and cache*: each page is in one place; a locked node is never evicted;
  lock counts equal the number of borrowers below; `num_evictable` is what
  eviction can really free;
- *engine*: through its page table a request always finds the KV of its own
  tokens, and padding, sharing, retraction and graph replay leave no trace;
- *scheduler*: each request is in exactly one place, at most `max_running` are
  admitted, what admission promised is there when the batch allocates, everyone
  ends;
- *policy*: whoever waits gets a turn, in an order the scores justify;
- *server*: a client gets its tokens in order, once, then the end mark, and a
  server told to stop comes down.

## Modules

```
Paging ── PagedState ─┬─ PagedKV ──── PagedScheduler ── MC_PagedScheduler
                      │     ▲ INSTANCE (refinement)
                      └─ PagedEngine (EXTENDS RadixCache) ── MC_PagedEngine
BatchedScheduler ── ChatServer ──INSTANCE (refinement)──▶ ChatService
PagedSlots ── AttentionMetadata ── CudaGraph ── MC_CudaGraph
AgentPolicy ── MC_AgentPolicy
PagingProofs ─┬─ PagedKVProofs ──── PagedSchedulerProofs
              │     ▲ INSTANCE
              └─ RadixCacheProofs ─ PagedEngineProofs
CudaGraphProofs, ServerProofs (of ChatServer), AgentPolicyProofs
```

| Module | Models | Correspondence |
|---|---|---|
| `Paging` | page arithmetic, page-aligned token paths | `pages_needed`, `_align_down`, `_child_key`. A cached prefix is a *path*: the sequence of its page-sized blocks |
| `PagedState` | `_PagedState`, requests, free list, the model forward | `st[r]` is the paged state; the cache node is named by its path. `kv[g]`, a history variable, is the token prefix whose KV page `g` holds |
| `PagedKV` | **abstract**: what engine, pool and cache promise together | the cache is a map from paths to pages; which unlocked paths are evicted is open. One operator per engine operation (its whole effect), one action per call |
| `RadixCache` | the tree of `radix_cache.py` | a function from node paths to pages, lock count and access rank; match splits edges, eviction is leaf first and least recently used |
| `PagedEngine` | **detailed**: the same operations on the tree | implements `PagedKV` through `CachedMap` |
| `PagedScheduler` | `_loop`, `_step_paged`, `add_request`, retraction | `pc` walks through the phases of `step`; every loop iteration is an action; the lock covers the three admission phases; an exception drops the step's locals |
| `BatchedScheduler` | `_step_baseline`, `_step_batched`, unpaged engine | a KV entry is a token and its position; a padded row is a sequence with `Pad` entries, a mask and a last column |
| `AgentPolicy` | `_select_waiting_request_for_paged_prefill`, `_agent_cache_priority` under both policies | pages are only counted; time passes in ticks of a second; `lead[c][d]` is how much earlier `c`'s request arrived than `d`'s, which is all that comparing two scores needs. Hits change freely between two selections |
| `ChatService` | **abstract**: what a client is promised | `output[r]` grows by one token at a time until it is complete (`Generate`), `Send` delivers the first of `output[r]`, then of the end mark, that the client has not been sent; besides `Ask` and `Leave` |
| `ChatServer` | handlers, executor, disconnects, shutdown | `jobs` wait for one of `Workers` threads, `busy` ones block in `get`; `server` goes from `up` through `closing` (uvicorn lets handlers finish, or cancels them) and `stopping` (`Scheduler.stop`) to `down` |
| `PagedSlots` | **abstract**: what paged forwards do to the pool's slots | each request of a batch has its next tokens written to the slots of their positions and nothing else changes |
| `AttentionMetadata` | the index tensors of chunked prefill and eager decode, both backends | `cu_seqlens`, `slot_mapping`, block tables, `kv_indptr`, `kv_indices`, `kv_last_page_len`, `logits_indices` as sequences; one `Row` per token says where its KV goes, which queries its sequence takes and what it attends to |
| `CudaGraph` | chunked prefill, eager decode and bucketed replay as steps | computes the rows and applies them to the slots; `kvIndices` is the buffer that keeps old entries; implements `PagedSlots` |

`PagedScheduler` uses `PagedKV` and not the tree. That the tree implements the map
is shown by the run `engine` and proved in `PagedEngineProofs`; that every scheduler
step is a legal engine operation (the property `KVSpec`) by the runs `admission`
and `retraction_cached` and in `PagedSchedulerProofs`. So the results about the
engine carry over to both. `Resume`
takes a set of requests, since one pass of `_step_paged` moves all rehydrated
requests that need no forward back to running.

A definition named `X_<What>` is a mutant of `X`: a plausible bug. It is used by
no specification; put in X's place it makes the property listed with it in
`PROJECT.json` fail, which shows that the property depends on that code.

## Runs

Pools have 2 to 5 pages, and where tokens are modelled the page size is 2, so that
pages fill, tables have partly filled last pages, and the pool runs out. Prompts
share a first page and then diverge, or share nothing. Token sets have two or
three members, one of them a stop token.

| Run | Question | Properties |
|---|---|---|
| `engine` | engine operations over the tree, every legal order, with edges of several pages that split | `EngineTypeOK`, `RefCountExact`, `HeldNodesInTree`, `TreeShape`, `EvictableExact`, `EstimatesHold`, `ImplementsPagedKV` |
| `admission` | cache, chunks of 2, agent policy (any admissible candidate first), 3 pages for 3 requests, one failing decode | `TypeOK`, `OneHome`, `OnlyActiveHoldPages`, `ReservationsCovered`, `KVSpec`, `EveryRequestEnds` |
| `retraction` | no cache, decode runs out of pages, one decode fails | `OneHome`, `AdmissionBound`, `EveryRequestEnds` |
| `retraction_cached` | retraction, cache, chunks, one failing prefill or decode | `StreamWellFormed`, `PagesPartitioned`, `BorrowedStayCached`, `PrefixClosed`, `KVFaithful`, `NodeOnPath`, `OnlyBatchesAreLost`, `KVSpec` |
| `server` | baseline and batched mode, 3 clients, 1 executor thread, 1 client that may hang up, 1 failing forward, both signals | `ServerTypeOK`, `KVExact`, `KVHeldByRunning`, `OneHome`, `ImplementsService`, `EveryClientAnswered`, `ShutdownCompletes` |
| `graph` | prompts of 3 tokens in one chunk or two, batches of up to 3 in any order, both backends, a bucket of 3, eager beyond `MaxPages` | `TypeOK`, `RowsDoNotRace`, `ReadsOwnHistory`, `SamplesLastToken`, `HoldsOwnHistory`, `SlotsSpec` |
| `policy` | both policies; a critical and an optional client with requests of 2 pages, a third with requests of 1; 3 pages | `PolicyTypeOK`, `OvertakingBounded`, `NoStarvation` |
| `viol_reservations` | violated: `ReservationsCovered` | finding 1 |
| `viol_chunk_stall` | violated: `EveryRequestEnds` | finding 2 |
| `viol_pinned` | violated: `EveryRequestEnds` | finding 3 |
| `viol_graph_queries` | violated: `OneQueryPerRequest` | finding 4 |
| `viol_starvation` | violated: `NoStarvation` | finding 5 |

**Why the bounds are enough.** Three requests are needed for a borrower, an
evictor and a bystander, and for an edge that splits between two others. With
page size 2 every position in a page (first, last, none) occurs; prompts of 1 to
4 pages give edges of one and more pages. Chunks of 3 tokens (`engine`) begin and
end inside pages. Outputs of 2 or 3 tokens cross a page
boundary in decode. Three or four pages for three requests make every
interesting shortage happen: admission that does not fit, eviction that
suffices, eviction that does not, retraction. In `graph`, a bucket of 3 with a
page size of 2 pads by 0, 1 and 2 rows, as many as the scratch page has slots;
a prompt of 3 tokens ends in the middle of a page, its second chunk is shorter
than its first, and chunks of both kinds are packed together; four usable pages
let a batch leave its pages in the tail of the buffer for a smaller one. In
`policy`, ages run to 8 seconds, which is `CRITICAL_WEIGHT` (5) +
`OPTIONAL_PENALTY` (2) + the largest hit (1, 500 tokens); `AgeAssumption` asks
for no less, since past that age alone decides.

Bounds that are not constants of the code: `MaxFaults` (failing forwards),
`MaxLen` and `PromptLen` (lengths in `PagedSlots` and `CudaGraph`), `MaxAge` and
`MaxHit` (`AgentPolicy`), `Workers` (the executor really has more threads, and
more clients). Symmetry over pages (or requests in `graph`) is used only in runs
without liveness, where page identities appear in no constant.

`CHECK_DEADLOCK` is off in `engine`, `graph` and the two runs of `AgentPolicy`. In
the first two all requests may have ended, lengths being bounded. In the others
every client may have stopped sending. The schedulers have an explicit `Quiet`
step, so a deadlock of theirs would be found.

**Fairness.** `PagedScheduler!FairSpec` has `WF_vars(StepPaged)`: the scheduler
is one thread that always runs its next statement (`while self._running_flag`).
There is none on `AddRequest`: clients need not send. Which token is sampled and
which victim among equals is retracted are chosen by no fairness. In
`ChatServer`, the scheduler thread, the executor starting the oldest job
(`StartGet`: its queue is a FIFO), each blocked `get` that has an output
(`FinishGet(r)`), and what `main` does once it can (`StopScheduler`, `Exit`) are
weakly fair; `Post`, `Disconnect` and the two signals are not. In `AgentPolicy`
the admission loop (`AdmitNext`) and each admitted request's end (`Finish(c)`,
which is what `EveryRequestEnds` is about) are weakly fair, and time passes;
`Arrive` is not fair.

**What the passing runs say, and what they do not.** `EveryRequestEnds` holds in
`admission` (cache and chunks; whoever is admitted can end with the pages it can
get) and in `retraction` (no cache, unchunked, running out in decode). It fails
in the two combinations of findings 2 and 3. `ReservationsCovered` holds in
`admission`, where retraction is off, and fails with it (finding 1).
`NoStarvation` holds in `policy`, where the small client alone cannot keep a
large one from fitting, and fails where two can (finding 5). After a failing
prefill its batch is forgotten: it is in a local list when the exception leaves
the step. `OnlyBatchesAreLost` (in `retraction_cached`, and proved) says that
nothing else is, whatever fails. `OneHome` is checked of the paged scheduler where
only decodes fail, which lose nobody. In `server`, `OneHome` lets a failed prefill
lose requests (a failed forward, in baseline mode), and `EveryClientAnswered` and
`ShutdownCompletes` exempt runs in which it has (`Lost`): the rest of `to_prefill`
is never finished, the worker blocked for it never comes back, and a shutdown
waits for that worker. So none of the three speaks against that loss, which is in
the list of hazards without a property.

`EstimatesHold` justifies leaving the policy's estimates out of `PagedScheduler`,
where a candidate is taken if it fits once prepared: the estimate is exact, and
whoever is passed over for it would not fit prepared either. The properties of
`graph` are about padding that fits the scratch page (`PaddingAssumption`), and
`ReadsOwnHistory` leaves out the flash_attn replays, where it fails (finding 4).
`HoldsOwnHistory` and `SlotsSpec` are about which token's KV a slot has, under
both backends; what is computed for a token above the first layer depends on what
it attends to, so in those replays the slot is right and its content is not.

## Findings

1. **Reservations can be undone in the same step** (`scheduler.py:255-260`,
   run `viol_reservations`). A retracted request that is still wholly cached is
   rehydrated without a page check, and locking its prefix takes pages that were
   counted as evictable for an earlier admission. The prefill's `allocate` then
   raises and the batch, already off its queues, is lost.
2. **Chunked prefills can stall each other** (`scheduler.py:238-247`, run
   `viol_chunk_stall`). Two prompts whose first chunks fill the pool wait for one
   another; retraction is only tried in decode.
3. **Retraction finds no victim although one would help**
   (`scheduler.py:433-439`, run `viol_pinned`). When all pages are locked in the
   cache by running requests nobody has a page *of its own*, so none is
   retracted, though retracting one would unlock its prefix for eviction.
4. **The flash_attn graph shares one buffer for queries and keys**
   (`engine.py:1165-1166`, `1304`, run `viol_graph_queries`). On replay each row is
   given `cache_seq_len + 1` queries instead of one. Row `t` of `q` is then a
   query of whichever sequence's span covers `t`, and attends, causally, to the
   first keys of that one (`FlashAttnRows`): alone in its batch, a request attends
   to its first token only. The kernel is taken at its word about `cu_seqlens_q`;
   what it does when that contradicts `max_seqlen_q = 1` is not ours to say. (The
   flashinfer graph is not affected. The slots that the flash_attn rows write are
   right, which `graph` checks.)
5. **Age does not prevent starvation** (`scheduler.py:379-391`, run
   `viol_starvation`). Candidates are sorted by score, but one that does not fit
   is passed over, however old, for the next that does. Two clients with small
   requests take turns on the pages a large one waits for. (Among candidates
   that fit, age does bound overtaking: `OvertakingBounded`, proved.)

Seen while modelling, and excluded by an assumption nothing in the code checks:
a request larger than the pool is never admitted nor rejected and blocks the head
of the queue for ever (`NeedAssumption`; `milestones/milestone2.md:31` has
admission either succeed or be rejected); buckets with gaps larger than
`page_size` would pad into real pages (`PaddingAssumption`). Without retraction a
decode that runs out of pages is retried for ever. An exception while a batch's
results are handled loses tokens. Each is in the list of hazards.

## Proofs

Checked by TLAPS for all values of the constants, from the assumptions named in
the modules (finite sets of requests and pages, non-empty prompts, a page size of
at least 1, `max_running` of at least 1).

| Theorem | Module | States |
|---|---|---|
| `OnePlacePerPage` | `PagedKVProofs` | `KVSpec => []PagesPartitioned` |
| `BorrowedAreCached` | `PagedKVProofs` | `KVSpec => []BorrowedStayCached` |
| `BorrowedOnPath` | `PagedKVProofs` | `KVSpec => []NodeOnPath` |
| `CacheIsPrefixClosed` | `PagedKVProofs` | `KVSpec => []PrefixClosed` |
| `ReadsRightHistory` | `PagedKVProofs` | `KVSpec => []KVFaithful` |
| `EngineImplementsPagedKV` | `PagedEngineProofs` | `EngineSpec => ImplementsPagedKV` |
| `EngineTypeCorrect` | `PagedEngineProofs` | `EngineSpec => []EngineTypeOK` |
| `TreeKeepsShape` | `PagedEngineProofs` | `EngineSpec => []TreeShape` |
| `RefCountsAreExact` | `PagedEngineProofs` | `EngineSpec => []RefCountExact` |
| `HeldNodesStay` | `PagedEngineProofs` | `EngineSpec => []HeldNodesInTree` |
| `EvictsWhatItReports` | `PagedEngineProofs` | `EngineSpec => []EvictableExact` |
| `EstimatesStayTrue` | `PagedEngineProofs` | `EngineSpec => EstimatesHold` |
| `EnginePagesHaveOnePlace` | `PagedEngineProofs` | `EngineSpec => [](PagesPartitioned /\ BorrowedStayCached)` of the map |
| `EngineReadsRightHistory` | `PagedEngineProofs` | `EngineSpec => []KVFaithful` of the map |
| `SchedulerImplementsKV` | `PagedSchedulerProofs` | `Spec => KVSpec` |
| `SchedulerReadsRightHistory` | `PagedSchedulerProofs` | `Spec => []KVFaithful` |
| `StreamsAreWellFormed` | `PagedSchedulerProofs` | `Spec => []StreamWellFormed` |
| `AdmissionBounded` | `PagedSchedulerProofs` | `Spec => []AdmissionBound` |
| `SchedulerTypeCorrect` | `PagedSchedulerProofs` | `Spec => []TypeOK` |
| `ReservationsAreCovered` | `PagedSchedulerProofs` | `Spec => []ReservationsCovered`, if `NoFreeRehydration` |
| `AdmittedBatchesAllocate` | `PagedSchedulerProofs` | `Spec => [][~AllocPrefillFails]_vars`, if `NoFreeRehydration` |
| `NobodyIsLost` | `PagedSchedulerProofs` | `Spec => []OneHome`, if `NoBatchDropped` |
| `FailuresLoseOnlyBatches` | `PagedSchedulerProofs` | `Spec => OnlyBatchesAreLost` |
| `IdleRequestsHoldNothing` | `PagedSchedulerProofs` | `Spec => []OnlyActiveHoldPages`, if `NoBatchDropped` |
| `ServerImplementsService` | `ServerProofs` | `Spec => ImplementsService` |
| `ServerTypeCorrect` | `ServerProofs` | `Spec => []ServerTypeOK` |
| `KVIsHeldByRunning` | `ServerProofs` | `Spec => []KVHeldByRunning` |
| `RequestsHaveOneHome` | `ServerProofs` | `Spec => []OneHome` |
| `PaddingLeavesNoTrace` | `ServerProofs` | `Spec => []KVExact` |
| `KeepsHistory` | `CudaGraphProofs` | `SlotsSpec => []HoldsOwnHistory` |
| `ForwardsImplementSlots` | `CudaGraphProofs` | `Spec => SlotsSpec` |
| `ForwardsKeepHistory` | `CudaGraphProofs` | `Spec => []HoldsOwnHistory` |
| `TokensReadTheirHistory` | `CudaGraphProofs` | `Spec => []ReadsOwnHistory` |
| `WritesDoNotRace` | `CudaGraphProofs` | `Spec => []RowsDoNotRace` |
| `SampledFromLastToken` | `CudaGraphProofs` | `Spec => []SamplesLastToken` |
| `GraphTypeCorrect` | `CudaGraphProofs` | `Spec => []TypeOK` |
| `OvertakingIsBounded` | `AgentPolicyProofs` | `Spec => OvertakingBounded` |
| `PolicyTypeCorrect` | `AgentPolicyProofs` | `Spec => []PolicyTypeOK` |

Every safety property the passing runs check is among them. The two hypotheses are about
the constants, and name what the findings say loses requests:
`NoFreeRehydration` is `~(EnableRetraction /\ CacheOn)`, the complement of finding
1's configuration, and `NoBatchDropped` adds that the prefill's forward does not
fail (`_step_paged` has taken the batch off its queues by then). For other constants
the four fail.

*The engine's invariant* is `KVInv == KVTypeOK /\ StatesFit /\ NodeOnPath /\
PagesInv`. `PagesPartitioned` alone is not inductive. A commit turns own pages into
cached ones, and that is only right if the request's borrowed prefix is where the
cache says (`BorrowedStayCached`) and lies on the path committed (`NodeOnPath`);
`NodeOnPath` needs that KV never runs ahead of tokens (`StatesFit`), and eviction
keeps borrowed paths only because the cache is prefix-closed. The proof has one
lemma per engine operation (grow, exhausted, prepare, release, commit, retract,
forward), each used by the actions that call it; `PartitionKept` is the common
argument: if one request's own pages, the cache and the free list have together
the same pages as before and are apart, every page still has one place.
`PagingProofs` has the lemmas on paths and prefixes.

*The right history* (`KVFaithful`) rests on that invariant: `HistoryInv == KVInv /\
AllRead`, and `AllRead` says of cached paths and of requests that the pages they
read hold what they should. `KVInv` settles which pages an operation may touch: what
is evicted, freed or written is never read by the cache or another request
(`EvictedUnread`, `OwnIsPrivate`). What is left is the content of the others: an
attached prefix is a prefix of the request's own tokens (`NodeOnPath`), a committed
page is cached under the tokens it was computed for (`CommittedPages`), and a
forward writes only behind the full pages, so that it never rewrites a borrowed one.

*The tree.* `EngineInv == KVP!KVInv /\ TreeInv`, where `KVP` is `PagedKVProofs` at the
map the tree stands for and `TreeInv` says that the tree has its shape
(`RadixTree`), that the nodes held are in it (`HeldIn`), that each node counts the
requests that hold it or a node below it (`Counts`), and that `numCached` is the
number of paths. `RadixCacheProofs` reasons about any tree of the right shape
through *holders*: a cached path is held by the one node whose edge it ends in, and
the map sends it to that node's page for it. A split divides the paths of one
holder between two and so leaves the map alone, an insertion adds one holder, an
eviction takes whole holders away, and a change of lock counts none. Each engine
operation on the tree is then shown to be `PagedKV`'s on the map and to keep
`TreeInv`; `KVInv` need not be proved again, since `PagedKV` keeps it. What is
particular to the tree is the counting: a split gives the new upper node the
references of the lower one, which are exactly the requests at or below it, and
an unlocked leaf's path is one nobody borrows. `EvictsWhatItReports` builds on
that: as long as something is evictable there is an evictable leaf, so that going
leaf by leaf reaches all of it. `EstimatesStayTrue` has two parts. A tree's match of a
path depends on the paths it holds alone, and attaching or detaching a prefix at most
splits an edge, which keeps them: so estimates stay as they were. And the match is
what `prepare` attaches, page for page, from which the pages still needed follow.

*The scheduler's invariant* is `AdmissionInv == QueueTypes /\ StepLocals /\
AdmissionBound`. `StepLocals` says which of the step's local lists are in use in
which phase; without it a request counted in `toPrefill` could be counted a second
time when its result is handled.

*The scheduler over the engine.* An engine operation is made for requests in a
certain state, and nothing in the engine checks that it is called for one. What
the scheduler relies on is that each of its queues stands for a stage of a
request's life. `SchedInv == KVInv /\ AdmissionInv /\ Homes /\ Stages` says so:
`Stages` gives the stage (whoever waits is fresh, whoever was retracted has no
pages and tokens to come back for, whoever is in `running` may decode, and so on),
`Homes` that no request is twice in a queue or in two of the prefill's, so that
what is done to one request of a batch leaves the others at their stage. With it
each action is one operation of `PagedKV` or changes none of its state:
`EndRetracted` and `EndWaiting` do the latter, since whoever was not admitted has no
state to give back. The streams follow: a token is emitted only for a request that
the stage of its queue says is unfinished.

*Reservations.* `CoverInv` says that during admission what the batch lacks
(`Asked`, a sum over its requests) is what was reserved, and that it does not
exceed what the pool has free or can evict. It is kept because attaching a prefix
lowers what is available by no more than the admission allowed for, and each
allocation of the batch takes from both sides what it gets (`GrowTakes`). A
rehydration that needs no forward takes from one side only: that is finding 1, and
why `NoFreeRehydration` is assumed.

*Places.* `OneHome` speaks of moments at which the step's locals are empty or
accounted for, so it is not inductive. `PlaceInv` follows a request through the
locals: until it has finished it is in a queue, in the batch or in `Going`, the part
of `running` whose token has not been handled yet, and nobody outside of these
holds pages (`Kept`). Whoever is in `running` and not in `Going` while the tokens
of a decode are handled has finished (`Decoding`), because `running` is only
replaced after the loop. Every step but a failing prefill keeps everybody's place
(`StepPlaces`), whatever the constants; a failing prefill leaves every list but
`toPrefill` alone. `FailuresLoseOnlyBatches` is those two facts.

*The slots' invariant* is `SlotsInv == TypeInv /\ Held /\ Apart /\
HoldsOwnHistory`. `HoldsOwnHistory` needs that no page is in two tables or twice
in one and that none in a table is free (`Apart`), so that two requests of a batch
never write one slot and a released page takes nobody's KV along, and that every
cached token has a page (`Held`). The arithmetic is in lemmas of their own: which
page a slot is on, and that different positions of a table without repetitions
are different slots.

*The forwards* implement `SlotsSpec`. Engine and graph runner hand the kernels flat
sequences, with the places at which each request's part begins. `Offsets` says that
such places are cumulated lengths, `Laid` that flattening puts row after row there.
Both are recursive functions. That each satisfies its equations needs a solution
for every length, and `RecursionHolds` has it by a least length without one
(`Upwards`), in place of an induction. The rest is one notion, `RowsFit`: row by row,
a token's target is its position's slot and, where kernels are given one query for
each (`OneQueryEach`), the pages it reads begin with its request's and it reads as
many tokens as its position says; the padded rows behind them have different slots
of the scratch page. Four lemmas show it, one for each
kind of forward (packed or replayed, flash_attn or flashinfer; for the replayed
flashinfer from what `run` has copied to the front of `kv_indices`, whatever is
behind). `ForwardIsRight` takes it from there alone: then the forward is a `Write` of
`PagedSlots`, each token reads its history, no two rows write one slot, and the
logits are those of each request's last token. `PaddingAssumption` is used where
padded rows need a slot each.

*The policy's pages.* What is available and what was claimed for the running
requests is always the whole pool (`PagesAddUp`), which needs that a client has at
most one request running. *Overtaking* is bounded at the step that overtakes, by comparing scores:
`SortsFirst` puts the later request first only if its `Bonus` exceeds the
earlier one's by more than the lead, and a bonus is between `-OptionalPenalty` and
`MaxHit + CriticalWeight`. The invariant (`QueueInv`) only says that nobody is in
the queue twice and that leads are times; without the first, the request
admitted could be standing elsewhere in the queue, too.

*The server with the unpaged scheduler.* `ServerInv == Types /\ Phases /\ Places /\
Stages` of `ChatServer`: which lists of `step()` are in use in which phase of which
mode, that a request is in one of them only, and what each list says of its
requests (who waits has no KV and no output, those of `running` a decode has not
ended have both). `self.running` is only replaced at the end of a step, so that during
it the requests that go on are `todo` and `still` (`Going`), and whoever is in
`running` besides has ended; without that `KVHeldByRunning` is not inductive. A lost
request is accounted for by a failed forward (`Blamed`). `KVExact` adds that no one
has an output before the prefill, and that the masked columns of a row are exactly
its pads. The latter is about a recursive function (`Attended`, which goes
through the columns of a row): `AttendedIs` shows an explicit function to satisfy
the recursion, so that the recursion has a solution, and any solution to be that
one, by the least column in which they differ. `Least`, that a non-empty set of naturals
has a least element, comes from the library's `WFMin` and stands in for induction.

*The service.* `ServerImplementsService` needs to know what is under way to each
client: `StreamInv` says that a stream is the request's output, with the sentinel
behind it exactly if the output is complete (what the service calls `Sendable`), and `HandlerInv` that a handler which
still waits has received the outputs taken from the queue, in order, whichever
worker took them. Every step of the scheduler then generates one
token for one request that is not complete, or nothing, and every step of a worker
sends the client of its request the next token of that request's output, or the
end mark behind the last.

Only model-checked is liveness (`EveryRequestEnds`, `EveryClientAnswered`,
`ShutdownCompletes`, `NoStarvation`): the prover handles no `ENABLED`, which fairness
is made of, and its induction theorems take an operator, which the installed
provers cannot instantiate. The proofs about `CudaGraph` assume the padding fits
(`PaddingAssumption`), as the model does.

## Not modelled

- Tensors and kernels: a forward is what it leaves in pages or caches and what
  its tokens attend to. The sampler's distribution: any token may be sampled.
  `max_seqlen_q` and `max_seqlen_k`, which the kernels use as launch bounds.
- The tokenizer, weight loading, pool sizing and graph capture (done once at
  start, on device memory), command line, HTTP parsing and response layout,
  profiling, benchmarks.
- `/cache_stats` and the hit counters: nothing in the server acts on them. The
  number of cached pages they report is modelled (`TreeShape`).
- The tree's pointers: `RadixCache` names a node by its path, so that parent and
  child always agree; `reset()`, which nothing calls.
- Exceptions while a batch's results are handled (`decode_token`, the profiling
  log). Failing forwards and failing allocations are modelled.
- `MaxNew` is the same for all requests. Which free page is handed out is left
  open. `PagedScheduler` and `AgentPolicy` are not composed: the former allows any
  order of candidates, so its safety covers every score. `ChatServer` puts the
  handlers before `BatchedScheduler`; with the paged scheduler only the token
  queues (`stream`) are the same.

## Where it could go on

That a failing prefill in batched mode loses only the rest of its batch, as
`FailuresLoseOnlyBatches` says of the paged one. That with flashinfer a replay has one query per request, for
all batches (`OneQueryPerRequest` without finding 4's backend). `ChatServer` over the
paged scheduler, with shutdown while requests are retracted.
