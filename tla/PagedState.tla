------------------------------ MODULE PagedState ------------------------------
(***************************************************************************)
(* The engine's per-request paged state and the pages themselves: what     *)
(* engine.py keeps in _paged_state, what kv_memory_pool.py keeps on its    *)
(* free list, and what the attention kernels write.  It is shared by       *)
(* PagedKV, where the radix cache is a plain map, and PagedEngine, where   *)
(* it is the tree of radix_cache.py.                                       *)
(*                                                                         *)
(* The free list is a set: which free page is handed out is left open.     *)
(*                                                                         *)
(* kv is a history variable: kv[g] is the token prefix, page by page, that *)
(* the attention kernel has written through page g's last written slot.    *)
(* It is emptied when a page returns to the pool, so that a request that   *)
(* read a page it no longer holds would be seen to read nothing.           *)
(***************************************************************************)
EXTENDS Paging, FiniteSets

CONSTANTS
    Request,        \* request ids
    Token,          \* token ids
    Page,           \* usable pages: every pool page but the scratch page 0
    Prompt,         \* Prompt[r]: input_ids of r
    MaxNew,         \* max_new_tokens, the same for every request
    StopTokens,     \* engine.is_stop_token
    CacheOn,        \* engine.radix_cache is not None
    ChunkSizes      \* prefill_chunk_size values in use; 0 is unchunked

ASSUME RequestAssumption == IsFiniteSet(Request)
ASSUME PageAssumption == IsFiniteSet(Page)
\* The chat template never produces an empty prompt.
ASSUME PromptAssumption == Prompt \in [Request -> Seq(Token) \ {<<>>}]
ASSUME MaxNewAssumption == MaxNew \in Nat \ {0}
ASSUME StopAssumption == StopTokens \subseteq Token
ASSUME CacheOnAssumption == CacheOn \in BOOLEAN
ASSUME ChunkAssumption == ChunkSizes \subseteq Nat

VARIABLES
    out,            \* out[r]: output_ids of r
    rehydrate,      \* rehydrate[r]: needs_rehydrate
    st,             \* st[r]: the _PagedState of r, or NoState
    free,           \* pages on the pool's free list
    kv              \* history: what each page holds

-------------------------------------------------------------------------------
(* Requests. *)

\* (Here and in the other modules, a definition named X_<What> is a mutant of
\* X: a plausible bug, put in X's place to see which property notices it.)

\* A request without an entry in _paged_state; _state(r) creates this value.
NoState_NegativeLen == [table |-> <<>>, len |-> -1, node |-> <<>>, prepared |-> FALSE]
NoState == [table |-> <<>>, len |-> 0, node |-> <<>>, prepared |-> FALSE]

Ids(r) == Prompt[r] \o out[r]

\* All but the last token of a sequence: ids[:-1].
ButLast(s) == SubSeq(s, 1, Len(s) - 1)

\* _paged_prefill_ids.
PrefillIds(r) == IF rehydrate[r] THEN ButLast(Ids(r)) ELSE Prompt[r]

\* The path looked up in the cache: a fresh prompt keeps its last token
\* back, so that at least one token is left to run.
MatchPath(r) ==
    IF ~CacheOn THEN <<>>
    ELSE PathOf(IF rehydrate[r] THEN PrefillIds(r) ELSE ButLast(PrefillIds(r)))

\* Mutant: the last, partly filled page is put in the cache too.
CommitPath_Unaligned(r) ==
    IF CacheOn THEN Blocks(SubSeq(Ids(r), 1, st[r].len)) ELSE <<>>

\* What a commit puts in the cache: the full pages of the KV-backed tokens.
CommitPath(r) == IF CacheOn THEN PathOf(SubSeq(Ids(r), 1, st[r].len)) ELSE <<>>

\* paged_prefill_complete.
PrefillComplete(r, s) == s.len >= Len(PrefillIds(r))

\* Mutant: one token too many.
CheckFinished_Late(o) == Len(o) > MaxNew \/ o[Len(o)] \in StopTokens

\* core.Request.is_finished or a stop token.
CheckFinished(o) == Len(o) >= MaxNew \/ o[Len(o)] \in StopTokens

Finished(r) == out[r] # <<>> /\ CheckFinished(out[r])
Prefilling(r) == ~Finished(r) /\ (out[r] = <<>> \/ rehydrate[r])
Running(r) == ~Finished(r) /\ out[r] # <<>> /\ ~rehydrate[r]

-------------------------------------------------------------------------------
(* Page tables. *)

\* The pages of a request that are its own, not borrowed from the cache.
Own(s) == {s.table[i] : i \in Len(s.node) + 1 .. Len(s.table)}

\* paged_retractable_pages.
Retractable(s) == Len(s.table) - Len(s.node)

\* The tokens a prefill chunk runs up to; chunk = 0 means unchunked.
ChunkEnd(r, s, chunk) ==
    IF chunk = 0 THEN Len(PrefillIds(r))
    ELSE Lesser(s.len + chunk, Len(PrefillIds(r)))

\* Pages missing to hold n tokens: what the page table must grow by.
Missing(s, n) ==
    IF PagesNeeded(n) > Len(s.table) THEN PagesNeeded(n) - Len(s.table) ELSE 0

\* paged_prefill_additional_pages_needed.
PrefillNeeded(r, s, chunk) ==
    IF PrefillComplete(r, s) THEN 0 ELSE Missing(s, ChunkEnd(r, s, chunk))

\* page_table.extend(_free[:n]) when pool is on the free list.
ExtendTable(r, n, pool) ==
    \E new \in [1 .. n -> pool] :
        /\ \A i, j \in 1 .. n : new[i] = new[j] => i = j
        /\ st' = [st EXCEPT ![r].table = @ \o new]
        /\ free' = pool \ {new[i] : i \in 1 .. n}

-------------------------------------------------------------------------------
(* The model forward. *)

Erased(G) == [g \in Page |-> IF g \in G THEN <<>> ELSE kv[g]]

\* One model forward for the requests of R.  fed[r] is the token sequence
\* whose KV r's table holds afterwards: what it held before, and the tokens
\* fed to the model, written from position len on.
Forward(R, fed) ==
    LET writes(r, g) == {i \in 1 .. PagesNeeded(Len(fed[r])) :
                            i * PageSize > st[r].len /\ st[r].table[i] = g}
    IN  /\ kv' = [g \in Page |->
                    IF \E r \in R : writes(r, g) # {}
                    THEN LET r == CHOOSE r \in R : writes(r, g) # {}
                             i == CHOOSE i \in writes(r, g) : TRUE
                         IN  Upto(Blocks(fed[r]), i)
                    ELSE kv[g]]
        /\ st' = [r \in Request |->
                    IF r \in R THEN [st[r] EXCEPT !.len = Len(fed[r])] ELSE st[r]]
        /\ UNCHANGED free

\* What a prefill chunk leaves in the table of r.
PrefillFed(r, chunk) == SubSeq(PrefillIds(r), 1, ChunkEnd(r, st[r], chunk))

\* What decode feeds: the last output token, at position cache_seq_len.
DecodeFed(r) == Append(SubSeq(Ids(r), 1, st[r].len), out[r][Len(out[r])])

\* When each operation is called, in the life of a request.
MayPrefill(r) == Prefilling(r) /\ st[r].prepared /\ ~PrefillComplete(r, st[r])
MayDecode(r) == Running(r) /\ st[r].len + 1 = Len(Ids(r))

Path == Seq(Seq(Token))
StateType == [table : Seq(Page), len : Nat, node : Path, prepared : BOOLEAN]

===============================================================================
