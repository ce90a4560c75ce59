------------------------------- MODULE CudaGraph -------------------------------
(***************************************************************************)
(* The paged forwards of a server with CUDA graphs: prefill and eager       *)
(* decode, and CudaGraphRunner, the decode forward captured at fixed batch *)
(* sizes (buckets) and replayed with the batch padded up to the next one.  *)
(* A replay runs the same kernels on the same buffers; run() rewrites what *)
(* the buffers hold first.  Padded rows write to the scratch page.         *)
(*                                                                         *)
(* Of the buffers only kv_indices keeps something from one replay to the   *)
(* next: the entries past those of this batch.  The others are rewritten   *)
(* whole, so they are values within an action here.                        *)
(***************************************************************************)
EXTENDS AttentionMetadata

CONSTANTS
    Backends,       \* the attention backends looked at
    Buckets,        \* batch sizes captured (--cuda-graph-batch-sizes)
    MaxPages,       \* --cuda-graph-max-pages
    PromptLen,       \* tokens a request is prefilled with
    ChunkSizes       \* values of --prefill-chunk-size looked at

VARIABLES
    backend,        \* the attention backend the server was started with
    kvIndices,      \* kvIndices[bs]: the kv_indices buffer of bucket bs
    launch          \* history: what the rows of the last forward did

vars == <<poolVars, backend, kvIndices, launch>>

\* The smallest bucket for B requests.
BucketFor(B) ==
    CHOOSE bs \in Buckets : bs >= B /\ \A c \in Buckets : c >= B => bs <= c

ASSUME PromptAssumption == PromptLen \in 1 .. MaxLen /\ ChunkSizes \subseteq Nat
ASSUME BackendAssumption == Backends \subseteq {"flashinfer", "flash_attn"}
ASSUME BucketAssumption == Buckets \subseteq Nat \ {0} /\ Buckets # {} /\ MaxPages \in Nat \ {0}
\* The padding rows have one slot of the scratch page each.  Nothing in the
\* code checks this: it holds of the default buckets from a page size of 15.
ASSUME PaddingAssumption ==
    \A bs \in Buckets : \A B \in 1 .. bs : BucketFor(B) - B <= PageSize

Init ==
    /\ SlotsInit
    /\ backend \in Backends
    /\ kvIndices = [bs \in Buckets |-> [i \in 1 .. bs * MaxPages |-> Scratch]]
    /\ launch = <<>>

-------------------------------------------------------------------------------
(* Metadata of a replay. *)

\* _run_flashinfer: positions of the padded rows, distinct scratch slots.
PadPositions(q, n) == From(0, n)

\* _run_flashinfer: pages each row of a replay owns; one for a padded row.
PageCounts(q, nPad) ==
    [b \in 1 .. Len(q) |-> PagesNeeded(len[q[b]] + 1)] \o Repeated(1, nPad)

\* Mutant: no pages for the padded rows, which use what the buffer has there.
Indices_RealOnly(q, nPad) ==
    Flattened([b \in 1 .. Len(q) |-> SubSeq(table[q[b]], 1, PagesNeeded(len[q[b]] + 1))])

\* _run_flashinfer: what is copied to the front of kv_indices.
Indices(q, nPad) ==
    Flattened([b \in 1 .. Len(q) |-> SubSeq(table[q[b]], 1, PagesNeeded(len[q[b]] + 1))])
        \o Repeated(Scratch, nPad)

\* Mutant: the buffer is replaced by a new one instead of rewritten in place.
NewIndices_Replaced(q, bs) == Indices(q, bs - Len(q))

\* The buffer after that: the rest is left as it was.
NewIndices(q, bs) ==
    LET indices == Indices(q, bs - Len(q))
    IN  [i \in 1 .. bs * MaxPages |->
            IF i <= Len(indices) THEN indices[i] ELSE kvIndices[bs][i]]

\* The captured flashinfer kernels: append_paged_kv_cache writes row b's KV
\* at its position in the pages kv_indices[kv_indptr[b] ...], run reads the
\* pages up to kv_indptr[b + 1], the last one up to kv_last_page_len.
FlashInferRows(q, bs) ==
    LET nPad == bs - Len(q)
        indptr == Cumulated(PageCounts(q, nPad))
        positions == [b \in 1 .. Len(q) |-> len[q[b]]] \o PadPositions(q, nPad)
        lastLens == [b \in 1 .. Len(q) |-> (len[q[b]] % PageSize) + 1] \o Repeated(1, nPad)
        indices == NewIndices(q, bs)
    IN  [b \in 1 .. bs |->
            Row(indices[indptr[b] + positions[b] \div PageSize + 1] * PageSize
                    + (positions[b] % PageSize),
                {b},
                SubSeq(indices, indptr[b] + 1, indptr[b + 1]),
                (indptr[b + 1] - indptr[b] - 1) * PageSize + lastLens[b])]

\* Mutant: all padded rows write the same scratch slot, as at capture.
PadSlots_Same(nPad) == Repeated(Scratch * PageSize, nPad)

\* _run_flash_attn: slots of the padded rows.
PadSlots(nPad) == From(Scratch * PageSize, nPad)

\* _run_flash_attn: how many tokens each row attends to.
SeqLensK(q, nPad) == [b \in 1 .. Len(q) |-> len[q[b]] + 1] \o Repeated(1, nPad)

\* The captured flash_attn kernels.  cu is captured as cu_seqlens_k and as
\* cu_seqlens_q: sequence t takes as many queries as it has keys, and row t of
\* q is a query of the sequence b whose span covers t, which reads b's pages.
\* (The kernel is taken at its word: max_seqlen_q = 1 does not bound a span.)
FlashAttnRows(q, bs) ==
    LET nPad == bs - Len(q)
        cu == Cumulated(SeqLensK(q, nPad))
        slots == [b \in 1 .. Len(q) |-> SlotOf(table[q[b]], len[q[b]])] \o PadSlots(nPad)
        pages(b) == IF b <= Len(q) THEN table[q[b]] ELSE <<>>
    IN  [t \in 1 .. bs |->
            LET b == RowAt(cu, t)
            IN  Row(slots[t], cu[t] + 1 .. cu[t + 1],
                    pages(b) \o Repeated(Scratch, MaxPages - Len(pages(b))),
                    Causal(cu, b, t, cu[b + 1] - cu[b]))]

-------------------------------------------------------------------------------
(* Steps. *)

\* A forward that feeds tokens to the model with these rows (those past the
\* tokens are padding), for the batch q, and takes the logits of the tokens
\* picked.  (Two rows with one target would race; here the last one wins.)
Forward(kind, q, end, rows, tokens, picked) ==
    LET written(t) == IF t <= Len(tokens) THEN tokens[t] ELSE Unwritten
        writers(s) == {t \in 1 .. Len(rows) : rows[t].target = s}
        after == [s \in Slot |->
                    IF writers(s) = {} THEN kv[s]
                    ELSE written(CHOOSE t \in writers(s) : \A u \in writers(s) : u <= t)]
        at(p, i) == LET s == SlotOf(p, i) IN IF s \in Slot THEN after[s] ELSE Unwritten
    IN  /\ kv' = after
        /\ len' = [r \in Request |-> IF \E b \in 1 .. Len(q) : q[b] = r
                                     THEN end[CHOOSE b \in 1 .. Len(q) : q[b] = r] ELSE len[r]]
        /\ launch' = [kind |-> kind,
                      reqs |-> q,
                      tokens |-> tokens,
                      picked |-> [b \in 1 .. Len(q) |-> tokens[picked[b]]],
                      targets |-> [t \in 1 .. Len(rows) |-> rows[t].target],
                      queries |-> [t \in 1 .. Len(tokens) |-> rows[t].queries],
                      reads |-> [t \in 1 .. Len(tokens) |->
                                   [i \in 1 .. rows[t].n |-> at(rows[t].pages, i - 1)]]]
        /\ UNCHANGED <<table, free, backend>>

\* Batches of requests that are still prefilled, or that decode, in any order.
Batches(R) ==
    {q \in UNION {[1 .. n -> R] : n \in 1 .. Cardinality(R)} :
        \A b, c \in 1 .. Len(q) : q[b] = q[c] => b = c}

PrefillBatches == Batches({r \in Request : len[r] < PromptLen})
DecodeBatches == Batches({r \in Request : len[r] \in PromptLen .. MaxLen - 1})

\* Where a chunk that starts at n ends.
ChunkEnd(n, c) == IF c = 0 \/ n + c > PromptLen THEN PromptLen ELSE n + c

\* How far a forward takes the requests of q: a chunk, or one token.
ChunkEnds(q, c) == [b \in 1 .. Len(q) |-> ChunkEnd(len[q[b]], c)]
NextEnds(q) == [b \in 1 .. Len(q) |-> len[q[b]] + 1]

Grown(q, end) == \A b \in 1 .. Len(q) : HasPages(q[b], end[b])

\* Prefill and eager decode.
PackedForward(q, end, flashAttnTables) ==
    /\ Grown(q, end)
    /\ Forward("packed", q, end,
               IF backend = "flashinfer" THEN FlashInferPacked(q, end)
               ELSE FlashAttnPacked(q, end, flashAttnTables),
               Packed(q, end), LogitsIndices(q, end))
    /\ UNCHANGED kvIndices

Prefill(q, c) == PackedForward(q, ChunkEnds(q, c), PageTables(q, ChunkEnds(q, c)))

\* can_handle.
CanHandle(q) ==
    /\ \E bs \in Buckets : Len(q) <= bs
    /\ \A b \in 1 .. Len(q) : Len(table[q[b]]) <= MaxPages

DecodeEager(q) ==
    /\ ~CanHandle(q)
    /\ PackedForward(q, NextEnds(q), [b \in 1 .. Len(q) |-> table[q[b]]])

\* The first rows are the requests', one each.
Replay(q, rows) ==
    Forward("replay", q, NextEnds(q), rows, Packed(q, NextEnds(q)), From(1, Len(q)))

ReplayFlashInfer(q) ==
    /\ CanHandle(q) /\ Grown(q, NextEnds(q)) /\ backend = "flashinfer"
    /\ LET bs == BucketFor(Len(q)) IN
         /\ kvIndices' = [kvIndices EXCEPT ![bs] = NewIndices(q, bs)]
         /\ Replay(q, FlashInferRows(q, bs))

ReplayFlashAttn(q) ==
    /\ CanHandle(q) /\ Grown(q, NextEnds(q)) /\ backend = "flash_attn"
    /\ Replay(q, FlashAttnRows(q, BucketFor(Len(q))))
    /\ UNCHANGED kvIndices

Others(A) == A /\ UNCHANGED <<backend, kvIndices>> /\ launch' = <<>>

\* Pages for the request's next chunk or token.
GrowFor(r) ==
    IF len[r] < PromptLen THEN \E c \in ChunkSizes : GrowTable(r, ChunkEnd(len[r], c))
    ELSE len[r] < MaxLen /\ GrowTable(r, len[r] + 1)

Next ==
    \/ \E r \in Request : Others(Leave(r)) \/ Others(GrowFor(r))
    \/ \E q \in PrefillBatches : \E c \in ChunkSizes : Prefill(q, c)
    \/ \E q \in DecodeBatches : DecodeEager(q) \/ ReplayFlashInfer(q) \/ ReplayFlashAttn(q)

Spec == Init /\ [][Next]_vars

-------------------------------------------------------------------------------
(* Properties. *)

TypeOK ==
    /\ table \in [Request -> Seq(Page)]
    /\ len \in [Request -> 0 .. MaxLen]
    /\ free \subseteq Page
    /\ kv \in [Slot -> Entry]
    /\ \A bs \in Buckets : kvIndices[bs] \in [1 .. bs * MaxPages -> Page \cup {Scratch}]

\* All tokens of a forward, the padded rows' included, are written to distinct
\* slots, so that their concurrent index_copy_ writes do not race.  (That
\* padded rows never clobber a request's KV either is what implementing
\* PagedSlots says.)
RowsDoNotRace ==
    launch # <<>> =>
        \A t, u \in 1 .. Len(launch.targets) :
            t # u => launch.targets[t] # launch.targets[u]

\* The forwards whose kernels are given one query for each token: all but the
\* replays of flash_attn, which take q's rows for other requests' queries
\* (OneQueryPerRequest fails there).
OneQueryEach(kind) == ~(kind = "replay" /\ backend = "flash_attn")

\* In such a forward every token of the batch attends to exactly its request's
\* KV up to itself, in order: not past itself to the later tokens of its
\* chunk, and through page tables or through kv_indices with whatever an
\* earlier, larger batch has left behind it.
ReadsOwnHistory ==
    launch # <<>> /\ OneQueryEach(launch.kind) =>
        \A t \in 1 .. Len(launch.tokens) :
            LET r == launch.tokens[t][1]
            IN  launch.reads[t] = [i \in 1 .. launch.tokens[t][2] + 1 |-> <<r, i - 1>>]

\* The logits each request of a batch is sampled from are those of the last
\* of its own tokens, however long the chunks packed before it are.
SamplesLastToken ==
    launch # <<>> =>
        \A b \in 1 .. Len(launch.reqs) :
            launch.picked[b] = <<launch.reqs[b], len[launch.reqs[b]] - 1>>

\* Each request of a decode batch has one query, its own row: q_len == 1 per
\* request.
OneQueryPerRequest ==
    launch # <<>> => \A t \in 1 .. Len(launch.tokens) : launch.queries[t] = {t}

===============================================================================
