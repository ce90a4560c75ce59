---------------------------- MODULE AttentionMetadata ----------------------------
(***************************************************************************)
(* The index tensors of the eager paged forwards, for both backends        *)
(* (Engine._fa_kwargs_prefill, _fi_kwargs_prefill and their decode twins,  *)
(* paged_batched_prefill), and what the kernels do with them               *)
(* (Attention.forward): a batch of chunks of different lengths, each going *)
(* on where its request stands, is packed without padding, scattered into  *)
(* the pool and attended to causally through page tables.                  *)
(*                                                                         *)
(* Rows and tokens are numbered from 1; the cumulative arrays start at     *)
(* index 1 with 0, so row b owns the elements cum[b] + 1 .. cum[b + 1] of  *)
(* what they index.                                                        *)
(* (X_<What> is a mutant of X: a plausible bug, put in X's place to see     *)
(* which property notices it.)                                             *)
(***************************************************************************)
EXTENDS PagedSlots

Scratch == 0

\* [0, c0, c0 + c1, ...]: _cu_seqlens, _to_int32_cumsum.
Cumulated(counts) ==
    LET cum[i \in 1 .. Len(counts) + 1] == IF i = 1 THEN 0 ELSE cum[i - 1] + counts[i - 1]
    IN  cum

\* Consecutive numbers from x on.
From(x, n) == [i \in 1 .. n |-> x + i - 1]

Repeated(x, n) == [i \in 1 .. n |-> x]

\* The elements of a sequence of sequences, one after the other.
Flattened(seqs) ==
    LET flat[i \in 0 .. Len(seqs)] == IF i = 0 THEN <<>> ELSE flat[i - 1] \o seqs[i]
    IN  flat[Len(seqs)]

\* The row a packed token belongs to.
RowAt(cum, t) == CHOOSE b \in 1 .. Len(cum) - 1 : cum[b] < t /\ t <= cum[b + 1]

\* What the kernels do for one token: the slot its KV goes to, the rows of q
\* it takes for its queries, and how it reads: pages and number of tokens.
Row(target, queries, pages, n) ==
    [target |-> target, queries |-> queries, pages |-> pages, n |-> n]

-------------------------------------------------------------------------------
(* A batch: q, its requests in order, and end[b], how far q[b] is taken. *)

QLens(q, end) == [b \in 1 .. Len(q) |-> end[b] - len[q[b]]]

\* flat_ids and flat_pos: the tokens fed, as request and position.
Packed(q, end) ==
    Flattened([b \in 1 .. Len(q) |->
        [i \in 1 .. QLens(q, end)[b] |-> <<q[b], len[q[b]] + i - 1>>]])

\* Mutant: the next row's first token.
LogitsIndices_Next(q, end) ==
    [b \in 1 .. Len(q) |-> (Cumulated(QLens(q, end))[b + 1] % Len(Packed(q, end))) + 1]

\* last_idx: the tokens whose logits are computed, one per row.
LogitsIndices(q, end) == [b \in 1 .. Len(q) |-> Cumulated(QLens(q, end))[b + 1]]

\* Mutant: every chunk is taken for the start of its prompt.
SlotMapping_FromZero(q, end) ==
    Flattened([b \in 1 .. Len(q) |->
        [i \in 1 .. QLens(q, end)[b] |-> SlotOf(table[q[b]], i - 1)]])

SlotMapping(q, end) ==
    Flattened([b \in 1 .. Len(q) |->
        [i \in 1 .. QLens(q, end)[b] |-> SlotOf(table[q[b]], len[q[b]] + i - 1)]])

\* How many of its row's n keys token t of row b sees: the causal mask is
\* aligned at the end, so that the last query sees them all.
Causal(cuQ, b, t, n) == n - (cuQ[b + 1] - t)

\* Prefill uses the pages that hold end tokens, decode the whole page table.
PageTables(q, end) ==
    [b \in 1 .. Len(q) |-> SubSeq(table[q[b]], 1, PagesNeeded(end[b]))]

\* _page_table: ragged tables, filled up with zeros, the scratch page.
BlockTable(tables) ==
    LET lens == {Len(tables[b]) : b \in 1 .. Len(tables)}
        width == CHOOSE w \in lens : \A l \in lens : l <= w
    IN  [b \in 1 .. Len(tables) |-> tables[b] \o Repeated(Scratch, width - Len(tables[b]))]

\* index_copy_ scatters by slot_mapping; flash_attn_varlen_func reads the
\* first cu_seqlens_k tokens of each row of the block table.
FlashAttnPacked(q, end, tables) ==
    LET cuQ == Cumulated(QLens(q, end))
        cuK == Cumulated(end)
        slots == SlotMapping(q, end)
        blocks == BlockTable(tables)
    IN  [t \in 1 .. cuQ[Len(q) + 1] |->
            LET b == RowAt(cuQ, t)
            IN  Row(slots[t], {t}, blocks[b], Causal(cuQ, b, t, cuK[b + 1] - cuK[b]))]

\* batch_indices: the row of each token.
BatchIndices(q, end) ==
    Flattened([b \in 1 .. Len(q) |-> Repeated(b, QLens(q, end)[b])])

\* Mutant: a full last page counts as empty.
LastPageLen_Modulo(n) == n % PageSize

LastPageLen(n) == ((n - 1) % PageSize) + 1

\* append_paged_kv_cache scatters by batch_indices and positions through
\* kv_indptr and kv_indices; the wrapper reads what it was planned with.
FlashInferPacked(q, end) ==
    LET qo == Cumulated(QLens(q, end))
        counts == [b \in 1 .. Len(q) |-> PagesNeeded(end[b])]
        indptr == Cumulated(counts)
        indices == Flattened(PageTables(q, end))
        rows == BatchIndices(q, end)
        tokens == Packed(q, end)
        position(t) == tokens[t][2]
    IN  [t \in 1 .. qo[Len(q) + 1] |->
            LET b == RowAt(qo, t)
            IN  Row(indices[indptr[rows[t]] + position(t) \div PageSize + 1] * PageSize
                        + (position(t) % PageSize),
                    {t},
                    SubSeq(indices, indptr[b] + 1, indptr[b + 1]),
                    Causal(qo, b, t, (counts[b] - 1) * PageSize + LastPageLen(end[b])))]

===============================================================================
