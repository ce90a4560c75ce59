------------------------------- MODULE PagedSlots -------------------------------
(***************************************************************************)
(* What paged forwards do to the pool's slots, prefill and decode alike    *)
(* (engine.paged_batched_prefill and paged_batched_decode): a request      *)
(* grows its page table if it must, and each request of a batch has the KV *)
(* of its next tokens written to the slots of their positions.             *)
(*                                                                         *)
(* Slots are numbered as in `view(-1, ...)` of a layer's pool tensor: slot *)
(* page * page_size + offset.  Page 0 is the scratch page, never handed    *)
(* out, and its slots are not part of kv.  An entry <<r, i>> is the KV of  *)
(* the token of r at position i.  (A page that returns to the pool is      *)
(* emptied here, so that reading what it held would be seen.)              *)
(***************************************************************************)
EXTENDS Integers, Sequences, FiniteSets

CONSTANTS
    Request,        \* request ids
    NumPages,       \* pages of the pool, the scratch page included
    PageSize,       \* tokens per page
    MaxLen          \* bound on cache_seq_len

ASSUME PoolAssumption == NumPages \in Nat /\ NumPages >= 2 /\ PageSize \in Nat \ {0}
ASSUME LenAssumption == MaxLen \in Nat

VARIABLES
    table,          \* table[r]: page_table of r
    len,            \* len[r]: cache_seq_len of r
    free,           \* the free list
    kv              \* what each usable slot holds

poolVars == <<table, len, free, kv>>

Page == 1 .. NumPages - 1
Slot == PageSize .. NumPages * PageSize - 1
Unwritten == <<"unwritten", 0>>
Entry == (Request \X (0 .. MaxLen)) \cup {Unwritten}

PagesNeeded(n) == (n + PageSize - 1) \div PageSize

\* page_table[pos // page_size] * page_size + pos % page_size
SlotOf(t, pos) == t[pos \div PageSize + 1] * PageSize + (pos % PageSize)

SlotsInit ==
    /\ table = [r \in Request |-> <<>>]
    /\ len = [r \in Request |-> 0]
    /\ free = Page
    /\ kv = [s \in Slot |-> Unwritten]

\* Sequences of n different pages of the pool.
Allocations(n, pool) ==
    {f \in [1 .. n -> pool] : \A i, j \in 1 .. n : f[i] = f[j] => i = j}

\* The growth loops before a forward, one request: pages for n tokens.
GrowTable(r, n) ==
    /\ PagesNeeded(n) > Len(table[r])
    /\ UNCHANGED <<len, kv>>
    /\ \E new \in Allocations(PagesNeeded(n) - Len(table[r]), free) :
         /\ table' = [table EXCEPT ![r] = @ \o new]
         /\ free' = free \ {new[i] : i \in DOMAIN new}

HasPages(r, n) == PagesNeeded(n) <= Len(table[r])

\* The tokens of a forward that takes each r of R up to end[r] tokens.
Fed(R, end) == {x \in R \X (0 .. MaxLen) : x[2] >= len[x[1]] /\ x[2] < end[x[1]]}

\* The forward: each request of the batch writes its slots and nothing else.
Write(R, end) ==
    /\ \A r \in R : end[r] \in len[r] + 1 .. MaxLen /\ HasPages(r, end[r])
    /\ len' = [r \in Request |-> IF r \in R THEN end[r] ELSE len[r]]
    /\ kv' = [s \in Slot |->
                IF \E x \in Fed(R, end) : s = SlotOf(table[x[1]], x[2])
                THEN CHOOSE x \in Fed(R, end) : s = SlotOf(table[x[1]], x[2])
                ELSE kv[s]]
    /\ UNCHANGED <<table, free>>

\* r has finished or been retracted: its pages return to the pool.
Leave(r) ==
    /\ table[r] # <<>>
    /\ free' = free \cup {table[r][i] : i \in 1 .. Len(table[r])}
    /\ table' = [table EXCEPT ![r] = <<>>]
    /\ len' = [len EXCEPT ![r] = 0]
    /\ kv' = [s \in Slot |-> IF s \div PageSize \in free' THEN Unwritten ELSE kv[s]]

SlotsNext ==
    \/ \E r \in Request : Leave(r) \/ \E n \in 1 .. MaxLen : GrowTable(r, n)
    \/ \E R \in (SUBSET Request) \ {{}} : \E end \in [R -> 1 .. MaxLen] : Write(R, end)

SlotsSpec == SlotsInit /\ [][SlotsNext]_poolVars

-------------------------------------------------------------------------------
(* Properties. *)

\* Every token of a request that counts as cached has its KV at its position
\* of the request's page table, whoever else was prefilled, decoded, retracted
\* or given pages in the meantime.
HoldsOwnHistory ==
    \A r \in Request : \A i \in 0 .. len[r] - 1 : kv[SlotOf(table[r], i)] = <<r, i>>

===============================================================================
