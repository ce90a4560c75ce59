-------------------------------- MODULE Paging --------------------------------
(***************************************************************************)
(* The page arithmetic shared by the KV pool, the radix cache and the      *)
(* engine's paged bookkeeping.                                             *)
(*                                                                         *)
(* A token sequence is looked at page by page: Blocks(s) cuts s into runs  *)
(* of PageSize tokens, the last one possibly shorter.  A page-aligned      *)
(* token prefix is a sequence of full blocks, called a path here; it is    *)
(* what the radix cache is keyed by, since every edge of its tree is a     *)
(* multiple of page_size tokens long and children are keyed by the first   *)
(* page of their edge.                                                     *)
(***************************************************************************)
EXTENDS Integers, Sequences

CONSTANT PageSize      \* tokens per KV page (pool.page_size)

\* The pool is created with a positive page size.
ASSUME PageSizeAssumption == PageSize \in Nat \ {0}

Lesser(a, b) == IF a <= b THEN a ELSE b

\* KVMemoryPool.pages_needed: pages required to store n tokens.
PagesNeeded(n) == (n + PageSize - 1) \div PageSize

\* Full pages in n tokens: _align_down(n) counted in pages.
FullPages(n) == n \div PageSize

\* The page-by-page view of a token sequence.
Blocks(s) ==
    [i \in 1 .. PagesNeeded(Len(s)) |->
        SubSeq(s, (i - 1) * PageSize + 1, Lesser(i * PageSize, Len(s)))]

\* The first i blocks of a path.
Upto(p, i) == SubSeq(p, 1, i)

\* The page-aligned part of a token sequence, as a path: what a tree walk
\* limited to _align_down(len(tokens)) can see of it.
PathOf(s) == Upto(Blocks(s), FullPages(Len(s)))

\* p is a prefix of q, on paths.
Covers(q, p) == Len(p) <= Len(q) /\ Upto(q, Len(p)) = p

===============================================================================
