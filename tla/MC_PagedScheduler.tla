-------------------------- MODULE MC_PagedScheduler --------------------------
(***************************************************************************)
(* Small instances of PagedScheduler: prompts that share a first page and  *)
(* then diverge, a page size of two.                                       *)
(***************************************************************************)
EXTENDS PagedScheduler, TLC

CONSTANTS r1, r2, r3, a, b, e

\* Odd and even prompt lengths, all starting with the page <<a, a>>.
MCPrompt ==
    [r \in Request |-> CASE r = r1 -> <<a, a, a>>
                         [] r = r2 -> <<a, a, b, a>>
                         [] r = r3 -> <<a, a>>]

\* Prompts and outputs of two pages each: two of them share their first page.
MCTwoPagePrompt ==
    [r \in Request |-> CASE r = r1 -> <<a, a, a>>
                         [] r = r2 -> <<b, a, b>>
                         [] r = r3 -> <<a, a, b>>]

\* Whole-page prompts with nothing in common.
MCAlignedPrompt ==
    [r \in Request |-> CASE r = r1 -> <<a, a>>
                         [] r = r2 -> <<b, b>>
                         [] r = r3 -> <<b, a>>]

\* Two prompts of two pages each, and one of a single page.
MCLongPrompt ==
    [r \in Request |-> CASE r = r1 -> <<a, a, a, a>>
                         [] r = r2 -> <<b, b, b, b>>
                         [] r = r3 -> <<a, b>>]

MCPageSymmetry == Permutations(Page)
===============================================================================
