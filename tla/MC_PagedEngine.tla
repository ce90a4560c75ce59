---------------------------- MODULE MC_PagedEngine ----------------------------
(***************************************************************************)
(* A small instance of PagedEngine: prompts that share a first page and    *)
(* then diverge, one of them two full pages longer, so that edges of       *)
(* several pages form and are split.                                       *)
(***************************************************************************)
EXTENDS PagedEngine, TLC

CONSTANTS r1, r2, r3, a, b

MCPrompt ==
    [r \in Request |-> CASE r = r1 -> <<a, a, a, a>>
                         [] r = r2 -> <<a, a, b, a, b>>
                         [] r = r3 -> <<a, a, b, a, a, a, b>>]

MCPageSymmetry == Permutations(Page)
===============================================================================
