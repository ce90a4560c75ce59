----------------------------- MODULE MC_CudaGraph -----------------------------
(***************************************************************************)
(* A small instance of CudaGraph: a bucket of 3 with a page size of 2      *)
(* leaves as many padded rows as the scratch page has slots.  Prompts fill *)
(* a page and a half, in one chunk or two; requests that grow past         *)
(* MaxPages pages decode eagerly.                                          *)
(***************************************************************************)
EXTENDS CudaGraph, TLC

CONSTANTS r1, r2, r3

MCRequestSymmetry == Permutations(Request)
===============================================================================
