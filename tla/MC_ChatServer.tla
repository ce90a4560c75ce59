---------------------------- MODULE MC_ChatServer ----------------------------
(***************************************************************************)
(* A small instance of ChatServer: prompts of different lengths, so that   *)
(* batches are padded, and fewer workers than requests.                    *)
(***************************************************************************)
EXTENDS ChatServer, TLC

CONSTANTS r1, r2, r3, a, b

MCPrompt == r1 :> <<a>> @@ r2 :> <<a, b, a>> @@ r3 :> <<b, b>>
===============================================================================
