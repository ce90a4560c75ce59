---------------------------- MODULE MC_AgentPolicy ----------------------------
(***************************************************************************)
(* Small instances of AgentPolicy: clients whose requests take two pages   *)
(* and clients whose requests take one.  The weights are those of          *)
(* scheduler.py, and a hit of up to 500 tokens (500 * 0.002 = 1).          *)
(***************************************************************************)
EXTENDS AgentPolicy

CONSTANT Small      \* the clients with small requests

MCNeed == [c \in Client |-> IF c \in Small THEN 1 ELSE 2]
===============================================================================
