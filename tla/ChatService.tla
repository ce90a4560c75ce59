------------------------------ MODULE ChatService ------------------------------
(***************************************************************************)
(* What POST /v1/chat/completions promises to its clients, whatever runs   *)
(* behind it: tokens are generated for a request up to the first stop      *)
(* token or max_new_tokens, and its answer is those tokens, one after the  *)
(* other, and then the end mark.  A client may leave before; its tokens    *)
(* are generated all the same.                                             *)
(***************************************************************************)
EXTENDS Integers, Sequences

CONSTANTS Request, Token, MaxNew, StopTokens, End

VARIABLES
    asked,          \* requests received
    left,           \* clients that went away
    output,         \* output[r]: the tokens generated for r
    answer          \* answer[r]: what r's client has been sent

serviceVars == <<asked, left, output, answer>>

ServiceInit ==
    /\ asked = {} /\ left = {}
    /\ output = [r \in Request |-> <<>>]
    /\ answer = [r \in Request |-> <<>>]

Complete(o) == o # <<>> /\ (Len(o) >= MaxNew \/ o[Len(o)] \in StopTokens)
Closed(a) == a # <<>> /\ a[Len(a)] = End

\* What output o is to be sent as.
Sendable(o) == o \o (IF Complete(o) THEN <<End>> ELSE <<>>)

Ask(r) ==
    /\ r \notin asked
    /\ asked' = asked \cup {r}
    /\ UNCHANGED <<left, output, answer>>

Generate(r, t) ==
    /\ r \in asked /\ ~Complete(output[r])
    /\ output' = [output EXCEPT ![r] = Append(@, t)]
    /\ UNCHANGED <<asked, left, answer>>

\* The first of the tokens generated for r that its client has not been sent,
\* or the end mark.
Send(r) ==
    /\ r \in asked \ left
    /\ Len(answer[r]) < Len(Sendable(output[r]))
    /\ answer' = [answer EXCEPT ![r] = Append(@, Sendable(output[r])[Len(@) + 1])]
    /\ UNCHANGED <<asked, left, output>>

\* One client hangs up, or the server is made to stop.
Leave(R) ==
    /\ R \subseteq asked \ left /\ \A r \in R : ~Closed(answer[r])
    /\ left' = left \cup R
    /\ UNCHANGED <<asked, output, answer>>

ServiceNext ==
    \/ \E r \in Request : Ask(r) \/ Send(r) \/ \E t \in Token : Generate(r, t)
    \/ \E R \in SUBSET Request : Leave(R)

ServiceSpec == ServiceInit /\ [][ServiceNext]_serviceVars

===============================================================================
