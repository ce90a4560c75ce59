------------------------------ MODULE AgentPolicy ------------------------------
(***************************************************************************)
(* Whose turn it is: the selection of waiting requests by the two          *)
(* scheduler policies (Scheduler._select_waiting_request_for_paged_prefill *)
(* and _agent_cache_priority), for clients that each send a new request    *)
(* when their last one has ended.  So there is always somebody who might   *)
(* overtake.  Pages are counted only; PagedScheduler says which they are.  *)
(* Prompts are prefilled whole, answers end in the last page of their      *)
(* prompt, and nobody is retracted: the queue is open in every step.       *)
(*                                                                         *)
(* time.time() passes in ticks.  A score holds the age of a request, and   *)
(* comparing two scores needs only the time between their arrivals, which  *)
(* never changes: lead.  Both are capped where the age alone decides.      *)
(*                                                                         *)
(* The unit of a score is a second in the queue (AGE_WEIGHT = 1.0).        *)
(* (X_<What> is a mutant of X: a plausible bug, put in X's place to see     *)
(* which property notices it.)                                             *)
(***************************************************************************)
EXTENDS Integers, Sequences, FiniteSets

CONSTANTS
    Client,             \* clients; each has one request at a time
    Need,               \* Need[c]: pages a request of c takes when admitted
    Critical,           \* clients whose requests are is_critical
    Optional,           \* clients whose requests are is_optional
    CriticalWeight,     \* CRITICAL_WEIGHT
    OptionalPenalty,    \* OPTIONAL_PENALTY
    MaxHit,             \* bound on CACHE_WEIGHT * estimated_hit
    MaxAge,             \* bound on ages: beyond it the age alone decides
    Pages,              \* usable pages of the pool
    MaxRunning,         \* max_running
    Policies            \* the values of --scheduler-policy looked at

ASSUME ClientAssumption == Critical \subseteq Client /\ Optional \subseteq Client
ASSUME WeightAssumption == CriticalWeight \in Nat /\ OptionalPenalty \in Nat /\ MaxHit \in Nat
ASSUME AgeAssumption == MaxAge \in Nat /\ MaxAge >= CriticalWeight + OptionalPenalty + MaxHit
ASSUME PoolAssumption == Pages \in Nat /\ MaxRunning \in Nat \ {0}
\* Every request fits in an empty pool.  Nothing in the code checks this: one
\* that does not is never admitted, and under FCFS nobody behind it either.
ASSUME NeedAssumption == Need \in [Client -> 0 .. Pages]
ASSUME PolicyAssumption == Policies \subseteq {"fcfs", "agent-cache-aware"}

VARIABLES
    policy,             \* scheduler_policy
    waiting,            \* the waiting queue
    running,            \* clients whose request has been admitted and not ended
    available,          \* pool.num_free + pool.num_evictable - pages_reserved
    age,                \* age[c]: seconds c's request has been in the queue
    lead                \* lead[c][d]: seconds c's request arrived before d's

vars == <<policy, waiting, running, available, age, lead>>

Elems(s) == {s[i] : i \in 1 .. Len(s)}
Without(s, i) == SubSeq(s, 1, i - 1) \o SubSeq(s, i + 1, Len(s))

Init ==
    /\ policy \in Policies
    /\ waiting = <<>> /\ running = {}
    /\ available = Pages
    /\ age = [c \in Client |-> 0]
    /\ lead = [c \in Client |-> [d \in Client |-> 0]]

-------------------------------------------------------------------------------
(* Scores. *)

\* A score without its age: hits[c] is what c's cached prefix is worth.
Bonus(c, hits) ==
    hits[c] + (IF c \in Critical THEN CriticalWeight ELSE 0)
            - (IF c \in Optional THEN OptionalPenalty ELSE 0)

\* Mutant: the age is left out of the score.
SortsFirst_NoAge(i, j, hits) ==
    LET c == waiting[i]  d == waiting[j]
    IN  IF i < j THEN Bonus(c, hits) >= Bonus(d, hits) ELSE Bonus(c, hits) > Bonus(d, hits)

\* The i-th waiting request comes before the j-th in the sorted candidates:
\* by score, and of equal ones the one that is first in the queue.
SortsFirst(i, j, hits) ==
    LET c == waiting[i]  d == waiting[j]
    IN  IF i < j THEN lead[c][d] + Bonus(c, hits) >= Bonus(d, hits)
                 ELSE Bonus(c, hits) > lead[d][c] + Bonus(d, hits)

\* Mutant: a request is let in when anything at all is free.
Fits_AnyPage(c) == available > 0

Fits(c) == Need[c] <= available

\* Mutant: the candidates are sorted the other way round.
Selected_Ascending(i, hits) ==
    /\ Fits(waiting[i])
    /\ IF policy = "fcfs" THEN i = 1
       ELSE \A j \in 1 .. Len(waiting) \ {i} : Fits(waiting[j]) => SortsFirst(j, i, hits)

\* FCFS takes the head or nobody.  The agent policy takes the first candidate
\* in score order that fits, passing over those that do not.
Selected(i, hits) ==
    /\ Fits(waiting[i])
    /\ IF policy = "fcfs" THEN i = 1
       ELSE \A j \in 1 .. Len(waiting) \ {i} : Fits(waiting[j]) => SortsFirst(i, j, hits)

-------------------------------------------------------------------------------
(* Steps. *)

\* chat_completions and add_request: c sends its next request.
Arrive(c) ==
    /\ c \notin running /\ c \notin Elems(waiting)
    /\ waiting' = Append(waiting, c)
    /\ age' = [age EXCEPT ![c] = 0]
    /\ lead' = [b \in Client |-> [d \in Client |->
                    IF d = c THEN age[b] ELSE IF b = c THEN 0 ELSE lead[b][d]]]
    /\ UNCHANGED <<policy, running, available>>

\* A second passes.
Tick ==
    /\ \E c \in Elems(waiting) : age[c] < MaxAge
    /\ age' = [c \in Client |-> IF c \in Elems(waiting) /\ age[c] < MaxAge
                                THEN age[c] + 1 ELSE age[c]]
    /\ UNCHANGED <<policy, waiting, running, available, lead>>

\* One turn of the admission loop.  What the radix cache holds for each
\* prompt may have changed since the last one.
Admit(i) ==
    /\ Cardinality(running) < MaxRunning
    /\ \E hits \in [Client -> 0 .. MaxHit] : Selected(i, hits)
    /\ waiting' = Without(waiting, i)
    /\ running' = running \cup {waiting[i]}
    /\ available' = available - Need[waiting[i]]
    /\ age' = [age EXCEPT ![waiting[i]] = 0]
    /\ lead' = [c \in Client |-> [d \in Client |->
                    IF waiting[i] \in {c, d} THEN 0 ELSE lead[c][d]]]
    /\ UNCHANGED policy

\* _finish_request: the pages are free, or cached and evictable, again.
Finish(c) ==
    /\ c \in running
    /\ running' = running \ {c}
    /\ available' = available + Need[c]
    /\ UNCHANGED <<policy, waiting, age, lead>>

AdmitNext == \E i \in 1 .. Len(waiting) : Admit(i)

Next ==
    \/ AdmitNext
    \/ Tick
    \/ \E c \in Client : Arrive(c) \/ Finish(c)

\* The scheduler keeps admitting while somebody fits, time passes and every
\* admitted request ends; clients need not send.
Spec ==
    /\ Init /\ [][Next]_vars
    /\ WF_vars(AdmitNext)
    /\ WF_vars(Tick)
    /\ \A c \in Client : WF_vars(Finish(c))

-------------------------------------------------------------------------------
(* Properties. *)

PolicyTypeOK ==
    /\ policy \in Policies
    /\ waiting \in Seq(Client)
    /\ running \subseteq Client
    /\ available \in 0 .. Pages
    /\ age \in [Client -> 0 .. MaxAge]
    /\ lead \in [Client -> [Client -> 0 .. MaxAge]]

\* A request is only overtaken by later ones that score higher for a reason
\* other than age, and these can make up for a bounded time only: while it
\* fits, nobody who came CRITICAL_WEIGHT + OPTIONAL_PENALTY + MaxHit seconds
\* after it or later is admitted before it.  Under FCFS nobody is.
OvertakingBounded ==
    [][\A i, j \in 1 .. Len(waiting) :
        i < j /\ waiting[j] \in running' \ running /\ Fits(waiting[i]) =>
            /\ policy = "agent-cache-aware"
            /\ lead[waiting[i]][waiting[j]] < CriticalWeight + OptionalPenalty + MaxHit]_vars

\* Queue age prevents starvation: whoever waits is admitted in the end,
\* although others, with better scores, keep coming.
NoStarvation == \A c \in Client : c \in Elems(waiting) ~> c \in running

===============================================================================
