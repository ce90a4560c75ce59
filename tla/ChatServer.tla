------------------------------ MODULE ChatServer ------------------------------
(***************************************************************************)
(* The HTTP side (server.py) in front of the batched or baseline           *)
(* scheduler: each chat_completions handler puts its request on the        *)
(* scheduler's queue and then, once per output, has a worker thread of the *)
(* event loop's executor block in token_queue.get.  The workers are shared *)
(* by all handlers, and there may be fewer of them than requests.          *)
(*                                                                         *)
(* On a signal uvicorn closes its socket and lets the handlers finish, or, *)
(* on a second one, cancels them; either way the event loop joins its      *)
(* workers before uvicorn.run returns and main stops the scheduler.        *)
(***************************************************************************)
EXTENDS BatchedScheduler

CONSTANTS
    Workers,        \* threads of the event loop's default executor
    Streaming       \* requests with stream = true

ASSUME WorkersAssumption == Workers \in Nat \ {0} /\ Streaming \subseteq Request

VARIABLES
    client,         \* client[r]: where r's handler is
    jobs,           \* gets that wait for a worker, first come first served
    busy,           \* requests a worker is blocked in get for
    server,         \* "up", "closing", "stopping" (the scheduler) or "down"
    taken,          \* taken[r]: outputs taken off r's token_queue
    received        \* received[r]: what the handler of r has passed on

serverVars == <<server, client, jobs, busy, taken, received>>
vars == <<schedVars, serverVars>>

ServerInit ==
    /\ Init
    /\ server = "up"
    /\ client = [r \in Request |-> "none"]
    /\ jobs = <<>> /\ busy = {}
    /\ taken = [r \in Request |-> 0]
    /\ received = [r \in Request |-> <<>>]

\* chat_completions: the request is enqueued and its first output asked for
\* with loop.run_in_executor(None, req.token_queue.get).
Post(r) ==
    /\ server = "up"
    /\ AddRequest(r)
    /\ client' = [client EXCEPT ![r] = "waiting"]
    /\ jobs' = Append(jobs, r)
    /\ UNCHANGED <<server, busy, taken, received>>

\* A free worker takes the oldest job.
StartGet ==
    /\ jobs # <<>> /\ Cardinality(busy) < Workers
    /\ busy' = busy \cup {Head(jobs)}
    /\ jobs' = Tail(jobs)
    /\ UNCHANGED <<schedVars, server, client, taken, received>>

\* The handler gets an output: the sentinel ends the response, a token is
\* sent or collected and the next output asked for.
Handled(r, x) ==
    /\ received' = [received EXCEPT ![r] = Append(@, x)]
    /\ IF x = End
       THEN client' = [client EXCEPT ![r] = "done"] /\ UNCHANGED jobs
       ELSE jobs' = Append(jobs, r) /\ UNCHANGED client

\* Mutant: of the tokens that have piled up only the second is passed on.
FinishGet_Skips(r) ==
    LET n == IF taken[r] + 2 <= Len(out[r]) THEN 2 ELSE 1
    IN  /\ r \in busy /\ taken[r] < Len(stream[r])
        /\ busy' = busy \ {r}
        /\ taken' = [taken EXCEPT ![r] = @ + n]
        /\ IF client[r] = "waiting"
           THEN Handled(r, stream[r][taken[r] + n])
           ELSE UNCHANGED <<client, jobs, received>>
        /\ UNCHANGED <<schedVars, server>>

\* get returns.  With the client gone, the output is dropped.
FinishGet(r) ==
    /\ r \in busy /\ taken[r] < Len(stream[r])
    /\ busy' = busy \ {r}
    /\ taken' = [taken EXCEPT ![r] = @ + 1]
    /\ IF client[r] = "waiting"
       THEN Handled(r, stream[r][taken[r] + 1])
       ELSE UNCHANGED <<client, jobs, received>>
    /\ UNCHANGED <<schedVars, server>>

\* The jobs that are not of R, in their order.
NotOf(R) ==
    LET kept[i \in 0 .. Len(jobs)] ==
            IF i = 0 THEN <<>>
            ELSE IF jobs[i] \in R THEN kept[i - 1] ELSE Append(kept[i - 1], jobs[i])
    IN  kept[Len(jobs)]

\* The handlers of R are cancelled.  A get that no worker has begun is
\* cancelled with them, one that has goes on; so does the request itself.
Cancel(R) ==
    /\ R # {}
    /\ client' = [r \in Request |-> IF r \in R THEN "gone" ELSE client[r]]
    /\ jobs' = NotOf(R)
    /\ UNCHANGED <<schedVars, server, busy, taken, received>>

\* A streaming client hangs up.
Disconnect(r) == r \in Streaming /\ client[r] = "waiting" /\ Cancel({r})

\* The loop looks at _running_flag between two steps only.
SchedulerStep ==
    /\ server # "down" /\ (server = "stopping" => pc # "idle")
    /\ Step
    /\ UNCHANGED serverVars

\* The first signal: no more connections.
Shutdown ==
    /\ server = "up"
    /\ server' = "closing"
    /\ UNCHANGED <<schedVars, client, jobs, busy, taken, received>>

\* The second signal: what handlers there are are cancelled.
ForceExit == server = "closing" /\ Cancel({r \in Request : client[r] = "waiting"})

\* Mutant: the scheduler is stopped first.
StopScheduler_First ==
    /\ server = "closing"
    /\ server' = "stopping"
    /\ UNCHANGED <<schedVars, client, jobs, busy, taken, received>>

\* uvicorn.run has returned: stop() clears _running_flag.
StopScheduler ==
    /\ server = "closing"
    /\ \A r \in Request : client[r] # "waiting"
    /\ busy = {}
    /\ server' = "stopping"
    /\ UNCHANGED <<schedVars, client, jobs, busy, taken, received>>

\* The scheduler thread has ended, or not within the five seconds of join; it
\* is a daemon and ends with the process.  The workers are joined.
Exit ==
    /\ server = "stopping" /\ busy = {}
    /\ server' = "down"
    /\ UNCHANGED <<schedVars, client, jobs, busy, taken, received>>

\* The process is gone; or the loop sleeps, and nobody is left to come or a
\* handler whose request was lost waits for ever.
Quiet ==
    /\ \/ server = "down"
       \/ /\ pc = "idle" /\ ~HasWork
          /\ Lost # {} \/ \A r \in Request : client[r] \in {"done", "gone"}
    /\ UNCHANGED vars

Next ==
    \/ SchedulerStep
    \/ StartGet
    \/ Shutdown \/ ForceExit \/ StopScheduler \/ Exit
    \/ \E r \in Request : Post(r) \/ FinishGet(r) \/ Disconnect(r)
    \/ Quiet

\* The scheduler thread and the executor's workers keep running, and so does
\* main; clients need not send, and need not leave, and no signal need come.
Spec ==
    /\ ServerInit /\ [][Next]_vars
    /\ WF_vars(SchedulerStep)
    /\ WF_vars(StartGet) /\ WF_vars(StopScheduler) /\ WF_vars(Exit)
    /\ \A r \in Request : WF_vars(FinishGet(r))

-------------------------------------------------------------------------------
(* Properties. *)

ServerTypeOK ==
    /\ TypeOK
    /\ server \in {"up", "closing", "stopping", "down"}
    /\ client \in [Request -> {"none", "waiting", "done", "gone"}]
    /\ jobs \in Seq(Request) /\ busy \subseteq Request
    /\ taken \in [Request -> Nat]
    /\ received \in [Request -> Seq(Token \cup {End})]

Gone == {r \in Request : client[r] = "gone"}

Service ==
    INSTANCE ChatService WITH asked <- submitted, left <- Gone, output <- out, answer <- received

\* Clients get what the service promises: the tokens the scheduler generated
\* for their own request, in order, none twice or skipped, none generated
\* after the last one, and the end mark once, although outputs cross a queue
\* and whatever worker is free.
ImplementsService == Service!ServiceSpec

\* Each client that stays is answered, even with fewer workers than clients
\* and with the workers blocked on requests that have not been scheduled yet,
\* unless a failed step has forgotten some request.
EveryClientAnswered ==
    \A r \in Request : r \in submitted ~> (client[r] \in {"done", "gone"} \/ Lost # {})

\* A server told to stop comes down: the scheduler goes on until every
\* handler has its answer, or is cancelled, and every worker has come back,
\* blocked on behalf of a client that has left or not, unless a failed step
\* has forgotten some request.
ShutdownCompletes == server = "closing" ~> (server = "down" \/ Lost # {})

===============================================================================
