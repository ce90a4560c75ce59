---------------------------- MODULE PagedScheduler ----------------------------
(***************************************************************************)
(* The scheduler thread in paged mode (Scheduler._loop, _step_paged,       *)
(* _paged_decode_with_retraction) driving the engine's paged bookkeeping   *)
(* of PagedKV, with the HTTP threads' add_request running beside it.       *)
(*                                                                         *)
(* One call of step() is a walk of pc through its phases, one action per   *)
(* loop iteration:                                                         *)
(*                                                                         *)
(*   idle -> prefilling -> retracted -> waiting -> resume                  *)
(*        -> alloc -> forward -> results -> decode -> (exhausted ->)       *)
(*        -> dresults -> idle                                              *)
(*                                                                         *)
(* The first three phases are the admission loops, inside `with            *)
(* self._lock`.  An exception in a step is caught by _loop, which logs it  *)
(* and calls step() again: the step's local lists (toPrefill, ready, todo, *)
(* still) are gone, everything else stays as it was.                       *)
(*                                                                         *)
(* Left out: scores of the agent-cache-aware policy (any admissible        *)
(* candidate may come first), profiling and logging, the stats counters.   *)
(***************************************************************************)
EXTENDS PagedKV

CONSTANTS
    MaxRunning,         \* max_running
    ChunkSize,          \* prefill_chunk_size; 0 is unchunked
    EnableRetraction,   \* enable_retraction
    AgentPolicy,        \* scheduler_policy = "agent-cache-aware"
    Faults,             \* which model forwards may fail: "prefill", "decode"
    MaxFaults,          \* bound on how many of them happen
    End                 \* the stream's sentinel, TokenOutput(finished=True)

ASSUME MaxRunningAssumption == MaxRunning \in Nat \ {0}
ASSUME ChunkSizeAssumption == ChunkSize \in ChunkSizes
ASSUME SwitchAssumption == EnableRetraction \in BOOLEAN /\ AgentPolicy \in BOOLEAN
ASSUME FaultAssumption ==
    Faults \subseteq {"prefill", "decode"} /\ MaxFaults \in Nat
ASSUME EndAssumption == End \notin Token

VARIABLES
    pc,             \* the phase of step(); "idle" between steps
    submitted,      \* requests add_request was called for
    waiting,        \* the scheduler's four queues
    retracted,
    prefilling,
    running,
    toPrefill,      \* locals of step(): to_prefill, rehydrated_ready,
    ready,
    reserved,       \* pages_reserved,
    todo,           \* the running requests whose token is still to be handled,
    still,          \* still_running
    stream,         \* stream[r]: everything put on r's token_queue
    faults          \* failed forwards so far

queueVars == <<submitted, waiting, retracted, prefilling, running>>
localVars == <<toPrefill, ready, reserved, todo, still>>
vars == <<kvVars, pc, queueVars, localVars, stream, faults>>

Elems(s) == {s[i] : i \in 1 .. Len(s)}
Without(s, i) == SubSeq(s, 1, i - 1) \o SubSeq(s, i + 1, Len(s))

Init ==
    /\ KVInit
    /\ pc = "idle"
    /\ submitted = {}
    /\ waiting = <<>> /\ retracted = <<>> /\ prefilling = <<>> /\ running = <<>>
    /\ toPrefill = <<>> /\ ready = <<>> /\ reserved = 0 /\ todo = <<>> /\ still = <<>>
    /\ stream = [r \in Request |-> <<>>]
    /\ faults = 0

-------------------------------------------------------------------------------
(* The HTTP side. *)

\* The admission phases run under the lock add_request takes.
LockHeld == pc \in {"prefilling", "retracted", "waiting"}

AddRequest(r) ==
    /\ ~LockHeld
    /\ r \notin submitted
    /\ submitted' = submitted \cup {r}
    /\ waiting' = Append(waiting, r)
    /\ UNCHANGED <<kvVars, pc, retracted, prefilling, running, localVars, stream, faults>>

-------------------------------------------------------------------------------
(* step(): admission. *)

HasWork == \E q \in {waiting, retracted, prefilling, running} : q # <<>>

BeginStep ==
    /\ pc = "idle" /\ HasWork
    /\ pc' = "prefilling"
    /\ UNCHANGED <<kvVars, queueVars, localVars, stream, faults>>

\* Mutant: the pages r's prefix has just locked still count as evictable.
Fits_BeforeLock(r, s) == PrefillNeeded(r, s, ChunkSize) <= Available(st) - reserved

\* r's next chunk fits in what is free or evictable and not yet reserved,
\* once r's state is s (its borrowed pages are locked, no longer evictable).
Fits(r, s) ==
    PrefillNeeded(r, s, ChunkSize) <= Available([st EXCEPT ![r] = s]) - reserved

Active == Len(running) + Len(prefilling) + Len(toPrefill) + Len(ready)

\* Mutant: the reservation has the wrong sign.
Admit_Refund(r, s) ==
    /\ reserved' = reserved - PrefillNeeded(r, s, ChunkSize)
    /\ toPrefill' = Append(toPrefill, r)
    /\ st' = [st EXCEPT ![r] = s]
    /\ UNCHANGED <<out, rehydrate, cached, free, kv, pc, submitted, running,
                   ready, todo, still, stream, faults>>

\* Reserve r's pages and add it to the batch, in state s.
Admit(r, s) ==
    /\ reserved' = reserved + PrefillNeeded(r, s, ChunkSize)
    /\ toPrefill' = Append(toPrefill, r)
    /\ st' = [st EXCEPT ![r] = s]
    /\ UNCHANGED <<out, rehydrate, cached, free, kv, pc, submitted, running,
                   ready, todo, still, stream, faults>>

ContinuePrefilling ==
    /\ pc = "prefilling" /\ prefilling # <<>>
    /\ LET r == Head(prefilling) IN
         /\ Fits(r, st[r])
         /\ Admit(r, st[r])
    /\ prefilling' = Tail(prefilling)
    /\ UNCHANGED <<waiting, retracted>>

EndPrefilling ==
    /\ pc = "prefilling"
    /\ prefilling # <<>> => ~Fits(Head(prefilling), st[Head(prefilling)])
    /\ pc' = "retracted"
    /\ UNCHANGED <<kvVars, queueVars, localVars, stream, faults>>

\* Mutant: the retracted come after the waiting, as the waiting come after
\* the retracted.
RetractedOpen_AfterWaiting ==
    /\ pc = "retracted" /\ retracted # <<>> /\ prefilling = <<>> /\ waiting = <<>>
    /\ Active < MaxRunning

RetractedOpen ==
    pc = "retracted" /\ retracted # <<>> /\ prefilling = <<>> /\ Active < MaxRunning

\* The whole sequence is still cached: nothing to run, no pages to check.
RehydrateFromCache ==
    /\ RetractedOpen
    /\ LET r == Head(retracted) IN \E s \in PreparedStates(r) :
         /\ PrefillComplete(r, s)
         /\ st' = [st EXCEPT ![r] = s]
         /\ ready' = Append(ready, r)
    /\ retracted' = Tail(retracted)
    /\ UNCHANGED <<out, rehydrate, cached, free, kv, pc, submitted, waiting,
                   prefilling, running, toPrefill, reserved, todo, still, stream, faults>>

AdmitRetracted ==
    /\ RetractedOpen
    /\ LET r == Head(retracted) IN \E s \in PreparedStates(r) :
         ~PrefillComplete(r, s) /\ Fits(r, s) /\ Admit(r, s)
    /\ retracted' = Tail(retracted)
    /\ UNCHANGED <<waiting, prefilling>>

\* The head does not fit: its lock is released and the loop breaks.
EndRetracted ==
    /\ pc = "retracted"
    /\ IF RetractedOpen
       THEN LET r == Head(retracted) IN
              /\ \E s \in PreparedStates(r) : ~PrefillComplete(r, s) /\ ~Fits(r, s)
              /\ st' = [st EXCEPT ![r] = NoState]
       ELSE UNCHANGED st
    /\ pc' = "waiting"
    /\ UNCHANGED <<out, rehydrate, cached, free, kv, queueVars, localVars, stream, faults>>

\* Mutant: the waiting get in while a retracted request does not fit.
WaitingOpen_Overtaking ==
    /\ pc = "waiting" /\ waiting # <<>> /\ prefilling = <<>>
    /\ Active < MaxRunning

WaitingOpen ==
    /\ pc = "waiting" /\ waiting # <<>> /\ prefilling = <<>> /\ retracted = <<>>
    /\ Active < MaxRunning

\* FCFS looks at the head only; the agent policy at every one in score order.
Candidates == IF AgentPolicy THEN 1 .. Len(waiting) ELSE {1}
CandidateFits(i) == \A s \in PreparedStates(waiting[i]) : Fits(waiting[i], s)

\* Mutant: the request admitted stays in the queue.
AdmitWaiting_Peek(i) ==
    /\ WaitingOpen
    /\ i \in Candidates /\ CandidateFits(i)
    /\ \E s \in PreparedStates(waiting[i]) : Admit(waiting[i], s)
    /\ UNCHANGED <<waiting, retracted, prefilling>>

AdmitWaiting(i) ==
    /\ WaitingOpen
    /\ i \in Candidates /\ CandidateFits(i)
    /\ \E s \in PreparedStates(waiting[i]) : Admit(waiting[i], s)
    /\ waiting' = Without(waiting, i)
    /\ UNCHANGED <<retracted, prefilling>>

\* Mutant: candidates that did not fit are left prepared.
EndWaiting_Prepared ==
    /\ pc = "waiting"
    /\ IF WaitingOpen
       THEN /\ \A i \in Candidates : ~CandidateFits(i)
            /\ \E s \in PreparedStates(waiting[1]) : st' = [st EXCEPT ![waiting[1]] = s]
       ELSE UNCHANGED st
    /\ pc' = "resume"
    /\ reserved' = 0
    /\ UNCHANGED <<out, rehydrate, cached, free, kv, queueVars, toPrefill, ready,
                   todo, still, stream, faults>>

\* Every candidate that was prepared and did not fit has been released.
EndWaiting ==
    /\ pc = "waiting"
    /\ IF WaitingOpen
       THEN /\ \A i \in Candidates : ~CandidateFits(i)
            /\ st' = [r \in Request |->
                        IF \E i \in Candidates : waiting[i] = r THEN NoState ELSE st[r]]
       ELSE UNCHANGED st
    /\ pc' = "resume"
    /\ reserved' = 0
    /\ UNCHANGED <<out, rehydrate, cached, free, kv, queueVars, toPrefill, ready,
                   todo, still, stream, faults>>

\* rehydrated_ready joins running; the lock has been dropped.
ResumeReady ==
    /\ pc = "resume"
    /\ rehydrate' = [r \in Request |-> rehydrate[r] /\ r \notin Elems(ready)]
    /\ running' = running \o ready
    /\ ready' = <<>>
    /\ pc' = IF toPrefill = <<>> THEN "decode" ELSE "alloc"
    /\ UNCHANGED <<out, st, cached, free, kv, submitted, waiting, retracted, prefilling,
                   toPrefill, reserved, todo, still, stream, faults>>

-------------------------------------------------------------------------------
(* step(): batched paged prefill. *)

\* The exception leaves step(): its local lists are dropped.
Raise ==
    /\ pc' = "idle"
    /\ toPrefill' = <<>> /\ ready' = <<>> /\ reserved' = 0 /\ todo' = <<>> /\ still' = <<>>

\* The first request of q, in order, whose page table is too short.
FirstShort(q, missing) ==
    {q[i] : i \in {j \in 1 .. Len(q) : /\ missing[q[j]] > 0
                                       /\ \A k \in 1 .. j - 1 : missing[q[k]] = 0}}

NoneShort(q, missing) == \A r \in Elems(q) : missing[r] = 0

PrefillMissing == [r \in Request |-> PrefillNeeded(r, st[r], ChunkSize)]

AllocPrefill ==
    /\ pc = "alloc"
    /\ \E r \in FirstShort(toPrefill, PrefillMissing) : GrowTable(r, PrefillMissing[r])
    /\ UNCHANGED <<out, rehydrate, pc, queueVars, localVars, stream, faults>>

\* allocate raises: the requests taken from their queues are in none now.
AllocPrefillFails ==
    /\ pc = "alloc"
    /\ \E r \in FirstShort(toPrefill, PrefillMissing) : Exhausted(PrefillMissing[r])
    /\ Raise
    /\ UNCHANGED <<out, rehydrate, queueVars, stream, faults>>

EndAlloc ==
    /\ pc = "alloc"
    /\ NoneShort(toPrefill, PrefillMissing)
    /\ \A r \in Elems(toPrefill) : ~PrefillComplete(r, st[r])
    /\ pc' = "forward"
    /\ UNCHANGED <<kvVars, queueVars, localVars, stream, faults>>

BatchedPrefill ==
    /\ pc = "forward"
    /\ Forward(Elems(toPrefill), [r \in Elems(toPrefill) |-> PrefillFed(r, ChunkSize)])
    /\ pc' = "results"
    /\ UNCHANGED <<out, rehydrate, cached, queueVars, localVars, stream, faults>>

\* The model raises (out of device memory, say) before any state is updated.
BatchedPrefillFails ==
    /\ pc = "forward"
    /\ "prefill" \in Faults /\ faults < MaxFaults
    /\ faults' = faults + 1
    /\ Raise
    /\ UNCHANGED <<kvVars, queueVars, stream>>

NextResult ==
    /\ toPrefill' = Tail(toPrefill)
    /\ pc' = IF Tail(toPrefill) = <<>> THEN "decode" ELSE "results"
    /\ UNCHANGED <<submitted, waiting, retracted, ready, reserved, todo, still, faults>>

\* Mutant: a request with chunks left is not queued again.
PrefillUnfinished_Dropped ==
    /\ pc = "results"
    /\ ~PrefillComplete(Head(toPrefill), st[Head(toPrefill)])
    /\ NextResult
    /\ UNCHANGED <<kvVars, prefilling, running, stream>>

\* More prompt chunks remain, of a fresh or of a retracted request.
PrefillUnfinished ==
    /\ pc = "results"
    /\ ~PrefillComplete(Head(toPrefill), st[Head(toPrefill)])
    /\ prefilling' = Append(prefilling, Head(toPrefill))
    /\ NextResult
    /\ UNCHANGED <<kvVars, running, stream>>

Rehydrated ==
    /\ pc = "results"
    /\ LET r == Head(toPrefill) IN
         /\ rehydrate[r] /\ PrefillComplete(r, st[r])
         /\ rehydrate' = [rehydrate EXCEPT ![r] = FALSE]
         /\ running' = Append(running, r)
    /\ NextResult
    /\ UNCHANGED <<out, st, cached, free, kv, prefilling, stream>>

\* Append t to r's output and to its stream, with the sentinel if r ends.
Emit(r, t, last) ==
    /\ out' = [out EXCEPT ![r] = Append(@, t)]
    /\ stream' = [stream EXCEPT ![r] = @ \o (IF last THEN <<t, End>> ELSE <<t>>)]

\* Mutant: the prompt is not committed to the cache.
FirstResult_Uncommitted(t) ==
    /\ pc = "results"
    /\ LET r == Head(toPrefill)
           last == CheckFinished(Append(out[r], t))
       IN  /\ ~rehydrate[r] /\ PrefillComplete(r, st[r])
           /\ Emit(r, t, last)
           /\ IF last THEN CommitPagedCache(r, TRUE) ELSE UNCHANGED <<st, cached, free, kv>>
           /\ running' = IF last THEN running ELSE Append(running, r)
    /\ NextResult
    /\ UNCHANGED <<rehydrate, prefilling>>

FirstResult(t) ==
    /\ pc = "results"
    /\ LET r == Head(toPrefill)
           last == CheckFinished(Append(out[r], t))
       IN  /\ ~rehydrate[r] /\ PrefillComplete(r, st[r])
           /\ Emit(r, t, last)
           /\ CommitPagedCache(r, last)
           /\ running' = IF last THEN running ELSE Append(running, r)
    /\ NextResult
    /\ UNCHANGED <<rehydrate, prefilling>>

-------------------------------------------------------------------------------
(* step(): batched paged decode. *)

DecodeMissing == [r \in Request |-> Missing(st[r], st[r].len + 1)]

EndStep ==
    /\ pc = "decode" /\ running = <<>>
    /\ pc' = "idle"
    /\ UNCHANGED <<kvVars, queueVars, localVars, stream, faults>>

AllocDecode ==
    /\ pc = "decode"
    /\ \E r \in FirstShort(running, DecodeMissing) : GrowTable(r, DecodeMissing[r])
    /\ UNCHANGED <<out, rehydrate, pc, queueVars, localVars, stream, faults>>

\* allocate raises inside paged_batched_decode, after evicting all it could.
AllocDecodeFails ==
    /\ pc = "decode"
    /\ \E r \in FirstShort(running, DecodeMissing) : Exhausted(DecodeMissing[r])
    /\ pc' = "exhausted"
    /\ UNCHANGED <<out, rehydrate, queueVars, localVars, stream, faults>>

\* _choose_retraction_victim: most own pages, then most tokens left to
\* generate; the last criterion, arrival time, is left open.
Victims ==
    LET able == {r \in Elems(running) : Retractable(st[r]) > 0}
        left(r) == MaxNew - Len(out[r])
        atLeast(r, q) == \/ Retractable(st[r]) > Retractable(st[q])
                         \/ /\ Retractable(st[r]) = Retractable(st[q])
                            /\ left(r) >= left(q)
    IN  {r \in able : \A q \in able : atLeast(r, q)}

\* Mutant: needs_rehydrate is not set.
RetractVictim_Fresh(v) ==
    /\ pc = "exhausted" /\ EnableRetraction
    /\ v \in Victims
    /\ RetractPagedState(v)
    /\ running' = Without(running, CHOOSE i \in 1 .. Len(running) : running[i] = v)
    /\ retracted' = <<v>> \o retracted
    /\ pc' = "decode"
    /\ UNCHANGED <<out, rehydrate, submitted, waiting, prefilling, localVars, stream, faults>>

\* Mutant: the victim is not queued for rehydration.
RetractVictim_Dropped(v) ==
    /\ pc = "exhausted" /\ EnableRetraction
    /\ v \in Victims
    /\ RetractPagedState(v)
    /\ rehydrate' = [rehydrate EXCEPT ![v] = TRUE]
    /\ running' = Without(running, CHOOSE i \in 1 .. Len(running) : running[i] = v)
    /\ pc' = "decode"
    /\ UNCHANGED <<out, submitted, waiting, retracted, prefilling, localVars, stream, faults>>

RetractVictim(v) ==
    /\ pc = "exhausted" /\ EnableRetraction
    /\ v \in Victims
    /\ RetractPagedState(v)
    /\ rehydrate' = [rehydrate EXCEPT ![v] = TRUE]
    /\ running' = Without(running, CHOOSE i \in 1 .. Len(running) : running[i] = v)
    /\ retracted' = <<v>> \o retracted
    /\ pc' = "decode"
    /\ UNCHANGED <<out, submitted, waiting, prefilling, localVars, stream, faults>>

\* Retraction is off, or nobody has a page to give: the step fails.
ExhaustedStep ==
    /\ pc = "exhausted"
    /\ ~EnableRetraction \/ Victims = {}
    /\ Raise
    /\ UNCHANGED <<kvVars, queueVars, stream, faults>>

BatchedDecode ==
    /\ pc = "decode" /\ running # <<>>
    /\ NoneShort(running, DecodeMissing)
    /\ Forward(Elems(running), [r \in Elems(running) |-> DecodeFed(r)])
    /\ todo' = running
    /\ pc' = "dresults"
    /\ UNCHANGED <<out, rehydrate, cached, queueVars, toPrefill, ready, reserved, still,
                   stream, faults>>

\* Mutant: the batch is taken out of running while it is decoded.
BatchedDecodeFails_Taken ==
    /\ pc = "decode" /\ running # <<>>
    /\ NoneShort(running, DecodeMissing)
    /\ "decode" \in Faults /\ faults < MaxFaults
    /\ faults' = faults + 1
    /\ Raise
    /\ running' = <<>>
    /\ UNCHANGED <<kvVars, submitted, waiting, retracted, prefilling, stream>>

BatchedDecodeFails ==
    /\ pc = "decode" /\ running # <<>>
    /\ NoneShort(running, DecodeMissing)
    /\ "decode" \in Faults /\ faults < MaxFaults
    /\ faults' = faults + 1
    /\ Raise
    /\ UNCHANGED <<kvVars, queueVars, stream>>

\* One token of the batch is appended, streamed, and its request perhaps
\* finished; self.running is replaced after the last one.
DecodeResult(t) ==
    /\ pc = "dresults"
    /\ LET r == Head(todo)
           last == CheckFinished(Append(out[r], t))
           kept == IF last THEN still ELSE Append(still, r)
       IN  /\ Emit(r, t, last)
           /\ IF last THEN CommitPagedCache(r, TRUE) ELSE UNCHANGED <<st, cached, free, kv>>
           /\ todo' = Tail(todo)
           /\ IF Tail(todo) = <<>>
              THEN running' = kept /\ still' = <<>> /\ pc' = "idle"
              ELSE UNCHANGED <<running, pc>> /\ still' = kept
    /\ UNCHANGED <<rehydrate, submitted, waiting, retracted, prefilling,
                   toPrefill, ready, reserved, faults>>

-------------------------------------------------------------------------------

StepPaged ==
    \/ BeginStep
    \/ ContinuePrefilling \/ EndPrefilling
    \/ RehydrateFromCache \/ AdmitRetracted \/ EndRetracted
    \/ \E i \in 1 .. Len(waiting) : AdmitWaiting(i)
    \/ EndWaiting \/ ResumeReady
    \/ AllocPrefill \/ AllocPrefillFails \/ EndAlloc
    \/ BatchedPrefill \/ BatchedPrefillFails
    \/ PrefillUnfinished \/ Rehydrated \/ \E t \in Token : FirstResult(t)
    \/ EndStep \/ AllocDecode \/ AllocDecodeFails
    \/ \E v \in Request : RetractVictim(v)
    \/ ExhaustedStep
    \/ BatchedDecode \/ BatchedDecodeFails
    \/ \E t \in Token : DecodeResult(t)

\* The loop sleeps when there is nothing to do; no request is left to come.
Quiet ==
    /\ pc = "idle" /\ ~HasWork /\ submitted = Request
    /\ UNCHANGED vars

Next ==
    \/ \E r \in Request : AddRequest(r)
    \/ StepPaged
    \/ Quiet

Spec == Init /\ [][Next]_vars

\* The scheduler thread keeps running; clients may or may not send.
FairSpec == Spec /\ WF_vars(StepPaged)

-------------------------------------------------------------------------------
(* Properties. *)

Ended(r) == stream[r] # <<>> /\ stream[r][Len(stream[r])] = End

TypeOK ==
    /\ KVTypeOK
    /\ pc \in {"idle", "prefilling", "retracted", "waiting", "resume", "alloc",
               "forward", "results", "decode", "exhausted", "dresults"}
    /\ submitted \subseteq Request
    /\ \A q \in {waiting, retracted, prefilling, running, toPrefill, ready, todo, still} :
         q \in Seq(Request)
    /\ reserved \in Nat
    /\ stream \in [Request -> Seq(Token \cup {End})]
    /\ faults \in 0 .. MaxFaults

\* All queues and batches, one after the other.
Everywhere == waiting \o retracted \o prefilling \o running \o toPrefill \o ready

\* No request is lost or scheduled twice: between submission and its
\* sentinel it is in exactly one queue or batch, once, and afterwards, between
\* steps, in none.  (A failing prefill is the exception: OnlyBatchesAreLost.)
OneHome ==
    LET count(r) == Cardinality({i \in 1 .. Len(Everywhere) : Everywhere[i] = r})
    IN  \A r \in Request :
          /\ r \in submitted /\ ~Ended(r) => count(r) = 1
          /\ r \notin submitted \/ (Ended(r) /\ pc = "idle") => count(r) = 0

\* What a failing step may lose: a request that has not ended leaves the
\* queues only with the batch whose prefill raises, in allocate or in the
\* model.  A decode that fails, for want of pages or in the model, loses
\* nobody, and no failure anybody outside its batch, whatever phase of the
\* pipeline the others have got to.
OnlyBatchesAreLost ==
    [][\A r \in Elems(Everywhere) :
          \/ Ended(r) \/ Ended(r)'
          \/ r \in Elems(Everywhere)'
          \/ pc \in {"alloc", "forward"} /\ pc' = "idle" /\ r \in Elems(toPrefill)]_vars

\* At most max_running requests have been admitted and not ended, wherever in
\* the pipeline they are, and the retracted ones keep their places: nobody
\* from the waiting queue gets in while they are out.
AdmissionBound == Active + Len(retracted) <= MaxRunning

\* A client sees the tokens of output_ids, in order, each once, never one
\* after a stop token or past max_new_tokens, and then exactly one sentinel,
\* retracted or not.
StreamWellFormed ==
    \A r \in Request :
        /\ stream[r] = out[r] \o (IF Finished(r) THEN <<End>> ELSE <<>>)
        /\ Len(out[r]) <= MaxNew
        /\ \A i \in 1 .. Len(out[r]) - 1 : out[r][i] \notin StopTokens

\* Between steps only requests in prefilling or running hold pages or cache
\* locks: whoever waits, was retracted or has finished holds nothing.
OnlyActiveHoldPages ==
    pc = "idle" =>
        \A r \in Request : st[r] # NoState => r \in Elems(prefilling) \cup Elems(running)

\* What admission reserved is really there: until the batch has its pages,
\* the missing ones can be had from the free list and by eviction, so that
\* the batch's allocations never fail.
ReservationsCovered ==
    pc \in {"prefilling", "retracted", "waiting", "resume", "alloc"} =>
        LET want[R \in SUBSET Elems(toPrefill)] ==
                IF R = {} THEN 0
                ELSE LET r == CHOOSE r \in R : TRUE
                     IN  PrefillMissing[r] + want[R \ {r}]
        IN  want[Elems(toPrefill)] <= Available(st)

\* Every submitted request gets its sentinel.
EveryRequestEnds == \A r \in Request : r \in submitted ~> Ended(r)

===============================================================================
