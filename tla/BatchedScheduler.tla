--------------------------- MODULE BatchedScheduler ---------------------------
(***************************************************************************)
(* The scheduler thread in its two modes without pages: baseline, one      *)
(* request to completion per step, and batched, iteration-level batching   *)
(* with per-request KV caches that are padded to one batch for each decode *)
(* (Scheduler._step_baseline and _step_batched, Engine.prefill,            *)
(* decode_step and batched_decode).                                        *)
(*                                                                         *)
(* A KV entry is the token it was computed from and its RoPE position.     *)
(* request.kv_cache is a sequence of entries; <<>> stands for None.        *)
(*                                                                         *)
(* A failing forward raises out of step(); _loop logs it and goes on, and  *)
(* the step's local lists are gone.                                        *)
(*                                                                         *)
(* (X_<What> is a mutant of X: a plausible bug, put in X's place to see     *)
(* which property notices it.)                                             *)
(***************************************************************************)
EXTENDS Integers, Sequences, FiniteSets

CONSTANTS
    Request,        \* request ids
    Token,          \* token ids
    Prompt,         \* Prompt[r]: input_ids of r
    MaxNew,         \* max_new_tokens, the same for every request
    StopTokens,     \* engine.is_stop_token
    MaxRunning,     \* max_running
    Modes,          \* the scheduling modes looked at
    Faults,         \* which model forwards may fail: "prefill", "decode"
    MaxFaults,      \* bound on how many of them happen
    Pad,            \* a KV entry of F.pad's zeros
    End             \* the stream's sentinel, TokenOutput(finished=True)

ASSUME RequestAssumption == IsFiniteSet(Request)
ASSUME PromptAssumption == Prompt \in [Request -> Seq(Token) \ {<<>>}]
ASSUME LimitAssumption == MaxNew \in Nat \ {0} /\ MaxRunning \in Nat \ {0}
ASSUME StopAssumption == StopTokens \subseteq Token /\ End \notin Token
ASSUME ModeAssumption == Modes \subseteq {"baseline", "batched"}
ASSUME FaultAssumption == Faults \subseteq {"prefill", "decode"} /\ MaxFaults \in Nat

VARIABLES
    mode,           \* the mode the server was started in
    pc,             \* the phase of step(); "idle" between steps
    submitted,      \* requests add_request was called for
    waiting,
    running,
    toPrefill,      \* locals of step(): to_prefill,
    todo,           \* the requests whose token is still to be handled,
    still,          \* still_running
    out,            \* out[r]: output_ids of r
    kv,             \* kv[r]: kv_cache of r
    seen,           \* history: seen[r], the entries the last decode attended to
    stream,         \* stream[r]: everything put on r's token_queue
    faults          \* the forwards that failed, in order

reqVars == <<out, kv, seen, stream>>
schedVars == <<mode, pc, submitted, waiting, running, toPrefill, todo, still, reqVars, faults>>

Elems(s) == {s[i] : i \in 1 .. Len(s)}
Longest(L) == CHOOSE m \in L : \A l \in L : l <= m

Init ==
    /\ mode \in Modes
    /\ pc = "idle"
    /\ submitted = {}
    /\ waiting = <<>> /\ running = <<>>
    /\ toPrefill = <<>> /\ todo = <<>> /\ still = <<>>
    /\ out = [r \in Request |-> <<>>]
    /\ kv = [r \in Request |-> <<>>]
    /\ seen = [r \in Request |-> <<>>]
    /\ stream = [r \in Request |-> <<>>]
    /\ faults = <<>>

-------------------------------------------------------------------------------
(* The engine. *)

Ids(r) == Prompt[r] \o out[r]

\* Mutant: positions are counted from the token before.
Entries_Shifted(s) == [i \in 1 .. Len(s) |-> <<s[i], i - 2>>]

\* The KV of a token sequence fed to the model from position 0 on.
Entries(s) == [i \in 1 .. Len(s) |-> <<s[i], i - 1>>]

\* The token a decode feeds for r, at RoPE position cache_len.
NewEntry(r) == <<out[r][Len(out[r])], Len(kv[r])>>

\* One row of the padded batch: r's cache, zeros up to the longest cache of
\* the batch, and the new token appended by the attention forward.
Row(r, maxLen) ==
    kv[r] \o [i \in 1 .. maxLen - Len(kv[r]) |-> Pad] \o <<NewEntry(r)>>

\* The columns of r's row whose attention mask is -inf.
Masked(r, maxLen) == Len(kv[r]) + 1 .. maxLen

\* The row without its masked columns.
Attended(r, maxLen) ==
    LET row == Row(r, maxLen)
        kept[i \in 0 .. Len(row)] ==
            IF i = 0 THEN <<>>
            ELSE IF i \in Masked(r, maxLen) THEN kept[i - 1]
            ELSE Append(kept[i - 1], row[i])
    IN  kept[Len(row)]

\* Mutant: the column after the prefix is taken for the new token.
Extracted_NextColumn(r, maxLen) == SubSeq(Row(r, maxLen), 1, Len(kv[r]) + 1)

\* What batched_decode keeps of r's row: the prefix and the last column.
Extracted(r, maxLen) ==
    LET row == Row(r, maxLen)
    IN  SubSeq(row, 1, Len(kv[r])) \o <<row[Len(row)]>>

\* _check_finished.
CheckFinished(o) == Len(o) >= MaxNew \/ o[Len(o)] \in StopTokens

-------------------------------------------------------------------------------
(* The scheduler. *)

AddRequest(r) ==
    /\ r \notin submitted
    /\ submitted' = submitted \cup {r}
    /\ waiting' = Append(waiting, r)
    /\ UNCHANGED <<mode, pc, running, toPrefill, todo, still, reqVars, faults>>

\* Mutant: the loop goes to sleep while requests are still decoding.
HasWork_WaitingOnly == waiting # <<>>

\* The loop sleeps only when there is neither a new nor a running request.
HasWork == waiting # <<>> \/ running # <<>>

\* Token t of r: appended to its output and put on its queue, followed by
\* the sentinel when r ends.
Emit(r, t) ==
    /\ out' = [out EXCEPT ![r] = Append(@, t)]
    /\ stream' = [stream EXCEPT ![r] =
                    @ \o (IF CheckFinished(out'[r]) THEN <<t, End>> ELSE <<t>>)]

\* _finish_request drops kv_cache.
Dropped(r, caches) == [caches EXCEPT ![r] = <<>>]

\* _step_baseline: take the head; with nothing waiting the step is over.
BeginBaseline ==
    /\ mode = "baseline" /\ pc = "idle" /\ waiting # <<>>
    /\ todo' = <<Head(waiting)>>
    /\ waiting' = Tail(waiting)
    /\ pc' = "prefill"
    /\ UNCHANGED <<mode, submitted, running, toPrefill, still, reqVars, faults>>

\* The request's one token is handled: it ends, or decodes again.
BaselineToken(r, t, caches) ==
    /\ Emit(r, t)
    /\ IF CheckFinished(out'[r])
       THEN kv' = Dropped(r, caches) /\ todo' = <<>> /\ pc' = "idle"
       ELSE kv' = caches /\ pc' = "decode" /\ UNCHANGED todo
    /\ UNCHANGED <<mode, submitted, waiting, running, toPrefill, still, seen, faults>>

BaselinePrefill(t) ==
    /\ mode = "baseline" /\ pc = "prefill"
    /\ BaselineToken(todo[1], t, [kv EXCEPT ![todo[1]] = Entries(Prompt[todo[1]])])

BaselineDecode(t) ==
    /\ mode = "baseline" /\ pc = "decode"
    /\ BaselineToken(todo[1], t, [kv EXCEPT ![todo[1]] = Append(@, NewEntry(todo[1]))])

\* Mutant: those already running are not counted.
Admissible_NewOnly == IF Len(waiting) <= MaxRunning THEN Len(waiting) ELSE MaxRunning

\* How many of the waiting are admitted: while running and to_prefill
\* together leave room.
Admissible ==
    IF Len(waiting) <= MaxRunning - Len(running) THEN Len(waiting)
    ELSE MaxRunning - Len(running)

\* _step_batched, phase 1: the admission loop, under the lock.
BeginBatched ==
    /\ mode = "batched" /\ pc = "idle" /\ HasWork
    /\ toPrefill' = SubSeq(waiting, 1, Admissible)
    /\ waiting' = SubSeq(waiting, Admissible + 1, Len(waiting))
    /\ pc' = "prefill"
    /\ UNCHANGED <<mode, submitted, running, todo, still, reqVars, faults>>

\* Mutant: a request that ends with its first token runs all the same.
PrefillNext_Kept(t) ==
    /\ mode = "batched" /\ pc = "prefill" /\ toPrefill # <<>>
    /\ LET r == Head(toPrefill) IN
         /\ Emit(r, t)
         /\ kv' = [kv EXCEPT ![r] = Entries(Prompt[r])]
         /\ running' = Append(running, r)
    /\ toPrefill' = Tail(toPrefill)
    /\ UNCHANGED <<mode, pc, submitted, waiting, todo, still, seen, faults>>

\* Prefill the next of to_prefill; it ends with its first token or runs.
PrefillNext(t) ==
    /\ mode = "batched" /\ pc = "prefill" /\ toPrefill # <<>>
    /\ LET r == Head(toPrefill) IN
         /\ Emit(r, t)
         /\ IF CheckFinished(out'[r])
            THEN kv' = Dropped(r, kv) /\ UNCHANGED running
            ELSE /\ kv' = [kv EXCEPT ![r] = Entries(Prompt[r])]
                 /\ running' = Append(running, r)
    /\ toPrefill' = Tail(toPrefill)
    /\ UNCHANGED <<mode, pc, submitted, waiting, todo, still, seen, faults>>

\* Phase 2 of _step_batched.
DecodeDue == mode = "batched" /\ pc = "prefill" /\ toPrefill = <<>> /\ running # <<>>

\* One padded forward for all of running.
BatchedDecode ==
    /\ DecodeDue
    /\ LET maxLen == Longest({Len(kv[r]) : r \in Elems(running)}) IN
         /\ seen' = [r \in Request |->
                       IF r \in Elems(running) THEN Attended(r, maxLen) ELSE <<>>]
         /\ kv' = [r \in Request |->
                       IF r \in Elems(running) THEN Extracted(r, maxLen) ELSE kv[r]]
    /\ todo' = running
    /\ pc' = "results"
    /\ UNCHANGED <<mode, submitted, waiting, running, toPrefill, still, out, stream, faults>>

EndBatched ==
    /\ mode = "batched" /\ pc = "prefill" /\ toPrefill = <<>> /\ running = <<>>
    /\ pc' = "idle"
    /\ UNCHANGED <<mode, submitted, waiting, running, toPrefill, todo, still, reqVars, faults>>

\* One token of the batch; self.running is replaced after the last one.
DecodeResult(t) ==
    /\ pc = "results"
    /\ LET r == Head(todo)
           kept == IF CheckFinished(Append(out[r], t)) THEN still ELSE Append(still, r)
       IN  /\ Emit(r, t)
           /\ kv' = IF CheckFinished(out'[r]) THEN Dropped(r, kv) ELSE kv
           /\ seen' = [seen EXCEPT ![r] = <<>>]
           /\ IF Tail(todo) = <<>>
              THEN running' = kept /\ still' = <<>> /\ pc' = "idle"
              ELSE still' = kept /\ UNCHANGED <<running, pc>>
    /\ todo' = Tail(todo)
    /\ UNCHANGED <<mode, submitted, waiting, toPrefill, faults>>

\* The forward of the current phase raises before it changes any request.
ForwardFails ==
    /\ Len(faults) < MaxFaults
    /\ \E phase \in Faults :
         /\ \/ phase = "prefill" /\ pc = "prefill" /\ toPrefill \o todo # <<>>
            \/ phase = "decode" /\ pc = "decode"
            \/ phase = "decode" /\ DecodeDue
         /\ faults' = Append(faults, phase)
    /\ toPrefill' = <<>> /\ todo' = <<>>
    /\ pc' = "idle"
    /\ UNCHANGED <<mode, submitted, waiting, running, still, reqVars>>

Step ==
    \/ BeginBaseline \/ BeginBatched \/ BatchedDecode \/ EndBatched
    \/ \E t \in Token : \/ BaselinePrefill(t) \/ BaselineDecode(t)
                        \/ PrefillNext(t) \/ DecodeResult(t)
    \/ ForwardFails

-------------------------------------------------------------------------------
(* Properties. *)

Ended(r) == stream[r] # <<>> /\ stream[r][Len(stream[r])] = End

\* Requests nobody works on and nobody will: a failed step forgot them.
\* (self.running lists the requests of todo until the step is over.)
Homes == waiting \o running \o toPrefill \o (IF mode = "baseline" THEN todo ELSE <<>>)
Lost == {r \in submitted : ~Ended(r) /\ r \notin Elems(Homes)}

TypeOK ==
    /\ mode \in Modes
    /\ pc \in {"idle", "prefill", "decode", "results"}
    /\ submitted \subseteq Request
    /\ \A q \in {waiting, running, toPrefill, todo, still} : q \in Seq(Request)
    /\ out \in [Request -> Seq(Token)]
    /\ kv \in [Request -> Seq((Token \X Nat) \cup {Pad})]
    /\ seen \in [Request -> Seq((Token \X Nat) \cup {Pad})]
    /\ stream \in [Request -> Seq(Token \cup {End})]
    /\ faults \in Seq(Faults) /\ Len(faults) <= MaxFaults

\* Padding leaves no trace: each decode of a request attends to exactly its
\* own tokens at their own positions, whatever else is in the batch, and its
\* cache always holds all its tokens but the one not fed yet.
KVExact ==
    \A r \in Request :
        /\ pc = "results" /\ r \in Elems(todo) =>
             kv[r] = Entries(Ids(r)) /\ seen[r] = Entries(Ids(r))
        /\ kv[r] # <<>> /\ ~(pc = "results" /\ r \in Elems(todo)) =>
             kv[r] = Entries(SubSeq(Ids(r), 1, Len(Ids(r)) - 1))

\* A running request has its KV, and KV memory is only held by the requests
\* admitted, at most max_running of them: not by waiting or finished ones,
\* nor, in batched mode, by the ones a failed step forgot.
KVHeldByRunning ==
    LET holders == {r \in Request : kv[r] # <<>>}
    IN  /\ \A r \in Elems(running) : Ended(r) \/ r \in holders
        /\ mode = "batched" => holders \subseteq Elems(running)
        /\ Len(running) + Len(toPrefill) <= MaxRunning

\* No request is run twice or streamed after its end, and without a failed
\* forward none is lost; a batched decode that fails loses nobody either.
OneHome ==
    /\ \A r \in Request :
         Cardinality({i \in 1 .. Len(Homes) : Homes[i] = r}) <= 1
    /\ pc = "idle" => \A r \in Elems(Homes) : r \in submitted /\ ~Ended(r)
    /\ Lost # {} => faults # <<>> /\ (mode = "batched" => "prefill" \in Elems(faults))

===============================================================================
