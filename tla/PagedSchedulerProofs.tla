------------------------- MODULE PagedSchedulerProofs -------------------------
(***************************************************************************)
(* Proofs about PagedScheduler, for every value of the constants.          *)
(*                                                                         *)
(* max_running bounds the admitted requests, whatever the phase of the     *)
(* step and whatever fails.                                                *)
(*                                                                         *)
(* The scheduler implements PagedKV (Spec => KVSpec): every phase of       *)
(* step() calls the engine only for requests in the state the operation    *)
(* is made for.  What PagedKV promises about pages and their content       *)
(* therefore holds of the scheduler.  The invariant says at which stage of *)
(* its life the requests of each queue are, and that none is in a queue    *)
(* twice; the streams clients read follow from it as well.                 *)
(*                                                                         *)
(* What admission reserves is there when the batch allocates, unless both  *)
(* retraction and the cache are on: the pages the batch lacks add up to    *)
(* what was reserved, and that is covered by the free list and what can be *)
(* evicted.  A batch is then never dropped, and every request has a place  *)
(* in the pipeline until its sentinel.                                     *)
(***************************************************************************)
EXTENDS PagedScheduler, PagedKVProofs, WellFoundedInduction

QueueTypes ==
    /\ waiting \in Seq(Request) /\ retracted \in Seq(Request)
    /\ prefilling \in Seq(Request) /\ running \in Seq(Request)
    /\ toPrefill \in Seq(Request) /\ ready \in Seq(Request)
    /\ todo \in Seq(Request) /\ still \in Seq(Request)

\* The locals of step() between its phases: a batch that is being prefilled
\* is not empty, still_running collects only while results are handled and
\* never holds more than was running.
StepLocals ==
    /\ pc \in {"alloc", "forward", "results"} => toPrefill # <<>>
    /\ pc # "dresults" => still = <<>>
    /\ pc = "dresults" => todo # <<>> /\ Len(still) + Len(todo) <= Len(running)

AdmissionInv == QueueTypes /\ StepLocals /\ AdmissionBound

\* Taking one element out of a queue leaves a queue with one less.
LEMMA WithoutOne ==
    ASSUME NEW S, NEW s \in Seq(S), NEW i \in 1 .. Len(s)
    PROVE  Without(s, i) \in Seq(S) /\ Len(Without(s, i)) = Len(s) - 1
  <1> DEFINE before == SubSeq(s, 1, i - 1)
             after == SubSeq(s, i + 1, Len(s))
  <1>1. before \in Seq(S) /\ Len(before) = i - 1
    OBVIOUS
  <1>2. after \in Seq(S) /\ Len(after) = Len(s) - i
    OBVIOUS
  <1>3. Without(s, i) = before \o after
    BY DEF Without
  <1>4. Len(s) \in Nat /\ i \in Nat
    OBVIOUS
  <1> HIDE DEF before, after
  <1>5. before \o after \in Seq(S) /\ Len(before \o after) = Len(before) + Len(after)
    BY <1>1, <1>2
  <1> QED BY <1>1, <1>2, <1>3, <1>4, <1>5

\* A non-empty queue loses one element with its head, and gains one at its end.
LEMMA QueueEnds ==
    ASSUME NEW S, NEW s \in Seq(S)
    PROVE  /\ Len(s) \in Nat
           /\ s # <<>> => /\ Head(s) \in S /\ Tail(s) \in Seq(S)
                          /\ Len(Tail(s)) = Len(s) - 1 /\ Len(s) > 0
           /\ \A x \in S : Append(s, x) \in Seq(S) /\ Len(Append(s, x)) = Len(s) + 1
           /\ \A t \in Seq(S) : s \o t \in Seq(S) /\ Len(s \o t) = Len(s) + Len(t)
  OBVIOUS

\* The scheduler starts with empty queues.
LEMMA AdmissionInit == Init => AdmissionInv
  BY MaxRunningAssumption DEF Init, AdmissionInv, QueueTypes, StepLocals, AdmissionBound, Active

\* No phase of the step, and no failure in it, admits more than max_running.
LEMMA AdmissionNext == AdmissionInv /\ [Next]_vars => AdmissionInv'
  <1> SUFFICES ASSUME AdmissionInv, [Next]_vars PROVE AdmissionInv'
    OBVIOUS
  <1> USE DEF AdmissionInv
  <1>0. /\ QueueTypes /\ StepLocals /\ Active + Len(retracted) <= MaxRunning
        /\ MaxRunning \in Nat /\ Len(retracted) \in Nat
        /\ Len(running) \in Nat /\ Len(prefilling) \in Nat
        /\ Len(toPrefill) \in Nat /\ Len(ready) \in Nat
        /\ Len(todo) \in Nat /\ Len(still) \in Nat
    BY MaxRunningAssumption, QueueEnds DEF AdmissionBound, QueueTypes
  <1>1. ASSUME NEW r \in Request, AddRequest(r) PROVE AdmissionInv'
    <2>1. waiting' \in Seq(Request)
      BY <1>0, <1>1, QueueEnds DEF AddRequest, QueueTypes
    <2> QED BY <1>0, <1>1, <2>1 DEF AddRequest, localVars, QueueTypes, StepLocals,
                                    AdmissionBound, Active
  <1>2. CASE BeginStep \/ EndPrefilling \/ EndAlloc \/ EndStep \/ Quiet \/ UNCHANGED vars
    BY <1>0, <1>2 DEF BeginStep, EndPrefilling, EndAlloc, EndStep, Quiet, vars, queueVars,
                localVars, QueueTypes, StepLocals, AdmissionBound, Active
  <1>3. CASE ContinuePrefilling
    <2>1. /\ prefilling # <<>> /\ prefilling' = Tail(prefilling)
          /\ toPrefill' = Append(toPrefill, Head(prefilling))
          /\ pc = "prefilling" /\ pc' = pc
          /\ UNCHANGED <<running, ready, todo, still, waiting, retracted>>
      BY <1>3 DEF ContinuePrefilling, Admit
    <2>2. /\ prefilling' \in Seq(Request) /\ Len(prefilling') = Len(prefilling) - 1
          /\ toPrefill' \in Seq(Request) /\ Len(toPrefill') = Len(toPrefill) + 1
      BY <1>0, <2>1, QueueEnds DEF QueueTypes
    <2> QED BY <1>0, <2>1, <2>2 DEF QueueTypes, StepLocals, AdmissionBound, Active
  <1>4. CASE RehydrateFromCache
    <2>1. /\ retracted # <<>> /\ retracted' = Tail(retracted)
          /\ ready' = Append(ready, Head(retracted))
          /\ pc = "retracted" /\ pc' = pc /\ Active < MaxRunning
          /\ UNCHANGED <<running, prefilling, toPrefill, todo, still, waiting>>
      BY <1>4 DEF RehydrateFromCache, RetractedOpen
    <2>2. /\ retracted' \in Seq(Request) /\ Len(retracted') = Len(retracted) - 1
          /\ ready' \in Seq(Request) /\ Len(ready') = Len(ready) + 1
      BY <1>0, <2>1, QueueEnds DEF QueueTypes
    <2> QED BY <1>0, <2>1, <2>2 DEF QueueTypes, StepLocals, AdmissionBound, Active
  <1>5. CASE AdmitRetracted
    <2>1. /\ retracted # <<>> /\ retracted' = Tail(retracted)
          /\ toPrefill' = Append(toPrefill, Head(retracted))
          /\ pc = "retracted" /\ pc' = pc /\ Active < MaxRunning
          /\ UNCHANGED <<running, prefilling, ready, todo, still, waiting>>
      BY <1>5 DEF AdmitRetracted, RetractedOpen, Admit
    <2>2. /\ retracted' \in Seq(Request) /\ Len(retracted') = Len(retracted) - 1
          /\ toPrefill' \in Seq(Request) /\ Len(toPrefill') = Len(toPrefill) + 1
      BY <1>0, <2>1, QueueEnds DEF QueueTypes
    <2> QED BY <1>0, <2>1, <2>2 DEF QueueTypes, StepLocals, AdmissionBound, Active
  <1>6. CASE EndRetracted \/ EndWaiting
    BY <1>0, <1>6 DEF EndRetracted, EndWaiting, queueVars, localVars, QueueTypes, StepLocals,
                AdmissionBound, Active
  <1>7. ASSUME NEW i \in 1 .. Len(waiting), AdmitWaiting(i) PROVE AdmissionInv'
    <2>1. /\ waiting' = Without(waiting, i)
          /\ toPrefill' = Append(toPrefill, waiting[i])
          /\ pc = "waiting" /\ pc' = pc /\ Active < MaxRunning /\ retracted = <<>>
          /\ UNCHANGED <<running, prefilling, ready, todo, still, retracted>>
      BY <1>7 DEF AdmitWaiting, WaitingOpen, Admit
    <2>2. waiting[i] \in Request /\ waiting' \in Seq(Request)
      BY <1>0, <2>1, WithoutOne DEF QueueTypes
    <2>3. toPrefill' \in Seq(Request) /\ Len(toPrefill') = Len(toPrefill) + 1
      BY <1>0, <2>1, <2>2, QueueEnds DEF QueueTypes
    <2> QED BY <1>0, <2>1, <2>2, <2>3 DEF QueueTypes, StepLocals, AdmissionBound, Active
  <1>8. CASE ResumeReady
    <2>1. /\ running' = running \o ready /\ ready' = <<>> /\ pc = "resume"
          /\ pc' = IF toPrefill = <<>> THEN "decode" ELSE "alloc"
          /\ UNCHANGED <<waiting, retracted, prefilling, toPrefill, todo, still>>
      BY <1>8 DEF ResumeReady
    <2>2. running' \in Seq(Request) /\ Len(running') = Len(running) + Len(ready)
      BY <1>0, <2>1, QueueEnds DEF QueueTypes
    <2>3. ready' \in Seq(Request) /\ Len(ready') = 0
      BY <2>1
    <2> QED BY <1>0, <2>1, <2>2, <2>3 DEF QueueTypes, StepLocals, AdmissionBound, Active
  <1>9. CASE AllocPrefill \/ AllocDecode \/ AllocDecodeFails \/ BatchedPrefill
    BY <1>0, <1>9 DEF AllocPrefill, AllocDecode, AllocDecodeFails, BatchedPrefill, queueVars,
                localVars, QueueTypes, StepLocals, AdmissionBound, Active
  \* An exception drops the locals; nothing is admitted by that.
  <1>10. CASE AllocPrefillFails \/ BatchedPrefillFails \/ ExhaustedStep \/ BatchedDecodeFails
    <2>1. Raise /\ UNCHANGED queueVars
      BY <1>10 DEF AllocPrefillFails, BatchedPrefillFails, ExhaustedStep, BatchedDecodeFails
    <2>2. /\ pc' = "idle" /\ toPrefill' = <<>> /\ ready' = <<>> /\ todo' = <<>> /\ still' = <<>>
          /\ UNCHANGED <<waiting, retracted, prefilling, running>>
      BY <2>1 DEF Raise, queueVars
    <2> QED BY <1>0, <2>2 DEF QueueTypes, StepLocals, AdmissionBound, Active
  <1>11. CASE PrefillUnfinished
    <2>1. /\ toPrefill # <<>> /\ toPrefill' = Tail(toPrefill)
          /\ prefilling' = Append(prefilling, Head(toPrefill))
          /\ pc' = IF Tail(toPrefill) = <<>> THEN "decode" ELSE "results"
          /\ pc = "results"
          /\ UNCHANGED <<waiting, retracted, running, ready, todo, still>>
      BY <1>0, <1>11 DEF PrefillUnfinished, NextResult, StepLocals
    <2>2. /\ toPrefill' \in Seq(Request) /\ Len(toPrefill') = Len(toPrefill) - 1
          /\ prefilling' \in Seq(Request) /\ Len(prefilling') = Len(prefilling) + 1
      BY <1>0, <2>1, QueueEnds DEF QueueTypes
    <2> QED BY <1>0, <2>1, <2>2 DEF QueueTypes, StepLocals, AdmissionBound, Active
  <1>12. CASE Rehydrated \/ \E t \in Token : FirstResult(t)
    <2>1. /\ toPrefill # <<>> /\ toPrefill' = Tail(toPrefill)
          /\ running' = running \/ running' = Append(running, Head(toPrefill))
          /\ pc' = IF Tail(toPrefill) = <<>> THEN "decode" ELSE "results"
          /\ pc = "results"
          /\ UNCHANGED <<waiting, retracted, prefilling, ready, todo, still>>
      BY <1>0, <1>12 DEF Rehydrated, FirstResult, NextResult, StepLocals
    <2>2. /\ toPrefill' \in Seq(Request) /\ Len(toPrefill') = Len(toPrefill) - 1
          /\ Append(running, Head(toPrefill)) \in Seq(Request)
          /\ Len(Append(running, Head(toPrefill))) = Len(running) + 1
      BY <1>0, <2>1, QueueEnds DEF QueueTypes
    <2>3. /\ running' \in Seq(Request)
          /\ Len(running') = Len(running) \/ Len(running') = Len(running) + 1
      <3>1. CASE running' = running
        BY <1>0, <3>1 DEF QueueTypes
      <3>2. CASE running' = Append(running, Head(toPrefill))
        BY <2>2, <3>2
      <3> QED BY <2>1, <3>1, <3>2
    <2> QED BY <1>0, <2>1, <2>2, <2>3 DEF QueueTypes, StepLocals, AdmissionBound, Active
  <1>13. ASSUME NEW v \in Request, RetractVictim(v) PROVE AdmissionInv'
    <2>1. PICK i \in 1 .. Len(running) : running' = Without(running, i)
      <3>1. \E i \in 1 .. Len(running) : running[i] = v
        BY <1>13 DEF RetractVictim, Victims, Elems
      <3> QED BY <1>13, <3>1 DEF RetractVictim
    <2>2. /\ retracted' = <<v>> \o retracted /\ pc = "exhausted" /\ pc' = "decode"
          /\ UNCHANGED <<waiting, prefilling, toPrefill, ready, todo, still>>
      BY <1>13 DEF RetractVictim, localVars
    <2>3. running' \in Seq(Request) /\ Len(running') = Len(running) - 1
      BY <1>0, <2>1, WithoutOne DEF QueueTypes
    <2>4. retracted' \in Seq(Request) /\ Len(retracted') = Len(retracted) + 1
      <3>1. <<v>> \in Seq(Request) /\ Len(<<v>>) = 1
        OBVIOUS
      <3> QED BY <1>0, <2>2, <3>1, QueueEnds DEF QueueTypes
    <2> QED BY <1>0, <2>2, <2>3, <2>4 DEF QueueTypes, StepLocals, AdmissionBound, Active
  <1>14. CASE BatchedDecode
    <2>1. /\ running # <<>> /\ todo' = running /\ pc = "decode" /\ pc' = "dresults"
          /\ UNCHANGED <<waiting, retracted, prefilling, running, toPrefill, ready, still>>
      BY <1>14 DEF BatchedDecode, queueVars
    <2>2. still = <<>> /\ Len(still) = 0
      BY <1>0, <2>1 DEF StepLocals
    <2> QED BY <1>0, <2>1, <2>2 DEF QueueTypes, StepLocals, AdmissionBound, Active
  <1>15. ASSUME NEW t \in Token, DecodeResult(t) PROVE AdmissionInv'
    <2> DEFINE last == CheckFinished(Append(out[Head(todo)], t))
               kept == IF last THEN still ELSE Append(still, Head(todo))
    <2>1. /\ pc = "dresults" /\ todo # <<>> /\ Len(still) + Len(todo) <= Len(running)
          /\ todo' = Tail(todo)
          /\ Tail(todo) = <<>> => running' = kept /\ still' = <<>> /\ pc' = "idle"
          /\ Tail(todo) # <<>> => running' = running /\ pc' = pc /\ still' = kept
          /\ UNCHANGED <<waiting, retracted, prefilling, toPrefill, ready>>
      BY <1>0, <1>15 DEF DecodeResult, StepLocals
    <2>2. kept \in Seq(Request) /\ Len(kept) \in Nat /\ Len(kept) <= Len(still) + 1
      <3>1. CASE last
        BY <1>0, <3>1 DEF QueueTypes
      <3>2. CASE ~last
        <4>1. kept = Append(still, Head(todo))
          BY <3>2
        <4> HIDE DEF kept
        <4> QED BY <1>0, <2>1, <4>1, QueueEnds DEF QueueTypes
      <3> QED BY <3>1, <3>2
    <2> HIDE DEF kept, last
    <2>3. todo' \in Seq(Request) /\ Len(todo') = Len(todo) - 1 /\ Len(todo) > 0
      BY <1>0, <2>1, QueueEnds DEF QueueTypes
    <2>4. CASE Tail(todo) = <<>>
      <3>1. /\ running' \in Seq(Request) /\ Len(running') <= Len(running) /\ Len(running') \in Nat
            /\ still' = <<>>
        BY <1>0, <2>1, <2>2, <2>3, <2>4
      <3> QED BY <1>0, <2>1, <2>3, <2>4, <3>1 DEF QueueTypes, StepLocals, AdmissionBound, Active
    <2>5. CASE Tail(todo) # <<>>
      <3>1. Len(still') + Len(todo') <= Len(running') /\ todo' # <<>>
        BY <1>0, <2>1, <2>2, <2>3, <2>5
      <3> QED BY <1>0, <2>1, <2>2, <2>3, <2>5, <3>1
              DEF QueueTypes, StepLocals, AdmissionBound, Active
    <2> QED BY <2>4, <2>5
  <1> QED BY <1>1, <1>2, <1>3, <1>4, <1>5, <1>6, <1>7, <1>8, <1>9, <1>10, <1>11, <1>12,
             <1>13, <1>14, <1>15 DEF Next, StepPaged

\* At most max_running requests are admitted or retracted at any moment of
\* any step, with retraction, rehydration from the cache, chunked prefill and
\* failing forwards in any order, for every pool size and every max_running.
THEOREM AdmissionBounded == Spec => []AdmissionBound
  <1>1. AdmissionInv => AdmissionBound
    BY DEF AdmissionInv
  <1> QED BY <1>1, AdmissionInit, AdmissionNext, PTL DEF Spec

-------------------------------------------------------------------------------
(* The scheduler over the engine. *)

\* No element is in q twice.
NoRepeat(q) == \A i, j \in 1 .. Len(q) : q[i] = q[j] => i = j

-------------------------------------------------------------------------------
(* Where a request is, and what that says of its paged state. *)

\* Nothing was generated and no KV attached: a request that waits.
Fresh(r) == out[r] = <<>> /\ ~rehydrate[r] /\ st[r] = NoState

\* Its pages were given back: a request to be rehydrated.
Away(r) == ~Finished(r) /\ out[r] # <<>> /\ rehydrate[r] /\ st[r] = NoState

\* Its prompt, or what it had before it was retracted, is being prefilled.
InPrefill(r) ==
    /\ Prefilling(r) /\ (rehydrate[r] => out[r] # <<>>)
    /\ st[r].prepared /\ st[r].len <= Len(PrefillIds(r))

\* A decode has run for it and its token is to be handled.
Decoded(r) == Running(r) /\ st[r].len = Len(Ids(r))

\* The stage of r's life the queues it is in stand for.
Stage(r) ==
    /\ r \notin submitted => Fresh(r)
    /\ r \in Elems(waiting) => r \in submitted /\ Fresh(r)
    /\ r \in Elems(retracted) => Away(r)
    /\ r \in Elems(prefilling) \cup Elems(toPrefill) \cup Elems(ready) => InPrefill(r)
    /\ r \in Elems(ready) => rehydrate[r] /\ PrefillComplete(r, st[r])
    /\ pc = "forward" /\ r \in Elems(toPrefill) =>
         ~PrefillComplete(r, st[r]) /\ PrefillNeeded(r, st[r], ChunkSize) = 0
    /\ pc # "dresults" /\ r \in Elems(running) => MayDecode(r)
    /\ pc = "dresults" => /\ r \in Elems(todo) => Decoded(r)
                          /\ r \in Elems(still) => MayDecode(r)

\* No request is in two places of the pipeline, or in one of them twice.
Homes ==
    /\ NoRepeat(waiting) /\ NoRepeat(retracted) /\ NoRepeat(prefilling)
    /\ NoRepeat(toPrefill) /\ NoRepeat(ready)
    /\ Elems(prefilling) \cap Elems(toPrefill) = {}
    /\ Elems(prefilling) \cap Elems(ready) = {}
    /\ Elems(toPrefill) \cap Elems(ready) = {}
    /\ pc # "dresults" => NoRepeat(running)
    /\ pc = "dresults" => NoRepeat(todo) /\ NoRepeat(still)

Stages == \A r \in Request : Stage(r)

SchedInv == KVInv /\ AdmissionInv /\ Homes /\ Stages

-------------------------------------------------------------------------------
(* Queues. *)

\* Taking the head of a queue.
LEMMA HeadAndTail ==
    ASSUME NEW S, NEW q \in Seq(S), q # <<>>
    PROVE  /\ Head(q) \in S /\ Head(q) \in Elems(q) /\ Tail(q) \in Seq(S)
           /\ Elems(q) = {Head(q)} \cup Elems(Tail(q))
           /\ NoRepeat(q) => NoRepeat(Tail(q)) /\ Head(q) \notin Elems(Tail(q))
  <1>1. /\ Len(q) \in Nat /\ Len(q) > 0 /\ Head(q) = q[1] /\ q[1] \in S
        /\ Tail(q) \in Seq(S) /\ Len(Tail(q)) = Len(q) - 1
        /\ \A i \in 1 .. Len(q) - 1 : Tail(q)[i] = q[i + 1]
    OBVIOUS
  <1> DEFINE t == Tail(q)
             n == Len(q)
  <1> HIDE DEF t
  <1>2. \A i \in 1 .. n : i = 1 \/ (i - 1 \in 1 .. Len(t) /\ t[i - 1] = q[i])
    <2> SUFFICES ASSUME NEW i \in 1 .. n, i # 1
                 PROVE  i - 1 \in 1 .. Len(t) /\ t[i - 1] = q[i]
      OBVIOUS
    <2>1. i - 1 \in 1 .. n - 1 /\ (i - 1) + 1 = i
      BY <1>1
    <2> QED BY <1>1, <2>1 DEF t
  <1>3. \A i \in 1 .. Len(t) : i + 1 \in 1 .. n /\ i + 1 # 1 /\ t[i] = q[i + 1]
    BY <1>1 DEF t
  <1>4. Elems(q) = {q[1]} \cup Elems(t)
    <2>1. Elems(q) \subseteq {q[1]} \cup Elems(t)
      BY <1>2 DEF Elems
    <2>2. q[1] \in Elems(q)
      BY <1>1 DEF Elems
    <2>3. Elems(t) \subseteq Elems(q)
      BY <1>3 DEF Elems
    <2> QED BY <2>1, <2>2, <2>3
  <1>5. ASSUME NoRepeat(q) PROVE NoRepeat(t) /\ q[1] \notin Elems(t)
    <2>1. 1 \in 1 .. n
      BY <1>1
    <2>2. q[1] \notin Elems(t)
      BY <1>3, <1>5, <2>1 DEF NoRepeat, Elems
    <2>3. ASSUME NEW i \in 1 .. Len(t), NEW j \in 1 .. Len(t), t[i] = t[j]
          PROVE  i = j
      <3>1. i + 1 = j + 1
        BY <1>3, <1>5, <2>3 DEF NoRepeat
      <3> QED BY <3>1
    <2> QED BY <2>2, <2>3 DEF NoRepeat
  <1> QED BY <1>1, <1>4, <1>5 DEF t

\* Putting one queue behind another.
LEMMA Joined ==
    ASSUME NEW S, NEW a \in Seq(S), NEW b \in Seq(S)
    PROVE  /\ Elems(a \o b) = Elems(a) \cup Elems(b)
           /\ NoRepeat(a) /\ NoRepeat(b) /\ Elems(a) \cap Elems(b) = {} => NoRepeat(a \o b)
  <1> DEFINE c == a \o b
             m == Len(a)
             n == Len(b)
  <1>1. /\ m \in Nat /\ n \in Nat /\ Len(c) = m + n
        /\ \A i \in 1 .. m : c[i] = a[i]
        /\ \A i \in m + 1 .. m + n : c[i] = b[i - m]
    OBVIOUS
  <1> HIDE DEF c
  <1>2. \A i \in 1 .. Len(c) : \/ i \in 1 .. m /\ c[i] = a[i] /\ c[i] \in Elems(a)
                               \/ i - m \in 1 .. n /\ c[i] = b[i - m] /\ c[i] \in Elems(b)
    <2> SUFFICES ASSUME NEW i \in 1 .. Len(c)
                 PROVE  \/ i \in 1 .. m /\ c[i] = a[i] /\ c[i] \in Elems(a)
                        \/ i - m \in 1 .. n /\ c[i] = b[i - m] /\ c[i] \in Elems(b)
      OBVIOUS
    <2>1. i \in 1 .. m \/ (i \in m + 1 .. m + n /\ i - m \in 1 .. n)
      BY <1>1
    <2> QED BY <1>1, <2>1 DEF Elems
  <1>3. \A i \in 1 .. m : i \in 1 .. Len(c) /\ c[i] = a[i]
    BY <1>1
  <1>4. \A i \in 1 .. n : m + i \in 1 .. Len(c) /\ c[m + i] = b[i]
    <2> SUFFICES ASSUME NEW i \in 1 .. n PROVE m + i \in 1 .. Len(c) /\ c[m + i] = b[i]
      OBVIOUS
    <2>1. m + i \in m + 1 .. m + n /\ (m + i) - m = i
      BY <1>1
    <2> QED BY <1>1, <2>1
  <1>5. Elems(c) = Elems(a) \cup Elems(b)
    <2>1. Elems(c) \subseteq Elems(a) \cup Elems(b)
      BY <1>2 DEF Elems
    <2>2. Elems(a) \subseteq Elems(c)
      BY <1>3 DEF Elems
    <2>3. Elems(b) \subseteq Elems(c)
      BY <1>4 DEF Elems
    <2> QED BY <2>1, <2>2, <2>3
  <1>6. ASSUME NoRepeat(a), NoRepeat(b), Elems(a) \cap Elems(b) = {}
        PROVE  NoRepeat(c)
    <2> SUFFICES ASSUME NEW i \in 1 .. Len(c), NEW j \in 1 .. Len(c), c[i] = c[j]
                 PROVE  i = j
      BY DEF NoRepeat
    <2>1. CASE c[i] \in Elems(a)
      <3>1. i \in 1 .. m /\ c[i] = a[i] /\ j \in 1 .. m /\ c[j] = a[j]
        BY <1>2, <1>6, <2>1
      <3> QED BY <1>6, <3>1 DEF NoRepeat
    <2>2. CASE c[i] \notin Elems(a)
      <3>1. i - m \in 1 .. n /\ c[i] = b[i - m] /\ j - m \in 1 .. n /\ c[j] = b[j - m]
        BY <1>2, <2>2
      <3>2. i - m = j - m
        BY <1>6, <3>1 DEF NoRepeat
      <3> QED BY <1>1, <3>2
    <2> QED BY <2>1, <2>2
  <1> QED BY <1>5, <1>6 DEF c

\* A queue of one request.
LEMMA Single ==
    ASSUME NEW S, NEW x \in S
    PROVE  <<x>> \in Seq(S) /\ Elems(<<x>>) = {x} /\ NoRepeat(<<x>>)
  <1>1. <<x>> \in Seq(S) /\ Len(<<x>>) = 1 /\ <<x>>[1] = x
    OBVIOUS
  <1> DEFINE u == <<x>>
  <1> HIDE DEF u
  <1>2. \A i \in 1 .. Len(u) : i = 1
    BY <1>1 DEF u
  <1>3. Elems(u) = {x} /\ NoRepeat(u)
    BY <1>1, <1>2 DEF u, Elems, NoRepeat
  <1> QED BY <1>1, <1>3 DEF u

\* Joining a queue at its end.
LEMMA Appended ==
    ASSUME NEW S, NEW q \in Seq(S), NEW x \in S
    PROVE  /\ Elems(Append(q, x)) = Elems(q) \cup {x}
           /\ NoRepeat(q) /\ x \notin Elems(q) => NoRepeat(Append(q, x))
  <1> DEFINE u == <<x>>
  <1>1. Append(q, x) = q \o u
    OBVIOUS
  <1>2. u \in Seq(S) /\ Elems(u) = {x} /\ NoRepeat(u)
    BY Single
  <1> HIDE DEF u
  <1>3. /\ Elems(q \o u) = Elems(q) \cup Elems(u)
        /\ NoRepeat(q) /\ NoRepeat(u) /\ Elems(q) \cap Elems(u) = {} => NoRepeat(q \o u)
    BY <1>2, Joined
  <1> QED BY <1>1, <1>2, <1>3

\* Leaving a queue from the middle.
LEMMA Removed ==
    ASSUME NEW S, NEW q \in Seq(S), NEW k \in 1 .. Len(q), NoRepeat(q)
    PROVE  Elems(Without(q, k)) = Elems(q) \ {q[k]} /\ NoRepeat(Without(q, k))
  <1> DEFINE n == Len(q)
             a == SubSeq(q, 1, k - 1)
             b == SubSeq(q, k + 1, n)
  <1>1. n \in Nat /\ k \in 1 .. n /\ k \in Nat
    OBVIOUS
  <1>2. /\ a \in Seq(S) /\ Len(a) = k - 1 /\ \A i \in 1 .. k - 1 : a[i] = q[i]
        /\ b \in Seq(S) /\ Len(b) = n - k /\ \A i \in 1 .. n - k : b[i] = q[k + i]
    <2> HIDE DEF n
    <2>1. n = Len(q)
      BY DEF n
    <2> QED BY <1>1, <2>1
  <1> HIDE DEF n, a, b
  <1>3. NoRepeat(a) /\ NoRepeat(b) /\ Elems(a) \cap Elems(b) = {}
    <2>1. \A i \in 1 .. Len(a) : i \in 1 .. n /\ i < k /\ a[i] = q[i]
      BY <1>1, <1>2
    <2>2. \A i \in 1 .. Len(b) : k + i \in 1 .. n /\ k + i > k /\ b[i] = q[k + i]
      BY <1>1, <1>2
    <2>3. \A i, j \in 1 .. n : q[i] = q[j] => i = j
      BY DEF NoRepeat, n
    <2>4. NoRepeat(a)
      BY <2>1, <2>3 DEF NoRepeat
    <2>5. NoRepeat(b)
      <3> SUFFICES ASSUME NEW i \in 1 .. Len(b), NEW j \in 1 .. Len(b), b[i] = b[j]
                   PROVE  i = j
        BY DEF NoRepeat
      <3>1. k + i = k + j
        BY <2>2, <2>3
      <3> QED BY <1>1, <1>2, <3>1
    <2>6. ASSUME NEW i \in 1 .. Len(a), NEW j \in 1 .. Len(b), a[i] = b[j]
          PROVE  FALSE
      <3>1. i = k + j
        BY <2>1, <2>2, <2>3, <2>6
      <3> QED BY <1>1, <2>1, <2>2, <3>1
    <2> QED BY <2>4, <2>5, <2>6 DEF Elems
  <1>4. Elems(a) \cup Elems(b) = Elems(q) \ {q[k]}
    <2>1. \A i \in 1 .. n : q[i] = q[k] => i = k
      BY <1>1 DEF NoRepeat, n
    <2>2. \A i \in 1 .. k - 1 : i \in 1 .. n /\ i # k /\ a[i] = q[i]
      BY <1>1, <1>2
    <2>3. \A i \in 1 .. n - k : k + i \in 1 .. n /\ k + i # k /\ b[i] = q[k + i]
      BY <1>1, <1>2
    <2>4. ASSUME NEW i \in 1 .. n, i # k
          PROVE  q[i] \in Elems(a) \cup Elems(b)
      <3>1. CASE i < k
        <4>1. i \in 1 .. k - 1
          BY <1>1, <3>1
        <4> QED BY <1>2, <4>1 DEF Elems
      <3>2. CASE i > k
        <4>1. i - k \in 1 .. n - k /\ k + (i - k) = i
          BY <1>1, <3>2
        <4>2. b[i - k] = q[i]
          BY <1>2, <4>1
        <4> QED BY <1>2, <4>1, <4>2 DEF Elems
      <3> QED BY <1>1, <2>4, <3>1, <3>2
    <2>5. Elems(q) = {q[i] : i \in 1 .. n}
      BY DEF Elems, n
    <2>6. Elems(a) = {a[i] : i \in 1 .. k - 1} /\ Elems(b) = {b[i] : i \in 1 .. n - k}
      BY <1>2 DEF Elems
    <2>7. Elems(a) \cup Elems(b) \subseteq Elems(q) \ {q[k]}
      BY <2>1, <2>2, <2>3, <2>5, <2>6
    <2>8. Elems(q) \ {q[k]} \subseteq Elems(a) \cup Elems(b)
      BY <2>4, <2>5
    <2> QED BY <2>7, <2>8
  <1>5. Without(q, k) = a \o b
    BY DEF Without, a, b, n
  <1> QED BY <1>2, <1>3, <1>4, <1>5, Joined

-------------------------------------------------------------------------------
(* Stages. *)

\* What the invariant gives of the queues.
LEMMA QueueFacts ==
    ASSUME SchedInv
    PROVE  /\ KVInv /\ KVTypeOK /\ StatesFit /\ AdmissionInv /\ QueueTypes /\ StepLocals
           /\ Homes /\ \A r \in Request : Stage(r)
           /\ waiting \in Seq(Request) /\ retracted \in Seq(Request)
           /\ prefilling \in Seq(Request) /\ running \in Seq(Request)
           /\ toPrefill \in Seq(Request) /\ ready \in Seq(Request)
           /\ todo \in Seq(Request) /\ still \in Seq(Request)
  BY DEF SchedInv, KVInv, AdmissionInv, QueueTypes, Stages

\* A request is at one stage at a time.
LEMMA OneStage ==
    ASSUME KVTypeOK, NEW r \in Request
    PROVE  /\ Fresh(r) => ~Away(r) /\ ~InPrefill(r) /\ ~MayDecode(r) /\ ~Decoded(r)
           /\ Away(r) => ~InPrefill(r) /\ ~MayDecode(r) /\ ~Decoded(r)
           /\ InPrefill(r) => ~MayDecode(r) /\ ~Decoded(r)
           /\ MayDecode(r) => ~Decoded(r)
  <1>1. NoState.prepared = FALSE
    BY DEF NoState
  <1>2. st[r].len \in Nat
    BY DEF KVTypeOK, StateType
  <1>3. st[r].len + 1 # st[r].len
    BY <1>2
  <1> QED BY <1>1, <1>3 DEF Fresh, Away, InPrefill, MayDecode, Decoded, Running, Prefilling

\* What the stages of a request are about does not change with other requests.
LEMMA SameStage ==
    ASSUME NEW r \in Request,
           out'[r] = out[r], rehydrate'[r] = rehydrate[r], st'[r] = st[r]
    PROVE  /\ Fresh(r)' = Fresh(r) /\ Away(r)' = Away(r) /\ InPrefill(r)' = InPrefill(r)
           /\ MayDecode(r)' = MayDecode(r) /\ Decoded(r)' = Decoded(r)
           /\ PrefillComplete(r, st[r])' = PrefillComplete(r, st[r])
           /\ PrefillNeeded(r, st[r], ChunkSize)' = PrefillNeeded(r, st[r], ChunkSize)
  <1>1. /\ Finished(r)' = Finished(r) /\ Prefilling(r)' = Prefilling(r)
        /\ Running(r)' = Running(r) /\ Ids(r)' = Ids(r)
    BY DEF Finished, Prefilling, Running, Ids
  <1>2. PrefillIds(r)' = PrefillIds(r)
    BY <1>1 DEF PrefillIds
  <1>3. /\ PrefillComplete(r, st[r])' = PrefillComplete(r, st[r])
        /\ PrefillNeeded(r, st[r], ChunkSize)' = PrefillNeeded(r, st[r], ChunkSize)
    BY <1>2 DEF PrefillComplete, PrefillNeeded, ChunkEnd
  <1> QED BY <1>1, <1>2, <1>3 DEF Fresh, Away, InPrefill, MayDecode, Decoded

\* A request a step does not touch stays where it was, or leaves.
LEMMA OthersStay ==
    ASSUME NEW r \in Request, Stage(r),
           out'[r] = out[r], rehydrate'[r] = rehydrate[r], st'[r] = st[r],
           r \in submitted => r \in submitted',
           r \notin submitted' => r \notin submitted,
           r \in Elems(waiting') => r \in Elems(waiting),
           r \in Elems(retracted') => r \in Elems(retracted),
           r \in Elems(prefilling') \cup Elems(toPrefill') \cup Elems(ready')
               => r \in Elems(prefilling) \cup Elems(toPrefill) \cup Elems(ready),
           r \in Elems(ready') => r \in Elems(ready),
           pc' = "forward" /\ r \in Elems(toPrefill') => pc = "forward" /\ r \in Elems(toPrefill),
           pc' # "dresults" /\ r \in Elems(running') =>
               \/ pc # "dresults" /\ r \in Elems(running)
               \/ pc = "dresults" /\ r \in Elems(still),
           pc' = "dresults" =>
               /\ pc = "dresults"
               /\ r \in Elems(todo') => r \in Elems(todo)
               /\ r \in Elems(still') => r \in Elems(still)
    PROVE  Stage(r)'
  BY SameStage DEF Stage

\* Where a request is not, by what it is doing.
LEMMA Elsewhere ==
    ASSUME SchedInv, NEW r \in Request, InPrefill(r) \/ MayDecode(r) \/ Decoded(r)
    PROVE  /\ r \in submitted /\ r \notin Elems(waiting) /\ r \notin Elems(retracted)
           /\ InPrefill(r) /\ pc # "dresults" => r \notin Elems(running)
           /\ InPrefill(r) /\ pc = "dresults" => r \notin Elems(todo) \cup Elems(still)
           /\ MayDecode(r) \/ Decoded(r) =>
                r \notin Elems(prefilling) \cup Elems(toPrefill) \cup Elems(ready)
           /\ MayDecode(r) /\ pc = "dresults" => r \notin Elems(todo)
           /\ Decoded(r) /\ pc = "dresults" => r \notin Elems(still)
  <1>1. KVTypeOK /\ Stage(r)
    BY DEF SchedInv, KVInv, Stages
  <1> QED BY <1>1, OneStage DEF Stage

\* A request a step moves to another stage.
LEMMA NewStage ==
    ASSUME NEW r \in Request,
           r \in submitted', r \notin Elems(waiting'),
           r \in Elems(retracted') => Away(r)',
           r \in Elems(prefilling') \cup Elems(toPrefill') \cup Elems(ready') => InPrefill(r)',
           r \in Elems(ready') => rehydrate'[r] /\ PrefillComplete(r, st[r])',
           ~(pc' = "forward" /\ r \in Elems(toPrefill')),
           pc' # "dresults" /\ r \in Elems(running') => MayDecode(r)',
           pc' = "dresults" =>
               /\ r \in Elems(todo') => Decoded(r)'
               /\ r \in Elems(still') => MayDecode(r)'
    PROVE  Stage(r)'
  BY DEF Stage

\* A prepared state holds no more than there is to prefill.
LEMMA PreparedLength ==
    ASSUME KVInv, NEW r \in Request, Prefilling(r), NEW s \in PreparedStates(r),
           st[r].prepared => st[r].len <= Len(PrefillIds(r))
    PROVE  s.prepared /\ s.len <= Len(PrefillIds(r))
  <1>0. KVTypeOK /\ StatesFit
    BY DEF KVInv
  <1>1. CASE st[r].prepared
    BY <1>1 DEF PreparedStates
  <1>2. CASE ~st[r].prepared
    <2> DEFINE p == MatchPath(r)
               ids == PrefillIds(r)
    <2>1. PICK k \in 0 .. Len(p) : s.len = k * PageSize /\ s.prepared = TRUE
      BY <1>2 DEF PreparedStates
    <2>2. ids \in Seq(Token)
      BY <1>0, MatchPathType
    <2>3. CASE CacheOn
      <3>1. \E m \in Nat : m <= Len(ids) /\ Len(p) = FullPages(m)
        <4> HIDE DEF ids
        <4>1. ButLast(ids) \in Seq(Token) /\ Len(ButLast(ids)) <= Len(ids)
          BY <2>2 DEF ButLast
        <4>2. p = PathOf(ids) \/ p = PathOf(ButLast(ids))
          BY <2>3 DEF MatchPath, ids
        <4> HIDE DEF p
        <4>3. CASE p = PathOf(ids)
          <5>1. Len(p) = FullPages(Len(ids)) /\ Len(ids) \in Nat
            BY <2>2, <4>3, PathBlocks
          <5> QED BY <5>1
        <4>4. CASE p = PathOf(ButLast(ids))
          <5> DEFINE b == ButLast(ids)
          <5>1. b \in Seq(Token) /\ Len(b) <= Len(ids) /\ p = PathOf(b)
            BY <4>1, <4>4
          <5> HIDE DEF b
          <5>2. Len(p) = FullPages(Len(b)) /\ Len(b) \in Nat
            BY <5>1, PathBlocks
          <5> QED BY <5>1, <5>2
        <4> QED BY <4>2, <4>3, <4>4
      <3> HIDE DEF p, ids
      <3>2. PICK m \in Nat : m <= Len(ids) /\ Len(p) = FullPages(m)
        BY <3>1
      <3>3. k \in Nat /\ k <= FullPages(m)
        BY <3>2, PageCounts
      <3>4. k * PageSize <= m
        BY <3>3, FullPagesIff
      <3>5. k * PageSize \in Nat /\ Len(ids) \in Nat
        BY <2>2, <3>3, PageSizeAssumption
      <3> QED BY <2>1, <3>2, <3>4, <3>5 DEF ids
    <2>4. CASE ~CacheOn
      <3>1. p = <<>>
        BY <2>4 DEF MatchPath
      <3>2. k = 0
        BY <3>1
      <3>3. 0 * PageSize = 0 /\ Len(ids) \in Nat
        BY <2>2, PageSizeAssumption
      <3> QED BY <2>1, <3>2, <3>3
    <2> QED BY <2>3, <2>4
  <1> QED BY <1>1, <1>2

\* How many tokens there are to prefill: all, of a fresh request; all but
\* the last, of one to be rehydrated.
LEMMA PrefillLength ==
    ASSUME KVTypeOK, NEW r \in Request, Prefilling(r), rehydrate[r] => out[r] # <<>>
    PROVE  /\ Len(Ids(r)) \in Nat /\ Len(PrefillIds(r)) \in Nat
           /\ rehydrate[r] => Len(PrefillIds(r)) + 1 = Len(Ids(r)) /\ out[r] # <<>>
           /\ ~rehydrate[r] => out[r] = <<>> /\ PrefillIds(r) = Ids(r)
  <1> DEFINE a == Prompt[r]
             b == out[r]
             c == a \o b
  <1>1. a \in Seq(Token) /\ a # <<>> /\ b \in Seq(Token) /\ c = Ids(r)
    BY PromptAssumption DEF KVTypeOK, Ids
  <1>2. c \in Seq(Token) /\ c # <<>> /\ (b = <<>> => c = a)
    <2> HIDE DEF a, b
    <2>1. c \in Seq(Token) /\ Len(c) = Len(a) + Len(b)
      BY <1>1, ConcatPrefix
    <2>2. Len(a) \in Nat \ {0} /\ Len(b) \in Nat
      BY <1>1
    <2>3. b = <<>> => c = a
      BY <1>1
    <2>4. Len(c) # 0
      BY <2>1, <2>2
    <2> HIDE DEF c
    <2>5. c # <<>>
      BY <2>4
    <2> QED BY <2>1, <2>3, <2>5
  <1>3. CASE rehydrate[r]
    <2>1. PrefillIds(r) = ButLast(c)
      BY <1>1, <1>3 DEF PrefillIds
    <2>2. Len(ButLast(c)) + 1 = Len(c) /\ Len(c) \in Nat /\ Len(ButLast(c)) \in Nat
      <3> HIDE DEF c
      <3>1. Len(c) \in Nat \ {0}
        BY <1>2
      <3> DEFINE n == Len(c) - 1
      <3>2. n \in 0 .. Len(c)
        BY <3>1
      <3>3. Len(SubSeq(c, 1, n)) = n
        <4> HIDE DEF n
        <4> QED BY <1>2, <3>2, PrefixLengths DEF Upto
      <3> QED BY <3>1, <3>3 DEF ButLast
    <2> HIDE DEF a, b, c
    <2> QED BY <1>1, <1>3, <2>1, <2>2
  <1>4. CASE ~rehydrate[r]
    <2>1. b = <<>> /\ PrefillIds(r) = a
      BY <1>4 DEF Prefilling, PrefillIds
    <2>2. Len(c) \in Nat
      <3> HIDE DEF c
      <3> QED BY <1>2
    <2> HIDE DEF c
    <2> QED BY <1>1, <1>2, <1>4, <2>1, <2>2
  <1> QED BY <1>3, <1>4

-------------------------------------------------------------------------------
(* The steps: each is an operation of PagedKV or leaves its state alone. *)

\* What a step has to do.
StepKeeps == [KVNext]_kvVars /\ Homes' /\ Stages'

\* A step that leaves the page bookkeeping alone is a stutter of PagedKV.
LEMMA KVStutter == UNCHANGED kvVars => [KVNext]_kvVars
  OBVIOUS

\* A new request joins the tail of the waiting queue with nothing held.
LEMMA AddRequestKeeps ==
    ASSUME SchedInv, NEW r \in Request, AddRequest(r)
    PROVE  StepKeeps
  <1>1. /\ UNCHANGED <<kvVars, pc, retracted, prefilling, running, localVars>>
        /\ r \notin submitted /\ submitted' = submitted \cup {r}
        /\ waiting' = Append(waiting, r)
    BY DEF AddRequest
  <1>2. Fresh(r) /\ r \notin Elems(waiting)
    BY QueueFacts, <1>1 DEF Stage
  <1>3. NoRepeat(waiting') /\ Elems(waiting') = Elems(waiting) \cup {r}
    BY <1>1, <1>2, QueueFacts, Appended DEF Homes
  <1>4. Homes'
    BY <1>1, <1>3, QueueFacts DEF Homes, localVars
  <1>5. ASSUME NEW q \in Request PROVE Stage(q)'
    <2>1. out'[q] = out[q] /\ rehydrate'[q] = rehydrate[q] /\ st'[q] = st[q]
      BY <1>1 DEF kvVars
    <2>2. CASE q # r
      BY <1>1, <1>3, <2>1, <2>2, QueueFacts, OthersStay DEF localVars
    <2>3. CASE q = r
      BY <1>1, <1>2, <1>3, <2>1, <2>3, QueueFacts, SameStage DEF localVars, Stage
    <2> QED BY <2>2, <2>3
  <1> QED BY <1>1, <1>4, <1>5, KVStutter DEF StepKeeps, Stages

\* The phases that only move on.
LEMMA PhasesKeep ==
    ASSUME SchedInv, BeginStep \/ EndPrefilling \/ EndAlloc \/ EndStep \/ Quiet \/ UNCHANGED vars
    PROVE  StepKeeps
  <1>1. /\ UNCHANGED <<kvVars, submitted, waiting, retracted, prefilling, running>>
        /\ UNCHANGED <<toPrefill, ready, todo, still>>
        /\ pc' = "dresults" <=> pc = "dresults"
        /\ pc' # "forward" \/ pc' = pc \/ EndAlloc
    BY DEF BeginStep, EndPrefilling, EndAlloc, EndStep, Quiet, vars, queueVars, localVars
  <1>2. Homes'
    BY <1>1, QueueFacts DEF Homes
  <1>3. ASSUME NEW q \in Request PROVE Stage(q)'
    <2>1. out'[q] = out[q] /\ rehydrate'[q] = rehydrate[q] /\ st'[q] = st[q]
      BY <1>1 DEF kvVars
    <2>2. CASE pc' # "forward" \/ pc' = pc
      BY <1>1, <2>1, <2>2, QueueFacts, OthersStay
    <2>3. CASE EndAlloc
      <3>1. q \in Elems(toPrefill) =>
              ~PrefillComplete(q, st[q]) /\ PrefillNeeded(q, st[q], ChunkSize) = 0
        BY <2>3 DEF EndAlloc, NoneShort, PrefillMissing
      <3> QED BY <1>1, <2>1, <3>1, QueueFacts, SameStage DEF Stage
    <2> QED BY <1>1, <2>2, <2>3
  <1> QED BY <1>1, <1>2, <1>3, KVStutter DEF StepKeeps, Stages

\* An exception takes requests out of the batch and changes nothing else.
LEMMA RaiseKeeps ==
    ASSUME SchedInv, Raise, pc # "dresults", UNCHANGED queueVars, [KVNext]_kvVars,
           \A q \in Request : /\ out'[q] = out[q] /\ rehydrate'[q] = rehydrate[q]
                              /\ st'[q] = st[q]
    PROVE  StepKeeps
  <1>1. /\ UNCHANGED <<submitted, waiting, retracted, prefilling, running>>
        /\ toPrefill' = <<>> /\ ready' = <<>> /\ pc' = "idle"
    BY DEF queueVars, Raise
  <1>2. Elems(<<>>) = {} /\ NoRepeat(<<>>)
    BY DEF Elems, NoRepeat
  <1>3. Homes'
    BY <1>1, <1>2, QueueFacts DEF Homes
  <1>4. ASSUME NEW q \in Request PROVE Stage(q)'
    BY <1>1, <1>2, QueueFacts, OthersStay
  <1> QED BY <1>3, <1>4 DEF StepKeeps, Stages

\* A step that ends on an exception leaves every queue and stage as it was.
LEMMA FailuresKeep ==
    ASSUME SchedInv, BatchedPrefillFails \/ BatchedDecodeFails \/ ExhaustedStep
    PROVE  StepKeeps
  <1>1. Raise /\ pc # "dresults" /\ UNCHANGED <<kvVars, queueVars>>
    BY DEF BatchedPrefillFails, BatchedDecodeFails, ExhaustedStep
  <1>2. /\ [KVNext]_kvVars /\ UNCHANGED queueVars
        /\ \A q \in Request : /\ out'[q] = out[q] /\ rehydrate'[q] = rehydrate[q]
                              /\ st'[q] = st[q]
    BY <1>1, KVStutter DEF kvVars
  <1> QED BY <1>1, <1>2, RaiseKeeps

-------------------------------------------------------------------------------
(* The admission loops. *)

\* The head of prefilling joins the batch again, as it is.
LEMMA ContinuePrefillingKeeps ==
    ASSUME SchedInv, ContinuePrefilling
    PROVE  StepKeeps
  <1> DEFINE r == Head(prefilling)
  <1>1. /\ prefilling # <<>> /\ prefilling' = Tail(prefilling)
        /\ toPrefill' = Append(toPrefill, r) /\ pc = "prefilling"
        /\ st' = [st EXCEPT ![r] = st[r]]
        /\ UNCHANGED <<out, rehydrate, cached, free, kv, pc, submitted, running, ready,
                       todo, still, waiting, retracted>>
    BY DEF ContinuePrefilling, Admit
  <1>2. /\ r \in Request /\ r \in Elems(prefilling) /\ r \notin Elems(prefilling')
        /\ Elems(prefilling) = {r} \cup Elems(prefilling') /\ NoRepeat(prefilling')
    BY <1>1, QueueFacts, HeadAndTail DEF Homes
  <1> HIDE DEF r
  <1>3. st' = st
    BY <1>1, <1>2, QueueFacts DEF KVTypeOK
  <1>4. r \notin Elems(toPrefill)
    BY <1>2, QueueFacts DEF Homes
  <1>5. NoRepeat(toPrefill') /\ Elems(toPrefill') = Elems(toPrefill) \cup {r}
    BY <1>1, <1>2, <1>4, QueueFacts, Appended DEF Homes
  <1>6. Homes'
    BY <1>1, <1>2, <1>5, QueueFacts DEF Homes
  <1>7. ASSUME NEW q \in Request PROVE Stage(q)'
    BY <1>1, <1>2, <1>3, <1>5, QueueFacts, OthersStay
  <1> QED BY <1>1, <1>3, <1>6, <1>7, KVStutter DEF StepKeeps, Stages, kvVars

\* Preparing a request that is neither prefilled nor running is PagedKV's
\* Prepare.
LEMMA AdmittedStage ==
    ASSUME SchedInv, NEW r \in Request, Fresh(r) \/ Away(r), NEW s \in PreparedStates(r),
           st' = [st EXCEPT ![r] = s], UNCHANGED <<out, rehydrate, cached, free, kv>>
    PROVE  /\ Prepare(r) /\ InPrefill(r)' /\ st'[r] = s
           /\ rehydrate[r] => rehydrate'[r]
           /\ PrefillComplete(r, s) => PrefillComplete(r, st[r])'
           /\ \A q \in Request \ {r} : /\ out'[q] = out[q] /\ rehydrate'[q] = rehydrate[q]
                                       /\ st'[q] = st[q]
  <1>1. Prefilling(r) /\ (rehydrate[r] => out[r] # <<>>) /\ ~st[r].prepared
    BY DEF Fresh, Away, Prefilling, NoState, Finished
  <1>2. Prepare(r)
    BY <1>1 DEF Prepare, PreparePagedPrefill
  <1>3. s.prepared /\ s.len <= Len(PrefillIds(r))
    BY <1>1, QueueFacts, PreparedLength
  <1>4. st'[r] = s /\ \A q \in Request \ {r} : st'[q] = st[q]
    BY QueueFacts DEF KVTypeOK
  <1>5. PrefillIds(r)' = PrefillIds(r) /\ Prefilling(r)'
    BY <1>1 DEF PrefillIds, Ids, Prefilling, Finished
  <1>6. InPrefill(r)'
    BY <1>1, <1>3, <1>4, <1>5 DEF InPrefill
  <1>7. PrefillComplete(r, s) => PrefillComplete(r, st[r])'
    BY <1>4, <1>5 DEF PrefillComplete
  <1> QED BY <1>2, <1>4, <1>6, <1>7

\* Preparing a request is a step of PagedKV.
LEMMA KVPrepares ==
    ASSUME NEW r \in Request, Prepare(r)
    PROVE  [KVNext]_kvVars
  BY DEF KVNext

\* A request leaves the front of the retracted queue, for the batch or for
\* rehydrated_ready.
LEMMA RetractedHead ==
    ASSUME SchedInv, retracted # <<>>, NEW r, r = Head(retracted), retracted' = Tail(retracted)
    PROVE  /\ r \in Request /\ Away(r)
           /\ r \notin Elems(retracted') /\ NoRepeat(retracted')
           /\ Elems(retracted) = {r} \cup Elems(retracted')
           /\ r \notin Elems(prefilling) \cup Elems(toPrefill) \cup Elems(ready)
           /\ r \in submitted /\ r \notin Elems(waiting)
           /\ pc # "dresults" => r \notin Elems(running)
  <1>1. /\ r \in Request /\ r \in Elems(retracted) /\ r \notin Elems(retracted')
        /\ Elems(retracted) = {r} \cup Elems(retracted') /\ NoRepeat(retracted')
    BY QueueFacts, HeadAndTail DEF Homes
  <1>2. Away(r)
    BY <1>1, QueueFacts DEF Stage
  <1> QED BY <1>1, <1>2, QueueFacts, OneStage DEF Stage

\* Admitting the head of the retracted queue keeps homes and stages.
LEMMA AdmitRetractedKeeps ==
    ASSUME SchedInv, AdmitRetracted
    PROVE  StepKeeps
  <1>0. PICK r : r = Head(retracted)
    OBVIOUS
  <1>1. PICK s \in PreparedStates(r) : Admit(r, s)
    BY <1>0 DEF AdmitRetracted
  <1>2. /\ retracted # <<>> /\ pc = "retracted" /\ retracted' = Tail(retracted)
        /\ toPrefill' = Append(toPrefill, r) /\ st' = [st EXCEPT ![r] = s]
        /\ UNCHANGED <<out, rehydrate, cached, free, kv, pc, submitted, running, ready,
                       todo, still, waiting, prefilling>>
    BY <1>0, <1>1 DEF AdmitRetracted, RetractedOpen, Admit
  <1>3. /\ r \in Request /\ Away(r) /\ r \in submitted
        /\ r \notin Elems(retracted') /\ NoRepeat(retracted')
        /\ Elems(retracted) = {r} \cup Elems(retracted')
        /\ r \notin Elems(prefilling) \cup Elems(toPrefill) \cup Elems(ready)
        /\ r \notin Elems(waiting) /\ r \notin Elems(running)
    BY <1>0, <1>2, RetractedHead
  <1>4. NoRepeat(toPrefill') /\ Elems(toPrefill') = Elems(toPrefill) \cup {r}
    BY <1>2, <1>3, QueueFacts, Appended DEF Homes
  <1>5. Homes'
    BY <1>2, <1>3, <1>4, QueueFacts DEF Homes
  <1>6. /\ Prepare(r) /\ InPrefill(r)'
        /\ \A q \in Request \ {r} : /\ out'[q] = out[q] /\ rehydrate'[q] = rehydrate[q]
                                    /\ st'[q] = st[q]
    BY <1>1, <1>2, <1>3, AdmittedStage
  <1>7. ASSUME NEW q \in Request PROVE Stage(q)'
    <2>1. CASE q # r
      BY <1>2, <1>3, <1>4, <1>6, <2>1, QueueFacts, OthersStay
    <2>2. CASE q = r
      BY <1>2, <1>3, <1>4, <1>6, <2>2, NewStage
    <2> QED BY <2>1, <2>2
  <1> QED BY <1>3, <1>5, <1>6, <1>7, KVPrepares DEF StepKeeps, Stages

\* A retracted head whose whole history is cached goes to the ready list.
LEMMA RehydrateFromCacheKeeps ==
    ASSUME SchedInv, RehydrateFromCache
    PROVE  StepKeeps
  <1>0. PICK r : r = Head(retracted)
    OBVIOUS
  <1>1. PICK s \in PreparedStates(r) :
          PrefillComplete(r, s) /\ st' = [st EXCEPT ![r] = s] /\ ready' = Append(ready, r)
    BY <1>0 DEF RehydrateFromCache
  <1>2. /\ retracted # <<>> /\ pc = "retracted" /\ retracted' = Tail(retracted)
        /\ UNCHANGED <<out, rehydrate, cached, free, kv, pc, submitted, running, toPrefill,
                       todo, still, waiting, prefilling>>
    BY DEF RehydrateFromCache, RetractedOpen
  <1>3. /\ r \in Request /\ Away(r) /\ r \in submitted
        /\ r \notin Elems(retracted') /\ NoRepeat(retracted')
        /\ Elems(retracted) = {r} \cup Elems(retracted')
        /\ r \notin Elems(prefilling) \cup Elems(toPrefill) \cup Elems(ready)
        /\ r \notin Elems(waiting) /\ r \notin Elems(running)
    BY <1>0, <1>2, RetractedHead
  <1>4. NoRepeat(ready') /\ Elems(ready') = Elems(ready) \cup {r}
    BY <1>1, <1>3, QueueFacts, Appended DEF Homes
  <1>5. Homes'
    BY <1>2, <1>3, <1>4, QueueFacts DEF Homes
  <1>6. /\ Prepare(r) /\ InPrefill(r)' /\ rehydrate'[r] /\ PrefillComplete(r, st[r])'
        /\ \A q \in Request \ {r} : /\ out'[q] = out[q] /\ rehydrate'[q] = rehydrate[q]
                                    /\ st'[q] = st[q]
    BY <1>1, <1>2, <1>3, AdmittedStage DEF Away
  <1>7. ASSUME NEW q \in Request PROVE Stage(q)'
    <2>1. CASE q # r
      BY <1>2, <1>3, <1>4, <1>6, <2>1, QueueFacts, OthersStay
    <2>2. CASE q = r
      BY <1>2, <1>3, <1>4, <1>6, <2>2, NewStage
    <2> QED BY <2>1, <2>2
  <1> QED BY <1>3, <1>5, <1>6, <1>7, KVPrepares DEF StepKeeps, Stages

\* Admitting the head of the waiting queue keeps homes and stages.
LEMMA AdmitWaitingKeeps ==
    ASSUME SchedInv, NEW i \in 1 .. Len(waiting), AdmitWaiting(i)
    PROVE  StepKeeps
  <1>0. PICK r : r = waiting[i]
    OBVIOUS
  <1>1. PICK s \in PreparedStates(r) : Admit(r, s)
    BY <1>0 DEF AdmitWaiting
  <1>2. /\ pc = "waiting" /\ waiting' = Without(waiting, i)
        /\ toPrefill' = Append(toPrefill, r) /\ st' = [st EXCEPT ![r] = s]
        /\ UNCHANGED <<out, rehydrate, cached, free, kv, pc, submitted, running, ready,
                       todo, still, retracted, prefilling>>
    BY <1>0, <1>1 DEF AdmitWaiting, WaitingOpen, Admit
  <1>3. /\ r \in Request /\ r \in Elems(waiting)
        /\ Elems(waiting') = Elems(waiting) \ {r} /\ NoRepeat(waiting')
    <2>1. waiting \in Seq(Request) /\ NoRepeat(waiting)
      BY QueueFacts DEF Homes
    <2>2. Elems(Without(waiting, i)) = Elems(waiting) \ {r} /\ NoRepeat(Without(waiting, i))
      BY <1>0, <2>1, Removed
    <2>3. r \in Request /\ r \in Elems(waiting)
      BY <1>0, <2>1 DEF Elems
    <2> QED BY <1>2, <2>2, <2>3
  <1>4. /\ Fresh(r) /\ r \in submitted
        /\ r \notin Elems(prefilling) \cup Elems(toPrefill) \cup Elems(ready)
        /\ r \notin Elems(retracted) /\ r \notin Elems(running)
    BY <1>2, <1>3, QueueFacts, OneStage DEF Stage
  <1>5. NoRepeat(toPrefill') /\ Elems(toPrefill') = Elems(toPrefill) \cup {r}
    BY <1>2, <1>3, <1>4, QueueFacts, Appended DEF Homes
  <1>6. Homes'
    BY <1>2, <1>3, <1>4, <1>5, QueueFacts DEF Homes
  <1>7. /\ Prepare(r) /\ InPrefill(r)'
        /\ \A q \in Request \ {r} : /\ out'[q] = out[q] /\ rehydrate'[q] = rehydrate[q]
                                    /\ st'[q] = st[q]
    BY <1>1, <1>2, <1>3, <1>4, AdmittedStage
  <1>8. ASSUME NEW q \in Request PROVE Stage(q)'
    <2>1. CASE q # r
      BY <1>2, <1>3, <1>4, <1>5, <1>7, <2>1, QueueFacts, OthersStay
    <2>2. CASE q = r
      BY <1>2, <1>3, <1>4, <1>5, <1>7, <2>2, NewStage
    <2> QED BY <2>1, <2>2
  <1> QED BY <1>3, <1>6, <1>7, <1>8, KVPrepares DEF StepKeeps, Stages

\* A head that does not fit had no state and is left without one.
LEMMA EndLoopsLeave ==
    ASSUME SchedInv, EndRetracted \/ EndWaiting
    PROVE  st' = st
  <1>1. CASE EndRetracted
    <2>1. CASE RetractedOpen
      <3> DEFINE r == Head(retracted)
      <3>1. retracted # <<>> /\ st' = [st EXCEPT ![r] = NoState]
        BY <1>1, <2>1 DEF EndRetracted, RetractedOpen
      <3>2. r \in Request /\ r \in Elems(retracted)
        BY <3>1, QueueFacts, HeadAndTail
      <3> HIDE DEF r
      <3>3. st[r] = NoState
        BY <3>2, QueueFacts DEF Stage, Away
      <3> QED BY <3>1, <3>2, <3>3, QueueFacts DEF KVTypeOK
    <2>2. CASE ~RetractedOpen
      BY <1>1, <2>2 DEF EndRetracted
    <2> QED BY <2>1, <2>2
  <1>2. CASE EndWaiting
    <2>1. CASE WaitingOpen
      <3>1. st' = [r \in Request |->
                     IF \E i \in Candidates : waiting[i] = r THEN NoState ELSE st[r]]
        BY <1>2, <2>1 DEF EndWaiting
      <3>2. Candidates \subseteq 1 .. Len(waiting)
        <4>1. waiting # <<>>
          BY <2>1 DEF WaitingOpen
        <4>2. 1 \in 1 .. Len(waiting)
          BY <4>1, QueueFacts
        <4> QED BY <4>2 DEF Candidates
      <3>3. \A r \in Request : (\E i \in Candidates : waiting[i] = r) => st[r] = NoState
        BY <3>2, QueueFacts DEF Stage, Fresh, Elems
      <3>4. st \in [Request -> StateType]
        BY QueueFacts DEF KVTypeOK
      <3>5. st' = [r \in Request |-> st[r]]
        BY <3>1, <3>3
      <3> QED BY <3>4, <3>5
    <2>2. CASE ~WaitingOpen
      BY <1>2, <2>2 DEF EndWaiting
    <2> QED BY <2>1, <2>2
  <1> QED BY <1>1, <1>2

\* Leaving an admission loop moves no request.
LEMMA EndLoopsKeep ==
    ASSUME SchedInv, EndRetracted \/ EndWaiting
    PROVE  StepKeeps
  <1>1. /\ UNCHANGED <<out, rehydrate, cached, free, kv, queueVars, toPrefill, ready, todo, still>>
        /\ pc \in {"retracted", "waiting"} /\ pc' \in {"waiting", "resume"}
    BY DEF EndRetracted, EndWaiting, localVars
  <1>2. st' = st
    BY EndLoopsLeave
  <1>3. Homes'
    BY <1>1, QueueFacts DEF Homes, queueVars
  <1>4. ASSUME NEW q \in Request PROVE Stage(q)'
    BY <1>1, <1>2, QueueFacts, OthersStay DEF queueVars
  <1> QED BY <1>1, <1>2, <1>3, <1>4, KVStutter DEF StepKeeps, Stages, kvVars

-------------------------------------------------------------------------------
(* Joining the running batch, and the pages for a forward. *)

\* A rehydrated request has one token left to be fed.
LEMMA RehydratedRuns ==
    ASSUME KVTypeOK, NEW r \in Request, InPrefill(r), rehydrate[r], PrefillComplete(r, st[r]),
           out'[r] = out[r], st'[r] = st[r], ~rehydrate'[r]
    PROVE  MayDecode(r)'
  <1>1. Running(r)' /\ Ids(r)' = Ids(r)
    BY DEF InPrefill, Prefilling, Running, Finished, Ids
  <1>2. /\ Len(Ids(r)) \in Nat /\ Len(PrefillIds(r)) \in Nat
        /\ Len(PrefillIds(r)) + 1 = Len(Ids(r))
    BY PrefillLength DEF InPrefill
  <1>3. st[r].len \in Nat
    BY DEF KVTypeOK, StateType
  <1>4. st[r].len + 1 = Len(Ids(r))
    BY <1>2, <1>3 DEF InPrefill, PrefillComplete
  <1> QED BY <1>1, <1>4 DEF MayDecode

\* The rehydrated requests move together to the running list.
LEMMA ResumeReadyKeeps ==
    ASSUME SchedInv, ResumeReady
    PROVE  StepKeeps
  <1> DEFINE R == Elems(ready)
  <1>1. /\ pc = "resume" /\ running' = running \o ready /\ ready' = <<>>
        /\ pc' \in {"decode", "alloc"}
        /\ rehydrate' = [r \in Request |-> rehydrate[r] /\ r \notin R]
        /\ UNCHANGED <<out, st, cached, free, kv, submitted, waiting, retracted, prefilling,
                       toPrefill, todo, still>>
    BY DEF ResumeReady
  <1>2. /\ R \subseteq Request /\ Elems(<<>>) = {} /\ NoRepeat(<<>>)
        /\ \A r \in R : InPrefill(r) /\ rehydrate[r] /\ PrefillComplete(r, st[r])
    BY QueueFacts DEF Elems, Stage, NoRepeat
  <1>3. R \cap Elems(running) = {}
    <2>1. ASSUME NEW r \in R PROVE r \notin Elems(running)
      <3>1. r \in Request /\ InPrefill(r) /\ pc # "dresults"
        BY <1>1, <1>2
      <3> QED BY <3>1, Elsewhere
    <2> QED BY <2>1
  <1>4. Elems(running') = Elems(running) \cup R /\ NoRepeat(running')
    BY <1>1, <1>3, QueueFacts, Joined DEF Homes
  <1>5. Homes'
    BY <1>1, <1>2, <1>4, QueueFacts DEF Homes
  <1>6. \A q \in Request : q \in R => ~rehydrate'[q]
    BY <1>1
  <1>7. \A q \in Request : q \notin R => rehydrate'[q] = rehydrate[q]
    <2>1. \A q \in Request : rehydrate[q] \in BOOLEAN
      BY QueueFacts DEF KVTypeOK
    <2>2. \A q \in Request : q \notin R => rehydrate'[q] = (rehydrate[q] /\ TRUE)
      BY <1>1
    <2> QED BY <2>1, <2>2
  <1>8. [KVNext]_kvVars
    <2>1. CASE R = {}
      <3>1. rehydrate' = rehydrate
        <4>1. \A q \in Request : rehydrate'[q] = rehydrate[q]
          BY <1>7, <2>1
        <4>2. rehydrate \in [Request -> BOOLEAN] /\ rehydrate' = [q \in Request |-> rehydrate'[q]]
          BY <1>1, QueueFacts DEF KVTypeOK
        <4> QED BY <4>1, <4>2
      <3> QED BY <1>1, <3>1 DEF kvVars
    <2>2. CASE R # {}
      <3>1. \A r \in R : rehydrate[r] /\ st[r].prepared /\ PrefillComplete(r, st[r])
        BY <1>2 DEF InPrefill
      <3>2. Resume(R) /\ R \in (SUBSET Request) \ {{}}
        BY <1>1, <1>2, <2>2, <3>1 DEF Resume
      <3> HIDE DEF R
      <3> QED BY <3>2 DEF KVNext
    <2> QED BY <2>1, <2>2
  <1>9. ASSUME NEW q \in Request PROVE Stage(q)'
    <2>1. out'[q] = out[q] /\ st'[q] = st[q]
      BY <1>1
    <2>2. CASE q \notin R
      BY <1>1, <1>2, <1>4, <1>7, <2>1, <2>2, QueueFacts, OthersStay
    <2>3. CASE q \in R
      <3>1. MayDecode(q)'
        BY <1>2, <1>6, <2>1, <2>3, QueueFacts, RehydratedRuns
      <3>2. /\ q \in submitted /\ q \notin Elems(waiting) /\ q \notin Elems(retracted)
            /\ q \notin Elems(prefilling) /\ q \notin Elems(toPrefill)
        BY <1>2, <2>3, QueueFacts, Elsewhere DEF Homes
      <3> QED BY <1>1, <1>2, <3>1, <3>2, NewStage
    <2> QED BY <2>2, <2>3
  <1> QED BY <1>5, <1>8, <1>9 DEF StepKeeps, Stages

\* A page table that grows does not change the stage of its request.
LEMMA GrownStage ==
    ASSUME SchedInv, NEW r \in Request, NEW n, GrowTable(r, n), UNCHANGED <<out, rehydrate>>
    PROVE  /\ \A q \in Request \ {r} : st'[q] = st[q]
           /\ InPrefill(r)' = InPrefill(r) /\ MayDecode(r)' = MayDecode(r)
  <1>1. PICK new : st' = [st EXCEPT ![r].table = @ \o new]
    BY DEF GrowTable, ExtendTable
  <1>2. st[r] \in StateType /\ st \in [Request -> StateType]
    BY QueueFacts DEF KVTypeOK
  <1>3. /\ \A q \in Request \ {r} : st'[q] = st[q]
        /\ st'[r].len = st[r].len /\ st'[r].prepared = st[r].prepared
    BY <1>1, <1>2 DEF StateType
  <1>4. /\ Prefilling(r)' = Prefilling(r) /\ Running(r)' = Running(r)
        /\ PrefillIds(r)' = PrefillIds(r) /\ Ids(r)' = Ids(r)
    BY DEF Prefilling, Running, Finished, PrefillIds, Ids
  <1> QED BY <1>3, <1>4 DEF InPrefill, MayDecode

\* Pages for a prefill chunk change one page table and never a queue.
LEMMA AllocPrefillKeeps ==
    ASSUME SchedInv, AllocPrefill
    PROVE  StepKeeps
  <1>1. PICK r \in FirstShort(toPrefill, PrefillMissing) : GrowTable(r, PrefillMissing[r])
    BY DEF AllocPrefill
  <1>2. /\ pc = "alloc"
        /\ UNCHANGED <<out, rehydrate, pc, submitted, waiting, retracted, prefilling, running,
                       toPrefill, ready, todo, still>>
    BY DEF AllocPrefill, queueVars, localVars
  <1>3. r \in Elems(toPrefill) /\ PrefillMissing[r] > 0
    BY DEF FirstShort, Elems
  <1>4. r \in Request /\ InPrefill(r)
    BY <1>3, QueueFacts DEF Stage, Elems
  <1>5. PrefillMissing[r] = PrefillNeeded(r, st[r], ChunkSize)
    BY <1>4 DEF PrefillMissing
  <1>6. MayPrefill(r)
    BY <1>3, <1>4, <1>5 DEF PrefillNeeded, MayPrefill, InPrefill
  <1>7. GrowForPrefill(r)
    BY <1>1, <1>2, <1>3, <1>5, <1>6, ChunkSizeAssumption DEF GrowForPrefill
  <1>8. Homes'
    BY <1>2, QueueFacts DEF Homes
  <1>9. (\A q \in Request \ {r} : st'[q] = st[q]) /\ InPrefill(r)'
    BY <1>1, <1>2, <1>4, GrownStage
  <1>10. ASSUME NEW q \in Request PROVE Stage(q)'
    <2>1. CASE q # r
      BY <1>2, <1>9, <2>1, QueueFacts, OthersStay
    <2>2. CASE q = r
      <3>1. /\ r \in submitted /\ r \notin Elems(waiting) /\ r \notin Elems(retracted)
            /\ r \notin Elems(running)
        <4>1. pc # "dresults"
          BY <1>2
        <4> QED BY <1>4, <4>1, Elsewhere
      <3>2. r \notin Elems(ready)
        BY <1>3, QueueFacts DEF Homes
      <3> QED BY <1>2, <1>9, <2>2, <3>1, <3>2, NewStage
    <2> QED BY <2>1, <2>2
  <1>11. [KVNext]_kvVars
    BY <1>4, <1>7 DEF KVNext
  <1> QED BY <1>8, <1>10, <1>11 DEF StepKeeps, Stages

\* A page for the next token changes one page table and never a queue.
LEMMA AllocDecodeKeeps ==
    ASSUME SchedInv, AllocDecode
    PROVE  StepKeeps
  <1>1. PICK r \in FirstShort(running, DecodeMissing) : GrowTable(r, DecodeMissing[r])
    BY DEF AllocDecode
  <1>2. /\ pc = "decode"
        /\ UNCHANGED <<out, rehydrate, pc, submitted, waiting, retracted, prefilling, running,
                       toPrefill, ready, todo, still>>
    BY DEF AllocDecode, queueVars, localVars
  <1>3. r \in Elems(running) /\ DecodeMissing[r] > 0
    BY DEF FirstShort, Elems
  <1>4. r \in Request /\ MayDecode(r)
    BY <1>2, <1>3, QueueFacts DEF Stage, Elems
  <1>5. DecodeMissing[r] = Missing(st[r], st[r].len + 1)
    BY <1>4 DEF DecodeMissing
  <1>6. GrowForDecode(r)
    BY <1>1, <1>2, <1>3, <1>4, <1>5 DEF GrowForDecode
  <1>7. Homes'
    BY <1>2, QueueFacts DEF Homes
  <1>8. (\A q \in Request \ {r} : st'[q] = st[q]) /\ MayDecode(r)'
    BY <1>1, <1>2, <1>4, GrownStage
  <1>9. ASSUME NEW q \in Request PROVE Stage(q)'
    <2>1. CASE q # r
      BY <1>2, <1>8, <2>1, QueueFacts, OthersStay
    <2>2. CASE q = r
      <3>1. /\ r \in submitted /\ r \notin Elems(waiting) /\ r \notin Elems(retracted)
            /\ r \notin Elems(prefilling) \cup Elems(toPrefill) \cup Elems(ready)
        BY <1>4, Elsewhere
      <3> QED BY <1>2, <1>8, <2>2, <3>1, NewStage
    <2> QED BY <2>1, <2>2
  <1>10. [KVNext]_kvVars
    BY <1>4, <1>6 DEF KVNext
  <1> QED BY <1>7, <1>9, <1>10 DEF StepKeeps, Stages

\* allocate fails: the cache was emptied and no state has changed.
LEMMA AllocPrefillFailsKeeps ==
    ASSUME SchedInv, AllocPrefillFails
    PROVE  StepKeeps
  <1>1. PICK r \in FirstShort(toPrefill, PrefillMissing) : Exhausted(PrefillMissing[r])
    BY DEF AllocPrefillFails
  <1>2. pc = "alloc" /\ Raise /\ UNCHANGED <<out, rehydrate, queueVars>>
    BY DEF AllocPrefillFails
  <1>3. r \in Elems(toPrefill) /\ PrefillMissing[r] > 0
    BY DEF FirstShort, Elems
  <1>4. r \in Request /\ InPrefill(r)
    BY <1>3, QueueFacts DEF Stage, Elems
  <1>5. PrefillMissing[r] = PrefillNeeded(r, st[r], ChunkSize)
    BY <1>4 DEF PrefillMissing
  <1>6. MayPrefill(r)
    BY <1>3, <1>4, <1>5 DEF PrefillNeeded, MayPrefill, InPrefill
  <1>7. RunOut(r)
    BY <1>1, <1>2, <1>5, <1>6, ChunkSizeAssumption DEF RunOut
  <1>8. [KVNext]_kvVars
    BY <1>4, <1>7 DEF KVNext
  <1>9. \A q \in Request : /\ out'[q] = out[q] /\ rehydrate'[q] = rehydrate[q]
                           /\ st'[q] = st[q]
    BY <1>1, <1>2 DEF Exhausted
  <1> QED BY <1>2, <1>8, <1>9, RaiseKeeps

\* A decode allocation that runs out of pages moves no request.
LEMMA AllocDecodeFailsKeeps ==
    ASSUME SchedInv, AllocDecodeFails
    PROVE  StepKeeps
  <1>1. PICK r \in FirstShort(running, DecodeMissing) : Exhausted(DecodeMissing[r])
    BY DEF AllocDecodeFails
  <1>2. /\ pc = "decode" /\ pc' = "exhausted"
        /\ UNCHANGED <<out, rehydrate, submitted, waiting, retracted, prefilling, running,
                       toPrefill, ready, todo, still>>
    BY DEF AllocDecodeFails, queueVars, localVars
  <1>3. r \in Elems(running)
    BY DEF FirstShort, Elems
  <1>4. r \in Request /\ MayDecode(r)
    BY <1>2, <1>3, QueueFacts DEF Stage, Elems
  <1>5. DecodeMissing[r] = Missing(st[r], st[r].len + 1)
    BY <1>4 DEF DecodeMissing
  <1>6. RunOut(r)
    BY <1>1, <1>2, <1>4, <1>5 DEF RunOut
  <1>7. [KVNext]_kvVars
    BY <1>4, <1>6 DEF KVNext
  <1>8. Homes'
    BY <1>2, QueueFacts DEF Homes
  <1>9. ASSUME NEW q \in Request PROVE Stage(q)'
    <2>1. out'[q] = out[q] /\ rehydrate'[q] = rehydrate[q] /\ st'[q] = st[q]
      BY <1>1, <1>2 DEF Exhausted
    <2> QED BY <1>2, <2>1, QueueFacts, OthersStay
  <1> QED BY <1>7, <1>8, <1>9 DEF StepKeeps, Stages

-------------------------------------------------------------------------------
(* The forwards. *)

\* A prefill forward takes each request of the batch to the end of its chunk.
LEMMA BatchedPrefillKeeps ==
    ASSUME SchedInv, BatchedPrefill
    PROVE  StepKeeps
  <1> DEFINE R == Elems(toPrefill)
             fed == [r \in R |-> PrefillFed(r, ChunkSize)]
  <1>1. /\ pc = "forward" /\ pc' = "results" /\ Forward(R, fed)
        /\ UNCHANGED <<out, rehydrate, cached, submitted, waiting, retracted, prefilling,
                       running, toPrefill, ready, todo, still>>
    BY DEF BatchedPrefill, queueVars, localVars
  <1>2. toPrefill # <<>> /\ R \subseteq Request /\ R # {}
    <2>1. toPrefill # <<>>
      BY <1>1, QueueFacts DEF StepLocals
    <2>2. Head(toPrefill) \in R
      BY <2>1, QueueFacts, HeadAndTail
    <2> QED BY <2>1, <2>2, QueueFacts DEF Elems
  <1>3. \A r \in R : InPrefill(r) /\ MayPrefill(r) /\ PrefillNeeded(r, st[r], ChunkSize) = 0
    <2>1. ASSUME NEW r \in R
          PROVE  InPrefill(r) /\ ~PrefillComplete(r, st[r])
                 /\ PrefillNeeded(r, st[r], ChunkSize) = 0
      BY <1>1, <1>2, <2>1, QueueFacts DEF Stage
    <2> QED BY <2>1 DEF MayPrefill, InPrefill
  <1>4. ASSUME NEW r \in R
        PROVE  Len(fed[r]) <= Len(PrefillIds(r))
    <2> DEFINE m == ChunkEnd(r, st[r], ChunkSize)
               ids == PrefillIds(r)
    <2>1. ChunkSize \in Nat
      BY ChunkSizeAssumption, ChunkAssumption
    <2>2. m \in Nat /\ m <= Len(ids) /\ ids \in Seq(Token)
      BY <1>2, <1>3, <2>1, QueueFacts, ChunkBounds, MatchPathType DEF MayPrefill
    <2>3. fed[r] = SubSeq(ids, 1, m)
      BY DEF PrefillFed
    <2>4. Len(SubSeq(ids, 1, m)) = m
      <3> HIDE DEF ids, m
      <3> QED BY <2>2
    <2> HIDE DEF ids, m, fed
    <2> QED BY <2>2, <2>3, <2>4 DEF ids
  <1>5. /\ \A r \in R : st'[r] = [st[r] EXCEPT !.len = Len(fed[r])]
        /\ \A q \in Request \ R : st'[q] = st[q]
    <2> HIDE DEF R, fed
    <2> QED BY <1>1, <1>2 DEF Forward
  <1>6. \A r \in R : InPrefill(r)'
    <2> SUFFICES ASSUME NEW r \in R PROVE InPrefill(r)'
      BY <1>1
    <2>1. st[r] \in StateType
      BY <1>2, QueueFacts DEF KVTypeOK
    <2>2. st'[r].len = Len(fed[r]) /\ st'[r].prepared = st[r].prepared
      <3> HIDE DEF fed
      <3> QED BY <1>5, <2>1 DEF StateType
    <2>3. PrefillIds(r)' = PrefillIds(r) /\ Prefilling(r)' = Prefilling(r)
      BY <1>1 DEF PrefillIds, Prefilling, Finished, Ids
    <2> HIDE DEF fed
    <2> QED BY <1>1, <1>3, <1>4, <2>2, <2>3 DEF InPrefill
  <1>7. [KVNext]_kvVars
    <2>1. PrefillForward(R)
      BY <1>1, <1>3, ChunkSizeAssumption DEF PrefillForward
    <2>2. R \in (SUBSET Request) \ {{}}
      BY <1>2
    <2> HIDE DEF R
    <2> QED BY <2>1, <2>2 DEF KVNext
  <1>8. Homes'
    BY <1>1, QueueFacts DEF Homes
  <1>9. ASSUME NEW q \in Request PROVE Stage(q)'
    <2>0. out'[q] = out[q] /\ rehydrate'[q] = rehydrate[q]
      BY <1>1
    <2>1. CASE q \notin R
      <3>1. st'[q] = st[q]
        BY <1>5, <2>1
      <3> QED BY <1>1, <2>0, <3>1, QueueFacts, OthersStay
    <2>2. CASE q \in R
      <3>1. InPrefill(q)' /\ InPrefill(q) /\ pc # "dresults"
        BY <1>1, <1>3, <1>6, <2>2
      <3>2. /\ q \in submitted /\ q \notin Elems(waiting) /\ q \notin Elems(retracted)
            /\ q \notin Elems(running)
        BY <3>1, Elsewhere
      <3>3. q \notin Elems(ready)
        BY <2>2, QueueFacts DEF Homes
      <3> QED BY <1>1, <3>1, <3>2, <3>3, NewStage
    <2> QED BY <2>1, <2>2
  <1> QED BY <1>7, <1>8, <1>9 DEF StepKeeps, Stages

\* A decode forward feeds the last token of each running request.
LEMMA BatchedDecodeKeeps ==
    ASSUME SchedInv, BatchedDecode
    PROVE  StepKeeps
  <1> DEFINE R == Elems(running)
             fed == [r \in R |-> DecodeFed(r)]
  <1>1. /\ pc = "decode" /\ pc' = "dresults" /\ Forward(R, fed) /\ running # <<>>
        /\ todo' = running /\ NoneShort(running, DecodeMissing)
        /\ UNCHANGED <<out, rehydrate, cached, submitted, waiting, retracted, prefilling,
                       running, toPrefill, ready, still>>
    BY DEF BatchedDecode, queueVars, localVars
  <1>2. R \subseteq Request /\ R # {} /\ still = <<>> /\ Elems(<<>>) = {} /\ NoRepeat(<<>>)
    <2>1. Head(running) \in R
      BY <1>1, QueueFacts, HeadAndTail
    <2>2. still = <<>>
      BY <1>1, QueueFacts DEF StepLocals
    <2> QED BY <2>1, <2>2, QueueFacts DEF Elems, NoRepeat
  <1>3. \A r \in R : MayDecode(r) /\ Missing(st[r], st[r].len + 1) = 0
    BY <1>1, <1>2, QueueFacts DEF Stage, NoneShort, DecodeMissing
  <1>4. ASSUME NEW r \in R
        PROVE  Len(fed[r]) = Len(Ids(r))
    <2> DEFINE m == st[r].len
               ids == Ids(r)
               x == out[r][Len(out[r])]
    <2>1. m \in Nat /\ m + 1 = Len(ids) /\ ids \in Seq(Token)
          /\ out[r] \in Seq(Token) /\ out[r] # <<>>
      BY <1>2, <1>3, QueueFacts, DecodeBounds
    <2>2. x \in Token
      BY <2>1
    <2>3. fed[r] = Append(SubSeq(ids, 1, m), x)
      BY DEF DecodeFed
    <2>4. Len(Append(SubSeq(ids, 1, m), x)) = m + 1
      <3> HIDE DEF ids, m, x
      <3>1. SubSeq(ids, 1, m) \in Seq(Token) /\ Len(SubSeq(ids, 1, m)) = m
        BY <2>1
      <3> QED BY <2>2, <3>1
    <2> HIDE DEF fed, x
    <2> QED BY <2>1, <2>3, <2>4
  <1>5. /\ \A r \in R : st'[r] = [st[r] EXCEPT !.len = Len(fed[r])]
        /\ \A q \in Request \ R : st'[q] = st[q]
    <2> HIDE DEF R, fed
    <2> QED BY <1>1, <1>2 DEF Forward
  <1>6. \A r \in R : Decoded(r)'
    <2> SUFFICES ASSUME NEW r \in R PROVE Decoded(r)'
      BY <1>1
    <2>1. st[r] \in StateType
      BY <1>2, QueueFacts DEF KVTypeOK
    <2>2. st'[r].len = Len(fed[r])
      <3> HIDE DEF fed
      <3> QED BY <1>5, <2>1 DEF StateType
    <2>3. Running(r)' = Running(r) /\ Ids(r)' = Ids(r)
      BY <1>1 DEF Running, Finished, Ids
    <2> HIDE DEF fed
    <2> QED BY <1>3, <1>4, <2>2, <2>3 DEF MayDecode, Decoded
  <1>7. [KVNext]_kvVars
    <2>1. DecodeForward(R)
      BY <1>1, <1>3 DEF DecodeForward
    <2>2. R \in (SUBSET Request) \ {{}}
      BY <1>2
    <2> HIDE DEF R
    <2> QED BY <2>1, <2>2 DEF KVNext
  <1>8. Homes'
    BY <1>1, <1>2, QueueFacts DEF Homes
  <1>9. ASSUME NEW q \in Request PROVE Stage(q)'
    <2>0. out'[q] = out[q] /\ rehydrate'[q] = rehydrate[q]
      BY <1>1
    <2>1. CASE q \notin R
      <3>1. st'[q] = st[q]
        BY <1>5, <2>1
      <3> QED BY <1>1, <1>2, <2>0, <2>1, <3>1, QueueFacts, SameStage DEF Stage
    <2>2. CASE q \in R
      <3>1. Decoded(q)' /\ MayDecode(q)
        BY <1>3, <1>6, <2>2
      <3>2. /\ q \in submitted /\ q \notin Elems(waiting) /\ q \notin Elems(retracted)
            /\ q \notin Elems(prefilling) \cup Elems(toPrefill) \cup Elems(ready)
        BY <3>1, Elsewhere
      <3> QED BY <1>1, <1>2, <3>1, <3>2, NewStage
    <2> QED BY <2>1, <2>2
  <1> QED BY <1>7, <1>8, <1>9 DEF StepKeeps, Stages

\* The victim gives its pages back and waits at the front of the retracted.
LEMMA RetractVictimKeeps ==
    ASSUME SchedInv, NEW v \in Request, RetractVictim(v)
    PROVE  StepKeeps
  <1>1. /\ pc = "exhausted" /\ pc' = "decode" /\ v \in Elems(running)
        /\ RetractPagedState(v) /\ rehydrate' = [rehydrate EXCEPT ![v] = TRUE]
        /\ retracted' = <<v>> \o retracted
        /\ UNCHANGED <<out, submitted, waiting, prefilling, toPrefill, ready, todo, still>>
    BY DEF RetractVictim, Victims, localVars
  <1>2. MayDecode(v)
    BY <1>1, QueueFacts DEF Stage
  <1>3. /\ v \in submitted /\ v \notin Elems(waiting) /\ v \notin Elems(retracted)
        /\ v \notin Elems(prefilling) \cup Elems(toPrefill) \cup Elems(ready)
    BY <1>2, Elsewhere
  <1>4. NoRepeat(running') /\ Elems(running') = Elems(running) \ {v}
    <2>1. PICK i \in 1 .. Len(running) : running[i] = v /\ running' = Without(running, i)
      <3>1. \E i \in 1 .. Len(running) : running[i] = v
        BY <1>1 DEF Elems
      <3> QED BY <3>1 DEF RetractVictim
    <2>2. running \in Seq(Request) /\ NoRepeat(running)
      BY <1>1, QueueFacts DEF Homes
    <2> QED BY <2>1, <2>2, Removed
  <1>5. NoRepeat(retracted') /\ Elems(retracted') = {v} \cup Elems(retracted)
    <2> DEFINE u == <<v>>
    <2>1. u \in Seq(Request) /\ Elems(u) = {v} /\ NoRepeat(u) /\ retracted' = u \o retracted
      BY <1>1, Single
    <2>2. retracted \in Seq(Request) /\ NoRepeat(retracted)
      BY QueueFacts DEF Homes
    <2> HIDE DEF u
    <2> QED BY <1>3, <2>1, <2>2, Joined
  <1>6. /\ st'[v] = NoState /\ rehydrate'[v] /\ out' = out
        /\ \A q \in Request \ {v} : st'[q] = st[q] /\ rehydrate'[q] = rehydrate[q]
    BY <1>1, QueueFacts DEF RetractPagedState, KVTypeOK
  <1>7. Away(v)'
    BY <1>2, <1>6 DEF MayDecode, Running, Finished, Away
  <1>8. [KVNext]_kvVars
    <2>1. Retract(v)
      BY <1>1, <1>2 DEF Retract
    <2> QED BY <2>1 DEF KVNext
  <1>9. Homes'
    BY <1>1, <1>4, <1>5, QueueFacts DEF Homes
  <1>10. ASSUME NEW q \in Request PROVE Stage(q)'
    <2>1. CASE q # v
      BY <1>1, <1>4, <1>5, <1>6, <2>1, QueueFacts, OthersStay
    <2>2. CASE q = v
      BY <1>1, <1>3, <1>4, <1>5, <1>7, <2>2, NewStage
    <2> QED BY <2>1, <2>2
  <1> QED BY <1>8, <1>9, <1>10 DEF StepKeeps, Stages

-------------------------------------------------------------------------------
(* The results of a forward. *)

\* The head of the batch, and what it leaves behind.
LEMMA BatchHead ==
    ASSUME SchedInv, pc = "results", NEW r, r = Head(toPrefill), toPrefill' = Tail(toPrefill)
    PROVE  /\ r \in Request /\ InPrefill(r) /\ r \in submitted
           /\ r \in Elems(toPrefill) /\ r \notin Elems(toPrefill')
           /\ Elems(toPrefill) = {r} \cup Elems(toPrefill') /\ NoRepeat(toPrefill')
           /\ r \notin Elems(waiting) /\ r \notin Elems(retracted) /\ r \notin Elems(running)
           /\ r \notin Elems(prefilling) /\ r \notin Elems(ready)
  <1>1. toPrefill # <<>> /\ pc # "dresults"
    BY QueueFacts DEF StepLocals
  <1>2. /\ r \in Request /\ r \in Elems(toPrefill) /\ r \notin Elems(toPrefill')
        /\ Elems(toPrefill) = {r} \cup Elems(toPrefill') /\ NoRepeat(toPrefill')
    BY <1>1, QueueFacts, HeadAndTail DEF Homes
  <1>3. InPrefill(r)
    BY <1>2, QueueFacts DEF Stage
  <1>4. r \notin Elems(prefilling) /\ r \notin Elems(ready)
    BY <1>2, QueueFacts DEF Homes
  <1>5. /\ r \in submitted /\ r \notin Elems(waiting) /\ r \notin Elems(retracted)
        /\ r \notin Elems(running)
    BY <1>1, <1>2, <1>3, Elsewhere
  <1> QED BY <1>2, <1>3, <1>4, <1>5

\* A prefill chunk that is not the last leaves its request prefilling.
LEMMA PrefillUnfinishedKeeps ==
    ASSUME SchedInv, PrefillUnfinished
    PROVE  StepKeeps
  <1>0. PICK r : r = Head(toPrefill)
    OBVIOUS
  <1>1. /\ pc = "results" /\ pc' \in {"decode", "results"} /\ toPrefill' = Tail(toPrefill)
        /\ prefilling' = Append(prefilling, r)
        /\ UNCHANGED <<kvVars, submitted, waiting, retracted, running, ready, todo, still>>
    BY <1>0 DEF PrefillUnfinished, NextResult
  <1>2. /\ r \in Request /\ InPrefill(r) /\ r \in submitted
        /\ r \in Elems(toPrefill) /\ r \notin Elems(toPrefill')
        /\ Elems(toPrefill) = {r} \cup Elems(toPrefill') /\ NoRepeat(toPrefill')
        /\ r \notin Elems(prefilling) /\ r \notin Elems(ready)
    BY <1>0, <1>1, BatchHead
  <1>3. NoRepeat(prefilling') /\ Elems(prefilling') = Elems(prefilling) \cup {r}
    BY <1>1, <1>2, QueueFacts, Appended DEF Homes
  <1>4. Homes'
    BY <1>1, <1>2, <1>3, QueueFacts DEF Homes
  <1>5. ASSUME NEW q \in Request PROVE Stage(q)'
    <2>1. out'[q] = out[q] /\ rehydrate'[q] = rehydrate[q] /\ st'[q] = st[q]
      BY <1>1 DEF kvVars
    <2> QED BY <1>1, <1>2, <1>3, <2>1, QueueFacts, OthersStay
  <1> QED BY <1>1, <1>4, <1>5, KVStutter DEF StepKeeps, Stages

\* A retracted request whose re-prefill ends goes back to running.
LEMMA RehydratedKeeps ==
    ASSUME SchedInv, Rehydrated
    PROVE  StepKeeps
  <1>0. PICK r : r = Head(toPrefill)
    OBVIOUS
  <1>1. /\ pc = "results" /\ pc' \in {"decode", "results"} /\ toPrefill' = Tail(toPrefill)
        /\ rehydrate[r] /\ PrefillComplete(r, st[r])
        /\ rehydrate' = [rehydrate EXCEPT ![r] = FALSE] /\ running' = Append(running, r)
        /\ UNCHANGED <<out, st, cached, free, kv, submitted, waiting, retracted, prefilling,
                       ready, todo, still>>
    BY <1>0 DEF Rehydrated, NextResult
  <1>2. /\ r \in Request /\ InPrefill(r) /\ r \in submitted
        /\ r \in Elems(toPrefill) /\ r \notin Elems(toPrefill')
        /\ Elems(toPrefill) = {r} \cup Elems(toPrefill') /\ NoRepeat(toPrefill')
        /\ r \notin Elems(waiting) /\ r \notin Elems(retracted) /\ r \notin Elems(running)
        /\ r \notin Elems(prefilling) /\ r \notin Elems(ready)
    BY <1>0, <1>1, BatchHead
  <1>3. NoRepeat(running') /\ Elems(running') = Elems(running) \cup {r}
    BY <1>1, <1>2, QueueFacts, Appended DEF Homes
  <1>4. Homes'
    BY <1>1, <1>2, <1>3, QueueFacts DEF Homes
  <1>5. rehydrate \in [Request -> BOOLEAN]
    BY QueueFacts DEF KVTypeOK
  <1>6. ~rehydrate'[r] /\ \A q \in Request \ {r} : rehydrate'[q] = rehydrate[q]
    BY <1>1, <1>2, <1>5
  <1>7. MayDecode(r)'
    BY <1>1, <1>2, <1>6, QueueFacts, RehydratedRuns
  <1>8. [KVNext]_kvVars
    <2>1. rehydrate' = [q \in Request |-> rehydrate[q] /\ q \notin {r}]
      <3>1. \A q \in Request : rehydrate'[q] = (rehydrate[q] /\ q \notin {r})
        <4>1. ASSUME NEW q \in Request, q # r
              PROVE  rehydrate'[q] = (rehydrate[q] /\ q \notin {r})
          <5>1. rehydrate[q] \in BOOLEAN /\ rehydrate'[q] = rehydrate[q]
            BY <1>5, <1>6, <4>1
          <5> QED BY <4>1, <5>1
        <4>2. rehydrate'[r] = FALSE /\ (rehydrate[r] /\ r \notin {r}) = FALSE
          BY <1>1, <1>2, <1>5
        <4> QED BY <4>1, <4>2
      <3>2. rehydrate' = [q \in Request |-> rehydrate'[q]]
        BY <1>1, <1>5
      <3> QED BY <3>1, <3>2
    <2>2. Resume({r})
      BY <1>1, <1>2, <2>1 DEF Resume, InPrefill
    <2>3. {r} \in (SUBSET Request) \ {{}}
      BY <1>2
    <2> QED BY <2>2, <2>3 DEF KVNext
  <1>9. ASSUME NEW q \in Request PROVE Stage(q)'
    <2>1. CASE q # r
      <3>1. out'[q] = out[q] /\ rehydrate'[q] = rehydrate[q] /\ st'[q] = st[q]
        BY <1>1, <1>6, <2>1
      <3> QED BY <1>1, <1>2, <1>3, <2>1, <3>1, QueueFacts, OthersStay
    <2>2. CASE q = r
      BY <1>1, <1>2, <1>3, <1>7, <2>2, NewStage
    <2> QED BY <2>1, <2>2
  <1> QED BY <1>4, <1>8, <1>9 DEF StepKeeps, Stages

\* A request that has not finished by a token runs on with that token to feed.
LEMMA TokenToFeed ==
    ASSUME KVTypeOK, NEW r \in Request, NEW t \in Token,
           out' = [out EXCEPT ![r] = Append(@, t)], rehydrate' = rehydrate, ~rehydrate[r],
           st[r].len = Len(Ids(r)), st'[r].len = st[r].len,
           ~CheckFinished(Append(out[r], t))
    PROVE  MayDecode(r)'
  <1>1. out[r] \in Seq(Token) /\ out'[r] = Append(out[r], t) /\ Ids(r) \in Seq(Token)
    <2>1. Prompt[r] \in Seq(Token) /\ out[r] \in Seq(Token)
      BY PromptAssumption DEF KVTypeOK
    <2>2. Ids(r) \in Seq(Token)
      BY <2>1, ConcatPrefix DEF Ids
    <2> QED BY <2>1, <2>2 DEF KVTypeOK
  <1>2. out'[r] # <<>>
    BY <1>1
  <1>3. Ids(r)' = Append(Ids(r), t)
    BY SampledToken
  <1>4. Len(Ids(r)') = Len(Ids(r)) + 1
    <2> DEFINE ids == Ids(r)
    <2>1. ids \in Seq(Token) /\ Ids(r)' = Append(ids, t)
      BY <1>1, <1>3
    <2>2. Len(Append(ids, t)) = Len(ids) + 1
      <3> HIDE DEF ids
      <3> QED BY <2>1
    <2> QED BY <2>1, <2>2
  <1>5. Running(r)'
    BY <1>1, <1>2 DEF Running, Finished
  <1> QED BY <1>4, <1>5 DEF MayDecode

\* A commit changes the state of its request only, and not its length.
LEMMA CommittedState ==
    ASSUME KVTypeOK, NEW r \in Request, NEW finished, CommitPagedCache(r, finished)
    PROVE  /\ \A q \in Request \ {r} : st'[q] = st[q]
           /\ ~finished => st'[r].len = st[r].len
  <1>1. st \in [Request -> StateType]
    BY DEF KVTypeOK
  <1>2. PICK x : st' = [st EXCEPT ![r] = x]
    BY DEF CommitPagedCache
  <1>3. CASE ~finished
    <2>1. PICK table, node :
            st' = [st EXCEPT ![r] = [st[r] EXCEPT !.table = table, !.node = node,
                                                  !.prepared = TRUE]]
      BY <1>3 DEF CommitPagedCache
    <2>2. st[r] \in [table : Seq(Page), len : Nat, node : Path, prepared : BOOLEAN]
      BY <1>1 DEF StateType
    <2> QED BY <1>1, <2>1, <2>2
  <1> QED BY <1>1, <1>2, <1>3

\* The first token of a prefill either ends its request or sends it running.
LEMMA FirstResultKeeps ==
    ASSUME SchedInv, NEW t \in Token, FirstResult(t)
    PROVE  StepKeeps
  <1>0. PICK r : r = Head(toPrefill)
    OBVIOUS
  <1> DEFINE last == CheckFinished(Append(out[r], t))
  <1>1. /\ pc = "results" /\ pc' \in {"decode", "results"} /\ toPrefill' = Tail(toPrefill)
        /\ ~rehydrate[r] /\ PrefillComplete(r, st[r])
        /\ out' = [out EXCEPT ![r] = Append(@, t)] /\ CommitPagedCache(r, last)
        /\ running' = IF last THEN running ELSE Append(running, r)
        /\ UNCHANGED <<rehydrate, submitted, waiting, retracted, prefilling, ready, todo, still>>
    BY <1>0 DEF FirstResult, Emit, NextResult
  <1>2. /\ r \in Request /\ InPrefill(r) /\ r \in submitted
        /\ r \in Elems(toPrefill) /\ r \notin Elems(toPrefill')
        /\ Elems(toPrefill) = {r} \cup Elems(toPrefill') /\ NoRepeat(toPrefill')
        /\ r \notin Elems(waiting) /\ r \notin Elems(retracted) /\ r \notin Elems(running)
        /\ r \notin Elems(prefilling) /\ r \notin Elems(ready)
    BY <1>0, <1>1, BatchHead
  <1>3. out'[r] = Append(out[r], t) /\ \A q \in Request \ {r} : out'[q] = out[q]
    BY <1>1, <1>2, QueueFacts DEF KVTypeOK
  <1>4. FirstToken(r, t)
    <2>1. CommitPagedCache(r, CheckFinished(out'[r]))
      BY <1>1, <1>3
    <2> QED BY <1>1, <1>2, <2>1 DEF FirstToken, InPrefill
  <1>5. /\ \A q \in Request \ {r} : st'[q] = st[q]
        /\ ~last => st'[r].len = st[r].len
    <2> HIDE DEF last
    <2> QED BY <1>1, <1>2, QueueFacts, CommittedState
  <1>6. ~last => MayDecode(r)'
    <2>1. /\ Len(Ids(r)) \in Nat /\ PrefillIds(r) = Ids(r) /\ st[r].len <= Len(PrefillIds(r))
      BY <1>1, <1>2, QueueFacts, PrefillLength DEF InPrefill
    <2>2. st[r].len = Len(Ids(r))
      <3>1. st[r].len \in Nat
        BY <1>2, QueueFacts DEF KVTypeOK, StateType
      <3> QED BY <1>1, <2>1, <3>1 DEF PrefillComplete
    <2> QED BY <1>1, <1>2, <1>5, <2>2, QueueFacts, TokenToFeed
  <1>7. /\ NoRepeat(running') /\ Elems(running') \subseteq Elems(running) \cup {r}
        /\ last => r \notin Elems(running')
    <2>1. CASE last
      BY <1>1, <1>2, <2>1, QueueFacts DEF Homes
    <2>2. CASE ~last
      <3>1. running' = Append(running, r)
        BY <1>1, <2>2
      <3> HIDE DEF last
      <3> QED BY <1>1, <1>2, <2>2, <3>1, QueueFacts, Appended DEF Homes
    <2> QED BY <2>1, <2>2
  <1> HIDE DEF last
  <1>8. Homes'
    BY <1>1, <1>2, <1>7, QueueFacts DEF Homes
  <1>9. ASSUME NEW q \in Request PROVE Stage(q)'
    <2>1. CASE q # r
      <3>1. out'[q] = out[q] /\ rehydrate'[q] = rehydrate[q] /\ st'[q] = st[q]
        BY <1>1, <1>3, <1>5, <2>1
      <3> QED BY <1>1, <1>2, <1>7, <2>1, <3>1, QueueFacts, OthersStay
    <2>2. CASE q = r
      BY <1>1, <1>2, <1>6, <1>7, <2>2, NewStage
    <2> QED BY <2>1, <2>2
  <1>10. [KVNext]_kvVars
    BY <1>2, <1>4 DEF KVNext
  <1> QED BY <1>8, <1>9, <1>10 DEF StepKeeps, Stages

\* The next token of a decode either ends its request or keeps it running.
LEMMA DecodeResultKeeps ==
    ASSUME SchedInv, NEW t \in Token, DecodeResult(t)
    PROVE  StepKeeps
  <1>0. PICK r : r = Head(todo)
    OBVIOUS
  <1> DEFINE last == CheckFinished(Append(out[r], t))
             kept == IF last THEN still ELSE Append(still, r)
  <1>1. /\ pc = "dresults" /\ todo' = Tail(todo)
        /\ out' = [out EXCEPT ![r] = Append(@, t)]
        /\ IF last THEN CommitPagedCache(r, TRUE) ELSE UNCHANGED <<st, cached, free, kv>>
        /\ Tail(todo) = <<>> => running' = kept /\ still' = <<>> /\ pc' = "idle"
        /\ Tail(todo) # <<>> => UNCHANGED <<running, pc>> /\ still' = kept
        /\ UNCHANGED <<rehydrate, submitted, waiting, retracted, prefilling, toPrefill, ready>>
    BY <1>0 DEF DecodeResult, Emit
  <1>2. /\ r \in Request /\ r \in Elems(todo) /\ r \notin Elems(todo')
        /\ Elems(todo) = {r} \cup Elems(todo') /\ NoRepeat(todo') /\ NoRepeat(still)
    <2>1. todo # <<>> /\ NoRepeat(todo) /\ NoRepeat(still)
      BY <1>1, QueueFacts DEF StepLocals, Homes
    <2> QED BY <1>0, <1>1, <2>1, QueueFacts, HeadAndTail
  <1>3. Decoded(r)
    BY <1>1, <1>2, QueueFacts DEF Stage
  <1>4. /\ r \in submitted /\ r \notin Elems(waiting) /\ r \notin Elems(retracted)
        /\ r \notin Elems(prefilling) \cup Elems(toPrefill) \cup Elems(ready)
        /\ r \notin Elems(still)
    BY <1>1, <1>2, <1>3, Elsewhere
  <1>5. out'[r] = Append(out[r], t) /\ \A q \in Request \ {r} : out'[q] = out[q]
    BY <1>1, <1>2, QueueFacts DEF KVTypeOK
  <1>6. NextToken(r, t)
    BY <1>1, <1>3, <1>5 DEF NextToken, Decoded
  <1>7. /\ \A q \in Request \ {r} : st'[q] = st[q]
        /\ ~last => st'[r].len = st[r].len
    <2>1. CASE last
      BY <1>1, <1>2, <2>1, QueueFacts, CommittedState
    <2>2. CASE ~last
      BY <1>1, <2>2
    <2> QED BY <2>1, <2>2
  <1>8. ~last => MayDecode(r)'
    BY <1>1, <1>2, <1>3, <1>7, QueueFacts, TokenToFeed DEF Decoded, Running
  <1>9. /\ NoRepeat(kept) /\ Elems(kept) \subseteq Elems(still) \cup {r}
        /\ last => r \notin Elems(kept)
    <2>1. CASE last
      BY <1>2, <1>4, <2>1
    <2>2. CASE ~last
      <3>1. kept = Append(still, r)
        BY <2>2
      <3> HIDE DEF last, kept
      <3> QED BY <1>2, <1>4, <2>2, <3>1, QueueFacts, Appended
    <2> QED BY <2>1, <2>2
  <1> HIDE DEF last, kept
  <1>10. [KVNext]_kvVars
    BY <1>2, <1>6 DEF KVNext
  <1>11. Homes'
    BY <1>1, <1>2, <1>9, QueueFacts DEF Homes
  <1>12. ASSUME NEW q \in Request PROVE Stage(q)'
    <2>1. CASE q # r
      <3>1. out'[q] = out[q] /\ rehydrate'[q] = rehydrate[q] /\ st'[q] = st[q]
        BY <1>1, <1>5, <1>7, <2>1
      <3>2. q \in Elems(kept) => q \in Elems(still)
        BY <1>9, <2>1
      <3>3. CASE Tail(todo) = <<>>
        BY <1>1, <2>1, <3>1, <3>2, <3>3, QueueFacts, OthersStay
      <3>4. CASE Tail(todo) # <<>>
        BY <1>1, <1>2, <2>1, <3>1, <3>2, <3>4, QueueFacts, OthersStay
      <3> QED BY <3>3, <3>4
    <2>2. CASE q = r
      <3>1. r \in Elems(kept) => MayDecode(r)'
        BY <1>8, <1>9
      <3>2. CASE Tail(todo) = <<>>
        BY <1>1, <1>4, <2>2, <3>1, <3>2, NewStage
      <3>3. CASE Tail(todo) # <<>>
        BY <1>1, <1>2, <1>4, <2>2, <3>1, <3>3, NewStage
      <3> QED BY <3>2, <3>3
    <2> QED BY <2>1, <2>2
  <1> QED BY <1>10, <1>11, <1>12 DEF StepKeeps, Stages

-------------------------------------------------------------------------------
(* The refinement. *)

\* The invariant holds at the start.
LEMMA SchedInit == Init => SchedInv
  <1> SUFFICES ASSUME Init PROVE SchedInv
    OBVIOUS
  <1>1. KVInv /\ AdmissionInv
    BY InitKeeps, AdmissionInit DEF Init
  <1>2. /\ pc = "idle" /\ submitted = {} /\ waiting = <<>> /\ retracted = <<>>
        /\ prefilling = <<>> /\ running = <<>> /\ toPrefill = <<>> /\ ready = <<>>
    BY DEF Init
  <1>3. Elems(<<>>) = {} /\ NoRepeat(<<>>)
    BY DEF Elems, NoRepeat
  <1>4. \A r \in Request : Fresh(r)
    BY DEF Init, KVInit, Fresh
  <1>5. Homes
    BY <1>2, <1>3 DEF Homes
  <1>6. Stages
    BY <1>2, <1>3, <1>4 DEF Stages, Stage
  <1> QED BY <1>1, <1>5, <1>6 DEF SchedInv

\* Every action of the scheduler keeps the homes and the stages.
LEMMA SchedSteps == SchedInv /\ [Next]_vars => StepKeeps
  <1> SUFFICES ASSUME SchedInv, [Next]_vars PROVE StepKeeps
    OBVIOUS
  <1>1. CASE \E r \in Request : AddRequest(r)
    BY <1>1, AddRequestKeeps
  <1>2. CASE BeginStep \/ EndPrefilling \/ EndAlloc \/ EndStep \/ Quiet \/ UNCHANGED vars
    BY <1>2, PhasesKeep
  <1>3. CASE BatchedPrefillFails \/ BatchedDecodeFails \/ ExhaustedStep
    BY <1>3, FailuresKeep
  <1>4. CASE \/ ContinuePrefilling \/ RehydrateFromCache \/ AdmitRetracted
             \/ \E i \in 1 .. Len(waiting) : AdmitWaiting(i)
             \/ EndRetracted \/ EndWaiting
    BY <1>4, ContinuePrefillingKeeps, RehydrateFromCacheKeeps, AdmitRetractedKeeps,
       AdmitWaitingKeeps, EndLoopsKeep
  <1>5. CASE \/ ResumeReady \/ AllocPrefill \/ AllocPrefillFails \/ BatchedPrefill
             \/ AllocDecode \/ AllocDecodeFails \/ BatchedDecode
             \/ \E v \in Request : RetractVictim(v)
    BY <1>5, ResumeReadyKeeps, AllocPrefillKeeps, AllocPrefillFailsKeeps, BatchedPrefillKeeps,
       AllocDecodeKeeps, AllocDecodeFailsKeeps, BatchedDecodeKeeps, RetractVictimKeeps
  <1>6. CASE \/ PrefillUnfinished \/ Rehydrated \/ \E t \in Token : FirstResult(t)
             \/ \E t \in Token : DecodeResult(t)
    BY <1>6, PrefillUnfinishedKeeps, RehydratedKeeps, FirstResultKeeps, DecodeResultKeeps
  <1> QED BY <1>1, <1>2, <1>3, <1>4, <1>5, <1>6 DEF Next, StepPaged

\* The invariant is inductive, and each step is a step or a stutter of PagedKV.
LEMMA SchedNext == SchedInv /\ [Next]_vars => SchedInv' /\ [KVNext]_kvVars
  <1> SUFFICES ASSUME SchedInv, [Next]_vars PROVE SchedInv' /\ [KVNext]_kvVars
    OBVIOUS
  <1>1. [KVNext]_kvVars /\ Homes' /\ Stages'
    BY SchedSteps DEF StepKeeps
  <1>2. KVInv'
    BY <1>1, NextKeeps DEF SchedInv
  <1>3. AdmissionInv'
    BY AdmissionNext DEF SchedInv
  <1> QED BY <1>1, <1>2, <1>3 DEF SchedInv

\* The invariant holds in every reachable state.
LEMMA SchedInvariant == Spec => []SchedInv
  <1>1. SchedInv /\ [Next]_vars => SchedInv'
    BY SchedNext
  <1> QED BY <1>1, SchedInit, PTL DEF Spec

\* Whatever step() does, in whatever order and with whatever exceptions, the
\* engine sees only the operations of PagedKV, each for a request in the state
\* the operation is for: no request is prefilled and decoded at once, resumed
\* with tokens missing, or prepared again while it holds a page table.
THEOREM SchedulerImplementsKV == Spec => KVSpec
  <1>1. Init => KVInit
    BY DEF Init
  <1>2. SchedInv /\ [Next]_vars => [KVNext]_kvVars
    BY SchedNext
  <1> QED BY <1>1, <1>2, SchedInvariant, PTL DEF Spec, KVSpec

\* So attention reads the right history under the scheduler: nobody's KV is
\* overwritten, evicted or mixed up while a step is halfway, after an exception
\* or across a retraction.
THEOREM SchedulerReadsRightHistory == Spec => []KVFaithful
  BY SchedulerImplementsKV, ReadsRightHistory, PTL

-------------------------------------------------------------------------------
(* The streams. *)

StreamType == stream \in [Request -> Seq(Token \cup {End})]

StreamInv == StreamType /\ StreamWellFormed

\* A token is put on the stream of a request that has not ended.
LEMMA EmitKeeps ==
    ASSUME KVTypeOK, StreamInv, NEW r \in Request, NEW t \in Token, ~Finished(r),
           NEW last, last = CheckFinished(Append(out[r], t)), Emit(r, t, last)
    PROVE  StreamInv'
  <1> DEFINE o == out[r]
             n == Len(o)
             p == Append(o, t)
  <1>1. /\ o \in Seq(Token) /\ n \in Nat /\ stream[r] = o /\ n <= MaxNew
        /\ MaxNew \in Nat \ {0}
        /\ \A i \in 1 .. n - 1 : o[i] \notin StopTokens
    <2>1. o \in Seq(Token) /\ MaxNew \in Nat \ {0}
      BY MaxNewAssumption DEF KVTypeOK
    <2>2. stream[r] = o \o <<>>
      BY DEF StreamInv, StreamWellFormed
    <2>3. o \o <<>> = o /\ n \in Nat
      <3> HIDE DEF o
      <3> QED BY <2>1
    <2> QED BY <2>1, <2>2, <2>3 DEF StreamInv, StreamWellFormed
  <1>2. /\ out'[r] = p /\ \A q \in Request \ {r} : out'[q] = out[q]
        /\ stream'[r] = o \o (IF last THEN <<t, End>> ELSE <<t>>)
        /\ \A q \in Request \ {r} : stream'[q] = stream[q]
        /\ stream' = [stream EXCEPT ![r] = stream'[r]]
    <2>1. out' = [out EXCEPT ![r] = Append(@, t)]
          /\ stream' = [stream EXCEPT ![r] = @ \o (IF last THEN <<t, End>> ELSE <<t>>)]
      BY DEF Emit
    <2>2. out \in [Request -> Seq(Token)] /\ stream \in [Request -> Seq(Token \cup {End})]
      BY DEF KVTypeOK, StreamInv, StreamType
    <2> QED BY <1>1, <2>1, <2>2
  <1>3. o # <<>> => n < MaxNew /\ o[n] \notin StopTokens
    BY <1>1 DEF Finished, CheckFinished
  <1>4. /\ p # <<>> /\ Len(p) = n + 1 /\ \A i \in 1 .. n : p[i] = o[i]
        /\ o \o <<t>> = p /\ o \o <<t, End>> = p \o <<End>> /\ p \o <<>> = p
        /\ p \in Seq(Token \cup {End}) /\ p \o <<End>> \in Seq(Token \cup {End})
    <2> HIDE DEF o
    <2>1. p # <<>> /\ Len(p) = n + 1 /\ \A i \in 1 .. n : p[i] = o[i]
      BY <1>1
    <2>2. o \o <<t>> = p
      BY <1>1
    <2>3. o \o <<t, End>> = p \o <<End>>
      BY <1>1
    <2>4. o \in Seq(Token \cup {End}) /\ p \in Seq(Token \cup {End})
      BY <1>1
    <2> HIDE DEF p
    <2>5. p \o <<>> = p
      BY <2>4
    <2>6. p \o <<End>> \in Seq(Token \cup {End})
      BY <2>4
    <2> QED BY <2>1, <2>2, <2>3, <2>4, <2>5, <2>6
  <1>5. Finished(r)' = last
    <2>1. out'[r] # <<>> /\ CheckFinished(out'[r]) = last
      BY <1>2, <1>4
    <2> QED BY <2>1 DEF Finished, CheckFinished
  <1>6. /\ stream'[r] = p \o (IF last THEN <<End>> ELSE <<>>)
        /\ stream'[r] \in Seq(Token \cup {End})
    <2> HIDE DEF o, p
    <2> QED BY <1>2, <1>4
  <1>7. Len(p) <= MaxNew
    <2>1. CASE o = <<>>
      <3>1. n = 0
        BY <2>1
      <3> QED BY <1>1, <1>4, <3>1
    <2>2. CASE o # <<>>
      BY <1>1, <1>3, <1>4, <2>2
    <2> QED BY <2>1, <2>2
  <1>8. \A i \in 1 .. Len(p) - 1 : p[i] \notin StopTokens
    <2> SUFFICES ASSUME NEW i \in 1 .. n PROVE o[i] \notin StopTokens
      BY <1>1, <1>4
    <2>1. o # <<>>
      BY <1>1
    <2>2. i \in 1 .. n - 1 \/ i = n
      BY <1>1
    <2> QED BY <1>1, <1>3, <2>1, <2>2
  <1> HIDE DEF o, n, p
  <1>9. ASSUME NEW q \in Request
        PROVE  /\ stream'[q] = out'[q] \o (IF Finished(q)' THEN <<End>> ELSE <<>>)
               /\ Len(out'[q]) <= MaxNew
               /\ \A i \in 1 .. Len(out'[q]) - 1 : out'[q][i] \notin StopTokens
    <2>1. CASE q = r
      BY <1>2, <1>5, <1>6, <1>7, <1>8, <2>1
    <2>2. CASE q # r
      <3>1. out'[q] = out[q] /\ stream'[q] = stream[q] /\ Finished(q)' = Finished(q)
        BY <1>2, <2>2 DEF Finished
      <3> QED BY <3>1 DEF StreamInv, StreamWellFormed
    <2> QED BY <2>1, <2>2
  <1>10. StreamType'
    BY <1>2, <1>6 DEF StreamInv, StreamType
  <1> QED BY <1>9, <1>10 DEF StreamInv, StreamWellFormed

\* What the streams hold is kept by every step.
LEMMA StreamNext == SchedInv /\ StreamInv /\ [Next]_vars => StreamInv'
  <1> SUFFICES ASSUME SchedInv, StreamInv, [Next]_vars PROVE StreamInv'
    OBVIOUS
  <1>1. CASE \E t \in Token : FirstResult(t)
    <2>1. PICK t \in Token : FirstResult(t)
      BY <1>1
    <2>2. PICK r : r = Head(toPrefill)
      OBVIOUS
    <2>3. /\ pc = "results" /\ toPrefill' = Tail(toPrefill)
          /\ Emit(r, t, CheckFinished(Append(out[r], t)))
      BY <2>1, <2>2 DEF FirstResult, NextResult
    <2>4. r \in Request /\ ~Finished(r)
      BY <2>2, <2>3, BatchHead DEF InPrefill, Prefilling
    <2> QED BY <2>3, <2>4, QueueFacts, EmitKeeps
  <1>2. CASE \E t \in Token : DecodeResult(t)
    <2>1. PICK t \in Token : DecodeResult(t)
      BY <1>2
    <2>2. PICK r : r = Head(todo)
      OBVIOUS
    <2>3. pc = "dresults" /\ Emit(r, t, CheckFinished(Append(out[r], t)))
      BY <2>1, <2>2 DEF DecodeResult
    <2>4. r \in Request /\ r \in Elems(todo)
      <3>1. todo # <<>>
        BY <2>3, QueueFacts DEF StepLocals
      <3> QED BY <2>2, <3>1, QueueFacts, HeadAndTail
    <2>5. ~Finished(r)
      BY <2>3, <2>4, QueueFacts DEF Stage, Decoded, Running
    <2> QED BY <2>3, <2>4, <2>5, QueueFacts, EmitKeeps
  <1>3. CASE UNCHANGED <<out, stream>>
    BY <1>3 DEF StreamInv, StreamType, StreamWellFormed, Finished
  <1>4. \/ \E t \in Token : FirstResult(t)
        \/ \E t \in Token : DecodeResult(t)
        \/ UNCHANGED <<out, stream>>
    <2>1. CASE UNCHANGED vars
      BY <2>1 DEF vars, kvVars
    <2>2. CASE \E r \in Request : AddRequest(r)
      BY <2>2 DEF AddRequest, kvVars
    <2>3. CASE \/ BeginStep \/ EndPrefilling \/ EndRetracted \/ EndWaiting \/ ResumeReady
               \/ EndAlloc \/ EndStep \/ Quiet
      BY <2>3 DEF BeginStep, EndPrefilling, EndRetracted, EndWaiting, ResumeReady, EndAlloc,
                  EndStep, Quiet, vars, kvVars
    <2>4. CASE \/ ContinuePrefilling \/ RehydrateFromCache \/ AdmitRetracted
               \/ \E i \in 1 .. Len(waiting) : AdmitWaiting(i)
      BY <2>4 DEF ContinuePrefilling, RehydrateFromCache, AdmitRetracted, AdmitWaiting, Admit
    <2>5. CASE \/ AllocPrefill \/ AllocPrefillFails \/ BatchedPrefill \/ BatchedPrefillFails
               \/ AllocDecode \/ AllocDecodeFails \/ BatchedDecode \/ BatchedDecodeFails
               \/ ExhaustedStep
      BY <2>5 DEF AllocPrefill, AllocPrefillFails, BatchedPrefill, BatchedPrefillFails,
                  AllocDecode, AllocDecodeFails, BatchedDecode, BatchedDecodeFails,
                  ExhaustedStep, kvVars
    <2>6. CASE \/ PrefillUnfinished \/ Rehydrated \/ \E v \in Request : RetractVictim(v)
      BY <2>6 DEF PrefillUnfinished, Rehydrated, RetractVictim, NextResult, kvVars
    <2> QED BY <1>3, <2>1, <2>2, <2>3, <2>4, <2>5, <2>6 DEF Next, StepPaged
  <1> QED BY <1>1, <1>2, <1>3, <1>4

\* A client reads the tokens of output_ids in order, each once, none after a
\* stop token or past max_new_tokens, and then exactly one sentinel, however
\* often the request is chunked, retracted or caught in a failing step.
THEOREM StreamsAreWellFormed == Spec => []StreamWellFormed
  <1>1. Init => StreamInv
    BY MaxNewAssumption DEF Init, KVInit, StreamInv, StreamType, StreamWellFormed, Finished
  <1>2. StreamInv => StreamWellFormed
    BY DEF StreamInv
  <1> QED BY <1>1, <1>2, SchedInvariant, StreamNext, PTL DEF Spec

-------------------------------------------------------------------------------
(* Types. *)

Phase ==
    {"idle", "prefilling", "retracted", "waiting", "resume", "alloc",
     "forward", "results", "decode", "exhausted", "dresults"}

\* The scheduler's own variables beyond its queues, and which of step()'s
\* locals are in use in which phase: a batch until its results are handled,
\* reservations while requests are admitted, rehydrated_ready until it joins
\* running, the decoded batch while its tokens are handled.
PhaseInv ==
    /\ pc \in Phase /\ submitted \subseteq Request
    /\ reserved \in Nat /\ faults \in 0 .. MaxFaults
    /\ pc \in {"idle", "decode", "exhausted", "dresults"} => toPrefill = <<>>
    /\ pc \notin {"prefilling", "retracted", "waiting"} => reserved = 0
    /\ pc \notin {"retracted", "waiting", "resume"} => ready = <<>>
    /\ pc # "dresults" => todo = <<>>

\* What a prefill asks for is a number of pages, in whatever state it is.
LEMMA PagesAsked ==
    ASSUME KVTypeOK, NEW r \in Request, Prefilling(r), NEW s \in StateType
    PROVE  PrefillNeeded(r, s, ChunkSize) \in Nat
  <1>1. s.len \in Nat /\ s.table \in Seq(Page) /\ ChunkSize \in Nat
    BY ChunkSizeAssumption, ChunkAssumption DEF StateType
  <1>2. Len(s.table) \in Nat /\ Len(PrefillIds(r)) \in Nat
    BY <1>1, PrefillIdsBound
  <1> DEFINE n == ChunkEnd(r, s, ChunkSize)
  <1>3. n \in Nat
    BY <1>1, <1>2 DEF ChunkEnd, Lesser
  <1> HIDE DEF n
  <1>4. PagesNeeded(n) \in Nat
    BY <1>3, PageCounts
  <1>5. Missing(s, n) \in Nat
    BY <1>2, <1>4 DEF Missing
  <1> QED BY <1>5 DEF PrefillNeeded, n

\* A request in the prefill pipeline asks for a number of pages.
LEMMA BatchAsks ==
    ASSUME SchedInv, NEW r \in Request, InPrefill(r)
    PROVE  PrefillNeeded(r, st[r], ChunkSize) \in Nat
  <1>1. KVTypeOK /\ st[r] \in StateType
    BY QueueFacts DEF KVTypeOK
  <1> QED BY <1>1, PagesAsked DEF InPrefill

\* So does one that was just prepared.
LEMMA PreparedAsks ==
    ASSUME SchedInv, NEW r \in Request, Prefilling(r), NEW s \in PreparedStates(r),
           st' = [st EXCEPT ![r] = s], out' = out
    PROVE  s \in StateType /\ PrefillNeeded(r, s, ChunkSize) \in Nat
  <1>1. st'[r] = s /\ KVTypeOK /\ KVInv
    BY QueueFacts DEF KVTypeOK
  <1>2. s \in StateType
    BY <1>1, PreparedFits
  <1> QED BY <1>1, <1>2, PagesAsked

\* A reservation is for a number of pages.
LEMMA AdmittedAsks ==
    ASSUME SchedInv, NEW r, NEW s, Admit(r, s),
           \/ r \in Request /\ InPrefill(r) /\ s = st[r]
           \/ r \in Request /\ (Fresh(r) \/ Away(r)) /\ s \in PreparedStates(r)
    PROVE  PrefillNeeded(r, s, ChunkSize) \in Nat
  <1>1. CASE InPrefill(r) /\ s = st[r]
    BY <1>1, BatchAsks
  <1>2. CASE (Fresh(r) \/ Away(r)) /\ s \in PreparedStates(r)
    <2>1. Prefilling(r)
      BY <1>2 DEF Fresh, Away, Prefilling, Finished
    <2>2. st' = [st EXCEPT ![r] = s] /\ out' = out
      BY DEF Admit
    <2> QED BY <1>2, <2>1, <2>2, PreparedAsks
  <1> QED BY <1>1, <1>2

\* Whom the admission loops admit, and in which state.
LEMMA Admissions ==
    ASSUME SchedInv,
           \/ ContinuePrefilling \/ AdmitRetracted
           \/ \E i \in 1 .. Len(waiting) : AdmitWaiting(i)
    PROVE  \E r \in Request : \E s :
             /\ Admit(r, s) /\ Fits(r, s) /\ pc \in {"prefilling", "retracted", "waiting"}
             /\ \/ InPrefill(r) /\ s = st[r] /\ r \in Elems(prefilling)
                \/ Fresh(r) /\ s \in PreparedStates(r)
                \/ Away(r) /\ s \in PreparedStates(r) /\ r \in Elems(retracted)
  <1>1. CASE ContinuePrefilling
    <2>1. PICK r : r = Head(prefilling)
      OBVIOUS
    <2>2. Admit(r, st[r]) /\ Fits(r, st[r]) /\ prefilling # <<>> /\ pc = "prefilling"
      BY <1>1, <2>1 DEF ContinuePrefilling
    <2>3. r \in Request /\ r \in Elems(prefilling)
      BY <2>1, <2>2, QueueFacts, HeadAndTail
    <2>4. InPrefill(r)
      BY <2>3, QueueFacts DEF Stage
    <2> QED BY <2>2, <2>3, <2>4
  <1>2. CASE AdmitRetracted
    <2>1. PICK r : r = Head(retracted)
      OBVIOUS
    <2>2. PICK s \in PreparedStates(r) : Fits(r, s) /\ Admit(r, s)
      BY <1>2, <2>1 DEF AdmitRetracted
    <2>3. retracted # <<>> /\ pc = "retracted"
      BY <1>2 DEF AdmitRetracted, RetractedOpen
    <2>4. r \in Request /\ r \in Elems(retracted)
      BY <2>1, <2>3, QueueFacts, HeadAndTail
    <2>5. Away(r)
      BY <2>4, QueueFacts DEF Stage
    <2> QED BY <2>2, <2>3, <2>4, <2>5
  <1>3. CASE \E i \in 1 .. Len(waiting) : AdmitWaiting(i)
    <2>1. PICK i \in 1 .. Len(waiting) : AdmitWaiting(i)
      BY <1>3
    <2>2. PICK r : r = waiting[i]
      OBVIOUS
    <2>3. PICK s \in PreparedStates(r) : Admit(r, s)
      BY <2>1, <2>2 DEF AdmitWaiting
    <2>4. Fits(r, s) /\ pc = "waiting"
      BY <2>1, <2>2, <2>3 DEF AdmitWaiting, CandidateFits, WaitingOpen
    <2>5. r \in Request /\ r \in Elems(waiting)
      <3>1. waiting \in Seq(Request)
        BY QueueFacts
      <3> QED BY <2>2, <3>1 DEF Elems
    <2>6. Fresh(r)
      BY <2>5, QueueFacts DEF Stage
    <2> QED BY <2>3, <2>4, <2>5, <2>6
  <1> QED BY <1>1, <1>2, <1>3

\* Each action leaves its phase with the locals of the next.
LEMMA PhasesNext == SchedInv /\ PhaseInv /\ [Next]_vars => PhaseInv'
  <1> SUFFICES ASSUME SchedInv, PhaseInv, [Next]_vars PROVE PhaseInv'
    OBVIOUS
  <1> USE DEF PhaseInv
  <1>1. CASE \E r \in Request : AddRequest(r)
    BY <1>1 DEF AddRequest, localVars
  <1>2. CASE UNCHANGED vars \/ Quiet
    BY <1>2 DEF Quiet, vars, queueVars, localVars
  <1>3. CASE \/ BeginStep \/ EndPrefilling \/ EndRetracted \/ EndWaiting \/ ResumeReady
             \/ EndAlloc \/ EndStep
    BY <1>3 DEF BeginStep, EndPrefilling, EndRetracted, EndWaiting, ResumeReady, EndAlloc,
                EndStep, queueVars, localVars, Phase
  <1>4. CASE \/ ContinuePrefilling \/ AdmitRetracted
             \/ \E i \in 1 .. Len(waiting) : AdmitWaiting(i)
    <2>1. PICK r, s :
            /\ r \in Request /\ Admit(r, s) /\ pc \in {"prefilling", "retracted", "waiting"}
            /\ PrefillNeeded(r, s, ChunkSize) \in Nat
      BY <1>4, Admissions, AdmittedAsks
    <2> QED BY <2>1 DEF Admit
  <1>5. CASE RehydrateFromCache
    BY <1>5 DEF RehydrateFromCache, RetractedOpen
  <1>6. CASE AllocPrefill \/ BatchedPrefill \/ AllocDecode \/ AllocDecodeFails \/ BatchedDecode
    BY <1>6 DEF AllocPrefill, BatchedPrefill, AllocDecode, AllocDecodeFails, BatchedDecode,
                queueVars, localVars, Phase
  <1>7. CASE AllocPrefillFails \/ ExhaustedStep
    BY <1>7 DEF AllocPrefillFails, ExhaustedStep, Raise, queueVars, Phase
  <1>8. CASE BatchedPrefillFails \/ BatchedDecodeFails
    BY <1>8, FaultAssumption DEF BatchedPrefillFails, BatchedDecodeFails, Raise, queueVars, Phase
  <1>9. CASE PrefillUnfinished \/ Rehydrated \/ \E t \in Token : FirstResult(t)
    BY <1>9 DEF PrefillUnfinished, Rehydrated, FirstResult, NextResult, Phase
  <1>10. CASE \E v \in Request : RetractVictim(v)
    BY <1>10 DEF RetractVictim, localVars, Phase
  <1>11. CASE \E t \in Token : DecodeResult(t)
    BY <1>11 DEF DecodeResult, Phase
  <1> QED BY <1>1, <1>2, <1>3, <1>4, <1>5, <1>6, <1>7, <1>8, <1>9, <1>10, <1>11
          DEF Next, StepPaged

\* The streams stay as they should.
LEMMA StreamInvariant == Spec => []StreamInv
  <1>1. Init => StreamInv
    BY MaxNewAssumption DEF Init, KVInit, StreamInv, StreamType, StreamWellFormed, Finished
  <1> QED BY <1>1, SchedInvariant, StreamNext, PTL DEF Spec

\* The locals of a phase are in use only in it.
LEMMA PhasesInvariant == Spec => []PhaseInv
  <1>1. Init => PhaseInv
    BY FaultAssumption DEF Init, PhaseInv, Phase
  <1> QED BY <1>1, SchedInvariant, PhasesNext, PTL DEF Spec

\* The step walks through its phases only, its queues hold requests, and what
\* it has reserved is a number of pages: a reservation is never negative,
\* whatever was cached when it was made.
THEOREM SchedulerTypeCorrect == Spec => []TypeOK
  <1>1. SchedInv /\ StreamInv /\ PhaseInv => TypeOK
    <2> SUFFICES ASSUME SchedInv, StreamInv, PhaseInv PROVE TypeOK
      OBVIOUS
    <2>1. \A q \in {waiting, retracted, prefilling, running, toPrefill, ready, todo, still} :
            q \in Seq(Request)
      BY QueueFacts
    <2>2. KVTypeOK /\ StreamType
      BY QueueFacts DEF StreamInv
    <2> QED BY <2>1, <2>2 DEF TypeOK, PhaseInv, Phase, StreamType
  <1> QED BY <1>1, SchedInvariant, StreamInvariant, PhasesInvariant, PTL

-------------------------------------------------------------------------------
(* Pages asked for by a batch. *)

\* The missing pages of the requests of S, one by one, and how many they are.
Claims(m, S) == UNION {{r} \X (1 .. m[r]) : r \in S}
Total(m, S) == Cardinality(Claims(m, S))

\* Nobody asks for nothing.
LEMMA TotalOfNone == \A m : Total(m, {}) = 0
  <1>1. \A m : Claims(m, {}) = {}
    BY DEF Claims
  <1> QED BY <1>1, FS_EmptySet DEF Total

\* Finitely many requests ask for finitely many pages.
LEMMA ClaimsFinite ==
    ASSUME NEW S, IsFiniteSet(S), NEW m, \A r \in S : m[r] \in Nat
    PROVE  IsFiniteSet(Claims(m, S)) /\ Total(m, S) \in Nat
  <1> DEFINE f == [r \in S |-> {r} \X (1 .. m[r])]
             C == {f[r] : r \in S}
  <1>1. f \in Surjection(S, C)
    BY DEF Surjection
  <1>2. IsFiniteSet(C)
    <2> HIDE DEF f, C
    <2> QED BY <1>1, FS_Surjection
  <1>3. ASSUME NEW c \in C PROVE IsFiniteSet(c)
    <2>1. PICK r \in S : c = {r} \X (1 .. m[r])
      OBVIOUS
    <2>2. IsFiniteSet({r}) /\ IsFiniteSet(1 .. m[r])
      <3>1. m[r] \in Int /\ 1 \in Int
        OBVIOUS
      <3> QED BY <3>1, FS_Interval, FS_Singleton
    <2> QED BY <2>1, <2>2, FS_Product
  <1>4. Claims(m, S) = UNION C
    BY DEF Claims
  <1>5. IsFiniteSet(UNION C)
    <2> HIDE DEF C
    <2> QED BY <1>2, <1>3, FS_UNION
  <1> QED BY <1>4, <1>5, FS_CardinalityType DEF Total

\* One more request asks for its own pages on top.
LEMMA TotalAdds ==
    ASSUME NEW S, IsFiniteSet(S), NEW r, r \notin S, NEW m, \A q \in S \cup {r} : m[q] \in Nat
    PROVE  Total(m, S \cup {r}) = Total(m, S) + m[r]
  <1> DEFINE C == Claims(m, S)
             D == {r} \X (1 .. m[r])
  <1>1. Claims(m, S \cup {r}) = C \cup D
    BY DEF Claims
  <1>2. IsFiniteSet(C) /\ Cardinality(C) \in Nat
    BY ClaimsFinite DEF Total
  <1>3. IsFiniteSet(D) /\ Cardinality(D) = m[r]
    <2>1. m[r] \in Nat /\ m[r] \in Int /\ 1 \in Int
      OBVIOUS
    <2>2. IsFiniteSet(1 .. m[r]) /\ Cardinality(1 .. m[r]) = m[r]
      BY <2>1, FS_Interval
    <2>3. IsFiniteSet({r}) /\ Cardinality({r}) = 1
      BY FS_Singleton
    <2>4. IsFiniteSet(D) /\ Cardinality(D) = Cardinality({r}) * Cardinality(1 .. m[r])
      BY <2>2, <2>3, FS_Product
    <2> QED BY <2>1, <2>2, <2>3, <2>4
  <1>4. C \cap D = {}
    BY DEF Claims
  <1> HIDE DEF D
  <1>5. Cardinality(C \cap D) = 0
    BY <1>4, FS_EmptySet
  <1>6. Cardinality(C \cup D) = Cardinality(C) + Cardinality(D) - Cardinality(C \cap D)
    BY <1>2, <1>3, FS_Union
  <1>7. m[r] \in Nat
    OBVIOUS
  <1> HIDE DEF C
  <1>8. Cardinality(C \cup D) = Cardinality(C) + m[r]
    BY <1>2, <1>3, <1>5, <1>6, <1>7
  <1> QED BY <1>1, <1>8 DEF Total, C

\* Only what the requests themselves ask for counts.
LEMMA TotalSame ==
    ASSUME NEW S, NEW m, NEW n, \A r \in S : m[r] = n[r]
    PROVE  Total(m, S) = Total(n, S)
  <1>1. Claims(m, S) = Claims(n, S)
    BY DEF Claims
  <1> QED BY <1>1 DEF Total

\* Nobody asks for more than all together.
LEMMA TotalBounds ==
    ASSUME NEW S, IsFiniteSet(S), NEW r \in S, NEW m, \A q \in S : m[q] \in Nat
    PROVE  /\ Total(m, S) = Total(m, S \ {r}) + m[r] /\ Total(m, S \ {r}) \in Nat
           /\ m[r] <= Total(m, S)
  <1> DEFINE T == S \ {r}
  <1>1. IsFiniteSet(T) /\ r \notin T /\ S = T \cup {r} /\ \A q \in T : m[q] \in Nat
    BY FS_Subset
  <1> HIDE DEF T
  <1>2. Total(m, T) \in Nat /\ Total(m, T \cup {r}) = Total(m, T) + m[r]
    BY <1>1, TotalAdds, ClaimsFinite
  <1>3. m[r] \in Nat
    OBVIOUS
  <1>4. Total(m, S) = Total(m, T) + m[r]
    BY <1>1, <1>2
  <1>5. m[r] <= Total(m, T) + m[r]
    BY <1>2, <1>3
  <1> QED BY <1>2, <1>4, <1>5 DEF T

\* A set of natural numbers has a least element.
LEMMA Least ==
    ASSUME NEW T, T \subseteq Nat, T # {}
    PROVE  \E x \in T : \A y \in T : x <= y
  <1>1. IsWellFoundedOn(OpToRel(<, Nat), Nat)
    BY NatLessThanWellFounded
  <1>2. PICK x \in T : \A y \in T : ~(<<y, x>> \in OpToRel(<, Nat))
    BY <1>1, WFMin
  <1>3. \A y \in T : ~(y < x)
    BY <1>2 DEF OpToRel
  <1> QED BY <1>3

\* f adds up what the requests of every part of A ask for, one at a time.
Sums(f, A, m) ==
    f = [R \in SUBSET A |->
           IF R = {} THEN 0
           ELSE LET r == CHOOSE r \in R : TRUE IN m[r] + f[R \ {r}]]

\* However it is added up, it is the number of pages asked for.
LEMMA SumIsTotal ==
    ASSUME NEW A, IsFiniteSet(A), NEW m, \A r \in A : m[r] \in Nat, NEW f, Sums(f, A, m)
    PROVE  f[A] = Total(m, A)
  <1> DEFINE Wrong == {R \in SUBSET A : f[R] # Total(m, R)}
             Sizes == {Cardinality(R) : R \in Wrong}
  <1>1. \A R \in SUBSET A : IsFiniteSet(R) /\ Cardinality(R) \in Nat
    BY FS_Subset, FS_CardinalityType
  <1>2. ASSUME Wrong # {} PROVE FALSE
    <2>1. Sizes \subseteq Nat /\ Sizes # {}
      BY <1>1, <1>2
    <2>2. PICK n \in Sizes : \A k \in Sizes : n <= k
      <3> HIDE DEF Sizes
      <3> QED BY <2>1, Least
    <2>3. PICK R \in Wrong : n = Cardinality(R)
      BY <2>2
    <2>4. R \in SUBSET A /\ f[R] # Total(m, R) /\ IsFiniteSet(R) /\ n \in Nat
      BY <1>1, <2>3
    <2>5. R # {}
      <3>1. {} \in SUBSET A
        OBVIOUS
      <3>2. f[{}] = 0
        BY <3>1 DEF Sums
      <3> QED BY <2>4, <3>2, TotalOfNone
    <2>6. PICK r : r = CHOOSE x \in R : TRUE
      OBVIOUS
    <2>7. r \in R
      BY <2>5, <2>6
    <2>8. f[R] = m[r] + f[R \ {r}]
      BY <2>4, <2>5, <2>6 DEF Sums
    <2>9. R \ {r} \in SUBSET A /\ Cardinality(R \ {r}) = n - 1
      BY <2>3, <2>4, <2>7, FS_RemoveElement
    <2>10. f[R \ {r}] = Total(m, R \ {r})
      <3>1. SUFFICES ASSUME R \ {r} \in Wrong PROVE FALSE
        BY <2>9
      <3>2. n - 1 \in Sizes
        BY <2>9, <3>1
      <3>3. n <= n - 1
        BY <2>2, <3>2
      <3> QED BY <2>4, <3>3
    <2>11. Total(m, R) = Total(m, R \ {r}) + m[r] /\ Total(m, R \ {r}) \in Nat /\ m[r] \in Nat
      <3>1. \A q \in R : m[q] \in Nat
        BY <2>4
      <3> QED BY <2>4, <2>7, <3>1, TotalBounds
    <2> QED BY <2>4, <2>8, <2>10, <2>11
  <1> QED BY <1>2

\* And it can be added up.
LEMMA SumsExist ==
    ASSUME NEW A, IsFiniteSet(A), NEW m, \A r \in A : m[r] \in Nat
    PROVE  \E f : Sums(f, A, m)
  <1> DEFINE f == [R \in SUBSET A |-> Total(m, R)]
  <1>1. ASSUME NEW R \in SUBSET A
        PROVE  Total(m, R) = IF R = {} THEN 0
                             ELSE LET r == CHOOSE r \in R : TRUE IN m[r] + f[R \ {r}]
    <2>1. CASE R = {}
      BY <2>1, TotalOfNone
    <2>2. CASE R # {}
      <3>1. PICK r : r = CHOOSE x \in R : TRUE
        OBVIOUS
      <3>2. r \in R
        BY <2>2, <3>1
      <3>3. IsFiniteSet(R) /\ \A q \in R : m[q] \in Nat
        BY FS_Subset
      <3>4. Total(m, R) = Total(m, R \ {r}) + m[r] /\ Total(m, R \ {r}) \in Nat /\ m[r] \in Nat
        BY <3>2, <3>3, TotalBounds
      <3>5. R \ {r} \in SUBSET A /\ f[R \ {r}] = Total(m, R \ {r})
        OBVIOUS
      <3>6. Total(m, R) = m[r] + f[R \ {r}]
        <4> HIDE DEF f
        <4> QED BY <3>4, <3>5
      <3> QED BY <2>2, <3>1, <3>6
    <2> QED BY <2>1, <2>2
  <1>2. Sums(f, A, m)
    BY <1>1 DEF Sums
  <1> QED BY <1>2

-------------------------------------------------------------------------------
(* Pages that can be had. *)

\* The cache maps finitely many paths, and what can be had are so many pages.
LEMMA AvailablePages ==
    ASSUME KVInv
    PROVE  /\ IsFiniteSet(Cached) /\ IsFiniteSet(free) /\ Cardinality(free) \in Nat
           /\ \A states : /\ IsFiniteSet(Unlocked(states))
                          /\ Cardinality(Unlocked(states)) \in Nat
                          /\ Available(states) \in Nat
  <1>1. free \subseteq Page /\ cached \in [Cached -> Page]
    BY DEF KVInv, KVTypeOK
  <1>2. IsFiniteSet(free) /\ Cardinality(free) \in Nat
    BY <1>1, PageAssumption, FS_Subset, FS_CardinalityType
  <1>3. cached \in Injection(Cached, Page)
    <2>1. \A p, q \in Cached : cached[p] = cached[q] => p = q
      BY DEF KVInv, PagesInv, PagesPartitioned
    <2> QED BY <1>1, <2>1 DEF Injection, IsInjective
  <1>4. IsFiniteSet(Cached)
    BY <1>3, PageAssumption, FS_Injection
  <1>5. ASSUME NEW states
        PROVE  /\ IsFiniteSet(Unlocked(states)) /\ Cardinality(Unlocked(states)) \in Nat
               /\ Available(states) \in Nat
    <2>1. Unlocked(states) \in SUBSET Cached
      BY DEF Unlocked
    <2>2. IsFiniteSet(Unlocked(states)) /\ Cardinality(Unlocked(states)) \in Nat
      BY <1>4, <2>1, FS_Subset, FS_CardinalityType
    <2> QED BY <1>2, <2>2 DEF Available
  <1> QED BY <1>2, <1>4, <1>5

\* As many pages come back from the cache as paths are evicted.
LEMMA EvictedCount ==
    ASSUME KVInv, NEW E, E \subseteq Cached
    PROVE  IsFiniteSet(PagesAt(E)) /\ Cardinality(PagesAt(E)) = Cardinality(E)
  <1> DEFINE f == [p \in E |-> cached[p]]
  <1>1. \A p, q \in Cached : cached[p] = cached[q] => p = q
    BY DEF KVInv, PagesInv, PagesPartitioned
  <1>2. \A p \in E : f[p] \in PagesAt(E)
    BY DEF PagesAt
  <1>3. \A g \in PagesAt(E) : \E p \in E : f[p] = g
    BY DEF PagesAt
  <1>4. f \in [E -> PagesAt(E)]
    BY <1>2
  <1>5. \A p, q \in E : f[p] = f[q] => p = q
    BY <1>1
  <1> HIDE DEF f
  <1>6. f \in Surjection(E, PagesAt(E))
    BY <1>3, <1>4 DEF Surjection
  <1>7. f \in Injection(E, PagesAt(E))
    BY <1>4, <1>5 DEF Injection, IsInjective
  <1>8. IsFiniteSet(E)
    BY AvailablePages, FS_Subset
  <1> QED BY <1>6, <1>7, <1>8, FS_Surjection

\* The first n elements of a list.
Listed(f, n) == {f[i] : i \in 1 .. n}

\* A list of n different elements has n elements.
LEMMA ListedCount ==
    ASSUME NEW S, NEW n \in Nat, NEW f \in [1 .. n -> S],
           \A i, j \in 1 .. n : f[i] = f[j] => i = j
    PROVE  IsFiniteSet(Listed(f, n)) /\ Cardinality(Listed(f, n)) = n
  <1> DEFINE I == 1 .. n
             T == {f[i] : i \in I}
  <1>1. IsFiniteSet(I) /\ Cardinality(I) = n
    BY FS_Interval
  <1>2. f \in [I -> T] /\ (\A t \in T : \E i \in I : f[i] = t)
    OBVIOUS
  <1>3. \A i, j \in I : f[i] = f[j] => i = j
    OBVIOUS
  <1> HIDE DEF I, T
  <1>4. f \in Surjection(I, T)
    BY <1>2 DEF Surjection
  <1>5. f \in Injection(I, T)
    BY <1>2, <1>3 DEF Injection, IsInjective
  <1>6. IsFiniteSet(T) /\ Cardinality(T) = n
    BY <1>1, <1>4, <1>5, FS_Surjection
  <1> QED BY <1>6 DEF I, T, Listed

\* A page table that grows by n pages leaves n pages less to be had, however
\* many of them had to be evicted.
LEMMA GrowTakes ==
    ASSUME KVInv, NEW r \in Request, NEW n \in Nat, GrowTable(r, n)
    PROVE  Available(st)' = Available(st) - n
  <1>0. KVTypeOK /\ PagesPartitioned
    BY DEF KVInv, PagesInv
  <1>1. PICK E \in EvictSets(n - Cardinality(free)) :
          /\ ExtendTable(r, n, free \cup PagesAt(E))
          /\ cached' = WithoutPaths(E)
    BY DEF GrowTable
  <1> DEFINE pool == free \cup PagesAt(E)
  <1>2. PICK new \in [1 .. n -> pool] :
          /\ \A i, j \in 1 .. n : new[i] = new[j] => i = j
          /\ st' = [st EXCEPT ![r].table = @ \o new]
          /\ free' = pool \ {new[i] : i \in 1 .. n}
    BY <1>1 DEF ExtendTable
  <1>3. /\ IsFiniteSet(Cached) /\ IsFiniteSet(free) /\ Cardinality(free) \in Nat
        /\ IsFiniteSet(Unlocked(st)) /\ Cardinality(Unlocked(st)) \in Nat
    BY AvailablePages
  <1>4. n - Cardinality(free) \in Int
    BY <1>3
  <1>5. E \subseteq Cached /\ E \subseteq Unlocked(st) /\ Cached' = Cached \ E
    BY <1>1, <1>4, EvictedUnlocked, EvictionKeeps
  <1>6. /\ IsFiniteSet(E) /\ Cardinality(E) \in Nat
        /\ IsFiniteSet(PagesAt(E)) /\ Cardinality(PagesAt(E)) = Cardinality(E)
    BY <1>3, <1>5, FS_Subset, FS_CardinalityType, EvictedCount
  <1>7. IsFiniteSet(pool) /\ Cardinality(pool) = Cardinality(free) + Cardinality(E)
    <2>1. free \cap PagesAt(E) = {}
      BY <1>0, <1>5 DEF PagesPartitioned, PagesAt
    <2>2. Cardinality(free \cap PagesAt(E)) = 0
      BY <2>1, FS_EmptySet
    <2>3. /\ IsFiniteSet(pool)
          /\ Cardinality(pool) = Cardinality(free) + Cardinality(PagesAt(E))
                                   - Cardinality(free \cap PagesAt(E))
      BY <1>3, <1>6, FS_Union
    <2> HIDE DEF pool
    <2> QED BY <1>3, <1>6, <2>2, <2>3
  <1>8. Cardinality(free') = Cardinality(pool) - n
    <2> DEFINE N == Listed(new, n)
    <2>1. N \subseteq pool /\ free' = pool \ N
      BY <1>2 DEF Listed
    <2> HIDE DEF pool
    <2>2. Cardinality(N) = n
      BY <1>2, ListedCount
    <2> HIDE DEF N
    <2>3. pool \cap N = N
      BY <2>1
    <2>4. Cardinality(pool \ N) = Cardinality(pool) - Cardinality(pool \cap N)
      BY <1>7, FS_Difference
    <2> QED BY <2>1, <2>2, <2>3, <2>4
  <1>9. Unlocked(st)' = Unlocked(st) \ E
    <2>1. \A q \in Request : st'[q].node = st[q].node
      BY <1>0, <1>2 DEF KVTypeOK, StateType
    <2> QED BY <1>5, <2>1 DEF Unlocked
  <1>10. Cardinality(Unlocked(st) \ E) = Cardinality(Unlocked(st)) - Cardinality(E)
    <2>1. Unlocked(st) \cap E = E
      BY <1>5
    <2> QED BY <1>3, <2>1, FS_Difference
  <1> HIDE DEF pool
  <1>11. /\ Available(st)' = Cardinality(free') + Cardinality(Unlocked(st)')
         /\ Available(st) = Cardinality(free) + Cardinality(Unlocked(st))
    BY DEF Available
  <1> QED BY <1>3, <1>6, <1>7, <1>8, <1>9, <1>10, <1>11

-------------------------------------------------------------------------------
(* Reservations. *)

\* Not both a cache and retraction: nobody is rehydrated from the cache, past
\* the check of free pages.
NoFreeRehydration == ~(EnableRetraction /\ CacheOn)

\* What the batch still asks for.
Asked == Total(PrefillMissing, Elems(toPrefill))

Covering == pc \in {"prefilling", "retracted", "waiting", "resume", "alloc"}

\* While requests are admitted, the reservation is what they ask for, and it
\* can be had, until they have it.
CoverInv ==
    /\ ready = <<>>
    /\ ~EnableRetraction => retracted = <<>>
    /\ LockHeld => Asked = reserved
    /\ Covering => Asked <= Available(st)

\* What the batch asks for, request by request.
LEMMA BatchFacts ==
    ASSUME SchedInv
    PROVE  /\ Elems(toPrefill) \subseteq Request /\ IsFiniteSet(Elems(toPrefill))
           /\ \A q \in Elems(toPrefill) : /\ InPrefill(q) /\ PrefillMissing[q] \in Nat
                                          /\ PrefillMissing[q] = PrefillNeeded(q, st[q], ChunkSize)
           /\ Asked \in Nat
  <1> DEFINE B == Elems(toPrefill)
  <1>1. B \subseteq Request
    BY QueueFacts DEF Elems
  <1>2. IsFiniteSet(B)
    BY <1>1, RequestAssumption, FS_Subset
  <1>3. ASSUME NEW q \in B
        PROVE  /\ InPrefill(q) /\ PrefillMissing[q] \in Nat
               /\ PrefillMissing[q] = PrefillNeeded(q, st[q], ChunkSize)
    <2>1. q \in Request /\ InPrefill(q)
      BY <1>1, QueueFacts DEF Stage
    <2> QED BY <2>1, BatchAsks DEF PrefillMissing
  <1> HIDE DEF B
  <1>4. Total(PrefillMissing, B) \in Nat
    BY <1>2, <1>3, ClaimsFinite
  <1> QED BY <1>1, <1>2, <1>3, <1>4 DEF B, Asked

\* Requests a step does not touch ask for what they asked for before.
LEMMA AsksSame ==
    ASSUME SchedInv, NEW S, S \subseteq Request,
           \A q \in S : out'[q] = out[q] /\ rehydrate'[q] = rehydrate[q] /\ st'[q] = st[q]
    PROVE  Total(PrefillMissing', S) = Total(PrefillMissing, S)
  <1>1. ASSUME NEW q \in S PROVE PrefillMissing'[q] = PrefillMissing[q]
    <2>1. q \in Request /\ out'[q] = out[q] /\ rehydrate'[q] = rehydrate[q] /\ st'[q] = st[q]
      OBVIOUS
    <2>2. PrefillNeeded(q, st[q], ChunkSize)' = PrefillNeeded(q, st[q], ChunkSize)
      BY <2>1, SameStage
    <2> QED BY <2>1, <2>2 DEF PrefillMissing
  <1> QED BY <1>1, TotalSame

\* A step that touches neither the batch nor the pages.
LEMMA CoverStays ==
    ASSUME SchedInv, CoverInv, UNCHANGED <<out, rehydrate, st, cached, free, toPrefill>>,
           ready' = <<>>, ~EnableRetraction => retracted' = <<>>,
           LockHeld' => LockHeld /\ reserved' = reserved, Covering' => Covering
    PROVE  CoverInv'
  <1>1. Elems(toPrefill) \subseteq Request
    BY BatchFacts
  <1>2. \A q \in Elems(toPrefill) :
          out'[q] = out[q] /\ rehydrate'[q] = rehydrate[q] /\ st'[q] = st[q]
    OBVIOUS
  <1>3. Total(PrefillMissing', Elems(toPrefill)) = Total(PrefillMissing, Elems(toPrefill))
    BY <1>1, <1>2, AsksSame
  <1>4. Asked' = Asked
    BY <1>3 DEF Asked
  <1>5. Available(st)' = Available(st)
    BY DEF Available, Unlocked, Cached
  <1> QED BY <1>4, <1>5 DEF CoverInv

\* A step that leads to a phase in which nothing is reserved.
LEMMA CoverEnds ==
    ASSUME ~Covering', ready' = <<>>, ~EnableRetraction => retracted' = <<>>
    PROVE  CoverInv'
  BY DEF CoverInv, Covering, LockHeld

\* An admission asks for what it reserves, and reserves what can be had.
LEMMA CoverAdmits ==
    ASSUME SchedInv, CoverInv, PhaseInv, ~EnableRetraction => retracted' = <<>>,
           \/ ContinuePrefilling \/ AdmitRetracted
           \/ \E i \in 1 .. Len(waiting) : AdmitWaiting(i)
    PROVE  CoverInv'
  <1>0. PICK r \in Request : \E s :
          /\ Admit(r, s) /\ Fits(r, s) /\ pc \in {"prefilling", "retracted", "waiting"}
          /\ \/ InPrefill(r) /\ s = st[r] /\ r \in Elems(prefilling)
             \/ Fresh(r) /\ s \in PreparedStates(r)
             \/ Away(r) /\ s \in PreparedStates(r) /\ r \in Elems(retracted)
    BY Admissions
  <1>1. PICK s :
          /\ Admit(r, s) /\ Fits(r, s) /\ pc \in {"prefilling", "retracted", "waiting"}
          /\ \/ InPrefill(r) /\ s = st[r] /\ r \in Elems(prefilling)
             \/ Fresh(r) /\ s \in PreparedStates(r)
             \/ Away(r) /\ s \in PreparedStates(r) /\ r \in Elems(retracted)
    BY <1>0
  <1> DEFINE B == Elems(toPrefill)
             n == PrefillNeeded(r, s, ChunkSize)
  <1>2. /\ reserved' = reserved + n /\ toPrefill' = Append(toPrefill, r)
        /\ st' = [st EXCEPT ![r] = s]
        /\ UNCHANGED <<out, rehydrate, cached, free, kv, pc, submitted, running, ready>>
    BY <1>1 DEF Admit
  <1>3. n \in Nat
    BY <1>1, AdmittedAsks
  <1>4. /\ B \subseteq Request /\ IsFiniteSet(B) /\ Asked \in Nat
        /\ \A q \in B : InPrefill(q) /\ PrefillMissing[q] \in Nat
    BY BatchFacts
  <1>5. r \notin B
    <2>1. CASE r \in Elems(prefilling)
      BY <2>1, QueueFacts DEF Homes
    <2>2. CASE Fresh(r) \/ Away(r)
      BY <1>4, <2>2, QueueFacts, OneStage
    <2> QED BY <1>1, <2>1, <2>2
  <1>6. Elems(toPrefill') = B \cup {r}
    BY <1>2, QueueFacts, Appended
  <1>7. st'[r] = s /\ \A q \in Request \ {r} : st'[q] = st[q]
    BY <1>2, QueueFacts DEF KVTypeOK
  <1>8. PrefillMissing'[r] = n
    <2>1. PrefillIds(r)' = PrefillIds(r)
      BY <1>2 DEF PrefillIds, Ids
    <2>2. PrefillNeeded(r, st[r], ChunkSize)' = n
      BY <1>7, <2>1 DEF PrefillNeeded, PrefillComplete, ChunkEnd
    <2> QED BY <2>2 DEF PrefillMissing
  <1>9. Total(PrefillMissing', B) = Asked /\ \A q \in B : PrefillMissing'[q] = PrefillMissing[q]
    <2>1. \A q \in B : out'[q] = out[q] /\ rehydrate'[q] = rehydrate[q] /\ st'[q] = st[q]
      BY <1>2, <1>4, <1>5, <1>7
    <2>2. Total(PrefillMissing', B) = Asked
      BY <1>4, <2>1, AsksSame DEF Asked
    <2>3. ASSUME NEW q \in B PROVE PrefillMissing'[q] = PrefillMissing[q]
      <3>1. q \in Request /\ out'[q] = out[q] /\ rehydrate'[q] = rehydrate[q] /\ st'[q] = st[q]
        BY <1>4, <2>1
      <3>2. PrefillNeeded(q, st[q], ChunkSize)' = PrefillNeeded(q, st[q], ChunkSize)
        BY <3>1, SameStage
      <3> QED BY <3>1, <3>2 DEF PrefillMissing
    <2> QED BY <2>2, <2>3
  <1> HIDE DEF B, n
  <1>10. Asked' = Asked + n
    <2>1. \A q \in B \cup {r} : PrefillMissing'[q] \in Nat
      BY <1>3, <1>4, <1>8, <1>9
    <2>2. Total(PrefillMissing', B \cup {r}) = Total(PrefillMissing', B) + PrefillMissing'[r]
      BY <1>4, <1>5, <2>1, TotalAdds
    <2> QED BY <1>6, <1>8, <1>9, <2>2 DEF Asked
  <1>11. Asked = reserved
    BY <1>1 DEF CoverInv, LockHeld
  <1>12. n <= Available(st') - reserved
    BY <1>1, <1>2 DEF Fits, n
  <1>13. Available(st)' = Available(st')
    BY <1>2 DEF Available, Unlocked, Cached
  <1>14. Available(st') \in Nat
    <2>1. KVInv
      BY QueueFacts
    <2> QED BY <2>1, AvailablePages
  <1>15. Asked' <= Available(st)'
    BY <1>3, <1>4, <1>10, <1>11, <1>12, <1>13, <1>14
  <1>16. Asked' = reserved'
    BY <1>2, <1>10, <1>11
  <1> QED BY <1>2, <1>15, <1>16 DEF CoverInv

\* A page table that grows takes what its request asked for.
LEMMA CoverGrows ==
    ASSUME SchedInv, CoverInv, AllocPrefill
    PROVE  CoverInv'
  <1>1. PICK r \in FirstShort(toPrefill, PrefillMissing) : GrowTable(r, PrefillMissing[r])
    BY DEF AllocPrefill
  <1>2. /\ pc = "alloc"
        /\ UNCHANGED <<out, rehydrate, pc, retracted, toPrefill, ready>>
    BY DEF AllocPrefill, queueVars, localVars
  <1> DEFINE B == Elems(toPrefill)
             C == B \ {r}
             n == PrefillMissing[r]
  <1>3. r \in B /\ n > 0
    BY <1>1 DEF FirstShort, Elems
  <1>4. /\ B \subseteq Request /\ IsFiniteSet(B) /\ Asked \in Nat
        /\ \A q \in B : PrefillMissing[q] \in Nat
        /\ r \in Request /\ InPrefill(r) /\ n \in Nat
        /\ n = PrefillNeeded(r, st[r], ChunkSize)
    BY <1>3, BatchFacts
  <1>5. Asked = Total(PrefillMissing, C) + n /\ Total(PrefillMissing, C) \in Nat
    <2> HIDE DEF n, B
    <2> QED BY <1>3, <1>4, TotalBounds DEF Asked, n, B
  <1>6. \A q \in Request \ {r} : st'[q] = st[q]
    BY <1>1, <1>2, <1>4, GrownStage
  <1>7. Total(PrefillMissing', C) = Total(PrefillMissing, C)
    <2>1. C \subseteq Request
          /\ \A q \in C : out'[q] = out[q] /\ rehydrate'[q] = rehydrate[q] /\ st'[q] = st[q]
      BY <1>2, <1>4, <1>6
    <2> HIDE DEF C
    <2> QED BY <2>1, AsksSame
  <1>8. PrefillMissing'[r] = 0
    <2>1. PICK new \in [1 .. n -> Page] : st' = [st EXCEPT ![r].table = @ \o new]
      <3>1. PICK E \in EvictSets(n - Cardinality(free)) : ExtendTable(r, n, free \cup PagesAt(E))
        BY <1>1 DEF GrowTable
      <3>2. free \cup PagesAt(E) \subseteq Page
        <4>1. KVTypeOK /\ n - Cardinality(free) \in Int
          BY <1>4, QueueFacts, AvailablePages
        <4>2. E \subseteq Cached
          BY <4>1, EvictedUnlocked
        <4> QED BY <4>1, <4>2 DEF KVTypeOK, PagesAt
      <3> QED BY <3>1, <3>2 DEF ExtendTable
    <2>2. st \in [Request -> StateType] /\ st[r].table \in Seq(Page)
      BY <1>4, QueueFacts DEF KVTypeOK, StateType
    <2>3. st'[r].len = st[r].len /\ st'[r].table = st[r].table \o new
      BY <1>4, <2>1, <2>2 DEF StateType
    <2>4. Len(st'[r].table) = Len(st[r].table) + n /\ Len(st[r].table) \in Nat
      <3> HIDE DEF n
      <3>1. Len(st[r].table \o new) = Len(st[r].table) + n
        BY <1>4, <2>1, <2>2, TableGrown
      <3> QED BY <2>2, <2>3, <3>1
    <2>5. PrefillIds(r)' = PrefillIds(r)
      BY <1>2 DEF PrefillIds, Ids
    <2>6. ~PrefillComplete(r, st[r])
      BY <1>3, <1>4 DEF PrefillNeeded
    <2> DEFINE m == ChunkEnd(r, st[r], ChunkSize)
    <2>7. ChunkEnd(r, st[r], ChunkSize)' = m
      BY <2>3, <2>5 DEF ChunkEnd
    <2>8. n = Missing(st[r], m) /\ m \in Nat
      <3>1. MayPrefill(r)
        BY <1>4, <2>6 DEF MayPrefill, InPrefill
      <3>2. ChunkSize \in Nat
        BY ChunkSizeAssumption, ChunkAssumption
      <3> QED BY <1>4, <3>1, <3>2, QueueFacts, ChunkBounds
    <2>9. PrefillMissing'[r] = IF PrefillComplete(r, st[r])' THEN 0 ELSE Missing(st'[r], m)
      BY <1>4, <2>7 DEF PrefillMissing, PrefillNeeded
    <2> HIDE DEF m, n
    <2>10. PagesNeeded(m) \in Nat
      BY <2>8, PageCounts
    <2>11. Missing(st'[r], m) = 0
      BY <1>3, <1>4, <2>4, <2>8, <2>10 DEF Missing
    <2> QED BY <2>9, <2>11
  <1>9. Asked' = Total(PrefillMissing, C)
    <2>1. IsFiniteSet(C) /\ B = C \cup {r} /\ r \notin C
      BY <1>3, <1>4, FS_Subset
    <2>2. \A q \in B : PrefillMissing'[q] \in Nat
      <3>1. ASSUME NEW q \in C PROVE PrefillMissing'[q] = PrefillMissing[q]
        <4>1. q \in Request /\ out'[q] = out[q] /\ rehydrate'[q] = rehydrate[q] /\ st'[q] = st[q]
          BY <1>2, <1>4, <1>6
        <4>2. PrefillNeeded(q, st[q], ChunkSize)' = PrefillNeeded(q, st[q], ChunkSize)
          BY <4>1, SameStage
        <4> QED BY <4>1, <4>2 DEF PrefillMissing
      <3> QED BY <1>4, <1>8, <3>1
    <2>3. Asked' = Total(PrefillMissing', B)
      BY <1>2 DEF Asked
    <2> HIDE DEF B, C
    <2>4. Total(PrefillMissing', C \cup {r}) = Total(PrefillMissing', C) + PrefillMissing'[r]
      BY <2>1, <2>2, TotalAdds
    <2> QED BY <1>5, <1>7, <1>8, <2>1, <2>3, <2>4
  <1>10. Available(st)' = Available(st) - n
    <2> HIDE DEF n
    <2> QED BY <1>1, <1>4, QueueFacts, GrowTakes DEF n
  <1>11. Asked <= Available(st) /\ Available(st) \in Nat
    <2>1. KVInv
      BY QueueFacts
    <2> QED BY <1>2, <2>1, AvailablePages DEF CoverInv, Covering
  <1>12. Asked' <= Available(st)'
    <2> HIDE DEF n, C
    <2> QED BY <1>4, <1>5, <1>9, <1>10, <1>11
  <1> QED BY <1>2, <1>12 DEF CoverInv, LockHeld

\* Without a cache a retracted request has something to run.
LEMMA NothingComplete ==
    ASSUME SchedInv, ~CacheOn, NEW r \in Request, Away(r), NEW s \in PreparedStates(r)
    PROVE  ~PrefillComplete(r, s)
  <1>1. ~st[r].prepared /\ rehydrate[r] /\ Prefilling(r) /\ out[r] # <<>>
    BY DEF Away, NoState, Prefilling
  <1>2. MatchPath(r) = <<>>
    BY DEF MatchPath
  <1>3. s.len = 0
    <2>1. PICK k \in 0 .. Len(MatchPath(r)) : s.len = k * PageSize
      BY <1>1 DEF PreparedStates
    <2>2. k = 0
      BY <1>2, <2>1
    <2> QED BY <2>1, <2>2, PageSizeAssumption
  <1>4. Len(PrefillIds(r)) + 1 = Len(Ids(r)) /\ Len(PrefillIds(r)) \in Nat
    BY <1>1, QueueFacts, PrefillLength
  <1>5. Len(Ids(r)) > 1
    <2> DEFINE a == Prompt[r]
               b == out[r]
    <2>1. a \in Seq(Token) /\ a # <<>> /\ b \in Seq(Token) /\ b # <<>> /\ Ids(r) = a \o b
      BY <1>1, PromptAssumption, QueueFacts DEF KVTypeOK, Ids
    <2> HIDE DEF a, b
    <2>2. Len(a) \in Nat \ {0} /\ Len(b) \in Nat \ {0}
      BY <2>1
    <2> QED BY <2>1, <2>2, ConcatPrefix
  <1> QED BY <1>3, <1>4, <1>5 DEF PrefillComplete

\* Without rehydration from the cache, what was reserved stays there.
LEMMA CoverNext ==
    ASSUME NoFreeRehydration, SchedInv, PhaseInv, CoverInv, [Next]_vars
    PROVE  CoverInv'
  <1>1. ready = <<>> /\ (~EnableRetraction => retracted = <<>>)
    BY DEF CoverInv
  <1> USE DEF LockHeld, Covering
  <1>2. CASE \E r \in Request : AddRequest(r)
    BY <1>1, <1>2, CoverStays DEF AddRequest, kvVars, localVars
  <1>3. CASE UNCHANGED vars \/ Quiet \/ EndPrefilling
    BY <1>1, <1>3, CoverStays DEF Quiet, EndPrefilling, vars, kvVars, queueVars, localVars
  <1>4. CASE BeginStep
    <2>1. /\ pc = "idle" /\ toPrefill = <<>> /\ reserved = 0 /\ pc' = "prefilling"
          /\ UNCHANGED <<cached, free, st, toPrefill, reserved, ready, retracted>>
      BY <1>4 DEF BeginStep, PhaseInv, kvVars, queueVars, localVars
    <2>2. Elems(toPrefill') = {}
      BY <2>1 DEF Elems
    <2>3. Asked' = 0
      BY <2>2, TotalOfNone DEF Asked
    <2>4. Available(st)' = Available(st)
      BY <2>1 DEF Available, Unlocked, Cached
    <2>5. Available(st) \in Nat
      <3>1. KVInv
        BY QueueFacts
      <3> QED BY <3>1, AvailablePages
    <2> QED BY <1>1, <2>1, <2>3, <2>4, <2>5 DEF CoverInv
  <1>5. CASE EndRetracted \/ EndWaiting
    <2>1. st' = st
      BY <1>5, EndLoopsLeave
    <2> QED BY <1>1, <1>5, <2>1, CoverStays DEF EndRetracted, EndWaiting, queueVars, localVars
  <1>6. CASE \/ ContinuePrefilling \/ AdmitRetracted
             \/ \E i \in 1 .. Len(waiting) : AdmitWaiting(i)
    <2>1. retracted = <<>> => retracted' = <<>>
      BY <1>6 DEF ContinuePrefilling, AdmitRetracted, AdmitWaiting, RetractedOpen
    <2> QED BY <1>1, <1>6, <2>1, CoverAdmits
  <1>7. CASE RehydrateFromCache
    <2>1. PICK r : r = Head(retracted)
      OBVIOUS
    <2>2. PICK s \in PreparedStates(r) : PrefillComplete(r, s)
      BY <1>7, <2>1 DEF RehydrateFromCache
    <2>3. retracted # <<>>
      BY <1>7 DEF RehydrateFromCache, RetractedOpen
    <2>4. r \in Request /\ r \in Elems(retracted)
      BY <2>1, <2>3, QueueFacts, HeadAndTail
    <2>5. Away(r)
      BY <2>4, QueueFacts DEF Stage
    <2>6. ~CacheOn
      BY <1>1, <2>3 DEF NoFreeRehydration
    <2> QED BY <2>2, <2>4, <2>5, <2>6, NothingComplete
  <1>8. CASE ResumeReady
    <2>1. /\ UNCHANGED <<out, st, cached, free, toPrefill, retracted, reserved>>
          /\ ready' = <<>> /\ pc = "resume" /\ pc' \in {"decode", "alloc"}
          /\ rehydrate' = [r \in Request |-> rehydrate[r] /\ r \notin Elems(ready)]
      BY <1>8 DEF ResumeReady
    <2>2. rehydrate' = rehydrate
      <3>1. \A r \in Request : r \notin Elems(ready)
        BY <1>1 DEF Elems
      <3>2. rehydrate \in [Request -> BOOLEAN]
        BY QueueFacts DEF KVTypeOK
      <3>3. \A r \in Request : rehydrate'[r] = rehydrate[r]
        BY <2>1, <3>1, <3>2
      <3> QED BY <2>1, <3>2, <3>3
    <2> QED BY <1>1, <2>1, <2>2, CoverStays
  <1>9. CASE AllocPrefill
    BY <1>9, CoverGrows
  <1>10. CASE \/ EndAlloc \/ BatchedPrefill \/ EndStep \/ AllocDecode \/ AllocDecodeFails
              \/ BatchedDecode
    BY <1>1, <1>10, CoverEnds DEF EndAlloc, BatchedPrefill, EndStep, AllocDecode,
       AllocDecodeFails, BatchedDecode, queueVars, localVars
  <1>11. CASE AllocPrefillFails \/ ExhaustedStep \/ BatchedPrefillFails \/ BatchedDecodeFails
    BY <1>1, <1>11, CoverEnds DEF AllocPrefillFails, ExhaustedStep, BatchedPrefillFails,
       BatchedDecodeFails, Raise, queueVars
  <1>12. CASE PrefillUnfinished \/ Rehydrated \/ \E t \in Token : FirstResult(t)
    BY <1>1, <1>12, CoverEnds DEF PrefillUnfinished, Rehydrated, FirstResult, NextResult
  <1>13. CASE \E v \in Request : RetractVictim(v)
    BY <1>1, <1>13, CoverEnds DEF RetractVictim, localVars
  <1>14. CASE \E t \in Token : DecodeResult(t)
    BY <1>1, <1>14, CoverEnds DEF DecodeResult
  <1> QED BY <1>2, <1>3, <1>4, <1>5, <1>6, <1>7, <1>8, <1>9, <1>10, <1>11, <1>12, <1>13, <1>14
          DEF Next, StepPaged

\* What was reserved stays covered.
LEMMA CoverInvariant ==
    ASSUME NoFreeRehydration
    PROVE  Spec => []CoverInv
  <1>1. Init => CoverInv
    BY DEF Init, CoverInv, LockHeld, Covering
  <1>2. SchedInv /\ PhaseInv /\ CoverInv /\ [Next]_vars => CoverInv'
    BY CoverNext
  <1> QED BY <1>1, <1>2, SchedInvariant, PhasesInvariant, PTL DEF Spec

\* The pages of a batch, added up the way ReservationsCovered does.
LEMMA WantIsAsked ==
    ASSUME SchedInv, CoverInv
    PROVE  ReservationsCovered
  <1> DEFINE A == Elems(toPrefill)
             f == CHOOSE f : Sums(f, A, PrefillMissing)
  <1>1. IsFiniteSet(A) /\ \A q \in A : PrefillMissing[q] \in Nat
    BY BatchFacts
  <1>2. \E g : Sums(g, A, PrefillMissing)
    <2> HIDE DEF A
    <2> QED BY <1>1, SumsExist
  <1>3. Sums(f, A, PrefillMissing)
    BY <1>2
  <1>4. f[A] = Total(PrefillMissing, A)
    <2> HIDE DEF A, f
    <2> QED BY <1>1, <1>3, SumIsTotal
  <1>5. Covering => f[A] <= Available(st)
    BY <1>4 DEF CoverInv, Asked
  <1> QED BY <1>5 DEF ReservationsCovered, Covering, Sums

\* What admission promised is there when the batch allocates, for every pool,
\* prompt and chunk size, as long as nobody can be rehydrated from the cache
\* without a check of free pages (the case finding 1 is about): an admission
\* counts its own borrowed pages as locked, and no later one of the same step
\* takes what an earlier one was promised.
THEOREM ReservationsAreCovered ==
    ASSUME NoFreeRehydration
    PROVE  Spec => []ReservationsCovered
  <1>1. SchedInv /\ CoverInv => ReservationsCovered
    BY WantIsAsked
  <1> QED BY <1>1, SchedInvariant, CoverInvariant, PTL

\* No allocation of a covered batch fails.
LEMMA BatchAllocates ==
    ASSUME SchedInv, CoverInv
    PROVE  ~AllocPrefillFails
  <1> SUFFICES ASSUME AllocPrefillFails PROVE FALSE
    OBVIOUS
  <1>1. PICK r \in FirstShort(toPrefill, PrefillMissing) : Exhausted(PrefillMissing[r])
    BY DEF AllocPrefillFails
  <1>2. r \in Elems(toPrefill) /\ PrefillMissing[r] > Available(st) /\ Covering
    BY <1>1 DEF AllocPrefillFails, FirstShort, Elems, Exhausted, Covering
  <1>3. /\ IsFiniteSet(Elems(toPrefill)) /\ Asked \in Nat
        /\ \A q \in Elems(toPrefill) : PrefillMissing[q] \in Nat
    BY BatchFacts
  <1>4. PrefillMissing[r] <= Asked
    BY <1>2, <1>3, TotalBounds DEF Asked
  <1>5. Asked <= Available(st) /\ Available(st) \in Nat
    <2>1. KVInv
      BY QueueFacts
    <2> QED BY <1>2, <2>1, AvailablePages DEF CoverInv
  <1>6. PrefillMissing[r] \in Nat
    BY <1>2, <1>3
  <1> QED BY <1>2, <1>3, <1>4, <1>5, <1>6

\* So the allocation of a batch that was admitted never fails, and no request
\* is lost with it.
THEOREM AdmittedBatchesAllocate ==
    ASSUME NoFreeRehydration
    PROVE  Spec => [][~AllocPrefillFails]_vars
  <1>1. SchedInv /\ CoverInv => [~AllocPrefillFails]_vars
    BY BatchAllocates
  <1> QED BY <1>1, SchedInvariant, CoverInvariant, PTL

-------------------------------------------------------------------------------
(* Nobody is lost. *)

\* No step drops a batch: the prefill's forward does not fail, and (as no
\* reservation is undone) neither does its allocation.
NoBatchDropped == NoFreeRehydration /\ "prefill" \notin Faults

\* The requests that run on, while the tokens of a decode are handled too.
Going == IF pc = "dresults" THEN Elems(todo) \cup Elems(still) ELSE Elems(running)

Placed(r) ==
    \/ r \in Elems(waiting) \/ r \in Elems(retracted) \/ r \in Elems(prefilling)
    \/ r \in Elems(toPrefill) \/ r \in Elems(ready) \/ r \in Going

\* Until it has finished a request has a place, and who has pages has one.
Kept(r) == (r \in submitted => Finished(r) \/ Placed(r)) /\ (st[r] # NoState => Placed(r))

\* running is replaced after the last token of a decode; whoever finished on
\* the way is still in it.
Decoding ==
    /\ NoRepeat(running)
    /\ pc = "dresults" => /\ Going \subseteq Elems(running)
                          /\ \A r \in Elems(running) \ Going : Finished(r)

PlaceInv == Decoding /\ \A r \in Request : Kept(r)

\* What a step does that loses nobody: who was kept still is.
PlacesKept == Decoding' /\ \A r \in Request : Kept(r) => Kept(r)'

\* A request that a step does not touch keeps its place.
LEMMA StillKept ==
    ASSUME NEW r \in Request, Kept(r), out'[r] = out[r], st'[r] = st[r],
           r \in submitted' => r \in submitted, Placed(r) => Placed(r)'
    PROVE  Kept(r)'
  <1>1. Finished(r)' = Finished(r)
    BY DEF Finished
  <1> QED BY <1>1 DEF Kept

\* Who has a place is kept.
LEMMA PlacedKept ==
    ASSUME NEW r \in Request, Placed(r)'
    PROVE  Kept(r)'
  BY DEF Kept

\* Between decodes the running batch repeats nobody.
LEMMA NotDecoding ==
    ASSUME SchedInv', pc' # "dresults"
    PROVE  Decoding'
  BY DEF SchedInv, Homes, Decoding

\* The steps that leave every request where it is.
LEMMA NobodyMoves ==
    ASSUME SchedInv', Decoding,
           UNCHANGED <<out, st, submitted, waiting, retracted, prefilling, running, toPrefill,
                       ready>>,
           pc # "dresults", pc' # "dresults"
    PROVE  PlacesKept
  <1>1. ASSUME NEW r \in Request, Kept(r) PROVE Kept(r)'
    <2>1. Placed(r) => Placed(r)'
      BY DEF Placed, Going
    <2> QED BY <1>1, <2>1, StillKept
  <1> QED BY <1>1, NotDecoding DEF PlacesKept

\* A new request waits.
LEMMA AddRequestPlaces ==
    ASSUME SchedInv, SchedInv', Decoding, NEW r \in Request, AddRequest(r)
    PROVE  PlacesKept
  <1>1. /\ UNCHANGED <<kvVars, pc, retracted, prefilling, running, localVars>>
        /\ submitted' = submitted \cup {r} /\ waiting' = Append(waiting, r)
    BY DEF AddRequest
  <1>2. Elems(waiting') = Elems(waiting) \cup {r}
    BY <1>1, QueueFacts, Appended
  <1>3. Going' = Going
    BY <1>1 DEF Going, localVars
  <1>4. ASSUME NEW q \in Request, Kept(q) PROVE Kept(q)'
    <2>1. CASE q = r
      BY <1>2, <2>1, PlacedKept DEF Placed
    <2>2. CASE q # r
      BY <1>4, <1>1, <1>2, <1>3, <2>2, StillKept DEF Placed, kvVars, localVars
    <2> QED BY <2>1, <2>2
  <1>5. Decoding'
    BY <1>1, <1>3 DEF Decoding, Finished, kvVars
  <1> QED BY <1>4, <1>5 DEF PlacesKept

\* One request goes on to another place, and the others stay.
LEMMA OneMoves ==
    ASSUME SchedInv', Decoding, pc # "dresults", pc' # "dresults", NEW r \in Request, Placed(r)',
           submitted' = submitted, \A q \in Request \ {r} : out'[q] = out[q] /\ st'[q] = st[q],
           \A q \in Request \ {r} : Placed(q) => Placed(q)'
    PROVE  PlacesKept
  <1>1. ASSUME NEW q \in Request, Kept(q) PROVE Kept(q)'
    <2>1. CASE q = r
      BY <2>1, PlacedKept
    <2>2. CASE q # r
      BY <1>1, <2>2, StillKept
    <2> QED BY <2>1, <2>2
  <1> QED BY <1>1, NotDecoding DEF PlacesKept

\* A chunk of a prompt joins the batch.
LEMMA ContinuePrefillingPlaces ==
    ASSUME SchedInv, SchedInv', Decoding, ContinuePrefilling
    PROVE  PlacesKept
  <1>1. PICK r : r = Head(prefilling)
    OBVIOUS
  <1>2. /\ prefilling # <<>> /\ prefilling' = Tail(prefilling) /\ pc = "prefilling"
        /\ toPrefill' = Append(toPrefill, r) /\ st' = [st EXCEPT ![r] = st[r]]
        /\ UNCHANGED <<out, pc, submitted, waiting, retracted, running, ready>>
    BY <1>1 DEF ContinuePrefilling, Admit
  <1>3. r \in Request /\ Elems(prefilling) = {r} \cup Elems(prefilling')
    BY <1>1, <1>2, QueueFacts, HeadAndTail
  <1>4. Elems(toPrefill') = Elems(toPrefill) \cup {r}
    BY <1>2, <1>3, QueueFacts, Appended
  <1>5. \A q \in Request \ {r} : st'[q] = st[q]
    BY <1>2, QueueFacts DEF KVTypeOK
  <1> QED BY <1>2, <1>3, <1>4, <1>5, OneMoves DEF Placed, Going

\* The head of the retracted queue joins the batch, or rehydrated_ready.
LEMMA RetractedPlaces ==
    ASSUME SchedInv, SchedInv', Decoding, AdmitRetracted \/ RehydrateFromCache
    PROVE  PlacesKept
  <1>1. PICK r : r = Head(retracted)
    OBVIOUS
  <1>2. PICK s \in PreparedStates(r) :
          /\ st' = [st EXCEPT ![r] = s]
          /\ \/ toPrefill' = Append(toPrefill, r) /\ ready' = ready
             \/ ready' = Append(ready, r) /\ toPrefill' = toPrefill
    <2>1. CASE AdmitRetracted
      BY <1>1, <2>1 DEF AdmitRetracted, Admit
    <2>2. CASE RehydrateFromCache
      BY <1>1, <2>2 DEF RehydrateFromCache
    <2> QED BY <2>1, <2>2
  <1>3. /\ retracted # <<>> /\ retracted' = Tail(retracted) /\ pc = "retracted"
        /\ UNCHANGED <<out, pc, submitted, waiting, prefilling, running>>
    BY DEF AdmitRetracted, RehydrateFromCache, RetractedOpen, Admit
  <1>4. r \in Request /\ Elems(retracted) = {r} \cup Elems(retracted')
    BY <1>1, <1>3, QueueFacts, HeadAndTail
  <1>5. \/ Elems(toPrefill') = Elems(toPrefill) \cup {r} /\ ready' = ready
        \/ Elems(ready') = Elems(ready) \cup {r} /\ toPrefill' = toPrefill
    <2>1. /\ Elems(Append(toPrefill, r)) = Elems(toPrefill) \cup {r}
          /\ Elems(Append(ready, r)) = Elems(ready) \cup {r}
      BY <1>4, QueueFacts, Appended
    <2> QED BY <1>2, <2>1
  <1>6. \A q \in Request \ {r} : st'[q] = st[q]
    BY <1>2, QueueFacts DEF KVTypeOK
  <1>7. Placed(r)' /\ \A q \in Request \ {r} : Placed(q) => Placed(q)'
    BY <1>3, <1>4, <1>5 DEF Placed, Going
  <1> QED BY <1>3, <1>4, <1>6, <1>7, OneMoves

\* A request leaves the waiting queue for the batch, from wherever it is in it.
LEMMA AdmitWaitingPlaces ==
    ASSUME SchedInv, SchedInv', Decoding, NEW i \in 1 .. Len(waiting), AdmitWaiting(i)
    PROVE  PlacesKept
  <1>1. PICK r : r = waiting[i]
    OBVIOUS
  <1>2. PICK s \in PreparedStates(r) : Admit(r, s)
    BY <1>1 DEF AdmitWaiting
  <1>3. /\ pc = "waiting" /\ waiting' = Without(waiting, i)
        /\ toPrefill' = Append(toPrefill, r) /\ st' = [st EXCEPT ![r] = s]
        /\ UNCHANGED <<out, pc, submitted, retracted, prefilling, running, ready>>
    BY <1>1, <1>2 DEF AdmitWaiting, WaitingOpen, Admit
  <1>4. r \in Request /\ Elems(waiting') = Elems(waiting) \ {r}
    <2>1. waiting \in Seq(Request) /\ NoRepeat(waiting)
      BY QueueFacts DEF Homes
    <2>2. Elems(Without(waiting, i)) = Elems(waiting) \ {r}
      BY <1>1, <2>1, Removed
    <2> QED BY <1>1, <1>3, <2>1, <2>2
  <1>5. Elems(toPrefill') = Elems(toPrefill) \cup {r}
    BY <1>3, <1>4, QueueFacts, Appended
  <1>6. \A q \in Request \ {r} : st'[q] = st[q]
    BY <1>3, QueueFacts DEF KVTypeOK
  <1> QED BY <1>3, <1>4, <1>5, <1>6, OneMoves DEF Placed, Going

\* rehydrated_ready joins running.
LEMMA ResumeReadyPlaces ==
    ASSUME SchedInv, SchedInv', Decoding, ResumeReady
    PROVE  PlacesKept
  <1>1. /\ pc = "resume" /\ running' = running \o ready /\ ready' = <<>>
        /\ pc' \in {"decode", "alloc"}
        /\ UNCHANGED <<out, st, submitted, waiting, retracted, prefilling, toPrefill>>
    BY DEF ResumeReady
  <1>2. Elems(running') = Elems(running) \cup Elems(ready)
    BY <1>1, QueueFacts, Joined
  <1>3. ASSUME NEW q \in Request, Kept(q) PROVE Kept(q)'
    <2>1. Placed(q) => Placed(q)'
      BY <1>1, <1>2 DEF Placed, Going
    <2> QED BY <1>3, <1>1, <2>1, StillKept
  <1> QED BY <1>1, <1>3, NotDecoding DEF PlacesKept

\* A page table that grows belongs to a request with a place.
LEMMA GrowPlaces ==
    ASSUME SchedInv, SchedInv', Decoding, AllocPrefill \/ AllocDecode
    PROVE  PlacesKept
  <1>1. /\ UNCHANGED <<out, rehydrate, pc, submitted, waiting, retracted, prefilling, running,
                       toPrefill, ready, todo, still>>
        /\ pc # "dresults"
    BY DEF AllocPrefill, AllocDecode, queueVars, localVars
  <1>2. \E r \in Request : \E n : GrowTable(r, n) /\ Placed(r)
    <2>1. CASE AllocPrefill
      <3>1. PICK r \in FirstShort(toPrefill, PrefillMissing) : GrowTable(r, PrefillMissing[r])
        BY <2>1 DEF AllocPrefill
      <3>2. r \in Elems(toPrefill) /\ r \in Request
        BY QueueFacts DEF FirstShort, Elems
      <3> QED BY <3>1, <3>2 DEF Placed
    <2>2. CASE AllocDecode
      <3>1. PICK r \in FirstShort(running, DecodeMissing) : GrowTable(r, DecodeMissing[r])
        BY <2>2 DEF AllocDecode
      <3>2. r \in Elems(running) /\ r \in Request
        BY QueueFacts DEF FirstShort, Elems
      <3> QED BY <1>1, <3>1, <3>2 DEF Placed, Going
    <2> QED BY <2>1, <2>2
  <1>3. PICK r, n : r \in Request /\ GrowTable(r, n) /\ Placed(r)
    BY <1>2
  <1>4. \A q \in Request \ {r} : st'[q] = st[q]
    BY <1>1, <1>3, GrownStage
  <1>5. \A q \in Request : Placed(q) => Placed(q)'
    BY <1>1 DEF Placed, Going
  <1> QED BY <1>1, <1>3, <1>4, <1>5, OneMoves

\* The forwards write KV for the batch they run for.
LEMMA ForwardPlaces ==
    ASSUME SchedInv, SchedInv', Decoding, BatchedPrefill \/ BatchedDecode
    PROVE  PlacesKept
  <1>1. CASE BatchedPrefill
    <2>1. /\ pc = "forward" /\ pc' = "results"
          /\ UNCHANGED <<out, submitted, waiting, retracted, prefilling, running, toPrefill, ready>>
          /\ \A q \in Request \ Elems(toPrefill) : st'[q] = st[q]
      BY <1>1 DEF BatchedPrefill, Forward, queueVars, localVars
    <2>2. ASSUME NEW q \in Request, Kept(q) PROVE Kept(q)'
      <3>1. Placed(q) => Placed(q)'
        BY <2>1 DEF Placed, Going
      <3>2. CASE q \in Elems(toPrefill)
        BY <3>1, <3>2, PlacedKept DEF Placed
      <3>3. CASE q \notin Elems(toPrefill)
        BY <2>2, <2>1, <3>1, <3>3, StillKept
      <3> QED BY <3>2, <3>3
    <2> QED BY <2>1, <2>2, NotDecoding DEF PlacesKept
  <1>2. CASE BatchedDecode
    <2>1. /\ pc = "decode" /\ pc' = "dresults" /\ todo' = running /\ still' = still
          /\ UNCHANGED <<out, submitted, waiting, retracted, prefilling, running, toPrefill, ready>>
          /\ \A q \in Request \ Elems(running) : st'[q] = st[q]
      BY <1>2 DEF BatchedDecode, Forward, queueVars
    <2>2. Going' = Elems(running)
      <3>1. still' = <<>>
        BY <2>1, QueueFacts DEF StepLocals
      <3> QED BY <2>1, <3>1 DEF Going, Elems
    <2>3. ASSUME NEW q \in Request, Kept(q) PROVE Kept(q)'
      <3>1. Placed(q) => Placed(q)'
        BY <2>1, <2>2 DEF Placed, Going
      <3>2. CASE q \in Elems(running)
        BY <2>2, <3>2, PlacedKept DEF Placed
      <3>3. CASE q \notin Elems(running)
        BY <2>3, <2>1, <3>1, <3>3, StillKept
      <3> QED BY <3>2, <3>3
    <2>4. Decoding'
      BY <2>1, <2>2 DEF Decoding
    <2> QED BY <2>3, <2>4 DEF PlacesKept
  <1> QED BY <1>1, <1>2

\* allocate fails in decode, or the step does, when no batch is out.
LEMMA FailurePlaces ==
    ASSUME SchedInv, SchedInv', PhaseInv, Decoding,
           AllocDecodeFails \/ ExhaustedStep \/ BatchedDecodeFails
    PROVE  PlacesKept
  <1>1. CASE AllocDecodeFails
    <2>1. /\ UNCHANGED <<out, st, submitted, waiting, retracted, prefilling, running, toPrefill,
                         ready>>
          /\ pc # "dresults" /\ pc' # "dresults"
      BY <1>1 DEF AllocDecodeFails, Exhausted, queueVars, localVars
    <2> QED BY <2>1, NobodyMoves
  <1>2. CASE ExhaustedStep \/ BatchedDecodeFails
    <2>1. /\ UNCHANGED <<out, st, submitted, waiting, retracted, prefilling, running>>
          /\ pc \in {"exhausted", "decode"} /\ Raise
      BY <1>2 DEF ExhaustedStep, BatchedDecodeFails, queueVars, kvVars
    <2>2. toPrefill' = toPrefill /\ ready' = ready /\ pc # "dresults" /\ pc' # "dresults"
      BY <2>1 DEF PhaseInv, Raise
    <2> QED BY <2>1, <2>2, NobodyMoves
  <1> QED BY <1>1, <1>2

\* The victim goes from running to the head of the retracted queue.
LEMMA RetractVictimPlaces ==
    ASSUME SchedInv, SchedInv', Decoding, NEW v \in Request, RetractVictim(v)
    PROVE  PlacesKept
  <1>1. /\ pc = "exhausted" /\ pc' = "decode" /\ RetractPagedState(v)
        /\ retracted' = <<v>> \o retracted
        /\ UNCHANGED <<out, submitted, waiting, prefilling, toPrefill, ready>>
    BY DEF RetractVictim, localVars
  <1>2. Elems(running') = Elems(running) \ {v}
    <2>1. v \in Elems(running)
      BY DEF RetractVictim, Victims
    <2>2. PICK i \in 1 .. Len(running) : running[i] = v /\ running' = Without(running, i)
      <3>1. \E i \in 1 .. Len(running) : running[i] = v
        BY <2>1 DEF Elems
      <3> QED BY <3>1 DEF RetractVictim
    <2>3. running \in Seq(Request) /\ NoRepeat(running)
      BY <1>1, QueueFacts DEF Homes
    <2> QED BY <2>2, <2>3, Removed
  <1>3. Elems(retracted') = {v} \cup Elems(retracted)
    <2> DEFINE u == <<v>>
    <2>1. u \in Seq(Request) /\ Elems(u) = {v} /\ retracted' = u \o retracted
      BY <1>1, Single
    <2> HIDE DEF u
    <2> QED BY <2>1, QueueFacts, Joined
  <1>4. \A q \in Request \ {v} : st'[q] = st[q]
    BY <1>1, QueueFacts DEF RetractPagedState, KVTypeOK
  <1> QED BY <1>1, <1>2, <1>3, <1>4, OneMoves DEF Placed, Going

\* A request that has finished needs no place.
LEMMA FinishedKept ==
    ASSUME NEW r \in Request, Finished(r)', st'[r] = NoState
    PROVE  Kept(r)'
  BY DEF Kept

\* A token that ends its request: it is finished and its state is gone.
LEMMA LastToken ==
    ASSUME SchedInv, NEW r \in Request, NEW t \in Token, out'[r] = Append(out[r], t),
           CheckFinished(Append(out[r], t)), CommitPagedCache(r, TRUE)
    PROVE  Finished(r)' /\ st'[r] = NoState
  <1>1. out[r] \in Seq(Token) /\ st \in [Request -> StateType]
    BY QueueFacts DEF KVTypeOK
  <1>2. out'[r] # <<>>
    BY <1>1
  <1>3. st' = [st EXCEPT ![r] = NoState]
    BY DEF CommitPagedCache
  <1> QED BY <1>1, <1>2, <1>3 DEF Finished, CheckFinished

\* A request whose chunk was prefilled waits for the next one, runs, or has ended.
LEMMA ResultPlaces ==
    ASSUME SchedInv, SchedInv', Decoding,
           PrefillUnfinished \/ Rehydrated \/ \E t \in Token : FirstResult(t)
    PROVE  PlacesKept
  <1>1. PICK r : r = Head(toPrefill)
    OBVIOUS
  <1>2. /\ pc = "results" /\ pc' \in {"decode", "results"} /\ toPrefill' = Tail(toPrefill)
        /\ UNCHANGED <<submitted, waiting, retracted, ready>>
    BY DEF PrefillUnfinished, Rehydrated, FirstResult, NextResult
  <1>3. r \in Request /\ Elems(toPrefill) = {r} \cup Elems(toPrefill')
    BY <1>1, <1>2, BatchHead
  <1>4. CASE PrefillUnfinished
    <2>1. prefilling' = Append(prefilling, r) /\ UNCHANGED <<out, st, running>>
      BY <1>1, <1>4 DEF PrefillUnfinished, kvVars
    <2>2. Elems(prefilling') = Elems(prefilling) \cup {r}
      BY <1>3, <2>1, QueueFacts, Appended
    <2> QED BY <1>2, <1>3, <2>1, <2>2, OneMoves DEF Placed, Going
  <1>5. CASE Rehydrated
    <2>1. running' = Append(running, r) /\ UNCHANGED <<out, st, prefilling>>
      BY <1>1, <1>5 DEF Rehydrated
    <2>2. Elems(running') = Elems(running) \cup {r}
      BY <1>3, <2>1, QueueFacts, Appended
    <2> QED BY <1>2, <1>3, <2>1, <2>2, OneMoves DEF Placed, Going
  <1>6. CASE \E t \in Token : FirstResult(t)
    <2>1. PICK t \in Token : FirstResult(t)
      BY <1>6
    <2>2. PICK last : last = CheckFinished(Append(out[r], t))
      OBVIOUS
    <2>3. /\ out' = [out EXCEPT ![r] = Append(@, t)] /\ CommitPagedCache(r, last)
          /\ running' = (IF last THEN running ELSE Append(running, r))
          /\ prefilling' = prefilling
      BY <1>1, <2>1, <2>2 DEF FirstResult, Emit
    <2>4. out'[r] = Append(out[r], t) /\ \A q \in Request \ {r} : out'[q] = out[q]
      BY <1>3, <2>3, QueueFacts DEF KVTypeOK
    <2>5. \A q \in Request \ {r} : st'[q] = st[q]
      BY <1>3, <2>3, QueueFacts, CommittedState
    <2>6. CASE last
      <3>1. Finished(r)' /\ st'[r] = NoState
        <4>1. last = TRUE
          BY <2>2, <2>6 DEF CheckFinished
        <4> QED BY <1>3, <2>2, <2>3, <2>4, <4>1, LastToken
      <3>2. running' = running
        BY <2>3, <2>6
      <3>3. ASSUME NEW q \in Request, Kept(q) PROVE Kept(q)'
        <4>1. CASE q = r
          BY <3>1, <4>1, FinishedKept
        <4>2. CASE q # r
          <5>1. Placed(q) => Placed(q)'
            BY <1>2, <1>3, <2>3, <3>2, <4>2 DEF Placed, Going
          <5> QED BY <3>3, <1>2, <2>4, <2>5, <4>2, <5>1, StillKept
        <4> QED BY <4>1, <4>2
      <3> QED BY <1>2, <3>3, NotDecoding DEF PlacesKept
    <2>7. CASE ~last
      <3>1. running' = Append(running, r)
        BY <2>3, <2>7
      <3>2. Elems(running') = Elems(running) \cup {r}
        BY <1>3, <3>1, QueueFacts, Appended
      <3>3. Placed(r)' /\ \A q \in Request \ {r} : Placed(q) => Placed(q)'
        BY <1>2, <1>3, <2>3, <3>2 DEF Placed, Going
      <3> QED BY <1>2, <1>3, <2>4, <2>5, <3>3, OneMoves
    <2> QED BY <2>6, <2>7
  <1> QED BY <1>4, <1>5, <1>6

\* A request whose token was handled goes on or has ended.
LEMMA DecodeResultPlaces ==
    ASSUME SchedInv, SchedInv', Decoding, NEW t \in Token, DecodeResult(t)
    PROVE  PlacesKept
  <1>1. PICK r : r = Head(todo)
    OBVIOUS
  <1>2. PICK last : last = CheckFinished(Append(out[r], t))
    OBVIOUS
  <1>3. PICK kept : kept = (IF last THEN still ELSE Append(still, r))
    OBVIOUS
  <1>4. /\ pc = "dresults" /\ todo' = Tail(todo)
        /\ out' = [out EXCEPT ![r] = Append(@, t)]
        /\ IF last THEN CommitPagedCache(r, TRUE) ELSE UNCHANGED <<st, cached, free, kv>>
        /\ IF Tail(todo) = <<>> THEN running' = kept /\ still' = <<>> /\ pc' = "idle"
           ELSE UNCHANGED <<running, pc>> /\ still' = kept
        /\ UNCHANGED <<submitted, waiting, retracted, prefilling, toPrefill, ready>>
    BY <1>1, <1>2, <1>3 DEF DecodeResult, Emit
  <1>5. r \in Request /\ r \in Elems(todo) /\ Elems(todo) = {r} \cup Elems(todo')
    <2>1. todo # <<>>
      BY <1>4, QueueFacts DEF StepLocals
    <2> QED BY <1>1, <1>4, <2>1, QueueFacts, HeadAndTail
  <1>6. out'[r] = Append(out[r], t) /\ \A q \in Request \ {r} : out'[q] = out[q]
    BY <1>4, <1>5, QueueFacts DEF KVTypeOK
  <1>7. \A q \in Request \ {r} : st'[q] = st[q]
    <2>1. CASE last
      BY <1>4, <1>5, <2>1, QueueFacts, CommittedState
    <2>2. CASE ~last
      BY <1>4, <2>2
    <2> QED BY <2>1, <2>2
  <1>8. /\ last => Elems(kept) = Elems(still)
        /\ ~last => Elems(kept) = Elems(still) \cup {r}
    BY <1>3, <1>5, QueueFacts, Appended
  <1>9. Going = Elems(todo) \cup Elems(still)
    BY <1>4 DEF Going
  <1>10. Going' = Elems(todo') \cup Elems(kept)
    <2>1. CASE Tail(todo) = <<>>
      <3>1. Elems(todo') = {} /\ running' = kept /\ pc' = "idle"
        BY <1>4, <2>1 DEF Elems
      <3> QED BY <3>1 DEF Going
    <2>2. CASE Tail(todo) # <<>>
      BY <1>4, <2>2 DEF Going
    <2> QED BY <2>1, <2>2
  <1>11. last => Finished(r)' /\ st'[r] = NoState
    <2> SUFFICES ASSUME last PROVE Finished(r)' /\ st'[r] = NoState
      OBVIOUS
    <2> QED BY <1>2, <1>4, <1>5, <1>6, LastToken
  <1>12. \A q \in Request \ {r} : Placed(q) => Placed(q)'
    <2>1. \A q : q # r /\ q \in Going => q \in Going'
      BY <1>5, <1>8, <1>9, <1>10
    <2> QED BY <1>4, <2>1 DEF Placed
  <1>13. ASSUME NEW q \in Request, Kept(q) PROVE Kept(q)'
    <2>1. CASE q # r
      BY <1>13, <1>4, <1>6, <1>7, <1>12, <2>1, StillKept
    <2>2. CASE q = r /\ last
      BY <1>11, <2>2, FinishedKept
    <2>3. CASE q = r /\ ~last
      <3>1. Placed(q)'
        BY <1>8, <1>10, <2>3 DEF Placed
      <3> QED BY <3>1, PlacedKept
    <2> QED BY <2>1, <2>2, <2>3
  <1>14. Decoding'
    <2>1. CASE Tail(todo) = <<>>
      <3>1. pc' # "dresults"
        BY <1>4, <2>1
      <3> QED BY <3>1, NotDecoding
    <2>2. CASE Tail(todo) # <<>>
      <3>1. running' = running /\ pc' = pc
        BY <1>4, <2>2
      <3>2. /\ NoRepeat(running) /\ Going \subseteq Elems(running)
            /\ \A q \in Elems(running) \ Going : Finished(q)
        BY <1>4 DEF Decoding
      <3>3. Going' \subseteq Elems(running')
        BY <1>5, <1>8, <1>9, <1>10, <3>1, <3>2
      <3>4. ASSUME NEW q \in Elems(running') \ Going' PROVE Finished(q)'
        <4>1. CASE q = r
          <5>1. last
            BY <1>8, <1>10, <3>4, <4>1
          <5> QED BY <1>11, <4>1, <5>1
        <4>2. CASE q # r
          <5>1. q \in Elems(running) \ Going /\ q \in Request
            <6>1. q \notin Going
              BY <1>5, <1>8, <1>9, <1>10, <3>4, <4>2
            <6>2. q \in Elems(running)
              BY <3>1, <3>4
            <6>3. q \in Request
              BY <6>2, QueueFacts DEF Elems
            <6> QED BY <6>1, <6>2, <6>3
          <5>2. Finished(q) /\ out'[q] = out[q]
            BY <1>6, <3>2, <4>2, <5>1
          <5> QED BY <5>2 DEF Finished
        <4> QED BY <4>1, <4>2
      <3> QED BY <3>1, <3>2, <3>3, <3>4 DEF Decoding
    <2> QED BY <2>1, <2>2
  <1> QED BY <1>13, <1>14 DEF PlacesKept

\* The two steps that lose a batch: its prefill raises, in allocate or in the
\* model, and leaves everything but the step's own lists as it was.
PrefillRaises == AllocPrefillFails \/ BatchedPrefillFails

\* It happens in the phases of the prefill and ends the step.
LEMMA PrefillRaisesAlone ==
    ASSUME SchedInv', PhaseInv, PrefillRaises
    PROVE  /\ pc \in {"alloc", "forward"} /\ pc' = "idle" /\ ready = <<>> /\ Decoding'
           /\ UNCHANGED <<out, submitted, waiting, retracted, prefilling, running, stream>>
  <1>1. /\ pc \in {"alloc", "forward"} /\ pc' = "idle"
        /\ UNCHANGED <<out, submitted, waiting, retracted, prefilling, running, stream>>
    BY DEF PrefillRaises, AllocPrefillFails, BatchedPrefillFails, Raise, kvVars, queueVars
  <1> QED BY <1>1, NotDecoding DEF PhaseInv

\* Every other step leaves whoever is not done with a place.
LEMMA StepPlaces ==
    ASSUME SchedInv, SchedInv', PhaseInv, Decoding, [Next]_vars, ~PrefillRaises
    PROVE  PlacesKept
  <1>1. CASE \E r \in Request : AddRequest(r)
    BY <1>1, AddRequestPlaces
  <1>2. CASE UNCHANGED vars \/ Quiet
    <2>1. UNCHANGED <<out, st, pc, submitted, waiting, retracted, prefilling, running, toPrefill,
                      ready, todo, still>>
      BY <1>2 DEF Quiet, vars, kvVars, queueVars, localVars
    <2>2. Going' = Going
      BY <2>1 DEF Going
    <2>3. ASSUME NEW r \in Request, Kept(r) PROVE Kept(r)'
      <3>1. Placed(r) => Placed(r)'
        BY <2>1, <2>2 DEF Placed
      <3> QED BY <2>1, <2>3, <3>1, StillKept
    <2>4. Decoding'
      BY <2>1, <2>2 DEF Decoding, Finished
    <2> QED BY <2>3, <2>4 DEF PlacesKept
  <1>3. CASE BeginStep \/ EndPrefilling \/ EndAlloc \/ EndStep
    BY <1>3, NobodyMoves DEF BeginStep, EndPrefilling, EndAlloc, EndStep, kvVars, queueVars,
                             localVars
  <1>4. CASE EndRetracted \/ EndWaiting
    <2>1. st' = st
      BY <1>4, EndLoopsLeave
    <2> QED BY <1>4, <2>1, NobodyMoves DEF EndRetracted, EndWaiting, queueVars, localVars
  <1>5. CASE ContinuePrefilling
    BY <1>5, ContinuePrefillingPlaces
  <1>6. CASE AdmitRetracted \/ RehydrateFromCache
    BY <1>6, RetractedPlaces
  <1>7. CASE \E i \in 1 .. Len(waiting) : AdmitWaiting(i)
    BY <1>7, AdmitWaitingPlaces
  <1>8. CASE ResumeReady
    BY <1>8, ResumeReadyPlaces
  <1>9. CASE AllocPrefill \/ AllocDecode
    BY <1>9, GrowPlaces
  <1>10. ~AllocPrefillFails /\ ~BatchedPrefillFails
    BY DEF PrefillRaises
  <1>11. CASE BatchedPrefill \/ BatchedDecode
    BY <1>11, ForwardPlaces
  <1>12. CASE AllocDecodeFails \/ ExhaustedStep \/ BatchedDecodeFails
    BY <1>12, FailurePlaces
  <1>13. CASE PrefillUnfinished \/ Rehydrated \/ \E t \in Token : FirstResult(t)
    BY <1>13, ResultPlaces
  <1>14. CASE \E v \in Request : RetractVictim(v)
    BY <1>14, RetractVictimPlaces
  <1>15. CASE \E t \in Token : DecodeResult(t)
    BY <1>15, DecodeResultPlaces
  <1> QED BY <1>1, <1>2, <1>3, <1>4, <1>5, <1>6, <1>7, <1>8, <1>9, <1>10, <1>11, <1>12, <1>13,
             <1>14, <1>15 DEF Next, StepPaged

\* While a decode's tokens are handled, running is what it was.
LEMMA DecodingNext ==
    ASSUME SchedInv, SchedInv', PhaseInv, Decoding, [Next]_vars
    PROVE  Decoding'
  <1>1. CASE PrefillRaises
    BY <1>1, PrefillRaisesAlone
  <1>2. CASE ~PrefillRaises
    BY <1>2, StepPlaces DEF PlacesKept
  <1> QED BY <1>1, <1>2

\* So Decoding always holds, with nothing assumed of the constants.
LEMMA DecodingInvariant == Spec => []Decoding
  <1>1. Init => Decoding
    BY DEF Init, Decoding, NoRepeat
  <1>2. SchedInv /\ PhaseInv /\ Decoding /\ [Next]_vars => Decoding'
    BY SchedNext, DecodingNext
  <1> QED BY <1>1, <1>2, SchedInvariant, PhasesInvariant, PTL DEF Spec

\* Where no batch is dropped nobody is ever without a place.
LEMMA PlaceInvariant ==
    ASSUME NoBatchDropped
    PROVE  Spec => []PlaceInv
  <1>1. Init => PlaceInv
    <2> SUFFICES ASSUME Init PROVE PlaceInv
      OBVIOUS
    <2>1. Decoding
      BY DEF Init, Decoding, NoRepeat
    <2>2. ASSUME NEW r \in Request PROVE Kept(r)
      BY DEF Init, KVInit, Kept
    <2> QED BY <2>1, <2>2 DEF PlaceInv
  <1>2. SchedInv /\ PhaseInv /\ CoverInv /\ PlaceInv /\ [Next]_vars => PlaceInv'
    <2> SUFFICES ASSUME SchedInv, PhaseInv, CoverInv, PlaceInv, [Next]_vars PROVE PlaceInv'
      OBVIOUS
    <2>1. ~PrefillRaises
      BY BatchAllocates DEF NoBatchDropped, PrefillRaises, BatchedPrefillFails
    <2>2. PlacesKept
      BY <2>1, SchedNext, StepPlaces DEF PlaceInv
    <2> QED BY <2>2 DEF PlacesKept, PlaceInv
  <1>3. NoFreeRehydration
    BY DEF NoBatchDropped
  <1>4. Spec => []CoverInv
    BY <1>3, CoverInvariant
  <1> QED BY <1>1, <1>2, <1>4, SchedInvariant, PhasesInvariant, PTL DEF Spec

\* Whoever waits, was retracted or has finished gave its pages and its cache
\* locks back by the end of the step: nothing leaks from a step to the next,
\* whatever the step admitted, retracted, finished or failed on.
THEOREM IdleRequestsHoldNothing ==
    ASSUME NoBatchDropped
    PROVE  Spec => []OnlyActiveHoldPages
  <1>1. SchedInv /\ PhaseInv /\ PlaceInv => OnlyActiveHoldPages
    <2> SUFFICES ASSUME SchedInv, PhaseInv, PlaceInv, pc = "idle", NEW r \in Request,
                        st[r] # NoState
                 PROVE  r \in Elems(prefilling) \cup Elems(running)
      BY DEF OnlyActiveHoldPages
    <2>1. Placed(r)
      BY DEF PlaceInv, Kept
    <2>2. Elems(toPrefill) = {} /\ Elems(ready) = {}
      BY DEF PhaseInv, Elems
    <2>3. r \notin Elems(waiting) /\ r \notin Elems(retracted)
      BY QueueFacts DEF Stage, Fresh, Away
    <2>4. Going = Elems(running)
      BY DEF Going
    <2> QED BY <2>1, <2>2, <2>3, <2>4 DEF Placed
  <1>2. Spec => []PlaceInv
    BY PlaceInvariant
  <1> QED BY <1>1, <1>2, SchedInvariant, PhasesInvariant, PTL

\* Where a request is in the queues and batches.
Places(r) == {i \in 1 .. Len(Everywhere) : Everywhere[i] = r}

\* Nobody is in two of them, or in one of them twice.
LEMMA EverywhereOnce ==
    ASSUME SchedInv, Decoding
    PROVE  /\ Everywhere \in Seq(Request) /\ NoRepeat(Everywhere)
           /\ Elems(Everywhere) = UNION {Elems(waiting), Elems(retracted), Elems(prefilling),
                                         Elems(running), Elems(toPrefill), Elems(ready)}
  <1> DEFINE a == waiting \o retracted
             b == a \o prefilling
             c == b \o running
             d == c \o toPrefill
             e == d \o ready
  <1>1. NoRepeat(running)
    BY DEF Decoding
  <1>2. ASSUME NEW r \in Elems(running) PROVE Finished(r) \/ MayDecode(r) \/ Decoded(r)
    <2>1. r \in Request
      BY QueueFacts DEF Elems
    <2>2. Stage(r)
      BY <2>1, QueueFacts
    <2>3. CASE pc # "dresults"
      BY <2>2, <2>3 DEF Stage
    <2>4. CASE pc = "dresults"
      BY <2>2, <2>4 DEF Stage, Decoding, Going
    <2> QED BY <2>3, <2>4
  <1>3. ASSUME NEW r \in Request PROVE Finished(r) => ~Fresh(r) /\ ~Away(r) /\ ~InPrefill(r)
    BY DEF Finished, Fresh, Away, InPrefill, Prefilling
  <1>4. /\ Elems(waiting) \cap Elems(retracted) = {}
        /\ \A q \in {waiting, retracted} :
             /\ Elems(q) \cap Elems(prefilling) = {} /\ Elems(q) \cap Elems(running) = {}
             /\ Elems(q) \cap Elems(toPrefill) = {} /\ Elems(q) \cap Elems(ready) = {}
        /\ \A q \in {prefilling, toPrefill, ready} : Elems(q) \cap Elems(running) = {}
    <2>1. \A r \in Elems(waiting) : r \in Request /\ Fresh(r)
      BY QueueFacts DEF Elems, Stage
    <2>2. \A r \in Elems(retracted) : r \in Request /\ Away(r)
      BY QueueFacts DEF Elems, Stage
    <2>3. \A r \in Elems(prefilling) \cup Elems(toPrefill) \cup Elems(ready) :
            r \in Request /\ InPrefill(r)
      BY QueueFacts DEF Elems, Stage
    <2>4. \A r \in Elems(running) : ~Fresh(r) /\ ~Away(r) /\ ~InPrefill(r)
      <3>1. \A r \in Elems(running) : r \in Request
        BY QueueFacts DEF Elems
      <3> QED BY <1>2, <1>3, <3>1, QueueFacts, OneStage
    <2>5. \A r \in Request : (Fresh(r) => ~Away(r) /\ ~InPrefill(r)) /\ (Away(r) => ~InPrefill(r))
      BY QueueFacts, OneStage
    <2> QED BY <2>1, <2>2, <2>3, <2>4, <2>5
  <1>5. /\ Elems(prefilling) \cap Elems(toPrefill) = {} /\ Elems(prefilling) \cap Elems(ready) = {}
        /\ Elems(toPrefill) \cap Elems(ready) = {}
        /\ NoRepeat(waiting) /\ NoRepeat(retracted) /\ NoRepeat(prefilling)
        /\ NoRepeat(toPrefill) /\ NoRepeat(ready)
    BY QueueFacts DEF Homes
  <1>6. Everywhere = e
    BY DEF Everywhere
  <1> HIDE DEF e
  <1>7. a \in Seq(Request) /\ Elems(a) = Elems(waiting) \cup Elems(retracted) /\ NoRepeat(a)
    BY <1>4, <1>5, QueueFacts, Joined
  <1> HIDE DEF a
  <1>8. b \in Seq(Request) /\ Elems(b) = Elems(a) \cup Elems(prefilling) /\ NoRepeat(b)
    BY <1>4, <1>5, <1>7, QueueFacts, Joined
  <1> HIDE DEF b
  <1>9. c \in Seq(Request) /\ Elems(c) = Elems(b) \cup Elems(running) /\ NoRepeat(c)
    BY <1>1, <1>4, <1>7, <1>8, QueueFacts, Joined
  <1> HIDE DEF c
  <1>10. d \in Seq(Request) /\ Elems(d) = Elems(c) \cup Elems(toPrefill) /\ NoRepeat(d)
    BY <1>4, <1>5, <1>7, <1>8, <1>9, QueueFacts, Joined
  <1> HIDE DEF d
  <1>11. e \in Seq(Request) /\ Elems(e) = Elems(d) \cup Elems(ready) /\ NoRepeat(e)
    BY <1>4, <1>5, <1>7, <1>8, <1>9, <1>10, QueueFacts, Joined DEF e
  <1> QED BY <1>6, <1>7, <1>8, <1>9, <1>10, <1>11

\* How often a request is somewhere: once or never.
LEMMA PlacesCounted ==
    ASSUME SchedInv, Decoding, NEW r \in Request
    PROVE  Cardinality(Places(r)) = IF r \in Elems(Everywhere) THEN 1 ELSE 0
  <1> DEFINE s == Everywhere
  <1>1. NoRepeat(s)
    BY EverywhereOnce
  <1>2. Places(r) = {i \in 1 .. Len(s) : s[i] = r}
    BY DEF Places
  <1> HIDE DEF s
  <1>3. CASE r \in Elems(s)
    <2>1. PICK i \in 1 .. Len(s) : s[i] = r
      BY <1>3 DEF Elems
    <2>2. Places(r) = {i}
      BY <1>1, <1>2, <2>1 DEF NoRepeat
    <2> QED BY <1>3, <2>2, FS_Singleton DEF s
  <1>4. CASE r \notin Elems(s)
    <2>1. Places(r) = {}
      BY <1>2, <1>4 DEF Elems
    <2> QED BY <1>4, <2>1, FS_EmptySet DEF s
  <1> QED BY <1>3, <1>4

\* The sentinel is on a stream exactly when its request has finished.
LEMMA EndedFinished ==
    ASSUME StreamInv, KVTypeOK, NEW r \in Request
    PROVE  Ended(r) <=> Finished(r)
  <1>1. out[r] \in Seq(Token)
    BY DEF KVTypeOK
  <1>2. stream[r] = out[r] \o (IF Finished(r) THEN <<End>> ELSE <<>>)
    BY DEF StreamInv, StreamWellFormed
  <1> DEFINE o == out[r]
             s == stream[r]
  <1>3. CASE Finished(r)
    <2>1. s = o \o <<End>> /\ o \in Seq(Token)
      BY <1>1, <1>2, <1>3
    <2> HIDE DEF o, s
    <2>2. s = Append(o, End)
      BY <2>1
    <2>3. Len(s) = Len(o) + 1 /\ s[Len(o) + 1] = End /\ s # <<>>
      BY <2>1, <2>2
    <2> QED BY <1>3, <2>3 DEF Ended, s
  <1>4. CASE ~Finished(r)
    <2>1. s = o /\ o \in Seq(Token)
      <3>1. s = o \o <<>>
        BY <1>2, <1>4
      <3> QED BY <1>1, <3>1
    <2> HIDE DEF o, s
    <2>2. s # <<>> => s[Len(s)] \in Token
      BY <2>1
    <2> QED BY <1>4, <2>2, EndAssumption DEF Ended, s
  <1> QED BY <1>3, <1>4

\* A request is in exactly one queue or batch, once, from add_request until
\* its sentinel, and between steps in none after it: none is scheduled twice
\* or forgotten, in whatever order it is chunked, retracted and resumed.
THEOREM NobodyIsLost ==
    ASSUME NoBatchDropped
    PROVE  Spec => []OneHome
  <1>1. SchedInv /\ PhaseInv /\ StreamInv /\ PlaceInv => OneHome
    <2> SUFFICES ASSUME SchedInv, PhaseInv, StreamInv, PlaceInv PROVE OneHome
      OBVIOUS
    <2> USE DEF PlaceInv
    <2>1. ASSUME NEW r \in Request, r \in submitted, ~Ended(r) PROVE Cardinality(Places(r)) = 1
      <3>1. ~Finished(r)
        BY <2>1, QueueFacts, EndedFinished
      <3>2. Placed(r)
        BY <2>1, <3>1 DEF PlaceInv, Kept
      <3>3. Going \subseteq Elems(running)
        BY DEF PlaceInv, Decoding, Going
      <3>4. r \in Elems(Everywhere)
        BY <3>2, <3>3, EverywhereOnce DEF Placed
      <3> QED BY <3>4, PlacesCounted
    <2>2. ASSUME NEW r \in Request, r \notin submitted \/ (Ended(r) /\ pc = "idle")
          PROVE  Cardinality(Places(r)) = 0
      <3>1. Stage(r) /\ KVTypeOK
        BY QueueFacts
      <3>2. r \notin Elems(Everywhere)
        <4>1. CASE r \notin submitted
          <5>1. Fresh(r) /\ ~Finished(r)
            BY <3>1, <4>1 DEF Stage, Fresh, Finished
          <5>2. ~Away(r) /\ ~InPrefill(r) /\ ~MayDecode(r) /\ ~Decoded(r)
            BY <3>1, <5>1, OneStage
          <5>3. /\ r \notin Elems(waiting) /\ r \notin Elems(retracted)
                /\ r \notin Elems(prefilling) /\ r \notin Elems(toPrefill) /\ r \notin Elems(ready)
            BY <3>1, <4>1, <5>2 DEF Stage
          <5>4. r \notin Elems(running)
            BY <3>1, <5>1, <5>2 DEF Stage, PlaceInv, Decoding, Going
          <5> QED BY <5>3, <5>4, EverywhereOnce
        <4>2. CASE Ended(r) /\ pc = "idle"
          <5>1. Finished(r)
            BY <3>1, <4>2, EndedFinished
          <5>2. ~Fresh(r) /\ ~Away(r) /\ ~InPrefill(r) /\ ~MayDecode(r)
            BY <5>1 DEF Finished, Fresh, Away, InPrefill, Prefilling, MayDecode, Running
          <5>3. /\ r \notin Elems(waiting) /\ r \notin Elems(retracted)
                /\ r \notin Elems(prefilling) /\ r \notin Elems(toPrefill) /\ r \notin Elems(ready)
                /\ r \notin Elems(running)
            BY <3>1, <4>2, <5>2 DEF Stage
          <5> QED BY <5>3, EverywhereOnce
        <4> QED BY <2>2, <4>1, <4>2
      <3> QED BY <3>2, PlacesCounted
    <2> QED BY <2>1, <2>2 DEF OneHome, Places, Everywhere
  <1>2. Spec => []PlaceInv
    BY PlaceInvariant
  <1> QED BY <1>1, <1>2, SchedInvariant, PhasesInvariant, StreamInvariant, PTL

\* No step takes a submission back.
LEMMA SubmittedStays ==
    ASSUME [Next]_vars
    PROVE  submitted \subseteq submitted'
  BY DEF Next, AddRequest, StepPaged, Quiet, BeginStep, ContinuePrefilling, EndPrefilling,
         RehydrateFromCache, AdmitRetracted, EndRetracted, AdmitWaiting, Admit, EndWaiting,
         ResumeReady, AllocPrefill, AllocPrefillFails, EndAlloc, BatchedPrefill,
         BatchedPrefillFails, PrefillUnfinished, Rehydrated, FirstResult, NextResult, EndStep,
         AllocDecode, AllocDecodeFails, RetractVictim, ExhaustedStep, BatchedDecode,
         BatchedDecodeFails, DecodeResult, vars, queueVars

\* Who is in a queue or a batch was submitted and has a place.
LEMMA SomewherePlaced ==
    ASSUME SchedInv, Decoding, NEW r \in Elems(Everywhere), ~Finished(r)
    PROVE  r \in Request /\ r \in submitted /\ Placed(r) /\ Kept(r)
  <1>1. /\ r \in Request
        /\ r \in UNION {Elems(waiting), Elems(retracted), Elems(prefilling),
                        Elems(running), Elems(toPrefill), Elems(ready)}
    <2>1. Everywhere \in Seq(Request)
      BY EverywhereOnce
    <2>2. r \in Request
      BY <2>1 DEF Elems
    <2> QED BY <2>2, EverywhereOnce
  <1>2. r \in Elems(running) => r \in Going
    BY DEF Decoding, Going
  <1>3. Placed(r)
    BY <1>1, <1>2 DEF Placed
  <1>4. Stage(r) /\ KVTypeOK
    BY <1>1, QueueFacts
  <1>5. Fresh(r) => ~Away(r) /\ ~InPrefill(r) /\ ~MayDecode(r) /\ ~Decoded(r)
    BY <1>1, <1>4, OneStage
  <1>6. r \in Going => MayDecode(r) \/ Decoded(r)
    BY <1>4 DEF Stage, Going
  <1> QED BY <1>1, <1>3, <1>4, <1>5, <1>6 DEF Stage, Placed, Kept

\* The queues and batches hold whoever was submitted, is kept and has not ended.
Gathered ==
    /\ UNION {Elems(waiting), Elems(retracted), Elems(prefilling), Elems(running)}
         \subseteq Elems(Everywhere)
    /\ \A r \in Request :
         /\ Ended(r) <=> Finished(r)
         /\ r \in submitted /\ Kept(r) => Ended(r) \/ r \in Elems(Everywhere)

\* Follows from the invariants of queues, streams and decoding.
LEMMA GatheredInvariant == Spec => []Gathered
  <1>1. SchedInv /\ StreamInv /\ Decoding => Gathered
    <2> SUFFICES ASSUME SchedInv, StreamInv, Decoding PROVE Gathered
      OBVIOUS
    <2>1. Elems(Everywhere) = UNION {Elems(waiting), Elems(retracted), Elems(prefilling),
                                     Elems(running), Elems(toPrefill), Elems(ready)}
      BY EverywhereOnce
    <2>2. Going \subseteq Elems(running)
      BY DEF Decoding, Going
    <2>3. ASSUME NEW r \in Request
          PROVE  /\ Ended(r) <=> Finished(r)
                 /\ r \in submitted /\ Kept(r) => Ended(r) \/ r \in Elems(Everywhere)
      <3>1. Ended(r) <=> Finished(r)
        BY QueueFacts, EndedFinished
      <3>2. Placed(r) => r \in Elems(Everywhere)
        BY <2>1, <2>2 DEF Placed
      <3> QED BY <3>1, <3>2 DEF Kept
    <2> QED BY <2>1, <2>3 DEF Gathered
  <1> QED BY <1>1, SchedInvariant, StreamInvariant, DecodingInvariant, PTL

\* A step that fails loses at most the batch whose prefill it was: a request
\* that has not ended leaves the queues and batches with that batch or not at
\* all, for every pool, every policy and every forward that may fail.
THEOREM FailuresLoseOnlyBatches == Spec => OnlyBatchesAreLost
  <1>1. ASSUME SchedInv, SchedInv', PhaseInv, Decoding, Gathered, Gathered', [Next]_vars,
               NEW r \in Elems(Everywhere), ~Ended(r), ~Ended(r)'
        PROVE  \/ r \in Elems(Everywhere)'
               \/ pc \in {"alloc", "forward"} /\ pc' = "idle" /\ r \in Elems(toPrefill)
    <2>1. r \in Request
      BY <1>1, EverywhereOnce DEF Elems
    <2>2. ~Finished(r)
      BY <1>1, <2>1 DEF Gathered
    <2>3. r \in submitted /\ Placed(r) /\ Kept(r)
      BY <1>1, <2>2, SomewherePlaced
    <2>4. CASE PrefillRaises
      <3>1. /\ pc \in {"alloc", "forward"} /\ pc' = "idle" /\ ready = <<>>
            /\ UNCHANGED <<waiting, retracted, prefilling, running>>
        BY <1>1, <2>4, PrefillRaisesAlone
      <3>2. CASE r \in Elems(toPrefill)
        BY <3>1, <3>2
      <3>3. CASE r \notin Elems(toPrefill)
        <4>1. r \in UNION {Elems(waiting), Elems(retracted), Elems(prefilling), Elems(running)}
          BY <2>3, <3>1, <3>3 DEF Placed, Going, Elems
        <4>2. r \in UNION {Elems(waiting'), Elems(retracted'), Elems(prefilling'),
                           Elems(running')}
          BY <3>1, <4>1
        <4> QED BY <1>1, <4>2 DEF Gathered
      <3> QED BY <3>2, <3>3
    <2>5. CASE ~PrefillRaises
      <3>1. Kept(r)'
        BY <1>1, <2>1, <2>3, <2>5, StepPlaces DEF PlacesKept
      <3>2. r \in submitted'
        BY <1>1, <2>3, SubmittedStays
      <3> QED BY <1>1, <2>1, <3>1, <3>2 DEF Gathered
    <2> QED BY <2>4, <2>5
  <1>2. SchedInv /\ SchedInv' /\ PhaseInv /\ Decoding /\ Gathered /\ Gathered' /\ [Next]_vars =>
          [\A r \in Elems(Everywhere) :
              \/ Ended(r) \/ Ended(r)'
              \/ r \in Elems(Everywhere)'
              \/ pc \in {"alloc", "forward"} /\ pc' = "idle" /\ r \in Elems(toPrefill)]_vars
    BY <1>1
  <1> QED BY <1>2, SchedInvariant, PhasesInvariant, GatheredInvariant, DecodingInvariant, PTL
             DEF Spec, OnlyBatchesAreLost

===============================================================================
