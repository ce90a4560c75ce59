--------------------------- MODULE AgentPolicyProofs ---------------------------
(***************************************************************************)
(* Overtaking is bounded, and what is available adds up, for any clients,  *)
(* weights, pool and policies.                                             *)
(*                                                                         *)
(* For the bound, the invariant only says that nobody is in the queue      *)
(* twice and that leads are times: the bound itself comes from comparing   *)
(* the scores at the step that overtakes.                                  *)
(***************************************************************************)
EXTENDS AgentPolicy, SequenceTheorems, FiniteSetTheorems, TLAPS

QueueInv ==
    /\ waiting \in Seq(Client)
    /\ \A i, j \in 1 .. Len(waiting) : waiting[i] = waiting[j] => i = j
    /\ age \in [Client -> Nat]
    /\ lead \in [Client -> [Client -> Nat]]

\* Taking one element out of a sequence closes the gap.
LEMMA WithoutElements ==
    ASSUME NEW S, NEW s \in Seq(S), NEW i \in 1 .. Len(s)
    PROVE  /\ Without(s, i) \in Seq(S)
           /\ Len(Without(s, i)) = Len(s) - 1
           /\ \A k \in 1 .. Len(s) - 1 :
                Without(s, i)[k] = IF k < i THEN s[k] ELSE s[k + 1]
<1> DEFINE a == SubSeq(s, 1, i - 1)
           b == SubSeq(s, i + 1, Len(s))
<1>1. a \in Seq(S) /\ Len(a) = i - 1 /\ \A k \in 1 .. i - 1 : a[k] = s[k]
  OBVIOUS
<1>2. b \in Seq(S) /\ Len(b) = Len(s) - i /\ \A k \in 1 .. Len(s) - i : b[k] = s[i + k]
  OBVIOUS
<1> HIDE DEF a, b
<1>3. a \o b \in Seq(S) /\ Len(a \o b) = Len(s) - 1
  <2>1. a \o b \in Seq(S) /\ Len(a \o b) = Len(a) + Len(b)
    BY <1>1, <1>2, ConcatProperties
  <2>2. Len(s) \in Nat
    OBVIOUS
  <2> QED
    BY <1>1, <1>2, <2>1, <2>2
<1>4. ASSUME NEW k \in 1 .. Len(s) - 1
      PROVE  (a \o b)[k] = IF k < i THEN s[k] ELSE s[k + 1]
  <2>1. CASE k < i
    BY <1>1, <1>2, <2>1
  <2>2. CASE ~(k < i)
    <3>1. k - Len(a) \in 1 .. Len(s) - i /\ (a \o b)[k] = b[k - Len(a)]
      BY <1>1, <1>2, <2>2
    <3> QED
      BY <1>1, <1>2, <2>2, <3>1
  <2> QED
    BY <2>1, <2>2
<1> QED
  BY <1>3, <1>4 DEF Without, a, b

\* A sequence's elements are of its set.
LEMMA ElementOf ==
    ASSUME NEW S, NEW s \in Seq(S), NEW i \in 1 .. Len(s)
    PROVE  s[i] \in S
  OBVIOUS

\* The queue is empty at first.
LEMMA InitQueue == Init => QueueInv
  BY DEF Init, QueueInv

\* The queue keeps its form: c is only appended when it is not in it.
LEMMA ArriveKeeps ==
    ASSUME QueueInv, NEW c \in Client, Arrive(c)
    PROVE  QueueInv'
<1>1. waiting' \in Seq(Client)
  BY DEF QueueInv, Arrive
<1>2. \A i, j \in 1 .. Len(waiting') : waiting'[i] = waiting'[j] => i = j
  <2>1. \A i \in 1 .. Len(waiting) : waiting[i] # c
    BY DEF Arrive, Elems
  <2>2. /\ Len(waiting') = Len(waiting) + 1
        /\ waiting'[Len(waiting) + 1] = c
        /\ \A i \in 1 .. Len(waiting) : waiting'[i] = waiting[i]
    BY DEF QueueInv, Arrive
  <2>3. ASSUME NEW i \in 1 .. Len(waiting'), NEW j \in 1 .. Len(waiting'), waiting'[i] = waiting'[j]
        PROVE  i = j
    <3>1. Len(waiting) \in Nat
      BY DEF QueueInv
    <3>2. CASE i \in 1 .. Len(waiting) /\ j \in 1 .. Len(waiting)
      BY <2>2, <2>3, <3>2 DEF QueueInv
    <3>3. CASE i = Len(waiting) + 1 \/ j = Len(waiting) + 1
      BY <2>1, <2>2, <2>3, <3>1, <3>3
    <3> QED
      BY <2>2, <3>1, <3>2, <3>3
  <2> QED
    BY <2>3
<1>3. age' \in [Client -> Nat] /\ lead' \in [Client -> [Client -> Nat]]
  BY DEF QueueInv, Arrive
<1> QED
  BY <1>1, <1>2, <1>3 DEF QueueInv

\* A second only changes ages.
LEMMA TickKeeps ==
    ASSUME QueueInv, Tick
    PROVE  QueueInv'
  BY AgeAssumption DEF QueueInv, Tick

\* An admission takes one request out of the queue.
LEMMA AdmitKeeps ==
    ASSUME QueueInv, NEW i \in 1 .. Len(waiting), Admit(i)
    PROVE  QueueInv'
<1>1. /\ waiting' \in Seq(Client)
      /\ Len(waiting') = Len(waiting) - 1
      /\ \A k \in 1 .. Len(waiting) - 1 :
            waiting'[k] = IF k < i THEN waiting[k] ELSE waiting[k + 1]
  BY WithoutElements DEF QueueInv, Admit
<1>2. ASSUME NEW k \in 1 .. Len(waiting'), NEW m \in 1 .. Len(waiting'), waiting'[k] = waiting'[m]
      PROVE  k = m
  <2> DEFINE Was(n) == IF n < i THEN n ELSE n + 1
  <2>1. Len(waiting) \in Nat /\ k \in 1 .. Len(waiting) - 1 /\ m \in 1 .. Len(waiting) - 1
    BY <1>1 DEF QueueInv
  <2>2. /\ Was(k) \in 1 .. Len(waiting) /\ Was(m) \in 1 .. Len(waiting)
        /\ waiting[Was(k)] = waiting[Was(m)]
    BY <1>1, <1>2, <2>1
  <2>3. Was(k) = Was(m)
    <3> HIDE DEF Was
    <3> QED
      BY <2>2 DEF QueueInv
  <2> QED
    BY <2>1, <2>3
<1>3. age' \in [Client -> Nat] /\ lead' \in [Client -> [Client -> Nat]]
  BY DEF QueueInv, Admit
<1> QED
  BY <1>1, <1>2, <1>3 DEF QueueInv

\* Each step keeps the queue's form.
LEMMA NextKeeps == QueueInv /\ [Next]_vars => QueueInv'
<1> SUFFICES ASSUME QueueInv, [Next]_vars PROVE QueueInv'
  OBVIOUS
<1>1. CASE AdmitNext
  BY <1>1, AdmitKeeps DEF AdmitNext
<1>2. CASE Tick
  BY <1>2, TickKeeps
<1>3. ASSUME NEW c \in Client, Arrive(c) PROVE QueueInv'
  BY <1>3, ArriveKeeps
<1>4. ASSUME NEW c \in Client, Finish(c) PROVE QueueInv'
  BY <1>4 DEF Finish, QueueInv
<1>5. CASE UNCHANGED vars
  BY <1>5 DEF vars, QueueInv
<1> QED
  BY <1>1, <1>2, <1>3, <1>4, <1>5 DEF Next

\* Bonuses of two requests differ by at most what the weights add up to.
LEMMA BonusGap ==
    ASSUME NEW hits \in [Client -> 0 .. MaxHit], NEW c \in Client, NEW d \in Client
    PROVE  /\ Bonus(c, hits) \in Int
           /\ Bonus(d, hits) - Bonus(c, hits) <= CriticalWeight + OptionalPenalty + MaxHit
  BY WeightAssumption DEF Bonus

\* What one step may do.
BoundedStep ==
    \A i, j \in 1 .. Len(waiting) :
        i < j /\ waiting[j] \in running' \ running /\ Fits(waiting[i]) =>
            /\ policy = "agent-cache-aware"
            /\ lead[waiting[i]][waiting[j]] < CriticalWeight + OptionalPenalty + MaxHit

\* An admission overtakes only within the bound.
LEMMA AdmitBounded ==
    ASSUME QueueInv, policy \in Policies, NEW k \in 1 .. Len(waiting), Admit(k)
    PROVE  BoundedStep
<1> SUFFICES ASSUME NEW i \in 1 .. Len(waiting), NEW j \in 1 .. Len(waiting), i < j,
                    waiting[j] \in running' \ running, Fits(waiting[i])
             PROVE  /\ policy = "agent-cache-aware"
                    /\ lead[waiting[i]][waiting[j]] < CriticalWeight + OptionalPenalty + MaxHit
  BY DEF BoundedStep
<1>1. j = k
  BY DEF Admit, QueueInv
<1>2. PICK hits \in [Client -> 0 .. MaxHit] : Selected(k, hits)
  BY DEF Admit
<1>3. policy = "agent-cache-aware"
  BY <1>1, <1>2, PolicyAssumption DEF Selected
<1>4. SortsFirst(k, i, hits)
  BY <1>1, <1>2, <1>3 DEF Selected
<1>5. waiting[i] \in Client /\ waiting[k] \in Client
  BY ElementOf DEF QueueInv
<1>6. Bonus(waiting[k], hits) > lead[waiting[i]][waiting[k]] + Bonus(waiting[i], hits)
  BY <1>1, <1>4 DEF SortsFirst
<1>7. lead[waiting[i]][waiting[k]] \in Nat
  BY <1>5 DEF QueueInv
<1>8. /\ Bonus(waiting[i], hits) \in Int /\ Bonus(waiting[k], hits) \in Int
      /\ Bonus(waiting[k], hits) - Bonus(waiting[i], hits)
            <= CriticalWeight + OptionalPenalty + MaxHit
  BY <1>5, BonusGap
<1> QED
  BY <1>1, <1>3, <1>6, <1>7, <1>8, WeightAssumption

\* No other step overtakes.
LEMMA StepBounded == QueueInv /\ policy \in Policies /\ [Next]_vars => [BoundedStep]_vars
<1> SUFFICES ASSUME QueueInv, policy \in Policies, Next PROVE BoundedStep
  OBVIOUS
<1>1. CASE AdmitNext
  BY <1>1, AdmitBounded DEF AdmitNext
<1>2. CASE Tick
  BY <1>2 DEF Tick, BoundedStep
<1>3. ASSUME NEW c \in Client, Arrive(c) PROVE BoundedStep
  BY <1>3 DEF Arrive, BoundedStep
<1>4. ASSUME NEW c \in Client, Finish(c) PROVE BoundedStep
  BY <1>4 DEF Finish, BoundedStep
<1> QED
  BY <1>1, <1>2, <1>3, <1>4 DEF Next

\* The policy is fixed at the start.
LEMMA PolicyKept == Init /\ [][Next]_vars => [](policy \in Policies)
<1>1. Init => policy \in Policies
  BY DEF Init
<1>2. policy \in Policies /\ [Next]_vars => (policy \in Policies)'
  BY DEF Next, AdmitNext, Admit, Tick, Arrive, Finish, vars
<1> QED
  BY <1>1, <1>2, PTL

\* Nobody who came later than the other weights can make up for is admitted
\* before a request that fits (Scheduler._agent_cache_priority), whatever the
\* weights, the clients and the pool.
THEOREM OvertakingIsBounded == Spec => OvertakingBounded
<1>1. Init => QueueInv
  BY InitQueue
<1>2. QueueInv /\ [Next]_vars => QueueInv'
  BY NextKeeps
<1>3. QueueInv /\ policy \in Policies /\ [Next]_vars => [BoundedStep]_vars
  BY StepBounded
<1>4. Init /\ [][Next]_vars => [](policy \in Policies)
  BY PolicyKept
<1>5. Init /\ [][Next]_vars => [][BoundedStep]_vars
  BY <1>1, <1>2, <1>3, <1>4, PTL
<1> QED
  BY <1>5, PTL DEF Spec, OvertakingBounded, BoundedStep

-------------------------------------------------------------------------------
(* Pages. *)

\* The pages of the running requests R, one by one.
Claims(R) == UNION {{c} \X (1 .. Need[c]) : c \in R}

\* What is available and what the running requests were admitted for add up to
\* the pool, and nobody waits who runs.
PagesAddUp ==
    /\ running \subseteq Client /\ IsFiniteSet(running) /\ IsFiniteSet(Claims(running))
    /\ available \in Nat /\ available + Cardinality(Claims(running)) = Pages
    /\ running \cap Elems(waiting) = {}

\* The pages of one request more.
LEMMA ClaimsAdd ==
    ASSUME NEW R, NEW c \in Client, c \notin R, IsFiniteSet(Claims(R))
    PROVE  /\ IsFiniteSet(Claims(R \cup {c}))
           /\ Cardinality(Claims(R \cup {c})) = Cardinality(Claims(R)) + Need[c]
<1> DEFINE C == Claims(R)
           D == {c} \X (1 .. Need[c])
<1>1. Claims(R \cup {c}) = C \cup D /\ C \cap D = {}
  BY DEF Claims
<1>2. Need[c] \in Nat /\ Need[c] \in Int /\ 1 \in Int
  BY NeedAssumption, PoolAssumption
<1>3. IsFiniteSet(1 .. Need[c]) /\ Cardinality(1 .. Need[c]) = Need[c]
  BY <1>2, FS_Interval
<1>4. IsFiniteSet({c}) /\ Cardinality({c}) = 1
  BY FS_Singleton
<1>5. IsFiniteSet(D) /\ Cardinality(D) = Need[c]
  <2>1. IsFiniteSet(D) /\ Cardinality(D) = Cardinality({c}) * Cardinality(1 .. Need[c])
    BY <1>3, <1>4, FS_Product
  <2> QED
    BY <1>2, <1>3, <1>4, <2>1
<1>6. Cardinality(C \cap D) = 0
  BY <1>1, FS_EmptySet
<1>0. IsFiniteSet(C)
  OBVIOUS
<1> HIDE DEF C, D
<1>7. /\ IsFiniteSet(C \cup D)
      /\ Cardinality(C \cup D) = Cardinality(C) + Cardinality(D) - Cardinality(C \cap D)
  BY <1>0, <1>5, FS_Union
<1>8. Cardinality(C) \in Nat
  BY <1>0, FS_CardinalityType
<1>9. Cardinality(C \cup D) = Cardinality(C) + Need[c]
  BY <1>2, <1>5, <1>6, <1>7, <1>8
<1> QED
  BY <1>1, <1>7, <1>9 DEF C

\* The pages of one request less.
LEMMA ClaimsRemove ==
    ASSUME NEW R, NEW c \in R, c \in Client, IsFiniteSet(Claims(R))
    PROVE  /\ IsFiniteSet(Claims(R \ {c}))
           /\ Cardinality(Claims(R \ {c})) + Need[c] = Cardinality(Claims(R))
<1>1. PICK S : S = R \ {c}
  OBVIOUS
<1>2. Claims(S) \subseteq Claims(R) /\ R = S \cup {c} /\ c \notin S
  BY <1>1 DEF Claims
<1>3. IsFiniteSet(Claims(S))
  BY <1>2, FS_Subset
<1>4. Cardinality(Claims(S \cup {c})) = Cardinality(Claims(S)) + Need[c]
  BY <1>2, <1>3, ClaimsAdd
<1> QED
  BY <1>1, <1>2, <1>3, <1>4

\* All pages are available at first.
LEMMA InitPages == Init => PagesAddUp
<1> SUFFICES ASSUME Init PROVE PagesAddUp
  OBVIOUS
<1>1. Claims({}) = {} /\ Elems(<<>>) = {}
  BY DEF Claims, Elems
<1>2. IsFiniteSet({}) /\ Cardinality({}) = 0 /\ Pages + 0 = Pages /\ Pages \in Nat
  BY FS_EmptySet, PoolAssumption
<1>3. waiting = <<>> /\ running = {} /\ available = Pages
  BY DEF Init
<1>4. Elems(waiting) = {} /\ Claims(running) = {}
  BY <1>1, <1>3
<1> QED
  BY <1>2, <1>3, <1>4 DEF PagesAddUp

\* Each step keeps the sum: an admission takes what fits, an end gives it back.
LEMMA PagesKept == QueueInv /\ PagesAddUp /\ [Next]_vars => PagesAddUp'
<1> SUFFICES ASSUME QueueInv, PagesAddUp, [Next]_vars PROVE PagesAddUp'
  OBVIOUS
<1> USE DEF PagesAddUp
<1>1. ASSUME NEW i \in 1 .. Len(waiting), Admit(i) PROVE PagesAddUp'
  <2>1. PICK c : c = waiting[i]
    OBVIOUS
  <2>2. c \in Client /\ c \in Elems(waiting) /\ c \notin running
    BY <2>1, ElementOf DEF QueueInv, Elems
  <2>3. /\ running' = running \cup {c} /\ available' = available - Need[c]
        /\ Need[c] <= available /\ Need[c] \in Nat
    BY <1>1, <2>1, <2>2, NeedAssumption, PoolAssumption DEF Admit, Selected, Fits
  <2>4. /\ IsFiniteSet(Claims(running'))
        /\ Cardinality(Claims(running')) = Cardinality(Claims(running)) + Need[c]
    BY <2>2, <2>3, ClaimsAdd
  <2>5. available' \in Nat /\ available' + Cardinality(Claims(running')) = Pages
    <3>1. Cardinality(Claims(running)) \in Nat
      BY FS_CardinalityType
    <3> QED
      BY <2>3, <2>4, <3>1
  <2>6. running' \subseteq Client /\ IsFiniteSet(running')
    BY <2>2, <2>3, FS_AddElement
  <2>7. ASSUME NEW d \in Elems(waiting') PROVE d \notin running'
    <3>1. /\ waiting' = Without(waiting, i) /\ waiting \in Seq(Client)
          /\ Len(waiting') = Len(waiting) - 1
          /\ \A k \in 1 .. Len(waiting) - 1 :
                waiting'[k] = IF k < i THEN waiting[k] ELSE waiting[k + 1]
      BY <1>1, WithoutElements DEF QueueInv, Admit
    <3>2. PICK k \in 1 .. Len(waiting) - 1 : d = waiting'[k]
      BY <2>7, <3>1 DEF Elems
    <3>3. PICK n \in 1 .. Len(waiting) : n # i /\ d = waiting[n]
      <4>1. CASE k < i
        BY <3>1, <3>2, <4>1
      <4>2. CASE ~(k < i)
        BY <3>1, <3>2, <4>2
      <4> QED
        BY <4>1, <4>2
    <3>4. d # c
      BY <2>1, <3>3 DEF QueueInv
    <3>5. d \in Elems(waiting)
      BY <3>3 DEF Elems
    <3> QED
      BY <2>3, <3>4, <3>5
  <2> QED
    BY <2>4, <2>5, <2>6, <2>7
<1>2. ASSUME NEW c \in Client, Finish(c) PROVE PagesAddUp'
  <2>1. c \in running /\ running' = running \ {c} /\ available' = available + Need[c]
        /\ waiting' = waiting /\ Need[c] \in Nat
    BY <1>2, NeedAssumption, PoolAssumption DEF Finish
  <2>2. /\ IsFiniteSet(Claims(running'))
        /\ Cardinality(Claims(running')) + Need[c] = Cardinality(Claims(running))
    BY <2>1, ClaimsRemove
  <2>3. Cardinality(Claims(running)) \in Nat /\ Cardinality(Claims(running')) \in Nat
    BY <2>2, FS_CardinalityType
  <2>4. IsFiniteSet(running')
    BY <2>1, FS_RemoveElement
  <2> QED
    BY <2>1, <2>2, <2>3, <2>4
<1>3. ASSUME NEW c \in Client, Arrive(c) PROVE PagesAddUp'
  <2>1. Elems(waiting') \subseteq Elems(waiting) \cup {c}
    <3>1. /\ waiting' = Append(waiting, c) /\ Len(waiting) \in Nat
          /\ Len(waiting') = Len(waiting) + 1
      BY <1>3 DEF Arrive, QueueInv
    <3>2. ASSUME NEW k \in 1 .. Len(waiting') PROVE waiting'[k] \in Elems(waiting) \cup {c}
      <4>1. CASE k = Len(waiting) + 1
        BY <3>1, <4>1 DEF QueueInv
      <4>2. CASE k # Len(waiting) + 1
        <5>1. k \in 1 .. Len(waiting) /\ waiting'[k] = waiting[k]
          BY <3>1, <4>2 DEF QueueInv
        <5> QED
          BY <5>1 DEF Elems
      <4> QED
        BY <4>1, <4>2
    <3> QED
      BY <3>2 DEF Elems
  <2> QED
    BY <1>3, <2>1 DEF Arrive
<1>4. CASE Tick \/ UNCHANGED vars
  BY <1>4 DEF Tick, vars
<1> QED
  BY <1>1, <1>2, <1>3, <1>4 DEF Next, AdmitNext

\* Ages and leads stay below the cap.
Capped ==
    /\ policy \in Policies
    /\ age \in [Client -> 0 .. MaxAge] /\ lead \in [Client -> [Client -> 0 .. MaxAge]]

\* Each step keeps ages and leads below the cap.
LEMMA CapKept == QueueInv /\ Capped /\ [Next]_vars => Capped'
<1> SUFFICES ASSUME QueueInv, Capped, [Next]_vars PROVE Capped'
  OBVIOUS
<1> USE DEF Capped
<1>0. MaxAge \in Nat
  BY AgeAssumption
<1>1. CASE AdmitNext
  <2>1. PICK i \in 1 .. Len(waiting) : Admit(i)
    BY <1>1 DEF AdmitNext
  <2>2. PICK c : c = waiting[i]
    OBVIOUS
  <2>3. /\ age' = [age EXCEPT ![c] = 0] /\ policy' = policy
        /\ lead' = [b \in Client |-> [d \in Client |-> IF c \in {b, d} THEN 0 ELSE lead[b][d]]]
    BY <2>1, <2>2 DEF Admit
  <2>4. 0 \in 0 .. MaxAge
    BY <1>0
  <2> QED
    BY <2>3, <2>4
<1>2. CASE Tick
  BY <1>0, <1>2 DEF Tick
<1>3. ASSUME NEW c \in Client, Arrive(c) PROVE Capped'
  BY <1>0, <1>3 DEF Arrive
<1>4. CASE (\E c \in Client : Finish(c)) \/ UNCHANGED vars
  BY <1>4 DEF Finish, vars
<1> QED
  BY <1>1, <1>2, <1>3, <1>4 DEF Next

\* What admission counts as available is never less than none nor more than the
\* pool: what it takes for a request is what the request's end gives back
\* (_step_paged, _finish_request).
THEOREM PolicyTypeCorrect == Spec => []PolicyTypeOK
<1>1. Init => QueueInv /\ PagesAddUp /\ Capped
  BY InitQueue, InitPages, AgeAssumption DEF Init, Capped
<1>2. QueueInv /\ PagesAddUp /\ Capped /\ [Next]_vars => (QueueInv /\ PagesAddUp /\ Capped)'
  BY NextKeeps, PagesKept, CapKept
<1>3. QueueInv /\ PagesAddUp /\ Capped => PolicyTypeOK
  <2> SUFFICES ASSUME QueueInv, PagesAddUp, Capped PROVE PolicyTypeOK
    OBVIOUS
  <2>1. Cardinality(Claims(running)) \in Nat
    BY FS_CardinalityType DEF PagesAddUp
  <2>2. available \in 0 .. Pages
    BY <2>1, PoolAssumption DEF PagesAddUp
  <2> QED
    BY <2>2 DEF PolicyTypeOK, QueueInv, PagesAddUp, Capped
<1> QED
  BY <1>1, <1>2, <1>3, PTL DEF Spec

===============================================================================
