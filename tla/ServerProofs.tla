----------------------------- MODULE ServerProofs -----------------------------
(***************************************************************************)
(* Theorems about the baseline and batched scheduler behind the HTTP       *)
(* handlers, for any requests, prompts, limits and failing forwards: KV    *)
(* caches are only held by running requests, at most max_running of them;  *)
(* each request has one place in the pipeline; padding caches to one       *)
(* batch leaves no trace in what a request attends to; and the handlers    *)
(* deliver what the service promises, with any number of workers.          *)
(***************************************************************************)
EXTENDS ChatServer, FiniteSetTheorems, WellFoundedInduction, TLAPS

\* No element is in q twice.
NoRepeat(q) == \A i, j \in 1 .. Len(q) : q[i] = q[j] => i = j

KVEntry == (Token \X Nat) \cup {Pad}

Types ==
    /\ mode \in {"baseline", "batched"}
    /\ submitted \subseteq Request
    /\ waiting \in Seq(Request) /\ running \in Seq(Request) /\ toPrefill \in Seq(Request)
    /\ todo \in Seq(Request) /\ still \in Seq(Request)
    /\ out \in [Request -> Seq(Token)]
    /\ kv \in [Request -> Seq(KVEntry)] /\ DOMAIN seen = Request
    /\ stream \in [Request -> Seq(Token \cup {End})]
    /\ faults \in Seq(Faults)

\* Which lists of step() are in use in which phase.
Phases ==
    /\ mode = "baseline" =>
         /\ running = <<>> /\ toPrefill = <<>> /\ still = <<>>
         /\ \/ pc = "idle" /\ todo = <<>>
            \/ pc \in {"prefill", "decode"} /\ Len(todo) = 1
    /\ mode = "batched" =>
         \/ pc = "idle" /\ toPrefill = <<>> /\ todo = <<>> /\ still = <<>>
         \/ pc = "prefill" /\ todo = <<>> /\ still = <<>>
         \/ /\ pc = "results" /\ toPrefill = <<>> /\ todo # <<>>
            /\ Elems(todo) \cup Elems(still) \subseteq Elems(running)
            /\ Len(todo) + Len(still) <= Len(running)
    /\ Len(running) + Len(toPrefill) <= MaxRunning

\* No request is in two lists, or in one of them twice.
Places ==
    /\ NoRepeat(waiting) /\ NoRepeat(running) /\ NoRepeat(toPrefill)
    /\ NoRepeat(todo) /\ NoRepeat(still)
    /\ Elems(waiting) \cap Elems(running) = {}
    /\ Elems(waiting) \cap Elems(toPrefill) = {}
    /\ Elems(running) \cap Elems(toPrefill) = {}
    /\ Elems(waiting) \cap Elems(todo) = {}
    /\ Elems(todo) \cap Elems(still) = {}

\* Those of running that the decode of this step has not ended.
Going == IF pc = "results" THEN Elems(todo) \cup Elems(still) ELSE Elems(running)

\* The requests in a list.
Placed ==
    Elems(waiting) \cup Elems(running) \cup Elems(toPrefill)
      \cup (IF mode = "baseline" THEN Elems(todo) ELSE {})

\* The failed forwards account for a request that is in no list.
Blamed == faults # <<>> /\ (mode = "batched" => "prefill" \in Elems(faults))

\* The stage of r's life the lists it is in stand for.
Stage(r) ==
    /\ r \notin submitted => ~Ended(r) /\ kv[r] = <<>>
    /\ r \in Elems(waiting) \cup Elems(toPrefill) => ~Ended(r) /\ kv[r] = <<>>
    /\ r \in Placed => r \in submitted
    /\ mode = "baseline" /\ r \in Elems(todo) =>
         ~Ended(r) /\ (pc = "decode" => out[r] # <<>> /\ kv[r] # <<>>)
    /\ r \in Going => ~Ended(r) /\ kv[r] # <<>> /\ out[r] # <<>>
    /\ r \in Elems(running) \ Going => Ended(r)
    /\ mode = "batched" /\ r \notin Going => kv[r] = <<>>
    /\ r \in submitted => Ended(r) \/ r \in Placed \/ Blamed

Stages == \A r \in Request : Stage(r)

ServerInv == Types /\ Phases /\ Places /\ Stages

-------------------------------------------------------------------------------
(* Queues. *)

\* Taking the head of a queue.
LEMMA HeadAndTail ==
    ASSUME NEW S, NEW q \in Seq(S), q # <<>>
    PROVE  /\ Head(q) \in S /\ Head(q) \in Elems(q) /\ Tail(q) \in Seq(S)
           /\ Elems(q) = {Head(q)} \cup Elems(Tail(q))
           /\ NoRepeat(q) => NoRepeat(Tail(q)) /\ Head(q) \notin Elems(Tail(q))
  <1>1. /\ Len(q) \in Nat /\ Len(q) > 0 /\ Head(q) = q[1] /\ q[1] \in S
        /\ Tail(q) \in Seq(S) /\ Len(Tail(q)) = Len(q) - 1
        /\ \A i \in 1 .. Len(q) - 1 : Tail(q)[i] = q[i + 1]
    OBVIOUS
  <1> DEFINE t == Tail(q)
             n == Len(q)
  <1> HIDE DEF t
  <1>2. \A i \in 1 .. n : i = 1 \/ (i - 1 \in 1 .. Len(t) /\ t[i - 1] = q[i])
    <2> SUFFICES ASSUME NEW i \in 1 .. n, i # 1
                 PROVE  i - 1 \in 1 .. Len(t) /\ t[i - 1] = q[i]
      OBVIOUS
    <2>1. i - 1 \in 1 .. n - 1 /\ (i - 1) + 1 = i
      BY <1>1
    <2> QED BY <1>1, <2>1 DEF t
  <1>3. \A i \in 1 .. Len(t) : i + 1 \in 1 .. n /\ i + 1 # 1 /\ t[i] = q[i + 1]
    BY <1>1 DEF t
  <1>4. Elems(q) = {q[1]} \cup Elems(t)
    <2>1. Elems(q) \subseteq {q[1]} \cup Elems(t)
      BY <1>2 DEF Elems
    <2>2. q[1] \in Elems(q)
      BY <1>1 DEF Elems
    <2>3. Elems(t) \subseteq Elems(q)
      BY <1>3 DEF Elems
    <2> QED BY <2>1, <2>2, <2>3
  <1>5. ASSUME NoRepeat(q) PROVE NoRepeat(t) /\ q[1] \notin Elems(t)
    <2>1. 1 \in 1 .. n
      BY <1>1
    <2>2. q[1] \notin Elems(t)
      BY <1>3, <1>5, <2>1 DEF NoRepeat, Elems
    <2>3. ASSUME NEW i \in 1 .. Len(t), NEW j \in 1 .. Len(t), t[i] = t[j]
          PROVE  i = j
      <3>1. i + 1 = j + 1
        BY <1>3, <1>5, <2>3 DEF NoRepeat
      <3> QED BY <3>1
    <2> QED BY <2>2, <2>3 DEF NoRepeat
  <1> QED BY <1>1, <1>4, <1>5 DEF t

\* Putting one queue behind another.
LEMMA Joined ==
    ASSUME NEW S, NEW a \in Seq(S), NEW b \in Seq(S)
    PROVE  /\ Elems(a \o b) = Elems(a) \cup Elems(b)
           /\ NoRepeat(a) /\ NoRepeat(b) /\ Elems(a) \cap Elems(b) = {} => NoRepeat(a \o b)
  <1> DEFINE c == a \o b
             m == Len(a)
             n == Len(b)
  <1>1. /\ m \in Nat /\ n \in Nat /\ Len(c) = m + n
        /\ \A i \in 1 .. m : c[i] = a[i]
        /\ \A i \in m + 1 .. m + n : c[i] = b[i - m]
    OBVIOUS
  <1> HIDE DEF c
  <1>2. \A i \in 1 .. Len(c) : \/ i \in 1 .. m /\ c[i] = a[i] /\ c[i] \in Elems(a)
                               \/ i - m \in 1 .. n /\ c[i] = b[i - m] /\ c[i] \in Elems(b)
    <2> SUFFICES ASSUME NEW i \in 1 .. Len(c)
                 PROVE  \/ i \in 1 .. m /\ c[i] = a[i] /\ c[i] \in Elems(a)
                        \/ i - m \in 1 .. n /\ c[i] = b[i - m] /\ c[i] \in Elems(b)
      OBVIOUS
    <2>1. i \in 1 .. m \/ (i \in m + 1 .. m + n /\ i - m \in 1 .. n)
      BY <1>1
    <2> QED BY <1>1, <2>1 DEF Elems
  <1>3. \A i \in 1 .. m : i \in 1 .. Len(c) /\ c[i] = a[i]
    BY <1>1
  <1>4. \A i \in 1 .. n : m + i \in 1 .. Len(c) /\ c[m + i] = b[i]
    <2> SUFFICES ASSUME NEW i \in 1 .. n PROVE m + i \in 1 .. Len(c) /\ c[m + i] = b[i]
      OBVIOUS
    <2>1. m + i \in m + 1 .. m + n /\ (m + i) - m = i
      BY <1>1
    <2> QED BY <1>1, <2>1
  <1>5. Elems(c) = Elems(a) \cup Elems(b)
    <2>1. Elems(c) \subseteq Elems(a) \cup Elems(b)
      BY <1>2 DEF Elems
    <2>2. Elems(a) \subseteq Elems(c)
      BY <1>3 DEF Elems
    <2>3. Elems(b) \subseteq Elems(c)
      BY <1>4 DEF Elems
    <2> QED BY <2>1, <2>2, <2>3
  <1>6. ASSUME NoRepeat(a), NoRepeat(b), Elems(a) \cap Elems(b) = {}
        PROVE  NoRepeat(c)
    <2> SUFFICES ASSUME NEW i \in 1 .. Len(c), NEW j \in 1 .. Len(c), c[i] = c[j]
                 PROVE  i = j
      BY DEF NoRepeat
    <2>1. CASE c[i] \in Elems(a)
      <3>1. i \in 1 .. m /\ c[i] = a[i] /\ j \in 1 .. m /\ c[j] = a[j]
        BY <1>2, <1>6, <2>1
      <3> QED BY <1>6, <3>1 DEF NoRepeat
    <2>2. CASE c[i] \notin Elems(a)
      <3>1. i - m \in 1 .. n /\ c[i] = b[i - m] /\ j - m \in 1 .. n /\ c[j] = b[j - m]
        BY <1>2, <2>2
      <3>2. i - m = j - m
        BY <1>6, <3>1 DEF NoRepeat
      <3> QED BY <1>1, <3>2
    <2> QED BY <2>1, <2>2
  <1> QED BY <1>5, <1>6 DEF c

\* A queue of one request.
LEMMA Single ==
    ASSUME NEW S, NEW x \in S
    PROVE  <<x>> \in Seq(S) /\ Elems(<<x>>) = {x} /\ NoRepeat(<<x>>)
  <1>1. <<x>> \in Seq(S) /\ Len(<<x>>) = 1 /\ <<x>>[1] = x
    OBVIOUS
  <1> DEFINE u == <<x>>
  <1> HIDE DEF u
  <1>2. \A i \in 1 .. Len(u) : i = 1
    BY <1>1 DEF u
  <1>3. Elems(u) = {x} /\ NoRepeat(u)
    BY <1>1, <1>2 DEF u, Elems, NoRepeat
  <1> QED BY <1>1, <1>3 DEF u

\* A sequence that grew by one element.
LEMMA Grown ==
    ASSUME NEW S, NEW q \in Seq(S), NEW x \in S
    PROVE  Append(q, x) \in Seq(S) /\ Append(q, x) # <<>>
  <1>1. Append(q, x) \in Seq(S)
    OBVIOUS
  <1>2. Len(Append(q, x)) = Len(q) + 1 /\ Len(q) \in Nat
    OBVIOUS
  <1>3. Len(<<>>) = 0
    OBVIOUS
  <1> QED BY <1>1, <1>2, <1>3

\* Joining a queue at its end.
LEMMA Appended ==
    ASSUME NEW S, NEW q \in Seq(S), NEW x \in S
    PROVE  /\ Elems(Append(q, x)) = Elems(q) \cup {x}
           /\ NoRepeat(q) /\ x \notin Elems(q) => NoRepeat(Append(q, x))
  <1> DEFINE u == <<x>>
  <1>1. Append(q, x) = q \o u
    OBVIOUS
  <1>2. u \in Seq(S) /\ Elems(u) = {x} /\ NoRepeat(u)
    BY Single
  <1> HIDE DEF u
  <1>3. /\ Elems(q \o u) = Elems(q) \cup Elems(u)
        /\ NoRepeat(q) /\ NoRepeat(u) /\ Elems(q) \cap Elems(u) = {} => NoRepeat(q \o u)
    BY <1>2, Joined
  <1> QED BY <1>1, <1>2, <1>3

\* Taking the first k of a queue.
LEMMA Split ==
    ASSUME NEW S, NEW q \in Seq(S), NEW k \in 0 .. Len(q)
    PROVE  LET a == SubSeq(q, 1, k)
               b == SubSeq(q, k + 1, Len(q))
           IN  /\ a \in Seq(S) /\ b \in Seq(S) /\ Len(a) = k
               /\ Elems(a) \cup Elems(b) = Elems(q)
               /\ NoRepeat(q) => NoRepeat(a) /\ NoRepeat(b) /\ Elems(a) \cap Elems(b) = {}
  <1> DEFINE n == Len(q)
             a == SubSeq(q, 1, k)
             b == SubSeq(q, k + 1, n)
  <1>1. n \in Nat /\ k \in Nat /\ k <= n
    OBVIOUS
  <1>2. /\ a \in Seq(S) /\ Len(a) = k /\ \A i \in 1 .. k : a[i] = q[i]
        /\ b \in Seq(S) /\ Len(b) = n - k /\ \A i \in 1 .. n - k : b[i] = q[k + i]
    <2> HIDE DEF n
    <2>1. n = Len(q)
      BY DEF n
    <2> QED BY <1>1, <2>1
  <1> HIDE DEF n, a, b
  <1>3. \A i \in 1 .. Len(a) : i \in 1 .. n /\ i <= k /\ a[i] = q[i]
    BY <1>1, <1>2
  <1>4. \A i \in 1 .. Len(b) : k + i \in 1 .. n /\ k + i > k /\ b[i] = q[k + i]
    BY <1>1, <1>2
  <1>5. Elems(q) = {q[i] : i \in 1 .. n}
    BY DEF Elems, n
  <1>6. Elems(a) \cup Elems(b) \subseteq Elems(q)
    BY <1>3, <1>4, <1>5 DEF Elems
  <1>7. ASSUME NEW i \in 1 .. n PROVE q[i] \in Elems(a) \cup Elems(b)
    <2>1. CASE i <= k
      <3>1. i \in 1 .. Len(a) /\ a[i] = q[i]
        BY <1>1, <1>2, <2>1
      <3> QED BY <3>1 DEF Elems
    <2>2. CASE i > k
      <3>1. i - k \in 1 .. Len(b) /\ k + (i - k) = i
        BY <1>1, <1>2, <2>2
      <3>2. b[i - k] = q[i]
        BY <1>4, <3>1
      <3> QED BY <3>1, <3>2 DEF Elems
    <2> QED BY <1>1, <2>1, <2>2
  <1>8. ASSUME NoRepeat(q)
        PROVE  NoRepeat(a) /\ NoRepeat(b) /\ Elems(a) \cap Elems(b) = {}
    <2>1. \A i, j \in 1 .. n : q[i] = q[j] => i = j
      BY <1>8 DEF NoRepeat, n
    <2>2. NoRepeat(a)
      BY <1>3, <2>1 DEF NoRepeat
    <2>3. NoRepeat(b)
      <3> SUFFICES ASSUME NEW i \in 1 .. Len(b), NEW j \in 1 .. Len(b), b[i] = b[j]
                   PROVE  i = j
        BY DEF NoRepeat
      <3>1. k + i = k + j
        BY <1>4, <2>1
      <3> QED BY <1>1, <1>2, <3>1
    <2>4. ASSUME NEW i \in 1 .. Len(a), NEW j \in 1 .. Len(b), a[i] = b[j]
          PROVE  FALSE
      <3>1. i = k + j
        BY <1>3, <1>4, <2>1, <2>4
      <3> QED BY <1>1, <1>3, <1>4, <3>1
    <2> QED BY <2>2, <2>3, <2>4 DEF Elems
  <1> QED BY <1>2, <1>5, <1>6, <1>7, <1>8 DEF a, b, n

-------------------------------------------------------------------------------
(* Steps. *)

\* What Emit does: r's output grows, its stream ends if r does, and no other
\* request's stream changes.
LEMMA EmitEffect ==
    ASSUME Types, NEW r \in Request, NEW t \in Token, Emit(r, t)
    PROVE  /\ out' \in [Request -> Seq(Token)]
           /\ stream' \in [Request -> Seq(Token \cup {End})]
           /\ out'[r] # <<>>
           /\ CheckFinished(out'[r]) => Ended(r)'
           /\ ~CheckFinished(out'[r]) => ~Ended(r)'
           /\ \A q \in Request \ {r} : out'[q] = out[q] /\ (Ended(q)' <=> Ended(q))
  <1>1. out[r] \in Seq(Token) /\ stream[r] \in Seq(Token \cup {End})
    BY DEF Types
  <1>2. /\ Append(out[r], t) \in Seq(Token) /\ Append(out[r], t) # <<>>
    BY <1>1
  <1>3. out' = [out EXCEPT ![r] = Append(out[r], t)]
    BY DEF Emit
  <1>4. out' \in [Request -> Seq(Token)] /\ out'[r] # <<>>
    BY <1>2, <1>3 DEF Types
  <1>5. \A q \in Request \ {r} : out'[q] = out[q] /\ stream'[q] = stream[q]
    BY <1>3 DEF Types, Emit
  <1>6. CASE CheckFinished(out'[r])
    <2>1. stream' = [stream EXCEPT ![r] = stream[r] \o <<t, End>>]
      BY <1>6 DEF Emit
    <2>2. /\ stream[r] \o <<t, End>> \in Seq(Token \cup {End})
          /\ Len(stream[r] \o <<t, End>>) = Len(stream[r]) + 2
          /\ (stream[r] \o <<t, End>>)[Len(stream[r]) + 2] = End
          /\ stream[r] \o <<t, End>> # <<>>
      BY <1>1
    <2>3. stream'[r] = stream[r] \o <<t, End>>
      BY <2>1 DEF Types
    <2>4. Ended(r)'
      BY <2>2, <2>3 DEF Ended
    <2>5. stream' \in [Request -> Seq(Token \cup {End})]
      BY <2>1, <2>2 DEF Types
    <2> QED BY <1>4, <1>5, <1>6, <2>4, <2>5 DEF Ended
  <1>7. CASE ~CheckFinished(out'[r])
    <2>1. stream' = [stream EXCEPT ![r] = stream[r] \o <<t>>]
      BY <1>7 DEF Emit
    <2>2. /\ stream[r] \o <<t>> \in Seq(Token \cup {End})
          /\ Len(stream[r] \o <<t>>) = Len(stream[r]) + 1
          /\ (stream[r] \o <<t>>)[Len(stream[r]) + 1] = t
      BY <1>1
    <2>3. stream'[r] = stream[r] \o <<t>>
      BY <2>1 DEF Types
    <2>4. ~Ended(r)'
      BY <2>2, <2>3, StopAssumption DEF Ended
    <2>5. stream' \in [Request -> Seq(Token \cup {End})]
      BY <2>1, <2>2 DEF Types
    <2> QED BY <1>4, <1>5, <1>7, <2>4, <2>5 DEF Ended
  <1> QED BY <1>6, <1>7

\* The KV of a prompt, and of the token a decode feeds, are entries.
LEMMA PromptEntries ==
    ASSUME NEW r \in Request
    PROVE  Entries(Prompt[r]) \in Seq(KVEntry) /\ Entries(Prompt[r]) # <<>>
  <1>1. Prompt[r] \in Seq(Token) /\ Prompt[r] # <<>>
    BY PromptAssumption
  <1> DEFINE p == Prompt[r]
             n == Len(p)
             e == [i \in 1 .. n |-> <<p[i], i - 1>>]
  <1>2. n \in Nat /\ n > 0
    BY <1>1
  <1>3. \A i \in 1 .. n : p[i] \in Token /\ i - 1 \in Nat
    BY <1>1
  <1> HIDE DEF p, n
  <1>4. \A i \in 1 .. n : <<p[i], i - 1>> \in KVEntry
    BY <1>3 DEF KVEntry
  <1>5. e \in [1 .. n -> KVEntry]
    BY <1>4
  <1>6. e \in Seq(KVEntry) /\ Len(e) = n
    BY <1>2, <1>5
  <1> QED BY <1>2, <1>6 DEF Entries, p, n

\* The entry a decode adds is a token at a position.
LEMMA NewEntryType ==
    ASSUME Types, NEW r \in Request, out[r] # <<>>
    PROVE  NewEntry(r) \in KVEntry
  <1>1. out[r] \in Seq(Token) /\ kv[r] \in Seq(KVEntry)
    BY DEF Types
  <1>2. out[r][Len(out[r])] \in Token /\ Len(kv[r]) \in Nat
    BY <1>1
  <1> QED BY <1>2 DEF NewEntry, KVEntry

\* Two sequences with the same elements in the same places are the same.
LEMMA SameSequence ==
    ASSUME NEW S, NEW a \in Seq(S), NEW b \in Seq(S), Len(a) = Len(b),
           \A i \in 1 .. Len(a) : a[i] = b[i]
    PROVE  a = b
  OBVIOUS

\* A row of the padded batch: the cache, m - Len(cache) pads, the new entry.
LEMMA RowOf ==
    ASSUME Types, NEW r \in Request, out[r] # <<>>, NEW m \in Nat, Len(kv[r]) <= m
    PROVE  /\ Row(r, m) \in Seq(KVEntry) /\ Len(Row(r, m)) = m + 1
           /\ Row(r, m)[m + 1] = NewEntry(r)
           /\ SubSeq(Row(r, m), 1, Len(kv[r])) = kv[r]
  <1>1. PICK k : k = kv[r]
    OBVIOUS
  <1>2. PICK e : e = NewEntry(r)
    OBVIOUS
  <1>3. k \in Seq(KVEntry) /\ e \in KVEntry /\ Len(k) \in Nat /\ Len(k) <= m
    BY <1>1, <1>2, NewEntryType DEF Types
  <1> DEFINE pads == [i \in 1 .. m - Len(k) |-> Pad]
             row == k \o pads \o <<e>>
  <1>4. pads \in Seq(KVEntry) /\ Len(pads) = m - Len(k)
    <2>1. m - Len(k) \in Nat /\ Pad \in KVEntry
      BY <1>3 DEF KVEntry
    <2> QED BY <2>1
  <1> HIDE DEF pads
  <1>5. /\ row \in Seq(KVEntry) /\ Len(row) = m + 1 /\ row[m + 1] = e
        /\ \A i \in 1 .. Len(k) : row[i] = k[i]
    BY <1>3, <1>4
  <1>6. Row(r, m) = row
    BY <1>1, <1>2 DEF Row, row, pads
  <1> HIDE DEF row
  <1>7. SubSeq(row, 1, Len(k)) = k
    <2>1. PICK v : v = SubSeq(row, 1, Len(k))
      OBVIOUS
    <2>2. v \in Seq(KVEntry) /\ Len(v) = Len(k) /\ \A i \in 1 .. Len(k) : v[i] = row[i]
      BY <1>3, <1>5, <2>1
    <2> QED BY <1>3, <1>5, <2>1, <2>2, SameSequence
  <1> QED BY <1>1, <1>2, <1>5, <1>6, <1>7

\* What is kept of a row is the cache and the new entry.
LEMMA ExtractedIs ==
    ASSUME Types, NEW r \in Request, out[r] # <<>>, NEW m \in Nat, Len(kv[r]) <= m
    PROVE  Extracted(r, m) = Append(kv[r], NewEntry(r))
  <1>1. PICK k : k = kv[r]
    OBVIOUS
  <1>2. k \in Seq(KVEntry)
    BY <1>1 DEF Types
  <1>3. Extracted(r, m) = k \o <<NewEntry(r)>>
    BY <1>1, RowOf DEF Extracted
  <1>4. PICK e : e = NewEntry(r)
    OBVIOUS
  <1>5. k \o <<e>> = Append(k, e)
    BY <1>2
  <1> QED BY <1>1, <1>3, <1>4, <1>5

\* A non-empty set of naturals has a least element: induction by the least
\* counterexample.
LEMMA Least ==
    ASSUME NEW T, T \subseteq Nat, T # {}
    PROVE  \E x \in T : \A y \in T : x <= y
  <1>1. IsWellFoundedOn(OpToRel(<, Nat), Nat)
    BY NatLessThanWellFounded
  <1>2. PICK x \in T : \A y \in T : ~(<<y, x>> \in OpToRel(<, Nat))
    BY <1>1, WFMin
  <1>3. \A y \in T : ~(y < x)
    BY <1>2 DEF OpToRel
  <1> QED BY <1>3

\* The longest cache of a batch is one of its lengths and bounds them all.
LEMMA LongestOfBatch ==
    ASSUME Types, running # <<>>
    PROVE  LET m == Longest({Len(kv[r]) : r \in Elems(running)})
           IN  m \in Nat /\ \A r \in Elems(running) : Len(kv[r]) <= m
  <1> DEFINE n == Len(running)
             len(i) == Len(kv[running[i]])
             L == {Len(kv[r]) : r \in Elems(running)}
             T == {j \in 1 .. n : ~\E k \in 1 .. j : \A i \in 1 .. j : len(i) <= len(k)}
  <1>1. n \in Nat /\ n > 0 /\ \A i \in 1 .. n : len(i) \in Nat
    <2>1. running \in Seq(Request)
      BY DEF Types
    <2>2. n \in Nat /\ n > 0 /\ \A i \in 1 .. n : running[i] \in Request
      BY <2>1
    <2>3. \A r \in Request : Len(kv[r]) \in Nat
      BY DEF Types
    <2> QED BY <2>2, <2>3
  <1> HIDE DEF n, len
  <1>2. T \subseteq Nat /\ \A j \in T : j \in 1 .. n
    BY <1>1
  <1>3. ASSUME NEW j \in 1 .. n, NEW k \in 1 .. j, \A i \in 1 .. j : len(i) <= len(k)
        PROVE  j \notin T
    BY <1>3
  <1>4. ASSUME NEW j \in 1 .. n, j \notin T
        PROVE  \E k \in 1 .. j : \A i \in 1 .. j : len(i) <= len(k)
    BY <1>4
  <1> HIDE DEF T
  <1>5. T = {}
    <2> SUFFICES ASSUME T # {} PROVE FALSE
      OBVIOUS
    <2>1. PICK x \in T : \A y \in T : x <= y
      BY <1>2, Least
    <2>2. x \in 1 .. n /\ x \in Nat /\ len(x) \in Nat
      BY <1>1, <1>2
    <2>3. CASE x = 1
      <3>1. 1 \in 1 .. x /\ \A i \in 1 .. x : i = 1
        BY <2>3
      <3>2. len(1) <= len(1)
        BY <2>2, <2>3
      <3> QED BY <1>3, <2>2, <3>1, <3>2
    <2>4. CASE x # 1
      <3>1. x - 1 \in 1 .. n /\ ~(x <= x - 1)
        BY <1>1, <2>2, <2>4
      <3>2. PICK k \in 1 .. x - 1 : \A i \in 1 .. x - 1 : len(i) <= len(k)
        BY <1>4, <2>1, <3>1
      <3>3. k \in 1 .. n /\ k \in 1 .. x /\ \A i \in 1 .. x - 1 : i \in 1 .. n
        BY <1>1, <2>2, <3>1
      <3>4. \A i \in 1 .. x : i = x \/ i \in 1 .. x - 1
        BY <2>2
      <3>5. CASE len(x) <= len(k)
        <4>1. \A i \in 1 .. x : len(i) <= len(k)
          BY <3>2, <3>4, <3>5
        <4> QED BY <1>3, <2>2, <3>3, <4>1
      <3>6. CASE ~(len(x) <= len(k))
        <4>1. ASSUME NEW i \in 1 .. x PROVE len(i) <= len(x)
          <5>1. CASE i = x
            BY <2>2, <5>1
          <5>2. CASE i \in 1 .. x - 1
            <6>1. len(i) \in Nat /\ len(k) \in Nat /\ len(i) <= len(k)
              BY <1>1, <3>2, <3>3, <5>2
            <6> QED BY <2>2, <3>6, <6>1
          <5> QED BY <3>4, <5>1, <5>2
        <4>2. x \in 1 .. x
          BY <2>2
        <4> QED BY <1>3, <2>2, <4>1, <4>2
      <3> QED BY <3>5, <3>6
    <2> QED BY <2>3, <2>4
  <1>6. PICK k \in 1 .. n : \A i \in 1 .. n : len(i) <= len(k)
    <2>1. n \in 1 .. n
      BY <1>1
    <2> QED BY <1>4, <1>5, <2>1
  <1>7. L = {len(i) : i \in 1 .. n}
    BY DEF n, len, Elems
  <1>8. len(k) \in L /\ \A l \in L : l <= len(k)
    BY <1>6, <1>7
  <1>9. Longest(L) \in L /\ \A l \in L : l <= Longest(L)
    BY <1>8 DEF Longest
  <1>10. L \subseteq Nat
    BY <1>1, <1>7
  <1>11. Longest(L) \in Nat /\ \A r \in Elems(running) : Len(kv[r]) <= Longest(L)
    BY <1>9, <1>10
  <1> QED BY <1>11

\* The parts of the invariant.
LEMMA InvFacts ==
    ASSUME ServerInv
    PROVE  Types /\ Phases /\ Places /\ \A r \in Request : Stage(r)
  BY DEF ServerInv, Stages

\* A new request is at the first stage, in the waiting queue only.
LEMMA AddRequestKeeps == ASSUME ServerInv, NEW r \in Request, AddRequest(r) PROVE ServerInv'
  <1>1. /\ r \notin submitted /\ submitted' = submitted \cup {r}
        /\ waiting' = Append(waiting, r)
        /\ UNCHANGED <<mode, pc, running, toPrefill, todo, still, out, kv, seen, stream, faults>>
    BY DEF AddRequest, reqVars
  <1>2. Types'
    BY <1>1, InvFacts DEF Types
  <1>3. r \notin Placed /\ ~Ended(r) /\ kv[r] = <<>>
    BY <1>1, InvFacts DEF Stage
  <1>4. Elems(waiting') = Elems(waiting) \cup {r} /\ NoRepeat(waiting')
    BY <1>1, <1>3, InvFacts, Appended DEF Types, Places, Placed
  <1>5. Phases'
    BY <1>1, InvFacts DEF Phases
  <1>6. r \notin Elems(todo)
    <2>1. CASE mode = "baseline"
      BY <1>3, <2>1 DEF Placed
    <2>2. CASE mode = "batched"
      <3>1. Elems(todo) \subseteq Elems(running) \/ todo = <<>>
        BY <2>2, InvFacts DEF Phases
      <3>2. Elems(<<>>) = {}
        BY DEF Elems
      <3> QED BY <1>3, <3>1, <3>2 DEF Placed
    <2> QED BY <2>1, <2>2, InvFacts DEF Types
  <1>7. Places'
    BY <1>1, <1>3, <1>4, <1>6, InvFacts DEF Places, Placed
  <1>8. ASSUME NEW q \in Request PROVE Stage(q)'
    <2>1. Going' = Going /\ (Blamed' <=> Blamed) /\ Placed' = Placed \cup {r}
      BY <1>1, <1>4 DEF Going, Blamed, Placed
    <2>2. Ended(q)' <=> Ended(q)
      BY <1>1 DEF Ended
    <2> QED BY <1>1, <1>3, <1>4, <2>1, <2>2, InvFacts DEF Stage
  <1> QED BY <1>2, <1>5, <1>7, <1>8 DEF ServerInv, Stages

\* The empty list.
LEMMA NothingIn == Elems(<<>>) = {} /\ NoRepeat(<<>>)
  BY DEF Elems, NoRepeat

\* The request a baseline step takes leaves the queue for todo.
LEMMA BeginBaselineKeeps == ASSUME ServerInv, BeginBaseline PROVE ServerInv'
  <1>1. PICK r : r = Head(waiting)
    OBVIOUS
  <1>2. /\ mode = "baseline" /\ pc = "idle" /\ waiting # <<>> /\ todo' = <<r>>
        /\ waiting' = Tail(waiting) /\ pc' = "prefill"
        /\ UNCHANGED <<mode, submitted, running, toPrefill, still, out, kv, seen, stream, faults>>
    BY <1>1 DEF BeginBaseline, reqVars
  <1>3. /\ r \in Request /\ r \in Elems(waiting) /\ waiting' \in Seq(Request)
        /\ Elems(waiting) = {r} \cup Elems(waiting')
        /\ NoRepeat(waiting') /\ r \notin Elems(waiting')
    BY <1>1, <1>2, InvFacts, HeadAndTail DEF Types, Places
  <1>4. /\ todo' \in Seq(Request) /\ Elems(todo') = {r} /\ NoRepeat(todo') /\ Len(todo') = 1
    BY <1>2, <1>3, Single
  <1>5. Types'
    BY <1>2, <1>3, <1>4, InvFacts DEF Types
  <1>6. running = <<>> /\ toPrefill = <<>> /\ still = <<>> /\ todo = <<>>
    BY <1>2, InvFacts DEF Phases
  <1>7. Phases'
    BY <1>2, <1>4, <1>6, InvFacts DEF Phases
  <1>8. Places'
    BY <1>2, <1>3, <1>4, <1>6, NothingIn, InvFacts DEF Places
  <1>9. ASSUME NEW q \in Request PROVE Stage(q)'
    <2>1. Going' = {} /\ Going = {} /\ (Blamed' <=> Blamed) /\ Placed' = Placed
      BY <1>2, <1>3, <1>4, <1>6, NothingIn DEF Going, Blamed, Placed
    <2>2. Ended(q)' <=> Ended(q)
      BY <1>2 DEF Ended
    <2> QED BY <1>2, <1>3, <1>4, <1>6, NothingIn, <2>1, <2>2, InvFacts DEF Stage
  <1> QED BY <1>5, <1>7, <1>8, <1>9 DEF ServerInv, Stages

\* A baseline step has one request.
LEMMA OneOfBaseline ==
    ASSUME ServerInv, mode = "baseline", pc \in {"prefill", "decode"}
    PROVE  /\ running = <<>> /\ toPrefill = <<>> /\ still = <<>>
           /\ todo[1] \in Request /\ Elems(todo) = {todo[1]}
  <1>1. /\ running = <<>> /\ toPrefill = <<>> /\ still = <<>> /\ Len(todo) = 1
        /\ todo \in Seq(Request)
    BY InvFacts DEF Phases, Types
  <1>2. 1 \in 1 .. Len(todo) /\ \A i \in 1 .. Len(todo) : i = 1
    BY <1>1
  <1>3. \A q \in Seq(Request) : \A i \in 1 .. Len(q) : q[i] \in Request
    OBVIOUS
  <1>4. todo[1] \in Request
    BY <1>1, <1>2, <1>3
  <1> QED BY <1>1, <1>2, <1>4 DEF Elems

\* A token of the one request of a baseline step, for which KV caches c hold
\* an entry or more.
LEMMA BaselineTokenKeeps ==
    ASSUME ServerInv, mode = "baseline", pc \in {"prefill", "decode"},
           NEW t \in Token, NEW c \in [Request -> Seq(KVEntry)],
           c[todo[1]] # <<>>, \A q \in Request \ {todo[1]} : c[q] = kv[q],
           BaselineToken(todo[1], t, c)
    PROVE  ServerInv'
  <1>1. PICK r : r = todo[1]
    OBVIOUS
  <1>2. running = <<>> /\ toPrefill = <<>> /\ still = <<>> /\ Len(todo) = 1
    BY OneOfBaseline, InvFacts DEF Phases
  <1>3. r \in Request /\ Elems(todo) = {r}
    BY <1>1, OneOfBaseline
  <1>4. /\ Emit(r, t)
        /\ UNCHANGED <<mode, submitted, waiting, running, toPrefill, still, seen, faults>>
        /\ IF CheckFinished(out'[r])
           THEN kv' = Dropped(r, c) /\ todo' = <<>> /\ pc' = "idle"
           ELSE kv' = c /\ pc' = "decode" /\ UNCHANGED todo
    BY <1>1 DEF BaselineToken
  <1>5. /\ out' \in [Request -> Seq(Token)] /\ stream' \in [Request -> Seq(Token \cup {End})]
        /\ out'[r] # <<>>
        /\ CheckFinished(out'[r]) => Ended(r)'
        /\ ~CheckFinished(out'[r]) => ~Ended(r)'
        /\ \A q \in Request \ {r} : Ended(q)' <=> Ended(q)
    BY <1>3, <1>4, InvFacts, EmitEffect
  <1>6. r \in submitted /\ r \notin Elems(waiting)
    <2>1. r \in Placed
      BY <1>3 DEF Placed
    <2> QED BY <1>3, <2>1, InvFacts DEF Stage, Places
  <1>7. CASE CheckFinished(out'[r])
    <2>1. /\ kv' \in [Request -> Seq(KVEntry)] /\ kv'[r] = <<>>
          /\ \A q \in Request \ {r} : kv'[q] = kv[q]
      <3>1. kv' = [c EXCEPT ![r] = <<>>] /\ <<>> \in Seq(KVEntry)
        BY <1>4, <1>7 DEF Dropped
      <3> QED BY <1>1, <1>3, <3>1
    <2>2. todo' = <<>> /\ pc' = "idle"
      BY <1>4, <1>7
    <2>3. Types'
      <3>1. todo' \in Seq(Request)
        BY <2>2
      <3> QED BY <1>4, <1>5, <2>1, <3>1, InvFacts DEF Types
    <2>4. Phases'
      BY <1>2, <1>4, <2>2, InvFacts DEF Phases
    <2>5. Places'
      BY <1>2, <1>4, <2>2, NothingIn, InvFacts DEF Places
    <2>6. ASSUME NEW q \in Request PROVE Stage(q)'
      <3>1. Going' = {} /\ Going = {} /\ (Blamed' <=> Blamed) /\ Placed' = Placed \ {r}
        BY <1>2, <1>3, <1>4, <1>6, <2>2, NothingIn DEF Going, Blamed, Placed
      <3>2. Ended(r)' /\ (q # r => (Ended(q)' <=> Ended(q)) /\ kv'[q] = kv[q])
        BY <1>5, <1>7, <2>1
      <3>3. q # r => q \notin Elems(todo)
        BY <1>3
      <3> QED BY <1>2, <1>3, <1>4, <1>6, <2>1, <2>2, NothingIn, <3>1, <3>2, <3>3, InvFacts
              DEF Stage
    <2> QED BY <2>3, <2>4, <2>5, <2>6 DEF ServerInv, Stages
  <1>8. CASE ~CheckFinished(out'[r])
    <2>1. kv' = c /\ todo' = todo /\ pc' = "decode"
      BY <1>4, <1>8
    <2>2. Types'
      BY <1>4, <1>5, <2>1, InvFacts DEF Types
    <2>3. Phases'
      BY <1>2, <1>4, <2>1, InvFacts DEF Phases
    <2>4. Places'
      BY <1>2, <1>4, <2>1, InvFacts DEF Places
    <2>5. ASSUME NEW q \in Request PROVE Stage(q)'
      <3>1. Going' = {} /\ Going = {} /\ (Blamed' <=> Blamed) /\ Placed' = Placed
        BY <1>2, <1>4, <2>1, NothingIn DEF Going, Blamed, Placed
      <3>2. ~Ended(r)' /\ (q # r => (Ended(q)' <=> Ended(q)) /\ kv'[q] = kv[q])
        BY <1>1, <1>5, <1>8, <2>1
      <3>3. kv'[r] # <<>>
        BY <1>1, <2>1
      <3> QED BY <1>2, <1>3, <1>4, <1>5, <1>6, <2>1, NothingIn, <3>1, <3>2, <3>3, InvFacts
              DEF Stage
    <2> QED BY <2>2, <2>3, <2>4, <2>5 DEF ServerInv, Stages
  <1> QED BY <1>7, <1>8

\* A baseline prefill takes its request to the decode stage.
LEMMA BaselinePrefillKeeps ==
    ASSUME ServerInv, NEW t \in Token, BaselinePrefill(t)
    PROVE  ServerInv'
  <1>1. PICK r : r = todo[1]
    OBVIOUS
  <1>2. PICK c : c = [kv EXCEPT ![r] = Entries(Prompt[r])]
    OBVIOUS
  <1>3. mode = "baseline" /\ pc = "prefill" /\ BaselineToken(todo[1], t, c)
    BY <1>1, <1>2 DEF BaselinePrefill
  <1>4. r \in Request
    BY <1>1, <1>3, OneOfBaseline
  <1>5. Entries(Prompt[r]) \in Seq(KVEntry) /\ Entries(Prompt[r]) # <<>>
    BY <1>4, PromptEntries
  <1>6. /\ c \in [Request -> Seq(KVEntry)] /\ c[r] # <<>>
        /\ \A q \in Request \ {r} : c[q] = kv[q]
    BY <1>2, <1>4, <1>5, InvFacts DEF Types
  <1> QED BY <1>1, <1>3, <1>6, BaselineTokenKeeps

\* A baseline decode keeps its request where it is until it ends.
LEMMA BaselineDecodeKeeps ==
    ASSUME ServerInv, NEW t \in Token, BaselineDecode(t)
    PROVE  ServerInv'
  <1>1. PICK r : r = todo[1]
    OBVIOUS
  <1>2. PICK c : c = [kv EXCEPT ![r] = Append(kv[r], NewEntry(r))]
    OBVIOUS
  <1>3. mode = "baseline" /\ pc = "decode" /\ BaselineToken(todo[1], t, c)
    BY <1>1, <1>2 DEF BaselineDecode
  <1>4. r \in Request /\ r \in Elems(todo)
    BY <1>1, <1>3, OneOfBaseline
  <1>5. out[r] # <<>> /\ kv[r] \in Seq(KVEntry)
    BY <1>3, <1>4, InvFacts DEF Stage, Types
  <1>6. NewEntry(r) \in KVEntry
    BY <1>4, <1>5, InvFacts, NewEntryType
  <1>7. Append(kv[r], NewEntry(r)) \in Seq(KVEntry) /\ Append(kv[r], NewEntry(r)) # <<>>
    BY <1>5, <1>6
  <1>8. /\ c \in [Request -> Seq(KVEntry)] /\ c[r] # <<>>
        /\ \A q \in Request \ {r} : c[q] = kv[q]
    BY <1>2, <1>4, <1>7, InvFacts DEF Types
  <1> QED BY <1>1, <1>3, <1>8, BaselineTokenKeeps

\* Admission moves what fits from the waiting queue to to_prefill.
LEMMA BeginBatchedKeeps == ASSUME ServerInv, BeginBatched PROVE ServerInv'
  <1>1. /\ mode = "batched" /\ pc = "idle"
        /\ toPrefill' = SubSeq(waiting, 1, Admissible)
        /\ waiting' = SubSeq(waiting, Admissible + 1, Len(waiting))
        /\ pc' = "prefill"
        /\ UNCHANGED <<mode, submitted, running, todo, still, out, kv, seen, stream, faults>>
    BY DEF BeginBatched, reqVars
  <1>2. toPrefill = <<>> /\ todo = <<>> /\ still = <<>> /\ Len(running) <= MaxRunning
    <2>1. Len(running) \in Nat /\ Len(<<>>) = 0 /\ MaxRunning \in Nat
      BY InvFacts, LimitAssumption DEF Types
    <2> QED BY <1>1, <2>1, InvFacts DEF Phases
  <1>3. /\ Admissible \in 0 .. Len(waiting) /\ Admissible + Len(running) <= MaxRunning
    <2>1. Len(waiting) \in Nat /\ Len(running) \in Nat /\ MaxRunning \in Nat
      BY InvFacts, LimitAssumption DEF Types
    <2> QED BY <1>2, <2>1 DEF Admissible
  <1>4. /\ toPrefill' \in Seq(Request) /\ waiting' \in Seq(Request) /\ Len(toPrefill') = Admissible
        /\ Elems(toPrefill') \cup Elems(waiting') = Elems(waiting)
        /\ NoRepeat(toPrefill') /\ NoRepeat(waiting')
        /\ Elems(toPrefill') \cap Elems(waiting') = {}
    <2>1. waiting \in Seq(Request) /\ NoRepeat(waiting)
      BY InvFacts DEF Types, Places
    <2> QED BY <1>1, <1>3, <2>1, Split
  <1>5. Types'
    BY <1>1, <1>4, InvFacts DEF Types
  <1>6. Len(running) + Len(toPrefill') <= MaxRunning
    <2>1. Len(running) \in Nat /\ MaxRunning \in Nat
      BY InvFacts, LimitAssumption DEF Types
    <2> QED BY <1>3, <1>4, <2>1
  <1>7. Phases'
    BY <1>1, <1>2, <1>6 DEF Phases
  <1>8. Places'
    BY <1>1, <1>2, <1>4, NothingIn, InvFacts DEF Places
  <1>9. ASSUME NEW q \in Request PROVE Stage(q)'
    <2>1. Going' = Going /\ (Blamed' <=> Blamed) /\ Placed' = Placed
      BY <1>1, <1>2, <1>4, NothingIn DEF Going, Blamed, Placed
    <2>2. Ended(q)' <=> Ended(q)
      BY <1>1 DEF Ended
    <2>3. Elems(waiting') \cup Elems(toPrefill') = Elems(waiting) \cup Elems(toPrefill)
      BY <1>2, <1>4, NothingIn
    <2> QED BY <1>1, <2>1, <2>2, <2>3, InvFacts DEF Stage
  <1> QED BY <1>5, <1>7, <1>8, <1>9 DEF ServerInv, Stages

\* A prefilled request joins the running batch, or ends at once.
LEMMA PrefillNextKeeps == ASSUME ServerInv, NEW t \in Token, PrefillNext(t) PROVE ServerInv'
  <1>1. PICK r : r = Head(toPrefill)
    OBVIOUS
  <1>2. /\ mode = "batched" /\ pc = "prefill" /\ toPrefill # <<>> /\ Emit(r, t)
        /\ toPrefill' = Tail(toPrefill)
        /\ UNCHANGED <<mode, pc, submitted, waiting, todo, still, seen, faults>>
        /\ IF CheckFinished(out'[r])
           THEN kv' = Dropped(r, kv) /\ UNCHANGED running
           ELSE kv' = [kv EXCEPT ![r] = Entries(Prompt[r])] /\ running' = Append(running, r)
    BY <1>1 DEF PrefillNext
  <1>3. /\ r \in Request /\ toPrefill' \in Seq(Request)
        /\ Elems(toPrefill) = {r} \cup Elems(toPrefill')
        /\ NoRepeat(toPrefill') /\ r \notin Elems(toPrefill')
    BY <1>1, <1>2, InvFacts, HeadAndTail DEF Types, Places
  <1>4. /\ out' \in [Request -> Seq(Token)] /\ stream' \in [Request -> Seq(Token \cup {End})]
        /\ out'[r] # <<>>
        /\ CheckFinished(out'[r]) => Ended(r)'
        /\ ~CheckFinished(out'[r]) => ~Ended(r)'
        /\ \A q \in Request \ {r} : out'[q] = out[q] /\ (Ended(q)' <=> Ended(q))
    BY <1>2, <1>3, InvFacts, EmitEffect
  <1>5. r \in submitted /\ r \notin Elems(waiting) /\ r \notin Elems(running) /\ kv[r] = <<>>
    <2>1. r \in Placed
      BY <1>3 DEF Placed
    <2> QED BY <1>3, <2>1, InvFacts DEF Stage, Places
  <1>6. todo = <<>> /\ still = <<>> /\ Len(running) + Len(toPrefill) <= MaxRunning
    BY <1>2, InvFacts DEF Phases
  <1>7. /\ Len(running) \in Nat /\ Len(toPrefill') \in Nat /\ Len(toPrefill) = Len(toPrefill') + 1
        /\ MaxRunning \in Nat /\ Len(Append(running, r)) = Len(running) + 1
    BY <1>2, <1>3, InvFacts, LimitAssumption DEF Types
  <1>8. CASE CheckFinished(out'[r])
    <2>1. kv' = kv
      <3>1. kv' = [kv EXCEPT ![r] = <<>>]
        BY <1>2, <1>8 DEF Dropped
      <3> QED BY <1>3, <1>5, <3>1, InvFacts DEF Types
    <2>2. running' = running
      BY <1>2, <1>8
    <2>3. Types'
      BY <1>2, <1>3, <1>4, <2>1, <2>2, InvFacts DEF Types
    <2>4. Len(running') + Len(toPrefill') <= MaxRunning
      BY <1>6, <1>7, <2>2
    <2>5. Phases'
      BY <1>2, <1>6, <2>4 DEF Phases
    <2>6. Places'
      BY <1>2, <1>3, <1>6, <2>2, NothingIn, InvFacts DEF Places
    <2>7. ASSUME NEW q \in Request PROVE Stage(q)'
      <3>1. /\ Going' = Going /\ Going = Elems(running) /\ (Blamed' <=> Blamed)
            /\ Placed' = Placed \ {r}
        BY <1>2, <1>3, <1>5, <2>2, NothingIn, InvFacts DEF Going, Blamed, Placed, Places
      <3>2. Ended(r)' /\ (q # r => (Ended(q)' <=> Ended(q)) /\ out'[q] = out[q])
        BY <1>4, <1>8
      <3> QED BY <1>2, <1>3, <1>5, <2>1, <2>2, <3>1, <3>2, InvFacts DEF Stage
    <2> QED BY <2>3, <2>5, <2>6, <2>7 DEF ServerInv, Stages
  <1>9. CASE ~CheckFinished(out'[r])
    <2>1. Entries(Prompt[r]) \in Seq(KVEntry) /\ Entries(Prompt[r]) # <<>>
      BY <1>3, PromptEntries
    <2>2. kv' = [kv EXCEPT ![r] = Entries(Prompt[r])] /\ running' = Append(running, r)
      BY <1>2, <1>9
    <2>3. /\ kv' \in [Request -> Seq(KVEntry)] /\ kv'[r] # <<>>
          /\ \A q \in Request \ {r} : kv'[q] = kv[q]
      BY <1>3, <2>1, <2>2, InvFacts DEF Types
    <2>4. /\ running' \in Seq(Request) /\ Elems(running') = Elems(running) \cup {r}
          /\ NoRepeat(running') /\ Len(running') = Len(running) + 1
      BY <1>3, <1>5, <1>7, <2>2, InvFacts, Appended DEF Types, Places
    <2>5. Types'
      BY <1>2, <1>3, <1>4, <2>3, <2>4, InvFacts DEF Types
    <2>6. Len(running') + Len(toPrefill') <= MaxRunning
      BY <1>6, <1>7, <2>4
    <2>7. Phases'
      BY <1>2, <1>6, <2>6 DEF Phases
    <2>8. Places'
      BY <1>2, <1>3, <1>5, <1>6, <2>4, NothingIn, InvFacts DEF Places
    <2>9. ASSUME NEW q \in Request PROVE Stage(q)'
      <3>1. /\ Going' = Going \cup {r} /\ Going = Elems(running) /\ (Blamed' <=> Blamed)
            /\ Placed' = Placed
        BY <1>2, <1>3, <2>4 DEF Going, Blamed, Placed
      <3>2. ~Ended(r)' /\ (q # r => (Ended(q)' <=> Ended(q)) /\ out'[q] = out[q])
        BY <1>4, <1>9
      <3> QED BY <1>2, <1>3, <1>4, <1>5, <2>3, <2>4, <3>1, <3>2, InvFacts DEF Stage
    <2> QED BY <2>5, <2>7, <2>8, <2>9 DEF ServerInv, Stages
  <1> QED BY <1>8, <1>9

\* A batched decode makes the running batch the list of results to handle.
LEMMA BatchedDecodeKeeps == ASSUME ServerInv, BatchedDecode PROVE ServerInv'
  <1>1. PICK m : m = Longest({Len(kv[r]) : r \in Elems(running)})
    OBVIOUS
  <1>2. /\ mode = "batched" /\ pc = "prefill" /\ toPrefill = <<>> /\ running # <<>>
        /\ kv' = [r \in Request |-> IF r \in Elems(running) THEN Extracted(r, m) ELSE kv[r]]
        /\ seen' = [r \in Request |-> IF r \in Elems(running) THEN Attended(r, m) ELSE <<>>]
        /\ todo' = running /\ pc' = "results"
        /\ UNCHANGED <<mode, submitted, waiting, running, toPrefill, still, out, stream, faults>>
    BY <1>1 DEF BatchedDecode, DecodeDue
  <1>3. m \in Nat /\ \A r \in Elems(running) : Len(kv[r]) <= m
    BY <1>1, <1>2, InvFacts, LongestOfBatch
  <1>4. todo = <<>> /\ still = <<>> /\ Going = Elems(running)
    BY <1>2, InvFacts DEF Phases, Going
  <1>5. ASSUME NEW r \in Request, r \in Elems(running)
        PROVE  Extracted(r, m) \in Seq(KVEntry) /\ Extracted(r, m) # <<>>
    <2>1. out[r] # <<>>
      BY <1>4, <1>5, InvFacts DEF Stage
    <2>2. PICK k : k = kv[r]
      OBVIOUS
    <2>3. PICK e : e = NewEntry(r)
      OBVIOUS
    <2>4. k \in Seq(KVEntry) /\ e \in KVEntry
      BY <1>5, <2>1, <2>2, <2>3, InvFacts, NewEntryType DEF Types
    <2>5. Append(k, e) \in Seq(KVEntry) /\ Append(k, e) # <<>>
      BY <2>4, Grown
    <2> QED BY <1>3, <1>5, <2>1, <2>2, <2>3, <2>5, InvFacts, ExtractedIs
  <1>6. /\ kv' \in [Request -> Seq(KVEntry)] /\ DOMAIN seen' = Request
        /\ \A r \in Request : IF r \in Elems(running) THEN kv'[r] # <<>> ELSE kv'[r] = kv[r]
    BY <1>2, <1>5, InvFacts DEF Types
  <1>7. Types'
    BY <1>2, <1>6, InvFacts DEF Types
  <1>8. Len(running) \in Nat /\ Len(still) = 0
    BY <1>4, InvFacts DEF Types
  <1>9. Phases'
    <2>1. /\ Elems(todo') \cup Elems(still') \subseteq Elems(running')
          /\ Len(todo') + Len(still') <= Len(running')
      BY <1>2, <1>4, <1>8, NothingIn
    <2> QED BY <1>2, <1>4, <2>1, InvFacts DEF Phases
  <1>10. Places'
    BY <1>2, <1>4, NothingIn, InvFacts DEF Places
  <1>11. ASSUME NEW q \in Request PROVE Stage(q)'
    <2>1. Going' = Going /\ (Blamed' <=> Blamed) /\ Placed' = Placed
      BY <1>2, <1>4, NothingIn DEF Going, Blamed, Placed
    <2>2. Ended(q)' <=> Ended(q)
      BY <1>2 DEF Ended
    <2>3. q \in Elems(running) => q \in submitted /\ q \notin Elems(waiting)
      BY InvFacts DEF Stage, Placed, Places
    <2>4. q \notin Elems(toPrefill)
      BY <1>2, NothingIn
    <2> QED BY <1>2, <1>4, <1>6, <2>1, <2>2, <2>3, <2>4, InvFacts DEF Stage
  <1> QED BY <1>7, <1>9, <1>10, <1>11 DEF ServerInv, Stages

\* A step with nothing running ends without a decode.
LEMMA EndBatchedKeeps == ASSUME ServerInv, EndBatched PROVE ServerInv'
  <1>1. /\ mode = "batched" /\ pc = "prefill" /\ toPrefill = <<>> /\ running = <<>> /\ pc' = "idle"
        /\ UNCHANGED <<mode, submitted, waiting, running, toPrefill, todo, still, out, kv, seen,
                       stream, faults>>
    BY DEF EndBatched, reqVars
  <1>2. Types'
    BY <1>1, InvFacts DEF Types
  <1>3. Phases'
    BY <1>1, InvFacts DEF Phases
  <1>4. Places'
    BY <1>1, InvFacts DEF Places
  <1>5. ASSUME NEW q \in Request PROVE Stage(q)'
    <2>1. Going' = Going /\ (Blamed' <=> Blamed) /\ Placed' = Placed
      BY <1>1 DEF Going, Blamed, Placed
    <2>2. Ended(q)' <=> Ended(q)
      BY <1>1 DEF Ended
    <2> QED BY <1>1, <2>1, <2>2, InvFacts DEF Stage
  <1> QED BY <1>2, <1>3, <1>4, <1>5 DEF ServerInv, Stages

\* A token of a batched decode: those of the batch that go on are one fewer
\* if it was the last of its request.
LEMMA DecodeResultKeeps == ASSUME ServerInv, NEW t \in Token, DecodeResult(t) PROVE ServerInv'
  <1>1. PICK r : r = Head(todo)
    OBVIOUS
  <1>2. PICK kept : kept = IF CheckFinished(Append(out[r], t)) THEN still ELSE Append(still, r)
    OBVIOUS
  <1>3. /\ pc = "results" /\ Emit(r, t) /\ todo' = Tail(todo)
        /\ kv' = (IF CheckFinished(out'[r]) THEN Dropped(r, kv) ELSE kv)
        /\ seen' = [seen EXCEPT ![r] = <<>>]
        /\ IF Tail(todo) = <<>>
           THEN running' = kept /\ still' = <<>> /\ pc' = "idle"
           ELSE still' = kept /\ UNCHANGED <<running, pc>>
        /\ UNCHANGED <<mode, submitted, waiting, toPrefill, faults>>
    BY <1>1, <1>2 DEF DecodeResult
  <1>4. /\ mode = "batched" /\ toPrefill = <<>> /\ todo # <<>>
        /\ Elems(todo) \cup Elems(still) \subseteq Elems(running)
        /\ Len(todo) + Len(still) <= Len(running)
        /\ Len(running) + Len(toPrefill) <= MaxRunning
    <2>1. mode \in {"baseline", "batched"} /\ pc # "idle" /\ pc # "prefill" /\ pc # "decode"
      BY <1>3, InvFacts DEF Types
    <2> QED BY <1>3, <2>1, InvFacts DEF Phases
  <1>5. /\ r \in Request /\ todo' \in Seq(Request)
        /\ Elems(todo) = {r} \cup Elems(todo')
        /\ NoRepeat(todo') /\ r \notin Elems(todo')
    BY <1>1, <1>3, <1>4, InvFacts, HeadAndTail DEF Types, Places
  <1>6. /\ out' \in [Request -> Seq(Token)] /\ stream' \in [Request -> Seq(Token \cup {End})]
        /\ out'[r] # <<>> /\ out'[r] = Append(out[r], t)
        /\ CheckFinished(out'[r]) => Ended(r)'
        /\ ~CheckFinished(out'[r]) => ~Ended(r)'
        /\ \A q \in Request \ {r} : out'[q] = out[q] /\ (Ended(q)' <=> Ended(q))
    <2>1. out' = [out EXCEPT ![r] = Append(out[r], t)]
      BY <1>3 DEF Emit
    <2>2. out'[r] = Append(out[r], t)
      BY <1>5, <2>1, InvFacts DEF Types
    <2> QED BY <1>3, <1>5, <2>2, InvFacts, EmitEffect
  <1>7. /\ r \in Going /\ r \in Elems(running) /\ r \notin Elems(waiting) /\ r \notin Elems(still)
        /\ r \in submitted /\ kv[r] # <<>>
    BY <1>3, <1>4, <1>5, InvFacts DEF Going, Places, Stage, Placed
  <1>8. /\ kept \in Seq(Request) /\ NoRepeat(kept) /\ Len(kept) <= Len(still) + 1
        /\ Elems(kept) = (IF CheckFinished(out'[r]) THEN Elems(still) ELSE Elems(still) \cup {r})
    <2>1. still \in Seq(Request) /\ Len(still) \in Nat /\ Append(still, r) \in Seq(Request)
          /\ Len(Append(still, r)) = Len(still) + 1
      BY <1>5, InvFacts DEF Types
    <2>2. Elems(Append(still, r)) = Elems(still) \cup {r} /\ NoRepeat(Append(still, r))
      BY <1>5, <1>7, <2>1, InvFacts, Appended DEF Places
    <2>3. NoRepeat(still)
      BY InvFacts DEF Places
    <2>4. CASE CheckFinished(out'[r])
      <3>1. kept = still
        BY <1>2, <1>6, <2>4
      <3> QED BY <2>1, <2>3, <2>4, <3>1
    <2>5. CASE ~CheckFinished(out'[r])
      <3>1. kept = Append(still, r)
        BY <1>2, <1>6, <2>5
      <3> QED BY <2>1, <2>2, <2>5, <3>1
    <2> QED BY <2>4, <2>5
  <1>9. /\ kv' \in [Request -> Seq(KVEntry)] /\ DOMAIN seen' = Request
        /\ kv'[r] = (IF CheckFinished(out'[r]) THEN <<>> ELSE kv[r])
        /\ \A q \in Request \ {r} : kv'[q] = kv[q]
    <2>1. CASE CheckFinished(out'[r])
      <3>1. kv' = [kv EXCEPT ![r] = <<>>] /\ <<>> \in Seq(KVEntry)
        BY <1>3, <2>1 DEF Dropped
      <3> QED BY <1>3, <1>5, <2>1, <3>1, InvFacts DEF Types
    <2>2. CASE ~CheckFinished(out'[r])
      BY <1>3, <2>2, InvFacts DEF Types
    <2> QED BY <2>1, <2>2
  <1>10. /\ Len(todo) \in Nat /\ Len(still) \in Nat /\ Len(running) \in Nat /\ Len(kept) \in Nat
         /\ Len(todo') = Len(todo) - 1 /\ Len(todo) >= 1 /\ Len(toPrefill) = 0
         /\ MaxRunning \in Nat
    <2>1. todo \in Seq(Request) /\ still \in Seq(Request) /\ running \in Seq(Request)
      BY InvFacts DEF Types
    <2>2. Len(todo') = Len(todo) - 1 /\ Len(todo) >= 1
      BY <1>3, <1>4, <2>1
    <2>3. Len(toPrefill) = 0
      BY <1>4
    <2> QED BY <1>8, <2>1, <2>2, <2>3, LimitAssumption
  <1>11. Len(todo') + Len(kept) <= Len(running)
    BY <1>4, <1>8, <1>10
  <1>12. Elems(kept) \subseteq Elems(running)
    BY <1>4, <1>7, <1>8
  <1>13. /\ Elems(todo') \cup Elems(kept) =
                (IF CheckFinished(out'[r]) THEN Going \ {r} ELSE Going)
         /\ Elems(todo') \cap Elems(kept) = {}
    BY <1>3, <1>5, <1>7, <1>8, InvFacts DEF Going, Places
  <1>14. CASE Tail(todo) = <<>>
    <2>1. running' = kept /\ still' = <<>> /\ pc' = "idle" /\ todo' = <<>>
      BY <1>3, <1>14
    <2>2. Types'
      <3>1. still' \in Seq(Request)
        BY <2>1
      <3> QED BY <1>3, <1>5, <1>6, <1>8, <1>9, <2>1, <3>1, InvFacts DEF Types
    <2>3. Len(running') + Len(toPrefill') <= MaxRunning
      <3>1. Len(todo') = 0
        BY <2>1
      <3> QED BY <1>3, <1>4, <1>10, <1>11, <2>1, <3>1
    <2>4. Phases'
      BY <1>3, <1>4, <2>1, <2>3 DEF Phases
    <2>5. Places'
      BY <1>3, <1>4, <1>8, <1>12, <2>1, NothingIn, InvFacts DEF Places
    <2>6. ASSUME NEW q \in Request PROVE Stage(q)'
      <3>1. /\ Going' = (IF CheckFinished(out'[r]) THEN Going \ {r} ELSE Going)
            /\ Elems(running') = Going' /\ (Blamed' <=> Blamed)
            /\ Placed' = Elems(waiting) \cup Going'
        BY <1>3, <1>4, <1>13, <2>1, NothingIn DEF Going, Blamed, Placed
      <3>2. Placed = Elems(waiting) \cup Elems(running)
        BY <1>4, NothingIn DEF Placed
      <3>3. q # r => (Ended(q)' <=> Ended(q)) /\ out'[q] = out[q] /\ kv'[q] = kv[q]
        BY <1>6, <1>9
      <3>4. Going \subseteq Elems(running)
        BY <1>3, <1>4 DEF Going
      <3> QED BY <1>3, <1>4, <1>6, <1>7, <1>9, <3>1, <3>2, <3>3, <3>4, InvFacts DEF Stage
    <2> QED BY <2>2, <2>4, <2>5, <2>6 DEF ServerInv, Stages
  <1>15. CASE Tail(todo) # <<>>
    <2>1. running' = running /\ still' = kept /\ pc' = "results" /\ todo' # <<>>
      BY <1>3, <1>15
    <2>2. Types'
      BY <1>3, <1>5, <1>6, <1>8, <1>9, <2>1, InvFacts DEF Types
    <2>3. Phases'
      <3>1. Elems(todo') \cup Elems(still') \subseteq Elems(running')
        BY <1>4, <1>5, <1>12, <2>1
      <3> QED BY <1>3, <1>4, <1>11, <2>1, <3>1 DEF Phases
    <2>4. Places'
      BY <1>3, <1>5, <1>8, <1>13, <2>1, InvFacts DEF Places
    <2>5. ASSUME NEW q \in Request PROVE Stage(q)'
      <3>1. /\ Going' = (IF CheckFinished(out'[r]) THEN Going \ {r} ELSE Going)
            /\ (Blamed' <=> Blamed) /\ Placed' = Placed
        BY <1>3, <1>4, <1>13, <2>1 DEF Going, Blamed, Placed
      <3>2. q # r => (Ended(q)' <=> Ended(q)) /\ out'[q] = out[q] /\ kv'[q] = kv[q]
        BY <1>6, <1>9
      <3> QED BY <1>3, <1>4, <1>6, <1>7, <1>9, <2>1, <3>1, <3>2, NothingIn, InvFacts DEF Stage
    <2> QED BY <2>2, <2>3, <2>4, <2>5 DEF ServerInv, Stages
  <1> QED BY <1>14, <1>15

\* A failed forward is counted, and only one in a prefill drops requests when
\* batched.
LEMMA ForwardFailsKeeps == ASSUME ServerInv, ForwardFails PROVE ServerInv'
  <1>1. PICK phase \in Faults :
           /\ \/ phase = "prefill" /\ pc = "prefill" /\ toPrefill \o todo # <<>>
              \/ phase = "decode" /\ pc = "decode"
              \/ phase = "decode" /\ DecodeDue
           /\ faults' = Append(faults, phase)
    BY DEF ForwardFails
  <1>2. /\ toPrefill' = <<>> /\ todo' = <<>> /\ pc' = "idle"
        /\ UNCHANGED <<mode, submitted, waiting, running, still, out, kv, seen, stream>>
    BY DEF ForwardFails, reqVars
  <1>3. pc \in {"prefill", "decode"} /\ pc # "results"
    BY <1>1 DEF DecodeDue
  <1>4. faults \in Seq(Faults) /\ faults' \in Seq(Faults) /\ faults' # <<>>
    <2>1. faults \in Seq(Faults)
      BY InvFacts DEF Types
    <2>2. Append(faults, phase) \in Seq(Faults) /\ Append(faults, phase) # <<>>
      BY <1>1, <2>1
    <2> QED BY <1>1, <2>1, <2>2
  <1>5. Elems(faults') = Elems(faults) \cup {phase}
    BY <1>1, <1>4, Appended
  <1>6. Types'
    <2>1. toPrefill' \in Seq(Request) /\ todo' \in Seq(Request)
      BY <1>2
    <2> QED BY <1>2, <1>4, <2>1, InvFacts DEF Types
  <1>7. still = <<>> /\ (mode = "batched" => todo = <<>> /\ pc = "prefill")
    <2>1. mode \in {"baseline", "batched"} /\ pc # "idle"
      BY <1>3, InvFacts DEF Types
    <2> QED BY <1>3, <2>1, InvFacts DEF Phases
  <1>8. Len(running) + Len(toPrefill') <= MaxRunning
    <2>1. Len(running) \in Nat /\ Len(toPrefill) \in Nat
      BY InvFacts DEF Types
    <2>2. Len(running) + Len(toPrefill) <= MaxRunning
      BY InvFacts DEF Phases
    <2>3. Len(toPrefill') = 0
      BY <1>2
    <2> QED BY <2>1, <2>2, <2>3, LimitAssumption
  <1>9. Phases'
    BY <1>2, <1>7, <1>8, InvFacts DEF Phases
  <1>10. Places'
    BY <1>2, NothingIn, InvFacts DEF Places
  <1>11. Blamed' \/ (toPrefill = <<>> /\ mode = "batched")
    <2>1. CASE mode = "baseline"
      BY <1>2, <1>4, <2>1 DEF Blamed
    <2>2. CASE mode = "batched" /\ phase = "prefill"
      BY <1>2, <1>4, <1>5, <2>2 DEF Blamed
    <2>3. CASE mode = "batched" /\ phase # "prefill"
      BY <1>1, <1>7, <2>3 DEF DecodeDue
    <2> QED BY <2>1, <2>2, <2>3, InvFacts DEF Types
  <1>12. ASSUME NEW q \in Request PROVE Stage(q)'
    <2>1. Going' = Going /\ (Blamed => Blamed') /\ Placed' \subseteq Placed
      BY <1>2, <1>3, <1>4, <1>5, NothingIn DEF Going, Blamed, Placed
    <2>2. Ended(q)' <=> Ended(q)
      BY <1>2 DEF Ended
    <2>3. Blamed' \/ Placed' = Placed
      BY <1>2, <1>7, <1>11, NothingIn DEF Placed
    <2> QED BY <1>2, <2>1, <2>2, <2>3, NothingIn, InvFacts DEF Stage
  <1> QED BY <1>6, <1>9, <1>10, <1>12 DEF ServerInv, Stages

\* A step that changes none of the scheduler's state keeps the invariant.
LEMMA SameKeeps == ASSUME ServerInv, UNCHANGED schedVars PROVE ServerInv'
  <1>1. UNCHANGED <<mode, pc, submitted, waiting, running, toPrefill, todo, still, out, kv,
                    seen, stream, faults>>
    BY DEF schedVars, reqVars
  <1>2. Types' /\ Phases' /\ Places'
    BY <1>1, InvFacts DEF Types, Phases, Places
  <1>3. ASSUME NEW q \in Request PROVE Stage(q)'
    <2>1. Going' = Going /\ (Blamed' <=> Blamed) /\ Placed' = Placed
      BY <1>1 DEF Going, Blamed, Placed
    <2>2. Ended(q)' <=> Ended(q)
      BY <1>1 DEF Ended
    <2> QED BY <1>1, <2>1, <2>2, InvFacts DEF Stage
  <1> QED BY <1>2, <1>3 DEF ServerInv, Stages

\* The handlers, the workers and main change nothing of the scheduler but its
\* waiting queue.
LEMMA HandlersStutter ==
    ASSUME [Next]_vars
    PROVE  SchedulerStep \/ (\E r \in Request : Post(r)) \/ UNCHANGED schedVars
  <1>1. CASE StartGet \/ Shutdown \/ ForceExit \/ StopScheduler \/ Exit
    BY <1>1 DEF StartGet, Shutdown, ForceExit, Cancel, StopScheduler, Exit
  <1>2. CASE \E r \in Request : FinishGet(r) \/ Disconnect(r)
    BY <1>2 DEF FinishGet, Disconnect, Cancel
  <1>3. CASE Quiet \/ UNCHANGED vars
    BY <1>3 DEF Quiet, vars
  <1> QED BY <1>1, <1>2, <1>3 DEF Next

\* Each step keeps the invariant.
LEMMA ServerInvNext == ServerInv /\ [Next]_vars => ServerInv'
  <1> SUFFICES ASSUME ServerInv, [Next]_vars PROVE ServerInv'
    OBVIOUS
  <1>1. ASSUME Step PROVE ServerInv'
    <2>1. CASE BeginBaseline
      BY <2>1, BeginBaselineKeeps
    <2>2. CASE BeginBatched
      BY <2>2, BeginBatchedKeeps
    <2>3. CASE BatchedDecode
      BY <2>3, BatchedDecodeKeeps
    <2>4. CASE EndBatched
      BY <2>4, EndBatchedKeeps
    <2>5. CASE ForwardFails
      BY <2>5, ForwardFailsKeeps
    <2>6. ASSUME NEW t \in Token, BaselinePrefill(t) PROVE ServerInv'
      BY <2>6, BaselinePrefillKeeps
    <2>7. ASSUME NEW t \in Token, BaselineDecode(t) PROVE ServerInv'
      BY <2>7, BaselineDecodeKeeps
    <2>8. ASSUME NEW t \in Token, PrefillNext(t) PROVE ServerInv'
      BY <2>8, PrefillNextKeeps
    <2>9. ASSUME NEW t \in Token, DecodeResult(t) PROVE ServerInv'
      BY <2>9, DecodeResultKeeps
    <2> QED BY <1>1, <2>1, <2>2, <2>3, <2>4, <2>5, <2>6, <2>7, <2>8, <2>9 DEF Step
  <1>2. CASE SchedulerStep
    BY <1>1, <1>2 DEF SchedulerStep
  <1>3. ASSUME NEW r \in Request, Post(r) PROVE ServerInv'
    BY <1>3, AddRequestKeeps DEF Post
  <1>4. CASE UNCHANGED schedVars
    BY <1>4, SameKeeps
  <1>5. \/ SchedulerStep \/ (\E r \in Request : Post(r)) \/ UNCHANGED schedVars
    BY HandlersStutter
  <1> QED BY <1>2, <1>3, <1>4, <1>5

\* Every list is empty and nobody is submitted at first.
LEMMA ServerInvInit == ServerInit => ServerInv
  <1> SUFFICES ASSUME ServerInit PROVE ServerInv
    OBVIOUS
  <1>1. /\ mode \in {"baseline", "batched"} /\ pc = "idle" /\ submitted = {}
        /\ waiting = <<>> /\ running = <<>> /\ toPrefill = <<>> /\ todo = <<>> /\ still = <<>>
        /\ out = [r \in Request |-> <<>>] /\ kv = [r \in Request |-> <<>>]
        /\ seen = [r \in Request |-> <<>>] /\ stream = [r \in Request |-> <<>>]
        /\ faults = <<>>
    BY ModeAssumption DEF ServerInit, Init
  <1>2. Types
    <2>1. \A S : <<>> \in Seq(S)
      OBVIOUS
    <2> QED BY <1>1, <2>1 DEF Types
  <1>3. Len(<<>>) = 0 /\ MaxRunning \in Nat
    BY LimitAssumption
  <1>4. Phases
    BY <1>1, <1>3 DEF Phases
  <1>5. Places
    BY <1>1, NothingIn DEF Places
  <1>6. ASSUME NEW q \in Request PROVE Stage(q)
    <2>1. Placed = {} /\ Going = {} /\ ~Ended(q) /\ kv[q] = <<>>
      BY <1>1, NothingIn DEF Placed, Going, Ended
    <2> QED BY <1>1, <2>1, NothingIn DEF Stage
  <1> QED BY <1>2, <1>4, <1>5, <1>6 DEF ServerInv, Stages

\* The invariant holds in every reachable state.
LEMMA ServerInvariant == Spec => []ServerInv
  BY ServerInvInit, ServerInvNext, PTL DEF Spec

-------------------------------------------------------------------------------
(* Theorems. *)

\* A running request has its KV and KV memory is only held by admitted
\* requests, at most max_running of them, whatever forwards fail.
THEOREM KVIsHeldByRunning == Spec => []KVHeldByRunning
  <1>1. ServerInv => KVHeldByRunning
    <2> SUFFICES ASSUME ServerInv PROVE KVHeldByRunning
      OBVIOUS
    <2>1. Len(running) + Len(toPrefill) <= MaxRunning
      BY InvFacts DEF Phases
    <2>2. \A r \in Elems(running) : r \in Request
      BY InvFacts DEF Types, Elems
    <2>3. \A r \in Elems(running) : Ended(r) \/ kv[r] # <<>>
      BY <2>2, InvFacts DEF Stage
    <2>4. Going \subseteq Elems(running)
      BY InvFacts DEF Going, Phases, Types
    <2>5. mode = "batched" => {r \in Request : kv[r] # <<>>} \subseteq Elems(running)
      BY <2>4, InvFacts DEF Stage
    <2> QED BY <2>1, <2>2, <2>3, <2>5 DEF KVHeldByRunning
  <1> QED BY <1>1, ServerInvariant, PTL

\* The requests of all lists one behind the other.
LEMMA HomesArePlaced == ASSUME ServerInv PROVE NoRepeat(Homes) /\ Elems(Homes) = Placed
  <1>1. PICK last : last = IF mode = "baseline" THEN todo ELSE <<>>
    OBVIOUS
  <1>2. /\ waiting \in Seq(Request) /\ running \in Seq(Request) /\ toPrefill \in Seq(Request)
        /\ NoRepeat(waiting) /\ NoRepeat(running) /\ NoRepeat(toPrefill)
        /\ Elems(waiting) \cap Elems(running) = {}
        /\ Elems(waiting) \cap Elems(toPrefill) = {}
        /\ Elems(running) \cap Elems(toPrefill) = {}
    BY InvFacts DEF Types, Places
  <1>3. /\ last \in Seq(Request) /\ NoRepeat(last)
        /\ Elems(last) = (IF mode = "baseline" THEN Elems(todo) ELSE {})
    <2>1. todo \in Seq(Request) /\ NoRepeat(todo)
      BY InvFacts DEF Types, Places
    <2>2. <<>> \in Seq(Request)
      OBVIOUS
    <2> QED BY <1>1, <2>1, <2>2, NothingIn
  <1>4. /\ Elems(waiting) \cap Elems(last) = {}
        /\ Elems(running) \cap Elems(last) = {}
        /\ Elems(toPrefill) \cap Elems(last) = {}
    <2>1. CASE mode = "baseline"
      BY <1>3, <2>1, NothingIn, InvFacts DEF Phases, Places
    <2>2. CASE mode # "baseline"
      BY <1>3, <2>2
    <2> QED BY <2>1, <2>2
  <1>5. PICK a : a = waiting \o running
    OBVIOUS
  <1>6. a \in Seq(Request) /\ NoRepeat(a) /\ Elems(a) = Elems(waiting) \cup Elems(running)
    <2>1. waiting \o running \in Seq(Request)
      BY <1>2
    <2> QED BY <1>2, <1>5, <2>1, Joined
  <1>7. PICK b : b = a \o toPrefill
    OBVIOUS
  <1>8. b \in Seq(Request) /\ NoRepeat(b) /\ Elems(b) = Elems(a) \cup Elems(toPrefill)
    <2>1. a \o toPrefill \in Seq(Request) /\ Elems(a) \cap Elems(toPrefill) = {}
      BY <1>2, <1>6
    <2> QED BY <1>2, <1>6, <1>7, <2>1, Joined
  <1>9. NoRepeat(b \o last) /\ Elems(b \o last) = Elems(b) \cup Elems(last)
    <2>1. Elems(b) \cap Elems(last) = {}
      BY <1>4, <1>6, <1>8
    <2> QED BY <1>3, <1>8, <2>1, Joined
  <1>10. Homes = b \o last
    BY <1>1, <1>5, <1>7 DEF Homes
  <1> QED BY <1>3, <1>6, <1>8, <1>9, <1>10 DEF Placed

\* No request is run twice or streamed after its end, and none is lost unless
\* a forward failed: in batched mode, the forward of a prefill.
THEOREM RequestsHaveOneHome == Spec => []OneHome
  <1>1. ServerInv => OneHome
    <2> SUFFICES ASSUME ServerInv PROVE OneHome
      OBVIOUS
    <2>1. ASSUME NEW r \in Request
          PROVE  Cardinality({i \in 1 .. Len(Homes) : Homes[i] = r}) <= 1
      <3> DEFINE I == {i \in 1 .. Len(Homes) : Homes[i] = r}
      <3>1. \A i, j \in I : i = j
        BY HomesArePlaced DEF NoRepeat
      <3> HIDE DEF I
      <3>2. CASE I = {}
        <4>1. Cardinality(I) = 0
          BY <3>2, FS_EmptySet
        <4> QED BY <4>1 DEF I
      <3>3. CASE I # {}
        <4>1. PICK i \in I : I = {i}
          BY <3>1, <3>3
        <4>2. Cardinality(I) = 1
          BY <4>1, FS_Singleton
        <4> QED BY <4>2 DEF I
      <3> QED BY <3>2, <3>3
    <2>2. \A r \in Elems(Homes) : r \in Request
      <3>1. \A q \in Seq(Request) : Elems(q) \subseteq Request
        BY DEF Elems
      <3>2. Placed \subseteq Request
        BY <3>1, InvFacts DEF Placed, Types
      <3> QED BY <3>2, HomesArePlaced
    <2>3. ASSUME pc = "idle", NEW r \in Elems(Homes) PROVE r \in submitted /\ ~Ended(r)
      <3>1. r \in Request /\ r \in Placed
        BY <2>2, HomesArePlaced
      <3>2. Going = Elems(running)
        BY <2>3 DEF Going
      <3> QED BY <3>1, <3>2, InvFacts DEF Stage, Placed
    <2>4. ASSUME Lost # {} PROVE faults # <<>> /\ (mode = "batched" => "prefill" \in Elems(faults))
      <3>1. PICK r \in submitted : ~Ended(r) /\ r \notin Elems(Homes)
        BY <2>4 DEF Lost
      <3>2. r \in Request
        BY InvFacts DEF Types
      <3>3. Blamed
        BY <3>1, <3>2, HomesArePlaced, InvFacts DEF Stage
      <3> QED BY <3>3 DEF Blamed
    <2> QED BY <2>1, <2>3, <2>4 DEF OneHome
  <1> QED BY <1>1, ServerInvariant, PTL

-------------------------------------------------------------------------------
(* Padding leaves no trace. *)

\* One more token is one more entry, and leaves the others alone.
LEMMA OneMoreEntry ==
    ASSUME NEW s \in Seq(Token), NEW x \in Token
    PROVE  /\ Entries(s) \in Seq(KVEntry) /\ Len(Entries(s)) = Len(s)
           /\ Entries(Append(s, x)) = Append(Entries(s), <<x, Len(s)>>)
           /\ SubSeq(Append(s, x), 1, Len(Append(s, x)) - 1) = s
  <1>1. \A u \in Seq(Token) : Entries(u) \in Seq(KVEntry) /\ Len(Entries(u)) = Len(u)
    <2> SUFFICES ASSUME NEW u \in Seq(Token)
                 PROVE  Entries(u) \in Seq(KVEntry) /\ Len(Entries(u)) = Len(u)
      OBVIOUS
    <2> DEFINE n == Len(u)
    <2>1. n \in Nat /\ \A i \in 1 .. n : u[i] \in Token /\ i - 1 \in Nat
      OBVIOUS
    <2> HIDE DEF n
    <2>2. \A i \in 1 .. n : <<u[i], i - 1>> \in KVEntry
      BY <2>1 DEF KVEntry
    <2>3. [i \in 1 .. n |-> <<u[i], i - 1>>] \in [1 .. n -> KVEntry]
      BY <2>2
    <2>4. Entries(u) = [i \in 1 .. n |-> <<u[i], i - 1>>]
      BY DEF Entries, n
    <2>5. Entries(u) \in Seq(KVEntry) /\ Len(Entries(u)) = n
      BY <2>1, <2>3, <2>4
    <2> QED BY <2>5 DEF n
  <1>2. PICK u : u = Append(s, x)
    OBVIOUS
  <1>3. /\ u \in Seq(Token) /\ Len(u) = Len(s) + 1 /\ u[Len(s) + 1] = x /\ Len(s) \in Nat
        /\ \A i \in 1 .. Len(s) : u[i] = s[i]
    BY <1>2
  <1>4. Entries(u) = Append(Entries(s), <<x, Len(s)>>)
    <2>1. PICK e : e = Entries(s)
      OBVIOUS
    <2>2. PICK y : y = <<x, Len(s)>>
      OBVIOUS
    <2>3. e \in Seq(KVEntry) /\ Len(e) = Len(s) /\ y \in KVEntry
      BY <1>1, <1>3, <2>1, <2>2 DEF KVEntry
    <2>4. PICK a : a = Append(e, y)
      OBVIOUS
    <2>5. /\ a \in Seq(KVEntry) /\ Len(a) = Len(s) + 1 /\ a[Len(s) + 1] = y
          /\ \A i \in 1 .. Len(s) : a[i] = e[i]
      BY <2>3, <2>4
    <2>6. PICK v : v = Entries(u)
      OBVIOUS
    <2>7. v \in Seq(KVEntry) /\ Len(v) = Len(s) + 1
      BY <1>1, <1>3, <2>6
    <2>8. ASSUME NEW i \in 1 .. Len(s) + 1 PROVE a[i] = v[i]
      <3>1. v[i] = <<u[i], i - 1>>
        BY <1>3, <2>6 DEF Entries
      <3>2. CASE i = Len(s) + 1
        <4>1. i - 1 = Len(s)
          BY <1>3, <3>2
        <4> QED BY <1>3, <2>2, <2>5, <3>1, <3>2, <4>1
      <3>3. CASE i \in 1 .. Len(s)
        <4>1. e[i] = <<s[i], i - 1>>
          BY <2>1, <3>3 DEF Entries
        <4> QED BY <1>3, <2>5, <3>1, <3>3, <4>1
      <3>4. i = Len(s) + 1 \/ i \in 1 .. Len(s)
        BY <1>3
      <3> QED BY <3>2, <3>3, <3>4
    <2>9. a = v
      BY <2>5, <2>7, <2>8, SameSequence
    <2> QED BY <2>1, <2>2, <2>4, <2>6, <2>9
  <1>5. SubSeq(u, 1, Len(u) - 1) = s
    <2>1. PICK v : v = SubSeq(u, 1, Len(s))
      OBVIOUS
    <2>2. v \in Seq(Token) /\ Len(v) = Len(s) /\ \A i \in 1 .. Len(s) : v[i] = u[i]
      BY <1>3, <2>1
    <2>3. v = s
      BY <1>3, <2>2, SameSequence
    <2>4. Len(u) - 1 = Len(s)
      BY <1>3
    <2> QED BY <2>1, <2>3, <2>4
  <1> QED BY <1>1, <1>2, <1>4, <1>5

\* All tokens but the one not fed yet.
Fed(r) == SubSeq(Ids(r), 1, Len(Ids(r)) - 1)

\* A request's tokens end with the last of its output.
LEMMA IdsEnd ==
    ASSUME Types, NEW r \in Request
    PROVE  /\ Ids(r) \in Seq(Token)
           /\ out[r] = <<>> => Ids(r) = Prompt[r]
           /\ out[r] # <<>> => Fed(r) \in Seq(Token) /\ out[r][Len(out[r])] \in Token
                               /\ Ids(r) = Append(Fed(r), out[r][Len(out[r])])
  <1>1. PICK p : p = Prompt[r]
    OBVIOUS
  <1>2. PICK o : o = out[r]
    OBVIOUS
  <1>3. p \in Seq(Token) /\ o \in Seq(Token)
    BY <1>1, <1>2, PromptAssumption DEF Types
  <1>4. PICK s : s = p \o o
    OBVIOUS
  <1>5. /\ s \in Seq(Token) /\ Len(s) = Len(p) + Len(o) /\ Len(p) \in Nat /\ Len(o) \in Nat
        /\ \A i \in 1 .. Len(o) : s[Len(p) + i] = o[i]
    BY <1>3, <1>4
  <1>6. Ids(r) = s
    BY <1>1, <1>2, <1>4 DEF Ids
  <1>7. o = <<>> => s = p
    BY <1>3, <1>4
  <1>8. ASSUME o # <<>>
        PROVE  /\ SubSeq(s, 1, Len(s) - 1) \in Seq(Token) /\ o[Len(o)] \in Token
               /\ s = Append(SubSeq(s, 1, Len(s) - 1), o[Len(o)])
    <2>1. Len(o) > 0 /\ Len(o) \in 1 .. Len(o) /\ o[Len(o)] \in Token
      BY <1>3, <1>8
    <2>2. Len(s) \in Nat /\ Len(s) > 0 /\ s[Len(s)] = o[Len(o)]
      BY <1>5, <2>1
    <2>3. PICK f : f = SubSeq(s, 1, Len(s) - 1)
      OBVIOUS
    <2>4. /\ f \in Seq(Token) /\ Len(f) = Len(s) - 1
          /\ \A i \in 1 .. Len(s) - 1 : f[i] = s[i]
      BY <1>5, <2>2, <2>3
    <2>5. PICK a : a = Append(f, o[Len(o)])
      OBVIOUS
    <2>6. /\ a \in Seq(Token) /\ Len(a) = Len(s) /\ a[Len(s)] = o[Len(o)]
          /\ \A i \in 1 .. Len(s) - 1 : a[i] = f[i]
      <3>1. Len(f) + 1 = Len(s)
        BY <2>2, <2>4
      <3> QED BY <2>1, <2>4, <2>5, <3>1
    <2>7. \A i \in 1 .. Len(s) : i = Len(s) \/ i \in 1 .. Len(s) - 1
      BY <2>2
    <2>8. \A i \in 1 .. Len(a) : a[i] = s[i]
      BY <2>2, <2>4, <2>6, <2>7
    <2>9. a = s
      BY <1>5, <2>6, <2>8, SameSequence
    <2> QED BY <2>1, <2>3, <2>4, <2>5, <2>9
  <1> QED BY <1>1, <1>2, <1>5, <1>6, <1>7, <1>8 DEF Fed

\* What is attended to: the masked columns are exactly the pads.  The columns
\* are gone through from the left; after i of them f[i] is left.
LEMMA AttendedIs ==
    ASSUME Types, NEW r \in Request, out[r] # <<>>, NEW m \in Nat, Len(kv[r]) <= m
    PROVE  Attended(r, m) = Append(kv[r], NewEntry(r))
  <1>1. PICK k : k = kv[r]
    OBVIOUS
  <1>2. PICK e : e = NewEntry(r)
    OBVIOUS
  <1>3. PICK row : row = Row(r, m)
    OBVIOUS
  <1>4. PICK n : n = Len(row)
    OBVIOUS
  <1>5. PICK c : c = Len(k)
    OBVIOUS
  <1>6. /\ c \in Nat /\ c <= m /\ k \in Seq(KVEntry) /\ row \in Seq(KVEntry)
        /\ n = m + 1 /\ row[m + 1] = e /\ SubSeq(row, 1, c) = k
    <2>1. k \in Seq(KVEntry)
      BY <1>1 DEF Types
    <2>2. /\ row \in Seq(KVEntry) /\ n = m + 1 /\ row[m + 1] = e /\ SubSeq(row, 1, c) = k
      BY <1>1, <1>2, <1>3, <1>4, <1>5, RowOf
    <2>3. c \in Nat /\ c <= m
      BY <1>1, <1>5, <2>1
    <2> QED BY <2>1, <2>2, <2>3
  <1> DEFINE M == Masked(r, m)
             Rule(f) == f = [i \in 0 .. n |->
                               IF i = 0 THEN <<>>
                               ELSE IF i \in M THEN f[i - 1]
                               ELSE Append(f[i - 1], row[i])]
             W == [i \in 0 .. n |->
                     IF i <= c THEN SubSeq(row, 1, i)
                     ELSE IF i <= m THEN k ELSE Append(k, e)]
             K == CHOOSE f : Rule(f)
  <1>7. M = c + 1 .. m
    BY <1>1, <1>5 DEF Masked
  <1> HIDE DEF M
  <1>8. Attended(r, m) = K[n]
    BY <1>3, <1>4 DEF Attended, M
  <1>9. ASSUME NEW i \in 0 .. n
        PROVE  W[i] = IF i = 0 THEN <<>>
                      ELSE IF i \in M THEN W[i - 1]
                      ELSE Append(W[i - 1], row[i])
    <2>1. i \in Nat /\ n \in Nat
      BY <1>6
    <2>2. CASE i = 0
      <3>1. SubSeq(row, 1, 0) = <<>>
        BY <1>6
      <3> QED BY <1>6, <2>2, <3>1
    <2>3. CASE i # 0 /\ i <= c
      <3>1. i \notin M /\ i - 1 \in 0 .. n /\ i - 1 <= c /\ i \in 1 .. n
        BY <1>6, <1>7, <2>1, <2>3
      <3>2. W[i] = SubSeq(row, 1, i) /\ W[i - 1] = SubSeq(row, 1, i - 1)
        BY <2>3, <3>1
      <3>3. SubSeq(row, 1, i) = Append(SubSeq(row, 1, i - 1), row[i])
        BY <1>4, <1>6, <3>1
      <3> QED BY <2>3, <3>1, <3>2, <3>3
    <2>4. CASE i > c /\ i <= m
      <3>1. i \in M /\ i # 0 /\ i - 1 \in 0 .. n /\ (i - 1 <= c => i - 1 = c) /\ i - 1 <= m
        BY <1>6, <1>7, <2>1, <2>4
      <3>2. ~(i <= c)
        BY <1>6, <2>1, <2>4
      <3>3. W[i] = k
        BY <2>4, <3>2
      <3>4. W[i - 1] = k
        <4>1. CASE i - 1 <= c
          BY <1>6, <3>1, <4>1
        <4>2. CASE ~(i - 1 <= c)
          BY <3>1, <4>2
        <4> QED BY <4>1, <4>2
      <3> QED BY <3>1, <3>3, <3>4
    <2>5. CASE i > m
      <3>1. i = m + 1 /\ i \notin M /\ i # 0 /\ i - 1 = m /\ m \in 0 .. n /\ ~(i <= c) /\ ~(i <= m)
        BY <1>6, <1>7, <2>1, <2>5
      <3>2. W[i] = Append(k, e)
        BY <3>1
      <3>3. W[m] = k
        <4>1. CASE m <= c
          <5>1. m = c
            BY <1>6, <4>1
          <5> QED BY <1>6, <3>1, <4>1, <5>1
        <4>2. CASE ~(m <= c)
          BY <3>1, <4>2
        <4> QED BY <4>1, <4>2
      <3> QED BY <1>6, <3>1, <3>2, <3>3
    <2> QED BY <1>6, <2>1, <2>2, <2>3, <2>4, <2>5
  <1>10. W[n] = Append(k, e)
    <2>1. n \in 0 .. n /\ ~(n <= c) /\ ~(n <= m)
      BY <1>6
    <2> QED BY <2>1
  <1>11. DOMAIN W = 0 .. n /\ W = [i \in 0 .. n |-> W[i]]
    OBVIOUS
  <1> HIDE DEF W
  <1>12. Rule(W)
    BY <1>9, <1>11
  <1>13. Rule(K)
    BY <1>12
  <1> HIDE DEF K
  <1>14. \A i \in 0 .. n : K[i] = IF i = 0 THEN <<>>
                                 ELSE IF i \in M THEN K[i - 1]
                                 ELSE Append(K[i - 1], row[i])
    BY <1>13
  <1> DEFINE T == {i \in 0 .. n : K[i] # W[i]}
  <1>15. T = {}
    <2> SUFFICES ASSUME T # {} PROVE FALSE
      OBVIOUS
    <2>1. T \subseteq Nat /\ n \in Nat
      BY <1>6
    <2> HIDE DEF T
    <2>2. PICK x \in T : \A y \in T : x <= y
      BY <2>1, Least
    <2>3. x \in 0 .. n /\ K[x] # W[x]
      BY <2>2 DEF T
    <2>4. CASE x = 0
      BY <1>9, <1>14, <2>3, <2>4
    <2>5. CASE x # 0
      <3>1. x - 1 \in 0 .. n /\ ~(x <= x - 1)
        BY <2>1, <2>3, <2>5
      <3>2. K[x - 1] = W[x - 1]
        BY <2>2, <3>1 DEF T
      <3> QED BY <1>9, <1>14, <2>3, <2>5, <3>2
    <2> QED BY <2>4, <2>5
  <1>16. K[n] = W[n]
    <2>1. n \in 0 .. n
      BY <1>6
    <2> QED BY <1>15, <2>1
  <1> QED BY <1>1, <1>2, <1>8, <1>10, <1>16

\* Nobody who has not been prefilled has an output.
Unfed(r) ==
    \/ r \notin submitted \/ r \in Elems(waiting) \/ r \in Elems(toPrefill)
    \/ mode = "baseline" /\ pc = "prefill" /\ r \in Elems(todo)

\* A decode has run for r, and its token is still to be handled.
Due(r) == pc = "results" /\ r \in Elems(todo)

\* KVExact of one request.
Exact(r) ==
    /\ Due(r) => kv[r] = Entries(Ids(r)) /\ seen[r] = Entries(Ids(r))
    /\ kv[r] # <<>> /\ ~Due(r) => kv[r] = Entries(Fed(r))

ExactInv == \A r \in Request : (Unfed(r) => out[r] = <<>>) /\ Exact(r)

\* A request whose cache, output and place are left alone.
LEMMA ExactStays ==
    ASSUME ExactInv, NEW r \in Request, out'[r] = out[r], kv'[r] = kv[r],
           Due(r)' => Due(r) /\ seen'[r] = seen[r], Due(r) => Due(r)', Unfed(r)' => Unfed(r)
    PROVE  (Unfed(r)' => out'[r] = <<>>) /\ Exact(r)'
  BY DEF ExactInv, Exact, Ids, Fed

\* A decode feeds the last token: then every token has its entry.
LEMMA FeedsLast ==
    ASSUME Types, NEW r \in Request, out[r] # <<>>, kv[r] = Entries(Fed(r))
    PROVE  Append(kv[r], NewEntry(r)) = Entries(Ids(r))
  <1>1. PICK x : x = out[r][Len(out[r])]
    OBVIOUS
  <1>2. Fed(r) \in Seq(Token) /\ x \in Token /\ Ids(r) = Append(Fed(r), x)
    BY <1>1, IdsEnd
  <1>3. Len(kv[r]) = Len(Fed(r))
    BY <1>2, OneMoreEntry
  <1>4. NewEntry(r) = <<x, Len(Fed(r))>>
    BY <1>1, <1>3 DEF NewEntry
  <1> QED BY <1>2, <1>4, OneMoreEntry

\* Emitting a token makes all the tokens there were fed ones.
LEMMA EmitFeeds ==
    ASSUME Types, NEW r \in Request, NEW t \in Token, Emit(r, t)
    PROVE  Fed(r)' = Ids(r) /\ \A q \in Request \ {r} : out'[q] = out[q]
  <1>1. out' = [out EXCEPT ![r] = Append(out[r], t)]
    BY DEF Emit
  <1>2. out'[r] = Append(out[r], t) /\ \A q \in Request \ {r} : out'[q] = out[q]
    BY <1>1 DEF Types
  <1>3. PICK p : p = Prompt[r]
    OBVIOUS
  <1>4. PICK o : o = out[r]
    OBVIOUS
  <1>5. p \in Seq(Token) /\ o \in Seq(Token)
    BY <1>3, <1>4, PromptAssumption DEF Types
  <1>6. p \o Append(o, t) = Append(p \o o, t) /\ p \o o \in Seq(Token)
    BY <1>5
  <1>7. Ids(r)' = Append(Ids(r), t) /\ Ids(r) \in Seq(Token)
    BY <1>2, <1>3, <1>4, <1>6 DEF Ids
  <1>8. Fed(r)' = SubSeq(Append(Ids(r), t), 1, Len(Append(Ids(r), t)) - 1)
    BY <1>7 DEF Fed
  <1> QED BY <1>2, <1>7, <1>8, OneMoreEntry

\* The token a baseline step emits leaves its request's KV exact.
LEMMA BaselineExact ==
    ASSUME ServerInv, ExactInv, mode = "baseline", pc \in {"prefill", "decode"},
           NEW t \in Token, NEW c, BaselineToken(todo[1], t, c),
           c = [kv EXCEPT ![todo[1]] = Entries(Ids(todo[1]))]
    PROVE  ExactInv'
  <1>1. PICK r : r = todo[1]
    OBVIOUS
  <1>2. r \in Request /\ Elems(todo) = {r} /\ toPrefill = <<>>
    BY <1>1, OneOfBaseline
  <1>3. /\ Emit(r, t) /\ UNCHANGED <<mode, submitted, waiting, toPrefill, seen>>
        /\ IF CheckFinished(out'[r])
           THEN kv' = Dropped(r, c) /\ todo' = <<>> /\ pc' = "idle"
           ELSE kv' = c /\ pc' = "decode" /\ UNCHANGED todo
    BY <1>1 DEF BaselineToken
  <1>4. Fed(r)' = Ids(r) /\ \A q \in Request \ {r} : out'[q] = out[q]
    BY <1>2, <1>3, InvFacts, EmitFeeds
  <1>5. /\ kv'[r] # <<>> => kv'[r] = Entries(Ids(r))
        /\ \A q \in Request \ {r} : kv'[q] = kv[q]
    <2>1. CASE CheckFinished(out'[r])
      <3>1. kv' = [c EXCEPT ![r] = <<>>]
        BY <1>3, <2>1 DEF Dropped
      <3> QED BY <1>1, <1>2, <3>1, InvFacts DEF Types
    <2>2. CASE ~CheckFinished(out'[r])
      <3>1. kv' = c
        BY <1>3, <2>2
      <3> QED BY <1>1, <1>2, <3>1, InvFacts DEF Types
    <2> QED BY <2>1, <2>2
  <1>6. pc' \in {"idle", "decode"} /\ (todo' = todo \/ todo' = <<>>)
    BY <1>3
  <1>7. r \in submitted /\ r \notin Elems(waiting) /\ r \notin Elems(toPrefill)
    BY <1>2, NothingIn, InvFacts DEF Stage, Placed, Places
  <1>8. ~Unfed(r)' /\ ~Due(r)'
    BY <1>3, <1>6, <1>7 DEF Unfed, Due
  <1>9. ASSUME NEW q \in Request PROVE (Unfed(q)' => out'[q] = <<>>) /\ Exact(q)'
    <2>1. CASE q = r
      <3>1. kv'[r] # <<>> => kv'[r] = Entries(Fed(r)')
        BY <1>4, <1>5
      <3>2. Exact(r)'
        BY <1>8, <3>1 DEF Exact
      <3> QED BY <1>8, <2>1, <3>2
    <2>2. CASE q # r
      <3>1. ~Due(q)' /\ ~Due(q) /\ (Unfed(q)' => Unfed(q))
        BY <1>3, <1>6, NothingIn DEF Unfed, Due
      <3> QED BY <1>4, <1>5, <2>2, <3>1, ExactStays
    <2> QED BY <2>1, <2>2
  <1> QED BY <1>9 DEF ExactInv

\* A baseline prefill leaves the KV of the prompt.
LEMMA BaselinePrefillExact ==
    ASSUME ServerInv, ExactInv, NEW t \in Token, BaselinePrefill(t) PROVE ExactInv'
  <1>1. mode = "baseline" /\ pc = "prefill"
    BY DEF BaselinePrefill
  <1>2. PICK r : r = todo[1]
    OBVIOUS
  <1>3. r \in Request /\ r \in Elems(todo)
    BY <1>1, <1>2, OneOfBaseline
  <1>4. Ids(r) = Prompt[r]
    <2>1. out[r] = <<>>
      BY <1>1, <1>3 DEF ExactInv, Unfed
    <2> QED BY <1>3, <2>1, InvFacts, IdsEnd
  <1>5. PICK c : c = [kv EXCEPT ![r] = Entries(Prompt[r])]
    OBVIOUS
  <1>6. BaselineToken(todo[1], t, c)
    BY <1>2, <1>5 DEF BaselinePrefill
  <1> QED BY <1>1, <1>2, <1>4, <1>5, <1>6, BaselineExact

\* A baseline decode adds the KV of the token it was fed.
LEMMA BaselineDecodeExact ==
    ASSUME ServerInv, ExactInv, NEW t \in Token, BaselineDecode(t) PROVE ExactInv'
  <1>1. mode = "baseline" /\ pc = "decode"
    BY DEF BaselineDecode
  <1>2. PICK r : r = todo[1]
    OBVIOUS
  <1>3. r \in Request /\ r \in Elems(todo)
    BY <1>1, <1>2, OneOfBaseline
  <1>4. out[r] # <<>> /\ kv[r] = Entries(Fed(r))
    BY <1>1, <1>3, InvFacts DEF Stage, ExactInv, Exact, Due
  <1>5. Append(kv[r], NewEntry(r)) = Entries(Ids(r))
    BY <1>3, <1>4, InvFacts, FeedsLast
  <1>6. PICK c : c = [kv EXCEPT ![r] = Append(kv[r], NewEntry(r))]
    OBVIOUS
  <1>7. BaselineToken(todo[1], t, c)
    BY <1>2, <1>6 DEF BaselineDecode
  <1> QED BY <1>1, <1>2, <1>5, <1>6, <1>7, BaselineExact

\* A batched step's prefill leaves the KV of the prompt.
LEMMA PrefillNextExact ==
    ASSUME ServerInv, ExactInv, NEW t \in Token, PrefillNext(t) PROVE ExactInv'
  <1>1. PICK r : r = Head(toPrefill)
    OBVIOUS
  <1>2. /\ mode = "batched" /\ pc = "prefill" /\ toPrefill # <<>> /\ Emit(r, t)
        /\ toPrefill' = Tail(toPrefill)
        /\ UNCHANGED <<mode, pc, submitted, waiting, todo, still, seen, faults>>
        /\ IF CheckFinished(out'[r])
           THEN kv' = Dropped(r, kv) /\ UNCHANGED running
           ELSE kv' = [kv EXCEPT ![r] = Entries(Prompt[r])] /\ running' = Append(running, r)
    BY <1>1 DEF PrefillNext
  <1>3. /\ r \in Request /\ r \in Elems(toPrefill)
        /\ Elems(toPrefill) = {r} \cup Elems(toPrefill') /\ r \notin Elems(toPrefill')
    BY <1>1, <1>2, InvFacts, HeadAndTail DEF Types, Places
  <1>4. Ids(r) = Prompt[r]
    <2>1. out[r] = <<>>
      BY <1>3 DEF ExactInv, Unfed
    <2> QED BY <1>3, <2>1, InvFacts, IdsEnd
  <1>5. Fed(r)' = Ids(r) /\ \A q \in Request \ {r} : out'[q] = out[q]
    BY <1>2, <1>3, InvFacts, EmitFeeds
  <1>6. /\ kv'[r] # <<>> => kv'[r] = Entries(Ids(r))
        /\ \A q \in Request \ {r} : kv'[q] = kv[q]
    <2>1. CASE CheckFinished(out'[r])
      <3>1. kv' = [kv EXCEPT ![r] = <<>>]
        BY <1>2, <2>1 DEF Dropped
      <3> QED BY <1>3, <3>1, InvFacts DEF Types
    <2>2. CASE ~CheckFinished(out'[r])
      BY <1>2, <1>3, <1>4, <2>2, InvFacts DEF Types
    <2> QED BY <2>1, <2>2
  <1>7. r \in submitted /\ r \notin Elems(waiting)
    BY <1>3, InvFacts DEF Stage, Placed, Places
  <1>8. ~Unfed(r)' /\ ~Due(r)'
    BY <1>2, <1>3, <1>7 DEF Unfed, Due
  <1>9. ASSUME NEW q \in Request PROVE (Unfed(q)' => out'[q] = <<>>) /\ Exact(q)'
    <2>1. CASE q = r
      <3>1. kv'[r] # <<>> => kv'[r] = Entries(Fed(r)')
        BY <1>5, <1>6
      <3>2. Exact(r)'
        BY <1>8, <3>1 DEF Exact
      <3> QED BY <1>8, <2>1, <3>2
    <2>2. CASE q # r
      <3>1. ~Due(q)' /\ ~Due(q) /\ (Unfed(q)' => Unfed(q))
        BY <1>2, <1>3 DEF Unfed, Due
      <3> QED BY <1>5, <1>6, <2>2, <3>1, ExactStays
    <2> QED BY <2>1, <2>2
  <1> QED BY <1>9 DEF ExactInv

\* A padded decode adds to each row the KV of its own last token.
LEMMA BatchedDecodeExact == ASSUME ServerInv, ExactInv, BatchedDecode PROVE ExactInv'
  <1>1. PICK m : m = Longest({Len(kv[r]) : r \in Elems(running)})
    OBVIOUS
  <1>2. /\ mode = "batched" /\ pc = "prefill" /\ toPrefill = <<>> /\ running # <<>>
        /\ kv' = [r \in Request |-> IF r \in Elems(running) THEN Extracted(r, m) ELSE kv[r]]
        /\ seen' = [r \in Request |-> IF r \in Elems(running) THEN Attended(r, m) ELSE <<>>]
        /\ todo' = running /\ pc' = "results"
        /\ UNCHANGED <<mode, submitted, waiting, running, toPrefill, still, out, stream, faults>>
    BY <1>1 DEF BatchedDecode, DecodeDue
  <1>3. m \in Nat /\ \A r \in Elems(running) : Len(kv[r]) <= m
    BY <1>1, <1>2, InvFacts, LongestOfBatch
  <1>4. ASSUME NEW r \in Request, r \in Elems(running)
        PROVE  Extracted(r, m) = Entries(Ids(r)) /\ Attended(r, m) = Entries(Ids(r))
    <2>1. out[r] # <<>> /\ kv[r] # <<>>
      BY <1>2, <1>4, InvFacts DEF Stage, Going
    <2>2. kv[r] = Entries(Fed(r))
      BY <1>2, <2>1 DEF ExactInv, Exact, Due
    <2>3. Append(kv[r], NewEntry(r)) = Entries(Ids(r))
      BY <2>1, <2>2, InvFacts, FeedsLast
    <2> QED BY <1>3, <1>4, <2>1, <2>3, InvFacts, ExtractedIs, AttendedIs
  <1>5. ASSUME NEW q \in Request PROVE (Unfed(q)' => out'[q] = <<>>) /\ Exact(q)'
    <2>1. Unfed(q)' => Unfed(q)
      BY <1>2 DEF Unfed
    <2>2. CASE q \in Elems(running)
      <3>1. kv'[q] = Entries(Ids(q)) /\ seen'[q] = Entries(Ids(q)) /\ Due(q)' /\ Ids(q)' = Ids(q)
        BY <1>2, <1>4, <2>2 DEF Due, Ids
      <3>2. Exact(q)'
        BY <3>1 DEF Exact
      <3> QED BY <1>2, <2>1, <3>2 DEF ExactInv
    <2>3. CASE q \notin Elems(running)
      <3>1. ~Due(q)' /\ ~Due(q) /\ kv'[q] = kv[q] /\ out'[q] = out[q]
        BY <1>2, <2>3 DEF Due
      <3> QED BY <2>1, <3>1, ExactStays
    <2> QED BY <2>2, <2>3
  <1> QED BY <1>5 DEF ExactInv

\* Handling a row's result keeps its KV exact, or gives it up.
LEMMA DecodeResultExact ==
    ASSUME ServerInv, ExactInv, NEW t \in Token, DecodeResult(t) PROVE ExactInv'
  <1>1. PICK r : r = Head(todo)
    OBVIOUS
  <1>2. /\ pc = "results" /\ Emit(r, t) /\ todo' = Tail(todo)
        /\ kv' = (IF CheckFinished(out'[r]) THEN Dropped(r, kv) ELSE kv)
        /\ seen' = [seen EXCEPT ![r] = <<>>]
        /\ IF Tail(todo) = <<>> THEN pc' = "idle" ELSE pc' = "results"
        /\ UNCHANGED <<mode, submitted, waiting, toPrefill, faults>>
    BY <1>1 DEF DecodeResult
  <1>3. mode = "batched" /\ todo # <<>> /\ Elems(todo) \subseteq Elems(running)
    <2>1. mode \in {"baseline", "batched"} /\ pc # "idle" /\ pc # "prefill" /\ pc # "decode"
      BY <1>2, InvFacts DEF Types
    <2> QED BY <1>2, <2>1, InvFacts DEF Phases
  <1>4. /\ r \in Request /\ Elems(todo) = {r} \cup Elems(todo') /\ r \notin Elems(todo')
    BY <1>1, <1>2, <1>3, InvFacts, HeadAndTail DEF Types, Places
  <1>5. Fed(r)' = Ids(r) /\ \A q \in Request \ {r} : out'[q] = out[q]
    BY <1>2, <1>4, InvFacts, EmitFeeds
  <1>6. kv[r] = Entries(Ids(r))
    BY <1>2, <1>4 DEF ExactInv, Exact, Due
  <1>7. /\ kv'[r] # <<>> => kv'[r] = Entries(Ids(r))
        /\ \A q \in Request \ {r} : kv'[q] = kv[q] /\ seen'[q] = seen[q]
    <2>1. \A q \in Request \ {r} : seen'[q] = seen[q]
      BY <1>2, <1>4, InvFacts DEF Types
    <2>2. CASE CheckFinished(out'[r])
      <3>1. kv' = [kv EXCEPT ![r] = <<>>]
        BY <1>2, <2>2 DEF Dropped
      <3> QED BY <1>4, <2>1, <3>1, InvFacts DEF Types
    <2>3. CASE ~CheckFinished(out'[r])
      BY <1>2, <1>4, <1>6, <2>1, <2>3, InvFacts DEF Types
    <2> QED BY <2>2, <2>3
  <1>8. r \in submitted /\ r \notin Elems(waiting) /\ r \notin Elems(toPrefill)
    BY <1>3, <1>4, InvFacts DEF Stage, Placed, Places
  <1>9. ~Unfed(r)' /\ ~Due(r)'
    BY <1>2, <1>3, <1>4, <1>8 DEF Unfed, Due
  <1>10. ASSUME NEW q \in Request PROVE (Unfed(q)' => out'[q] = <<>>) /\ Exact(q)'
    <2>1. CASE q = r
      <3>1. kv'[r] # <<>> => kv'[r] = Entries(Fed(r)')
        BY <1>5, <1>7
      <3>2. Exact(r)'
        BY <1>9, <3>1 DEF Exact
      <3> QED BY <1>9, <2>1, <3>2
    <2>2. CASE q # r
      <3>1. (Due(q)' <=> Due(q)) /\ (Unfed(q)' => Unfed(q))
        BY <1>2, <1>3, <1>4, <2>2, NothingIn DEF Unfed, Due
      <3> QED BY <1>5, <1>7, <2>2, <3>1, ExactStays
    <2> QED BY <2>1, <2>2
  <1> QED BY <1>10 DEF ExactInv

\* The other steps leave outputs and caches alone.
LEMMA OtherExact ==
    ASSUME ServerInv, ExactInv, UNCHANGED <<mode, out, kv, seen>>,
           \A q \in Request : (Due(q)' <=> Due(q)) /\ (Unfed(q)' => Unfed(q))
    PROVE  ExactInv'
  BY ExactStays DEF ExactInv

\* Each step keeps KV exact.
LEMMA ExactNext == ServerInv /\ ExactInv /\ [Next]_vars => ExactInv'
  <1> SUFFICES ASSUME ServerInv, ExactInv, [Next]_vars PROVE ExactInv'
    OBVIOUS
  <1>1. CASE BeginBaseline
    <2>1. PICK r : r = Head(waiting)
      OBVIOUS
    <2>2. /\ mode = "baseline" /\ pc = "idle" /\ waiting # <<>> /\ todo' = <<r>>
          /\ waiting' = Tail(waiting) /\ pc' = "prefill"
          /\ UNCHANGED <<mode, submitted, toPrefill, out, kv, seen>>
      BY <1>1, <2>1 DEF BeginBaseline, reqVars
    <2>3. r \in Request /\ r \in Elems(waiting) /\ Elems(waiting) = {r} \cup Elems(waiting')
      BY <2>1, <2>2, InvFacts, HeadAndTail DEF Types, Places
    <2>4. Elems(todo') = {r}
      BY <2>2, <2>3, Single
    <2>5. \A q \in Request : (Due(q)' <=> Due(q)) /\ (Unfed(q)' => Unfed(q))
      BY <2>2, <2>3, <2>4 DEF Due, Unfed
    <2> QED BY <2>2, <2>5, OtherExact
  <1>2. CASE BeginBatched
    <2>1. /\ mode = "batched" /\ pc = "idle" /\ pc' = "prefill"
          /\ toPrefill' = SubSeq(waiting, 1, Admissible)
          /\ waiting' = SubSeq(waiting, Admissible + 1, Len(waiting))
          /\ UNCHANGED <<mode, submitted, todo, out, kv, seen>>
      BY <1>2 DEF BeginBatched, reqVars
    <2>2. Admissible \in 0 .. Len(waiting)
      <3>1. waiting \in Seq(Request) /\ running \in Seq(Request)
        BY InvFacts DEF Types
      <3>2. Len(waiting) \in Nat /\ Len(running) \in Nat /\ Len(toPrefill) \in Nat
        BY InvFacts DEF Types
      <3>3. Len(running) <= MaxRunning
        BY <3>2, LimitAssumption, InvFacts DEF Phases
      <3> QED BY <3>2, <3>3, LimitAssumption DEF Admissible
    <2>3. Elems(toPrefill') \cup Elems(waiting') = Elems(waiting)
      BY <2>1, <2>2, InvFacts, Split DEF Types
    <2>4. \A q \in Request : (Due(q)' <=> Due(q)) /\ (Unfed(q)' => Unfed(q))
      BY <2>1, <2>3 DEF Due, Unfed
    <2> QED BY <2>1, <2>4, OtherExact
  <1>3. CASE EndBatched
    <2>1. /\ pc = "prefill" /\ pc' = "idle"
          /\ UNCHANGED <<mode, submitted, waiting, toPrefill, todo, out, kv, seen>>
      BY <1>3 DEF EndBatched, reqVars
    <2>2. \A q \in Request : (Due(q)' <=> Due(q)) /\ (Unfed(q)' => Unfed(q))
      BY <2>1 DEF Due, Unfed
    <2> QED BY <2>1, <2>2, OtherExact
  <1>4. CASE ForwardFails
    <2>1. /\ pc # "results" /\ pc' = "idle" /\ toPrefill' = <<>>
          /\ UNCHANGED <<mode, submitted, waiting, out, kv, seen>>
      BY <1>4 DEF ForwardFails, DecodeDue, reqVars
    <2>2. \A q \in Request : (Due(q)' <=> Due(q)) /\ (Unfed(q)' => Unfed(q))
      BY <2>1, NothingIn DEF Due, Unfed
    <2> QED BY <2>1, <2>2, OtherExact
  <1>5. ASSUME NEW r \in Request, Post(r) PROVE ExactInv'
    <2>1. /\ r \notin submitted /\ submitted' = submitted \cup {r}
          /\ waiting' = Append(waiting, r)
          /\ UNCHANGED <<mode, pc, toPrefill, todo, out, kv, seen>>
      BY <1>5 DEF Post, AddRequest, reqVars
    <2>2. Elems(waiting') = Elems(waiting) \cup {r}
      BY <2>1, InvFacts, Appended DEF Types
    <2>3. \A q \in Request : (Due(q)' <=> Due(q)) /\ (Unfed(q)' => Unfed(q))
      BY <2>1, <2>2 DEF Due, Unfed
    <2> QED BY <2>1, <2>3, OtherExact
  <1>6. CASE UNCHANGED schedVars
    <2>1. UNCHANGED <<mode, pc, submitted, waiting, toPrefill, todo, out, kv, seen>>
      BY <1>6 DEF schedVars, reqVars
    <2>2. \A q \in Request : (Due(q)' <=> Due(q)) /\ (Unfed(q)' => Unfed(q))
      BY <2>1 DEF Due, Unfed
    <2> QED BY <2>1, <2>2, OtherExact
  <1>7. ASSUME NEW t \in Token,
               BaselinePrefill(t) \/ BaselineDecode(t) \/ PrefillNext(t) \/ DecodeResult(t)
        PROVE  ExactInv'
    BY <1>7, BaselinePrefillExact, BaselineDecodeExact, PrefillNextExact, DecodeResultExact
  <1>8. CASE BatchedDecode
    BY <1>8, BatchedDecodeExact
  <1>9. SchedulerStep \/ (\E r \in Request : Post(r)) \/ UNCHANGED schedVars
    BY HandlersStutter
  <1>10. SchedulerStep => Step
    BY DEF SchedulerStep
  <1> QED BY <1>1, <1>2, <1>3, <1>4, <1>5, <1>6, <1>7, <1>8, <1>9, <1>10 DEF Step

\* Padding leaves no trace: a decode attends to exactly the request's own
\* tokens at their own positions, whatever else is in the batch, and its cache
\* holds all its tokens but the one not fed yet.
THEOREM PaddingLeavesNoTrace == Spec => []KVExact
  <1>1. ServerInit => ExactInv
    <2> SUFFICES ASSUME ServerInit PROVE ExactInv
      OBVIOUS
    <2>1. /\ out = [r \in Request |-> <<>>] /\ kv = [r \in Request |-> <<>>] /\ pc = "idle"
      BY DEF ServerInit, Init
    <2> QED BY <2>1 DEF ExactInv, Exact, Due
  <1>2. ExactInv => KVExact
    BY DEF ExactInv, Exact, Due, Fed, KVExact
  <1> QED BY <1>1, <1>2, ServerInvariant, ExactNext, PTL DEF Spec

-------------------------------------------------------------------------------
(* Streams. *)

\* What is on a request's token_queue: its output, and the sentinel after the
\* token that ends it.
Streamed(o) == o \o (IF Service!Complete(o) THEN <<End>> ELSE <<>>)

StreamInv == \A r \in Request : stream[r] = Streamed(out[r])

\* One more token of a request that has not ended.
LEMMA OneMoreToken ==
    ASSUME NEW o \in Seq(Token), NEW t \in Token
    PROVE  o \o (IF CheckFinished(Append(o, t)) THEN <<t, End>> ELSE <<t>>)
             = Streamed(Append(o, t))
  <1> DEFINE n == Len(o)
             p == Append(o, t)
  <1>1. n \in Nat
    OBVIOUS
  <1>2. p \in Seq(Token) /\ p # <<>> /\ Len(p) = n + 1 /\ \A i \in 1 .. n : p[i] = o[i]
    <2>1. Len(p) = n + 1 /\ \A i \in 1 .. n : p[i] = o[i]
      OBVIOUS
    <2>2. p \in Seq(Token) /\ p # <<>>
      BY Grown
    <2> QED BY <2>1, <2>2
  <1>3. o \o <<t>> = p /\ o \o <<t, End>> = p \o <<End>> /\ p \o <<>> = p
    <2>1. o \o <<t>> = p
      OBVIOUS
    <2>2. o \o <<t, End>> = p \o <<End>>
      OBVIOUS
    <2> HIDE DEF p
    <2>3. p \o <<>> = p
      BY <1>2
    <2> QED BY <2>1, <2>2, <2>3
  <1>4. CheckFinished(p) <=> Service!Complete(p)
    BY <1>2 DEF CheckFinished, Service!Complete
  <1> HIDE DEF p, n
  <1>5. o \o (IF CheckFinished(p) THEN <<t, End>> ELSE <<t>>) = Streamed(p)
    BY <1>3, <1>4 DEF Streamed
  <1> QED BY <1>5 DEF p

\* The sentinel is on a stream exactly when its request is complete.
LEMMA EndedComplete ==
    ASSUME Types, StreamInv, NEW r \in Request
    PROVE  Ended(r) <=> Service!Complete(out[r])
  <1> DEFINE o == out[r]
             s == stream[r]
  <1>1. o \in Seq(Token) /\ s = Streamed(o)
    BY DEF Types, StreamInv
  <1>2. CASE Service!Complete(o)
    <2>1. s = o \o <<End>>
      BY <1>1, <1>2 DEF Streamed
    <2> HIDE DEF o, s
    <2>2. s = Append(o, End)
      BY <1>1, <2>1
    <2>3. Len(s) = Len(o) + 1 /\ s[Len(o) + 1] = End /\ s # <<>>
      BY <1>1, <2>2
    <2> QED BY <1>2, <2>3 DEF Ended, s, o
  <1>3. CASE ~Service!Complete(o)
    <2>1. s = o
      <3>1. s = o \o <<>>
        BY <1>1, <1>3 DEF Streamed
      <3> HIDE DEF o, s
      <3> QED BY <1>1, <3>1
    <2> HIDE DEF o, s
    <2>2. s # <<>> => s[Len(s)] \in Token
      BY <1>1, <2>1
    <2> QED BY <1>3, <2>2, StopAssumption DEF Ended, s, o
  <1> QED BY <1>2, <1>3

\* A step of the scheduler puts nothing on the queues, or one more token of a
\* request that has not ended.
LEMMA StepEmits ==
    ASSUME ServerInv, Step
    PROVE  \/ UNCHANGED <<out, stream>>
           \/ \E r \in Request : \E t \in Token : r \in submitted /\ Emit(r, t) /\ ~Ended(r)
  <1>1. CASE BeginBaseline \/ BeginBatched \/ EndBatched \/ BatchedDecode \/ ForwardFails
    BY <1>1 DEF BeginBaseline, BeginBatched, EndBatched, BatchedDecode, ForwardFails, reqVars
  <1>2. CASE \E t \in Token : BaselinePrefill(t) \/ BaselineDecode(t)
    <2>1. PICK t \in Token : BaselinePrefill(t) \/ BaselineDecode(t)
      BY <1>2
    <2>2. /\ mode = "baseline" /\ pc \in {"prefill", "decode"} /\ Emit(todo[1], t)
      BY <2>1 DEF BaselinePrefill, BaselineDecode, BaselineToken
    <2>3. todo[1] \in Request /\ todo[1] \in Elems(todo)
      <3>1. todo \in Seq(Request) /\ Len(todo) = 1
        BY <2>2, InvFacts DEF Phases, Types
      <3> QED BY <3>1 DEF Elems
    <2>4. todo[1] \in submitted /\ ~Ended(todo[1])
      BY <2>2, <2>3, InvFacts DEF Stage, Placed
    <2> QED BY <2>2, <2>3, <2>4
  <1>3. CASE \E t \in Token : PrefillNext(t)
    <2>1. PICK t \in Token : PrefillNext(t)
      BY <1>3
    <2>2. toPrefill # <<>> /\ Emit(Head(toPrefill), t)
      BY <2>1 DEF PrefillNext
    <2>3. Head(toPrefill) \in Request /\ Head(toPrefill) \in Elems(toPrefill)
      BY <2>2, InvFacts, HeadAndTail DEF Types
    <2>4. Head(toPrefill) \in submitted /\ ~Ended(Head(toPrefill))
      BY <2>3, InvFacts DEF Stage, Placed
    <2> QED BY <2>2, <2>3, <2>4
  <1>4. CASE \E t \in Token : DecodeResult(t)
    <2>1. PICK t \in Token : DecodeResult(t)
      BY <1>4
    <2>2. pc = "results" /\ Emit(Head(todo), t)
      BY <2>1 DEF DecodeResult
    <2>3. todo # <<>>
      BY <2>2, InvFacts DEF Phases, Types
    <2>4. Head(todo) \in Request /\ Head(todo) \in Elems(todo)
      BY <2>3, InvFacts, HeadAndTail DEF Types
    <2>5. Head(todo) \in submitted /\ ~Ended(Head(todo))
      BY <2>2, <2>4, InvFacts DEF Stage, Going
    <2> QED BY <2>2, <2>4, <2>5
  <1> QED BY <1>1, <1>2, <1>3, <1>4 DEF Step

\* What a token adds to the stream of its request.
LEMMA EmitStreams ==
    ASSUME Types, NEW r \in Request, NEW t \in Token, Emit(r, t)
    PROVE  /\ out'[r] = Append(out[r], t)
           /\ stream'[r] = stream[r] \o (IF CheckFinished(Append(out[r], t)) THEN <<t, End>>
                                         ELSE <<t>>)
           /\ \A q \in Request \ {r} : out'[q] = out[q] /\ stream'[q] = stream[q]
  <1>1. out' = [out EXCEPT ![r] = Append(out[r], t)]
    BY DEF Emit
  <1>2. out'[r] = Append(out[r], t)
    BY <1>1 DEF Types
  <1>3. stream' = [stream EXCEPT ![r] = stream[r] \o (IF CheckFinished(Append(out[r], t))
                                                      THEN <<t, End>> ELSE <<t>>)]
    BY <1>2 DEF Emit
  <1> QED BY <1>1, <1>2, <1>3 DEF Types

\* A token of a request that has not ended keeps its stream its output, with a
\* sentinel if that token is the last.
LEMMA EmitKeepsStreams ==
    ASSUME Types, StreamInv, NEW r \in Request, NEW t \in Token, Emit(r, t), ~Ended(r)
    PROVE  StreamInv' /\ ~Service!Complete(out[r])
  <1>1. ~Service!Complete(out[r]) /\ out[r] \in Seq(Token)
    BY EndedComplete DEF Types
  <1>2. stream[r] = out[r]
    <2>1. stream[r] = out[r] \o <<>>
      BY <1>1 DEF StreamInv, Streamed
    <2>2. out[r] \o <<>> = out[r]
      BY <1>1
    <2> QED BY <2>1, <2>2
  <1>3. stream'[r] = Streamed(out'[r])
    <2>1. out[r] \o (IF CheckFinished(Append(out[r], t)) THEN <<t, End>> ELSE <<t>>)
            = Streamed(Append(out[r], t))
      BY <1>1, OneMoreToken
    <2>2. /\ out'[r] = Append(out[r], t)
          /\ stream'[r] = stream[r] \o (IF CheckFinished(Append(out[r], t)) THEN <<t, End>>
                                        ELSE <<t>>)
      BY EmitStreams
    <2> QED BY <1>2, <2>1, <2>2
  <1> QED BY <1>1, <1>3, EmitStreams DEF StreamInv

\* Each step keeps the streams what the output says.
LEMMA StreamNext == ServerInv /\ StreamInv /\ [Next]_vars => StreamInv'
  <1> SUFFICES ASSUME ServerInv, StreamInv, [Next]_vars PROVE StreamInv'
    OBVIOUS
  <1>1. CASE UNCHANGED <<out, stream>>
    BY <1>1 DEF StreamInv
  <1>2. CASE SchedulerStep
    <2>1. Step
      BY <1>2 DEF SchedulerStep
    <2> QED BY <1>1, <2>1, StepEmits, InvFacts, EmitKeepsStreams
  <1>3. CASE (\E r \in Request : Post(r)) \/ UNCHANGED schedVars
    BY <1>1, <1>3 DEF Post, AddRequest, schedVars, reqVars
  <1> QED BY <1>2, <1>3, HandlersStutter

-------------------------------------------------------------------------------
(* What the handlers pass on. *)

\* The jobs that stay are jobs there were, and not of R.
LEMMA JobsNotOf ==
    ASSUME jobs \in Seq(Request), NEW R
    PROVE  NotOf(R) \in Seq(Request) /\ Elems(NotOf(R)) \subseteq Elems(jobs)
  <1>1. PICK s : s = jobs
    OBVIOUS
  <1>2. PICK n : n = Len(s)
    OBVIOUS
  <1>3. s \in Seq(Request) /\ n \in Nat
    BY <1>1, <1>2
  <1> DEFINE Longer(i, q) == IF s[i] \in R THEN q ELSE Append(q, s[i])
             Rule(m, f) == f = [i \in 0 .. m |-> IF i = 0 THEN <<>> ELSE Longer(i, f[i - 1])]
             Fine(q) == q \in Seq(Request) /\ Elems(q) \subseteq Elems(s)
             K == CHOOSE f : Rule(n, f)
  <1>4. NotOf(R) = K[n]
    BY <1>1, <1>2 DEF NotOf
  <1> HIDE DEF Longer
  <1>5. ASSUME NEW m \in 0 .. n PROVE \E f : Rule(m, f)
    <2> DEFINE T == {i \in 0 .. n : ~\E f : Rule(i, f)}
    <2> HIDE DEF Rule
    <2> SUFFICES ASSUME T # {} PROVE FALSE
      OBVIOUS
    <2>1. T \subseteq Nat
      BY <1>3
    <2> HIDE DEF T
    <2>2. PICK x \in T : \A y \in T : x <= y
      BY <2>1, Least
    <2>3. x \in 0 .. n /\ x \in Nat /\ ~\E f : Rule(x, f)
      BY <2>1, <2>2 DEF T
    <2>4. CASE x = 0
      <3> DEFINE f == [i \in 0 .. 0 |-> <<>>]
      <3>1. Rule(0, f)
        BY DEF Rule
      <3> QED BY <2>3, <2>4, <3>1
    <2>5. CASE x # 0
      <3>1. x - 1 \in 0 .. n /\ ~(x <= x - 1)
        BY <1>3, <2>3, <2>5
      <3>2. PICK g : Rule(x - 1, g)
        BY <2>2, <3>1 DEF T
      <3>3. g = [i \in 0 .. x - 1 |-> IF i = 0 THEN <<>> ELSE Longer(i, g[i - 1])]
        BY <3>2 DEF Rule
      <3> DEFINE f == [i \in 0 .. x |-> IF i < x THEN g[i] ELSE Longer(x, g[x - 1])]
      <3>4. \A i \in 0 .. x : f[i] = IF i < x THEN g[i] ELSE Longer(x, g[x - 1])
        OBVIOUS
      <3>5. f = [i \in 0 .. x |-> f[i]]
        OBVIOUS
      <3> HIDE DEF f
      <3>6. ASSUME NEW i \in 0 .. x PROVE f[i] = IF i = 0 THEN <<>> ELSE Longer(i, f[i - 1])
        <4>1. CASE i = x
          <5>1. x - 1 \in 0 .. x /\ x - 1 < x /\ ~(x < x)
            BY <2>3, <2>5
          <5> QED BY <2>5, <3>4, <4>1, <5>1
        <4>2. CASE i # x /\ i = 0
          <5>1. i < x /\ i \in 0 .. x - 1
            BY <2>3, <4>2
          <5> QED BY <3>3, <3>4, <4>2, <5>1
        <4>3. CASE i # x /\ i # 0
          <5>1. i < x /\ i \in 0 .. x - 1 /\ i - 1 \in 0 .. x /\ i - 1 < x
            BY <2>3, <4>3
          <5>2. f[i] = g[i] /\ f[i - 1] = g[i - 1]
            BY <3>4, <5>1
          <5> QED BY <3>3, <4>3, <5>1, <5>2
        <4> QED BY <4>1, <4>2, <4>3
      <3>7. Rule(x, f)
        BY <3>5, <3>6 DEF Rule
      <3> QED BY <2>3, <3>7
    <2> QED BY <2>4, <2>5
  <1>6. Rule(n, K)
    <2> HIDE DEF Rule
    <2>1. n \in 0 .. n
      BY <1>3
    <2> QED BY <1>5, <2>1
  <1> HIDE DEF K
  <1>7. \A i \in 0 .. n : K[i] = IF i = 0 THEN <<>> ELSE Longer(i, K[i - 1])
    BY <1>6
  <1>8. ASSUME NEW i \in 1 .. n, NEW q, Fine(q) PROVE Fine(Longer(i, q))
    <2>1. s[i] \in Request /\ s[i] \in Elems(s) /\ q \in Seq(Request)
      BY <1>2, <1>3, <1>8 DEF Elems
    <2>2. Append(q, s[i]) \in Seq(Request) /\ Elems(Append(q, s[i])) = Elems(q) \cup {s[i]}
      BY <2>1, Appended
    <2> QED BY <1>8, <2>1, <2>2 DEF Longer
  <1> DEFINE U == {i \in 0 .. n : ~Fine(K[i])}
  <1>9. U = {}
    <2> SUFFICES ASSUME U # {} PROVE FALSE
      OBVIOUS
    <2>1. U \subseteq Nat
      BY <1>3
    <2> HIDE DEF U, Fine
    <2>2. PICK x \in U : \A y \in U : x <= y
      BY <2>1, Least
    <2>3. x \in 0 .. n /\ x \in Nat /\ ~Fine(K[x])
      BY <2>1, <2>2 DEF U
    <2>4. CASE x = 0
      <3>1. K[x] = <<>>
        BY <1>7, <2>3, <2>4
      <3>2. Fine(<<>>)
        BY NothingIn DEF Fine
      <3> QED BY <2>3, <3>1, <3>2
    <2>5. CASE x # 0
      <3>1. x - 1 \in 0 .. n /\ ~(x <= x - 1) /\ x \in 1 .. n
        BY <1>3, <2>3, <2>5
      <3>2. Fine(K[x - 1])
        BY <2>2, <3>1 DEF U
      <3>3. K[x] = Longer(x, K[x - 1])
        BY <1>7, <2>3, <2>5
      <3> QED BY <1>8, <2>3, <3>1, <3>2, <3>3
    <2> QED BY <2>4, <2>5
  <1>10. Fine(K[n])
    <2>1. n \in 0 .. n
      BY <1>3
    <2> QED BY <1>9, <2>1
  <1> QED BY <1>1, <1>4, <1>10

HandlerTypes ==
    /\ server \in {"up", "closing", "stopping", "down"}
    /\ client \in [Request -> {"none", "waiting", "done", "gone"}]
    /\ jobs \in Seq(Request) /\ busy \subseteq Request
    /\ taken \in [Request -> Nat]
    /\ received \in [Request -> Seq(Token \cup {End})]

\* r's handler: before the request there is none; while it waits it has
\* passed on exactly what was taken off the queue, in order, and not the
\* sentinel yet.
Delivery(r) ==
    /\ client[r] = "none" <=> r \notin submitted
    /\ client[r] = "none" => /\ r \notin busy /\ r \notin Elems(jobs)
                             /\ taken[r] = 0 /\ received[r] = <<>>
    /\ client[r] = "waiting" => /\ taken[r] <= Len(stream[r])
                                /\ received[r] = SubSeq(stream[r], 1, taken[r])
                                /\ ~Service!Closed(received[r])

HandlerInv == HandlerTypes /\ \A r \in Request : Delivery(r)

\* The first n + 1 outputs are the first n and the next one.
LEMMA NextOutput ==
    ASSUME NEW S, NEW s \in Seq(S), NEW n \in Nat, n < Len(s)
    PROVE  /\ SubSeq(s, 1, n) \in Seq(S) /\ s[n + 1] \in S
           /\ Len(SubSeq(s, 1, n)) = n /\ \A i \in 1 .. n : SubSeq(s, 1, n)[i] = s[i]
           /\ Append(SubSeq(s, 1, n), s[n + 1]) = SubSeq(s, 1, n + 1)
  <1>1. Len(s) \in Nat /\ n + 1 \in 1 .. Len(s)
    OBVIOUS
  <1>2. PICK a : a = SubSeq(s, 1, n)
    OBVIOUS
  <1>3. PICK b : b = SubSeq(s, 1, n + 1)
    OBVIOUS
  <1>4. a \in Seq(S) /\ Len(a) = n /\ \A i \in 1 .. n : a[i] = s[i]
    BY <1>1, <1>2
  <1>5. b \in Seq(S) /\ Len(b) = n + 1 /\ \A i \in 1 .. n + 1 : b[i] = s[i]
    BY <1>1, <1>3
  <1>6. s[n + 1] \in S
    BY <1>1
  <1>7. PICK c : c = Append(a, s[n + 1])
    OBVIOUS
  <1>8. c \in Seq(S) /\ Len(c) = n + 1 /\ c[n + 1] = s[n + 1] /\ \A i \in 1 .. n : c[i] = a[i]
    BY <1>4, <1>6, <1>7
  <1>9. \A i \in 1 .. n + 1 : i \in 1 .. n \/ i = n + 1
    OBVIOUS
  <1>10. \A i \in 1 .. Len(c) : c[i] = b[i]
    BY <1>4, <1>5, <1>8, <1>9
  <1>11. c = b
    BY <1>5, <1>8, <1>10, SameSequence
  <1> QED BY <1>2, <1>3, <1>4, <1>6, <1>7, <1>11

\* The element appended is the last one.
LEMMA LastAppended ==
    ASSUME NEW S, NEW a \in Seq(S), NEW x \in S
    PROVE  Append(a, x)[Len(Append(a, x))] = x
  <1>1. Len(Append(a, x)) = Len(a) + 1
    OBVIOUS
  <1>2. Append(a, x)[Len(a) + 1] = x
    OBVIOUS
  <1> QED BY <1>1, <1>2

\* A handler the step is not about.
LEMMA StaysDelivered ==
    ASSUME NEW q \in Request, Delivery(q), stream'[q] = stream[q],
           client'[q] = client[q], taken'[q] = taken[q], received'[q] = received[q],
           q \in submitted' <=> q \in submitted,
           q \in busy' => q \in busy \/ q \in Elems(jobs),
           q \in Elems(jobs') => q \in Elems(jobs)
    PROVE  Delivery(q)'
  BY DEF Delivery, Service!Closed

\* A request that arrives gets a handler that has passed on nothing.
LEMMA PostDelivers ==
    ASSUME ServerInv, HandlerInv, NEW r \in Request, Post(r)
    PROVE  HandlerInv' /\ Service!Ask(r)
  <1>1. /\ r \notin submitted /\ submitted' = submitted \cup {r}
        /\ client' = [client EXCEPT ![r] = "waiting"] /\ jobs' = Append(jobs, r)
        /\ UNCHANGED <<server, busy, taken, received, out, stream>>
    BY DEF Post, AddRequest, reqVars
  <1>2. client[r] = "none" /\ taken[r] = 0 /\ received[r] = <<>>
    BY <1>1 DEF HandlerInv, Delivery
  <1>3. jobs' \in Seq(Request) /\ Elems(jobs') = Elems(jobs) \cup {r}
    BY <1>1, Grown, Appended DEF HandlerInv, HandlerTypes
  <1>4. HandlerTypes'
    BY <1>1, <1>3 DEF HandlerInv, HandlerTypes
  <1>5. client'[r] = "waiting" /\ \A q \in Request \ {r} : client'[q] = client[q]
    BY <1>1 DEF HandlerInv, HandlerTypes
  <1>6. Delivery(r)'
    <2>1. stream[r] \in Seq(Token \cup {End})
      BY InvFacts DEF Types
    <2>2. SubSeq(stream[r], 1, 0) = <<>> /\ 0 <= Len(stream[r])
      BY <2>1
    <2>3. received'[r] = <<>> /\ taken'[r] = 0 /\ stream'[r] = stream[r] /\ r \in submitted'
      BY <1>1, <1>2
    <2>4. ~Service!Closed(received'[r])
      BY <2>3 DEF Service!Closed
    <2> QED BY <1>5, <2>2, <2>3, <2>4 DEF Delivery, Service!Closed
  <1>7. ASSUME NEW q \in Request \ {r} PROVE Delivery(q)'
    BY <1>1, <1>3, <1>5, StaysDelivered DEF HandlerInv
  <1>8. HandlerInv'
    BY <1>4, <1>6, <1>7 DEF HandlerInv
  <1>9. Gone' = Gone
    BY <1>2, <1>5 DEF Gone
  <1> QED BY <1>1, <1>8, <1>9 DEF Service!Ask

\* A worker that starts on a handler's get leaves what was passed on alone.
LEMMA StartGetDelivers ==
    ASSUME HandlerInv, StartGet
    PROVE  HandlerInv'
  <1>1. /\ jobs # <<>> /\ jobs' = Tail(jobs) /\ busy' = busy \cup {Head(jobs)}
        /\ UNCHANGED <<server, client, taken, received, submitted, stream>>
    BY DEF StartGet, schedVars, reqVars
  <1>2. /\ Head(jobs) \in Request /\ Head(jobs) \in Elems(jobs) /\ jobs' \in Seq(Request)
        /\ Elems(jobs') \subseteq Elems(jobs)
    BY <1>1, HeadAndTail DEF HandlerInv, HandlerTypes
  <1>3. HandlerTypes'
    BY <1>1, <1>2 DEF HandlerInv, HandlerTypes
  <1>4. ASSUME NEW q \in Request PROVE Delivery(q)'
    BY <1>1, <1>2, StaysDelivered DEF HandlerInv
  <1> QED BY <1>3, <1>4 DEF HandlerInv

\* An output that reaches a handler is the next token of the answer, or the
\* end mark after the last one.
LEMMA FinishGetDelivers ==
    ASSUME ServerInv, StreamInv, HandlerInv, NEW r \in Request, FinishGet(r)
    PROVE  /\ HandlerInv'
           /\ UNCHANGED <<submitted, Gone, out, received>> \/ Service!Send(r)
  <1>1. PICK n : n = taken[r]
    OBVIOUS
  <1>2. PICK x : x = stream[r][n + 1]
    OBVIOUS
  <1>3. /\ r \in busy /\ n < Len(stream[r]) /\ busy' = busy \ {r}
        /\ taken' = [taken EXCEPT ![r] = n + 1]
        /\ UNCHANGED <<server, submitted, out, stream>>
    BY <1>1 DEF FinishGet, schedVars, reqVars
  <1>4. n \in Nat /\ r \in Request
    BY <1>1 DEF HandlerInv, HandlerTypes
  <1>5. taken'[r] = n + 1 /\ \A q \in Request \ {r} : taken'[q] = taken[q]
    BY <1>3 DEF HandlerInv, HandlerTypes
  <1>6. client[r] # "none" /\ r \in submitted
    BY <1>3 DEF HandlerInv, Delivery
  <1>7. CASE client[r] # "waiting"
    <2>1. UNCHANGED <<client, jobs, received>>
      BY <1>7 DEF FinishGet
    <2>2. HandlerTypes'
      BY <1>3, <1>4, <2>1 DEF HandlerInv, HandlerTypes
    <2>3. Delivery(r)'
      BY <1>3, <1>6, <1>7, <2>1 DEF HandlerInv, Delivery
    <2>4. ASSUME NEW q \in Request \ {r} PROVE Delivery(q)'
      BY <1>3, <1>5, <2>1, StaysDelivered DEF HandlerInv
    <2>5. UNCHANGED <<submitted, Gone, out, received>>
      BY <1>3, <2>1 DEF Gone
    <2> QED BY <2>2, <2>3, <2>4, <2>5 DEF HandlerInv
  <1>8. CASE client[r] = "waiting"
    <2>1. PICK a : a = received[r]
      OBVIOUS
    <2>2. PICK s : s = stream[r]
      OBVIOUS
    <2>3. a = SubSeq(s, 1, n) /\ ~Service!Closed(a) /\ n < Len(s) /\ x = s[n + 1]
      BY <1>1, <1>2, <1>3, <1>8, <2>1, <2>2 DEF HandlerInv, Delivery
    <2>4. s = Service!Sendable(out[r])
      BY <2>2 DEF StreamInv, Streamed, Service!Sendable
    <2>5. s \in Seq(Token \cup {End}) /\ x \in Token \cup {End}
      BY <1>4, <2>2, <2>3, InvFacts, NextOutput DEF Types
    <2>6. Append(a, x) = SubSeq(s, 1, n + 1) /\ a \in Seq(Token \cup {End})
      BY <1>4, <2>3, <2>5, NextOutput
    <2>7. /\ received' = [received EXCEPT ![r] = Append(a, x)]
          /\ IF x = End THEN client' = [client EXCEPT ![r] = "done"] /\ UNCHANGED jobs
             ELSE jobs' = Append(jobs, r) /\ UNCHANGED client
      BY <1>1, <1>2, <1>8, <2>1 DEF FinishGet, Handled
    <2>8. Append(a, x) \in Seq(Token \cup {End}) /\ (x # End => ~Service!Closed(Append(a, x)))
      <3>1. PICK b : b = Append(a, x)
        OBVIOUS
      <3>2. b \in Seq(Token \cup {End}) /\ b[Len(b)] = x
        BY <2>5, <2>6, <3>1, Grown, LastAppended
      <3> QED BY <3>1, <3>2 DEF Service!Closed
    <2>9. received'[r] = Append(a, x) /\ \A q \in Request \ {r} : received'[q] = received[q]
      BY <2>7 DEF HandlerInv, HandlerTypes
    <2>10. /\ jobs' \in Seq(Request)
           /\ \A q \in Request \ {r} : q \in Elems(jobs') => q \in Elems(jobs)
           /\ \A q \in Request \ {r} : client'[q] = client[q]
      <3>1. /\ Append(jobs, r) \in Seq(Request)
            /\ Elems(Append(jobs, r)) = Elems(jobs) \cup {r}
        BY Grown, Appended DEF HandlerInv, HandlerTypes
      <3> QED BY <2>7, <3>1 DEF HandlerInv, HandlerTypes
    <2>11. client'[r] = IF x = End THEN "done" ELSE "waiting"
      BY <1>8, <2>7 DEF HandlerInv, HandlerTypes
    <2>12. HandlerTypes'
      <3>1. client' \in [Request -> {"none", "waiting", "done", "gone"}]
        BY <2>7 DEF HandlerInv, HandlerTypes
      <3>2. received' \in [Request -> Seq(Token \cup {End})]
        BY <2>7, <2>8 DEF HandlerInv, HandlerTypes
      <3>3. taken' \in [Request -> Nat]
        BY <1>3, <1>4 DEF HandlerInv, HandlerTypes
      <3>4. UNCHANGED server /\ busy' \subseteq Request
        BY <1>3 DEF HandlerInv, HandlerTypes
      <3> QED BY <2>10, <3>1, <3>2, <3>3, <3>4 DEF HandlerInv, HandlerTypes
    <2>13. Delivery(r)'
      <3>1. x # End => n + 1 <= Len(s)
        BY <1>4, <2>3, <2>5
      <3>2. stream'[r] = s /\ r \in submitted'
        BY <1>3, <1>6, <2>2
      <3> QED BY <1>5, <2>6, <2>8, <2>9, <2>11, <3>1, <3>2 DEF Delivery, Service!Closed
    <2>14. ASSUME NEW q \in Request \ {r} PROVE Delivery(q)'
      BY <1>3, <1>5, <2>9, <2>10, StaysDelivered DEF HandlerInv
    <2>15. Gone' = Gone
      BY <1>8, <2>10, <2>11 DEF Gone
    <2>16. r \in submitted \ Gone
      BY <1>6, <1>8 DEF Gone
    <2>17. Service!Send(r)
      <3>1. Len(received[r]) = n
        BY <1>4, <2>1, <2>3, <2>5, NextOutput
      <3>2. Len(received[r]) < Len(Service!Sendable(out[r]))
        BY <2>3, <2>4, <3>1
      <3>3. received' = [received EXCEPT ![r] =
                           Append(@, Service!Sendable(out[r])[Len(@) + 1])]
        BY <2>1, <2>3, <2>4, <2>7, <3>1
      <3> QED BY <1>3, <2>15, <2>16, <3>2, <3>3 DEF Service!Send
    <2> QED BY <2>12, <2>13, <2>14, <2>17 DEF HandlerInv
  <1> QED BY <1>7, <1>8

\* Handlers that are cancelled pass on no more; the others are as they were.
LEMMA CancelDelivers ==
    ASSUME HandlerInv, NEW R, R \subseteq {r \in Request : client[r] = "waiting"}, Cancel(R)
    PROVE  HandlerInv' /\ Service!Leave(R)
  <1>1. /\ client' = [r \in Request |-> IF r \in R THEN "gone" ELSE client[r]]
        /\ jobs' = NotOf(R)
        /\ UNCHANGED <<server, busy, taken, received, submitted, out, stream>>
    BY DEF Cancel, schedVars, reqVars
  <1>2. jobs' \in Seq(Request) /\ Elems(jobs') \subseteq Elems(jobs)
    BY <1>1, JobsNotOf DEF HandlerInv, HandlerTypes
  <1>3. HandlerTypes'
    BY <1>1, <1>2 DEF HandlerInv, HandlerTypes
  <1>4. ASSUME NEW q \in Request PROVE Delivery(q)'
    <2>1. CASE q \in R
      <3>1. client'[q] = "gone" /\ q \in submitted
        BY <1>1, <2>1 DEF HandlerInv, Delivery
      <3> QED BY <1>1, <3>1 DEF Delivery
    <2>2. CASE q \notin R
      BY <1>1, <1>2, <2>2, StaysDelivered DEF HandlerInv
    <2> QED BY <2>1, <2>2
  <1>5. R \subseteq submitted \ Gone /\ \A r \in R : ~Service!Closed(received[r])
    BY DEF HandlerInv, Delivery, Gone
  <1>6. Gone' = Gone \cup R
    BY <1>1 DEF Gone
  <1> QED BY <1>1, <1>3, <1>4, <1>5, <1>6 DEF HandlerInv, Service!Leave, Service!Closed

\* While the scheduler only adds to the streams, what was passed on stays their
\* beginning.
LEMMA SchedulerDelivers ==
    ASSUME ServerInv, HandlerInv, SchedulerStep
    PROVE  HandlerInv'
  <1>1. UNCHANGED <<server, client, jobs, busy, taken, received>> /\ Step
    BY DEF SchedulerStep, serverVars
  <1>2. submitted' = submitted
    BY <1>1 DEF Step, BeginBaseline, BeginBatched, BatchedDecode, EndBatched, BaselinePrefill,
                BaselineDecode, BaselineToken, PrefillNext, DecodeResult, ForwardFails
  <1>3. ASSUME NEW q \in Request
        PROVE  \/ stream'[q] = stream[q]
               \/ \E x \in Seq(Token \cup {End}) : stream'[q] = stream[q] \o x
    <2>1. CASE UNCHANGED <<out, stream>>
      BY <2>1
    <2>2. CASE \E r \in Request : \E t \in Token : r \in submitted /\ Emit(r, t) /\ ~Ended(r)
      <3>1. PICK r \in Request, t \in Token : Emit(r, t)
        BY <2>2
      <3>2. <<t, End>> \in Seq(Token \cup {End}) /\ <<t>> \in Seq(Token \cup {End})
        OBVIOUS
      <3> QED BY <3>1, <3>2, InvFacts, EmitStreams
    <2> QED BY <1>1, <2>1, <2>2, StepEmits
  <1>4. ASSUME NEW q \in Request PROVE Delivery(q)'
    <2>1. CASE stream'[q] = stream[q]
      BY <1>1, <1>2, <2>1, StaysDelivered DEF HandlerInv
    <2>2. CASE \E x \in Seq(Token \cup {End}) : stream'[q] = stream[q] \o x
      <3>1. PICK x \in Seq(Token \cup {End}) : stream'[q] = stream[q] \o x
        BY <2>2
      <3>2. PICK n : n = taken[q]
        OBVIOUS
      <3>3. PICK s : s = stream[q]
        OBVIOUS
      <3>4. n \in Nat /\ s \in Seq(Token \cup {End})
        BY <3>2, <3>3, InvFacts DEF HandlerInv, HandlerTypes, Types
      <3>5. ASSUME n <= Len(s)
            PROVE  n <= Len(s \o x) /\ SubSeq(s \o x, 1, n) = SubSeq(s, 1, n)
        <4>1. PICK u : u = s \o x
          OBVIOUS
        <4>2. u \in Seq(Token \cup {End}) /\ n <= Len(u) /\ \A i \in 1 .. n : u[i] = s[i]
          BY <3>4, <3>5, <4>1
        <4>3. SubSeq(u, 1, n) = SubSeq(s, 1, n)
          <5>1. PICK a : a = SubSeq(u, 1, n)
            OBVIOUS
          <5>2. PICK b : b = SubSeq(s, 1, n)
            OBVIOUS
          <5>3. a \in Seq(Token \cup {End}) /\ Len(a) = n /\ \A i \in 1 .. n : a[i] = u[i]
            BY <3>4, <4>2, <5>1
          <5>4. b \in Seq(Token \cup {End}) /\ Len(b) = n /\ \A i \in 1 .. n : b[i] = s[i]
            BY <3>4, <3>5, <5>2
          <5>5. \A i \in 1 .. Len(a) : a[i] = b[i]
            BY <4>2, <5>3, <5>4
          <5> QED BY <5>1, <5>2, <5>3, <5>4, <5>5, SameSequence
        <4> QED BY <4>1, <4>2, <4>3
      <3> QED BY <1>1, <1>2, <3>1, <3>2, <3>3, <3>5 DEF HandlerInv, Delivery, Service!Closed
    <2> QED BY <1>3, <2>1, <2>2
  <1> QED BY <1>1, <1>4 DEF HandlerInv, HandlerTypes

\* A step of the scheduler generates nothing, or the next token of a request
\* that was received and is not complete.
LEMMA SchedulerServes ==
    ASSUME ServerInv, StreamInv, SchedulerStep
    PROVE  \/ UNCHANGED <<submitted, Gone, out, received>>
           \/ \E r \in Request : \E t \in Token : Service!Generate(r, t)
  <1>1. Step /\ UNCHANGED <<client, received>>
    BY DEF SchedulerStep, serverVars
  <1>2. submitted' = submitted
    BY <1>1 DEF Step, BeginBaseline, BeginBatched, BatchedDecode, EndBatched, BaselinePrefill,
                BaselineDecode, BaselineToken, PrefillNext, DecodeResult, ForwardFails
  <1>3. Gone' = Gone
    BY <1>1 DEF Gone
  <1>4. CASE UNCHANGED <<out, stream>>
    BY <1>1, <1>2, <1>3, <1>4
  <1>5. CASE \E r \in Request : \E t \in Token : r \in submitted /\ Emit(r, t) /\ ~Ended(r)
    <2>1. PICK r \in Request, t \in Token : r \in submitted /\ Emit(r, t) /\ ~Ended(r)
      BY <1>5
    <2>2. ~Service!Complete(out[r])
      BY <2>1, InvFacts, EmitKeepsStreams
    <2>3. out' = [out EXCEPT ![r] = Append(@, t)]
      BY <2>1 DEF Emit
    <2>4. Service!Generate(r, t)
      BY <1>1, <1>2, <1>3, <2>1, <2>2, <2>3 DEF Service!Generate
    <2> QED BY <2>4
  <1> QED BY <1>1, <1>4, <1>5, StepEmits

\* Each step leaves the handlers consistent, and is one of the service or
\* changes nothing a client sees.
LEMMA HandlerNext ==
    ASSUME ServerInv, StreamInv, HandlerInv, [Next]_vars
    PROVE  HandlerInv' /\ [Service!ServiceNext]_Service!serviceVars
  <1> USE DEF Service!serviceVars
  <1>1. CASE SchedulerStep
    BY <1>1, SchedulerDelivers, SchedulerServes DEF Service!ServiceNext
  <1>2. CASE StartGet
    <2>1. UNCHANGED <<submitted, client, out, received>>
      BY <1>2 DEF StartGet, schedVars, reqVars
    <2>2. Gone' = Gone
      BY <2>1 DEF Gone
    <2> QED BY <1>2, <2>1, <2>2, StartGetDelivers
  <1>3. CASE Shutdown \/ StopScheduler \/ Exit \/ Quiet \/ UNCHANGED vars
    <2>1. /\ UNCHANGED <<submitted, out, stream, client, jobs, busy, taken, received>>
          /\ server' \in {server, "closing", "stopping", "down"}
      BY <1>3 DEF Shutdown, StopScheduler, Exit, Quiet, vars, serverVars, schedVars, reqVars
    <2>2. ASSUME NEW q \in Request PROVE Delivery(q)'
      BY <2>1, StaysDelivered DEF HandlerInv
    <2>3. HandlerTypes'
      BY <2>1 DEF HandlerInv, HandlerTypes
    <2>4. Gone' = Gone
      BY <2>1 DEF Gone
    <2> QED BY <2>1, <2>2, <2>3, <2>4 DEF HandlerInv
  <1>4. ASSUME NEW R, R \subseteq {r \in Request : client[r] = "waiting"}, Cancel(R)
        PROVE  HandlerInv' /\ Service!ServiceNext
    <2>1. R \in SUBSET Request
      BY <1>4
    <2> QED BY <1>4, <2>1, CancelDelivers DEF Service!ServiceNext
  <1>5. CASE ForceExit
    BY <1>4, <1>5 DEF ForceExit
  <1>6. CASE \E r \in Request : Disconnect(r)
    BY <1>4, <1>6 DEF Disconnect
  <1>7. CASE \E r \in Request : Post(r)
    BY <1>7, PostDelivers DEF Service!ServiceNext
  <1>8. CASE \E r \in Request : FinishGet(r)
    BY <1>8, FinishGetDelivers DEF Service!ServiceNext
  <1> QED BY <1>1, <1>2, <1>3, <1>5, <1>6, <1>7, <1>8 DEF Next

\* Before the first request there is nothing to pass on.
LEMMA HandlerInit == ServerInit => StreamInv /\ HandlerInv
  <1> SUFFICES ASSUME ServerInit PROVE StreamInv /\ HandlerInv
    OBVIOUS
  <1>1. /\ \A r \in Request : out[r] = <<>> /\ stream[r] = <<>>
        /\ submitted = {} /\ server = "up" /\ client = [r \in Request |-> "none"]
        /\ jobs = <<>> /\ busy = {} /\ taken = [r \in Request |-> 0]
        /\ received = [r \in Request |-> <<>>]
    BY DEF ServerInit, Init
  <1>2. StreamInv
    <2>1. ~Service!Complete(<<>>) /\ <<>> \o <<>> = <<>>
      BY DEF Service!Complete
    <2>2. Streamed(<<>>) = <<>>
      BY <2>1 DEF Streamed
    <2> QED BY <1>1, <2>2 DEF StreamInv
  <1>3. HandlerTypes
    <2>1. \A S : <<>> \in Seq(S)
      OBVIOUS
    <2> QED BY <1>1, <2>1 DEF HandlerTypes
  <1>4. \A r \in Request : Delivery(r)
    BY <1>1, NothingIn DEF Delivery
  <1> QED BY <1>2, <1>3, <1>4 DEF HandlerInv

\* Streams and handlers agree in every reachable state.
LEMMA HandlerInvariant == Spec => [](StreamInv /\ HandlerInv)
  <1>1. ServerInv /\ (StreamInv /\ HandlerInv) /\ [Next]_vars => (StreamInv /\ HandlerInv)'
    BY StreamNext, HandlerNext
  <1> QED BY <1>1, HandlerInit, ServerInvariant, PTL DEF Spec

\* Clients get what the service promises: the tokens the scheduler generated
\* for their own request in order, none twice or skipped, none generated after
\* the last one, and the end mark once, whatever worker carries them, in
\* either mode, with any number of workers, with clients that leave, forwards
\* that fail and signals to stop.
THEOREM ServerImplementsService == Spec => ImplementsService
  <1>1. ServerInit => Service!ServiceInit
    <2> SUFFICES ASSUME ServerInit PROVE Service!ServiceInit
      OBVIOUS
    <2>1. Gone = {}
      BY DEF ServerInit, Gone
    <2> QED BY <2>1 DEF ServerInit, Init, Service!ServiceInit
  <1>2. ServerInv /\ (StreamInv /\ HandlerInv) /\ [Next]_vars
          => [Service!ServiceNext]_Service!serviceVars
    BY HandlerNext
  <1> QED BY <1>1, <1>2, ServerInvariant, HandlerInvariant, PTL
          DEF Spec, ImplementsService, Service!ServiceSpec

-------------------------------------------------------------------------------
(* Types. *)

\* What Types leaves open.
MoreTypes ==
    /\ mode \in Modes /\ pc \in {"idle", "prefill", "decode", "results"}
    /\ seen \in [Request -> Seq(KVEntry)] /\ Len(faults) <= MaxFaults

\* Each step keeps the rest of the types.
LEMMA MoreTypesNext == ServerInv /\ MoreTypes /\ [Next]_vars => MoreTypes'
  <1> SUFFICES ASSUME ServerInv, MoreTypes, [Next]_vars PROVE MoreTypes'
    OBVIOUS
  <1> USE DEF MoreTypes
  <1>1. CASE (\E r \in Request : Post(r)) \/ UNCHANGED schedVars
    BY <1>1 DEF Post, AddRequest, schedVars, reqVars
  <1>2. CASE Step
    <2>1. CASE BeginBaseline \/ BeginBatched \/ EndBatched
      BY <2>1 DEF BeginBaseline, BeginBatched, EndBatched, reqVars
    <2>2. CASE \E t \in Token : BaselinePrefill(t) \/ BaselineDecode(t) \/ PrefillNext(t)
      BY <2>2 DEF BaselinePrefill, BaselineDecode, BaselineToken, PrefillNext
    <2>3. CASE \E t \in Token : DecodeResult(t)
      <3>1. PICK t \in Token : DecodeResult(t)
        BY <2>3
      <3>2. /\ seen' = [seen EXCEPT ![Head(todo)] = <<>>] /\ mode' = mode /\ faults' = faults
            /\ pc' \in {"idle", pc}
        BY <3>1 DEF DecodeResult
      <3>3. <<>> \in Seq(KVEntry)
        OBVIOUS
      <3> QED BY <3>2, <3>3
    <2>4. CASE BatchedDecode
      <3>1. PICK m : m = Longest({Len(kv[r]) : r \in Elems(running)})
        OBVIOUS
      <3>2. /\ mode = "batched" /\ pc = "prefill" /\ running # <<>> /\ mode' = mode
            /\ seen' = [r \in Request |-> IF r \in Elems(running) THEN Attended(r, m) ELSE <<>>]
            /\ pc' = "results" /\ faults' = faults
        BY <2>4, <3>1 DEF BatchedDecode, DecodeDue
      <3>3. m \in Nat /\ \A r \in Elems(running) : Len(kv[r]) <= m
        BY <3>1, <3>2, InvFacts, LongestOfBatch
      <3>4. ASSUME NEW r \in Request, r \in Elems(running)
            PROVE  Attended(r, m) \in Seq(KVEntry)
        <4>1. out[r] # <<>> /\ kv[r] \in Seq(KVEntry)
          BY <3>2, <3>4, InvFacts DEF Stage, Going, Types
        <4>2. Attended(r, m) = Append(kv[r], NewEntry(r))
          BY <3>3, <3>4, <4>1, InvFacts, AttendedIs
        <4>3. NewEntry(r) \in KVEntry
          BY <4>1, InvFacts, NewEntryType
        <4> QED BY <4>1, <4>2, <4>3, Grown
      <3>5. <<>> \in Seq(KVEntry)
        OBVIOUS
      <3> QED BY <3>2, <3>4, <3>5
    <2>5. CASE ForwardFails
      <3>1. /\ Len(faults) < MaxFaults /\ pc' = "idle" /\ mode' = mode /\ seen' = seen
            /\ \E phase \in Faults : faults' = Append(faults, phase)
        BY <2>5 DEF ForwardFails, reqVars
      <3>2. Len(faults') = Len(faults) + 1 /\ Len(faults) \in Nat
        <4>1. faults \in Seq(Faults)
          BY InvFacts DEF Types
        <4> QED BY <3>1, <4>1
      <3> QED BY <3>1, <3>2, FaultAssumption
    <2> QED BY <1>2, <2>1, <2>2, <2>3, <2>4, <2>5 DEF Step
  <1> QED BY <1>1, <1>2, HandlersStutter DEF SchedulerStep

\* The scheduler's and the handlers' state keeps its types.
THEOREM ServerTypeCorrect == Spec => []ServerTypeOK
  <1>1. ServerInit => MoreTypes
    <2>1. <<>> \in Seq(KVEntry) /\ Len(<<>>) = 0
      OBVIOUS
    <2> QED BY <2>1, FaultAssumption DEF ServerInit, Init, MoreTypes
  <1>2. ServerInv /\ HandlerInv /\ MoreTypes => ServerTypeOK
    BY InvFacts DEF Types, HandlerInv, HandlerTypes, MoreTypes, ServerTypeOK, TypeOK, KVEntry
  <1> QED BY <1>1, <1>2, ServerInvariant, HandlerInvariant, MoreTypesNext, PTL DEF Spec

===============================================================================
