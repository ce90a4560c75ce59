---------------------------- MODULE CudaGraphProofs ----------------------------
(***************************************************************************)
(* The forwards do what PagedSlots says, under both attention backends and *)
(* with CUDA graphs, for any requests, pool, page size and buckets; and    *)
(* then each request finds its own KV.                                     *)
(*                                                                         *)
(* In PagedSlots, that a write leaves other tokens alone rests on three    *)
(* facts kept by every step: a page is in one place of one page table,     *)
(* tables hold the tokens they should, and different positions of          *)
(* different pages are different slots.                                    *)
(*                                                                         *)
(* A forward is given flat sequences and where each row of its batch       *)
(* begins in them.  So most of what follows is about cumulated lengths     *)
(* (Offsets) and flattened rows (Laid).  Both are recursive functions:     *)
(* they satisfy their equations since a solution can be extended from each *)
(* length to the next (RecursionHolds, by Upwards: else there would be a   *)
(* least length without one).  A forward is right when its rows fit        *)
(* (RowsFit), which is shown of each of the four kinds of forward alone.   *)
(***************************************************************************)
EXTENDS CudaGraph, SequenceTheorems, FiniteSetTheorems, WellFoundedInduction, TLAPS

\* The pool part of TypeOK.
TypeInv ==
    /\ table \in [Request -> Seq(Page)]
    /\ len \in [Request -> 0 .. MaxLen]
    /\ free \subseteq Page
    /\ kv \in [Slot -> Entry]

\* Tables are long enough.
Held == \A r \in Request : len[r] <= Len(table[r]) * PageSize

\* A page is in one place of one table, or free.
Apart ==
    /\ \A r \in Request : \A i \in 1 .. Len(table[r]) : table[r][i] \notin free
    /\ \A r, q \in Request : \A i \in 1 .. Len(table[r]), j \in 1 .. Len(table[q]) :
          table[r][i] = table[q][j] => r = q /\ i = j

SlotsInv == TypeInv /\ Held /\ Apart /\ HoldsOwnHistory

-------------------------------------------------------------------------------
(* Arithmetic. *)

\* A page's slots come before the next page's.
LEMMA Products ==
    ASSUME NEW m \in Int, NEW n \in Int, m < n
    PROVE  m * PageSize + PageSize <= n * PageSize
<1>1. PageSize \in Nat \ {0}
  BY PoolAssumption
<1>2. (n - m - 1) * PageSize >= 0
  BY <1>1
<1>3. (n - m - 1) * PageSize = n * PageSize - m * PageSize - PageSize
  BY <1>1
<1> QED
  BY <1>1, <1>2, <1>3

\* The slots of pages together.
LEMMA Sums ==
    ASSUME NEW m \in Nat, NEW n \in Nat
    PROVE  (m + n) * PageSize = m * PageSize + n * PageSize
  BY PoolAssumption

\* A number is its page times the page size and its offset.
LEMMA Divided ==
    ASSUME NEW n \in Nat
    PROVE  /\ n \div PageSize \in Nat
           /\ n % PageSize \in 0 .. PageSize - 1
           /\ n = (n \div PageSize) * PageSize + (n % PageSize)
  BY PoolAssumption

\* Slots are the same only if their pages and their offsets are.
LEMMA SlotsDiffer ==
    ASSUME NEW p \in Nat, NEW q \in Nat, NEW a \in 0 .. PageSize - 1, NEW b \in 0 .. PageSize - 1,
           p * PageSize + a = q * PageSize + b
    PROVE  p = q /\ a = b
<1>1. PageSize \in Nat \ {0} /\ p * PageSize \in Int /\ q * PageSize \in Int
  BY PoolAssumption
<1>2. CASE p < q
  BY <1>1, <1>2, Products
<1>3. CASE q < p
  BY <1>1, <1>3, Products
<1>4. CASE p = q
  BY <1>1, <1>4
<1> QED
  BY <1>2, <1>3, <1>4

\* The page of a slot.
LEMMA Quotients ==
    ASSUME NEW p \in Nat, NEW a \in 0 .. PageSize - 1
    PROVE  (p * PageSize + a) \div PageSize = p
<1>1. PageSize \in Nat \ {0} /\ p * PageSize + a \in Nat
  BY PoolAssumption
<1> DEFINE n == p * PageSize + a
<1>2. /\ n \div PageSize \in Nat /\ n % PageSize \in 0 .. PageSize - 1
      /\ n = (n \div PageSize) * PageSize + (n % PageSize)
  BY <1>1, Divided
<1> QED
  BY <1>2, SlotsDiffer

\* Position n falls in a table that holds more than n tokens.
LEMMA PositionInTable ==
    ASSUME NEW n \in Nat, NEW k \in Nat, n < k * PageSize
    PROVE  n \div PageSize + 1 \in 1 .. k
<1>1. PageSize \in Nat \ {0} /\ k * PageSize \in Int
  BY PoolAssumption
<1>2. /\ n \div PageSize \in Nat /\ n % PageSize \in 0 .. PageSize - 1
      /\ n = (n \div PageSize) * PageSize + (n % PageSize)
  BY Divided
<1>3. ~(k <= n \div PageSize)
  <2> SUFFICES ASSUME k <= n \div PageSize PROVE FALSE
    OBVIOUS
  <2>1. CASE k = n \div PageSize
    BY <1>1, <1>2, <2>1
  <2>2. CASE k < n \div PageSize
    <3>1. k * PageSize + PageSize <= (n \div PageSize) * PageSize
      BY <1>2, <2>2, Products
    <3> QED
      BY <1>1, <1>2, <3>1
  <2> QED
    BY <1>2, <2>1, <2>2
<1> QED
  BY <1>2, <1>3

\* PagesNeeded(n) pages hold n tokens.
LEMMA EnoughPages ==
    ASSUME NEW n \in Nat, NEW k \in Nat, PagesNeeded(n) <= k
    PROVE  n <= k * PageSize
<1>1. PageSize \in Nat \ {0} /\ n + PageSize - 1 \in Nat /\ k * PageSize \in Int
  BY PoolAssumption
<1> DEFINE m == n + PageSize - 1
<1>2. /\ m \div PageSize \in Nat /\ m % PageSize \in 0 .. PageSize - 1
      /\ m = (m \div PageSize) * PageSize + (m % PageSize)
  BY <1>1, Divided
<1>3. m \div PageSize <= k
  BY DEF PagesNeeded
<1>4. (m \div PageSize) * PageSize <= k * PageSize
  <2> HIDE DEF m
  <2>1. CASE m \div PageSize = k
    BY <1>1, <2>1
  <2>2. CASE m \div PageSize < k
    <3>1. (m \div PageSize) * PageSize + PageSize <= k * PageSize
      BY <1>2, <2>2, Products
    <3>2. (m \div PageSize) * PageSize \in Int
      BY <1>1, <1>2
    <3> QED
      BY <1>1, <3>1, <3>2
  <2> QED
    BY <1>2, <1>3, <2>1, <2>2
<1>5. (m \div PageSize) * PageSize \in Int
  BY <1>1, <1>2
<1> QED
  BY <1>1, <1>2, <1>4, <1>5

-------------------------------------------------------------------------------
(* Slots of a page table. *)

\* A position that fits in r's table has a slot, in one of r's pages.
LEMMA SlotOfPosition ==
    ASSUME TypeInv, NEW r \in Request, NEW i \in Nat, i < Len(table[r]) * PageSize
    PROVE  /\ i \div PageSize + 1 \in 1 .. Len(table[r])
           /\ table[r][i \div PageSize + 1] \in Page
           /\ SlotOf(table[r], i) \in Slot
           /\ SlotOf(table[r], i) \div PageSize = table[r][i \div PageSize + 1]
<1>1. table[r] \in Seq(Page) /\ Len(table[r]) \in Nat
  BY DEF TypeInv
<1>2. i \div PageSize + 1 \in 1 .. Len(table[r])
  BY <1>1, PositionInTable
<1> DEFINE p == table[r][i \div PageSize + 1]
           a == i % PageSize
<1>3. p \in Page
  BY <1>1, <1>2
<1>4. p \in Nat /\ p >= 1 /\ p < NumPages /\ NumPages \in Nat
  BY <1>3, PoolAssumption DEF Page
<1>5. a \in 0 .. PageSize - 1 /\ PageSize \in Nat \ {0}
  BY Divided, PoolAssumption
<1>6. SlotOf(table[r], i) = p * PageSize + a
  BY DEF SlotOf
<1> HIDE DEF p, a
<1>7. 0 * PageSize + PageSize <= p * PageSize
  BY <1>4, Products
<1>8. p * PageSize + PageSize <= NumPages * PageSize
  BY <1>4, Products
<1>9. p * PageSize + a \in Slot
  BY <1>4, <1>5, <1>7, <1>8 DEF Slot
<1>10. (p * PageSize + a) \div PageSize = p
  BY <1>4, <1>5, Quotients
<1> QED
  BY <1>2, <1>3, <1>6, <1>9, <1>10 DEF p

\* No two tokens share a slot.
LEMMA OwnSlot ==
    ASSUME TypeInv, Apart, NEW r \in Request, NEW q \in Request, NEW i \in Nat, NEW j \in Nat,
           i < Len(table[r]) * PageSize, j < Len(table[q]) * PageSize,
           SlotOf(table[r], i) = SlotOf(table[q], j)
    PROVE  r = q /\ i = j
<1> DEFINE m == i \div PageSize
           n == j \div PageSize
<1>1. /\ m + 1 \in 1 .. Len(table[r]) /\ n + 1 \in 1 .. Len(table[q])
      /\ table[r][m + 1] \in Page /\ table[q][n + 1] \in Page
  BY SlotOfPosition
<1>2. /\ m \in Nat /\ n \in Nat
      /\ i % PageSize \in 0 .. PageSize - 1 /\ j % PageSize \in 0 .. PageSize - 1
      /\ i = m * PageSize + (i % PageSize) /\ j = n * PageSize + (j % PageSize)
  BY Divided
<1>3. table[r][m + 1] * PageSize + (i % PageSize) = table[q][n + 1] * PageSize + (j % PageSize)
  BY DEF SlotOf
<1>4. table[r][m + 1] \in Nat /\ table[q][n + 1] \in Nat
  BY <1>1, PoolAssumption DEF Page
<1> HIDE DEF m, n
<1>5. table[r][m + 1] = table[q][n + 1] /\ i % PageSize = j % PageSize
  <2> DEFINE p1 == table[r][m + 1]
             p2 == table[q][n + 1]
             a1 == i % PageSize
             a2 == j % PageSize
  <2>1. /\ p1 \in Nat /\ p2 \in Nat /\ a1 \in 0 .. PageSize - 1 /\ a2 \in 0 .. PageSize - 1
        /\ p1 * PageSize + a1 = p2 * PageSize + a2
    BY <1>2, <1>3, <1>4
  <2> HIDE DEF p1, p2, a1, a2
  <2>2. p1 = p2 /\ a1 = a2
    BY <2>1, SlotsDiffer
  <2> QED
    BY <2>2 DEF p1, p2, a1, a2
<1>6. r = q /\ m + 1 = n + 1
  BY <1>1, <1>5 DEF Apart
<1>7. m = n
  BY <1>2, <1>6
<1> QED
  BY <1>2, <1>5, <1>6, <1>7

\* What is cached fits in the table.
LEMMA CachedFits ==
    ASSUME TypeInv, Held, NEW r \in Request, NEW i \in 0 .. len[r] - 1
    PROVE  i \in Nat /\ i < Len(table[r]) * PageSize
<1>1. len[r] \in Nat /\ Len(table[r]) \in Nat
  BY LenAssumption DEF TypeInv
<1>2. Len(table[r]) * PageSize \in Int
  BY <1>1, PoolAssumption
<1> QED
  BY <1>1, <1>2 DEF Held

-------------------------------------------------------------------------------
(* The steps. *)

\* An empty pool is as it should be.
LEMMA InitSlots == SlotsInit => SlotsInv
<1> SUFFICES ASSUME SlotsInit PROVE SlotsInv
  OBVIOUS
<1>1. TypeInv
  BY LenAssumption DEF SlotsInit, TypeInv, Entry
<1>2. Held
  BY PoolAssumption DEF SlotsInit, Held
<1>3. Apart
  BY DEF SlotsInit, Apart
<1>4. HoldsOwnHistory
  BY DEF SlotsInit, HoldsOwnHistory
<1> QED
  BY <1>1, <1>2, <1>3, <1>4 DEF SlotsInv

\* A longer table keeps what it had where it was.
LEMMA GrowKeeps ==
    ASSUME SlotsInv, NEW r \in Request, NEW n \in 1 .. MaxLen, GrowTable(r, n)
    PROVE  SlotsInv'
<1> USE DEF SlotsInv
<1> DEFINE k == PagesNeeded(n) - Len(table[r])
<1>1. Len(table[r]) \in Nat /\ table[r] \in Seq(Page) /\ k \in Nat
  <2>1. n + PageSize - 1 \in Nat
    BY LenAssumption, PoolAssumption
  <2>2. PagesNeeded(n) \in Nat
    BY <2>1, Divided DEF PagesNeeded
  <2> QED
    BY <2>2 DEF TypeInv, GrowTable
<1>2. PICK new \in Allocations(k, free) :
          /\ table' = [table EXCEPT ![r] = @ \o new]
          /\ free' = free \ {new[i] : i \in DOMAIN new}
  BY DEF GrowTable
<1>3. /\ new \in [1 .. k -> free] /\ DOMAIN new = 1 .. k
      /\ \A i, j \in 1 .. k : new[i] = new[j] => i = j
  BY <1>2 DEF Allocations
<1> HIDE DEF k
<1>4. new \in Seq(Page) /\ Len(new) = k
  BY <1>1, <1>3 DEF TypeInv
<1>5. /\ table'[r] \in Seq(Page) /\ Len(table'[r]) = Len(table[r]) + k
      /\ \A i \in 1 .. Len(table[r]) + k :
            table'[r][i] = IF i <= Len(table[r]) THEN table[r][i] ELSE new[i - Len(table[r])]
  BY <1>1, <1>2, <1>4, ConcatProperties DEF TypeInv
<1>6. \A q \in Request : q # r => table'[q] = table[q]
  BY <1>2 DEF TypeInv
<1>7. len' = len /\ kv' = kv
  BY DEF GrowTable
<1>8. TypeInv'
  BY <1>2, <1>5, <1>6, <1>7 DEF TypeInv
<1>9. Held'
  <2>1. ASSUME NEW q \in Request PROVE len[q] <= Len(table'[q]) * PageSize
    <3>1. CASE q # r
      BY <1>6, <3>1 DEF Held
    <3>2. CASE q = r
      <4>1. (Len(table[r]) + k) * PageSize = Len(table[r]) * PageSize + k * PageSize
        BY <1>1, Sums
      <4>2. k * PageSize >= 0 /\ Len(table[r]) * PageSize \in Int /\ k * PageSize \in Int
        BY <1>1, PoolAssumption
      <4>3. len[r] \in Int /\ len[r] <= Len(table[r]) * PageSize
        BY LenAssumption DEF Held, TypeInv
      <4> QED
        BY <1>5, <3>2, <4>1, <4>2, <4>3
    <3> QED
      BY <3>1, <3>2
  <2> QED
    BY <1>7, <2>1 DEF Held
<1>10. Apart'
  <2>1. ASSUME NEW q \in Request, NEW i \in 1 .. Len(table'[q])
        PROVE  table'[q][i] \notin free'
    <3>1. CASE q # r
      BY <1>2, <1>6, <3>1 DEF Apart
    <3>2. CASE q = r /\ i <= Len(table[r])
      BY <1>1, <1>2, <1>5, <3>2 DEF Apart
    <3>3. CASE q = r /\ ~(i <= Len(table[r]))
      <4>1. i - Len(table[r]) \in 1 .. k
        BY <1>1, <1>5, <3>3
      <4> QED
        BY <1>2, <1>3, <1>5, <3>3, <4>1
    <3> QED
      BY <3>1, <3>2, <3>3
  <2>2. ASSUME NEW q \in Request, NEW u \in Request,
               NEW i \in 1 .. Len(table'[q]), NEW j \in 1 .. Len(table'[u]),
               table'[q][i] = table'[u][j]
        PROVE  q = u /\ i = j
    <3>0. i \in Nat /\ j \in Nat
      OBVIOUS
    <3>1. CASE /\ q = r => i <= Len(table[r])
               /\ u = r => j <= Len(table[r])
      <4>1. i \in 1 .. Len(table[q]) /\ table'[q][i] = table[q][i]
        BY <1>1, <1>5, <1>6, <3>0, <3>1
      <4>2. j \in 1 .. Len(table[u]) /\ table'[u][j] = table[u][j]
        BY <1>1, <1>5, <1>6, <3>0, <3>1
      <4>3. table[q][i] = table[u][j]
        BY <2>2, <4>1, <4>2
      <4> QED
        BY <4>1, <4>2, <4>3 DEF Apart
    <3>2. CASE /\ q = r /\ ~(i <= Len(table[r]))
               /\ u = r => j <= Len(table[r])
      <4>1. i - Len(table[r]) \in 1 .. k /\ table'[q][i] = new[i - Len(table[r])]
        BY <1>1, <1>5, <3>0, <3>2
      <4>2. j \in 1 .. Len(table[u]) /\ table'[u][j] = table[u][j]
        BY <1>1, <1>5, <1>6, <3>0, <3>2
      <4>3. new[i - Len(table[r])] = table[u][j]
        BY <2>2, <4>1, <4>2
      <4>4. new[i - Len(table[r])] \in free
        BY <1>3, <4>1
      <4> QED
        BY <4>2, <4>3, <4>4 DEF Apart
    <3>3. CASE /\ u = r /\ ~(j <= Len(table[r]))
               /\ q = r => i <= Len(table[r])
      <4>1. j - Len(table[r]) \in 1 .. k /\ table'[u][j] = new[j - Len(table[r])]
        BY <1>1, <1>5, <3>0, <3>3
      <4>2. i \in 1 .. Len(table[q]) /\ table'[q][i] = table[q][i]
        BY <1>1, <1>5, <1>6, <3>0, <3>3
      <4>3. new[j - Len(table[r])] = table[q][i]
        BY <2>2, <4>1, <4>2
      <4>4. new[j - Len(table[r])] \in free
        BY <1>3, <4>1
      <4> QED
        BY <4>2, <4>3, <4>4 DEF Apart
    <3>4. CASE q = r /\ ~(i <= Len(table[r])) /\ u = r /\ ~(j <= Len(table[r]))
      <4>1. /\ i - Len(table[r]) \in 1 .. k /\ table'[q][i] = new[i - Len(table[r])]
            /\ j - Len(table[r]) \in 1 .. k /\ table'[u][j] = new[j - Len(table[r])]
        BY <1>1, <1>5, <3>0, <3>4
      <4>2. i - Len(table[r]) = j - Len(table[r])
        BY <1>3, <2>2, <4>1
      <4> QED
        BY <1>1, <3>0, <3>4, <4>2
    <3> QED
      BY <3>1, <3>2, <3>3, <3>4
  <2> QED
    BY <2>1, <2>2 DEF Apart
<1>11. HoldsOwnHistory'
  <2> SUFFICES ASSUME NEW q \in Request, NEW i \in 0 .. len[q] - 1
               PROVE  kv[SlotOf(table'[q], i)] = <<q, i>>
    BY <1>7 DEF HoldsOwnHistory
  <2>1. i \in Nat /\ i < Len(table[q]) * PageSize
    BY CachedFits
  <2>2. i \div PageSize + 1 \in 1 .. Len(table[q])
    BY <2>1, SlotOfPosition
  <2>3. table'[q][i \div PageSize + 1] = table[q][i \div PageSize + 1]
    <3>1. CASE q # r
      BY <1>6, <3>1
    <3>2. CASE q = r
      BY <1>1, <1>5, <2>2, <3>2
    <3> QED
      BY <3>1, <3>2
  <2>4. SlotOf(table'[q], i) = SlotOf(table[q], i)
    BY <2>3 DEF SlotOf
  <2> QED
    BY <2>4 DEF HoldsOwnHistory
<1> QED
  BY <1>8, <1>9, <1>10, <1>11

\* The tokens of a batch are new to their requests, and each has its slot.
LEMMA WriteKeeps ==
    ASSUME SlotsInv, NEW R \in SUBSET Request, NEW end \in [R -> 1 .. MaxLen], Write(R, end)
    PROVE  SlotsInv'
<1> USE DEF SlotsInv
<1>1. table' = table /\ free' = free
  BY DEF Write
<1>2. \A r \in R : end[r] \in len[r] + 1 .. MaxLen /\ HasPages(r, end[r])
  BY DEF Write
<1>3. len' = [r \in Request |-> IF r \in R THEN end[r] ELSE len[r]]
  BY DEF Write
<1>4. \A s \in Slot : kv'[s] = IF \E x \in Fed(R, end) : s = SlotOf(table[x[1]], x[2])
                            THEN CHOOSE x \in Fed(R, end) : s = SlotOf(table[x[1]], x[2])
                            ELSE kv[s]
  BY DEF Write
<1>5. \A r \in R : end[r] <= Len(table[r]) * PageSize
  <2> SUFFICES ASSUME NEW r \in R PROVE end[r] <= Len(table[r]) * PageSize
    OBVIOUS
  <2>1. PagesNeeded(end[r]) <= Len(table[r]) /\ end[r] \in Nat /\ Len(table[r]) \in Nat
    BY <1>2, LenAssumption DEF HasPages, TypeInv
  <2> QED
    BY <2>1, EnoughPages
<1>6. \A x \in Fed(R, end) :
          /\ x = <<x[1], x[2]>> /\ x \in Entry
          /\ x[1] \in Request /\ x[2] \in Nat /\ x[2] >= len[x[1]]
          /\ x[2] < Len(table[x[1]]) * PageSize
  <2> SUFFICES ASSUME NEW x \in Fed(R, end)
               PROVE  /\ x = <<x[1], x[2]>> /\ x \in Entry
                      /\ x[1] \in Request /\ x[2] \in Nat /\ x[2] >= len[x[1]]
                      /\ x[2] < Len(table[x[1]]) * PageSize
    OBVIOUS
  <2>1. x \in R \X (0 .. MaxLen) /\ x[2] >= len[x[1]] /\ x[2] < end[x[1]]
    BY DEF Fed
  <2>2. /\ x = <<x[1], x[2]>> /\ x[1] \in R /\ x[1] \in Request
        /\ x[2] \in 0 .. MaxLen /\ x \in Entry
    BY <2>1 DEF Entry
  <2>3. end[x[1]] \in Int /\ Len(table[x[1]]) * PageSize \in Int /\ x[2] \in Nat
    BY <2>2, PoolAssumption, LenAssumption DEF TypeInv
  <2> QED
    BY <1>5, <2>1, <2>2, <2>3
<1>7. TypeInv'
  <2>1. len' \in [Request -> 0 .. MaxLen]
    BY <1>3 DEF TypeInv
  <2>2. kv' \in [Slot -> Entry]
    <3>1. \A s \in Slot : kv'[s] \in Entry
      BY <1>4, <1>6 DEF TypeInv
    <3> QED
      BY <3>1 DEF Write
  <2> QED
    BY <1>1, <2>1, <2>2 DEF TypeInv
<1>8. Held'
  BY <1>1, <1>3, <1>5 DEF Held
<1>9. Apart'
  BY <1>1 DEF Apart
<1>10. HoldsOwnHistory'
  <2> SUFFICES ASSUME NEW r \in Request, NEW i \in 0 .. len'[r] - 1
               PROVE  kv'[SlotOf(table[r], i)] = <<r, i>>
    BY <1>1 DEF HoldsOwnHistory
  <2>0. len'[r] \in 0 .. MaxLen /\ len[r] \in 0 .. MaxLen
    BY <1>7 DEF TypeInv
  <2>1. i \in Nat /\ i < Len(table[r]) * PageSize
    <3>1. len'[r] <= Len(table[r]) * PageSize
      BY <1>1, <1>8 DEF Held
    <3>2. Len(table[r]) * PageSize \in Int
      BY PoolAssumption DEF TypeInv
    <3> QED
      BY <2>0, <3>1, <3>2, LenAssumption
  <2> DEFINE s == SlotOf(table[r], i)
  <2>2. s \in Slot
    BY <2>1, SlotOfPosition
  <2>3. ASSUME NEW x \in Fed(R, end), s = SlotOf(table[x[1]], x[2])
        PROVE  x = <<r, i>>
    <3>1. r = x[1] /\ i = x[2]
      BY <1>6, <2>1, <2>3, OwnSlot
    <3> QED
      BY <1>6, <3>1
  <2> HIDE DEF s
  <2>4. CASE r \in R /\ i >= len[r]
    <3>1. <<r, i>> \in R \X (0 .. MaxLen) /\ i < end[r]
      BY <1>2, <1>3, <2>0, <2>4, LenAssumption
    <3>2. <<r, i>> \in Fed(R, end)
      BY <2>4, <3>1 DEF Fed
    <3>3. \E x \in Fed(R, end) : s = SlotOf(table[x[1]], x[2])
      BY <3>2 DEF s
    <3> QED
      BY <1>4, <2>2, <2>3, <3>3 DEF s
  <2>5. CASE ~(r \in R /\ i >= len[r])
    <3>1. i \in 0 .. len[r] - 1
      BY <1>3, <2>0, <2>5, LenAssumption
    <3>2. ASSUME NEW x \in Fed(R, end), s = SlotOf(table[x[1]], x[2]) PROVE FALSE
      <4>1. x = <<r, i>>
        BY <2>3, <3>2
      <4>2. i >= len[r] /\ r \in R
        BY <4>1 DEF Fed
      <4> QED
        BY <2>5, <4>2
    <3>3. kv'[s] = kv[s]
      BY <1>4, <2>2, <3>2
    <3> QED
      BY <3>1, <3>3 DEF HoldsOwnHistory, s
  <2> QED
    BY <2>4, <2>5 DEF s
<1> QED
  BY <1>7, <1>8, <1>9, <1>10

\* The pages of a request that leaves are nobody else's.
LEMMA LeaveKeeps ==
    ASSUME SlotsInv, NEW r \in Request, Leave(r)
    PROVE  SlotsInv'
<1> USE DEF SlotsInv
<1>1. /\ table' = [table EXCEPT ![r] = <<>>] /\ len' = [len EXCEPT ![r] = 0]
      /\ free' = free \cup {table[r][i] : i \in 1 .. Len(table[r])}
      /\ kv' = [s \in Slot |-> IF s \div PageSize \in free' THEN Unwritten ELSE kv[s]]
  BY DEF Leave
<1>2. /\ table'[r] = <<>> /\ len'[r] = 0
      /\ \A q \in Request : q # r => table'[q] = table[q] /\ len'[q] = len[q]
  BY <1>1 DEF TypeInv
<1>3. \A q \in Request : q # r => \A i \in 1 .. Len(table[q]) : table[q][i] \notin free'
  BY <1>1 DEF Apart
<1>4. TypeInv'
  <2>1. table[r] \in Seq(Page)
    BY DEF TypeInv
  <2>2. free' \subseteq Page
    BY <1>1, <2>1 DEF TypeInv
  <2> QED
    BY <1>1, <2>2, LenAssumption DEF TypeInv, Entry
<1>5. Held'
  BY <1>2, PoolAssumption DEF Held
<1>6. Apart'
  BY <1>2, <1>3 DEF Apart
<1>7. HoldsOwnHistory'
  <2> SUFFICES ASSUME NEW q \in Request, NEW i \in 0 .. len'[q] - 1
               PROVE  kv'[SlotOf(table'[q], i)] = <<q, i>>
    BY DEF HoldsOwnHistory
  <2>1. q # r
    BY <1>2
  <2>2. table'[q] = table[q] /\ i \in 0 .. len[q] - 1
    BY <1>2, <2>1
  <2>3. i \in Nat /\ i < Len(table[q]) * PageSize
    BY <2>2, CachedFits
  <2>4. /\ SlotOf(table[q], i) \in Slot
        /\ SlotOf(table[q], i) \div PageSize = table[q][i \div PageSize + 1]
        /\ i \div PageSize + 1 \in 1 .. Len(table[q])
    BY <2>3, SlotOfPosition
  <2>5. kv'[SlotOf(table[q], i)] = kv[SlotOf(table[q], i)]
    BY <1>1, <1>3, <2>1, <2>4
  <2> QED
    BY <2>2, <2>5 DEF HoldsOwnHistory
<1> QED
  BY <1>4, <1>5, <1>6, <1>7

\* No step of prefill, decode, growth or release puts a request's KV out of
\* the place its page table says (engine.paged_batched_prefill and
\* paged_batched_decode).
THEOREM KeepsHistory == SlotsSpec => []HoldsOwnHistory
<1>1. SlotsInit => SlotsInv
  BY InitSlots
<1>2. SlotsInv /\ [SlotsNext]_poolVars => SlotsInv'
  <2> SUFFICES ASSUME SlotsInv, [SlotsNext]_poolVars PROVE SlotsInv'
    OBVIOUS
  <2>1. ASSUME NEW r \in Request, Leave(r) PROVE SlotsInv'
    BY <2>1, LeaveKeeps
  <2>2. ASSUME NEW r \in Request, NEW n \in 1 .. MaxLen, GrowTable(r, n) PROVE SlotsInv'
    BY <2>2, GrowKeeps
  <2>3. ASSUME NEW R \in SUBSET Request, NEW end \in [R -> 1 .. MaxLen], Write(R, end)
        PROVE  SlotsInv'
    BY <2>3, WriteKeeps
  <2>4. CASE UNCHANGED poolVars
    BY <2>4 DEF poolVars, SlotsInv, TypeInv, Held, Apart, HoldsOwnHistory
  <2> QED
    BY <2>1, <2>2, <2>3, <2>4 DEF SlotsNext
<1>3. SlotsInv => HoldsOwnHistory
  BY DEF SlotsInv
<1> QED
  BY <1>1, <1>2, <1>3, PTL DEF SlotsSpec

-------------------------------------------------------------------------------
(* Recursive functions. *)

\* A non-empty set of naturals has a least element.
LEMMA Least ==
    ASSUME NEW T, T \subseteq Nat, T # {}
    PROVE  \E x \in T : \A y \in T : x <= y
<1>1. IsWellFoundedOn(OpToRel(<, Nat), Nat)
  BY NatLessThanWellFounded
<1>2. PICK x \in T : \A y \in T : ~(<<y, x>> \in OpToRel(<, Nat))
  BY <1>1, WFMin
<1>3. \A y \in T : ~(y < x)
  BY <1>2 DEF OpToRel
<1> QED
  BY <1>3

\* Induction up to n, for sets.
LEMMA Upwards ==
    ASSUME NEW n \in Nat, NEW T, 0 \in T, \A i \in 1 .. n : i - 1 \in T => i \in T
    PROVE  \A i \in 0 .. n : i \in T
<1> DEFINE U == {i \in 0 .. n : i \notin T}
<1> SUFFICES ASSUME U # {} PROVE FALSE
  OBVIOUS
<1>1. U \subseteq Nat
  OBVIOUS
<1>2. PICK x \in U : \A y \in U : x <= y
  <2> HIDE DEF U
  <2> QED
    BY <1>1, Least
<1>3. x \in 1 .. n /\ x \notin T /\ x - 1 \in 0 .. n /\ ~(x <= x - 1)
  OBVIOUS
<1>4. x - 1 \in T
  BY <1>2, <1>3
<1> QED
  BY <1>3, <1>4

\* A recursion that goes up from 0 has a solution, in which each value is
\* what the step makes of the one before it.  step[<<i, x>>] is the step.
IsSolution(f, n, a, step) ==
    f = [i \in 0 .. n |-> IF i = 0 THEN a ELSE step[<<i, f[i - 1]>>]]

\* There is such a function.
LEMMA RecursionHolds ==
    ASSUME NEW n \in Nat, NEW a, NEW step
    PROVE  \E f : IsSolution(f, n, a, step)
<1> DEFINE T == {m \in 0 .. n : \E f : IsSolution(f, m, a, step)}
<1>1. 0 \in T
  <2>1. PICK f : f = [i \in 0 .. 0 |-> a]
    OBVIOUS
  <2>2. IsSolution(f, 0, a, step)
    BY <2>1 DEF IsSolution
  <2> QED
    BY <2>2
<1>2. ASSUME NEW m \in 1 .. n, m - 1 \in T PROVE m \in T
  <2>1. PICK g : IsSolution(g, m - 1, a, step)
    BY <1>2
  <2>2. g = [i \in 0 .. m - 1 |-> IF i = 0 THEN a ELSE step[<<i, g[i - 1]>>]]
    BY <2>1 DEF IsSolution
  <2>3. PICK f : f = [i \in 0 .. m |-> IF i < m THEN g[i] ELSE step[<<m, g[m - 1]>>]]
    OBVIOUS
  <2>4. ASSUME NEW i \in 0 .. m
        PROVE  f[i] = IF i = 0 THEN a ELSE step[<<i, f[i - 1]>>]
    <3>1. CASE i = m
      <4>1. m - 1 \in 0 .. m /\ m - 1 < m /\ ~(m < m) /\ m # 0
        OBVIOUS
      <4> QED
        BY <2>3, <3>1, <4>1
    <3>2. CASE i # m /\ i = 0
      <4>1. i < m /\ i \in 0 .. m - 1
        BY <3>2
      <4> QED
        BY <2>2, <2>3, <3>2, <4>1
    <3>3. CASE i # m /\ i # 0
      <4>1. i < m /\ i \in 0 .. m - 1 /\ i - 1 \in 0 .. m /\ i - 1 < m
        BY <3>3
      <4>2. f[i] = g[i] /\ f[i - 1] = g[i - 1]
        BY <2>3, <4>1
      <4> QED
        BY <2>2, <3>3, <4>1, <4>2
    <3> QED
      BY <3>1, <3>2, <3>3
  <2>5. IsSolution(f, m, a, step)
    <3>1. f = [i \in 0 .. m |-> f[i]]
      BY <2>3
    <3> QED
      BY <2>4, <3>1 DEF IsSolution
  <2> QED
    BY <2>5
<1>3. n \in 0 .. n
  OBVIOUS
<1> HIDE DEF T
<1>4. n \in T
  BY <1>1, <1>2, <1>3, Upwards
<1> QED
  BY <1>4 DEF T

-------------------------------------------------------------------------------
(* Sequences laid end to end. *)

\* c is where n sequences begin that are w[1], w[2], ... long: at c[b] + 1.
Offsets(c, w, n) ==
    /\ c[1] = 0
    /\ \A b \in 1 .. n : c[b] \in Nat /\ c[b + 1] \in Nat /\ c[b + 1] = c[b] + w[b]

\* Cumulated gives them.
LEMMA CumulatedOffsets ==
    ASSUME NEW n \in Nat, NEW w \in Seq(Nat), Len(w) = n
    PROVE  /\ Offsets(Cumulated(w), w, n)
           /\ Cumulated(w) \in Seq(Nat) /\ Len(Cumulated(w)) = n + 1
<1> DEFINE Rule(c) == c = [i \in 1 .. n + 1 |-> IF i = 1 THEN 0 ELSE c[i - 1] + w[i - 1]]
           K == CHOOSE c : Rule(c)
<1>0. \A i \in 1 .. n : w[i] \in Nat
  OBVIOUS
<1>1. Cumulated(w) = K
  BY DEF Cumulated
<1>2. \E c : Rule(c)
  <2>1. PICK step : step = [p \in (1 .. n) \X Nat |-> p[2] + w[p[1]]]
    OBVIOUS
  <2>2. PICK f : IsSolution(f, n, 0, step)
    BY RecursionHolds
  <2>3. \A i \in 0 .. n : f[i] = IF i = 0 THEN 0 ELSE step[<<i, f[i - 1]>>]
    BY <2>2 DEF IsSolution
  <2>10. 0 \in 0 .. n /\ f[0] = 0
    <3>1. 0 \in 0 .. n
      OBVIOUS
    <3>2. f[0] = IF 0 = 0 THEN 0 ELSE step[<<0, f[0 - 1]>>]
      BY <2>3, <3>1
    <3> QED
      BY <3>1, <3>2
  <2>4. \A i \in 1 .. n : f[i - 1] \in Nat => f[i] \in Nat /\ f[i] = f[i - 1] + w[i]
    <3> SUFFICES ASSUME NEW i \in 1 .. n, f[i - 1] \in Nat
                 PROVE  f[i] \in Nat /\ f[i] = f[i - 1] + w[i]
      OBVIOUS
    <3>1. f[i] = step[<<i, f[i - 1]>>]
      BY <2>3
    <3>2. <<i, f[i - 1]>> \in (1 .. n) \X Nat
      OBVIOUS
    <3> QED
      BY <1>0, <2>1, <3>1, <3>2
  <2>5. \A i \in 0 .. n : f[i] \in Nat
    <3> DEFINE T == {i \in 0 .. n : f[i] \in Nat}
    <3>1. 0 \in T
      BY <2>10
    <3>2. \A i \in 1 .. n : i - 1 \in T => i \in T
      BY <2>4
    <3> HIDE DEF T
    <3>3. \A i \in 0 .. n : i \in T
      BY <3>1, <3>2, Upwards
    <3> QED
      BY <3>3 DEF T
  <2>6. PICK c : c = [i \in 1 .. n + 1 |-> f[i - 1]]
    OBVIOUS
  <2>7. ASSUME NEW i \in 1 .. n + 1 PROVE c[i] = IF i = 1 THEN 0 ELSE c[i - 1] + w[i - 1]
    <3>1. CASE i = 1
      <4>1. i - 1 = 0 /\ c[i] = f[i - 1]
        BY <2>6, <3>1
      <4> QED
        BY <2>10, <3>1, <4>1
    <3>2. CASE i # 1
      <4>1. i - 1 \in 1 .. n /\ i - 1 \in 1 .. n + 1 /\ (i - 1) - 1 \in 0 .. n
        BY <3>2
      <4>2. c[i] = f[i - 1] /\ c[i - 1] = f[(i - 1) - 1]
        BY <2>6, <4>1
      <4> QED
        BY <2>4, <2>5, <3>2, <4>1, <4>2
    <3> QED
      BY <3>1, <3>2
  <2>8. c = [i \in 1 .. n + 1 |-> c[i]]
    BY <2>6
  <2>9. Rule(c)
    BY <2>7, <2>8
  <2> QED
    BY <2>9
<1>3. Rule(K)
  <2> HIDE DEF Rule
  <2> QED
    BY <1>2
<1> HIDE DEF K
<1>4. /\ K = [i \in 1 .. n + 1 |-> K[i]]
      /\ \A i \in 1 .. n + 1 : K[i] = IF i = 1 THEN 0 ELSE K[i - 1] + w[i - 1]
  BY <1>3
<1>5. \A i \in 0 .. n : K[i + 1] \in Nat
  <2> DEFINE T == {i \in 0 .. n : K[i + 1] \in Nat}
  <2>0. 0 \in 0 .. n /\ 1 \in 1 .. n + 1 /\ 0 + 1 = 1
    OBVIOUS
  <2>1. 0 \in T
    <3>1. K[1] = 0
      BY <1>4, <2>0
    <3> QED
      BY <2>0, <3>1
  <2>2. ASSUME NEW i \in 1 .. n, i - 1 \in T PROVE i \in T
    <3>1. i + 1 \in 1 .. n + 1 /\ i + 1 # 1 /\ (i + 1) - 1 = i /\ (i - 1) + 1 = i
      OBVIOUS
    <3>2. K[i + 1] = K[i] + w[i] /\ K[i] \in Nat
      BY <1>4, <2>2, <3>1
    <3> QED
      BY <1>0, <3>2
  <2> HIDE DEF T
  <2>3. \A i \in 0 .. n : i \in T
    BY <2>1, <2>2, Upwards
  <2> QED
    BY <2>3 DEF T
<1>6. \A i \in 1 .. n + 1 : K[i] \in Nat
  <2> SUFFICES ASSUME NEW i \in 1 .. n + 1 PROVE K[i] \in Nat
    OBVIOUS
  <2>1. i - 1 \in 0 .. n /\ (i - 1) + 1 = i
    OBVIOUS
  <2> QED
    BY <1>5, <2>1
<1>7. Offsets(K, w, n)
  <2>1. K[1] = 0
    <3>1. 1 \in 1 .. n + 1
      OBVIOUS
    <3> QED
      BY <1>4, <3>1
  <2>2. ASSUME NEW b \in 1 .. n
        PROVE  K[b] \in Nat /\ K[b + 1] \in Nat /\ K[b + 1] = K[b] + w[b]
    <3>1. b + 1 \in 1 .. n + 1 /\ b \in 1 .. n + 1 /\ b + 1 # 1 /\ (b + 1) - 1 = b
      OBVIOUS
    <3> QED
      BY <1>4, <1>6, <3>1
  <2> QED
    BY <2>1, <2>2 DEF Offsets
<1>8. K \in Seq(Nat) /\ Len(K) = n + 1
  <2>1. K \in [1 .. n + 1 -> Nat] /\ n + 1 \in Nat
    BY <1>4, <1>6
  <2> QED
    BY <2>1
<1> QED
  BY <1>1, <1>7, <1>8

\* Later sequences begin where earlier ones have ended.
LEMMA OffsetsGrow ==
    ASSUME NEW n \in Nat, NEW c, NEW w, Offsets(c, w, n), \A b \in 1 .. n : w[b] \in Nat,
           NEW b \in 1 .. n, NEW d \in 1 .. n + 1, b < d
    PROVE  c[b + 1] <= c[d] /\ c[d] \in Nat /\ c[b + 1] \in Nat
<1> DEFINE T == {i \in 0 .. n : b <= i => c[b + 1] <= c[i + 1]}
<1>1. 0 \in T
  OBVIOUS
<1>2. ASSUME NEW i \in 1 .. n, i - 1 \in T PROVE i \in T
  <2>1. c[i] \in Nat /\ c[i + 1] \in Nat /\ c[i + 1] = c[i] + w[i] /\ w[i] \in Nat
    BY DEF Offsets
  <2>2. CASE b = i
    BY <2>1, <2>2
  <2>3. CASE b < i
    <3>1. (i - 1) + 1 = i /\ b <= i - 1
      BY <2>3
    <3>2. c[b + 1] <= c[i]
      BY <1>2, <3>1
    <3>3. c[b + 1] \in Nat
      BY DEF Offsets
    <3> QED
      BY <2>1, <3>2, <3>3
  <2>4. CASE i < b
    BY <2>4
  <2> QED
    BY <2>2, <2>3, <2>4
<1> HIDE DEF T
<1>3. \A i \in 0 .. n : i \in T
  BY <1>1, <1>2, Upwards
<1>4. d - 1 \in 0 .. n /\ b <= d - 1 /\ (d - 1) + 1 = d /\ d - 1 \in 1 .. n
  OBVIOUS
<1>5. c[b + 1] <= c[d]
  BY <1>3, <1>4 DEF T
<1>6. c[b + 1] \in Nat /\ c[d] \in Nat
  BY <1>4 DEF Offsets
<1> QED
  BY <1>5, <1>6

\* A number is in one of the sequences laid end to end.
LEMMA RowExists ==
    ASSUME NEW n \in Nat, NEW c, NEW w, Offsets(c, w, n), \A b \in 1 .. n : w[b] \in Nat,
           NEW t \in Nat, 1 <= t, t <= c[n + 1]
    PROVE  \E b \in 1 .. n : c[b] < t /\ t <= c[b + 1] /\ t - c[b] \in 1 .. w[b]
<1> DEFINE T == {i \in 0 .. n : t <= c[i + 1] =>
                    \E b \in 1 .. i : c[b] < t /\ t <= c[b + 1] /\ t - c[b] \in 1 .. w[b]}
<1>1. 0 \in T
  <2>1. ~(t <= c[0 + 1])
    BY DEF Offsets
  <2> QED
    BY <2>1
<1>2. ASSUME NEW i \in 1 .. n, i - 1 \in T PROVE i \in T
  <2>1. c[i] \in Nat /\ c[i + 1] \in Nat /\ c[i + 1] = c[i] + w[i] /\ w[i] \in Nat
    BY DEF Offsets
  <2>2. CASE t <= c[i]
    <3>1. (i - 1) + 1 = i
      OBVIOUS
    <3>2. PICK b \in 1 .. i - 1 : c[b] < t /\ t <= c[b + 1] /\ t - c[b] \in 1 .. w[b]
      BY <1>2, <2>2, <3>1
    <3>3. b \in 1 .. i
      OBVIOUS
    <3> QED
      BY <3>2, <3>3
  <2>3. CASE ~(t <= c[i])
    <3>1. t <= c[i + 1] => c[i] < t /\ t - c[i] \in 1 .. w[i] /\ i \in 1 .. i
      BY <2>1, <2>3
    <3> QED
      BY <3>1
  <2> QED
    BY <2>2, <2>3
<1> HIDE DEF T
<1>3. \A i \in 0 .. n : i \in T
  BY <1>1, <1>2, Upwards
<1>4. n \in 0 .. n
  OBVIOUS
<1> QED
  BY <1>3, <1>4 DEF T

\* The i-th place of the b-th sequence.
LEMMA RowOfPlace ==
    ASSUME NEW n \in Nat, NEW c \in Seq(Nat), Len(c) = n + 1, NEW w, Offsets(c, w, n),
           \A b \in 1 .. n : w[b] \in Nat, NEW b \in 1 .. n, NEW i \in 1 .. w[b]
    PROVE  /\ c[b] + i \in 1 .. c[n + 1]
           /\ RowAt(c, c[b] + i) = b
           /\ \A d \in 1 .. n : c[d] < c[b] + i /\ c[b] + i <= c[d + 1] => d = b
<1>1. w[b] \in Nat /\ i \in Nat /\ 1 <= i /\ i <= w[b]
  OBVIOUS
<1>2. c[b] \in Nat /\ c[b + 1] \in Nat /\ c[b + 1] = c[b] + w[b]
  BY DEF Offsets
<1>3. c[b] < c[b] + i /\ c[b] + i <= c[b + 1]
  BY <1>1, <1>2
<1>4. n + 1 \in 1 .. n + 1 /\ b < n + 1
  OBVIOUS
<1>5. c[b + 1] <= c[n + 1] /\ c[n + 1] \in Nat
  BY <1>4, OffsetsGrow
<1>6. ASSUME NEW d \in 1 .. n, c[d] < c[b] + i, c[b] + i <= c[d + 1] PROVE d = b
  <2>0. c[d] \in Nat /\ c[d + 1] \in Nat /\ d \in 1 .. n + 1 /\ b \in 1 .. n + 1
    BY DEF Offsets
  <2>1. CASE d < b
    <3>1. c[d + 1] <= c[b]
      BY <2>0, <2>1, OffsetsGrow
    <3> QED
      BY <1>1, <1>2, <1>6, <2>0, <3>1
  <2>2. CASE b < d
    <3>1. c[b + 1] <= c[d]
      BY <2>0, <2>2, OffsetsGrow
    <3> QED
      BY <1>1, <1>2, <1>3, <1>6, <2>0, <3>1
  <2> QED
    BY <2>1, <2>2
<1>7. RowAt(c, c[b] + i) = b
  <2>1. 1 .. Len(c) - 1 = 1 .. n
    OBVIOUS
  <2> QED
    BY <1>3, <1>6, <2>1 DEF RowAt
<1>8. c[b] + i \in 1 .. c[n + 1]
  BY <1>1, <1>2, <1>3, <1>5
<1> QED
  BY <1>6, <1>7, <1>8

\* Two sequences laid end to end.
LEMMA Joined ==
    ASSUME NEW S, NEW f \in Seq(S), NEW g \in Seq(S)
    PROVE  /\ f \o g \in Seq(S) /\ Len(f \o g) = Len(f) + Len(g)
           /\ \A i \in 1 .. Len(f) : (f \o g)[i] = f[i]
           /\ \A i \in 1 .. Len(g) : (f \o g)[Len(f) + i] = g[i]
<1>1. f \o g \in Seq(S) /\ Len(f \o g) = Len(f) + Len(g)
  BY ConcatProperties
<1>2. ASSUME NEW i \in 1 .. Len(f) PROVE (f \o g)[i] = f[i]
  OBVIOUS
<1>3. ASSUME NEW i \in 1 .. Len(g) PROVE (f \o g)[Len(f) + i] = g[i]
  <2>1. Len(f) + i \in 1 .. Len(f) + Len(g) /\ ~(Len(f) + i <= Len(f)) /\ (Len(f) + i) - Len(f) = i
    OBVIOUS
  <2> QED
    BY <2>1
<1> QED
  BY <1>1, <1>2, <1>3

\* f is the first m sequences of s, laid where c says.
Laid(f, s, m, c, w, S) ==
    /\ f \in Seq(S) /\ Len(f) = c[m + 1]
    /\ \A b \in 1 .. m : \A i \in 1 .. w[b] : f[c[b] + i] = s[b][i]

\* The next sequence is laid behind them.
LEMMA LaidNext ==
    ASSUME NEW S, NEW n \in Nat, NEW s \in Seq(Seq(S)), Len(s) = n,
           NEW c, NEW w, Offsets(c, w, n), \A b \in 1 .. n : w[b] = Len(s[b]),
           NEW m \in 1 .. n, NEW f, Laid(f, s, m - 1, c, w, S)
    PROVE  Laid(f \o s[m], s, m, c, w, S)
<1>1. s[m] \in Seq(S) /\ f \in Seq(S) /\ (m - 1) + 1 = m /\ Len(f) = c[m]
  BY DEF Laid
<1>2. \A b \in 1 .. n : w[b] \in Nat
  <2> SUFFICES ASSUME NEW b \in 1 .. n PROVE w[b] \in Nat
    OBVIOUS
  <2>1. s[b] \in Seq(S) /\ w[b] = Len(s[b])
    OBVIOUS
  <2> QED
    BY <2>1
<1>3. c[m] \in Nat /\ c[m + 1] = c[m] + w[m] /\ w[m] = Len(s[m])
  BY DEF Offsets
<1>4. PICK g : g = s[m]
  OBVIOUS
<1>5. /\ f \o g \in Seq(S) /\ Len(f \o g) = Len(f) + Len(g)
      /\ \A i \in 1 .. Len(f) : (f \o g)[i] = f[i]
      /\ \A i \in 1 .. Len(g) : (f \o g)[Len(f) + i] = g[i]
  <2>1. g \in Seq(S) /\ f \in Seq(S)
    BY <1>1, <1>4
  <2> QED
    BY <2>1, Joined
<1>6. ASSUME NEW b \in 1 .. m, NEW i \in 1 .. w[b] PROVE (f \o g)[c[b] + i] = s[b][i]
  <2>0. b \in 1 .. n
    OBVIOUS
  <2>1. CASE b = m
    BY <1>1, <1>3, <1>4, <1>5, <2>1
  <2>2. CASE b # m
    <3>1. b < m /\ m \in 1 .. n + 1 /\ b \in 1 .. m - 1
      BY <2>2
    <3>2. c[b + 1] <= c[m]
      BY <1>2, <2>0, <3>1, OffsetsGrow
    <3>3. c[b] \in Nat /\ c[b + 1] \in Nat /\ c[b + 1] = c[b] + w[b] /\ w[b] \in Nat
      BY <1>2, <2>0 DEF Offsets
    <3>4. c[b] + i \in 1 .. Len(f)
      <4>1. i \in Nat /\ 1 <= i /\ i <= w[b]
        BY <3>3
      <4>2. c[b] + i \in Nat /\ c[b] + i <= c[b + 1] /\ 1 <= c[b] + i
        BY <3>3, <4>1
      <4>3. c[b] + i <= c[m]
        BY <1>3, <3>2, <3>3, <4>2
      <4>4. Len(f) = c[m] /\ c[m] \in Nat
        BY <1>1, <1>3
      <4> QED
        BY <4>2, <4>3, <4>4
    <3>5. f[c[b] + i] = s[b][i]
      BY <3>1 DEF Laid
    <3> QED
      BY <1>5, <3>4, <3>5
  <2> QED
    BY <2>1, <2>2
<1> QED
  BY <1>1, <1>3, <1>4, <1>5, <1>6 DEF Laid

\* Flattened lays all of them.
LEMMA FlattenedLaid ==
    ASSUME NEW S, NEW n \in Nat, NEW s \in Seq(Seq(S)), Len(s) = n,
           NEW c, NEW w, Offsets(c, w, n), \A b \in 1 .. n : w[b] = Len(s[b])
    PROVE  Laid(Flattened(s), s, n, c, w, S)
<1> DEFINE Rule(f) == f = [i \in 0 .. n |-> IF i = 0 THEN <<>> ELSE f[i - 1] \o s[i]]
           K == CHOOSE f : Rule(f)
<1>1. Flattened(s) = K[n]
  BY DEF Flattened
<1>2. \A i \in 1 .. n : s[i] \in Seq(S)
  OBVIOUS
<1>3. \E f : Rule(f)
  <2>1. PICK step : step = [p \in (1 .. n) \X Seq(S) |-> p[2] \o s[p[1]]]
    OBVIOUS
  <2>2. PICK f : IsSolution(f, n, <<>>, step)
    BY RecursionHolds
  <2>3. /\ f = [i \in 0 .. n |-> f[i]]
        /\ \A i \in 0 .. n : f[i] = IF i = 0 THEN <<>> ELSE step[<<i, f[i - 1]>>]
    BY <2>2 DEF IsSolution
  <2>4. 0 \in 0 .. n /\ f[0] = <<>>
    <3>1. 0 \in 0 .. n
      OBVIOUS
    <3>2. f[0] = IF 0 = 0 THEN <<>> ELSE step[<<0, f[0 - 1]>>]
      BY <2>3, <3>1
    <3> QED
      BY <3>1, <3>2
  <2>5. ASSUME NEW i \in 1 .. n, f[i - 1] \in Seq(S)
        PROVE  f[i] \in Seq(S) /\ f[i] = f[i - 1] \o s[i]
    <3>1. f[i] = step[<<i, f[i - 1]>>]
      <4>1. i \in 0 .. n /\ i # 0
        OBVIOUS
      <4>2. f[i] = IF i = 0 THEN <<>> ELSE step[<<i, f[i - 1]>>]
        BY <2>3, <4>1
      <4> QED
        BY <4>1, <4>2
    <3>2. <<i, f[i - 1]>> \in (1 .. n) \X Seq(S)
      BY <2>5
    <3>3. f[i] = f[i - 1] \o s[i]
      BY <2>1, <3>1, <3>2
    <3>4. f[i - 1] \o s[i] \in Seq(S)
      BY <1>2, <2>5, ConcatProperties
    <3> QED
      BY <3>3, <3>4
  <2>6. \A i \in 0 .. n : f[i] \in Seq(S)
    <3> DEFINE T == {i \in 0 .. n : f[i] \in Seq(S)}
    <3>0. f[0] \in Seq(S)
      <4>1. <<>> \in Seq(S)
        OBVIOUS
      <4> QED
        BY <2>4, <4>1
    <3>1. 0 \in T
      BY <2>4, <3>0
    <3>2. \A i \in 1 .. n : i - 1 \in T => i \in T
      BY <2>5
    <3> HIDE DEF T
    <3>3. \A i \in 0 .. n : i \in T
      BY <3>1, <3>2, Upwards
    <3> QED
      BY <3>3 DEF T
  <2>7. ASSUME NEW i \in 0 .. n PROVE f[i] = IF i = 0 THEN <<>> ELSE f[i - 1] \o s[i]
    <3>1. CASE i = 0
      BY <2>4, <3>1
    <3>2. CASE i # 0
      <4>1. i \in 1 .. n /\ i - 1 \in 0 .. n
        BY <3>2
      <4> QED
        BY <2>5, <2>6, <3>2, <4>1
    <3> QED
      BY <3>1, <3>2
  <2>8. Rule(f)
    BY <2>3, <2>7
  <2> QED
    BY <2>8
<1>4. Rule(K)
  <2> HIDE DEF Rule
  <2> QED
    BY <1>3
<1> HIDE DEF K
<1>5. \A i \in 0 .. n : K[i] = IF i = 0 THEN <<>> ELSE K[i - 1] \o s[i]
  BY <1>4
<1> HIDE DEF Rule
<1>6. \A i \in 0 .. n : Laid(K[i], s, i, c, w, S)
  <2> DEFINE T == {i \in 0 .. n : Laid(K[i], s, i, c, w, S)}
  <2>1. 0 \in T
    <3>1. 0 \in 0 .. n /\ <<>> \in Seq(S) /\ Len(<<>>) = 0 /\ c[0 + 1] = 0
      BY DEF Offsets
    <3>2. K[0] = IF 0 = 0 THEN <<>> ELSE K[0 - 1] \o s[0]
      BY <1>5, <3>1
    <3>3. K[0] = <<>>
      BY <3>2
    <3>4. Laid(<<>>, s, 0, c, w, S)
      BY <3>1 DEF Laid
    <3> QED
      BY <3>1, <3>3, <3>4
  <2>2. ASSUME NEW i \in 1 .. n, i - 1 \in T PROVE i \in T
    <3>1. Laid(K[i - 1], s, i - 1, c, w, S)
      BY <2>2
    <3>2. K[i] = K[i - 1] \o s[i] /\ i \in 0 .. n
      <4>1. i \in 0 .. n /\ i # 0
        OBVIOUS
      <4>2. K[i] = IF i = 0 THEN <<>> ELSE K[i - 1] \o s[i]
        BY <1>5, <4>1
      <4> QED
        BY <4>1, <4>2
    <3>3. Laid(K[i - 1] \o s[i], s, i, c, w, S)
      BY <3>1, LaidNext
    <3> QED
      BY <3>2, <3>3
  <2> HIDE DEF T
  <2>3. \A i \in 0 .. n : i \in T
    BY <2>1, <2>2, Upwards
  <2> QED
    BY <2>3 DEF T
<1>7. n \in 0 .. n
  OBVIOUS
<1> QED
  BY <1>1, <1>6, <1>7

-------------------------------------------------------------------------------
(* A batch and its tokens. *)

\* What every forward is given: different requests, each with pages for the
\* tokens it is taken to.
Batch(q, end) ==
    /\ q \in Seq(Request) /\ q # <<>> /\ \A b, d \in 1 .. Len(q) : q[b] = q[d] => b = d
    /\ end \in Seq(Nat) /\ Len(end) = Len(q)
    /\ \A b \in 1 .. Len(q) : end[b] \in len[q[b]] + 1 .. MaxLen /\ HasPages(q[b], end[b])

Starts(q, end) == Cumulated(QLens(q, end))

\* Its rows one by one.
LEMMA BatchRows ==
    ASSUME TypeInv, NEW q, NEW end, Batch(q, end), NEW b \in 1 .. Len(q)
    PROVE  /\ q[b] \in Request /\ len[q[b]] \in Nat /\ end[b] \in Nat /\ end[b] <= MaxLen
           /\ len[q[b]] < end[b] /\ QLens(q, end)[b] = end[b] - len[q[b]]
           /\ QLens(q, end)[b] \in Nat /\ QLens(q, end)[b] >= 1
           /\ table[q[b]] \in Seq(Page) /\ PagesNeeded(end[b]) <= Len(table[q[b]])
<1>1. q[b] \in Request /\ end[b] \in Nat
  BY DEF Batch
<1>2. len[q[b]] \in Nat /\ table[q[b]] \in Seq(Page)
  BY <1>1, LenAssumption DEF TypeInv
<1>3. end[b] <= MaxLen /\ len[q[b]] + 1 <= end[b] /\ PagesNeeded(end[b]) <= Len(table[q[b]])
  BY LenAssumption DEF Batch, HasPages
<1>4. QLens(q, end)[b] = end[b] - len[q[b]]
  BY DEF QLens
<1> QED
  BY <1>1, <1>2, <1>3, <1>4

\* Where the rows begin among the packed tokens.
LEMMA BatchOffsets ==
    ASSUME TypeInv, NEW q, NEW end, Batch(q, end)
    PROVE  /\ Len(q) \in Nat \ {0}
           /\ QLens(q, end) \in Seq(Nat) /\ Len(QLens(q, end)) = Len(q)
           /\ Offsets(Starts(q, end), QLens(q, end), Len(q))
           /\ Starts(q, end) \in Seq(Nat) /\ Len(Starts(q, end)) = Len(q) + 1
<1>1. Len(q) \in Nat \ {0}
  BY DEF Batch
<1>2. QLens(q, end) \in [1 .. Len(q) -> Nat]
  <2>1. \A b \in 1 .. Len(q) : QLens(q, end)[b] \in Nat
    BY BatchRows
  <2> QED
    BY <2>1 DEF QLens
<1>3. QLens(q, end) \in Seq(Nat) /\ Len(QLens(q, end)) = Len(q)
  BY <1>1, <1>2
<1> QED
  BY <1>1, <1>3, CumulatedOffsets DEF Starts

\* A row begins where the one before it ends.
LEMMA NextStart ==
    ASSUME TypeInv, NEW q, NEW end, Batch(q, end), NEW b \in 1 .. Len(q)
    PROVE  /\ Starts(q, end)[b] \in Nat
           /\ Starts(q, end)[b + 1] = Starts(q, end)[b] + QLens(q, end)[b]
<1> DEFINE c == Starts(q, end)
           w == QLens(q, end)
           n == Len(q)
<1>1. Offsets(c, w, n) /\ b \in 1 .. n
  BY BatchOffsets
<1> HIDE DEF c, w, n
<1>2. c[b] \in Nat /\ c[b + 1] = c[b] + w[b]
  BY <1>1 DEF Offsets
<1> QED
  BY <1>2 DEF c, w

\* Place i of row b among the packed tokens.
LEMMA BatchPlace ==
    ASSUME TypeInv, NEW q, NEW end, Batch(q, end), NEW b \in 1 .. Len(q),
           NEW i \in 1 .. QLens(q, end)[b]
    PROVE  /\ Starts(q, end)[b] + i \in 1 .. Starts(q, end)[Len(q) + 1]
           /\ RowAt(Starts(q, end), Starts(q, end)[b] + i) = b
           /\ \A d \in 1 .. Len(q) : \A j \in 1 .. QLens(q, end)[d] :
                Starts(q, end)[d] + j = Starts(q, end)[b] + i => d = b /\ j = i
<1> DEFINE c == Starts(q, end)
           w == QLens(q, end)
           n == Len(q)
<1>1. n \in Nat /\ c \in Seq(Nat) /\ Len(c) = n + 1 /\ Offsets(c, w, n)
  BY BatchOffsets
<1>2. \A d \in 1 .. n : w[d] \in Nat
  BY BatchRows
<1> HIDE DEF c, w, n
<1>3. b \in 1 .. n /\ i \in 1 .. w[b]
  BY DEF n, w
<1>4. /\ c[b] + i \in 1 .. c[n + 1]
      /\ RowAt(c, c[b] + i) = b
      /\ \A d \in 1 .. n : c[d] < c[b] + i /\ c[b] + i <= c[d + 1] => d = b
  BY <1>1, <1>2, <1>3, RowOfPlace
<1>5. ASSUME NEW d \in 1 .. n, NEW j \in 1 .. w[d], c[d] + j = c[b] + i PROVE d = b /\ j = i
  <2>1. /\ c[d] \in Nat /\ c[d + 1] = c[d] + w[d] /\ w[d] \in Nat
        /\ c[b] \in Nat /\ w[b] \in Nat
    BY <1>1, <1>2, <1>3 DEF Offsets
  <2>2. j \in Nat /\ 1 <= j /\ j <= w[d] /\ i \in Nat
    BY <1>3, <2>1
  <2>3. c[d] < c[d] + j /\ c[d] + j <= c[d + 1]
    BY <2>1, <2>2
  <2>4. d = b
    BY <1>4, <1>5, <2>3
  <2> QED
    BY <1>5, <2>1, <2>2, <2>4
<1> QED
  BY <1>4, <1>5 DEF c, w, n

\* Every token is in a place of some row.
LEMMA BatchToken ==
    ASSUME TypeInv, NEW q, NEW end, Batch(q, end), NEW t \in 1 .. Starts(q, end)[Len(q) + 1]
    PROVE  \E b \in 1 .. Len(q) : \E i \in 1 .. QLens(q, end)[b] : t = Starts(q, end)[b] + i
<1> DEFINE c == Starts(q, end)
           w == QLens(q, end)
           n == Len(q)
<1>1. n \in Nat \ {0} /\ Offsets(c, w, n)
  BY BatchOffsets
<1>2. \A d \in 1 .. n : w[d] \in Nat
  BY BatchRows
<1>3. c[n + 1] \in Nat
  <2>1. n \in 1 .. n
    BY <1>1
  <2> QED
    BY <1>1, <2>1 DEF Offsets
<1>4. t \in Nat /\ 1 <= t /\ t <= c[n + 1]
  BY <1>3
<1> HIDE DEF c, w, n
<1>5. PICK b \in 1 .. n : c[b] < t /\ t <= c[b + 1] /\ t - c[b] \in 1 .. w[b]
  BY <1>1, <1>2, <1>4, RowExists
<1>6. c[b] \in Nat
  BY <1>1 DEF Offsets
<1>7. t = c[b] + (t - c[b])
  BY <1>4, <1>6
<1> QED
  BY <1>5, <1>7 DEF c, w, n

\* What is packed row by row stands where the rows begin.
LEMMA PackedRows ==
    ASSUME TypeInv, NEW q, NEW end, Batch(q, end), NEW S,
           NEW s, s \in [1 .. Len(q) -> Seq(S)],
           \A b \in 1 .. Len(q) : Len(s[b]) = QLens(q, end)[b]
    PROVE  /\ Flattened(s) \in Seq(S) /\ Len(Flattened(s)) = Starts(q, end)[Len(q) + 1]
           /\ \A b \in 1 .. Len(q) : \A i \in 1 .. QLens(q, end)[b] :
                Flattened(s)[Starts(q, end)[b] + i] = s[b][i]
<1> DEFINE c == Starts(q, end)
           w == QLens(q, end)
           n == Len(q)
<1>1. n \in Nat /\ Offsets(c, w, n)
  BY BatchOffsets
<1>2. s \in Seq(Seq(S)) /\ Len(s) = n
  BY <1>1
<1>3. \A b \in 1 .. n : w[b] = Len(s[b])
  OBVIOUS
<1> HIDE DEF c, w, n
<1>4. Laid(Flattened(s), s, n, c, w, S)
  BY <1>1, <1>2, <1>3, FlattenedLaid
<1> QED
  BY <1>4 DEF Laid, c, w, n

\* The packed tokens are those of the rows, in their order.
LEMMA PackedTokens ==
    ASSUME TypeInv, NEW q, NEW end, Batch(q, end)
    PROVE  /\ Packed(q, end) \in Seq(Request \X Nat)
           /\ Len(Packed(q, end)) = Starts(q, end)[Len(q) + 1]
           /\ \A b \in 1 .. Len(q) : \A i \in 1 .. QLens(q, end)[b] :
                Packed(q, end)[Starts(q, end)[b] + i] = <<q[b], len[q[b]] + i - 1>>
<1> DEFINE w == QLens(q, end)
           s == [b \in 1 .. Len(q) |-> [i \in 1 .. w[b] |-> <<q[b], len[q[b]] + i - 1>>]]
<1>1. ASSUME NEW b \in 1 .. Len(q)
      PROVE  /\ s[b] \in Seq(Request \X Nat) /\ Len(s[b]) = w[b]
             /\ \A i \in 1 .. w[b] : s[b][i] = <<q[b], len[q[b]] + i - 1>>
  <2>1. w[b] \in Nat /\ q[b] \in Request /\ len[q[b]] \in Nat
    BY BatchRows
  <2>2. s[b] = [i \in 1 .. w[b] |-> <<q[b], len[q[b]] + i - 1>>]
    OBVIOUS
  <2> HIDE DEF s, w
  <2>3. \A i \in 1 .. w[b] : len[q[b]] + i - 1 \in Nat
    BY <2>1
  <2>4. s[b] \in [1 .. w[b] -> Request \X Nat]
    BY <2>1, <2>2, <2>3
  <2> QED
    BY <2>1, <2>2, <2>4
<1>2. Packed(q, end) = Flattened(s)
  BY DEF Packed
<1>3. s = [b \in 1 .. Len(q) |-> s[b]]
  OBVIOUS
<1> HIDE DEF s, w
<1>4. s \in [1 .. Len(q) -> Seq(Request \X Nat)]
  BY <1>1, <1>3
<1>5. /\ Flattened(s) \in Seq(Request \X Nat) /\ Len(Flattened(s)) = Starts(q, end)[Len(q) + 1]
      /\ \A b \in 1 .. Len(q) : \A i \in 1 .. QLens(q, end)[b] :
            Flattened(s)[Starts(q, end)[b] + i] = s[b][i]
  <2>1. \A b \in 1 .. Len(q) : Len(s[b]) = QLens(q, end)[b]
    BY <1>1 DEF w
  <2>2. PICK S : S = Request \X Nat
    OBVIOUS
  <2>3. s \in [1 .. Len(q) -> Seq(S)]
    BY <1>4, <2>2
  <2>4. /\ Flattened(s) \in Seq(S) /\ Len(Flattened(s)) = Starts(q, end)[Len(q) + 1]
        /\ \A b \in 1 .. Len(q) : \A i \in 1 .. QLens(q, end)[b] :
              Flattened(s)[Starts(q, end)[b] + i] = s[b][i]
    BY <2>1, <2>3, PackedRows
  <2> QED
    BY <2>2, <2>4
<1> QED
  BY <1>1, <1>2, <1>5 DEF w

\* One of them.
LEMMA TokenAt ==
    ASSUME TypeInv, NEW q, NEW end, Batch(q, end), NEW b \in 1 .. Len(q),
           NEW i \in 1 .. QLens(q, end)[b]
    PROVE  Packed(q, end)[Starts(q, end)[b] + i] = <<q[b], len[q[b]] + i - 1>>
<1>1. \A d \in 1 .. Len(q) : \A j \in 1 .. QLens(q, end)[d] :
         Packed(q, end)[Starts(q, end)[d] + j] = <<q[d], len[q[d]] + j - 1>>
  BY PackedTokens
<1> QED
  BY <1>1, Zenon

-------------------------------------------------------------------------------
(* Pages of a prefix. *)

\* The last of n tokens is in the last of their pages.
LEMMA LastPage ==
    ASSUME NEW n \in Nat, n >= 1
    PROVE  /\ PagesNeeded(n) \in Nat /\ PagesNeeded(n) = (n - 1) \div PageSize + 1
           /\ (PagesNeeded(n) - 1) * PageSize + LastPageLen(n) = n
<1> DEFINE p == (n - 1) \div PageSize
           a == (n - 1) % PageSize
<1>1. p \in Nat /\ a \in 0 .. PageSize - 1 /\ n - 1 = p * PageSize + a
  BY Divided
<1>2. PageSize \in Nat \ {0}
  BY PoolAssumption
<1> HIDE DEF p, a
<1>3. (p + 1) * PageSize = p * PageSize + PageSize /\ p * PageSize \in Nat
  BY <1>1, <1>2
<1>4. n + PageSize - 1 = (p + 1) * PageSize + a
  BY <1>1, <1>2, <1>3
<1>5. p + 1 \in Nat
  BY <1>1
<1>6. ((p + 1) * PageSize + a) \div PageSize = p + 1
  BY <1>1, <1>5, Quotients
<1>7. PagesNeeded(n) = p + 1
  BY <1>4, <1>6 DEF PagesNeeded
<1>8. LastPageLen(n) = a + 1
  BY DEF LastPageLen, a
<1>9. (PagesNeeded(n) - 1) * PageSize + LastPageLen(n) = p * PageSize + (a + 1)
  <2>1. PagesNeeded(n) - 1 = p
    BY <1>1, <1>7
  <2> QED
    BY <1>8, <2>1
<1>10. p * PageSize + (a + 1) = n
  BY <1>1, <1>2, <1>3
<1> QED
  BY <1>1, <1>5, <1>7, <1>9, <1>10 DEF p

\* Earlier tokens are in earlier pages.
LEMMA EarlierPage ==
    ASSUME NEW n \in Nat, NEW k \in Nat, k < n
    PROVE  k \div PageSize \in Nat /\ k \div PageSize + 1 <= PagesNeeded(n)
<1>1. n - 1 \in Nat /\ n >= 1 /\ k <= n - 1
  OBVIOUS
<1> DEFINE p == (n - 1) \div PageSize
           a == (n - 1) % PageSize
           m == k \div PageSize
           b == k % PageSize
<1>2. /\ p \in Nat /\ a \in 0 .. PageSize - 1 /\ n - 1 = p * PageSize + a
      /\ m \in Nat /\ b \in 0 .. PageSize - 1 /\ k = m * PageSize + b
  BY <1>1, Divided
<1>3. PagesNeeded(n) = p + 1
  BY <1>1, LastPage
<1> HIDE DEF p, a, m, b
<1>4. m <= p
  <2> SUFFICES ASSUME p < m PROVE FALSE
    BY <1>2
  <2>1. p * PageSize + PageSize <= m * PageSize
    BY <1>2, Products
  <2>2. PageSize \in Nat \ {0} /\ p * PageSize \in Nat /\ m * PageSize \in Nat
    BY <1>2, PoolAssumption
  <2> QED
    BY <1>1, <1>2, <2>1, <2>2
<1>5. m + 1 <= p + 1
  BY <1>2, <1>4
<1> QED
  BY <1>2, <1>3, <1>5 DEF m

\* p begins with the pages of r's first n tokens.
Begins(p, r, n) == \A j \in 1 .. PagesNeeded(n) : p[j] = table[r][j]

\* Through such pages, r's first n tokens are found in their slots.
LEMMA BeginsFinds ==
    ASSUME NEW n \in Nat, NEW k \in 0 .. n - 1, NEW p, NEW r, Begins(p, r, n)
    PROVE  SlotOf(p, k) = SlotOf(table[r], k)
<1>1. k \in Nat /\ k < n
  OBVIOUS
<1>2. k \div PageSize \in Nat /\ k \div PageSize + 1 <= PagesNeeded(n)
  BY <1>1, EarlierPage
<1>3. PagesNeeded(n) \in Nat
  BY <1>1, LastPage
<1>4. k \div PageSize + 1 \in 1 .. PagesNeeded(n)
  BY <1>2, <1>3
<1> QED
  BY <1>4 DEF Begins, SlotOf

\* Nothing else is read of a batch's row.
LEMMA BeginsRow ==
    ASSUME TypeInv, NEW q, NEW end, Batch(q, end), NEW b \in 1 .. Len(q)
    PROVE  /\ PageTables(q, end)[b] \in Seq(Page)
           /\ Len(PageTables(q, end)[b]) = PagesNeeded(end[b])
           /\ Begins(PageTables(q, end)[b], q[b], end[b])
           /\ PagesNeeded(end[b]) \in Nat
<1>1. /\ table[q[b]] \in Seq(Page) /\ PagesNeeded(end[b]) <= Len(table[q[b]])
      /\ end[b] \in Nat /\ end[b] >= 1
  BY BatchRows
<1>2. PagesNeeded(end[b]) \in Nat
  BY <1>1, LastPage
<1>3. PICK s : s = table[q[b]]
  OBVIOUS
<1>4. PICK m : m = PagesNeeded(end[b])
  OBVIOUS
<1>5. s \in Seq(Page) /\ m \in Nat /\ m <= Len(s)
  BY <1>1, <1>2, <1>3, <1>4
<1>6. /\ SubSeq(s, 1, m) \in Seq(Page) /\ Len(SubSeq(s, 1, m)) = m
      /\ \A j \in 1 .. m : SubSeq(s, 1, m)[j] = s[j]
  BY <1>5
<1>7. PageTables(q, end)[b] = SubSeq(s, 1, m)
  BY <1>3, <1>4 DEF PageTables
<1> QED
  BY <1>3, <1>4, <1>5, <1>6, <1>7 DEF Begins

\* A function on 1 .. n is a sequence.
LEMMA LengthOf ==
    ASSUME NEW n \in Nat, NEW f, f = [i \in 1 .. n |-> f[i]]
    PROVE  Len(f) = n
<1>1. PICK S : S = {f[i] : i \in 1 .. n}
  OBVIOUS
<1>2. f \in [1 .. n -> S]
  BY <1>1
<1> QED
  BY <1>2

-------------------------------------------------------------------------------
(* The rows of a forward. *)

\* A row takes r's token at position p to its slot and, when the kernels are
\* given one query for it, lets it read the tokens up to itself.
RowFits(kind, row, r, p) ==
    /\ row.target = SlotOf(table[r], p)
    /\ OneQueryEach(kind) => row.n = p + 1 /\ Begins(row.pages, r, p + 1)

\* Each token of the batch has its row; the rows behind them write to slots of
\* the scratch page, each to another.
RowsFit(kind, q, end, rows) ==
    LET all == Starts(q, end)[Len(q) + 1]
    IN  /\ Len(rows) \in Nat /\ all <= Len(rows)
        /\ \A b \in 1 .. Len(q) : \A i \in 1 .. QLens(q, end)[b] :
              RowFits(kind, rows[Starts(q, end)[b] + i], q[b], len[q[b]] + i - 1)
        /\ \A t \in all + 1 .. Len(rows) : rows[t].target \in 0 .. PageSize - 1
        /\ \A t, u \in all + 1 .. Len(rows) : rows[t].target = rows[u].target => t = u

\* Rows of packed tokens: there are no others.
LEMMA PackedFit ==
    ASSUME TypeInv, NEW kind, NEW q, NEW end, Batch(q, end), NEW rows,
           rows = [t \in 1 .. Starts(q, end)[Len(q) + 1] |-> rows[t]],
           \A b \in 1 .. Len(q) : \A i \in 1 .. QLens(q, end)[b] :
               RowFits(kind, rows[Starts(q, end)[b] + i], q[b], len[q[b]] + i - 1)
    PROVE  RowsFit(kind, q, end, rows)
<1> DEFINE n == Starts(q, end)[Len(q) + 1]
<1>1. n \in Nat
  <2>1. Len(q) \in Nat \ {0} /\ Offsets(Starts(q, end), QLens(q, end), Len(q))
    BY BatchOffsets
  <2>2. Len(q) \in 1 .. Len(q)
    BY <2>1
  <2> QED
    BY <2>1, <2>2 DEF Offsets
<1> HIDE DEF n
<1>2. Len(rows) = n
  <2>1. rows = [t \in 1 .. n |-> rows[t]]
    BY DEF n
  <2> QED
    BY <1>1, <2>1, LengthOf
<1>3. PICK m : m = Len(rows)
  OBVIOUS
<1>4. m \in Nat /\ n <= m /\ n + 1 .. m = {}
  <2>1. m = n
    BY <1>2, <1>3
  <2> QED
    BY ONLY <1>1, <2>1
<1>5. /\ Len(rows) \in Nat /\ n <= Len(rows)
      /\ \A t \in n + 1 .. Len(rows) : FALSE
  BY <1>3, <1>4
<1> QED
  BY <1>5 DEF RowsFit, n

\* The pages of n tokens are enough for fewer.
LEMMA BeginsLess ==
    ASSUME NEW p, NEW r, NEW n \in Nat, Begins(p, r, n), NEW m \in Nat, m >= 1, m <= n
    PROVE  Begins(p, r, m)
<1>1. m - 1 \in Nat /\ m - 1 < n
  OBVIOUS
<1>2. PagesNeeded(m) = (m - 1) \div PageSize + 1 /\ PagesNeeded(m) \in Nat
  BY LastPage
<1>3. PagesNeeded(m) <= PagesNeeded(n)
  BY <1>1, <1>2, EarlierPage
<1>4. PagesNeeded(n) \in Nat
  <2>1. n >= 1
    OBVIOUS
  <2> QED
    BY <2>1, LastPage
<1> QED
  BY <1>2, <1>3, <1>4 DEF Begins

\* Filling a page table up leaves its pages where they are.
LEMMA FilledUp ==
    ASSUME NEW s \in Seq(Page), NEW k \in Nat
    PROVE  \A j \in 1 .. Len(s) : (s \o Repeated(Scratch, k))[j] = s[j]
<1>1. PICK S : S = Page \cup {Scratch}
  OBVIOUS
<1>2. PICK x : x = Repeated(Scratch, k)
  OBVIOUS
<1>3. x \in [1 .. k -> S]
  BY <1>1, <1>2 DEF Repeated
<1>4. x \in Seq(S) /\ s \in Seq(S)
  BY <1>1, <1>3
<1>5. \A j \in 1 .. Len(s) : (s \o x)[j] = s[j]
  BY <1>4, Joined
<1> QED
  BY <1>2, <1>5

\* The widest of the tables.
LEMMA Widest ==
    ASSUME NEW n \in Nat \ {0}, NEW tables \in Seq(Seq(Page)), Len(tables) = n
    PROVE  LET lens == {Len(tables[b]) : b \in 1 .. Len(tables)}
               width == CHOOSE w \in lens : \A l \in lens : l <= w
           IN  width \in Nat /\ \A b \in 1 .. n : Len(tables[b]) <= width
<1> DEFINE lens == {Len(tables[b]) : b \in 1 .. Len(tables)}
           width == CHOOSE w \in lens : \A l \in lens : l <= w
           T == {m \in 0 .. n : m = 0 \/ \E k \in 1 .. m : \A i \in 1 .. m :
                                            Len(tables[i]) <= Len(tables[k])}
<1>1. \A b \in 1 .. n : Len(tables[b]) \in Nat
  <2> SUFFICES ASSUME NEW b \in 1 .. n PROVE Len(tables[b]) \in Nat
    OBVIOUS
  <2>1. tables[b] \in Seq(Page)
    OBVIOUS
  <2> QED
    BY <2>1
<1>2. 0 \in T
  OBVIOUS
<1>3. ASSUME NEW m \in 1 .. n, m - 1 \in T PROVE m \in T
  <2>1. m \in 1 .. m /\ Len(tables[m]) \in Nat
    BY <1>1
  <2>2. CASE m - 1 = 0
    <3>1. \A i \in 1 .. m : i = m
      BY <2>2
    <3>2. \A i \in 1 .. m : Len(tables[i]) <= Len(tables[m])
      <4>1. Len(tables[m]) <= Len(tables[m])
        BY <2>1
      <4> QED
        BY <3>1, <4>1
    <3> QED
      BY <2>1, <3>2
  <2>3. CASE m - 1 # 0
    <3>1. PICK k \in 1 .. m - 1 : \A i \in 1 .. m - 1 : Len(tables[i]) <= Len(tables[k])
      BY <1>3, <2>3
    <3>2. k \in 1 .. m /\ Len(tables[k]) \in Nat /\ \A i \in 1 .. m : i = m \/ i \in 1 .. m - 1
      BY <1>1
    <3>3. CASE Len(tables[m]) <= Len(tables[k])
      <4>1. \A i \in 1 .. m : Len(tables[i]) <= Len(tables[k])
        BY <3>1, <3>2, <3>3
      <4> QED
        BY <3>2, <4>1
    <3>4. CASE ~(Len(tables[m]) <= Len(tables[k]))
      <4>1. \A i \in 1 .. m - 1 : Len(tables[i]) <= Len(tables[m])
        <5> SUFFICES ASSUME NEW i \in 1 .. m - 1 PROVE Len(tables[i]) <= Len(tables[m])
          OBVIOUS
        <5>1. Len(tables[i]) \in Nat /\ Len(tables[i]) <= Len(tables[k])
          BY <1>1, <3>1
        <5> QED
          BY <2>1, <3>2, <3>4, <5>1
      <4>2. \A i \in 1 .. m : Len(tables[i]) <= Len(tables[m])
        BY <2>1, <3>2, <4>1
      <4> QED
        BY <2>1, <4>2
    <3> QED
      BY <3>3, <3>4
  <2> QED
    BY <2>2, <2>3
<1> HIDE DEF T
<1>4. \A i \in 0 .. n : i \in T
  BY <1>2, <1>3, Upwards
<1>5. PICK k \in 1 .. n : \A i \in 1 .. n : Len(tables[i]) <= Len(tables[k])
  <2>1. n \in 0 .. n /\ n # 0
    OBVIOUS
  <2>2. n \in T
    BY <1>4, <2>1
  <2> QED
    BY <2>1, <2>2 DEF T
<1>6. \E w \in lens : \A l \in lens : l <= w
  BY <1>5
<1>7. width \in lens /\ \A l \in lens : l <= width
  <2> HIDE DEF lens
  <2> QED
    BY <1>6
<1> HIDE DEF width
<1>8. width \in Nat /\ \A b \in 1 .. n : Len(tables[b]) <= width
  BY <1>1, <1>7
<1> QED
  BY <1>8 DEF width

\* A row of the block table begins with its page table.
LEMMA BlockRow ==
    ASSUME NEW n \in Nat \ {0}, NEW tables \in Seq(Seq(Page)), Len(tables) = n,
           NEW b \in 1 .. n
    PROVE  \A j \in 1 .. Len(tables[b]) : BlockTable(tables)[b][j] = tables[b][j]
<1> DEFINE lens == {Len(tables[d]) : d \in 1 .. Len(tables)}
           width == CHOOSE w \in lens : \A l \in lens : l <= w
<1>1. width \in Nat /\ \A d \in 1 .. n : Len(tables[d]) <= width
  BY Widest
<1>2. BlockTable(tables) =
        [d \in 1 .. Len(tables) |-> tables[d] \o Repeated(Scratch, width - Len(tables[d]))]
  BY DEF BlockTable
<1> HIDE DEF width
<1>3. BlockTable(tables)[b] = tables[b] \o Repeated(Scratch, width - Len(tables[b]))
  BY <1>2
<1>4. PICK s : s = tables[b]
  OBVIOUS
<1>5. s \in Seq(Page)
  BY <1>4
<1>6. Len(s) \in Nat /\ Len(s) <= width
  BY <1>1, <1>4, <1>5
<1>7. width - Len(s) \in Nat
  BY <1>1, <1>6
<1>8. \A j \in 1 .. Len(s) : (s \o Repeated(Scratch, width - Len(s)))[j] = s[j]
  BY <1>5, <1>7, FilledUp
<1> QED
  BY <1>3, <1>4, <1>8

\* The slots of the packed tokens.
LEMMA SlotsOfTokens ==
    ASSUME TypeInv, NEW q, NEW end, Batch(q, end)
    PROVE  \A b \in 1 .. Len(q) : \A i \in 1 .. QLens(q, end)[b] :
              SlotMapping(q, end)[Starts(q, end)[b] + i] = SlotOf(table[q[b]], len[q[b]] + i - 1)
<1> DEFINE w == QLens(q, end)
           slot(b, i) == SlotOf(table[q[b]], len[q[b]] + i - 1)
           s == [b \in 1 .. Len(q) |-> [i \in 1 .. w[b] |-> slot(b, i)]]
<1>1. PICK S : S = UNION {{slot(b, i) : i \in 1 .. w[b]} : b \in 1 .. Len(q)}
  OBVIOUS
<1>2. ASSUME NEW b \in 1 .. Len(q)
      PROVE  /\ s[b] \in Seq(S) /\ Len(s[b]) = w[b]
             /\ \A i \in 1 .. w[b] : s[b][i] = slot(b, i)
  <2>1. w[b] \in Nat
    BY BatchRows
  <2>2. s[b] = [i \in 1 .. w[b] |-> slot(b, i)]
    OBVIOUS
  <2> HIDE DEF s, w, slot
  <2>3. \A i \in 1 .. w[b] : slot(b, i) \in S
    BY <1>1
  <2>4. s[b] \in [1 .. w[b] -> S]
    BY <2>2, <2>3
  <2> QED
    BY <2>1, <2>2, <2>4
<1>3. SlotMapping(q, end) = Flattened(s)
  BY DEF SlotMapping
<1>4. s = [b \in 1 .. Len(q) |-> s[b]]
  OBVIOUS
<1> HIDE DEF s, w, slot
<1>5. s \in [1 .. Len(q) -> Seq(S)]
  BY <1>2, <1>4
<1>6. \A b \in 1 .. Len(q) : Len(s[b]) = QLens(q, end)[b]
  BY <1>2 DEF w
<1>7. \A b \in 1 .. Len(q) : \A i \in 1 .. QLens(q, end)[b] :
            Flattened(s)[Starts(q, end)[b] + i] = s[b][i]
  BY <1>5, <1>6, PackedRows
<1> QED
  BY <1>2, <1>3, <1>7 DEF w, slot

\* The causal mask, aligned at the end: token i of a chunk sees what was cached
\* before and the chunk up to itself.
LEMMA CausalCounts ==
    ASSUME TypeInv, NEW q, NEW end, Batch(q, end), NEW b \in 1 .. Len(q),
           NEW i \in 1 .. QLens(q, end)[b]
    PROVE  /\ Causal(Starts(q, end), b, Starts(q, end)[b] + i, end[b]) = (len[q[b]] + i - 1) + 1
           /\ len[q[b]] + i - 1 \in Nat /\ len[q[b]] + i - 1 < end[b]
<1>1. PICK c : c = Starts(q, end)
  OBVIOUS
<1>2. PICK w : w = QLens(q, end)
  OBVIOUS
<1>3. c[b] \in Nat /\ c[b + 1] = c[b] + w[b]
  BY <1>1, <1>2, NextStart
<1>4. /\ w[b] \in Nat /\ w[b] = end[b] - len[q[b]] /\ len[q[b]] \in Nat /\ end[b] \in Nat
      /\ i \in 1 .. w[b]
  BY <1>2, BatchRows
<1>5. PICK x, y, z, u : x = c[b] /\ y = w[b] /\ z = len[q[b]] /\ u = end[b]
  OBVIOUS
<1>6. /\ x \in Nat /\ y \in Nat /\ z \in Nat /\ u \in Nat /\ y = u - z
      /\ i \in 1 .. y /\ c[b + 1] = x + y
  BY <1>3, <1>4, <1>5
<1>7. u - ((x + y) - (x + i)) = (z + i - 1) + 1 /\ z + i - 1 \in Nat /\ z + i - 1 < u
  BY ONLY <1>6
<1> QED
  BY <1>1, <1>5, <1>6, <1>7 DEF Causal

\* flash_attn, prefill and eager decode.
LEMMA FlashAttnPackedFits ==
    ASSUME TypeInv, NEW q, NEW end, Batch(q, end),
           NEW tables \in Seq(Seq(Page)), Len(tables) = Len(q),
           \A b \in 1 .. Len(q) : /\ Begins(tables[b], q[b], end[b])
                                  /\ PagesNeeded(end[b]) <= Len(tables[b])
    PROVE  RowsFit("packed", q, end, FlashAttnPacked(q, end, tables))
<1> DEFINE n == Len(q)
           c == Starts(q, end)
           cuK == Cumulated(end)
           slots == SlotMapping(q, end)
           blocks == BlockTable(tables)
           rows == FlashAttnPacked(q, end, tables)
           key(b) == cuK[b + 1] - cuK[b]
           row(t) == Row(slots[t], {t}, blocks[RowAt(c, t)],
                         Causal(c, RowAt(c, t), t, key(RowAt(c, t))))
<1>1. rows = [t \in 1 .. c[n + 1] |-> row(t)]
  BY DEF FlashAttnPacked, Starts
<1>2. \A t \in 1 .. c[n + 1] : rows[t] = row(t)
  BY <1>1
<1>3. n \in Nat \ {0}
  BY BatchOffsets
<1>4. \A b \in 1 .. n : key(b) = end[b]
  <2>1. end \in Seq(Nat) /\ Len(end) = n
    BY DEF Batch
  <2>2. Offsets(cuK, end, n)
    BY <1>3, <2>1, CumulatedOffsets
  <2> SUFFICES ASSUME NEW b \in 1 .. n PROVE key(b) = end[b]
    OBVIOUS
  <2>3. cuK[b] \in Nat /\ cuK[b + 1] = cuK[b] + end[b] /\ end[b] \in Nat
    BY <2>1, <2>2 DEF Offsets
  <2> QED
    BY <2>3
<1> HIDE DEF rows, key, slots, blocks
<1>5. ASSUME NEW b \in 1 .. n, NEW i \in 1 .. QLens(q, end)[b]
      PROVE  RowFits("packed", rows[c[b] + i], q[b], len[q[b]] + i - 1)
  <2>1. PICK t : t = c[b] + i
    OBVIOUS
  <2>2. t \in 1 .. c[n + 1] /\ RowAt(c, t) = b
    BY <2>1, BatchPlace
  <2>3. rows[t] = Row(slots[t], {t}, blocks[b], Causal(c, b, t, end[b]))
    BY <1>2, <1>4, <2>2
  <2>4. slots[t] = SlotOf(table[q[b]], len[q[b]] + i - 1)
    BY <2>1, SlotsOfTokens DEF slots
  <2>5. /\ Causal(c, b, t, end[b]) = (len[q[b]] + i - 1) + 1
        /\ len[q[b]] + i - 1 \in Nat /\ len[q[b]] + i - 1 < end[b]
    BY <2>1, CausalCounts
  <2>6. Begins(blocks[b], q[b], end[b])
    <3>1. \A j \in 1 .. Len(tables[b]) : blocks[b][j] = tables[b][j]
      BY <1>3, BlockRow DEF blocks
    <3>2. end[b] \in Nat /\ end[b] >= 1
      BY BatchRows
    <3>3. PagesNeeded(end[b]) \in Nat /\ PagesNeeded(end[b]) <= Len(tables[b])
      BY <3>2, LastPage
    <3>4. Len(tables[b]) \in Nat
      BY <1>3
    <3> QED
      BY <3>1, <3>3, <3>4 DEF Begins
  <2>7. Begins(blocks[b], q[b], (len[q[b]] + i - 1) + 1)
    <3>1. PICK p : p = len[q[b]] + i - 1
      OBVIOUS
    <3>2. p \in Nat /\ p < end[b] /\ end[b] \in Nat
      BY <2>5, <3>1, BatchRows
    <3>3. p + 1 \in Nat /\ p + 1 >= 1 /\ p + 1 <= end[b]
      BY <3>2
    <3>4. Begins(blocks[b], q[b], p + 1)
      BY <2>6, <3>2, <3>3, BeginsLess
    <3> QED
      BY <3>1, <3>4
  <2> QED
    BY <2>1, <2>3, <2>4, <2>5, <2>7 DEF RowFits, Row
<1>6. rows = [t \in 1 .. c[n + 1] |-> rows[t]]
  BY <1>1 DEF rows
<1>7. RowsFit("packed", q, end, rows)
  BY <1>5, <1>6, PackedFit
<1> QED
  BY <1>7 DEF rows

\* A batch's page tables one after the other, and where each begins.
LEMMA PagesOfRows ==
    ASSUME TypeInv, NEW q, NEW end, Batch(q, end), NEW counts,
           counts = [b \in 1 .. Len(q) |-> PagesNeeded(end[b])]
    PROVE  /\ Offsets(Cumulated(counts), counts, Len(q))
           /\ Flattened(PageTables(q, end)) \in Seq(Page)
           /\ Len(Flattened(PageTables(q, end))) = Cumulated(counts)[Len(q) + 1]
           /\ Cumulated(counts)[Len(q) + 1] \in Nat
           /\ \A b \in 1 .. Len(q) : \A j \in 1 .. counts[b] :
                /\ Flattened(PageTables(q, end))[Cumulated(counts)[b] + j] = table[q[b]][j]
                /\ Cumulated(counts)[b] + j \in 1 .. Cumulated(counts)[Len(q) + 1]
<1> DEFINE n == Len(q)
           s == PageTables(q, end)
           c == Cumulated(counts)
<1>1. n \in Nat /\ n \in 1 .. n
  BY BatchOffsets
<1>2. \A b \in 1 .. n : counts[b] = PagesNeeded(end[b]) /\ counts[b] \in Nat
  BY BeginsRow
<1>3. counts \in Seq(Nat) /\ Len(counts) = n
  <2>1. counts \in [1 .. n -> Nat]
    BY <1>2
  <2> QED
    BY <1>1, <2>1
<1>4. Offsets(c, counts, n) /\ c \in Seq(Nat) /\ Len(c) = n + 1
  BY <1>1, <1>3, CumulatedOffsets
<1>5. \A b \in 1 .. n : /\ s[b] \in Seq(Page) /\ Len(s[b]) = counts[b]
                        /\ \A j \in 1 .. counts[b] : s[b][j] = table[q[b]][j]
  BY <1>2, BeginsRow DEF Begins
<1>6. s = [b \in 1 .. n |-> s[b]]
  BY DEF PageTables
<1> HIDE DEF s, c
<1>7. s \in Seq(Seq(Page)) /\ Len(s) = n
  <2>1. s \in [1 .. n -> Seq(Page)]
    BY <1>5, <1>6
  <2> QED
    BY <1>1, <2>1
<1>8. \A b \in 1 .. n : counts[b] = Len(s[b])
  BY <1>5
<1>9. Laid(Flattened(s), s, n, c, counts, Page)
  BY <1>1, <1>4, <1>7, <1>8, FlattenedLaid
<1>10. \A b \in 1 .. n : \A j \in 1 .. counts[b] : c[b] + j \in 1 .. c[n + 1]
  BY <1>1, <1>2, <1>4, RowOfPlace
<1>11. c[n + 1] \in Nat
  BY <1>1, <1>4 DEF Offsets
<1>12. /\ Flattened(s) \in Seq(Page) /\ Len(Flattened(s)) = c[n + 1]
       /\ \A b \in 1 .. n : \A j \in 1 .. counts[b] : Flattened(s)[c[b] + j] = s[b][j]
  BY <1>9 DEF Laid
<1>13. \A b \in 1 .. n : \A j \in 1 .. counts[b] :
         Flattened(s)[c[b] + j] = table[q[b]][j] /\ c[b] + j \in 1 .. c[n + 1]
  BY <1>5, <1>10, <1>12
<1> QED
  BY <1>4, <1>11, <1>12, <1>13 DEF s, c

\* Rows of the tokens.
LEMMA RowsOfTokens ==
    ASSUME TypeInv, NEW q, NEW end, Batch(q, end)
    PROVE  \A b \in 1 .. Len(q) : \A i \in 1 .. QLens(q, end)[b] :
              BatchIndices(q, end)[Starts(q, end)[b] + i] = b
<1> DEFINE w == QLens(q, end)
           s == [b \in 1 .. Len(q) |-> Repeated(b, w[b])]
<1>1. ASSUME NEW b \in 1 .. Len(q)
      PROVE  s[b] \in Seq(Nat) /\ Len(s[b]) = w[b] /\ \A i \in 1 .. w[b] : s[b][i] = b
  <2>1. w[b] \in Nat /\ b \in Nat
    BY BatchRows
  <2>2. s[b] = [i \in 1 .. w[b] |-> b]
    BY DEF Repeated
  <2> HIDE DEF s, w
  <2>3. s[b] \in [1 .. w[b] -> Nat]
    BY <2>1, <2>2
  <2> QED
    BY <2>1, <2>2, <2>3
<1>2. BatchIndices(q, end) = Flattened(s)
  BY DEF BatchIndices
<1>3. s = [b \in 1 .. Len(q) |-> s[b]]
  OBVIOUS
<1> HIDE DEF s, w
<1>4. s \in [1 .. Len(q) -> Seq(Nat)]
  BY <1>1, <1>3
<1>5. \A b \in 1 .. Len(q) : Len(s[b]) = QLens(q, end)[b]
  BY <1>1 DEF w
<1>6. \A b \in 1 .. Len(q) : \A i \in 1 .. QLens(q, end)[b] :
            Flattened(s)[Starts(q, end)[b] + i] = s[b][i]
  <2>1. PICK S : S = Nat
    OBVIOUS
  <2>2. s \in [1 .. Len(q) -> Seq(S)]
    BY <1>4, <2>1
  <2> QED
    BY <1>5, <2>2, PackedRows
<1> QED
  BY <1>1, <1>2, <1>6 DEF w

\* The j-th page from x on.
LEMMA SubSeqAt ==
    ASSUME NEW S, NEW s \in Seq(S), NEW x \in Nat, NEW y \in Nat, x + y <= Len(s),
           NEW j \in 1 .. y
    PROVE  SubSeq(s, x + 1, x + y)[j] = s[x + j]
<1>1. x + 1 \in Int /\ x + y \in Int /\ Len(s) \in Nat
  OBVIOUS
<1>2. j \in 1 .. (x + y) - (x + 1) + 1 /\ (x + 1) + j - 1 = x + j
  OBVIOUS
<1> QED
  BY <1>1, <1>2

\* flashinfer, prefill and eager decode.
LEMMA FlashInferPackedFits ==
    ASSUME TypeInv, NEW q, NEW end, Batch(q, end)
    PROVE  RowsFit("packed", q, end, FlashInferPacked(q, end))
<1> DEFINE n == Len(q)
           c == Starts(q, end)
           counts == [b \in 1 .. Len(q) |-> PagesNeeded(end[b])]
           indptr == Cumulated(counts)
           indices == Flattened(PageTables(q, end))
           rowOf == BatchIndices(q, end)
           tokens == Packed(q, end)
           rows == FlashInferPacked(q, end)
           target(b, p) == indices[indptr[b] + p \div PageSize + 1] * PageSize + (p % PageSize)
           pages(b) == SubSeq(indices, indptr[b] + 1, indptr[b + 1])
           held(b) == (counts[b] - 1) * PageSize + LastPageLen(end[b])
<1>1. rows = [t \in 1 .. c[n + 1] |->
                Row(target(rowOf[t], tokens[t][2]), {t}, pages(RowAt(c, t)),
                    Causal(c, RowAt(c, t), t, held(RowAt(c, t))))]
  BY DEF FlashInferPacked, Starts
<1>2. \A t \in 1 .. c[n + 1] :
        rows[t] = Row(target(rowOf[t], tokens[t][2]), {t}, pages(RowAt(c, t)),
                      Causal(c, RowAt(c, t), t, held(RowAt(c, t))))
  BY <1>1
<1>3. /\ n \in Nat /\ Offsets(indptr, counts, n) /\ indices \in Seq(Page)
      /\ Len(indices) = indptr[n + 1] /\ indptr[n + 1] \in Nat
      /\ \A b \in 1 .. n : \A j \in 1 .. counts[b] :
            indices[indptr[b] + j] = table[q[b]][j] /\ indptr[b] + j \in 1 .. indptr[n + 1]
  <2>1. PICK w : w = counts
    OBVIOUS
  <2>2. /\ Offsets(Cumulated(w), w, Len(q))
        /\ indices \in Seq(Page)
        /\ Len(indices) = Cumulated(w)[Len(q) + 1]
        /\ Cumulated(w)[Len(q) + 1] \in Nat
        /\ \A b \in 1 .. Len(q) : \A j \in 1 .. w[b] :
                /\ indices[Cumulated(w)[b] + j] = table[q[b]][j]
                /\ Cumulated(w)[b] + j \in 1 .. Cumulated(w)[Len(q) + 1]
    BY <2>1, PagesOfRows
  <2>3. n \in Nat
    BY BatchOffsets
  <2> QED
    BY <2>1, <2>2, <2>3
<1>4. \A b \in 1 .. n : counts[b] = PagesNeeded(end[b])
  OBVIOUS
<1> HIDE DEF rows, indptr, indices, rowOf, tokens, counts
<1>5. ASSUME NEW b \in 1 .. n
      PROVE  /\ end[b] \in Nat /\ end[b] >= 1 /\ held(b) = end[b]
             /\ counts[b] \in Nat /\ counts[b] >= 1 /\ indptr[b] \in Nat
             /\ indptr[b + 1] = indptr[b] + counts[b] /\ indptr[b] + counts[b] <= Len(indices)
  <2>1. end[b] \in Nat /\ end[b] >= 1
    BY BatchRows
  <2>2. /\ PagesNeeded(end[b]) \in Nat /\ PagesNeeded(end[b]) = (end[b] - 1) \div PageSize + 1
        /\ (PagesNeeded(end[b]) - 1) * PageSize + LastPageLen(end[b]) = end[b]
    BY <2>1, LastPage
  <2>3. end[b] - 1 \in Nat
    BY <2>1
  <2>4. (end[b] - 1) \div PageSize \in Nat
    BY <2>3, Divided
  <2>5. counts[b] \in Nat /\ counts[b] >= 1
    BY <1>4, <2>2, <2>4
  <2>6. indptr[b] \in Nat /\ indptr[b + 1] = indptr[b] + counts[b]
    BY <1>3 DEF Offsets
  <2>7. counts[b] \in 1 .. counts[b]
    BY <2>5
  <2>8. indptr[b] + counts[b] \in 1 .. indptr[n + 1]
    BY <1>3, <2>7
  <2> QED
    BY <1>3, <1>4, <2>1, <2>2, <2>5, <2>6, <2>8
<1>6. ASSUME NEW b \in 1 .. n PROVE Begins(pages(b), q[b], end[b])
  <2>1. PICK x, y : x = indptr[b] /\ y = counts[b]
    OBVIOUS
  <2>2. pages(b) = SubSeq(indices, x + 1, x + y)
    BY <1>5, <2>1
  <2>3. x \in Nat /\ y \in Nat /\ x + y <= Len(indices)
    BY <1>5, <2>1
  <2>4. \A j \in 1 .. y : SubSeq(indices, x + 1, x + y)[j] = indices[x + j]
    BY <1>3, <2>3, SubSeqAt
  <2> QED
    BY <1>3, <1>4, <2>1, <2>2, <2>4 DEF Begins
<1> HIDE DEF pages, held
<1>7. ASSUME NEW b \in 1 .. n, NEW i \in 1 .. QLens(q, end)[b]
      PROVE  RowFits("packed", rows[c[b] + i], q[b], len[q[b]] + i - 1)
  <2>1. PICK t : t = c[b] + i
    OBVIOUS
  <2>2. PICK p : p = len[q[b]] + i - 1
    OBVIOUS
  <2>3. t \in 1 .. c[n + 1] /\ RowAt(c, t) = b
    BY <2>1, BatchPlace
  <2>4. rowOf[t] = b
    BY <2>1, RowsOfTokens DEF rowOf
  <2>5. tokens[t] = <<q[b], p>>
    <3>1. b \in 1 .. Len(q) /\ i \in 1 .. QLens(q, end)[b]
      OBVIOUS
    <3>2. Packed(q, end)[Starts(q, end)[b] + i] = <<q[b], len[q[b]] + i - 1>>
      BY <3>1, TokenAt
    <3> QED
      BY <2>1, <2>2, <3>2 DEF tokens
  <2>6. rows[t] = Row(target(b, p), {t}, pages(b), Causal(c, b, t, end[b]))
    <3>1. rows[t] = Row(target(rowOf[t], tokens[t][2]), {t}, pages(RowAt(c, t)),
                        Causal(c, RowAt(c, t), t, held(RowAt(c, t))))
      BY <1>2, <2>3
    <3>2. tokens[t][2] = p
      BY <2>5
    <3>3. held(b) = end[b]
      BY <1>5
    <3> HIDE DEF target
    <3> QED
      BY <2>3, <2>4, <3>1, <3>2, <3>3
  <2>7. Causal(c, b, t, end[b]) = p + 1 /\ p \in Nat /\ p < end[b]
    BY <2>1, <2>2, CausalCounts
  <2>8. target(b, p) = SlotOf(table[q[b]], p)
    <3>1. p \div PageSize \in Nat /\ p \div PageSize + 1 <= counts[b]
      BY <1>4, <1>5, <2>7, EarlierPage
    <3>2. p \div PageSize + 1 \in 1 .. counts[b]
      BY <1>5, <3>1
    <3>3. indices[indptr[b] + (p \div PageSize + 1)] = table[q[b]][p \div PageSize + 1]
      BY <1>3, <3>2
    <3>4. indptr[b] + (p \div PageSize + 1) = indptr[b] + p \div PageSize + 1
      BY <1>5, <3>1
    <3> QED
      BY <3>3, <3>4 DEF SlotOf
  <2>9. Begins(pages(b), q[b], p + 1)
    <3>1. p + 1 \in Nat /\ p + 1 >= 1 /\ p + 1 <= end[b] /\ end[b] \in Nat
      BY <1>5, <2>7
    <3> QED
      BY <1>6, <3>1, BeginsLess
  <2> QED
    BY <2>1, <2>2, <2>6, <2>7, <2>8, <2>9 DEF RowFits, Row
<1>8. rows = [t \in 1 .. c[n + 1] |-> rows[t]]
  BY <1>1 DEF rows
<1>9. RowsFit("packed", q, end, rows)
  BY <1>7, <1>8, PackedFit
<1> QED
  BY <1>9 DEF rows

-------------------------------------------------------------------------------
(* Replays: one token of each request, padded up to a bucket. *)

\* The bucket is one, has room for the batch and pads no further than the
\* scratch page has slots.
LEMMA Bucket ==
    ASSUME NEW n \in Nat \ {0}, \E bs \in Buckets : n <= bs
    PROVE  /\ BucketFor(n) \in Buckets /\ BucketFor(n) \in Nat \ {0} /\ n <= BucketFor(n)
           /\ BucketFor(n) - n <= PageSize
<1> DEFINE T == {bs \in Buckets : n <= bs}
<1>1. T \subseteq Nat /\ T # {} /\ Buckets \subseteq Nat \ {0}
  BY BucketAssumption
<1>2. PICK x \in T : \A y \in T : x <= y
  <2> HIDE DEF T
  <2> QED
    BY <1>1, Least
<1>3. x \in Buckets /\ x >= n /\ \A c \in Buckets : c >= n => x <= c
  BY <1>1, <1>2
<1>4. \E bs \in Buckets : bs >= n /\ \A c \in Buckets : c >= n => bs <= c
  BY <1>3
<1>5. BucketFor(n) \in Buckets /\ BucketFor(n) >= n
  BY <1>4 DEF BucketFor
<1>6. BucketFor(n) \in Nat \ {0}
  BY <1>1, <1>5
<1>7. n \in 1 .. BucketFor(n)
  BY <1>5, <1>6
<1>8. BucketFor(n) - n <= PageSize
  BY <1>5, <1>7, PaddingAssumption
<1> QED
  BY <1>5, <1>6, <1>8

\* Row b of a replay has the b-th token.
LEMMA OneEach ==
    ASSUME TypeInv, NEW q, Batch(q, NextEnds(q))
    PROVE  /\ \A b \in 1 .. Len(q) : /\ NextEnds(q)[b] = len[q[b]] + 1
                                     /\ QLens(q, NextEnds(q))[b] = 1
                                     /\ Starts(q, NextEnds(q))[b] = b - 1
           /\ Starts(q, NextEnds(q))[Len(q) + 1] = Len(q)
<1>1. PICK n, c, w : n = Len(q) /\ c = Starts(q, NextEnds(q)) /\ w = QLens(q, NextEnds(q))
  OBVIOUS
<1>2. n \in Nat \ {0} /\ Offsets(c, w, n)
  BY <1>1, BatchOffsets
<1>3. \A b \in 1 .. n : NextEnds(q)[b] = len[q[b]] + 1
  BY <1>1 DEF NextEnds
<1>4. \A b \in 1 .. n : w[b] = 1
  <2> SUFFICES ASSUME NEW b \in 1 .. n PROVE w[b] = 1
    OBVIOUS
  <2>1. w[b] = NextEnds(q)[b] - len[q[b]] /\ len[q[b]] \in Nat
    BY <1>1, BatchRows
  <2> QED
    BY <1>3, <2>1
<1>5. \A b \in 0 .. n : c[b + 1] = b
  <2> DEFINE T == {b \in 0 .. n : c[b + 1] = b}
  <2>1. 0 \in T
    <3>1. 0 \in 0 .. n /\ 0 + 1 = 1 /\ c[1] = 0
      BY <1>2 DEF Offsets
    <3> QED
      BY <3>1
  <2>2. ASSUME NEW b \in 1 .. n, b - 1 \in T PROVE b \in T
    <3>1. c[b + 1] = c[b] + w[b] /\ c[b] \in Nat
      BY <1>2 DEF Offsets
    <3>2. (b - 1) + 1 = b /\ c[(b - 1) + 1] = b - 1
      BY <2>2
    <3>3. c[b + 1] = b
      BY <1>4, <3>1, <3>2
    <3> QED
      BY <3>3
  <2>3. n \in Nat
    BY <1>2
  <2> HIDE DEF T
  <2>4. \A b \in 0 .. n : b \in T
    BY <2>1, <2>2, <2>3, Upwards
  <2> QED
    BY <2>4 DEF T
<1>6. \A b \in 1 .. n : c[b] = b - 1
  <2> SUFFICES ASSUME NEW b \in 1 .. n PROVE c[b] = b - 1
    OBVIOUS
  <2>1. b - 1 \in 0 .. n /\ (b - 1) + 1 = b
    BY <1>2
  <2> QED
    BY <1>5, <2>1
<1>7. c[n + 1] = n
  <2>1. n \in 0 .. n
    BY <1>2
  <2> QED
    BY <1>5, <2>1
<1> QED
  BY <1>1, <1>3, <1>4, <1>6, <1>7

\* Rows of a replay that fit: the requests', one each, and as many padded
\* rows as the scratch page has slots for.
LEMMA ReplayFit ==
    ASSUME TypeInv, NEW kind, NEW q, Batch(q, NextEnds(q)), NEW bs \in Nat, Len(q) <= bs,
           bs - Len(q) <= PageSize, NEW rows, rows = [b \in 1 .. bs |-> rows[b]],
           \A b \in 1 .. Len(q) : RowFits(kind, rows[b], q[b], len[q[b]]),
           \A b \in Len(q) + 1 .. bs : rows[b].target = b - Len(q) - 1
    PROVE  RowsFit(kind, q, NextEnds(q), rows)
<1>1. PICK n, c, w : n = Len(q) /\ c = Starts(q, NextEnds(q)) /\ w = QLens(q, NextEnds(q))
  OBVIOUS
<1>2. /\ n \in Nat \ {0} /\ c[n + 1] = n
      /\ \A b \in 1 .. n : w[b] = 1 /\ c[b] = b - 1
  BY <1>1, OneEach, BatchOffsets
<1>3. Len(rows) = bs
  BY LengthOf
<1>4. ASSUME NEW b \in 1 .. n, NEW i \in 1 .. w[b]
      PROVE  RowFits(kind, rows[c[b] + i], q[b], len[q[b]] + i - 1)
  <2>1. i = 1 /\ c[b] + i = b
    BY <1>2
  <2>2. len[q[b]] \in Nat
    BY <1>1, BatchRows
  <2>3. len[q[b]] + i - 1 = len[q[b]]
    BY <2>1, <2>2
  <2> QED
    BY <1>1, <2>1, <2>3
<1>5. ASSUME NEW t \in n + 1 .. bs
      PROVE  rows[t].target = t - n - 1 /\ t - n - 1 \in 0 .. PageSize - 1
  <2>1. rows[t].target = t - n - 1
    BY <1>1
  <2>2. PageSize \in Nat /\ bs - n <= PageSize
    BY <1>1, PoolAssumption
  <2> QED
    BY <1>2, <2>1, <2>2
<1>6. ASSUME NEW t \in n + 1 .. bs, NEW u \in n + 1 .. bs, rows[t].target = rows[u].target
      PROVE  t = u
  <2>1. t - n - 1 = u - n - 1
    BY <1>5, <1>6
  <2> QED
    BY <1>2, <2>1
<1>7. /\ Len(rows) \in Nat /\ c[n + 1] <= Len(rows)
      /\ \A b \in 1 .. n : \A i \in 1 .. w[b] :
            RowFits(kind, rows[c[b] + i], q[b], len[q[b]] + i - 1)
      /\ \A t \in c[n + 1] + 1 .. Len(rows) : rows[t].target \in 0 .. PageSize - 1
      /\ \A t, u \in c[n + 1] + 1 .. Len(rows) : rows[t].target = rows[u].target => t = u
  <2>1. Len(rows) = bs /\ c[n + 1] = n /\ n <= bs /\ bs \in Nat
    BY <1>1, <1>2, <1>3
  <2>2. \A t \in c[n + 1] + 1 .. Len(rows) : t \in n + 1 .. bs
    BY <2>1
  <2>3. Len(rows) \in Nat /\ c[n + 1] <= Len(rows)
    BY <2>1
  <2>4. \A t \in c[n + 1] + 1 .. Len(rows) : rows[t].target \in 0 .. PageSize - 1
    BY <1>5, <2>2
  <2>5. \A t, u \in c[n + 1] + 1 .. Len(rows) : rows[t].target = rows[u].target => t = u
    BY <1>6, <2>2
  <2> QED
    BY <1>4, <2>3, <2>4, <2>5
<1> QED
  BY <1>1, <1>7 DEF RowsFit

\* One value per row of the batch, then those of the padded rows.
LEMMA RealThenPadded ==
    ASSUME NEW n \in Nat, NEW k \in Nat, NEW f, f = [b \in 1 .. n |-> f[b]],
           NEW g, g = [b \in 1 .. k |-> g[b]]
    PROVE  /\ Len(f \o g) = n + k
           /\ \A b \in 1 .. n : (f \o g)[b] = f[b]
           /\ \A b \in n + 1 .. n + k : (f \o g)[b] = g[b - n]
<1>1. PICK S : S = {f[b] : b \in 1 .. n} \cup {g[b] : b \in 1 .. k}
  OBVIOUS
<1>2. f \in [1 .. n -> S] /\ g \in [1 .. k -> S]
  BY <1>1
<1>3. f \in Seq(S) /\ Len(f) = n /\ g \in Seq(S) /\ Len(g) = k
  BY <1>2
<1>4. /\ Len(f \o g) = n + k
      /\ \A b \in 1 .. n : (f \o g)[b] = f[b]
      /\ \A i \in 1 .. k : (f \o g)[n + i] = g[i]
  BY <1>3, Joined
<1>5. ASSUME NEW b \in n + 1 .. n + k PROVE (f \o g)[b] = g[b - n]
  <2>1. b - n \in 1 .. k /\ n + (b - n) = b
    OBVIOUS
  <2> QED
    BY <1>4, <2>1
<1> QED
  BY <1>4, <1>5

\* What is in a row.
LEMMA RowIs ==
    ASSUME NEW row, NEW target, NEW queries, NEW pages, NEW n,
           row = Row(target, queries, pages, n)
    PROVE  row.target = target /\ row.pages = pages /\ row.n = n
  BY DEF Row

\* The graph captured for flash_attn writes what it should.  Of what its rows
\* read nothing is said.
LEMMA FlashAttnRowsFit ==
    ASSUME TypeInv, NEW q, Batch(q, NextEnds(q)), NEW bs \in Nat, Len(q) <= bs,
           bs - Len(q) <= PageSize, backend = "flash_attn"
    PROVE  RowsFit("replay", q, NextEnds(q), FlashAttnRows(q, bs))
<1> DEFINE n == Len(q)
           k == bs - n
           cu == Cumulated(SeqLensK(q, k))
           realSlots == [b \in 1 .. n |-> SlotOf(table[q[b]], len[q[b]])]
           slots == realSlots \o PadSlots(k)
           pages(b) == IF b <= n THEN table[q[b]] ELSE <<>>
           rows == FlashAttnRows(q, bs)
<1>1. rows = [t \in 1 .. bs |->
                LET b == RowAt(cu, t)
                IN  Row(slots[t], cu[t] + 1 .. cu[t + 1],
                        pages(b) \o Repeated(Scratch, MaxPages - Len(pages(b))),
                        Causal(cu, b, t, cu[b + 1] - cu[b]))]
  BY DEF FlashAttnRows
<1> HIDE DEF cu, slots, pages, rows
<1>2. \A b \in 1 .. bs : rows[b].target = slots[b]
  BY <1>1 DEF Row
<1> USE DEF slots
<1>3. n \in Nat \ {0} /\ k \in Nat /\ n + k = bs
  BY BatchOffsets
<1>4. \A b \in 1 .. n : slots[b] = SlotOf(table[q[b]], len[q[b]])
  <2>1. /\ realSlots = [b \in 1 .. n |-> realSlots[b]]
        /\ PadSlots(k) = [b \in 1 .. k |-> PadSlots(k)[b]]
    BY DEF PadSlots, From
  <2>2. PICK f, g : f = realSlots /\ g = PadSlots(k)
    OBVIOUS
  <2>3. \A b \in 1 .. n : f[b] = SlotOf(table[q[b]], len[q[b]])
    BY <2>2
  <2>4. \A b \in 1 .. n : (f \o g)[b] = f[b]
    BY <1>3, <2>1, <2>2, RealThenPadded
  <2> QED
    BY <2>2, <2>3, <2>4
<1>5. \A b \in n + 1 .. bs : slots[b] = b - n - 1
  <2>1. /\ realSlots = [b \in 1 .. n |-> realSlots[b]]
        /\ PadSlots(k) = [b \in 1 .. k |-> PadSlots(k)[b]]
    BY DEF PadSlots, From
  <2>2. PICK f, g : f = realSlots /\ g = PadSlots(k)
    OBVIOUS
  <2>3. \A b \in n + 1 .. n + k : (f \o g)[b] = g[b - n]
    BY <1>3, <2>1, <2>2, RealThenPadded
  <2>4. \A b \in 1 .. k : g[b] = Scratch * PageSize + b - 1
    BY <2>2 DEF PadSlots, From
  <2>5. Scratch * PageSize = 0
    BY PoolAssumption DEF Scratch
  <2> SUFFICES ASSUME NEW b \in n + 1 .. bs PROVE slots[b] = b - n - 1
    OBVIOUS
  <2>6. b \in n + 1 .. n + k /\ b - n \in 1 .. k /\ b \in Int
    BY <1>3
  <2>7. slots[b] = g[b - n]
    BY <2>2, <2>3, <2>6
  <2>8. g[b - n] = 0 + (b - n) - 1
    BY <2>4, <2>5, <2>6
  <2>9. n \in Int /\ 0 + (b - n) - 1 = b - n - 1
    BY <1>3, <2>6
  <2> QED
    BY <2>7, <2>8, <2>9
<1> HIDE DEF slots, k
<1>7. ASSUME NEW b \in 1 .. n PROVE RowFits("replay", rows[b], q[b], len[q[b]])
  <2>1. b \in 1 .. bs
    BY <1>3
  <2>2. rows[b].target = SlotOf(table[q[b]], len[q[b]])
    BY <1>2, <1>4, <2>1
  <2> QED
    BY <2>2 DEF RowFits, OneQueryEach
<1>8. \A b \in n + 1 .. bs : rows[b].target = b - n - 1
  <2> SUFFICES ASSUME NEW b \in n + 1 .. bs PROVE rows[b].target = b - n - 1
    OBVIOUS
  <2>1. b \in 1 .. bs
    BY <1>3
  <2>2. rows[b].target = slots[b]
    BY <1>2, <2>1
  <2> QED
    BY <1>5, <2>2
<1>9. rows = [b \in 1 .. bs |-> rows[b]]
  BY <1>1
<1>10. RowsFit("replay", q, NextEnds(q), rows)
  BY <1>3, <1>7, <1>8, <1>9, ReplayFit DEF n
<1> QED
  BY <1>10 DEF rows

\* Sequences that begin with the same lengths begin in the same places.
LEMMA OffsetsAgree ==
    ASSUME NEW n \in Nat, NEW m \in Nat, n <= m, NEW c, NEW w, Offsets(c, w, n),
           NEW d, NEW v, Offsets(d, v, m), \A b \in 1 .. n : w[b] = v[b]
    PROVE  \A b \in 0 .. n : c[b + 1] = d[b + 1]
<1> DEFINE T == {b \in 0 .. n : c[b + 1] = d[b + 1]}
<1>1. 0 \in T
  <2>1. 0 \in 0 .. n /\ 0 + 1 = 1 /\ c[1] = 0 /\ d[1] = 0
    BY DEF Offsets
  <2> QED
    BY <2>1
<1>2. ASSUME NEW b \in 1 .. n, b - 1 \in T PROVE b \in T
  <2>1. (b - 1) + 1 = b /\ b \in 1 .. m
    OBVIOUS
  <2>2. c[b] = d[b]
    BY <1>2, <2>1
  <2>3. c[b + 1] = c[b] + w[b] /\ d[b + 1] = d[b] + v[b]
    BY <2>1 DEF Offsets
  <2> QED
    BY <2>2, <2>3
<1> HIDE DEF T
<1>3. \A b \in 0 .. n : b \in T
  BY <1>1, <1>2, Upwards
<1> QED
  BY <1>3 DEF T

\* Behind the n-th, sequences of one element each.
LEMMA OffsetsOnes ==
    ASSUME NEW n \in Nat, NEW m \in Nat, n <= m, NEW c, NEW w, Offsets(c, w, m),
           \A b \in n + 1 .. m : w[b] = 1, c[n + 1] \in Nat
    PROVE  \A b \in n .. m : c[b + 1] = c[n + 1] + (b - n)
<1> DEFINE T == {b \in 0 .. m : n <= b => c[b + 1] = c[n + 1] + (b - n)}
<1>1. 0 \in T
  OBVIOUS
<1>2. ASSUME NEW b \in 1 .. m, b - 1 \in T PROVE b \in T
  <2>1. CASE b <= n
    BY <2>1
  <2>2. CASE ~(b <= n)
    <3>1. (b - 1) + 1 = b /\ n <= b - 1 /\ b \in n + 1 .. m
      BY <2>2
    <3>2. c[b] = c[n + 1] + ((b - 1) - n)
      BY <1>2, <3>1
    <3>3. c[b + 1] = c[b] + 1
      BY <3>1 DEF Offsets
    <3>4. c[b + 1] = c[n + 1] + (b - n)
      BY <3>2, <3>3
    <3> QED
      BY <3>4
  <2> QED
    BY <2>1, <2>2
<1> HIDE DEF T
<1>3. \A b \in 0 .. m : b \in T
  BY <1>1, <1>2, Upwards
<1>4. \A b \in n .. m : b \in 0 .. m /\ n <= b
  OBVIOUS
<1> QED
  BY <1>3, <1>4 DEF T

\* Sequences of at most k elements each.
LEMMA OffsetsBound ==
    ASSUME NEW m \in Nat, NEW k \in Nat, NEW c, NEW w, Offsets(c, w, m),
           \A b \in 1 .. m : w[b] \in Nat /\ w[b] <= k
    PROVE  c[m + 1] <= m * k
<1> DEFINE T == {b \in 0 .. m : c[b + 1] <= b * k}
<1>1. 0 \in T
  <2>1. 0 \in 0 .. m /\ 0 + 1 = 1 /\ c[1] = 0 /\ 0 * k = 0
    BY DEF Offsets
  <2> QED
    BY <2>1
<1>2. ASSUME NEW b \in 1 .. m, b - 1 \in T PROVE b \in T
  <2>1. (b - 1) + 1 = b
    OBVIOUS
  <2>2. c[b] <= (b - 1) * k
    BY <1>2, <2>1
  <2>3. c[b + 1] = c[b] + w[b] /\ w[b] <= k /\ w[b] \in Nat /\ c[b] \in Nat
    BY DEF Offsets
  <2>4. (b - 1) * k + k = b * k /\ (b - 1) * k \in Nat /\ b * k \in Nat
    OBVIOUS
  <2>5. c[b + 1] <= b * k
    BY <2>2, <2>3, <2>4
  <2> QED
    BY <2>5
<1> HIDE DEF T
<1>3. \A b \in 0 .. m : b \in T
  BY <1>1, <1>2, Upwards
<1>4. m \in 0 .. m
  OBVIOUS
<1> QED
  BY <1>3, <1>4 DEF T

\* What the rows of a replay own of kv_indices: the requests their pages, a
\* padded row one entry, the scratch page.
IndicesOwned(q, bs) ==
    LET nPad == bs - Len(q)
        counts == PageCounts(q, nPad)
        indptr == Cumulated(counts)
        x == Indices(q, nPad)
    IN  /\ x \in Seq(Page \cup {Scratch}) /\ Len(x) \in Nat /\ Len(x) <= bs * MaxPages
        /\ \A b \in 1 .. bs : /\ counts[b] \in Nat /\ indptr[b] \in Nat
                              /\ indptr[b + 1] = indptr[b] + counts[b]
                              /\ indptr[b] + counts[b] <= Len(x)
        /\ \A b \in 1 .. Len(q) :
              /\ counts[b] = PagesNeeded(len[q[b]] + 1)
              /\ \A j \in 1 .. counts[b] : x[indptr[b] + j] = table[q[b]][j]
        /\ \A b \in Len(q) + 1 .. bs : counts[b] = 1 /\ x[indptr[b] + 1] = Scratch

\* They own what they should, and the buffer has room for it.
LEMMA IndicesAreOwned ==
    ASSUME TypeInv, NEW q, Batch(q, NextEnds(q)), NEW bs \in Nat, Len(q) <= bs,
           \A b \in 1 .. Len(q) : Len(table[q[b]]) <= MaxPages
    PROVE  IndicesOwned(q, bs)
<1> DEFINE n == Len(q)
           k == bs - n
           real == [b \in 1 .. n |-> PagesNeeded(len[q[b]] + 1)]
           counts == PageCounts(q, k)
           c == Cumulated(real)
           d == Cumulated(counts)
           y == Flattened([b \in 1 .. n |-> SubSeq(table[q[b]], 1, PagesNeeded(len[q[b]] + 1))])
           x == Indices(q, k)
           P == Page \cup {Scratch}
<1>1. n \in Nat \ {0} /\ k \in Nat /\ n + k = bs /\ MaxPages \in Nat \ {0}
  BY BatchOffsets, BucketAssumption
<1>2. \A b \in 1 .. n : NextEnds(q)[b] = len[q[b]] + 1
  BY OneEach
<1>3. \A b \in 1 .. n : /\ real[b] = PagesNeeded(len[q[b]] + 1) /\ real[b] \in Nat
                        /\ real[b] <= MaxPages
  <2> SUFFICES ASSUME NEW b \in 1 .. n
               PROVE  /\ real[b] = PagesNeeded(len[q[b]] + 1) /\ real[b] \in Nat
                      /\ real[b] <= MaxPages
    OBVIOUS
  <2>1. PagesNeeded(NextEnds(q)[b]) \in Nat /\ PagesNeeded(NextEnds(q)[b]) <= Len(table[q[b]])
    BY BatchRows, BeginsRow
  <2>2. real[b] = PagesNeeded(NextEnds(q)[b])
    BY <1>2
  <2>3. table[q[b]] \in Seq(Page)
    BY BatchRows
  <2>4. Len(table[q[b]]) \in Nat /\ Len(table[q[b]]) <= MaxPages
    BY <2>3
  <2> QED
    BY <1>1, <1>2, <2>1, <2>2, <2>4
<1>4. PageTables(q, NextEnds(q)) =
        [b \in 1 .. n |-> SubSeq(table[q[b]], 1, PagesNeeded(len[q[b]] + 1))]
  BY <1>2 DEF PageTables
<1>5. /\ Offsets(c, real, n) /\ y \in Seq(Page) /\ Len(y) = c[n + 1] /\ c[n + 1] \in Nat
      /\ \A b \in 1 .. n : \A j \in 1 .. real[b] :
            y[c[b] + j] = table[q[b]][j] /\ c[b] + j \in 1 .. c[n + 1]
  <2>1. PICK w, e : w = real /\ e = NextEnds(q)
    OBVIOUS
  <2>2. w = [b \in 1 .. Len(q) |-> PagesNeeded(e[b])]
    BY <1>2, <2>1
  <2>3. /\ Offsets(Cumulated(w), w, Len(q))
        /\ Flattened(PageTables(q, e)) \in Seq(Page)
        /\ Len(Flattened(PageTables(q, e))) = Cumulated(w)[Len(q) + 1]
        /\ Cumulated(w)[Len(q) + 1] \in Nat
        /\ \A b \in 1 .. Len(q) : \A j \in 1 .. w[b] :
                /\ Flattened(PageTables(q, e))[Cumulated(w)[b] + j] = table[q[b]][j]
                /\ Cumulated(w)[b] + j \in 1 .. Cumulated(w)[Len(q) + 1]
    <3>1. Batch(q, e)
      BY <2>1
    <3> QED
      BY <2>2, <3>1, PagesOfRows
  <2>4. Flattened(PageTables(q, e)) = y
    BY <1>4, <2>1
  <2> QED
    BY <2>1, <2>3, <2>4
<1>6. /\ counts \in Seq(Nat) /\ Len(counts) = bs
      /\ \A b \in 1 .. n : counts[b] = real[b]
      /\ \A b \in n + 1 .. bs : counts[b] = 1
  <2>1. PICK f, g : f = real /\ g = Repeated(1, k)
    OBVIOUS
  <2>2. counts = f \o g
    BY <2>1 DEF PageCounts
  <2>3. f \in [1 .. n -> Nat] /\ g \in [1 .. k -> Nat]
    <3>1. g = [b \in 1 .. k |-> 1]
      BY <2>1 DEF Repeated
    <3>2. f = [b \in 1 .. n |-> f[b]] /\ \A b \in 1 .. n : f[b] \in Nat
      BY <1>3, <2>1
    <3> QED
      BY <3>1, <3>2
  <2>4. f = [b \in 1 .. n |-> f[b]] /\ g = [b \in 1 .. k |-> g[b]]
    BY <2>3
  <2>5. /\ Len(f \o g) = n + k
        /\ \A b \in 1 .. n : (f \o g)[b] = f[b]
        /\ \A b \in n + 1 .. n + k : (f \o g)[b] = g[b - n]
    BY <1>1, <2>4, RealThenPadded
  <2>6. f \o g \in Seq(Nat)
    <3>1. f \in Seq(Nat) /\ g \in Seq(Nat)
      BY <1>1, <2>3
    <3> QED
      BY ONLY <3>1, Joined
  <2>7. ASSUME NEW b \in n + 1 .. bs PROVE (f \o g)[b] = 1
    <3>1. b \in n + 1 .. n + k /\ b - n \in 1 .. k
      BY <1>1
    <3>2. g[b - n] = 1
      BY <2>1, <3>1 DEF Repeated
    <3> QED
      BY <2>5, <3>1, <3>2
  <2> HIDE DEF counts, k
  <2> QED
    BY <1>1, <2>1, <2>2, <2>5, <2>6, <2>7
<1>7. x = y \o Repeated(Scratch, k)
  BY DEF Indices
<1> HIDE DEF x, y, c, d, counts, real, k
<1>8. Offsets(d, counts, bs)
  BY <1>6, CumulatedOffsets DEF d
<1>9. /\ x \in Seq(P) /\ Len(x) = c[n + 1] + k
      /\ \A i \in 1 .. c[n + 1] : x[i] = y[i]
      /\ \A i \in 1 .. k : x[c[n + 1] + i] = Scratch
  <2>1. PICK g : g = Repeated(Scratch, k)
    OBVIOUS
  <2>2. g \in [1 .. k -> P] /\ \A i \in 1 .. k : g[i] = Scratch
    BY <2>1 DEF Repeated
  <2>3. g \in Seq(P) /\ Len(g) = k /\ y \in Seq(P)
    BY <1>1, <1>5, <2>2
  <2>4. /\ y \o g \in Seq(P) /\ Len(y \o g) = Len(y) + Len(g)
        /\ \A i \in 1 .. Len(y) : (y \o g)[i] = y[i]
        /\ \A i \in 1 .. Len(g) : (y \o g)[Len(y) + i] = g[i]
    <3>1. PICK S : S = P
      OBVIOUS
    <3>2. y \in Seq(S) /\ g \in Seq(S)
      BY <2>3, <3>1
    <3>3. /\ y \o g \in Seq(S) /\ Len(y \o g) = Len(y) + Len(g)
          /\ \A i \in 1 .. Len(y) : (y \o g)[i] = y[i]
          /\ \A i \in 1 .. Len(g) : (y \o g)[Len(y) + i] = g[i]
      BY ONLY <3>2, Joined
    <3> QED
      BY <3>1, <3>3
  <2> QED
    BY <1>5, <1>7, <2>1, <2>2, <2>3, <2>4
<1>10. \A b \in 0 .. n : c[b + 1] = d[b + 1]
  <2>1. n <= bs /\ \A b \in 1 .. n : real[b] = counts[b]
    BY <1>1, <1>6
  <2> QED
    BY <1>1, <1>5, <1>8, <2>1, OffsetsAgree
<1>11. \A b \in 1 .. n : c[b] = d[b]
  <2> SUFFICES ASSUME NEW b \in 1 .. n PROVE c[b] = d[b]
    OBVIOUS
  <2>1. b - 1 \in 0 .. n /\ (b - 1) + 1 = b
    BY <1>1
  <2> QED
    BY <1>10, <2>1
<1>12. d[n + 1] = c[n + 1] /\ d[n + 1] \in Nat
  <2>1. n \in 0 .. n
    BY <1>1
  <2> QED
    BY <1>5, <1>10, <2>1
<1>13. \A b \in n .. bs : d[b + 1] = d[n + 1] + (b - n)
  <2>1. n <= bs /\ \A b \in n + 1 .. bs : counts[b] = 1
    BY <1>1, <1>6
  <2>2. PICK l, m, e, v : l = n /\ m = bs /\ e = d /\ v = counts
    OBVIOUS
  <2>3. /\ l \in Nat /\ m \in Nat /\ l <= m /\ Offsets(e, v, m)
        /\ (\A b \in l + 1 .. m : v[b] = 1) /\ e[l + 1] \in Nat
    BY <1>1, <1>8, <1>12, <2>1, <2>2
  <2>4. \A b \in l .. m : e[b + 1] = e[l + 1] + (b - l)
    BY ONLY <2>3, OffsetsOnes
  <2> QED
    BY <2>2, <2>4
<1>14. d[bs + 1] = Len(x) /\ Len(x) \in Nat /\ Len(x) = c[n + 1] + k
  <2>1. bs \in n .. bs /\ bs - n = k /\ k \in Nat
    BY <1>1 DEF k
  <2>2. d[bs + 1] = d[n + 1] + k
    BY <1>13, <2>1
  <2> QED
    BY <1>9, <1>12, <2>1, <2>2
<1>15. Len(x) <= bs * MaxPages
  <2>1. \A b \in 1 .. bs : counts[b] \in Nat /\ counts[b] <= MaxPages
    <3> SUFFICES ASSUME NEW b \in 1 .. bs PROVE counts[b] \in Nat /\ counts[b] <= MaxPages
      OBVIOUS
    <3>1. CASE b \in 1 .. n
      BY <1>3, <1>6, <3>1
    <3>2. CASE b \in n + 1 .. bs
      <4>1. counts[b] = 1
        BY <1>6, <3>2
      <4> QED
        BY <1>1, <4>1
    <3> QED
      BY <1>1, <3>1, <3>2
  <2>2. d[bs + 1] <= bs * MaxPages
    <3>1. PICK M : M = MaxPages
      OBVIOUS
    <3>2. M \in Nat /\ \A b \in 1 .. bs : counts[b] \in Nat /\ counts[b] <= M
      BY <1>1, <2>1, <3>1
    <3> QED
      BY <1>8, <3>1, <3>2, OffsetsBound
  <2> QED
    BY <1>14, <2>2
<1>16. ASSUME NEW b \in 1 .. bs
       PROVE  /\ counts[b] \in Nat /\ d[b] \in Nat /\ d[b + 1] = d[b] + counts[b]
              /\ d[b] + counts[b] <= Len(x)
  <2>1. counts[b] \in Nat /\ d[b] \in Nat /\ d[b + 1] = d[b] + counts[b]
    BY <1>6, <1>8 DEF Offsets
  <2>2. d[b + 1] <= d[bs + 1]
    <3>1. CASE b = bs
      BY <1>14, <3>1
    <3>2. CASE b # bs
      <4>1. \A i \in 1 .. bs : counts[i] \in Nat
        BY <1>6
      <4>2. bs + 1 \in 1 .. bs + 1 /\ b < bs + 1
        OBVIOUS
      <4> QED
        BY <1>8, <4>1, <4>2, OffsetsGrow
    <3> QED
      BY <3>1, <3>2
  <2> QED
    BY <1>14, <2>1, <2>2
<1>17. ASSUME NEW b \in 1 .. n
       PROVE  /\ counts[b] = PagesNeeded(len[q[b]] + 1)
              /\ \A j \in 1 .. counts[b] : x[d[b] + j] = table[q[b]][j]
  <2>1. counts[b] = real[b] /\ d[b] = c[b]
    BY <1>6, <1>11
  <2>2. ASSUME NEW j \in 1 .. counts[b] PROVE x[d[b] + j] = table[q[b]][j]
    <3>1. y[c[b] + j] = table[q[b]][j] /\ c[b] + j \in 1 .. c[n + 1]
      BY <1>5, <2>1
    <3> QED
      BY <1>9, <2>1, <3>1
  <2> QED
    BY <1>3, <2>1, <2>2
<1>18. ASSUME NEW b \in n + 1 .. bs PROVE counts[b] = 1 /\ x[d[b] + 1] = Scratch
  <2>1. b - 1 \in n .. bs /\ (b - 1) + 1 = b /\ b - n \in 1 .. k /\ b - n \in Int
    BY <1>1
  <2>2. d[b] = d[n + 1] + ((b - 1) - n)
    BY <1>13, <2>1
  <2>3. d[b] + 1 = c[n + 1] + (b - n)
    <3>1. PICK u, v, l, i : u = d[b] /\ v = c[n + 1] /\ l = n /\ i = b
      OBVIOUS
    <3>2. v \in Nat /\ l \in Nat /\ i \in Int /\ u = v + ((i - 1) - l)
      BY <1>1, <1>5, <1>12, <2>2, <3>1
    <3>3. u + 1 = v + (i - l)
      BY ONLY <3>2
    <3> QED
      BY <3>1, <3>3
  <2> QED
    BY <1>6, <1>9, <2>1, <2>3
<1> QED
  BY <1>9, <1>14, <1>15, <1>16, <1>17, <1>18 DEF IndicesOwned, x, d, counts, k

\* What the flashinfer graph finds in kv_indices: what run copied to its
\* front, whatever an earlier batch has left behind that.
LEMMA IndicesInFront ==
    ASSUME TypeInv, NEW q, NEW bs \in Nat, IndicesOwned(q, bs),
           kvIndices[bs] \in [1 .. bs * MaxPages -> Page \cup {Scratch}]
    PROVE  /\ NewIndices(q, bs) \in [1 .. bs * MaxPages -> Page \cup {Scratch}]
           /\ NewIndices(q, bs) \in Seq(Page \cup {Scratch})
           /\ Len(NewIndices(q, bs)) = bs * MaxPages
           /\ \A i \in 1 .. Len(Indices(q, bs - Len(q))) :
                NewIndices(q, bs)[i] = Indices(q, bs - Len(q))[i]
<1>1. PICK x, m, P, z : /\ x = Indices(q, bs - Len(q)) /\ m = bs * MaxPages
                        /\ P = Page \cup {Scratch} /\ z = NewIndices(q, bs)
  OBVIOUS
<1>2. x \in Seq(P) /\ Len(x) \in Nat /\ Len(x) <= m
  BY <1>1 DEF IndicesOwned
<1>3. m \in Nat
  BY <1>1, BucketAssumption
<1>4. z = [i \in 1 .. m |-> IF i <= Len(x) THEN x[i] ELSE kvIndices[bs][i]]
  BY <1>1 DEF NewIndices
<1>5. \A i \in 1 .. Len(x) : x[i] \in P /\ i \in 1 .. m
  BY <1>2, <1>3
<1>6. \A i \in 1 .. m : kvIndices[bs][i] \in P
  BY <1>1
<1>7. \A i \in 1 .. m : z[i] \in P
  <2> SUFFICES ASSUME NEW i \in 1 .. m PROVE z[i] \in P
    OBVIOUS
  <2>1. CASE i <= Len(x)
    <3>1. i \in 1 .. Len(x)
      BY <1>2, <2>1
    <3>2. z[i] = x[i]
      BY <1>4, <2>1
    <3> QED
      BY <1>5, <3>1, <3>2
  <2>2. CASE ~(i <= Len(x))
    BY <1>4, <1>6, <2>2
  <2> QED
    BY <2>1, <2>2
<1>8. z \in [1 .. m -> P]
  BY <1>4, <1>7
<1>9. z \in Seq(P) /\ Len(z) = m
  BY <1>3, <1>8
<1>10. \A i \in 1 .. Len(x) : z[i] = x[i]
  <2> SUFFICES ASSUME NEW i \in 1 .. Len(x) PROVE z[i] = x[i]
    OBVIOUS
  <2>1. i \in 1 .. m /\ i <= Len(x)
    BY <1>2, <1>5
  <2> QED
    BY <1>4, <2>1
<1> QED
  BY <1>1, <1>8, <1>9, <1>10

\* The graph captured for flashinfer.
LEMMA FlashInferRowsFit ==
    ASSUME TypeInv, NEW q, Batch(q, NextEnds(q)), NEW bs \in Nat, Len(q) <= bs,
           bs - Len(q) <= PageSize, \A b \in 1 .. Len(q) : Len(table[q[b]]) <= MaxPages,
           kvIndices[bs] \in [1 .. bs * MaxPages -> Page \cup {Scratch}]
    PROVE  RowsFit("replay", q, NextEnds(q), FlashInferRows(q, bs))
<1> DEFINE n == Len(q)
           k == bs - n
           counts == PageCounts(q, k)
           indptr == Cumulated(counts)
           real == [b \in 1 .. n |-> len[q[b]]]
           last == [b \in 1 .. n |-> (len[q[b]] % PageSize) + 1]
           positions == real \o PadPositions(q, k)
           lastLens == last \o Repeated(1, k)
           x == Indices(q, k)
           indices == NewIndices(q, bs)
           rows == FlashInferRows(q, bs)
           P == Page \cup {Scratch}
<1>1. rows = [b \in 1 .. bs |->
                Row(indices[indptr[b] + positions[b] \div PageSize + 1] * PageSize
                        + (positions[b] % PageSize),
                    {b},
                    SubSeq(indices, indptr[b] + 1, indptr[b + 1]),
                    (indptr[b + 1] - indptr[b] - 1) * PageSize + lastLens[b])]
  BY DEF FlashInferRows
<1>2. ASSUME NEW b \in 1 .. bs
      PROVE  /\ rows[b].target = indices[indptr[b] + positions[b] \div PageSize + 1] * PageSize
                                    + (positions[b] % PageSize)
             /\ rows[b].pages = SubSeq(indices, indptr[b] + 1, indptr[b + 1])
             /\ rows[b].n = (indptr[b + 1] - indptr[b] - 1) * PageSize + lastLens[b]
  <2> HIDE DEF indices, indptr, positions, lastLens, rows
  <2>1. PICK t, p, m :
          /\ t = indices[indptr[b] + positions[b] \div PageSize + 1] * PageSize
                    + (positions[b] % PageSize)
          /\ p = SubSeq(indices, indptr[b] + 1, indptr[b + 1])
          /\ m = (indptr[b + 1] - indptr[b] - 1) * PageSize + lastLens[b]
    OBVIOUS
  <2>2. rows[b] = Row(t, {b}, p, m)
    BY <1>1, <2>1
  <2>3. PICK s : s = {b}
    OBVIOUS
  <2>4. rows[b] = Row(t, s, p, m)
    BY <2>2, <2>3
  <2>5. rows[b].target = t /\ rows[b].pages = p /\ rows[b].n = m
    BY ONLY <2>4, RowIs
  <2> QED
    BY <2>1, <2>5
<1>3. n \in Nat \ {0} /\ k \in Nat /\ n + k = bs /\ PageSize \in Nat \ {0}
  <2>1. n \in Nat \ {0} /\ k \in Nat /\ n + k = bs
    BY BatchOffsets
  <2>2. PageSize \in Nat \ {0}
    BY PoolAssumption
  <2> QED
    BY <2>1, <2>2
<1>4. IndicesOwned(q, bs)
  BY IndicesAreOwned
<1>5. /\ indices \in Seq(P) /\ Len(indices) = bs * MaxPages
      /\ \A i \in 1 .. Len(x) : indices[i] = x[i]
  BY <1>4, IndicesInFront
<1>6. /\ x \in Seq(P) /\ Len(x) \in Nat /\ Len(x) <= bs * MaxPages
      /\ \A b \in 1 .. bs : /\ counts[b] \in Nat /\ indptr[b] \in Nat
                            /\ indptr[b + 1] = indptr[b] + counts[b]
                            /\ indptr[b] + counts[b] <= Len(x)
      /\ \A b \in 1 .. n :
            /\ counts[b] = PagesNeeded(len[q[b]] + 1)
            /\ \A j \in 1 .. counts[b] : x[indptr[b] + j] = table[q[b]][j]
      /\ \A b \in n + 1 .. bs : counts[b] = 1 /\ x[indptr[b] + 1] = Scratch
  BY <1>4 DEF IndicesOwned
<1>7. /\ \A b \in 1 .. n : positions[b] = len[q[b]]
      /\ \A b \in n + 1 .. bs : positions[b] = b - n - 1
  <2>1. PICK f, g : f = real /\ g = PadPositions(q, k)
    OBVIOUS
  <2>2. f = [b \in 1 .. n |-> f[b]] /\ \A b \in 1 .. n : f[b] = len[q[b]]
    BY <2>1
  <2>3. g = [b \in 1 .. k |-> g[b]] /\ \A b \in 1 .. k : g[b] = 0 + b - 1
    BY <2>1 DEF PadPositions, From
  <2>4. /\ \A b \in 1 .. n : (f \o g)[b] = f[b]
        /\ \A b \in n + 1 .. n + k : (f \o g)[b] = g[b - n]
    BY <1>3, <2>2, <2>3, RealThenPadded
  <2>5. positions = f \o g
    BY <2>1
  <2> HIDE DEF positions, k, real
  <2>6. ASSUME NEW b \in n + 1 .. bs PROVE positions[b] = b - n - 1
    <3>1. b \in n + 1 .. n + k /\ b - n \in 1 .. k /\ b \in Int
      BY <1>3
    <3>2. positions[b] = 0 + (b - n) - 1
      BY <2>3, <2>4, <2>5, <3>1
    <3>3. 0 + (b - n) - 1 = b - n - 1
      BY <1>3, <3>1
    <3> QED
      BY <3>2, <3>3
  <2> QED
    BY <2>2, <2>4, <2>5, <2>6
<1>8. \A b \in 1 .. n : lastLens[b] = (len[q[b]] % PageSize) + 1
  <2>1. PICK f, g : f = last /\ g = Repeated(1, k)
    OBVIOUS
  <2>2. f = [b \in 1 .. n |-> f[b]] /\ \A b \in 1 .. n : f[b] = (len[q[b]] % PageSize) + 1
    BY <2>1
  <2>3. g = [b \in 1 .. k |-> g[b]]
    BY <2>1 DEF Repeated
  <2>4. \A b \in 1 .. n : (f \o g)[b] = f[b]
    BY <1>3, <2>2, <2>3, RealThenPadded
  <2>5. lastLens = f \o g
    BY <2>1
  <2> HIDE DEF lastLens
  <2> QED
    BY <2>2, <2>4, <2>5
<1> HIDE DEF rows, indices, indptr, counts, positions, lastLens, x, real, last, k
<1>9. ASSUME NEW b \in 1 .. n PROVE RowFits("replay", rows[b], q[b], len[q[b]])
  <2>1. b \in 1 .. bs
    BY <1>3
  <2>2. PICK p, c, o, s, r : /\ p = len[q[b]] /\ c = counts[b] /\ o = indptr[b]
                             /\ s = table[q[b]] /\ r = q[b]
    OBVIOUS
  <2>3. /\ p \in Nat /\ c \in Nat /\ o \in Nat /\ c = PagesNeeded(p + 1)
        /\ indptr[b + 1] = o + c /\ o + c <= Len(x)
        /\ \A j \in 1 .. c : x[o + j] = s[j]
    <3>1. p \in Nat
      BY <2>2, BatchRows
    <3> QED
      BY <1>6, <2>1, <2>2, <3>1
  <2>4. PICK l : l = Len(x)
    OBVIOUS
  <2>5. \A j \in 1 .. c : indices[o + j] = s[j]
    <3> SUFFICES ASSUME NEW j \in 1 .. c PROVE indices[o + j] = s[j]
      OBVIOUS
    <3>1. l \in Nat /\ o + c <= l
      BY <1>6, <2>3, <2>4
    <3>2. o + j \in 1 .. l
      BY <2>3, <3>1
    <3> QED
      BY <1>5, <2>3, <2>4, <3>2
  <2>6. rows[b].target = SlotOf(s, p)
    <3>1. PICK d : d = p \div PageSize
      OBVIOUS
    <3>2. d \in Nat /\ d + 1 <= c
      <4>1. p + 1 \in Nat /\ p < p + 1
        BY <2>3
      <4> QED
        BY <2>3, <3>1, <4>1, EarlierPage
    <3>3. d + 1 \in 1 .. c /\ o + d + 1 = o + (d + 1)
      BY <2>3, <3>2
    <3>4. indices[o + d + 1] = s[d + 1]
      BY <2>5, <3>3
    <3>5. rows[b].target = indices[o + d + 1] * PageSize + (p % PageSize)
      <4>1. positions[b] = p
        BY <1>7, <2>2
      <4> QED
        BY <1>2, <2>1, <2>2, <3>1, <4>1
    <3> QED
      BY <3>1, <3>4, <3>5 DEF SlotOf
  <2>7. rows[b].n = p + 1
    <3>1. p + 1 \in Nat /\ p + 1 >= 1 /\ (p + 1) - 1 = p
      BY <2>3
    <3>2. (c - 1) * PageSize + ((p % PageSize) + 1) = p + 1
      <4>1. LastPageLen(p + 1) = (p % PageSize) + 1
        BY <3>1 DEF LastPageLen
      <4>2. (PagesNeeded(p + 1) - 1) * PageSize + LastPageLen(p + 1) = p + 1
        BY <3>1, LastPage
      <4> QED
        BY <2>3, <4>1, <4>2
    <3>3. indptr[b + 1] - indptr[b] - 1 = c - 1
      <4>1. indptr[b + 1] = o + c /\ indptr[b] = o
        BY <2>2, <2>3
      <4>2. (o + c) - o - 1 = c - 1
        BY <2>3
      <4> QED
        BY <4>1, <4>2
    <3>4. lastLens[b] = (p % PageSize) + 1
      BY <1>8, <2>2
    <3> QED
      BY <1>2, <2>1, <3>2, <3>3, <3>4
  <2>8. Begins(rows[b].pages, r, p + 1)
    <3> SUFFICES ASSUME NEW j \in 1 .. c PROVE rows[b].pages[j] = s[j]
      BY <2>2, <2>3 DEF Begins
    <3>1. rows[b].pages = SubSeq(indices, o + 1, o + c)
      BY <1>2, <2>1, <2>2, <2>3
    <3>2. o + c <= Len(indices)
      <4>1. PICK m : m = bs * MaxPages
        OBVIOUS
      <4>2. m \in Nat /\ l \in Nat /\ o + c <= l /\ l <= m
        BY <1>6, <2>3, <2>4, <4>1, BucketAssumption
      <4> QED
        BY <1>5, <2>3, <4>1, <4>2
    <3>3. SubSeq(indices, o + 1, o + c)[j] = indices[o + j]
      BY <1>5, <2>3, <3>2, SubSeqAt
    <3> QED
      BY <2>5, <3>1, <3>3
  <2> QED
    BY <2>2, <2>6, <2>7, <2>8 DEF RowFits
<1>10. ASSUME NEW b \in n + 1 .. bs PROVE rows[b].target = b - n - 1
  <2>1. b \in 1 .. bs /\ b \in Int
    BY <1>3
  <2>2. PICK a, o : a = b - n - 1 /\ o = indptr[b]
    OBVIOUS
  <2>3. a \in Nat /\ a < PageSize
    BY <1>3, <2>1, <2>2 DEF k
  <2>4. a \div PageSize = 0 /\ a % PageSize = a
    <3>1. 0 * PageSize + a = a /\ a \in 0 .. PageSize - 1
      BY <1>3, <2>3
    <3>2. a \div PageSize = 0
      BY <3>1, Quotients
    <3>3. a % PageSize \in 0 .. PageSize - 1 /\ a = (a \div PageSize) * PageSize + (a % PageSize)
      BY <2>3, Divided
    <3> QED
      BY <1>3, <2>3, <3>2, <3>3
  <2>5. indices[o + 0 + 1] = Scratch
    <3>1. o \in Nat /\ o + 1 <= Len(x) /\ x[o + 1] = Scratch /\ Len(x) \in Nat
      BY <1>6, <2>1, <2>2
    <3>2. o + 1 \in 1 .. Len(x) /\ o + 0 + 1 = o + 1
      BY <3>1
    <3> QED
      BY <1>5, <3>1, <3>2
  <2>6. rows[b].target = indices[o + 0 + 1] * PageSize + a
    <3>1. positions[b] = a
      BY <1>7, <2>2
    <3> QED
      BY <1>2, <2>1, <2>2, <2>4, <3>1
  <2>7. rows[b].target = 0 * PageSize + a
    BY <2>5, <2>6 DEF Scratch
  <2>8. 0 * PageSize + a = a
    BY <1>3, <2>3
  <2> QED
    BY <2>2, <2>7, <2>8
<1>11. rows = [b \in 1 .. bs |-> rows[b]]
  BY <1>1
<1>12. RowsFit("replay", q, NextEnds(q), rows)
  BY <1>9, <1>10, <1>11, ReplayFit
<1> QED
  BY <1>12 DEF rows

-------------------------------------------------------------------------------
(* A forward whose rows fit. *)

\* The requests of a batch, and how far each is taken.
Members(q) == {q[b] : b \in 1 .. Len(q)}
EndOf(q, end) == [r \in Members(q) |-> end[CHOOSE b \in 1 .. Len(q) : q[b] = r]]

\* A request is in one row only.
LEMMA EndsOfRows ==
    ASSUME TypeInv, NEW q, NEW end, Batch(q, end)
    PROVE  /\ Members(q) \in SUBSET Request
           /\ \A b \in 1 .. Len(q) : (CHOOSE d \in 1 .. Len(q) : q[d] = q[b]) = b
           /\ \A b \in 1 .. Len(q) : q[b] \in Members(q) /\ EndOf(q, end)[q[b]] = end[b]
           /\ EndOf(q, end) \in [Members(q) -> 1 .. MaxLen]
<1>1. Members(q) \in SUBSET Request
  BY BatchRows DEF Members
<1>2. ASSUME NEW b \in 1 .. Len(q) PROVE (CHOOSE d \in 1 .. Len(q) : q[d] = q[b]) = b
  <2>1. \A d \in 1 .. Len(q) : q[d] = q[b] => d = b
    BY DEF Batch
  <2> QED
    BY <2>1
<1>3. ASSUME NEW b \in 1 .. Len(q)
      PROVE  q[b] \in Members(q) /\ EndOf(q, end)[q[b]] = end[b]
  <2>1. q[b] \in Members(q)
    BY DEF Members
  <2> QED
    BY <1>2, <2>1 DEF EndOf
<1>4. \A r \in Members(q) : EndOf(q, end)[r] \in 1 .. MaxLen
  <2> SUFFICES ASSUME NEW b \in 1 .. Len(q) PROVE end[b] \in 1 .. MaxLen
    BY <1>3 DEF Members
  <2>1. /\ end[b] \in Nat /\ end[b] <= MaxLen /\ len[q[b]] < end[b] /\ len[q[b]] \in Nat
    BY BatchRows
  <2> QED
    BY <2>1, LenAssumption
<1>5. EndOf(q, end) = [r \in Members(q) |-> EndOf(q, end)[r]]
  BY DEF EndOf
<1>6. EndOf(q, end) \in [Members(q) -> 1 .. MaxLen]
  BY <1>4, <1>5
<1> QED
  BY <1>1, <1>2, <1>3, <1>6

\* What is known of one packed token.
IsToken(x, q, end) ==
    /\ x = <<x[1], x[2]>> /\ x[1] \in Request /\ x[2] \in Nat
    /\ x \in Fed(Members(q), EndOf(q, end)) /\ x[2] < EndOf(q, end)[x[1]]
    /\ x[2] < Len(table[x[1]]) * PageSize

\* Each packed token is one that its batch is fed, and its row fits it.
LEMMA TokenIs ==
    ASSUME TypeInv, NEW kind, NEW q, NEW end, Batch(q, end),
           NEW rows, RowsFit(kind, q, end, rows),
           NEW t \in 1 .. Len(Packed(q, end))
    PROVE  /\ IsToken(Packed(q, end)[t], q, end)
           /\ RowFits(kind, rows[t], Packed(q, end)[t][1], Packed(q, end)[t][2])
<1>1. PICK x : x = Packed(q, end)[t]
  OBVIOUS
<1>2. t \in 1 .. Starts(q, end)[Len(q) + 1]
  BY PackedTokens
<1>3. PICK b \in 1 .. Len(q) : \E i \in 1 .. QLens(q, end)[b] : t = Starts(q, end)[b] + i
  BY <1>2, BatchToken
<1>4. PICK i \in 1 .. QLens(q, end)[b] : t = Starts(q, end)[b] + i
  BY <1>3
<1>5. x = <<q[b], len[q[b]] + i - 1>>
  BY <1>1, <1>4, TokenAt
<1>6. RowFits(kind, rows[t], q[b], len[q[b]] + i - 1)
  BY <1>4 DEF RowsFit
<1>7. PICK r, p, n, e, l : /\ r = q[b] /\ p = len[q[b]] + i - 1 /\ n = len[q[b]] /\ e = end[b]
                           /\ l = Len(table[r])
  OBVIOUS
<1>8. /\ r \in Request /\ n \in Nat /\ e \in Nat /\ e <= MaxLen /\ n < e
      /\ table[r] \in Seq(Page) /\ PagesNeeded(e) <= l
      /\ i \in 1 .. e - n /\ l \in Nat
  <2>1. /\ r \in Request /\ n \in Nat /\ e \in Nat /\ e <= MaxLen /\ n < e
        /\ table[r] \in Seq(Page) /\ PagesNeeded(e) <= l /\ QLens(q, end)[b] = e - n
    BY <1>7, BatchRows
  <2> QED
    BY <1>7, <2>1
<1>9. p \in Nat /\ p >= n /\ p < e /\ p \in 0 .. MaxLen
  BY <1>7, <1>8, LenAssumption
<1>10. x = <<r, p>> /\ x[1] = r /\ x[2] = p
  BY <1>5, <1>7
<1>11. r \in Members(q) /\ EndOf(q, end)[r] = e
  BY <1>7, EndsOfRows
<1>12. x \in Fed(Members(q), EndOf(q, end))
  <2>1. x \in Members(q) \X (0 .. MaxLen)
    BY <1>9, <1>10, <1>11
  <2>2. x[2] >= len[x[1]] /\ x[2] < EndOf(q, end)[x[1]]
    BY <1>7, <1>9, <1>10, <1>11
  <2> QED
    BY <2>1, <2>2 DEF Fed
<1>13. p < l * PageSize
  <2>1. e <= l * PageSize
    BY <1>8, EnoughPages
  <2>2. l * PageSize \in Nat
    BY <1>8, PoolAssumption
  <2> QED
    BY <1>8, <1>9, <2>1, <2>2
<1>14. IsToken(x, q, end)
  BY <1>7, <1>8, <1>9, <1>10, <1>11, <1>12, <1>13 DEF IsToken
<1>15. RowFits(kind, rows[t], r, p)
  BY <1>6, <1>7
<1> QED
  BY <1>1, <1>10, <1>14, <1>15

\* Each token is packed once.
LEMMA TokenOnce ==
    ASSUME TypeInv, NEW q, NEW end, Batch(q, end),
           NEW t \in 1 .. Len(Packed(q, end)), NEW u \in 1 .. Len(Packed(q, end)),
           Packed(q, end)[t] = Packed(q, end)[u]
    PROVE  t = u
<1>1. t \in 1 .. Starts(q, end)[Len(q) + 1] /\ u \in 1 .. Starts(q, end)[Len(q) + 1]
  BY PackedTokens
<1>2. PICK b \in 1 .. Len(q) : \E i \in 1 .. QLens(q, end)[b] : t = Starts(q, end)[b] + i
  BY <1>1, BatchToken
<1>3. PICK i \in 1 .. QLens(q, end)[b] : t = Starts(q, end)[b] + i
  BY <1>2
<1>4. PICK d \in 1 .. Len(q) : \E j \in 1 .. QLens(q, end)[d] : u = Starts(q, end)[d] + j
  BY <1>1, BatchToken
<1>5. PICK j \in 1 .. QLens(q, end)[d] : u = Starts(q, end)[d] + j
  BY <1>4
<1>6. PICK p, o : p = len[q[b]] + i - 1 /\ o = len[q[d]] + j - 1
  OBVIOUS
<1>7. q[b] = q[d] /\ p = o
  <2>1. Packed(q, end)[t] = <<q[b], p>>
    BY <1>3, <1>6, TokenAt
  <2>2. Packed(q, end)[u] = <<q[d], o>>
    BY <1>5, <1>6, TokenAt
  <2>3. PICK x, y : x = q[b] /\ y = q[d]
    OBVIOUS
  <2>4. <<x, p>> = <<y, o>>
    BY <2>1, <2>2, <2>3
  <2>5. x = y /\ p = o
    BY ONLY <2>4
  <2> QED
    BY <2>3, <2>5
<1>8. b = d
  BY <1>7 DEF Batch
<1>9. len[q[b]] \in Nat /\ QLens(q, end)[b] \in Nat
  BY BatchRows
<1>10. i = j
  BY <1>6, <1>7, <1>8, <1>9
<1> QED
  BY <1>3, <1>5, <1>8, <1>10

\* What a batch is fed is what is packed.
LEMMA FedIsPacked ==
    ASSUME TypeInv, NEW q, NEW end, Batch(q, end),
           NEW x \in Fed(Members(q), EndOf(q, end))
    PROVE  \E t \in 1 .. Len(Packed(q, end)) : Packed(q, end)[t] = x
<1>1. /\ x \in Members(q) \X (0 .. MaxLen) /\ x[2] >= len[x[1]]
      /\ x[2] < EndOf(q, end)[x[1]]
  BY DEF Fed
<1>2. PICK b \in 1 .. Len(q) : x[1] = q[b]
  BY <1>1 DEF Members
<1>3. PICK r, p, n, e : r = q[b] /\ p = x[2] /\ n = len[q[b]] /\ e = end[b]
  OBVIOUS
<1>4. x = <<r, p>> /\ p \in Nat /\ n \in Nat /\ e \in Nat /\ n <= p /\ p < e
  <2>1. EndOf(q, end)[q[b]] = e
    BY <1>3, EndsOfRows
  <2>2. n \in Nat /\ e \in Nat
    BY <1>3, BatchRows
  <2>3. p \in Nat
    BY <1>1, <1>3, LenAssumption
  <2> QED
    BY <1>1, <1>2, <1>3, <2>1, <2>2, <2>3
<1>5. p - n + 1 \in 1 .. QLens(q, end)[b]
  <2>1. QLens(q, end)[b] = e - n
    BY <1>3, BatchRows
  <2> QED
    BY <1>4, <2>1
<1>6. PICK i : i = p - n + 1
  OBVIOUS
<1>7. i \in 1 .. QLens(q, end)[b] /\ n + i - 1 = p
  <2>1. n + (p - n + 1) - 1 = p
    BY <1>4
  <2> QED
    BY <1>5, <1>6, <2>1
<1>8. Packed(q, end)[Starts(q, end)[b] + i] = <<q[b], len[q[b]] + i - 1>>
  BY <1>7, TokenAt
<1>9. Starts(q, end)[b] + i \in 1 .. Len(Packed(q, end))
  BY <1>7, BatchPlace, PackedTokens
<1> QED
  BY <1>3, <1>4, <1>7, <1>8, <1>9

\* A slot a row writes is its token's alone, if the row has a token.
LEMMA WritersOf ==
    ASSUME SlotsInv, NEW kind, NEW q, NEW end, Batch(q, end),
           NEW rows, RowsFit(kind, q, end, rows),
           NEW t \in 1 .. Len(rows), NEW u \in 1 .. Len(rows), rows[t].target = rows[u].target
    PROVE  /\ t = u
           /\ rows[t].target \in Slot => t \in 1 .. Len(Packed(q, end))
<1> USE DEF SlotsInv
<1>1. PICK m, n : m = Len(Packed(q, end)) /\ n = Len(rows)
  OBVIOUS
<1>2. /\ m \in Nat /\ n \in Nat /\ m <= n
      /\ \A i \in m + 1 .. n : rows[i].target \in 0 .. PageSize - 1
      /\ \A i, j \in m + 1 .. n : rows[i].target = rows[j].target => i = j
  <2>1. Packed(q, end) \in Seq(Request \X Nat) /\ m = Starts(q, end)[Len(q) + 1]
    BY <1>1, PackedTokens
  <2>2. PICK S, s : S = Request \X Nat /\ s = Packed(q, end)
    OBVIOUS
  <2>3. s \in Seq(S) /\ m = Len(s)
    BY <1>1, <2>1, <2>2
  <2>4. m \in Nat
    BY ONLY <2>3
  <2> QED
    BY <1>1, <2>1, <2>4 DEF RowsFit
<1>3. ASSUME NEW i \in 1 .. m
      PROVE  /\ IsToken(Packed(q, end)[i], q, end)
             /\ rows[i].target = SlotOf(table[Packed(q, end)[i][1]], Packed(q, end)[i][2])
             /\ rows[i].target \in Slot
  <2>1. /\ IsToken(Packed(q, end)[i], q, end)
        /\ RowFits(kind, rows[i], Packed(q, end)[i][1], Packed(q, end)[i][2])
    BY <1>1, TokenIs
  <2>2. PICK x : x = Packed(q, end)[i]
    OBVIOUS
  <2>3. x[1] \in Request /\ x[2] \in Nat /\ x[2] < Len(table[x[1]]) * PageSize
    BY <2>1, <2>2 DEF IsToken
  <2>4. SlotOf(table[x[1]], x[2]) \in Slot
    BY <2>3, SlotOfPosition
  <2> QED
    BY <2>1, <2>2, <2>4 DEF RowFits
<1>4. 0 .. PageSize - 1 \cap Slot = {}
  BY PoolAssumption DEF Slot
<1>5. ASSUME NEW i \in m + 1 .. n PROVE rows[i].target \notin Slot
  BY <1>2, <1>4
<1>6. \A i \in 1 .. n : i \in 1 .. m \/ i \in m + 1 .. n
  BY <1>2
<1>7. t \in 1 .. n /\ u \in 1 .. n
  BY <1>1
<1>8. CASE t \in 1 .. m /\ u \in 1 .. m
  <2>1. PICK x, y : x = Packed(q, end)[t] /\ y = Packed(q, end)[u]
    OBVIOUS
  <2>2. /\ x = <<x[1], x[2]>> /\ x[1] \in Request /\ x[2] \in Nat
        /\ x[2] < Len(table[x[1]]) * PageSize
    BY <1>3, <1>8, <2>1 DEF IsToken
  <2>3. /\ y = <<y[1], y[2]>> /\ y[1] \in Request /\ y[2] \in Nat
        /\ y[2] < Len(table[y[1]]) * PageSize
    BY <1>3, <1>8, <2>1 DEF IsToken
  <2>4. SlotOf(table[x[1]], x[2]) = SlotOf(table[y[1]], y[2])
    BY <1>3, <1>8, <2>1
  <2>5. x[1] = y[1] /\ x[2] = y[2]
    BY <2>2, <2>3, <2>4, OwnSlot
  <2>6. x = y
    BY <2>2, <2>3, <2>5
  <2>7. t = u
    BY <1>1, <1>8, <2>1, <2>6, TokenOnce
  <2> QED
    BY <1>1, <1>8, <2>7
<1>9. CASE t \in m + 1 .. n /\ u \in m + 1 .. n
  BY <1>2, <1>5, <1>9
<1>10. CASE t \in 1 .. m /\ u \in m + 1 .. n
  BY <1>3, <1>5, <1>10
<1>11. CASE t \in m + 1 .. n /\ u \in 1 .. m
  BY <1>3, <1>5, <1>11
<1> QED
  BY <1>6, <1>7, <1>8, <1>9, <1>10, <1>11

\* A forward whose rows fit writes its batch's tokens and nothing else.
LEMMA ForwardWrites ==
    ASSUME SlotsInv, NEW kind, NEW q, NEW end, Batch(q, end),
           NEW rows, RowsFit(kind, q, end, rows),
           NEW picked, Forward(kind, q, end, rows, Packed(q, end), picked)
    PROVE  Write(Members(q), EndOf(q, end))
<1> USE DEF SlotsInv
<1> DEFINE tokens == Packed(q, end)
           written(t) == IF t <= Len(tokens) THEN tokens[t] ELSE Unwritten
           writers(s) == {t \in 1 .. Len(rows) : rows[t].target = s}
           R == Members(q)
           e == EndOf(q, end)
           fits(s, x) == s = SlotOf(table[x[1]], x[2])
<1>1. kv' = [s \in Slot |-> IF writers(s) = {} THEN kv[s]
                            ELSE written(CHOOSE t \in writers(s) : \A u \in writers(s) : u <= t)]
  BY DEF Forward
<1>2. PICK m, n : m = Len(tokens) /\ n = Len(rows)
  OBVIOUS
<1>3. m \in Nat /\ n \in Nat /\ m <= n
  <2>1. tokens \in Seq(Request \X Nat) /\ m = Starts(q, end)[Len(q) + 1]
    BY <1>2, PackedTokens
  <2>2. PICK S, s : S = Request \X Nat /\ s = tokens
    OBVIOUS
  <2>3. s \in Seq(S) /\ m = Len(s)
    BY <1>2, <2>1, <2>2
  <2>4. m \in Nat
    BY ONLY <2>3
  <2> QED
    BY <1>2, <2>1, <2>4 DEF RowsFit
<1>4. ASSUME NEW t \in 1 .. m
      PROVE  /\ IsToken(tokens[t], q, end) /\ tokens[t] \in Fed(R, e)
             /\ fits(rows[t].target, tokens[t])
  <2>1. IsToken(tokens[t], q, end) /\ RowFits(kind, rows[t], tokens[t][1], tokens[t][2])
    BY <1>2, TokenIs
  <2> QED
    BY <2>1 DEF RowFits, IsToken
<1>5. ASSUME NEW s \in Slot, NEW t \in 1 .. m, rows[t].target = s
      PROVE  /\ written(CHOOSE i \in writers(s) : \A u \in writers(s) : u <= i) = tokens[t]
             /\ writers(s) # {}
  <2>1. t \in 1 .. n
    BY <1>3
  <2>2. t \in writers(s)
    BY <1>2, <1>5, <2>1
  <2>3. \A u \in writers(s) : u = t
    BY <1>5, <1>2, <2>1, WritersOf
  <2>4. writers(s) = {t}
    BY <2>2, <2>3
  <2>5. (CHOOSE i \in {t} : \A u \in {t} : u <= i) = t
    BY <2>1
  <2>6. written(t) = tokens[t]
    BY <1>2, <1>3
  <2> HIDE DEF written, writers
  <2> QED
    BY <2>4, <2>5, <2>6
<1>6. ASSUME NEW x \in Fed(R, e) PROVE \E t \in 1 .. m : tokens[t] = x
  BY <1>2, FedIsPacked
<1> HIDE DEF tokens, R, e, written
<1>7. ASSUME NEW s \in Slot, NEW x \in Fed(R, e), fits(s, x)
      PROVE  kv'[s] = x /\ (CHOOSE y \in Fed(R, e) : fits(s, y)) = x
  <2>1. PICK t \in 1 .. m : tokens[t] = x
    BY <1>6
  <2>2. rows[t].target = s
    BY <1>4, <1>7, <2>1
  <2>3. kv'[s] = x
    BY <1>1, <1>5, <2>1, <2>2
  <2>4. ASSUME NEW y \in Fed(R, e), fits(s, y) PROVE y = x
    <3>1. PICK u \in 1 .. m : tokens[u] = y
      BY <1>6
    <3>2. rows[u].target = s
      BY <1>4, <2>4, <3>1
    <3>3. t \in 1 .. n /\ u \in 1 .. n
      BY <1>3
    <3>4. t = u
      BY <1>2, <2>2, <3>2, <3>3, WritersOf
    <3> QED
      BY <2>1, <3>1, <3>4
  <2>5. (CHOOSE y \in Fed(R, e) : fits(s, y)) = x
    BY <1>7, <2>4
  <2> QED
    BY <2>3, <2>5
<1>8. ASSUME NEW s \in Slot, ~\E x \in Fed(R, e) : fits(s, x) PROVE kv'[s] = kv[s]
  <2>1. ASSUME NEW t \in writers(s) PROVE FALSE
    <3>1. t \in 1 .. Len(rows) /\ rows[t].target = s
      OBVIOUS
    <3>2. t \in 1 .. m
      BY <1>2, <3>1, WritersOf DEF tokens
    <3> QED
      BY <1>4, <1>8, <3>1, <3>2
  <2> QED
    BY <1>1, <2>1
<1>9. kv' = [s \in Slot |-> IF \E x \in Fed(R, e) : fits(s, x)
                            THEN CHOOSE x \in Fed(R, e) : fits(s, x) ELSE kv[s]]
  <2>1. \A s \in Slot : kv'[s] = IF \E x \in Fed(R, e) : fits(s, x)
                                 THEN CHOOSE x \in Fed(R, e) : fits(s, x) ELSE kv[s]
    <3> SUFFICES ASSUME NEW s \in Slot
                 PROVE  kv'[s] = IF \E x \in Fed(R, e) : fits(s, x)
                                 THEN CHOOSE x \in Fed(R, e) : fits(s, x) ELSE kv[s]
      OBVIOUS
    <3>1. CASE \E x \in Fed(R, e) : fits(s, x)
      <4>1. PICK x \in Fed(R, e) : fits(s, x)
        BY <3>1
      <4>2. kv'[s] = x /\ (CHOOSE y \in Fed(R, e) : fits(s, y)) = x
        BY <1>7, <4>1
      <4> HIDE DEF fits
      <4> QED
        BY <3>1, <4>2
    <3>2. CASE ~\E x \in Fed(R, e) : fits(s, x)
      BY <1>8, <3>2
    <3> QED
      BY <3>1, <3>2
  <2>2. kv' = [s \in Slot |-> kv'[s]]
    BY <1>1
  <2> QED
    BY <2>1, <2>2
<1>10. len' = [r \in Request |-> IF r \in R THEN e[r] ELSE len[r]]
  <2>1. len' = [r \in Request |-> IF \E b \in 1 .. Len(q) : q[b] = r
                                  THEN end[CHOOSE b \in 1 .. Len(q) : q[b] = r] ELSE len[r]]
    BY DEF Forward
  <2>2. \A r \in Request : (\E b \in 1 .. Len(q) : q[b] = r) <=> r \in R
    BY DEF R, Members
  <2>3. \A r \in R : e[r] = end[CHOOSE b \in 1 .. Len(q) : q[b] = r]
    BY DEF R, e, EndOf
  <2> QED
    BY <2>1, <2>2, <2>3
<1>11. ASSUME NEW r \in R PROVE e[r] \in len[r] + 1 .. MaxLen /\ HasPages(r, e[r])
  <2>1. PICK b \in 1 .. Len(q) : r = q[b]
    BY DEF R, Members
  <2>2. e[r] = end[b]
    BY <2>1, EndsOfRows DEF e
  <2> QED
    BY <2>1, <2>2 DEF Batch
<1>12. UNCHANGED <<table, free>>
  BY DEF Forward
<1> QED
  BY <1>9, <1>10, <1>11, <1>12 DEF Write, R, e

\* What such a forward does is right: it keeps every request's KV in place,
\* its writes do not race, each token reads its request's KV up to itself
\* (given one query for each) and each request is sampled from its last token.
LEMMA ForwardIsRight ==
    ASSUME SlotsInv, NEW kind, NEW q, NEW end, Batch(q, end),
           NEW rows, RowsFit(kind, q, end, rows),
           NEW picked, \A b \in 1 .. Len(q) : picked[b] = Starts(q, end)[b + 1],
           Forward(kind, q, end, rows, Packed(q, end), picked)
    PROVE  /\ SlotsNext /\ SlotsInv'
           /\ RowsDoNotRace' /\ ReadsOwnHistory' /\ SamplesLastToken'
<1> DEFINE tokens == Packed(q, end)
           e == EndOf(q, end)
           at(p, i) == LET s == SlotOf(p, i) IN IF s \in Slot THEN kv'[s] ELSE Unwritten
<1>1. Write(Members(q), e)
  BY ForwardWrites
<1>2. /\ Members(q) \in SUBSET Request /\ e \in [Members(q) -> 1 .. MaxLen]
      /\ \A b \in 1 .. Len(q) : q[b] \in Members(q) /\ e[q[b]] = end[b]
  BY EndsOfRows DEF SlotsInv
<1>3. SlotsInv'
  BY <1>1, <1>2, WriteKeeps
<1>4. SlotsNext
  <2>1. Len(q) \in Nat \ {0}
    BY BatchOffsets DEF SlotsInv
  <2>2. Members(q) # {}
    BY <1>2, <2>1
  <2> QED
    BY <1>1, <1>2, <2>2 DEF SlotsNext
<1>5. /\ table' = table
      /\ \A r \in Members(q) : len'[r] = e[r]
  BY <1>1, <1>2 DEF Write
<1>6. /\ launch'.kind = kind /\ backend' = backend
      /\ launch'.reqs = q /\ launch'.tokens = tokens
      /\ launch'.picked = [b \in 1 .. Len(q) |-> tokens[picked[b]]]
      /\ launch'.targets = [t \in 1 .. Len(rows) |-> rows[t].target]
      /\ launch'.reads = [t \in 1 .. Len(tokens) |->
                            [i \in 1 .. rows[t].n |-> at(rows[t].pages, i - 1)]]
  BY DEF Forward
<1> HIDE DEF tokens, e, at
<1>7. RowsDoNotRace'
  <2>1. PICK n : n = Len(rows)
    OBVIOUS
  <2>2. n \in Nat
    BY <2>1 DEF RowsFit
  <2>3. PICK x : x = launch'.targets
    OBVIOUS
  <2>4. x = [t \in 1 .. n |-> rows[t].target]
    BY <1>6, <2>1, <2>3
  <2>5. Len(x) = n
    <3>1. x = [t \in 1 .. n |-> x[t]]
      BY <2>4
    <3> QED
      BY <2>2, <3>1, LengthOf
  <2>6. ASSUME NEW t \in 1 .. n, NEW u \in 1 .. n, x[t] = x[u] PROVE t = u
    <3>1. rows[t].target = rows[u].target
      BY <2>4, <2>6
    <3> QED
      BY <2>1, <3>1, WritersOf
  <2> QED
    BY <2>3, <2>5, <2>6 DEF RowsDoNotRace
<1>8. ReadsOwnHistory'
  <2> SUFFICES ASSUME OneQueryEach(kind), NEW t \in 1 .. Len(tokens)
               PROVE  launch'.reads[t] = [i \in 1 .. tokens[t][2] + 1 |-> <<tokens[t][1], i - 1>>]
    BY <1>6 DEF ReadsOwnHistory, OneQueryEach
  <2>1. PICK r, p, s : r = tokens[t][1] /\ p = tokens[t][2] /\ s = rows[t].pages
    OBVIOUS
  <2>2. IsToken(tokens[t], q, end) /\ RowFits(kind, rows[t], r, p)
    BY <2>1, TokenIs DEF tokens, SlotsInv
  <2>3. /\ r \in Request /\ p \in Nat /\ p < e[r] /\ p < Len(table[r]) * PageSize
        /\ tokens[t] \in Fed(Members(q), e)
    BY <2>1, <2>2 DEF IsToken, e
  <2>4. r \in Members(q)
    BY <2>1, <2>3 DEF Fed
  <2>5. len'[r] = e[r] /\ e[r] \in 1 .. MaxLen
    BY <1>2, <1>5, <2>4
  <2>6. rows[t].n = p + 1 /\ Begins(s, r, p + 1)
    BY <2>1, <2>2 DEF RowFits
  <2>7. ASSUME NEW i \in 1 .. p + 1 PROVE at(s, i - 1) = <<r, i - 1>>
    <3>1. PICK k : k = i - 1
      OBVIOUS
    <3>2. k \in Nat /\ k <= p /\ k \in 0 .. (p + 1) - 1 /\ p + 1 \in Nat
      BY <2>3, <3>1
    <3>3. SlotOf(s, k) = SlotOf(table[r], k)
      BY <2>6, <3>2, BeginsFinds
    <3>4. SlotOf(table[r], k) \in Slot
      <4>1. Len(table[r]) * PageSize \in Int
        <5>1. table[r] \in Seq(Page)
          BY <2>3 DEF SlotsInv, TypeInv
        <5> QED
          BY <5>1, PoolAssumption
      <4>2. k < Len(table[r]) * PageSize
        BY <2>3, <3>2, <4>1
      <4> QED
        BY <2>3, <3>2, <4>2, SlotOfPosition DEF SlotsInv
    <3>5. kv'[SlotOf(table[r], k)] = <<r, k>>
      <4>1. k \in 0 .. len'[r] - 1
        BY <2>3, <2>5, <3>2, LenAssumption
      <4>2. kv'[SlotOf(table'[r], k)] = <<r, k>>
        BY <1>3, <2>3, <4>1 DEF SlotsInv, HoldsOwnHistory
      <4> QED
        BY <1>5, <4>2
    <3> QED
      BY <3>1, <3>3, <3>4, <3>5 DEF at
  <2>8. launch'.reads[t] = [i \in 1 .. p + 1 |-> at(s, i - 1)]
    BY <1>6, <2>1, <2>6
  <2>9. launch'.reads[t] = [i \in 1 .. p + 1 |-> <<r, i - 1>>]
    BY <2>7, <2>8
  <2> QED
    BY <2>1, <2>9
<1>9. SamplesLastToken'
  <2> SUFFICES ASSUME NEW b \in 1 .. Len(q)
               PROVE  launch'.picked[b] = <<q[b], len'[q[b]] - 1>>
    BY <1>6 DEF SamplesLastToken
  <2>1. PICK w, n, c : w = QLens(q, end)[b] /\ n = len[q[b]] /\ c = Starts(q, end)[b]
    OBVIOUS
  <2>2. /\ w = end[b] - n /\ w \in Nat /\ w >= 1 /\ n \in Nat /\ end[b] \in Nat
    BY <2>1, BatchRows DEF SlotsInv
  <2>3. Starts(q, end)[b + 1] = c + w
    BY <2>1, NextStart DEF SlotsInv
  <2>4. w \in 1 .. QLens(q, end)[b]
    BY <2>1, <2>2
  <2>5. tokens[c + w] = <<q[b], n + w - 1>>
    <3>1. Packed(q, end)[Starts(q, end)[b] + w] = <<q[b], len[q[b]] + w - 1>>
      BY <2>4, TokenAt DEF SlotsInv
    <3> QED
      BY <2>1, <3>1 DEF tokens
  <2>6. n + w - 1 = end[b] - 1
    BY <2>2
  <2>7. len'[q[b]] = end[b]
    BY <1>2, <1>5
  <2>8. launch'.picked[b] = tokens[c + w]
    BY <1>6, <2>3
  <2> QED
    BY <2>5, <2>6, <2>7, <2>8
<1> QED
  BY <1>3, <1>4, <1>7, <1>8, <1>9

-------------------------------------------------------------------------------
(* The steps. *)

\* Everything a run checks of a state, with what its proof needs.
GraphInv ==
    /\ SlotsInv
    /\ \A bs \in Buckets : kvIndices[bs] \in [1 .. bs * MaxPages -> Page \cup {Scratch}]
    /\ kvIndices = [bs \in Buckets |-> kvIndices[bs]]
    /\ backend \in Backends
    /\ RowsDoNotRace /\ ReadsOwnHistory /\ SamplesLastToken

\* What the steps call a batch is one, when its page tables have been grown.
LEMMA BatchOf ==
    ASSUME TypeInv, NEW R \in SUBSET Request, NEW q \in Batches(R), NEW end,
           end = [b \in 1 .. Len(q) |-> end[b]],
           \A b \in 1 .. Len(q) : end[b] \in len[q[b]] + 1 .. MaxLen, Grown(q, end)
    PROVE  Batch(q, end)
<1>1. PICK n \in 1 .. Cardinality(R) : q \in [1 .. n -> R]
  BY DEF Batches
<1>2. n \in Nat /\ n >= 1
  OBVIOUS
<1>3. q \in Seq(Request) /\ Len(q) = n /\ q # <<>>
  <2>1. q \in [1 .. n -> Request]
    BY <1>1
  <2>2. q \in Seq(Request) /\ Len(q) = n
    BY <1>2, <2>1
  <2>3. q # <<>>
    BY <1>2, <2>2
  <2> QED
    BY <2>2, <2>3
<1>4. \A b, d \in 1 .. Len(q) : q[b] = q[d] => b = d
  BY DEF Batches
<1>5. \A b \in 1 .. n : end[b] \in Nat
  <2> SUFFICES ASSUME NEW b \in 1 .. n PROVE end[b] \in Nat
    OBVIOUS
  <2>1. len[q[b]] \in Nat
    BY <1>1, LenAssumption DEF TypeInv
  <2> QED
    BY <1>3, <2>1, LenAssumption
<1>6. end \in Seq(Nat) /\ Len(end) = Len(q)
  <2>1. end \in [1 .. n -> Nat]
    BY <1>3, <1>5
  <2> QED
    BY <1>2, <1>3, <2>1
<1> QED
  BY <1>3, <1>4, <1>6 DEF Batch, Grown

\* A member of a batch is one of those it was taken from.
LEMMA MemberOf ==
    ASSUME NEW R, NEW q \in Batches(R), NEW b \in 1 .. Len(q)
    PROVE  q[b] \in R
<1>1. PICK n \in 1 .. Cardinality(R) : q \in [1 .. n -> R]
  BY DEF Batches
<1>2. n \in Nat /\ Len(q) = n
  BY <1>1
<1> QED
  BY <1>1, <1>2

\* A chunk ends behind its start, in the prompt.
LEMMA ChunkEndsLater ==
    ASSUME NEW n \in Nat, n < PromptLen, NEW c \in ChunkSizes
    PROVE  ChunkEnd(n, c) \in n + 1 .. MaxLen
<1>1. PromptLen \in Nat /\ PromptLen <= MaxLen /\ c \in Nat /\ MaxLen \in Nat
  BY PromptAssumption, LenAssumption
<1>2. CASE c = 0 \/ n + c > PromptLen
  BY <1>1, <1>2 DEF ChunkEnd
<1>3. CASE ~(c = 0 \/ n + c > PromptLen)
  BY <1>1, <1>3 DEF ChunkEnd
<1> QED
  BY <1>2, <1>3

\* Prefill and eager decode.
LEMMA PackedForwardKeeps ==
    ASSUME GraphInv, NEW q, NEW end, Batch(q, end), NEW tables \in Seq(Seq(Page)),
           Len(tables) = Len(q),
           \A b \in 1 .. Len(q) : /\ Begins(tables[b], q[b], end[b])
                                  /\ PagesNeeded(end[b]) <= Len(tables[b]),
           PackedForward(q, end, tables)
    PROVE  SlotsNext /\ GraphInv'
<1>0. SlotsInv /\ TypeInv
  BY DEF GraphInv, SlotsInv
<1>1. PICK rows : /\ rows = IF backend = "flashinfer" THEN FlashInferPacked(q, end)
                            ELSE FlashAttnPacked(q, end, tables)
                  /\ Forward("packed", q, end, rows, Packed(q, end), LogitsIndices(q, end))
  BY DEF PackedForward
<1>2. RowsFit("packed", q, end, rows)
  BY <1>0, <1>1, FlashInferPackedFits, FlashAttnPackedFits
<1>3. \A b \in 1 .. Len(q) : LogitsIndices(q, end)[b] = Starts(q, end)[b + 1]
  BY DEF LogitsIndices, Starts
<1>4. /\ SlotsNext /\ SlotsInv'
      /\ RowsDoNotRace' /\ ReadsOwnHistory' /\ SamplesLastToken'
  <2>1. PICK picked : picked = LogitsIndices(q, end)
    OBVIOUS
  <2> QED
    BY <1>0, <1>1, <1>2, <1>3, <2>1, ForwardIsRight
<1>5. UNCHANGED <<kvIndices, backend>>
  BY <1>1 DEF PackedForward, Forward
<1> QED
  BY <1>4, <1>5 DEF GraphInv, Page

\* A chunk of each request of a prefill batch.
LEMMA PrefillKeeps ==
    ASSUME GraphInv, NEW q \in PrefillBatches, NEW c \in ChunkSizes, Prefill(q, c)
    PROVE  SlotsNext /\ GraphInv'
<1> DEFINE end == ChunkEnds(q, c)
           R == {r \in Request : len[r] < PromptLen}
<1>0. TypeInv
  BY DEF GraphInv, SlotsInv
<1>1. q \in Batches(R) /\ R \in SUBSET Request
  BY DEF PrefillBatches
<1>2. end = [b \in 1 .. Len(q) |-> end[b]]
  BY DEF ChunkEnds
<1>3. ASSUME NEW b \in 1 .. Len(q) PROVE end[b] \in len[q[b]] + 1 .. MaxLen
  <2>1. q[b] \in R
    BY <1>1, MemberOf
  <2>2. len[q[b]] \in Nat /\ len[q[b]] < PromptLen
    BY <1>0, <2>1, LenAssumption DEF TypeInv
  <2>3. end[b] = ChunkEnd(len[q[b]], c)
    BY DEF ChunkEnds
  <2> QED
    BY <2>2, <2>3, ChunkEndsLater
<1>4. PackedForward(q, end, PageTables(q, end))
  BY DEF Prefill
<1> HIDE DEF end, R
<1>5. Batch(q, end)
  BY <1>0, <1>1, <1>2, <1>3, <1>4, BatchOf DEF PackedForward
<1>6. PICK tables : tables = PageTables(q, end)
  OBVIOUS
<1>7. \A b \in 1 .. Len(q) : /\ tables[b] \in Seq(Page) /\ Len(tables[b]) = PagesNeeded(end[b])
                             /\ Begins(tables[b], q[b], end[b])
                             /\ PagesNeeded(end[b]) \in Nat
  BY <1>0, <1>5, <1>6, BeginsRow
<1>8. tables \in Seq(Seq(Page)) /\ Len(tables) = Len(q)
  <2>1. PICK n, S : n = Len(q) /\ S = Seq(Page)
    OBVIOUS
  <2>2. n \in Nat
    BY <1>0, <1>5, <2>1, BatchOffsets
  <2>3. tables = [b \in 1 .. n |-> tables[b]]
    BY <1>6, <2>1 DEF PageTables
  <2>4. tables \in [1 .. n -> S]
    BY <1>7, <2>1, <2>3
  <2>5. tables \in Seq(S) /\ Len(tables) = n
    BY ONLY <2>2, <2>4
  <2> QED
    BY <2>1, <2>5
<1>9. \A b \in 1 .. Len(q) : /\ Begins(tables[b], q[b], end[b])
                             /\ PagesNeeded(end[b]) <= Len(tables[b])
  BY <1>7
<1> QED
  BY <1>4, <1>5, <1>6, <1>8, <1>9, PackedForwardKeeps

\* A decode batch with the pages for its next tokens.
LEMMA DecodeBatch ==
    ASSUME TypeInv, NEW q \in DecodeBatches, Grown(q, NextEnds(q))
    PROVE  Batch(q, NextEnds(q))
<1> DEFINE end == NextEnds(q)
           R == {r \in Request : len[r] \in PromptLen .. MaxLen - 1}
<1>1. q \in Batches(R) /\ R \in SUBSET Request
  BY DEF DecodeBatches
<1>2. end = [b \in 1 .. Len(q) |-> end[b]]
  BY DEF NextEnds
<1>3. ASSUME NEW b \in 1 .. Len(q) PROVE end[b] \in len[q[b]] + 1 .. MaxLen
  <2>1. q[b] \in R
    BY <1>1, MemberOf
  <2>2. len[q[b]] \in Nat /\ len[q[b]] <= MaxLen - 1
    BY <2>1, LenAssumption DEF TypeInv
  <2>3. end[b] = len[q[b]] + 1
    BY DEF NextEnds
  <2> QED
    BY <2>2, <2>3, LenAssumption
<1> HIDE DEF end, R
<1>4. Batch(q, end)
  BY <1>1, <1>2, <1>3, BatchOf DEF end
<1> QED
  BY <1>4 DEF end

\* A decode batch that no graph can handle.
LEMMA DecodeEagerKeeps ==
    ASSUME GraphInv, NEW q \in DecodeBatches, DecodeEager(q)
    PROVE  SlotsNext /\ GraphInv'
<1>0. TypeInv
  BY DEF GraphInv, SlotsInv
<1>1. PICK tables, end : tables = [b \in 1 .. Len(q) |-> table[q[b]]] /\ end = NextEnds(q)
  OBVIOUS
<1>2. PackedForward(q, end, tables)
  BY <1>1 DEF DecodeEager
<1>3. Batch(q, end)
  BY <1>0, <1>1, <1>2, DecodeBatch DEF PackedForward
<1>4. \A b \in 1 .. Len(q) : /\ tables[b] = table[q[b]] /\ table[q[b]] \in Seq(Page)
                             /\ PagesNeeded(end[b]) <= Len(table[q[b]])
  BY <1>0, <1>1, <1>3, BatchRows
<1>5. tables \in Seq(Seq(Page)) /\ Len(tables) = Len(q)
  <2>1. PICK n, S : n = Len(q) /\ S = Seq(Page)
    OBVIOUS
  <2>2. n \in Nat
    BY <1>0, <1>3, <2>1, BatchOffsets
  <2>3. tables \in [1 .. n -> S]
    BY <1>1, <1>4, <2>1
  <2>4. tables \in Seq(S) /\ Len(tables) = n
    BY ONLY <2>2, <2>3
  <2> QED
    BY <2>1, <2>4
<1>6. \A b \in 1 .. Len(q) : /\ Begins(tables[b], q[b], end[b])
                             /\ PagesNeeded(end[b]) <= Len(tables[b])
  BY <1>4 DEF Begins
<1> QED
  BY <1>2, <1>3, <1>5, <1>6, PackedForwardKeeps

\* What a batch that a graph can handle is given.
LEMMA Handled ==
    ASSUME TypeInv, NEW q, Batch(q, NextEnds(q)), CanHandle(q), NEW bs, bs = BucketFor(Len(q))
    PROVE  /\ bs \in Buckets /\ bs \in Nat /\ Len(q) <= bs /\ bs - Len(q) <= PageSize
           /\ \A b \in 1 .. Len(q) : Len(table[q[b]]) <= MaxPages
<1>1. PICK n : n = Len(q)
  OBVIOUS
<1>2. n \in Nat \ {0}
  BY <1>1, BatchOffsets
<1>3. \E s \in Buckets : n <= s
  BY <1>1 DEF CanHandle
<1>4. /\ BucketFor(n) \in Buckets /\ BucketFor(n) \in Nat \ {0} /\ n <= BucketFor(n)
      /\ BucketFor(n) - n <= PageSize
  BY <1>2, <1>3, Bucket
<1> QED
  BY <1>1, <1>4 DEF CanHandle

\* A replay takes the logits of its first rows, the requests'.
LEMMA ReplayKeeps ==
    ASSUME SlotsInv, NEW q, Batch(q, NextEnds(q)), NEW rows,
           RowsFit("replay", q, NextEnds(q), rows), Replay(q, rows)
    PROVE  /\ SlotsNext /\ SlotsInv'
           /\ RowsDoNotRace' /\ ReadsOwnHistory' /\ SamplesLastToken'
<1>1. PICK picked, end : picked = From(1, Len(q)) /\ end = NextEnds(q)
  OBVIOUS
<1>2. Forward("replay", q, end, rows, Packed(q, end), picked)
  BY <1>1 DEF Replay
<1>3. \A b \in 1 .. Len(q) : picked[b] = Starts(q, end)[b + 1]
  <2> SUFFICES ASSUME NEW b \in 1 .. Len(q) PROVE picked[b] = Starts(q, end)[b + 1]
    OBVIOUS
  <2>1. QLens(q, end)[b] = 1 /\ Starts(q, end)[b] = b - 1
    BY <1>1, OneEach DEF SlotsInv
  <2>2. Starts(q, end)[b + 1] = Starts(q, end)[b] + QLens(q, end)[b]
    BY <1>1, BatchOffsets DEF SlotsInv, Offsets
  <2>3. picked[b] = 1 + b - 1
    BY <1>1 DEF From
  <2> QED
    BY <2>1, <2>2, <2>3
<1> QED
  BY <1>1, <1>2, <1>3, ForwardIsRight

\* A replay of the flash_attn graph.
LEMMA ReplayFlashAttnKeeps ==
    ASSUME GraphInv, NEW q \in DecodeBatches, ReplayFlashAttn(q)
    PROVE  SlotsNext /\ GraphInv'
<1>0. SlotsInv /\ TypeInv
  BY DEF GraphInv, SlotsInv
<1>1. CanHandle(q) /\ Grown(q, NextEnds(q)) /\ UNCHANGED kvIndices
  BY DEF ReplayFlashAttn
<1>2. Batch(q, NextEnds(q))
  BY <1>0, <1>1, DecodeBatch
<1>3. PICK bs : bs = BucketFor(Len(q))
  OBVIOUS
<1>4. /\ bs \in Nat /\ Len(q) <= bs /\ bs - Len(q) <= PageSize
      /\ \A b \in 1 .. Len(q) : Len(table[q[b]]) <= MaxPages
  BY <1>0, <1>1, <1>2, <1>3, Handled
<1>5. PICK rows : rows = FlashAttnRows(q, bs)
  OBVIOUS
<1>6. RowsFit("replay", q, NextEnds(q), rows)
  <2>1. backend = "flash_attn"
    BY DEF ReplayFlashAttn
  <2> QED
    BY <1>0, <1>2, <1>4, <1>5, <2>1, FlashAttnRowsFit
<1>7. Replay(q, rows)
  BY <1>3, <1>5 DEF ReplayFlashAttn
<1>8. /\ SlotsNext /\ SlotsInv'
      /\ RowsDoNotRace' /\ ReadsOwnHistory' /\ SamplesLastToken'
  BY <1>0, <1>2, <1>6, <1>7, ReplayKeeps
<1>9. UNCHANGED backend
  BY <1>7 DEF Replay, Forward
<1> QED
  BY <1>1, <1>8, <1>9 DEF GraphInv, Page

\* A replay of the flashinfer graph, which leaves kv_indices changed.
LEMMA ReplayFlashInferKeeps ==
    ASSUME GraphInv, NEW q \in DecodeBatches, ReplayFlashInfer(q)
    PROVE  SlotsNext /\ GraphInv'
<1>0. SlotsInv /\ TypeInv
  BY DEF GraphInv, SlotsInv
<1>1. CanHandle(q) /\ Grown(q, NextEnds(q))
  BY DEF ReplayFlashInfer
<1>2. Batch(q, NextEnds(q))
  BY <1>0, <1>1, DecodeBatch
<1>3. PICK bs : bs = BucketFor(Len(q))
  OBVIOUS
<1>4. /\ bs \in Buckets /\ bs \in Nat /\ Len(q) <= bs /\ bs - Len(q) <= PageSize
      /\ \A b \in 1 .. Len(q) : Len(table[q[b]]) <= MaxPages
  BY <1>0, <1>1, <1>2, <1>3, Handled
<1>5. kvIndices[bs] \in [1 .. bs * MaxPages -> Page \cup {Scratch}]
  BY <1>4 DEF GraphInv
<1>6. PICK rows : rows = FlashInferRows(q, bs)
  OBVIOUS
<1>7. RowsFit("replay", q, NextEnds(q), rows)
  BY <1>0, <1>2, <1>4, <1>5, <1>6, FlashInferRowsFit
<1>8. Replay(q, rows) /\ kvIndices' = [kvIndices EXCEPT ![bs] = NewIndices(q, bs)]
  BY <1>3, <1>6 DEF ReplayFlashInfer
<1>9. /\ SlotsNext /\ SlotsInv'
      /\ RowsDoNotRace' /\ ReadsOwnHistory' /\ SamplesLastToken'
  BY <1>0, <1>2, <1>7, <1>8, ReplayKeeps
<1>10. UNCHANGED backend
  BY <1>8 DEF Replay, Forward
<1>11. NewIndices(q, bs) \in [1 .. bs * MaxPages -> Page \cup {Scratch}]
  <2>1. IndicesOwned(q, bs)
    BY <1>0, <1>2, <1>4, IndicesAreOwned
  <2> QED
    BY <1>0, <1>4, <1>5, <2>1, IndicesInFront
<1>12. /\ \A s \in Buckets : kvIndices'[s] \in [1 .. s * MaxPages -> Page \cup {Scratch}]
       /\ kvIndices' = [s \in Buckets |-> kvIndices'[s]]
  <2>1. PICK x : x = NewIndices(q, bs)
    OBVIOUS
  <2>2. kvIndices' = [kvIndices EXCEPT ![bs] = x] /\ kvIndices = [s \in Buckets |-> kvIndices[s]]
    BY <1>8, <2>1 DEF GraphInv
  <2>3. /\ kvIndices'[bs] = x /\ \A s \in Buckets : s # bs => kvIndices'[s] = kvIndices[s]
        /\ kvIndices' = [s \in Buckets |-> kvIndices'[s]]
    BY <1>4, <2>2
  <2> QED
    BY <1>11, <2>1, <2>3 DEF GraphInv
<1> QED
  BY <1>9, <1>10, <1>12 DEF GraphInv, Page

\* Growth and release are PagedSlots's, and end what was last seen of a
\* forward.
LEMMA OthersKeep ==
    ASSUME GraphInv, NEW r \in Request, Others(Leave(r)) \/ Others(GrowFor(r))
    PROVE  SlotsNext /\ GraphInv'
<1>0. SlotsInv /\ TypeInv
  BY DEF GraphInv, SlotsInv
<1>1. UNCHANGED <<backend, kvIndices>> /\ launch' = <<>>
  BY DEF Others
<1>2. CASE Leave(r)
  BY <1>0, <1>1, <1>2, LeaveKeeps
     DEF SlotsNext, GraphInv, RowsDoNotRace, ReadsOwnHistory, SamplesLastToken, Page
<1>3. CASE GrowFor(r)
  <2>1. \E n \in 1 .. MaxLen : GrowTable(r, n)
    <3>1. len[r] \in Nat
      BY <1>0, LenAssumption DEF TypeInv
    <3>2. CASE len[r] < PromptLen
      <4>1. PICK c \in ChunkSizes : GrowTable(r, ChunkEnd(len[r], c))
        BY <1>3, <3>2 DEF GrowFor
      <4>2. ChunkEnd(len[r], c) \in len[r] + 1 .. MaxLen
        BY <3>1, <3>2, ChunkEndsLater
      <4>3. ChunkEnd(len[r], c) \in 1 .. MaxLen
        BY <3>1, <4>2, LenAssumption
      <4> QED
        BY <4>1, <4>3
    <3>3. CASE ~(len[r] < PromptLen)
      <4>1. len[r] < MaxLen /\ GrowTable(r, len[r] + 1)
        BY <1>3, <3>3 DEF GrowFor
      <4>2. len[r] + 1 \in 1 .. MaxLen
        BY <3>1, <4>1, LenAssumption
      <4> QED
        BY <4>1, <4>2
    <3> QED
      BY <3>2, <3>3
  <2>2. PICK n \in 1 .. MaxLen : GrowTable(r, n)
    BY <2>1
  <2>3. SlotsInv'
    BY <1>0, <2>2, GrowKeeps
  <2>4. SlotsNext
    BY <2>2 DEF SlotsNext
  <2> QED
    BY <1>1, <2>3, <2>4
       DEF GraphInv, RowsDoNotRace, ReadsOwnHistory, SamplesLastToken, Page
<1> QED
  BY <1>2, <1>3 DEF Others

\* A server starts so.
LEMMA InitGraph == Init => GraphInv
<1> SUFFICES ASSUME Init PROVE GraphInv
  OBVIOUS
<1>1. SlotsInv
  BY InitSlots DEF Init
<1>2. RowsDoNotRace /\ ReadsOwnHistory /\ SamplesLastToken
  BY DEF Init, RowsDoNotRace, ReadsOwnHistory, SamplesLastToken
<1>3. /\ \A bs \in Buckets : kvIndices[bs] \in [1 .. bs * MaxPages -> Page \cup {Scratch}]
      /\ kvIndices = [bs \in Buckets |-> kvIndices[bs]]
  BY DEF Init
<1> QED
  BY <1>1, <1>2, <1>3 DEF GraphInv, Init

\* Every step keeps it, and is a step of PagedSlots or none.
LEMMA NextKeepsGraph ==
    GraphInv /\ [Next]_vars => [SlotsNext]_poolVars /\ GraphInv'
<1> SUFFICES ASSUME GraphInv, [Next]_vars PROVE [SlotsNext]_poolVars /\ GraphInv'
  OBVIOUS
<1>1. ASSUME NEW r \in Request, Others(Leave(r)) \/ Others(GrowFor(r))
      PROVE  SlotsNext /\ GraphInv'
  BY <1>1, OthersKeep
<1>2. ASSUME NEW q \in PrefillBatches, NEW c \in ChunkSizes, Prefill(q, c)
      PROVE  SlotsNext /\ GraphInv'
  BY <1>2, PrefillKeeps
<1>3. ASSUME NEW q \in DecodeBatches, DecodeEager(q)
      PROVE  SlotsNext /\ GraphInv'
  BY <1>3, DecodeEagerKeeps
<1>4. ASSUME NEW q \in DecodeBatches, ReplayFlashInfer(q)
      PROVE  SlotsNext /\ GraphInv'
  BY <1>4, ReplayFlashInferKeeps
<1>5. ASSUME NEW q \in DecodeBatches, ReplayFlashAttn(q)
      PROVE  SlotsNext /\ GraphInv'
  BY <1>5, ReplayFlashAttnKeeps
<1>6. CASE UNCHANGED vars
  <2>1. UNCHANGED poolVars /\ UNCHANGED <<backend, kvIndices, launch>>
    BY <1>6 DEF vars
  <2>2. SlotsInv'
    BY <2>1 DEF poolVars, GraphInv, SlotsInv, TypeInv, Held, Apart, HoldsOwnHistory
  <2>3. RowsDoNotRace' /\ ReadsOwnHistory' /\ SamplesLastToken'
    BY <2>1 DEF poolVars, GraphInv, RowsDoNotRace, ReadsOwnHistory, OneQueryEach,
                SamplesLastToken
  <2> QED
    BY <2>1, <2>2, <2>3 DEF GraphInv, Page
<1> QED
  BY <1>1, <1>2, <1>3, <1>4, <1>5, <1>6 DEF Next

-------------------------------------------------------------------------------
(* The forwards. *)

\* So it always holds.
LEMMA GraphInvariant == Spec => []GraphInv
<1>1. GraphInv /\ [Next]_vars => GraphInv'
  BY NextKeepsGraph
<1> QED
  BY InitGraph, <1>1, PTL DEF Spec

\* The indices that paged_batched_prefill, paged_batched_decode and
\* CudaGraphRunner.run hand to the kernels make them do what PagedSlots says:
\* every forward writes the KV of its batch's tokens to the slots of their
\* positions, and nothing else of what a request may own.
THEOREM ForwardsImplementSlots == Spec => SlotsSpec
<1>1. Init => SlotsInit
  BY DEF Init
<1>2. GraphInv /\ [Next]_vars => [SlotsNext]_poolVars
  BY NextKeepsGraph
<1> QED
  BY <1>1, <1>2, GraphInvariant, PTL DEF Spec, SlotsSpec

\* Pages, lengths, KV entries and the kv_indices buffers stay what they should
\* be.
THEOREM GraphTypeCorrect == Spec => []TypeOK
<1>1. GraphInv => TypeOK
  BY DEF GraphInv, SlotsInv, TypeInv, TypeOK
<1> QED
  BY <1>1, GraphInvariant, PTL

\* No two rows of a forward, padded ones included, write the same slot.
THEOREM WritesDoNotRace == Spec => []RowsDoNotRace
<1>1. GraphInv => RowsDoNotRace
  BY DEF GraphInv
<1> QED
  BY <1>1, GraphInvariant, PTL

\* Every token attends to its request's KV up to itself, in order: in packed
\* prefill and eager decode under both backends, and in flashinfer's graphs,
\* replayed over whatever earlier batches have left in kv_indices.
THEOREM TokensReadTheirHistory == Spec => []ReadsOwnHistory
<1>1. GraphInv => ReadsOwnHistory
  BY DEF GraphInv
<1> QED
  BY <1>1, GraphInvariant, PTL

\* Each request is sampled from the logits of its own last token (last_idx,
\* and the first rows of a replay).
THEOREM SampledFromLastToken == Spec => []SamplesLastToken
<1>1. GraphInv => SamplesLastToken
  BY DEF GraphInv
<1> QED
  BY <1>1, GraphInvariant, PTL

\* The rows of a forward that writes what it should keep each request's KV
\* where its page table says.
THEOREM ForwardsKeepHistory == Spec => []HoldsOwnHistory
  BY ForwardsImplementSlots, KeepsHistory

===============================================================================
