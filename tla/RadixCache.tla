------------------------------ MODULE RadixCache ------------------------------
(***************************************************************************)
(* The radix tree of radix_cache.py, as operators on a tree value.         *)
(*                                                                         *)
(* A tree is a function from its nodes, root excepted, to their fields.    *)
(* A node is named by the token path from the root to its end: a split     *)
(* puts a new node above the old object, which keeps its end, so this name *)
(* is stable for as long as the object is in the tree and stands for the   *)
(* reference a request keeps in cache_node.  The root is <<>>.  A node's   *)
(* parent is the longest other node on its path, its key the rest of the   *)
(* path, and pages holds one page per block of the key.                    *)
(*                                                                         *)
(* last_access is a rank: only the order of access times is kept, and      *)
(* Ranked closes the gaps after each operation.                            *)
(***************************************************************************)
EXTENDS Paging, FiniteSets

Root == <<>>

Nodes(t) == DOMAIN t

\* q is a node strictly below p.
Below(q, p) == Covers(q, p) /\ Len(p) < Len(q)

\* Where the edge into n starts: the end of its parent.
ParentLen(t, n) ==
    CHOOSE k \in 0 .. Len(n) - 1 :
        /\ k = 0 \/ Upto(n, k) \in Nodes(t)
        /\ \A j \in k + 1 .. Len(n) - 1 : Upto(n, j) \notin Nodes(t)

\* pages_for_node: the pages of the path to n, root first.
PagesForNode(t, n) ==
    [i \in 1 .. Len(n) |->
        LET m == CHOOSE m \in Nodes(t) : /\ Covers(n, m)
                                         /\ ParentLen(t, m) < i /\ i <= Len(m)
        IN  t[m].pages[i - ParentLen(t, m)]]

Newest(t) == IF t = [n \in {} |-> n] THEN 0
             ELSE CHOOSE x \in {t[n].last_access : n \in Nodes(t)} :
                    \A n \in Nodes(t) : t[n].last_access <= x

Ranked(t) ==
    [n \in Nodes(t) |->
        [t[n] EXCEPT !.last_access =
            Cardinality({t[m].last_access : m \in {m \in Nodes(t) :
                            t[m].last_access < t[n].last_access}})]]

\* Give the nodes of N the time now, later than any access so far.
Touch(t, N) ==
    [n \in Nodes(t) |-> IF n \in N THEN [t[n] EXCEPT !.last_access = Newest(t) + 1]
                                   ELSE t[n]]

-------------------------------------------------------------------------------
(* Lookup. *)

OnPath(t, p) == {n \in Nodes(t) : Covers(p, n)}

\* The node a walk along p gets to by whole edges.
Deepest(t, p) ==
    CHOOSE n \in OnPath(t, p) \cup {Root} : \A m \in OnPath(t, p) : Len(m) <= Len(n)

\* children.get(first page of what is left of p), at node d.
NextChild(t, p, d) ==
    {c \in Nodes(t) : /\ Below(c, d) /\ ParentLen(t, c) = Len(d)
                      /\ Len(d) < Len(p) /\ c[Len(d) + 1] = p[Len(d) + 1]}

CommonLen(c, p) ==
    CHOOSE k \in 0 .. Lesser(Len(c), Len(p)) :
        /\ Upto(c, k) = Upto(p, k)
        /\ k = Lesser(Len(c), Len(p)) \/ c[k + 1] # p[k + 1]

\* Mutant: the new node starts without the references of the old one.
Split_NoRefs(t, c, m) ==
    LET k == Len(m) - ParentLen(t, c)
    IN  [n \in Nodes(t) \cup {m} |->
            IF n = m THEN [t[c] EXCEPT !.pages = SubSeq(@, 1, k), !.ref_count = 0]
            ELSE IF n = c THEN [t[c] EXCEPT !.pages = SubSeq(@, k + 1, Len(@))]
            ELSE t[n]]

\* _split_node: a new node m ends the first part of the edge into c and
\* takes that part's pages and c's reference count.
Split(t, c, m) ==
    LET k == Len(m) - ParentLen(t, c)
    IN  [n \in Nodes(t) \cup {m} |->
            IF n = m THEN [t[c] EXCEPT !.pages = SubSeq(@, 1, k)]
            ELSE IF n = c THEN [t[c] EXCEPT !.pages = SubSeq(@, k + 1, Len(@))]
            ELSE t[n]]

\* _tree_walk: the tree after the walk (edges split, accesses refreshed) and
\* the node it ends in; the matched length is that node's.
Walk(t, p) ==
    LET d == Deepest(t, p)
        passed == OnPath(t, p)
    IN  IF NextChild(t, p, d) = {}
        THEN [tree |-> Touch(t, passed), node |-> d]
        ELSE LET c == CHOOSE c \in NextChild(t, p, d) : TRUE
                 m == Upto(p, CommonLen(c, p))
             IN  [tree |-> Touch(Split(t, c, m), passed \cup {c, m}), node |-> m]

\* Mutant: a match that ends inside an edge is not counted.
PreviewLen_WholeEdges(t, p) == Len(Deepest(t, p))

\* _tree_walk_readonly: the length it would match.
PreviewLen(t, p) ==
    LET d == Deepest(t, p)
    IN  IF NextChild(t, p, d) = {} THEN Len(d)
        ELSE CommonLen(CHOOSE c \in NextChild(t, p, d) : TRUE, p)

-------------------------------------------------------------------------------
(* Reference counts, from a node up to the root. *)

IncLockRef(t, n) ==
    [m \in Nodes(t) |-> IF Covers(n, m) THEN [t[m] EXCEPT !.ref_count = @ + 1] ELSE t[m]]

DecLockRef(t, n) ==
    Touch([m \in Nodes(t) |->
             IF Covers(n, m) THEN [t[m] EXCEPT !.ref_count = @ - 1] ELSE t[m]],
          OnPath(t, n))

-------------------------------------------------------------------------------
(* Insertion and eviction. *)

\* insert_and_return: the tree, and how many blocks of p were there before
\* (the pages handed in for those are redundant).
Insert(t, p, pages) ==
    IF p = Root THEN [tree |-> t, had |-> 0]
    ELSE LET w == Walk(t, p)
             had == Len(w.node)
             leaf == [pages |-> SubSeq(pages, had + 1, Len(p)), ref_count |-> 0,
                      last_access |-> Newest(w.tree) + 1]
         IN  [tree |-> IF had = Len(p) THEN w.tree
                       ELSE [n \in Nodes(w.tree) \cup {p} |->
                               IF n = p THEN leaf ELSE w.tree[n]],
              had |-> had]

PageCount(t, N) ==
    Cardinality(UNION {{<<n, i>> : i \in 1 .. Len(t[n].pages)} : n \in N})

\* Mutant: locked nodes count as well.
NumEvictable_All(t) == PageCount(t, Nodes(t))

\* num_evictable_pages.
NumEvictable(t) == PageCount(t, {n \in Nodes(t) : t[n].ref_count = 0})

\* A node leaves by eviction once all below it has: its turn comes no
\* earlier than that of the most recently used node of its subtree.
Turn(t, n) ==
    CHOOSE x \in {t[m].last_access : m \in {m \in Nodes(t) : Covers(m, n)}} :
        \A m \in Nodes(t) : Covers(m, n) => t[m].last_access <= x

\* Mutant: reference counts are not looked at.
Evictable_Locked(t) == Nodes(t)

\* What evict can get to: nodes that become unlocked leaves.
Evictable(t) ==
    {n \in Nodes(t) : \A m \in Nodes(t) : Covers(m, n) => t[m].ref_count = 0}

\* The sets of nodes evict(need) can remove: leaves first, in the order of
\* their turns, until need pages are freed or nothing is left to evict.
\* (Nodes with the same access time may go in either order.)
EvictableSets(t, need) ==
    LET evictable == Evictable(t)
        leafFirst(E) == \A n \in E, m \in Nodes(t) : Covers(m, n) => m \in E
        oldestFirst(E) == \A n \in E, m \in evictable \ E : Turn(t, n) <= Turn(t, m)
        \* The node removed last was still needed.
        noMore(E) == \E n \in E : /\ \A m \in E : Turn(t, m) <= Turn(t, n) /\ ~Below(n, m)
                                  /\ PageCount(t, E \ {n}) < need
    IN  IF need <= 0 THEN {{}}
        ELSE {E \in SUBSET evictable :
                /\ leafFirst(E) /\ oldestFirst(E)
                /\ E = {} \/ noMore(E)
                /\ PageCount(t, E) >= need \/ E = evictable}

Pruned(t, E) == [n \in Nodes(t) \ E |-> t[n]]

PagesOf(t, E) == UNION {{t[n].pages[i] : i \in 1 .. Len(t[n].pages)} : n \in E}

===============================================================================
