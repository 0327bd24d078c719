------------------------------- MODULE KDTree -------------------------------
(***************************************************************************)
(* KDTree of src/src/KDTree-inl.hh: a binary tree whose levels split space *)
(* along one dimension after the other.  Nothing balances it; deleting     *)
(* moves entries up from the subtree.  One action per operation that       *)
(* changes the tree or the iterator; at, exists and within are operators.  *)
(* emplace (47-52) does not compile when instantiated and is left out.     *)
(***************************************************************************)
EXTENDS Integers, Sequences, FiniteSets

CONSTANTS
  Node,       \* addresses of tree nodes
  Null,
  Dimensions, \* CoordType::dimensions()
  Points,     \* the points that callers use, tuples of coordinates
  Values

ASSUME TreeAssumption == Null \notin Node /\ Null \notin Values /\ Dimensions \in Nat \ {0}

\* Memory ends; coordinates are numbers.
ASSUME PointsAssumption == IsFiniteSet(Node) /\ Points \subseteq [1 .. Dimensions -> Int]

VARIABLES
  root,
  node,     \* the allocated nodes: address to pt, value, dim, links
  count,    \* node_count
  pending,  \* of the one iterator: its queue of nodes
  current,  \* of the iterator: a copy of the front node's entry
  ret,      \* what erase returned
  tied      \* history: was a point inserted that shares a coordinate with
            \* another one in the tree?

vars == <<root, node, count, pending, current, ret, tied>>

live == DOMAIN node
EntryOf(n) == <<node[n].pt, node[n].value>>

\* p is before node n in the dimension that n splits.
Less(p, q, d) == p[d + 1] < q[d + 1]

\* Where a search for p goes on from n.
Toward(n, p) == IF Less(p, node[n].pt, node[n].dim) THEN node[n].before ELSE node[n].after

\* The nodes that a search for p visits, then null.
Path(p) ==
  LET path[k \in 0 .. Cardinality(Node) + 1] ==
        IF k = 0 THEN root
        ELSE IF path[k - 1] = Null THEN Null ELSE Toward(path[k - 1], p)
  IN  path

\* The queue loop that visits n and then, level by level, the children that
\* kids gives for each node visited.
Visit(n, kids) ==
  LET queue[k \in 0 .. Cardinality(Node)] ==
        IF k = 0 THEN <<n>>
        ELSE LET q == queue[k - 1]
             IN  IF k > Len(q) THEN q ELSE q \o kids[q[k]]
  IN  queue[Cardinality(Node)]

\* The children of n that are there and wanted, in the order they are queued.
Children(n, wantBefore, wantAfter) ==
  (IF wantBefore /\ node[n].before # Null THEN <<node[n].before>> ELSE <<>>) \o
  (IF wantAfter /\ node[n].after # Null THEN <<node[n].after>> ELSE <<>>)

AllChildren == [n \in live |-> Children(n, TRUE, TRUE)]

\* n and everything below it.
Below(n) ==
  IF n = Null THEN {}
  ELSE LET v == Visit(n, AllChildren) IN {v[k] : k \in DOMAIN v}

-----------------------------------------------------------------------------
(* Queries. *)

At(p) ==
  LET path == Path(p)
      hits == {k \in DOMAIN path : path[k] # Null /\ node[path[k]].pt = p}
  IN  IF hits = {} THEN Null
      ELSE node[path[CHOOSE k \in hits : \A j \in hits : k <= j]].value

InRange(p, low, high) ==
  \A d \in 0 .. Dimensions - 1 : ~Less(p, low, d) /\ Less(p, high, d)

\* The nodes that within returns; exists asks whether there are any.
Within(low, high) ==
  LET kids == [n \in live |-> Children(n, Less(low, node[n].pt, node[n].dim),
                                          ~Less(high, node[n].pt, node[n].dim))]
      seen == Visit(root, kids)
  IN  {n \in {seen[k] : k \in DOMAIN seen} : InRange(node[n].pt, low, high)}

-----------------------------------------------------------------------------
Init ==
  /\ root = Null
  /\ node = <<>>
  /\ count = 0
  /\ pending = <<>>
  /\ current = <<>>
  /\ ret = <<>>
  /\ tied = FALSE

\* The iterator of a tree that changed otherwise is not used any more.
Discard == pending' = <<>> /\ current' = <<>>

SharesCoordinate(p) ==
  \E n \in live, d \in 0 .. Dimensions - 1 : node[n].pt[d + 1] = p[d + 1]

\* insert and link_node; the iterator returned is at the new entry.
Insert(p, v) ==
  \E n \in Node \ live :
    LET path == Path(p)
        q == IF root = Null THEN Null
             ELSE path[CHOOSE k \in DOMAIN path : path[k] # Null /\ path[k + 1] = Null]
        fresh == [pt |-> p, value |-> v, before |-> Null, after |-> Null, parent |-> q,
                  dim |-> IF q = Null THEN 0 ELSE (node[q].dim + 1) % Dimensions]
        linked(m) == IF m # q THEN node[m]
                     ELSE IF Less(p, node[q].pt, node[q].dim)
                          THEN [node[q] EXCEPT !.before = n]
                          ELSE [node[q] EXCEPT !.after = n]
    IN  /\ node' = [m \in live \cup {n} |-> IF m = n THEN fresh ELSE linked(m)]
        /\ root' = IF root = Null THEN n ELSE root
        /\ count' = count + 1
        /\ pending' = <<n>> /\ current' = <<p, v>> /\ ret' = <<>>
        /\ tied' = (tied \/ SharesCoordinate(p))

\* Mutant: the smallest is taken from either side.
ExtremeMin(n, d, max) ==
  LET seen == Visit(n, AllChildren)
      first == CHOOSE k \in DOMAIN seen :
        /\ \A j \in DOMAIN seen : ~Less(node[seen[j]].pt, node[seen[k]].pt, d)
        /\ \A j \in 1 .. k - 1 : Less(node[seen[k]].pt, node[seen[j]].pt, d)
  IN  seen[first]

\* find_subtree_min_max: the first of the extreme nodes that it comes to.
Extreme(n, d, max) ==
  LET kids == [m \in live |->
                 Children(m, node[m].dim # d \/ ~max, node[m].dim # d \/ max)]
      seen == Visit(n, kids)
      Better(a, b) == IF max THEN Less(b, a, d) ELSE Less(a, b, d)
      first == CHOOSE k \in DOMAIN seen :
        /\ \A j \in DOMAIN seen : ~Better(node[seen[j]].pt, node[seen[k]].pt)
        /\ \A j \in 1 .. k - 1 : Better(node[seen[k]].pt, node[seen[j]].pt)
  IN  seen[first]

IsLeaf(n) == node[n].before = Null /\ node[n].after = Null

\* The node whose entry replaces n's.
Target(n) ==
  IF node[n].before # Null THEN Extreme(node[n].before, node[n].dim, TRUE)
                           ELSE Extreme(node[n].after, node[n].dim, FALSE)

\* delete_node: the entries along a chain of replacements move up by one, and
\* the leaf at its end is unlinked and freed.
DeleteNode(n) ==
  LET chain[k \in 0 .. Cardinality(Node)] ==
        IF k = 0 THEN n
        ELSE IF chain[k - 1] = Null \/ IsLeaf(chain[k - 1]) THEN Null
        ELSE Target(chain[k - 1])
      steps == {k \in DOMAIN chain : chain[k] # Null /\ ~IsLeaf(chain[k])}
      leaf == chain[Cardinality(steps)]
      moved(m) == IF \E k \in steps : chain[k] = m
                  THEN LET s == chain[(CHOOSE k \in steps : chain[k] = m) + 1]
                       IN  [node[m] EXCEPT !.pt = node[s].pt, !.value = node[s].value]
                  ELSE node[m]
      without(r) == [r EXCEPT !.before = IF @ = leaf THEN Null ELSE @,
                              !.after = IF @ = leaf THEN Null ELSE @]
  IN  /\ node' = [m \in live \ {leaf} |->
                    IF m = node[leaf].parent THEN without(moved(m)) ELSE moved(m)]
      /\ root' = IF node[leaf].parent = Null THEN Null ELSE root
      /\ count' = count - 1

\* erase looks for the entry on the search path of its point only.
Erase(p, v) ==
  LET path == Path(p)
      hits == {k \in DOMAIN path : path[k] # Null /\ EntryOf(path[k]) = <<p, v>>}
  IN  /\ ret' = <<hits # {}>>
      /\ IF hits = {} THEN UNCHANGED <<root, node, count>>
                      ELSE DeleteNode(path[CHOOSE k \in hits : \A j \in hits : k <= j])
      /\ Discard
      /\ UNCHANGED tied

\* begin
Begin ==
  /\ pending' = IF root = Null THEN <<>> ELSE <<root>>
  /\ current' = IF root = Null THEN <<>> ELSE EntryOf(root)
  /\ ret' = <<>>
  /\ UNCHANGED <<root, node, count, tied>>

\* The iterator's copy of the entry at the front; a stale copy at the end of the
\* iteration is not looked at.
Front == current' = IF pending' = <<>> THEN <<>>
                    ELSE <<node'[Head(pending')].pt, node'[Head(pending')].value>>

\* operator++
Advance ==
  /\ pending # <<>>
  /\ pending' = Tail(pending) \o AllChildren[Head(pending)]
  /\ UNCHANGED <<root, node, count, tied>>
  /\ Front
  /\ ret' = <<>>

\* Mutant: the queue's front is taken off though another entry moved there.
EraseAdvanceSkips ==
  /\ pending # <<>>
  /\ DeleteNode(Head(pending))
  /\ pending' = Tail(pending)
  /\ Front
  /\ ret' = <<>>
  /\ UNCHANGED tied

\* erase_advance: a leaf is gone; otherwise another entry took its place.
EraseAdvance ==
  /\ pending # <<>>
  /\ DeleteNode(Head(pending))
  /\ pending' = IF IsLeaf(Head(pending)) THEN Tail(pending) ELSE pending
  /\ Front
  /\ ret' = <<>>
  /\ UNCHANGED tied

\* The destructor, after which a new tree is constructed in its place.  Destroying
\* an empty tree dereferences its null root, which the model leaves out.
Destroy ==
  /\ root # Null
  /\ node' = [n \in live \ Below(root) |-> node[n]]
  /\ root' = Null
  /\ count' = 0
  /\ ret' = <<>>
  /\ tied' = FALSE
  /\ Discard

Next ==
  \/ \E p \in Points, v \in Values : Insert(p, v) \/ Erase(p, v)
  \/ Begin \/ Advance \/ EraseAdvance \/ Destroy

Spec == Init /\ [][Next]_vars

-----------------------------------------------------------------------------
(* Properties. *)

\* The links make one tree of all allocated nodes: children know their parents,
\* no node is reached twice or left over, the dimensions alternate, the count is
\* right, and the iterator's queue holds nodes of the tree, none below another.
TreeInv ==
  /\ Below(root) = live /\ count = Cardinality(live)
  /\ root # Null => node[root].parent = Null /\ node[root].dim = 0
  /\ \A n \in live : \A m \in {node[n].before, node[n].after} \ {Null} :
       /\ m \in live /\ node[m].parent = n
       /\ node[m].dim = (node[n].dim + 1) % Dimensions
  /\ \A n \in live : node[n].before # Null => node[n].before # node[n].after
  /\ \A j, k \in DOMAIN pending :
       /\ pending[j] \in live
       /\ j # k => Below(pending[j]) \cap Below(pending[k]) = {}

\* Whatever was inserted and deleted, nothing before a node is greater than it
\* and nothing after it is less (KDTree-inl.hh 64-84, 307-343).
WeakOrder ==
  \A n \in live :
    /\ \A m \in Below(node[n].before) : ~Less(node[n].pt, node[m].pt, node[n].dim)
    /\ \A m \in Below(node[n].after) : ~Less(node[m].pt, node[n].pt, node[n].dim)

\* at finds a value of every point that is in the tree and of no other point.
FindsPoints ==
  \A p \in Points :
    IF \E n \in live : node[n].pt = p
    THEN \E n \in live : node[n].pt = p /\ At(p) = node[n].value
    ELSE At(p) = Null

\* As long as no two points shared a coordinate: at, within and exists find
\* exactly what is in the tree, also after deletions have moved the entries
\* (KDTree-inl.hh 126-230).
SearchesComplete ==
  ~tied =>
    /\ FindsPoints
    /\ root # Null => \A low, high \in Points :
         Within(low, high) = {n \in live : InRange(node[n].pt, low, high)}

\* The tree can be searched at any time (KDTree-inl.hh 126-230): it is a tree of all
\* its entries, each on a side where at and within look for it, or, where points
\* shared a coordinate and a deletion moved one of them, at least not on the wrong
\* side; so that, ties apart, both find exactly what is in it.
TreeIsSearchable == TreeInv /\ WeakOrder /\ SearchesComplete

\* The bag and the iterator that the tree stands for.
BagOf(S) == [e \in Points \X Values |-> Cardinality({n \in S : EntryOf(n) = e})]

Abstract == INSTANCE KDBag WITH
  entries <- BagOf(live),
  remaining <- BagOf(UNION {Below(pending[k]) : k \in DOMAIN pending})

\* Iterating goes once through every entry, whichever of them erase_advance
\* deletes on the way and wherever deletion moves the others; insert adds its
\* entry; erase deletes its entry if it is there, or at least, when points
\* shared coordinates, nothing else (KDTree-inl.hh 39-123, 456-482).
CallsMatch ==
  IF count' > count
  THEN \A p \in Points, v \in Values : Insert(p, v) => Abstract!Insert(p, v)
  ELSE /\ Begin => Abstract!Begin
       /\ Advance => Abstract!Advance
       /\ EraseAdvance => Abstract!EraseAdvance
       /\ Destroy => Abstract!Destroy
       /\ \A p \in Points, v \in Values :
            Erase(p, v) => \/ Abstract!Erase(p, v)
                           \/ tied /\ ret' = <<FALSE>> /\ UNCHANGED node

ImplementsBag == Abstract!Init /\ [][CallsMatch]_vars
=============================================================================
