---------------------------- MODULE GeometryProof ----------------------------
(* Proofs about points and pixels, KDTree first: it stays one tree,          *)
(* deletions keep its order, searches without ties are exact, and it         *)
(* implements KDBag.  The model walks the tree with recursive functions;     *)
(* here a subtree is the least set that is closed under children, and a      *)
(* node's depth takes the place of a recursion.  Then images, of any size.   *)
EXTENDS KDTree, FiniteSetTheorems, SequenceTheorems, WellFoundedInduction, TLAPS

\* --- numbers -----------------------------------------------------------------

\* A set of naturals has a least one.
LEMMA HasLeast ==
  ASSUME NEW S, S \subseteq Nat, S # {}
  PROVE  \E x \in S : \A y \in S : x <= y
<1> DEFINE R == OpToRel(<, Nat)
<1>1. IsWellFoundedOn(R, Nat)
  BY NatLessThanWellFounded
<1> HIDE DEF R
<1>2. \E x \in S : \A y \in S : ~ (<<y, x>> \in R)
  BY <1>1, WFMin
<1>3. \A x, y \in Nat : <<y, x>> \in R <=> y < x
  BY DEF R, OpToRel
<1>4. PICK x \in S : \A y \in S : ~ (<<y, x>> \in R)
  BY <1>2
<1>5. \A y \in S : ~(y < x)
  BY <1>3, <1>4
<1>6. QED
  BY <1>5

\* A set of numbers from 0 to N that has 0 and each number's successor has them all.
LEMMA Upward ==
  ASSUME NEW N \in Nat, NEW S, 0 \in S, \A k \in 0..N : k \in S /\ k < N => k + 1 \in S
  PROVE  \A k \in 0..N : k \in S
<1> SUFFICES ASSUME NEW j \in 0..N, j \notin S PROVE FALSE
  OBVIOUS
<1> DEFINE Out == {k \in 0..N : k \notin S}
<1>1. Out \subseteq Nat /\ Out # {}
  OBVIOUS
<1> HIDE DEF Out
<1>2. PICK k \in Out : \A i \in Out : k <= i
  BY <1>1, HasLeast
<1>3. k \in 0..N /\ k \notin S /\ k # 0
  BY <1>2 DEF Out
<1>4. k - 1 \in 0..N /\ k - 1 < N /\ ~(k <= k - 1)
  BY <1>3
<1>5. k - 1 \in S
  BY <1>2, <1>4 DEF Out
<1>6. (k - 1) + 1 \in S
  BY <1>4, <1>5
<1>7. QED
  BY <1>3, <1>6

\* A recursion over 0..N whose step is a function has a solution.
Solves(f, S, b, step, N) ==
  f \in [0..N -> S] /\ f[0] = b /\ \A k \in 1..N : f[k] = step[<<k, f[k - 1]>>]

LEMMA Recursion ==
  ASSUME NEW S, NEW b \in S, NEW N \in Nat, NEW step \in [(1..N) \X S -> S]
  PROVE  \E f : Solves(f, S, b, step, N)
<1> DEFINE Good == {k \in 0..N : \E f \in [0..k -> S] :
                      f[0] = b /\ \A i \in 1..k : f[i] = step[<<i, f[i - 1]>>]}
<1>1. 0 \in Good
  <2>1. PICK f \in [0..0 -> S] : f[0] = b
    <3>1. [i \in 0..0 |-> b] \in [0..0 -> S] /\ [i \in 0..0 |-> b][0] = b
      OBVIOUS
    <3>2. QED
      BY <3>1
  <2>2. 1..0 = {} /\ 0 \in 0..N
    OBVIOUS
  <2>3. QED
    BY <2>1, <2>2
<1>2. \A k \in 0..N : k \in Good /\ k < N => k + 1 \in Good
  <2> SUFFICES ASSUME NEW k \in 0..N, k \in Good, k < N PROVE k + 1 \in Good
    OBVIOUS
  <2>1. PICK f \in [0..k -> S] : f[0] = b /\ \A i \in 1..k : f[i] = step[<<i, f[i - 1]>>]
    OBVIOUS
  <2>2. f[k] \in S /\ <<k + 1, f[k]>> \in (1..N) \X S
    BY <2>1
  <2>3. PICK s \in S : s = step[<<k + 1, f[k]>>]
    BY <2>2
  <2> DEFINE g == [i \in 0..(k + 1) |-> IF i = k + 1 THEN s ELSE f[i]]
  <2>4. g \in [0..(k + 1) -> S]
    BY <2>1, <2>3
  <2>5. g[0] = b
    BY <2>1
  <2>6. \A i \in 1..(k + 1) : g[i] = step[<<i, g[i - 1]>>]
    <3> SUFFICES ASSUME NEW i \in 1..(k + 1) PROVE g[i] = step[<<i, g[i - 1]>>]
      OBVIOUS
    <3>1. CASE i = k + 1
      <4>1. g[i] = s /\ g[i - 1] = f[k]
        BY <3>1
      <4>2. QED
        BY <2>3, <3>1, <4>1
    <3>2. CASE i # k + 1
      <4>1. i \in 1..k /\ g[i] = f[i] /\ g[i - 1] = f[i - 1]
        BY <3>2
      <4>2. QED
        BY <2>1, <4>1
    <3>3. QED
      BY <3>1, <3>2
  <2>7. k + 1 \in 0..N
    OBVIOUS
  <2> HIDE DEF g
  <2>8. QED
    BY <2>4, <2>5, <2>6, <2>7
<1> HIDE DEF Good
<1>3. N \in Good
  BY <1>1, <1>2, Upward
<1>4. QED
  BY <1>3 DEF Good, Solves

\* --- trees -------------------------------------------------------------------

Records ==
  [pt : Points, value : Values, before : Node \cup {Null}, after : Node \cup {Null},
   parent : Node \cup {Null}, dim : 0..(Dimensions - 1)]

Kids(nd, n) == {nd[n].before, nd[n].after} \ {Null}

\* Children know their parents and the root has none; the dimensions alternate.
Shape(nd, rt) ==
  /\ DOMAIN nd \subseteq Node /\ nd \in [DOMAIN nd -> Records]
  /\ IF DOMAIN nd = {} THEN rt = Null ELSE rt \in DOMAIN nd /\ nd[rt].parent = Null /\ nd[rt].dim = 0
  /\ \A n \in DOMAIN nd : \A m \in Kids(nd, n) :
       m \in DOMAIN nd /\ nd[m].parent = n /\ nd[m].dim = (nd[n].dim + 1) % Dimensions
  /\ \A n \in DOMAIN nd : nd[n].before # Null => nd[n].before # nd[n].after
  /\ \A n \in DOMAIN nd \ {rt} : nd[n].parent \in DOMAIN nd /\ n \in Kids(nd, nd[n].parent)

\* How far each node is from the root.
Deep(nd, rt, depth) ==
  /\ depth \in [DOMAIN nd -> Nat]
  /\ rt \in DOMAIN nd => depth[rt] = 0
  /\ \A n \in DOMAIN nd : \A m \in Kids(nd, n) : depth[m] = depth[n] + 1

Tree(nd, rt) == Shape(nd, rt) /\ \E depth : Deep(nd, rt, depth)

\* n and everything below it.
Closed(nd, S) == \A n \in S : Kids(nd, n) \subseteq S
Under(nd, n) == {m \in DOMAIN nd : \A S \in SUBSET DOMAIN nd : n \in S /\ Closed(nd, S) => m \in S}

LEMMA KidIs ==
  ASSUME NEW nd, NEW rt, Tree(nd, rt), NEW n \in DOMAIN nd
  PROVE  /\ n # Null
         /\ \A m \in Kids(nd, n) : m \in DOMAIN nd /\ nd[m].parent = n /\ m # rt
         /\ n # rt => nd[n].parent \in DOMAIN nd /\ n \in Kids(nd, nd[n].parent)
<1>1. n \in Node /\ rt \in DOMAIN nd /\ nd[rt].parent = Null
  BY DEF Tree, Shape
<1>2. n # Null
  BY <1>1, TreeAssumption
<1>3. QED
  BY <1>1, <1>2 DEF Tree, Shape

LEMMA UnderSelf ==
  ASSUME NEW nd, NEW rt, Tree(nd, rt), NEW n \in DOMAIN nd
  PROVE  Under(nd, n) \subseteq DOMAIN nd /\ n \in Under(nd, n) /\ Closed(nd, Under(nd, n))
<1>1. \A m \in DOMAIN nd : Kids(nd, m) \subseteq DOMAIN nd
  BY KidIs
<1>2. QED
  BY <1>1 DEF Under, Closed

LEMMA UnderLeast ==
  ASSUME NEW nd, NEW n, NEW S, S \subseteq DOMAIN nd, n \in S, Closed(nd, S)
  PROVE  Under(nd, n) \subseteq S
BY DEF Under

\* What is under a node that is under n is under n.
LEMMA UnderWithin ==
  ASSUME NEW nd, NEW rt, Tree(nd, rt), NEW n \in DOMAIN nd, NEW m \in Under(nd, n)
  PROVE  Under(nd, m) \subseteq Under(nd, n)
BY UnderSelf, UnderLeast

LEMMA UnderKid ==
  ASSUME NEW nd, NEW rt, Tree(nd, rt), NEW n \in DOMAIN nd, NEW m \in Kids(nd, n)
  PROVE  m \in DOMAIN nd /\ m \in Under(nd, n) /\ Under(nd, m) \subseteq Under(nd, n)
<1>1. m \in DOMAIN nd
  BY KidIs
<1>2. m \in Under(nd, n)
  BY UnderSelf DEF Closed
<1>3. QED
  BY <1>1, <1>2, UnderWithin

\* Below n, apart from n, is what is under its children.
LEMMA UnderSplit ==
  ASSUME NEW nd, NEW rt, Tree(nd, rt), NEW n \in DOMAIN nd, NEW x \in Under(nd, n)
  PROVE  x = n \/ \E m \in Kids(nd, n) : x \in Under(nd, m)
<1> DEFINE S == {n} \cup UNION {Under(nd, m) : m \in Kids(nd, n)}
<1>1. \A m \in Kids(nd, n) : Under(nd, m) \subseteq DOMAIN nd /\ m \in Under(nd, m) /\ Closed(nd, Under(nd, m))
  BY KidIs, UnderSelf
<1>2. S \subseteq DOMAIN nd /\ n \in S
  BY <1>1
<1>3. Closed(nd, S)
  <2> SUFFICES ASSUME NEW a \in S, NEW c \in Kids(nd, a) PROVE c \in S
    BY DEF Closed
  <2>1. CASE a = n
    BY <1>1, <2>1
  <2>2. CASE a # n
    <3>1. PICK m \in Kids(nd, n) : a \in Under(nd, m)
      BY <2>2
    <3>2. c \in Under(nd, m)
      BY <1>1, <3>1 DEF Closed
    <3>3. QED
      BY <3>2
  <2>3. QED
    BY <2>1, <2>2
<1> HIDE DEF S
<1>4. x \in S
  BY <1>2, <1>3, UnderLeast
<1>5. QED
  BY <1>4 DEF S

\* A node other than n that is under n is deeper, and so is its parent under n.
LEMMA Deeper ==
  ASSUME NEW nd, NEW rt, Tree(nd, rt), NEW depth, Deep(nd, rt, depth), NEW n \in DOMAIN nd,
         NEW x \in Under(nd, n), x # n
  PROVE  depth[n] < depth[x] /\ x # rt /\ nd[x].parent \in Under(nd, n)
<1> DEFINE S == {m \in Under(nd, n) : m # n => depth[n] < depth[m] /\ m # rt /\ nd[m].parent \in Under(nd, n)}
<1>1. Under(nd, n) \subseteq DOMAIN nd /\ n \in Under(nd, n) /\ Closed(nd, Under(nd, n))
  BY UnderSelf
<1>2. Closed(nd, S)
  <2> SUFFICES ASSUME NEW a \in S, NEW c \in Kids(nd, a) PROVE c \in S
    BY DEF Closed
  <2>1. a \in Under(nd, n) /\ a \in DOMAIN nd
    BY <1>1
  <2>2. c \in Under(nd, n) /\ nd[c].parent = a /\ c # rt
    BY <1>1, <2>1, KidIs DEF Closed
  <2>3. depth[c] = depth[a] + 1 /\ depth[a] \in Nat /\ depth[n] \in Nat
    BY <2>1 DEF Deep
  <2>4. depth[n] <= depth[a]
    BY <2>1, <2>3
  <2>5. QED
    BY <2>1, <2>2, <2>3, <2>4
<1>3. x \in S
  BY <1>1, <1>2, UnderLeast
<1>4. QED
  BY <1>3

\* Two nodes have a node under both only if one of them is under the other.
LEMMA Chain ==
  ASSUME NEW nd, NEW rt, Tree(nd, rt), NEW a \in DOMAIN nd, NEW b \in DOMAIN nd,
         NEW x \in Under(nd, a), x \in Under(nd, b)
  PROVE  a \in Under(nd, b) \/ b \in Under(nd, a)
<1>1. PICK depth : Deep(nd, rt, depth)
  BY DEF Tree
<1>2. Under(nd, a) \subseteq DOMAIN nd /\ \A m \in DOMAIN nd : depth[m] \in Nat
  BY <1>1, UnderSelf DEF Deep
<1> DEFINE Both == {depth[m] : m \in Under(nd, a) \cap Under(nd, b)}
<1>3. Both \subseteq Nat /\ Both # {}
  BY <1>2
<1> HIDE DEF Both
<1>4. PICK d \in Both : \A e \in Both : d <= e
  BY <1>3, HasLeast
<1>5. PICK m \in Under(nd, a) \cap Under(nd, b) : depth[m] = d
  BY <1>4 DEF Both
<1>6. m = a \/ m = b
  <2> SUFFICES ASSUME m # a, m # b PROVE FALSE
    OBVIOUS
  <2>1. m # rt /\ nd[m].parent \in Under(nd, a) \cap Under(nd, b)
    BY <1>1, <1>5, Deeper
  <2>2. nd[m].parent \in DOMAIN nd /\ m \in Kids(nd, nd[m].parent)
    BY <1>2, <1>5, <2>1, KidIs
  <2>3. depth[m] = depth[nd[m].parent] + 1 /\ depth[nd[m].parent] \in Nat
    BY <1>1, <2>2 DEF Deep
  <2>4. d <= depth[nd[m].parent]
    BY <1>4, <2>1 DEF Both
  <2>5. QED
    BY <1>5, <2>3, <2>4
<1>7. QED
  BY <1>5, <1>6

\* No node is under both children.
LEMMA Siblings ==
  ASSUME NEW nd, NEW rt, Tree(nd, rt), NEW n \in DOMAIN nd, NEW a \in Kids(nd, n), NEW b \in Kids(nd, n), a # b
  PROVE  Under(nd, a) \cap Under(nd, b) = {}
<1>1. PICK depth : Deep(nd, rt, depth)
  BY DEF Tree
<1>2. a \in DOMAIN nd /\ b \in DOMAIN nd
  BY KidIs
<1>3. depth[a] = depth[b] /\ depth[a] \in Nat
  BY <1>1, <1>2 DEF Deep
<1>4. a \notin Under(nd, b) /\ b \notin Under(nd, a)
  BY <1>1, <1>2, <1>3, Deeper
<1>5. QED
  BY <1>2, <1>4, Chain

\* All nodes are under the root.
LEMMA UnderRoot ==
  ASSUME NEW nd, NEW rt, Tree(nd, rt), NEW x \in DOMAIN nd
  PROVE  rt \in DOMAIN nd /\ x \in Under(nd, rt)
<1>1. rt \in DOMAIN nd
  BY DEF Tree, Shape
<1>2. PICK depth : Deep(nd, rt, depth)
  BY DEF Tree
<1> DEFINE Out == {depth[m] : m \in DOMAIN nd \ Under(nd, rt)}
<1>3. \A m \in DOMAIN nd : depth[m] \in Nat
  BY <1>2 DEF Deep
<1>4. CASE x \notin Under(nd, rt)
  <2>1. Out \subseteq Nat /\ Out # {}
    BY <1>3, <1>4
  <2> HIDE DEF Out
  <2>2. PICK d \in Out : \A e \in Out : d <= e
    BY <2>1, HasLeast
  <2>3. PICK m \in DOMAIN nd \ Under(nd, rt) : depth[m] = d
    BY <2>2 DEF Out
  <2>4. m # rt
    BY <1>1, <2>3, UnderSelf
  <2>5. nd[m].parent \in DOMAIN nd /\ m \in Kids(nd, nd[m].parent)
    BY <2>3, <2>4, KidIs
  <2>6. depth[m] = depth[nd[m].parent] + 1 /\ depth[nd[m].parent] \in Nat
    BY <1>2, <2>5 DEF Deep
  <2>7. nd[m].parent \in Under(nd, rt)
    <3>1. SUFFICES ASSUME nd[m].parent \notin Under(nd, rt) PROVE FALSE
      OBVIOUS
    <3>2. d <= depth[nd[m].parent]
      BY <2>2, <2>5, <3>1 DEF Out
    <3>3. QED
      BY <2>3, <2>6, <3>2
  <2>8. m \in Under(nd, rt)
    BY <1>1, <2>5, <2>7, UnderSelf DEF Closed
  <2>9. QED
    BY <2>3, <2>8
<1>5. QED
  BY <1>1, <1>4

\* A node's depth is less than the number of nodes.
LEMMA Shallow ==
  ASSUME NEW nd, NEW rt, Tree(nd, rt), NEW depth, Deep(nd, rt, depth), NEW x \in DOMAIN nd,
         IsFiniteSet(DOMAIN nd)
  PROVE  depth[x] + 1 <= Cardinality(DOMAIN nd)
<1>1. \A m \in DOMAIN nd : depth[m] \in Nat
  BY DEF Deep
<1> DEFINE N == depth[x]
           S == {k \in 0..N : \E m \in DOMAIN nd : depth[m] = N - k}
<1>2. N \in Nat
  BY <1>1
<1>3. 0 \in S
  BY <1>2
<1>4. \A k \in 0..N : k \in S /\ k < N => k + 1 \in S
  <2> SUFFICES ASSUME NEW k \in 0..N, k \in S, k < N PROVE k + 1 \in S
    OBVIOUS
  <2>1. PICK m \in DOMAIN nd : depth[m] = N - k
    OBVIOUS
  <2>2. m # rt
    BY <1>2, <2>1 DEF Deep
  <2>3. nd[m].parent \in DOMAIN nd /\ m \in Kids(nd, nd[m].parent)
    BY <2>1, <2>2, KidIs
  <2>4. depth[m] = depth[nd[m].parent] + 1 /\ depth[nd[m].parent] \in Nat
    BY <2>3 DEF Deep
  <2>5. depth[nd[m].parent] = N - (k + 1)
    BY <1>2, <2>1, <2>4
  <2>6. QED
    BY <1>2, <2>3, <2>5
<1> HIDE DEF S
<1>5. \A k \in 0..N : k \in S
  BY <1>2, <1>3, <1>4, Upward
<1>6. \A k \in 0..N : \E m \in DOMAIN nd : depth[m] = k
  <2> SUFFICES ASSUME NEW k \in 0..N PROVE \E m \in DOMAIN nd : depth[m] = k
    OBVIOUS
  <2>1. N - k \in 0..N /\ N - (N - k) = k
    BY <1>2
  <2>2. N - k \in S
    BY <1>5, <2>1
  <2>3. QED
    BY <2>1, <2>2 DEF S
<1> DEFINE up == [k \in 0..N |-> CHOOSE m \in DOMAIN nd : depth[m] = k]
<1>7. \A k \in 0..N : up[k] \in DOMAIN nd /\ depth[up[k]] = k
  BY <1>6
<1>8. up \in [0..N -> DOMAIN nd]
  BY <1>7
<1> HIDE DEF up
<1>9. up \in Injection(0..N, DOMAIN nd)
  BY <1>7, <1>8 DEF Injection, IsInjective
<1>10. Cardinality(0..N) <= Cardinality(DOMAIN nd)
  BY <1>9, FS_Injection
<1>11. Cardinality(0..N) = N + 1
  BY <1>2, FS_Interval
<1>12. QED
  BY <1>10, <1>11

\* --- walks -------------------------------------------------------------------

\* The queue after each step of a walk.
Queues(g, S, n, kids) ==
  /\ g \in [0..Cardinality(Node) -> Seq(S)] /\ g[0] = <<n>>
  /\ \A k \in 1..Cardinality(Node) :
       g[k] = IF k > Len(g[k - 1]) THEN g[k - 1] ELSE g[k - 1] \o kids[g[k - 1][k]]

LEMMA NodesCount == Cardinality(Node) \in Nat /\ \A S : S \subseteq Node => IsFiniteSet(S) /\ Cardinality(S) \in Nat /\ Cardinality(S) <= Cardinality(Node)
<1>1. IsFiniteSet(Node)
  BY PointsAssumption
<1>2. QED
  BY <1>1, FS_CardinalityType, FS_Subset

\* Visit's recursion has a solution, so that it is one.
LEMMA VisitIs ==
  ASSUME NEW S, NEW n \in S, NEW kids \in [S -> Seq(S)]
  PROVE  \E g : Queues(g, S, n, kids) /\ Visit(n, kids) = g[Cardinality(Node)]
<1> DEFINE C == Cardinality(Node)
           Step(k, q) == IF k > Len(q) THEN q ELSE q \o kids[q[k]]
           step == [x \in (1..C) \X Seq(S) |-> Step(x[1], x[2])]
           body(f) == [k \in 0..C |-> IF k = 0 THEN <<n>>
                         ELSE LET q == f[k - 1] IN IF k > Len(q) THEN q ELSE q \o kids[q[k]]]
           g == CHOOSE f : f = body(f)
<1>0. Visit(n, kids) = g[C]
  BY DEF Visit
<1>1. C \in Nat
  BY NodesCount
<1>2. \A k \in 1..C, q \in Seq(S) : Step(k, q) \in Seq(S)
  <2> SUFFICES ASSUME NEW k \in 1..C, NEW q \in Seq(S), ~(k > Len(q)) PROVE q \o kids[q[k]] \in Seq(S)
    OBVIOUS
  <2>1. q[k] \in S
    BY <1>1
  <2>2. kids[q[k]] \in Seq(S)
    BY <2>1
  <2>3. QED
    BY <2>2, ConcatProperties
<1>3. step \in [(1..C) \X Seq(S) -> Seq(S)]
  BY <1>2
<1>4. <<n>> \in Seq(S)
  OBVIOUS
<1>5. \A k \in 1..C, q \in Seq(S) : step[<<k, q>>] = Step(k, q)
  OBVIOUS
<1>6. \A f : body(f) = [k \in 0..C |-> IF k = 0 THEN <<n>> ELSE Step(k, f[k - 1])]
  OBVIOUS
<1> HIDE DEF C, Step, step, body
<1>7. PICK f : Solves(f, Seq(S), <<n>>, step, C)
  BY <1>1, <1>3, <1>4, Recursion
<1>8. f = body(f)
  <2>1. f \in [0..C -> Seq(S)] /\ f[0] = <<n>>
    BY <1>7 DEF Solves
  <2>2. \A k \in 0..C : f[k] = IF k = 0 THEN <<n>> ELSE Step(k, f[k - 1])
    <3> SUFFICES ASSUME NEW k \in 0..C, k # 0 PROVE f[k] = Step(k, f[k - 1])
      BY <2>1
    <3>1. k \in 1..C /\ k - 1 \in 0..C
      BY <1>1
    <3>2. f[k] = step[<<k, f[k - 1]>>] /\ f[k - 1] \in Seq(S)
      BY <1>7, <2>1, <3>1 DEF Solves
    <3>3. QED
      BY <1>5, <3>1, <3>2
  <2>3. QED
    BY <1>6, <2>1, <2>2
<1>9. g = body(g)
  BY <1>8
<1> HIDE DEF g
<1>10. g = [k \in 0..C |-> IF k = 0 THEN <<n>> ELSE Step(k, g[k - 1])]
  BY <1>6, <1>9
<1>11. g[0] = <<n>> /\ \A k \in 1..C : g[k] = Step(k, g[k - 1])
  <2>1. \A k \in 0..C : g[k] = IF k = 0 THEN <<n>> ELSE Step(k, g[k - 1])
    BY <1>10
  <2>2. 0 \in 0..C /\ \A k \in 1..C : k \in 0..C /\ k # 0
    BY <1>1
  <2>3. QED
    BY <2>1, <2>2
<1> DEFINE P == {k \in 0..C : g[k] \in Seq(S)}
<1>12. 0 \in P
  <2>1. 0 \in 0..C
    BY <1>1
  <2>2. QED
    BY <1>4, <1>11, <2>1
<1>13. \A k \in 0..C : k \in P /\ k < C => k + 1 \in P
  <2> SUFFICES ASSUME NEW k \in 0..C, k \in P, k < C PROVE k + 1 \in P
    OBVIOUS
  <2>1. k + 1 \in 1..C /\ (k + 1) - 1 = k /\ k + 1 \in 0..C
    BY <1>1
  <2>2. g[k + 1] = Step(k + 1, g[k])
    BY <1>11, <2>1
  <2>3. g[k + 1] \in Seq(S)
    BY <1>2, <2>1, <2>2
  <2>4. QED
    BY <2>1, <2>3
<1> HIDE DEF P
<1>14. \A k \in 0..C : k \in P
  BY <1>1, <1>12, <1>13, Upward
<1>15. \A k \in 0..C : g[k] \in Seq(S)
  BY <1>14 DEF P
<1>16. g \in [0..C -> Seq(S)]
  BY <1>10, <1>15
<1>17. QED
  BY <1>0, <1>11, <1>16 DEF Queues, C, Step

\* Which children a walk takes from each node: a sequence of some, each once.
Offers(nd, kids) ==
  /\ kids \in [DOMAIN nd -> Seq(DOMAIN nd)]
  /\ \A m \in DOMAIN nd :
       /\ \A i \in 1..Len(kids[m]) : kids[m][i] \in Kids(nd, m)
       /\ \A i, j \in 1..Len(kids[m]) : i # j => kids[m][i] # kids[m][j]

\* A queue of which k nodes have been visited: every node is there once, and came from a visited one.
Queued(nd, n, kids, q, k) ==
  /\ q \in Seq(DOMAIN nd) /\ Len(q) >= 1 /\ q[1] = n
  /\ \A i, j \in 1..Len(q) : i # j => q[i] # q[j]
  /\ \A i \in 1..Len(q) : q[i] \in Under(nd, n)
  /\ \A i \in 2..Len(q) : \E j \in 1..k : j <= Len(q) /\ q[i] \in Kids(nd, q[j])
  /\ \A j \in 1..k : j <= Len(q) => \A i \in 1..Len(kids[q[j]]) : \E h \in 1..Len(q) : q[h] = kids[q[j]][i]

LEMMA QueuedStep ==
  ASSUME NEW nd, NEW rt, Tree(nd, rt), NEW n \in DOMAIN nd, NEW kids, Offers(nd, kids), NEW k \in Nat, NEW q,
         Queued(nd, n, kids, q, k), k + 1 <= Len(q), NEW q2, q2 = q \o kids[q[k + 1]]
  PROVE  Queued(nd, n, kids, q2, k + 1)
<1>1. PICK depth : Deep(nd, rt, depth)
  BY DEF Tree
<1>2. q \in Seq(DOMAIN nd) /\ Len(q) \in Nat /\ Len(q) >= 1 /\ q[1] = n
  BY DEF Queued
<1>3. PICK m \in DOMAIN nd : m = q[k + 1] /\ m \in Under(nd, n)
  BY <1>2, UnderSelf DEF Queued
<1>4. PICK s \in Seq(DOMAIN nd) : s = kids[m]
  BY <1>3 DEF Offers
<1>5. Len(s) \in Nat /\ q2 \in Seq(DOMAIN nd) /\ Len(q2) = Len(q) + Len(s)
  BY <1>2, <1>3, <1>4, ConcatProperties
<1>6. \A i \in 1..(Len(q) + Len(s)) : q2[i] = IF i <= Len(q) THEN q[i] ELSE s[i - Len(q)]
  BY <1>2, <1>3, <1>4, ConcatProperties
<1>7. \A i \in 1..Len(s) : s[i] \in Kids(nd, m) /\ s[i] \in DOMAIN nd /\ nd[s[i]].parent = m /\ s[i] \in Under(nd, n)
  <2>1. \A i \in 1..Len(s) : s[i] \in Kids(nd, m)
    BY <1>3, <1>4 DEF Offers
  <2>2. QED
    BY <1>3, <2>1, KidIs, UnderSelf DEF Closed
<1>8. \A i, j \in 1..Len(s) : i # j => s[i] # s[j]
  BY <1>3, <1>4 DEF Offers
<1>9. \A i \in 1..Len(s), j \in 1..Len(q) : s[i] # q[j]
  <2> SUFFICES ASSUME NEW i \in 1..Len(s), NEW j \in 1..Len(q), s[i] = q[j] PROVE FALSE
    OBVIOUS
  <2>1. CASE j = 1
    <3>1. depth[s[i]] = depth[m] + 1 /\ depth[m] \in Nat /\ depth[n] \in Nat
      BY <1>1, <1>3, <1>7 DEF Deep
    <3>2. m = n \/ depth[n] < depth[m]
      BY <1>1, <1>3, Deeper
    <3>3. depth[s[i]] = depth[n]
      BY <1>2, <2>1
    <3>4. QED
      BY <3>1, <3>2, <3>3
  <2>2. CASE j # 1
    <3>1. j \in 2..Len(q)
      BY <1>2, <2>2
    <3>2. PICK h \in 1..k : h <= Len(q) /\ q[j] \in Kids(nd, q[h])
      BY <3>1 DEF Queued
    <3>3. h \in 1..Len(q) /\ k + 1 \in 1..Len(q) /\ h # k + 1
      BY <1>2, <3>2
    <3>4. q[h] \in DOMAIN nd
      BY <1>2, <3>3
    <3>5. nd[q[j]].parent = q[h]
      BY <3>2, <3>4, KidIs
    <3>6. q[h] = q[k + 1]
      BY <1>3, <1>7, <3>5
    <3>7. QED
      BY <3>3, <3>6 DEF Queued
  <2>3. QED
    BY <2>1, <2>2
<1>10. \A i \in 1..Len(q) : i \in 1..Len(q2) /\ q2[i] = q[i]
  BY <1>2, <1>5, <1>6
<1>11. \A i \in 1..Len(s) : Len(q) + i \in 1..Len(q2) /\ q2[Len(q) + i] = s[i]
  <2> SUFFICES ASSUME NEW i \in 1..Len(s) PROVE Len(q) + i \in 1..Len(q2) /\ q2[Len(q) + i] = s[i]
    OBVIOUS
  <2>1. Len(q) + i \in 1..(Len(q) + Len(s)) /\ ~(Len(q) + i <= Len(q)) /\ (Len(q) + i) - Len(q) = i
    BY <1>2, <1>5
  <2>2. QED
    BY <1>5, <1>6, <2>1
<1>12. \A i \in 1..Len(q2) : i \in 1..Len(q) \/ (i - Len(q) \in 1..Len(s) /\ q2[i] = s[i - Len(q)])
  BY <1>2, <1>5, <1>6
<1>13. \A i, j \in 1..Len(q2) : i # j => q2[i] # q2[j]
  <2> SUFFICES ASSUME NEW i \in 1..Len(q2), NEW j \in 1..Len(q2), i # j PROVE q2[i] # q2[j]
    OBVIOUS
  <2>1. CASE i \in 1..Len(q) /\ j \in 1..Len(q)
    BY <1>10, <2>1 DEF Queued
  <2>2. CASE i \in 1..Len(q) /\ j \notin 1..Len(q)
    BY <1>9, <1>10, <1>12, <2>2
  <2>3. CASE i \notin 1..Len(q) /\ j \in 1..Len(q)
    BY <1>9, <1>10, <1>12, <2>3
  <2>4. CASE i \notin 1..Len(q) /\ j \notin 1..Len(q)
    <3>1. i - Len(q) \in 1..Len(s) /\ j - Len(q) \in 1..Len(s) /\ i - Len(q) # j - Len(q)
      BY <1>2, <1>5, <1>12, <2>4
    <3>2. QED
      BY <1>8, <1>12, <2>4, <3>1
  <2>5. QED
    BY <2>1, <2>2, <2>3, <2>4
<1>14. \A i \in 1..Len(q2) : q2[i] \in Under(nd, n)
  BY <1>7, <1>10, <1>12 DEF Queued
<1>15. \A i \in 2..Len(q2) : \E j \in 1..(k + 1) : j <= Len(q2) /\ q2[i] \in Kids(nd, q2[j])
  <2> SUFFICES ASSUME NEW i \in 2..Len(q2) PROVE \E j \in 1..(k + 1) : j <= Len(q2) /\ q2[i] \in Kids(nd, q2[j])
    OBVIOUS
  <2>1. CASE i \in 1..Len(q)
    <3>1. i \in 2..Len(q)
      BY <1>2, <2>1
    <3>2. PICK j \in 1..k : j <= Len(q) /\ q[i] \in Kids(nd, q[j])
      BY <3>1 DEF Queued
    <3>3. j \in 1..Len(q) /\ j \in 1..(k + 1) /\ j <= Len(q2)
      BY <1>2, <1>5, <3>2
    <3>4. QED
      BY <1>10, <2>1, <3>2, <3>3
  <2>2. CASE i \notin 1..Len(q)
    <3>1. i \in 1..Len(q2) /\ k + 1 \in 1..Len(q) /\ k + 1 \in 1..(k + 1) /\ k + 1 <= Len(q2)
      BY <1>2, <1>5
    <3>2. q2[i] \in Kids(nd, m) /\ q2[k + 1] = m
      BY <1>3, <1>7, <1>10, <1>12, <2>2, <3>1
    <3>3. QED
      BY <3>1, <3>2
  <2>3. QED
    BY <2>1, <2>2
<1>16. \A j \in 1..(k + 1) : j <= Len(q2) =>
          \A i \in 1..Len(kids[q2[j]]) : \E h \in 1..Len(q2) : q2[h] = kids[q2[j]][i]
  <2> SUFFICES ASSUME NEW j \in 1..(k + 1), NEW i \in 1..Len(kids[q2[j]]) PROVE \E h \in 1..Len(q2) : q2[h] = kids[q2[j]][i]
    OBVIOUS
  <2>1. j \in 1..Len(q) /\ q2[j] = q[j]
    BY <1>2, <1>10
  <2>2. CASE j = k + 1
    <3>1. i \in 1..Len(s) /\ kids[q2[j]][i] = s[i]
      BY <1>3, <1>4, <2>1, <2>2
    <3>2. QED
      BY <1>11, <3>1
  <2>3. CASE j # k + 1
    <3>1. j \in 1..k /\ j <= Len(q) /\ i \in 1..Len(kids[q[j]])
      BY <2>1, <2>3
    <3>2. PICK h \in 1..Len(q) : q[h] = kids[q[j]][i]
      BY <3>1 DEF Queued
    <3>3. QED
      BY <1>10, <2>1, <3>2
  <2>4. QED
    BY <2>2, <2>3
<1>17. Len(q2) >= 1 /\ q2[1] = n
  BY <1>2, <1>5, <1>10
<1>18. QED
  BY <1>5, <1>13, <1>14, <1>15, <1>16, <1>17 DEF Queued

\* A sequence of nodes without repetitions is no longer than there are nodes.
LEMMA DistinctFits ==
  ASSUME NEW D, D \subseteq Node, NEW q \in Seq(D), \A i, j \in 1..Len(q) : i # j => q[i] # q[j]
  PROVE  Len(q) <= Cardinality(Node)
<1>1. Len(q) \in Nat /\ q \in [1..Len(q) -> Node]
  OBVIOUS
<1>2. q \in Injection(1..Len(q), Node)
  BY <1>1 DEF Injection, IsInjective
<1>3. Cardinality(1..Len(q)) <= Cardinality(Node)
  BY <1>2, FS_Injection, PointsAssumption
<1>4. Cardinality(1..Len(q)) = Len(q)
  BY <1>1, FS_Interval
<1>5. QED
  BY <1>3, <1>4

\* A walk visits nodes under its first one, and all those that its choice of children leads to.
Walked(nd, n, kids, v) ==
  /\ v \in Seq(DOMAIN nd) /\ Len(v) >= 1 /\ v[1] = n
  /\ \A i \in 1..Len(v) : v[i] \in Under(nd, n)
  /\ \A j \in 1..Len(v) : \A i \in 1..Len(kids[v[j]]) : \E h \in 1..Len(v) : v[h] = kids[v[j]][i]

LEMMA Walks ==
  ASSUME NEW nd, NEW rt, Tree(nd, rt), NEW n \in DOMAIN nd, NEW kids, Offers(nd, kids)
  PROVE  Walked(nd, n, kids, Visit(n, kids))
<1>1. kids \in [DOMAIN nd -> Seq(DOMAIN nd)] /\ DOMAIN nd \subseteq Node
  BY DEF Offers, Tree, Shape
<1>2. PICK g : Queues(g, DOMAIN nd, n, kids) /\ Visit(n, kids) = g[Cardinality(Node)]
  BY <1>1, VisitIs
<1>3. PICK C \in Nat : C = Cardinality(Node)
  BY NodesCount
<1> DEFINE P == {k \in 0..C : Queued(nd, n, kids, g[k], k)}
<1>4. 0 \in P
  <2>1. <<n>> \in Seq(DOMAIN nd) /\ Len(<<n>>) = 1 /\ <<n>>[1] = n
    OBVIOUS
  <2>2. PICK q : q = <<n>>
    OBVIOUS
  <2>3. q \in Seq(DOMAIN nd) /\ Len(q) = 1 /\ q[1] = n /\ n \in Under(nd, n) /\ g[0] = q /\ 0 \in 0..C
    BY <1>2, <1>3, <2>1, <2>2, UnderSelf DEF Queues
  <2>4. \A i \in 1..Len(q) : i = 1
    BY <2>3
  <2>5. \A i \in 2..Len(q) : FALSE
    BY <2>3
  <2>6. \A i \in 1..0 : FALSE
    OBVIOUS
  <2>7. Queued(nd, n, kids, q, 0)
    BY <2>3, <2>4, <2>5, <2>6 DEF Queued
  <2>8. QED
    BY <2>3, <2>7
<1>5. \A k \in 0..C : k \in P /\ k < C => k + 1 \in P
  <2> SUFFICES ASSUME NEW k \in 0..C, k \in P, k < C PROVE k + 1 \in P
    OBVIOUS
  <2>1. k + 1 \in 1..C /\ (k + 1) - 1 = k /\ k + 1 \in 0..C /\ k \in Nat
    BY <1>3
  <2>2. g[k + 1] = IF k + 1 > Len(g[k]) THEN g[k] ELSE g[k] \o kids[g[k][k + 1]]
    BY <1>2, <1>3, <2>1 DEF Queues
  <2>3. PICK q : q = g[k] /\ Queued(nd, n, kids, q, k)
    OBVIOUS
  <2>4. Len(q) \in Nat /\ q \in Seq(DOMAIN nd)
    BY <2>3 DEF Queued
  <2>5. CASE k + 1 > Len(q)
    <3>1. g[k + 1] = q
      BY <2>2, <2>3, <2>5
    <3>2. \A j \in 1..(k + 1) : j <= Len(q) => j \in 1..k
      BY <2>1, <2>4, <2>5
    <3>3. \A j \in 1..k : j \in 1..(k + 1)
      BY <2>1
    <3>4. Queued(nd, n, kids, q, k + 1)
      BY <2>3, <3>2, <3>3 DEF Queued
    <3>5. QED
      BY <2>1, <3>1, <3>4
  <2>6. CASE ~(k + 1 > Len(q))
    <3>0. k + 1 <= Len(q)
      BY <2>1, <2>4, <2>6
    <3>1. g[k + 1] = q \o kids[q[k + 1]]
      BY <2>2, <2>3, <2>6
    <3>2. Queued(nd, n, kids, g[k + 1], k + 1)
      BY <2>1, <2>3, <3>0, <3>1, QueuedStep
    <3>3. QED
      BY <2>1, <3>2
  <2>7. QED
    BY <2>5, <2>6
<1> HIDE DEF P
<1>6. \A k \in 0..C : k \in P
  BY <1>3, <1>4, <1>5, Upward
<1>7. PICK v : v = g[C] /\ Queued(nd, n, kids, v, C)
  <2>1. C \in 0..C
    BY <1>3
  <2>2. QED
    BY <1>6, <2>1 DEF P
<1>8. v \in Seq(DOMAIN nd) /\ Len(v) \in Nat
  BY <1>7 DEF Queued
<1>9. Len(v) <= C
  BY <1>1, <1>3, <1>7, <1>8, DistinctFits DEF Queued
<1>10. \A j \in 1..Len(v) : j \in 1..C /\ j <= Len(v)
  BY <1>3, <1>8, <1>9
<1>11. Walked(nd, n, kids, v)
  BY <1>7, <1>10 DEF Queued, Walked
<1>12. QED
  BY <1>2, <1>3, <1>7, <1>11

\* What a walk does not visit is under a child that it left out.
LEMMA WalkMisses ==
  ASSUME NEW nd, NEW rt, Tree(nd, rt), NEW n \in DOMAIN nd, NEW kids, Offers(nd, kids), NEW v, Walked(nd, n, kids, v),
         NEW x \in Under(nd, n), \A i \in 1..Len(v) : v[i] # x
  PROVE  \E i \in 1..Len(v) : \E c \in Kids(nd, v[i]) :
           x \in Under(nd, c) /\ \A j \in 1..Len(kids[v[i]]) : kids[v[i]][j] # c
<1> DEFINE R == {v[i] : i \in 1..Len(v)}
           Out(i) == {c \in Kids(nd, v[i]) : \A j \in 1..Len(kids[v[i]]) : kids[v[i]][j] # c}
           S == R \cup UNION {Under(nd, c) : c \in UNION {Out(i) : i \in 1..Len(v)}}
<1>1. v \in Seq(DOMAIN nd) /\ \A i \in 1..Len(v) : v[i] \in DOMAIN nd
  BY DEF Walked
<1>2. \A i \in 1..Len(v) : \A c \in Out(i) : c \in DOMAIN nd /\ Under(nd, c) \subseteq DOMAIN nd /\ c \in Under(nd, c) /\ Closed(nd, Under(nd, c))
  BY <1>1, KidIs, UnderSelf
<1>3. n \in S
  <2>1. 1 \in 1..Len(v) /\ v[1] = n
    BY <1>1 DEF Walked
  <2>2. QED
    BY <2>1
<1>4. S \subseteq DOMAIN nd
  BY <1>1, <1>2
<1>5. Closed(nd, S)
  <2> SUFFICES ASSUME NEW a \in S, NEW c \in Kids(nd, a) PROVE c \in S
    BY DEF Closed
  <2>1. CASE a \in R
    <3>1. PICK i \in 1..Len(v) : v[i] = a
      BY <2>1
    <3>2. CASE c \in Out(i)
      <4>1. c \in Under(nd, c)
        BY <1>2, <3>2
      <4>2. QED
        BY <3>2, <4>1
    <3>3. CASE c \notin Out(i)
      <4>1. PICK j \in 1..Len(kids[v[i]]) : kids[v[i]][j] = c
        BY <3>1, <3>3
      <4>2. \E h \in 1..Len(v) : v[h] = c
        BY <4>1 DEF Walked
      <4>3. QED
        BY <4>2
    <3>4. QED
      BY <3>2, <3>3
  <2>2. CASE a \notin R
    <3>1. PICK i \in 1..Len(v) : \E o \in Out(i) : a \in Under(nd, o)
      BY <2>2
    <3>2. PICK o \in Out(i) : a \in Under(nd, o)
      BY <3>1
    <3>3. c \in Under(nd, o)
      BY <1>2, <3>2 DEF Closed
    <3>4. QED
      BY <3>2, <3>3
  <2>3. QED
    BY <2>1, <2>2
<1> HIDE DEF S
<1>6. x \in S
  BY <1>3, <1>4, <1>5, UnderLeast
<1>7. QED
  BY <1>6 DEF S

\* The children that a walk takes from n: the one before it, the one after it, both or none.
Takes(n, wantBefore, wantAfter, s) ==
  /\ s \in Seq(live)
  /\ \A i \in 1..Len(s) : s[i] \in Kids(node, n)
  /\ \A i, j \in 1..Len(s) : i # j => s[i] # s[j]
  /\ wantBefore /\ node[n].before # Null => \E i \in 1..Len(s) : s[i] = node[n].before
  /\ wantAfter /\ node[n].after # Null => \E i \in 1..Len(s) : s[i] = node[n].after

LEMMA ChildrenAre ==
  ASSUME Tree(node, root), NEW n \in live, NEW wantBefore \in BOOLEAN, NEW wantAfter \in BOOLEAN
  PROVE  Takes(n, wantBefore, wantAfter, Children(n, wantBefore, wantAfter))
<1>1. Kids(node, n) \subseteq live
  BY KidIs DEF live
<1>2. PICK b, a : b = node[n].before /\ a = node[n].after /\ (b # Null => b # a)
  BY DEF Tree, Shape, live
<1>3. PICK s : s = Children(n, wantBefore, wantAfter)
  OBVIOUS
<1>4. s = (IF wantBefore /\ b # Null THEN <<b>> ELSE <<>>) \o (IF wantAfter /\ a # Null THEN <<a>> ELSE <<>>)
  BY <1>2, <1>3 DEF Children
<1>5. (b # Null => b \in Kids(node, n)) /\ (a # Null => a \in Kids(node, n))
  BY <1>2 DEF Kids
<1>6. \A x \in live : <<x>> \in Seq(live) /\ Len(<<x>>) = 1 /\ <<x>>[1] = x
  OBVIOUS
<1>7. <<>> \in Seq(live) /\ Len(<<>>) = 0
  OBVIOUS
<1>8. CASE (wantBefore /\ b # Null) /\ (wantAfter /\ a # Null)
  <2>1. s = <<b>> \o <<a>>
    BY <1>4, <1>8
  <2>2. b \in live /\ a \in live /\ b # a
    BY <1>1, <1>2, <1>5, <1>8
  <2>3. PICK t, u : t = <<b>> /\ u = <<a>> /\ t \in Seq(live) /\ u \in Seq(live) /\ Len(t) = 1 /\ Len(u) = 1 /\ t[1] = b /\ u[1] = a
    BY <1>6, <2>2
  <2>4. s = t \o u
    BY <2>1, <2>3
  <2>5. s \in Seq(live) /\ Len(s) = 2 /\ s[1] = b /\ s[2] = a
    BY <2>3, <2>4, ConcatProperties
  <2>6. \A i \in 1..2 : i = 1 \/ i = 2
    OBVIOUS
  <2>7. Takes(n, wantBefore, wantAfter, s)
    BY <1>2, <1>5, <1>8, <2>2, <2>5, <2>6 DEF Takes
  <2>8. QED
    BY <1>3, <2>7
<1>9. CASE (wantBefore /\ b # Null) /\ ~(wantAfter /\ a # Null)
  <2>1. s = <<b>> \o <<>> /\ b \in live
    BY <1>1, <1>4, <1>5, <1>9
  <2>2. s = <<b>>
    BY <1>6, <2>1, ConcatEmptySeq
  <2>3. s \in Seq(live) /\ Len(s) = 1 /\ s[1] = b
    BY <1>6, <2>1, <2>2
  <2>4. Takes(n, wantBefore, wantAfter, s)
    BY <1>2, <1>5, <1>9, <2>3 DEF Takes
  <2>5. QED
    BY <1>3, <2>4
<1>10. CASE ~(wantBefore /\ b # Null) /\ (wantAfter /\ a # Null)
  <2>1. s = <<>> \o <<a>> /\ a \in live
    BY <1>1, <1>4, <1>5, <1>10
  <2>2. s = <<a>>
    BY <1>6, <2>1, ConcatEmptySeq
  <2>3. s \in Seq(live) /\ Len(s) = 1 /\ s[1] = a
    BY <1>6, <2>1, <2>2
  <2>4. Takes(n, wantBefore, wantAfter, s)
    BY <1>2, <1>5, <1>10, <2>3 DEF Takes
  <2>5. QED
    BY <1>3, <2>4
<1>11. CASE ~(wantBefore /\ b # Null) /\ ~(wantAfter /\ a # Null)
  <2>1. s = <<>> \o <<>>
    BY <1>4, <1>11
  <2>2. s = <<>>
    BY <1>7, <2>1, ConcatEmptySeq
  <2>3. s \in Seq(live) /\ Len(s) = 0
    BY <1>7, <2>2
  <2>4. Takes(n, wantBefore, wantAfter, s)
    BY <1>2, <1>11, <2>3 DEF Takes
  <2>5. QED
    BY <1>3, <2>4
<1>12. QED
  BY <1>8, <1>9, <1>10, <1>11

LEMMA AllOffered ==
  ASSUME Tree(node, root)
  PROVE  /\ Offers(node, AllChildren)
         /\ \A m \in live : \A c \in Kids(node, m) : \E i \in 1..Len(AllChildren[m]) : AllChildren[m][i] = c
<1>1. \A m \in live : Takes(m, TRUE, TRUE, AllChildren[m])
  <2>1. \A m \in live : AllChildren[m] = Children(m, TRUE, TRUE)
    BY DEF AllChildren
  <2>2. QED
    BY <2>1, ChildrenAre
<1>2. AllChildren \in [live -> Seq(live)]
  <2>1. \A m \in live : AllChildren[m] \in Seq(live)
    BY <1>1 DEF Takes
  <2>2. AllChildren = [m \in live |-> AllChildren[m]]
    BY DEF AllChildren
  <2>3. QED
    BY <2>1, <2>2
<1>3. \A m \in live : \A c \in Kids(node, m) : \E i \in 1..Len(AllChildren[m]) : AllChildren[m][i] = c
  BY <1>1 DEF Takes, Kids
<1>4. QED
  BY <1>1, <1>2, <1>3 DEF Offers, live, Takes

\* Below is what is under a node.
LEMMA BelowIs == Tree(node, root) => \A n \in live : Below(n) = Under(node, n)
<1> SUFFICES ASSUME Tree(node, root), NEW n \in live PROVE Below(n) = Under(node, n)
  OBVIOUS
<1>1. PICK v : v = Visit(n, AllChildren) /\ Walked(node, n, AllChildren, v)
  BY AllOffered, Walks DEF live
<1>2. n # Null
  BY KidIs DEF live
<1>3. Below(n) = {v[k] : k \in DOMAIN v}
  BY <1>1, <1>2 DEF Below
<1>4. DOMAIN v = 1..Len(v) /\ \A i \in 1..Len(v) : v[i] \in Under(node, n)
  BY <1>1 DEF Walked
<1>5. \A x \in Under(node, n) : \E i \in 1..Len(v) : v[i] = x
  <2> SUFFICES ASSUME NEW x \in Under(node, n), \A i \in 1..Len(v) : v[i] # x PROVE FALSE
    OBVIOUS
  <2>1. PICK i \in 1..Len(v) : \E c \in Kids(node, v[i]) :
          x \in Under(node, c) /\ \A j \in 1..Len(AllChildren[v[i]]) : AllChildren[v[i]][j] # c
    BY <1>1, AllOffered, WalkMisses DEF live
  <2>2. v[i] \in live
    BY <1>4, UnderSelf DEF live
  <2>3. QED
    BY <2>1, <2>2, AllOffered
<1>6. QED
  BY <1>3, <1>4, <1>5

LEMMA BelowIsNext == (Tree(node, root) => \A n \in live : Below(n) = Under(node, n))'
BY BelowIs, PTL

LEMMA BelowNull == Below(Null) = {}
BY DEF Below

\* --- the order ---------------------------------------------------------------

\* Nothing before a node is greater than it, and nothing after it is less.
Ordered(nd) ==
  \A m \in DOMAIN nd :
    /\ nd[m].before # Null => \A x \in Under(nd, nd[m].before) : ~Less(nd[m].pt, nd[x].pt, nd[m].dim)
    /\ nd[m].after # Null => \A x \in Under(nd, nd[m].after) : ~Less(nd[x].pt, nd[m].pt, nd[m].dim)

LEMMA Coordinates ==
  ASSUME NEW nd, NEW rt, Tree(nd, rt), NEW m \in DOMAIN nd
  PROVE  /\ nd[m].dim \in 0..(Dimensions - 1) /\ nd[m].pt \in Points /\ nd[m].value \in Values
         /\ \A d \in 0..(Dimensions - 1) : nd[m].pt[d + 1] \in Int
<1>1. nd[m] \in Records
  BY DEF Tree, Shape
<1>2. nd[m].pt \in [1..Dimensions -> Int]
  BY <1>1, PointsAssumption DEF Records
<1>3. \A d \in 0..(Dimensions - 1) : d + 1 \in 1..Dimensions
  BY TreeAssumption
<1>4. QED
  BY <1>1, <1>2, <1>3 DEF Records

\* Of finitely many numbers there is a first of the least.
LEMMA FirstLeast ==
  ASSUME NEW L \in Nat, L >= 1, NEW val \in [1..L -> Int]
  PROVE  \E k \in 1..L : (\A j \in 1..L : val[k] <= val[j]) /\ \A j \in 1..(k - 1) : val[k] < val[j]
<1> DEFINE S == {l \in 0..(L - 1) : \E k \in 1..(l + 1) :
                   (\A j \in 1..(l + 1) : val[k] <= val[j]) /\ \A j \in 1..(k - 1) : val[k] < val[j]}
<1>1. 0 \in S
  <2>1. 1 \in 1..(0 + 1) /\ 0 \in 0..(L - 1) /\ 1 \in 1..L /\ \A j \in 1..(0 + 1) : j = 1
    OBVIOUS
  <2>2. val[1] <= val[1] /\ \A j \in 1..(1 - 1) : FALSE
    BY <2>1
  <2>3. QED
    BY <2>1, <2>2
<1>2. \A l \in 0..(L - 1) : l \in S /\ l < L - 1 => l + 1 \in S
  <2> SUFFICES ASSUME NEW l \in 0..(L - 1), l \in S, l < L - 1 PROVE l + 1 \in S
    OBVIOUS
  <2>1. PICK k \in 1..(l + 1) :
          (\A j \in 1..(l + 1) : val[k] <= val[j]) /\ \A j \in 1..(k - 1) : val[k] < val[j]
    OBVIOUS
  <2>2. l + 2 \in 1..L /\ l + 1 \in 0..(L - 1) /\ (l + 1) + 1 = l + 2 /\ (l + 2) - 1 = l + 1 /\ k \in 1..L /\ k \in 1..(l + 2)
    OBVIOUS
  <2>3. \A j \in 1..(l + 2) : j = l + 2 \/ j \in 1..(l + 1)
    OBVIOUS
  <2>4. \A j \in 1..(l + 2) : val[j] \in Int
    BY <2>2
  <2>5. CASE val[l + 2] < val[k]
    <3>1. \A j \in 1..(l + 1) : val[l + 2] < val[j]
      BY <2>1, <2>2, <2>4, <2>5
    <3>2. \A j \in 1..(l + 2) : val[l + 2] <= val[j]
      BY <2>2, <2>3, <2>4, <3>1
    <3>3. \A j \in 1..((l + 2) - 1) : val[l + 2] < val[j]
      BY <2>2, <3>1
    <3>4. l + 2 \in 1..(l + 2)
      OBVIOUS
    <3>5. QED
      BY <2>2, <3>2, <3>3, <3>4
  <2>6. CASE ~(val[l + 2] < val[k])
    <3>1. \A j \in 1..(l + 2) : val[k] <= val[j]
      BY <2>1, <2>2, <2>3, <2>4, <2>6
    <3>2. QED
      BY <2>1, <2>2, <3>1
  <2>7. QED
    BY <2>5, <2>6
<1>3. L - 1 \in Nat /\ L - 1 \in 0..(L - 1) /\ (L - 1) + 1 = L
  OBVIOUS
<1> HIDE DEF S
<1>4. L - 1 \in S
  BY <1>1, <1>2, <1>3, Upward
<1>5. QED
  BY <1>3, <1>4 DEF S

\* A walk that leaves out the children on the wrong side of the nodes that split dimension d still bounds
\* everything under its first node, because what it left out is bounded by what it met.
Prunes(d, max, kids) ==
  \A m \in live : Takes(m, node[m].dim # d \/ ~max, node[m].dim # d \/ max, kids[m])

Exceeds(x, e, d, max) == IF max THEN Less(node[e].pt, node[x].pt, d) ELSE Less(node[x].pt, node[e].pt, d)

LEMMA WalkBounds ==
  ASSUME Tree(node, root), Ordered(node), NEW n \in live, NEW d \in 0..(Dimensions - 1), NEW max \in BOOLEAN,
         NEW kids, Offers(node, kids), Prunes(d, max, kids), NEW v, Walked(node, n, kids, v),
         NEW e \in live, \A i \in 1..Len(v) : ~Exceeds(v[i], e, d, max)
  PROVE  \A x \in Under(node, n) : ~Exceeds(x, e, d, max)
<1> SUFFICES ASSUME NEW x \in Under(node, n) PROVE ~Exceeds(x, e, d, max)
  OBVIOUS
<1>1. CASE \E i \in 1..Len(v) : v[i] = x
  BY <1>1
<1>2. CASE \A i \in 1..Len(v) : v[i] # x
  <2>1. PICK i \in 1..Len(v) : \E c \in Kids(node, v[i]) :
          x \in Under(node, c) /\ \A j \in 1..Len(kids[v[i]]) : kids[v[i]][j] # c
    <3>1. PICK nd : nd = node
      OBVIOUS
    <3>2. Tree(nd, root) /\ n \in DOMAIN nd /\ Offers(nd, kids) /\ Walked(nd, n, kids, v) /\ x \in Under(nd, n)
      BY <3>1 DEF live
    <3>3. \E i \in 1..Len(v) : \E c \in Kids(nd, v[i]) :
            x \in Under(nd, c) /\ \A j \in 1..Len(kids[v[i]]) : kids[v[i]][j] # c
      BY <1>2, <3>2, WalkMisses
    <3>4. QED
      BY <3>1, <3>3
  <2>2. PICK c \in Kids(node, v[i]) : x \in Under(node, c) /\ \A j \in 1..Len(kids[v[i]]) : kids[v[i]][j] # c
    BY <2>1
  <2>3. PICK m \in live : m = v[i]
    BY DEF Walked, live
  <2>4. c # Null /\ (c = node[m].before \/ c = node[m].after)
    BY <2>2, <2>3 DEF Kids
  <2>5. node[m].dim = d /\ (max => c = node[m].before) /\ (~max => c = node[m].after)
    BY <2>2, <2>3, <2>4 DEF Prunes, Takes
  <2>6. ~Exceeds(x, m, d, max)
    BY <2>2, <2>4, <2>5 DEF Ordered, Exceeds, live
  <2>7. ~Exceeds(m, e, d, max)
    BY <2>3
  <2>8. x \in live
    BY UnderSelf DEF live
  <2>9. node[x].pt[d + 1] \in Int /\ node[m].pt[d + 1] \in Int /\ node[e].pt[d + 1] \in Int
    BY <2>8, Coordinates DEF live
  <2>10. QED
    BY <2>6, <2>7, <2>9 DEF Less, Exceeds
<1>3. QED
  BY <1>1, <1>2

\* find_subtree_min_max finds a node that no other one under n exceeds.
Extremum(n, d, max, e) == e \in Under(node, n) /\ \A x \in Under(node, n) : ~Exceeds(x, e, d, max)

LEMMA ExtremeIs ==
  ASSUME Tree(node, root), Ordered(node), NEW n \in live, NEW d \in 0..(Dimensions - 1), NEW max \in BOOLEAN
  PROVE  Extremum(n, d, max, Extreme(n, d, max))
<1> DEFINE ks == [m \in live |-> Children(m, node[m].dim # d \/ ~max, node[m].dim # d \/ max)]
           seen == Visit(n, ks)
           Better(a, b) == IF max THEN Less(b, a, d) ELSE Less(a, b, d)
           one == CHOOSE k \in DOMAIN seen :
             /\ \A j \in DOMAIN seen : ~Better(node[seen[j]].pt, node[seen[k]].pt)
             /\ \A j \in 1 .. k - 1 : Better(node[seen[k]].pt, node[seen[j]].pt)
<1>1. Extreme(n, d, max) = seen[one]
  BY DEF Extreme
<1>2. PICK kids : kids = ks
  OBVIOUS
<1>3. Prunes(d, max, kids)
  <2> SUFFICES ASSUME NEW m \in live PROVE Takes(m, node[m].dim # d \/ ~max, node[m].dim # d \/ max, kids[m])
    BY DEF Prunes
  <2>1. kids[m] = Children(m, node[m].dim # d \/ ~max, node[m].dim # d \/ max)
    BY <1>2
  <2>2. (node[m].dim # d \/ ~max) \in BOOLEAN /\ (node[m].dim # d \/ max) \in BOOLEAN
    OBVIOUS
  <2>3. QED
    BY <2>1, <2>2, ChildrenAre
<1>4. Offers(node, kids)
  <2>1. \A m \in live : kids[m] \in Seq(live)
    BY <1>3 DEF Prunes, Takes
  <2>2. kids = [m \in live |-> kids[m]]
    BY <1>2
  <2>3. kids \in [live -> Seq(live)]
    BY <2>1, <2>2
  <2>4. QED
    BY <1>3, <2>3 DEF Offers, Prunes, Takes, live
<1>5. PICK v : v = Visit(n, kids) /\ v = seen
  BY <1>2
<1>6. Walked(node, n, kids, v)
  BY <1>4, <1>5, Walks DEF live
<1>7. /\ Len(v) \in Nat /\ Len(v) >= 1 /\ DOMAIN v = 1..Len(v)
      /\ \A i \in 1..Len(v) : v[i] \in live /\ v[i] \in Under(node, n)
  BY <1>6 DEF Walked, live
<1> HIDE DEF ks, seen
<1>8. \A i \in 1..Len(v) : node[v[i]].pt[d + 1] \in Int
  BY <1>7, Coordinates DEF live
<1>9. PICK val \in [1..Len(v) -> Int] :
        \A i \in 1..Len(v) : val[i] = IF max THEN -(node[v[i]].pt[d + 1]) ELSE node[v[i]].pt[d + 1]
  <2> DEFINE f == [i \in 1..Len(v) |-> IF max THEN -(node[v[i]].pt[d + 1]) ELSE node[v[i]].pt[d + 1]]
  <2>1. f \in [1..Len(v) -> Int]
    BY <1>8
  <2>2. QED
    BY <2>1
<1>10. \A i, j \in 1..Len(v) : Exceeds(v[i], v[j], d, max) <=> val[i] < val[j]
  BY <1>8, <1>9 DEF Exceeds, Less
<1>11. PICK k \in 1..Len(v) : (\A j \in 1..Len(v) : val[k] <= val[j]) /\ \A j \in 1..(k - 1) : val[k] < val[j]
  BY <1>7, FirstLeast
<1>12. \A i \in 1..Len(v) : val[i] \in Int
  OBVIOUS
<1>13. (\A j \in 1..Len(v) : ~Exceeds(v[j], v[k], d, max)) /\ \A j \in 1..(k - 1) : Exceeds(v[k], v[j], d, max)
  <2>1. \A j \in 1..(k - 1) : j \in 1..Len(v)
    BY <1>7
  <2>2. QED
    BY <1>10, <1>11, <1>12, <2>1
<1>14. \A a, b : Better(node[a].pt, node[b].pt) <=> Exceeds(a, b, d, max)
  BY DEF Exceeds
<1> HIDE DEF Better
<1>15. k \in DOMAIN seen /\ (\A j \in DOMAIN seen : ~Better(node[seen[j]].pt, node[seen[k]].pt))
       /\ \A j \in 1 .. k - 1 : Better(node[seen[k]].pt, node[seen[j]].pt)
  BY <1>5, <1>7, <1>13, <1>14
<1>16. one \in DOMAIN seen /\ \A j \in DOMAIN seen : ~Better(node[seen[j]].pt, node[seen[one]].pt)
  BY <1>15
<1> HIDE DEF one
<1>17. PICK e : e = v[one] /\ e \in Under(node, n) /\ e \in live /\ \A i \in 1..Len(v) : ~Exceeds(v[i], e, d, max)
  BY <1>5, <1>7, <1>14, <1>16
<1>18. \A x \in Under(node, n) : ~Exceeds(x, e, d, max)
  BY <1>3, <1>4, <1>6, <1>17, WalkBounds
<1>19. QED
  BY <1>1, <1>5, <1>17, <1>18 DEF Extremum

\* --- deletion ----------------------------------------------------------------

\* y's entry can take x's place: it is the greatest before x, or the least after it if nothing is before it.
Replaces(x, y) ==
  IF node[x].before # Null THEN Extremum(node[x].before, node[x].dim, TRUE, y)
                           ELSE node[x].after # Null /\ Extremum(node[x].after, node[x].dim, FALSE, y)

LEMMA TargetIs ==
  ASSUME Tree(node, root), Ordered(node), NEW x \in live, ~IsLeaf(x)
  PROVE  /\ Replaces(x, Target(x)) /\ Target(x) \in live
         /\ Target(x) \in Under(node, x) /\ \E m \in Kids(node, x) : Target(x) \in Under(node, m)
<1>1. node[x].dim \in 0..(Dimensions - 1) /\ TRUE \in BOOLEAN /\ FALSE \in BOOLEAN
  BY Coordinates DEF live
<1>2. \A m \in Kids(node, x) : m \in live /\ Under(node, m) \subseteq Under(node, x) /\ Under(node, x) \subseteq live
  BY UnderKid, UnderSelf DEF live
<1>3. CASE node[x].before # Null
  <2>1. PICK b : b = node[x].before /\ b \in Kids(node, x) /\ b \in live
    BY <1>2, <1>3 DEF Kids
  <2>2. Target(x) = Extreme(b, node[x].dim, TRUE)
    BY <1>3, <2>1 DEF Target
  <2>3. Extremum(b, node[x].dim, TRUE, Target(x))
    BY <1>1, <2>1, <2>2, ExtremeIs
  <2>4. QED
    BY <1>2, <1>3, <2>1, <2>3 DEF Replaces, Extremum
<1>4. CASE node[x].before = Null
  <2>1. PICK a : a = node[x].after /\ a \in Kids(node, x) /\ a \in live /\ a # Null
    BY <1>2, <1>4 DEF Kids, IsLeaf
  <2>2. Target(x) = Extreme(a, node[x].dim, FALSE)
    BY <1>4, <2>1 DEF Target
  <2>3. Extremum(a, node[x].dim, FALSE, Target(x))
    BY <1>1, <2>1, <2>2, ExtremeIs
  <2>4. QED
    BY <1>2, <1>4, <2>1, <2>3 DEF Replaces, Extremum
<1>5. QED
  BY <1>3, <1>4

\* The nodes from n on whose entries move up, the leaf at the end, and nothing after it.
Chained(n, s, c) ==
  /\ s \in Nat /\ s <= Cardinality(Node)
  /\ c \in [0..Cardinality(Node) -> live \cup {Null}] /\ c[0] = n
  /\ \A k \in 0..s : c[k] \in live
  /\ \A k \in 0..s : k < s => ~IsLeaf(c[k]) /\ c[k + 1] = Target(c[k])
  /\ IsLeaf(c[s])
  /\ \A k \in 0..Cardinality(Node) : s < k => c[k] = Null

LEMMA ChainEnds ==
  ASSUME Tree(node, root), Ordered(node), NEW n \in live,
         NEW c \in [0..Cardinality(Node) -> live \cup {Null}], c[0] = n,
         \A k \in 1..Cardinality(Node) :
           c[k] = IF c[k - 1] = Null \/ IsLeaf(c[k - 1]) THEN Null ELSE Target(c[k - 1])
  PROVE  \E s : Chained(n, s, c)
<1>1. PICK C \in Nat : C = Cardinality(Node)
  BY NodesCount
<1>2. PICK depth : Deep(node, root, depth)
  BY DEF Tree
<1>3. \A m \in live : depth[m] \in Nat /\ depth[m] + 1 <= C /\ m # Null
  <2>1. live \subseteq Node
    BY DEF Tree, Shape, live
  <2>2. IsFiniteSet(live) /\ Cardinality(live) \in Nat /\ Cardinality(live) <= C
    BY <1>1, <2>1, NodesCount
  <2>3. \A m \in live : depth[m] \in Nat
    BY <1>2 DEF Deep, live
  <2>4. \A m \in live : depth[m] + 1 <= Cardinality(live)
    BY <1>2, <2>2, Shallow DEF live
  <2>5. \A m \in live : m # Null
    BY KidIs DEF live
  <2>6. QED
    BY <1>1, <2>2, <2>3, <2>4, <2>5
<1> DEFINE Down == {k \in 0..C : c[k] # Null => c[k] \in live /\ k <= depth[c[k]]}
<1>4. 0 \in Down
  <2>1. 0 \in 0..C /\ 0 <= depth[n]
    BY <1>1, <1>3
  <2>2. QED
    BY <2>1
<1>5. \A k \in 0..C : k \in Down /\ k < C => k + 1 \in Down
  <2> SUFFICES ASSUME NEW k \in 0..C, k \in Down, k < C, c[k + 1] # Null PROVE k + 1 \in Down
    BY <1>1
  <2>1. k + 1 \in 1..C /\ (k + 1) - 1 = k /\ k + 1 \in 0..C
    BY <1>1
  <2>2. c[k + 1] = IF c[k] = Null \/ IsLeaf(c[k]) THEN Null ELSE Target(c[k])
    BY <1>1, <2>1
  <2>3. c[k] # Null /\ ~IsLeaf(c[k]) /\ c[k + 1] = Target(c[k]) /\ c[k] \in live
    BY <2>2
  <2>4. c[k + 1] \in live /\ \E m \in Kids(node, c[k]) : c[k + 1] \in Under(node, m)
    BY <2>3, TargetIs
  <2>5. PICK m \in Kids(node, c[k]) : c[k + 1] \in Under(node, m)
    BY <2>4
  <2>6. depth[m] = depth[c[k]] + 1 /\ m \in live
    BY <1>2, <2>3, KidIs DEF Deep, live
  <2>7. depth[m] <= depth[c[k + 1]]
    BY <1>2, <1>3, <2>4, <2>5, <2>6, Deeper DEF live
  <2>8. QED
    BY <1>3, <2>1, <2>3, <2>4, <2>6, <2>7
<1> HIDE DEF Down
<1>6. \A k \in 0..C : k \in Down
  BY <1>1, <1>4, <1>5, Upward
<1>7. c[C] = Null
  <2>1. C \in 0..C /\ C \in Down
    BY <1>1, <1>6
  <2>2. QED
    BY <1>1, <1>3, <2>1 DEF Down
<1> DEFINE Ends == {k \in 0..C : c[k] = Null}
<1>8. Ends \subseteq Nat /\ Ends # {}
  BY <1>1, <1>7
<1>9. PICK z \in Ends : \A y \in Ends : z <= y
  BY <1>8, HasLeast
<1>10. z \in 1..C /\ c[z] = Null /\ z - 1 \in 0..C
  BY <1>1, <1>3, <1>9
<1> DEFINE s == z - 1
<1>11. \A k \in 0..s : k \in 0..C /\ c[k] # Null /\ c[k] \in live
  <2> SUFFICES ASSUME NEW k \in 0..s PROVE k \in 0..C /\ c[k] # Null /\ c[k] \in live
    OBVIOUS
  <2>1. k \in 0..C /\ ~(z <= k)
    BY <1>10
  <2>2. c[k] # Null
    BY <1>9, <2>1
  <2>3. QED
    BY <1>1, <2>1, <2>2
<1>12. \A k \in 0..s : k < s => ~IsLeaf(c[k]) /\ c[k + 1] = Target(c[k])
  <2> SUFFICES ASSUME NEW k \in 0..s, k < s PROVE ~IsLeaf(c[k]) /\ c[k + 1] = Target(c[k])
    OBVIOUS
  <2>1. k + 1 \in 0..s /\ k + 1 \in 1..C /\ (k + 1) - 1 = k
    BY <1>10
  <2>2. c[k + 1] # Null /\ c[k] # Null
    BY <1>11, <2>1
  <2>3. c[k + 1] = IF c[k] = Null \/ IsLeaf(c[k]) THEN Null ELSE Target(c[k])
    BY <1>1, <2>1
  <2>4. QED
    BY <2>2, <2>3
<1>13. IsLeaf(c[s])
  <2>1. s \in 0..s /\ c[s] \in live /\ c[s] # Null
    BY <1>10, <1>11
  <2>2. c[z] = IF c[s] = Null \/ IsLeaf(c[s]) THEN Null ELSE Target(c[s])
    BY <1>1, <1>10
  <2>3. CASE ~IsLeaf(c[s])
    <3>1. Target(c[s]) \in live /\ c[z] = Target(c[s])
      BY <2>1, <2>2, <2>3, TargetIs
    <3>2. QED
      BY <1>3, <1>10, <3>1
  <2>4. QED
    BY <2>3
<1> DEFINE After == {k \in 0..(C - z) : c[z + k] = Null}
<1>14. \A k \in 0..(C - z) : k \in After
  <2>1. 0 \in After /\ C - z \in Nat
    BY <1>1, <1>10
  <2>2. \A k \in 0..(C - z) : k \in After /\ k < C - z => k + 1 \in After
    <3> SUFFICES ASSUME NEW k \in 0..(C - z), k \in After, k < C - z PROVE k + 1 \in After
      OBVIOUS
    <3>1. z + (k + 1) \in 1..C /\ (z + (k + 1)) - 1 = z + k /\ k + 1 \in 0..(C - z)
      BY <1>1, <1>10
    <3>2. c[z + k] = Null
      OBVIOUS
    <3>3. c[z + (k + 1)] = IF c[z + k] = Null \/ IsLeaf(c[z + k]) THEN Null ELSE Target(c[z + k])
      BY <1>1, <3>1
    <3>4. QED
      BY <3>1, <3>2, <3>3
  <2> HIDE DEF After
  <2>3. QED
    BY <2>1, <2>2, Upward
<1>15. \A k \in 0..C : s < k => c[k] = Null
  <2> SUFFICES ASSUME NEW k \in 0..C, s < k PROVE c[k] = Null
    OBVIOUS
  <2>1. k - z \in 0..(C - z) /\ z + (k - z) = k
    BY <1>1, <1>10
  <2>2. k - z \in After
    BY <1>14, <2>1
  <2>3. QED
    BY <2>1, <2>2
<1>16. s \in Nat /\ s <= C
  BY <1>1, <1>10
<1> HIDE DEF s, After, Ends
<1>17. Chained(n, s, c)
  BY <1>1, <1>11, <1>12, <1>13, <1>15, <1>16 DEF Chained
<1>18. QED
  BY <1>17

\* What delete_node leaves: the entries moved up along the chain, the leaf at its end gone.
Moves(c, s, m) ==
  IF \E k \in 0..(s - 1) : c[k] = m
  THEN LET y == c[(CHOOSE k \in 0..(s - 1) : c[k] = m) + 1]
       IN  [node[m] EXCEPT !.pt = node[y].pt, !.value = node[y].value]
  ELSE node[m]

Cuts(leaf, r) == [r EXCEPT !.before = IF @ = leaf THEN Null ELSE @, !.after = IF @ = leaf THEN Null ELSE @]

Deletes(c, s) ==
  /\ node' = [m \in live \ {c[s]} |-> IF m = node[c[s]].parent THEN Cuts(c[s], Moves(c, s, m)) ELSE Moves(c, s, m)]
  /\ root' = IF node[c[s]].parent = Null THEN Null ELSE root
  /\ count' = count - 1

LEMMA DeleteIs ==
  ASSUME Tree(node, root), Ordered(node), NEW n \in live, DeleteNode(n)
  PROVE  \E c, s : Chained(n, s, c) /\ Deletes(c, s)
<1> DEFINE C == Cardinality(Node)
           S == live \cup {Null}
           Step(k, x) == IF x = Null \/ IsLeaf(x) THEN Null ELSE Target(x)
           step == [x \in (1..C) \X S |-> Step(x[1], x[2])]
           body(f) == [k \in 0..C |-> IF k = 0 THEN n
                         ELSE IF f[k - 1] = Null \/ IsLeaf(f[k - 1]) THEN Null ELSE Target(f[k - 1])]
           c == CHOOSE f : f = body(f)
           steps == {k \in DOMAIN c : c[k] # Null /\ ~IsLeaf(c[k])}
           leaf == c[Cardinality(steps)]
           moved(m) == IF \E k \in steps : c[k] = m
                       THEN LET y == c[(CHOOSE k \in steps : c[k] = m) + 1]
                            IN  [node[m] EXCEPT !.pt = node[y].pt, !.value = node[y].value]
                       ELSE node[m]
<1>0. /\ node' = [m \in live \ {leaf} |-> IF m = node[leaf].parent THEN Cuts(leaf, moved(m)) ELSE moved(m)]
      /\ root' = IF node[leaf].parent = Null THEN Null ELSE root
      /\ count' = count - 1
  BY DEF DeleteNode, Cuts
<1>1. C \in Nat
  BY NodesCount
<1>2. \A k \in 1..C, x \in S : Step(k, x) \in S
  BY TargetIs
<1>3. step \in [(1..C) \X S -> S]
  BY <1>2
<1>5. \A k \in 1..C, x \in S : step[<<k, x>>] = Step(k, x)
  OBVIOUS
<1>6. \A f : body(f) = [k \in 0..C |-> IF k = 0 THEN n ELSE Step(k, f[k - 1])]
  OBVIOUS
<1>4. n \in S
  OBVIOUS
<1> HIDE DEF C, S, Step, step, body
<1>7. PICK f : Solves(f, S, n, step, C)
  BY <1>1, <1>3, <1>4, Recursion
<1>8. f = body(f)
  <2>1. f \in [0..C -> S] /\ f[0] = n
    BY <1>7 DEF Solves
  <2>2. \A k \in 0..C : f[k] = IF k = 0 THEN n ELSE Step(k, f[k - 1])
    <3> SUFFICES ASSUME NEW k \in 0..C, k # 0 PROVE f[k] = Step(k, f[k - 1])
      BY <2>1
    <3>1. k \in 1..C /\ k - 1 \in 0..C
      BY <1>1
    <3>2. f[k] = step[<<k, f[k - 1]>>] /\ f[k - 1] \in S
      BY <1>7, <2>1, <3>1 DEF Solves
    <3>3. QED
      BY <1>5, <3>1, <3>2
  <2>3. QED
    BY <1>6, <2>1, <2>2
<1>9. c = body(c)
  BY <1>8
<1> HIDE DEF c
<1>10. c = [k \in 0..C |-> IF k = 0 THEN n ELSE Step(k, c[k - 1])]
  BY <1>6, <1>9
<1>11. c[0] = n /\ \A k \in 1..C : c[k] = Step(k, c[k - 1])
  <2>1. \A k \in 0..C : c[k] = IF k = 0 THEN n ELSE Step(k, c[k - 1])
    BY <1>10
  <2>2. 0 \in 0..C /\ \A k \in 1..C : k \in 0..C /\ k # 0
    BY <1>1
  <2>3. QED
    BY <2>1, <2>2
<1> DEFINE P == {k \in 0..C : c[k] \in S}
<1>12. 0 \in P
  <2>1. 0 \in 0..C
    BY <1>1
  <2>2. QED
    BY <1>4, <1>11, <2>1
<1>13. \A k \in 0..C : k \in P /\ k < C => k + 1 \in P
  <2> SUFFICES ASSUME NEW k \in 0..C, k \in P, k < C PROVE k + 1 \in P
    OBVIOUS
  <2>1. k + 1 \in 1..C /\ (k + 1) - 1 = k /\ k + 1 \in 0..C
    BY <1>1
  <2>2. c[k + 1] = Step(k + 1, c[k])
    BY <1>11, <2>1
  <2>3. c[k + 1] \in S
    BY <1>2, <2>1, <2>2
  <2>4. QED
    BY <2>1, <2>3
<1> HIDE DEF P
<1>14. \A k \in 0..C : k \in P
  BY <1>1, <1>12, <1>13, Upward
<1>15. \A k \in 0..C : c[k] \in S
  BY <1>14 DEF P
<1>16. c \in [0..C -> S]
  BY <1>10, <1>15
<1>17. PICK s : Chained(n, s, c)
  <2>1. \A k \in 1..C : c[k] = IF c[k - 1] = Null \/ IsLeaf(c[k - 1]) THEN Null ELSE Target(c[k - 1])
    BY <1>11 DEF Step
  <2>2. QED
    BY <1>11, <1>16, <2>1, ChainEnds DEF C, S
<1>18. s \in Nat /\ s <= C
  BY <1>17 DEF Chained, C
<1>19. steps = 0..(s - 1)
  <2>1. DOMAIN c = 0..C
    BY <1>16
  <2>2. \A k \in 0..C : (c[k] # Null /\ ~IsLeaf(c[k])) <=> k \in 0..(s - 1)
    <3> SUFFICES ASSUME NEW k \in 0..C PROVE (c[k] # Null /\ ~IsLeaf(c[k])) <=> k \in 0..(s - 1)
      OBVIOUS
    <3>0. \A m \in live : m # Null
      BY KidIs DEF live
    <3>1. CASE k < s
      <4>1. k \in 0..s /\ k \in 0..(s - 1)
        BY <1>18, <3>1
      <4>2. c[k] \in live /\ ~IsLeaf(c[k])
        BY <1>17, <3>1, <4>1 DEF Chained
      <4>3. QED
        BY <3>0, <4>1, <4>2
    <3>2. CASE k = s
      <4>1. IsLeaf(c[k])
        BY <1>17, <3>2 DEF Chained
      <4>2. QED
        BY <1>18, <3>2, <4>1
    <3>3. CASE s < k
      <4>1. c[k] = Null
        BY <1>17, <3>3 DEF Chained, C
      <4>2. QED
        BY <1>18, <3>3, <4>1
    <3>4. QED
      BY <1>18, <3>1, <3>2, <3>3
  <2>3. \A k \in 0..(s - 1) : k \in 0..C
    BY <1>1, <1>18
  <2>4. QED
    BY <2>1, <2>2, <2>3
<1>20. Cardinality(steps) = s
  <2>1. Cardinality(0..(s - 1)) = IF 0 > s - 1 THEN 0 ELSE (s - 1) - 0 + 1
    BY <1>18, FS_Interval
  <2>2. Cardinality(0..(s - 1)) = s
    <3>1. CASE s = 0
      BY <2>1, <3>1
    <3>2. CASE s # 0
      BY <1>18, <2>1, <3>2
    <3>3. QED
      BY <3>1, <3>2
  <2>3. QED
    BY <1>19, <2>2
<1>21. leaf = c[s]
  BY <1>20
<1>22. \A m : moved(m) = Moves(c, s, m)
  BY <1>19 DEF Moves
<1> HIDE DEF moved, leaf, steps
<1>23. Deletes(c, s)
  BY <1>0, <1>21, <1>22 DEF Deletes
<1>24. QED
  BY <1>17, <1>23

\* f gives each node that stays the node whose entry it has after the deletion of n.
Lifted(n, leaf, f) ==
  /\ leaf \in Under(node, n) /\ IsLeaf(leaf) /\ (IsLeaf(n) => leaf = n)
  /\ f \in [live \ {leaf} -> live \ {n}]
  /\ \A y \in live \ {n} : \E m \in live \ {leaf} : f[m] = y
  /\ \A m, x \in live \ {leaf} : f[m] = f[x] => m = x
  /\ \A m \in live \ {leaf} : f[m] \in Under(node, m) /\ (f[m] = m \/ Replaces(m, f[m]))
  /\ \A m \in live \ {leaf} : f[m] # m => m \in Under(node, n)

\* The tree without the leaf, and with the entries where f puts them.
Removed(leaf, f, nd, rt) ==
  /\ nd \in [live \ {leaf} -> Records]
  /\ \A m \in live \ {leaf} :
       /\ nd[m].pt = node[f[m]].pt /\ nd[m].value = node[f[m]].value
       /\ nd[m].before = IF node[m].before = leaf THEN Null ELSE node[m].before
       /\ nd[m].after = IF node[m].after = leaf THEN Null ELSE node[m].after
       /\ nd[m].parent = node[m].parent /\ nd[m].dim = node[m].dim
  /\ rt = IF node[leaf].parent = Null THEN Null ELSE root

LEMMA ChainDescends ==
  ASSUME Tree(node, root), Ordered(node), NEW n \in live, NEW s, NEW c, Chained(n, s, c)
  PROVE  /\ \A k \in 0..s : c[k] \in live /\ c[k] \in Under(node, n)
         /\ \A k \in 0..s : k < s => Replaces(c[k], c[k + 1]) /\ c[k + 1] \in Under(node, c[k])
         /\ \A j, k \in 0..s : c[j] = c[k] => j = k
<1>1. PICK depth : Deep(node, root, depth)
  BY DEF Tree
<1>2. s \in Nat /\ c[0] = n /\ \A k \in 0..s : c[k] \in live
  BY DEF Chained
<1>3. \A k \in 0..s : depth[c[k]] \in Nat
  BY <1>1, <1>2 DEF Deep, live
<1>4. \A k \in 0..s : k < s => Replaces(c[k], c[k + 1]) /\ c[k + 1] \in Under(node, c[k]) /\ depth[c[k]] < depth[c[k + 1]]
  <2> SUFFICES ASSUME NEW k \in 0..s, k < s
               PROVE Replaces(c[k], c[k + 1]) /\ c[k + 1] \in Under(node, c[k]) /\ depth[c[k]] < depth[c[k + 1]]
    OBVIOUS
  <2>1. ~IsLeaf(c[k]) /\ c[k + 1] = Target(c[k]) /\ c[k] \in live
    BY <1>2 DEF Chained
  <2>2. Replaces(c[k], c[k + 1]) /\ c[k + 1] \in Under(node, c[k]) /\ \E m \in Kids(node, c[k]) : c[k + 1] \in Under(node, m)
    BY <2>1, TargetIs
  <2>3. PICK m \in Kids(node, c[k]) : c[k + 1] \in Under(node, m)
    BY <2>2
  <2>4. m \in live /\ depth[m] = depth[c[k]] + 1 /\ depth[m] \in Nat
    BY <1>1, <2>1, KidIs DEF Deep, live
  <2>5. m = c[k + 1] \/ depth[m] < depth[c[k + 1]]
    BY <1>1, <2>3, <2>4, Deeper DEF live
  <2>6. k + 1 \in 0..s
    BY <1>2
  <2>7. QED
    BY <1>3, <2>2, <2>4, <2>5, <2>6
<1> DEFINE P == {k \in 0..s : c[k] \in Under(node, n) /\ \A j \in 0..s : j < k => depth[c[j]] < depth[c[k]]}
<1>5. 0 \in P
  <2>1. 0 \in 0..s /\ n \in Under(node, n)
    BY <1>2, UnderSelf DEF live
  <2>2. QED
    BY <1>2, <2>1
<1>6. \A k \in 0..s : k \in P /\ k < s => k + 1 \in P
  <2> SUFFICES ASSUME NEW k \in 0..s, k \in P, k < s PROVE k + 1 \in P
    OBVIOUS
  <2>1. k + 1 \in 0..s
    BY <1>2
  <2>2. c[k + 1] \in Under(node, n)
    BY <1>2, <1>4, UnderWithin DEF live
  <2>3. \A j \in 0..s : j < k + 1 => j < k \/ j = k
    BY <1>2
  <2>4. \A j \in 0..s : j < k + 1 => depth[c[j]] < depth[c[k + 1]]
    BY <1>3, <1>4, <2>1, <2>3
  <2>5. QED
    BY <2>1, <2>2, <2>4
<1> HIDE DEF P
<1>7. \A k \in 0..s : k \in P
  BY <1>2, <1>5, <1>6, Upward
<1>8. \A j, k \in 0..s : c[j] = c[k] => j = k
  <2> SUFFICES ASSUME NEW j \in 0..s, NEW k \in 0..s, j # k PROVE c[j] # c[k]
    OBVIOUS
  <2>1. depth[c[j]] < depth[c[k]] \/ depth[c[k]] < depth[c[j]]
    <3>1. j < k \/ k < j
      BY <1>2
    <3>2. QED
      BY <1>7, <3>1 DEF P
  <2>2. QED
    BY <1>3, <2>1
<1>9. QED
  BY <1>2, <1>4, <1>7, <1>8 DEF P

LEMMA DeletionLifts ==
  ASSUME Tree(node, root), Ordered(node), NEW n \in live, NEW s, NEW c, Chained(n, s, c), Deletes(c, s)
  PROVE  \E leaf, f : Lifted(n, leaf, f) /\ Removed(leaf, f, node', root')
<1> DEFINE leaf == c[s]
           f == [m \in live \ {leaf} |-> IF \E k \in 0..(s - 1) : c[k] = m
                                         THEN c[(CHOOSE k \in 0..(s - 1) : c[k] = m) + 1] ELSE m]
<1>1. s \in Nat /\ c[0] = n /\ IsLeaf(leaf) /\ s \in 0..s /\ 0 \in 0..s
  BY DEF Chained
<1>2. \A k \in 0..s : c[k] \in live /\ c[k] \in Under(node, n)
  BY ChainDescends
<1>3. \A k \in 0..s : k < s => Replaces(c[k], c[k + 1]) /\ c[k + 1] \in Under(node, c[k])
  BY ChainDescends
<1>4. \A j, k \in 0..s : c[j] = c[k] => j = k
  BY ChainDescends
<1>5. \A k \in 0..(s - 1) : k \in 0..s /\ k + 1 \in 0..s /\ k < s /\ k # s /\ k + 1 # 0
  BY <1>1
<1>6. \A k \in 0..(s - 1) : c[k] \in live \ {leaf} /\ f[c[k]] = c[k + 1]
  <2> SUFFICES ASSUME NEW k \in 0..(s - 1) PROVE c[k] \in live \ {leaf} /\ f[c[k]] = c[k + 1]
    OBVIOUS
  <2>1. c[k] \in live \ {leaf}
    BY <1>1, <1>2, <1>4, <1>5
  <2>2. (CHOOSE j \in 0..(s - 1) : c[j] = c[k]) = k
    BY <1>4, <1>5
  <2>3. QED
    BY <2>1, <2>2
<1>7. \A m \in live \ {leaf} : (\E k \in 0..(s - 1) : m = c[k]) \/ (f[m] = m /\ \A k \in 0..s : m # c[k])
  <2> SUFFICES ASSUME NEW m \in live \ {leaf}, ~ \E k \in 0..(s - 1) : m = c[k]
               PROVE f[m] = m /\ \A k \in 0..s : m # c[k]
    OBVIOUS
  <2>1. f[m] = m
    OBVIOUS
  <2>2. \A k \in 0..s : k = s \/ k \in 0..(s - 1)
    BY <1>1
  <2>3. QED
    BY <2>1, <2>2
<1>8. DOMAIN f = live \ {leaf} /\ f = [m \in live \ {leaf} |-> f[m]]
  OBVIOUS
<1>9. \A m : /\ ~(\E k \in 0..(s - 1) : c[k] = m) => Moves(c, s, m) = node[m]
             /\ \A i : (\E k \in 0..(s - 1) : c[k] = m) /\ (CHOOSE k \in 0..(s - 1) : c[k] = m) = i
                     => Moves(c, s, m) = [node[m] EXCEPT !.pt = node[c[i + 1]].pt, !.value = node[c[i + 1]].value]
  BY DEF Moves
<1>10. \A k \in 0..(s - 1) : (CHOOSE j \in 0..(s - 1) : c[j] = c[k]) = k
  BY <1>4, <1>5
<1> HIDE DEF f
<1>11. \A m \in live \ {leaf} : f[m] \in live \ {n} /\ f[m] \in Under(node, m) /\ (f[m] = m \/ Replaces(m, f[m])) /\ (f[m] # m => m \in Under(node, n))
  <2> SUFFICES ASSUME NEW m \in live \ {leaf}
               PROVE f[m] \in live \ {n} /\ f[m] \in Under(node, m) /\ (f[m] = m \/ Replaces(m, f[m])) /\ (f[m] # m => m \in Under(node, n))
    OBVIOUS
  <2>1. CASE \E k \in 0..(s - 1) : m = c[k]
    <3>1. PICK k \in 0..(s - 1) : m = c[k]
      BY <2>1
    <3>2. f[m] = c[k + 1]
      BY <1>6, <3>1
    <3>3. QED
      BY <1>1, <1>2, <1>3, <1>4, <1>5, <3>1, <3>2
  <2>2. CASE f[m] = m /\ \A k \in 0..s : m # c[k]
    BY <1>1, <2>2, UnderSelf DEF live
  <2>3. QED
    BY <1>7, <2>1, <2>2
<1>12. f \in [live \ {leaf} -> live \ {n}]
  BY <1>8, <1>11
<1>13. \A y \in live \ {n} : \E m \in live \ {leaf} : f[m] = y
  <2> SUFFICES ASSUME NEW y \in live \ {n} PROVE \E m \in live \ {leaf} : f[m] = y
    OBVIOUS
  <2>1. CASE \E k \in 0..s : y = c[k]
    <3>1. PICK k \in 0..s : y = c[k]
      BY <2>1
    <3>2. k # 0
      BY <1>1, <3>1
    <3>3. k - 1 \in 0..(s - 1) /\ (k - 1) + 1 = k
      BY <1>1, <3>2
    <3>4. QED
      BY <1>6, <3>1, <3>3
  <2>2. CASE ~ \E k \in 0..s : y = c[k]
    <3>1. y # leaf
      BY <1>1, <2>2
    <3>2. f[y] = y
      BY <1>5, <1>7, <2>2, <3>1
    <3>3. QED
      BY <3>1, <3>2
  <2>3. QED
    BY <2>1, <2>2
<1>14. \A m, x \in live \ {leaf} : f[m] = f[x] => m = x
  <2> SUFFICES ASSUME NEW m \in live \ {leaf}, NEW x \in live \ {leaf}, f[m] = f[x] PROVE m = x
    OBVIOUS
  <2>1. CASE (\E k \in 0..(s - 1) : m = c[k]) /\ (\E j \in 0..(s - 1) : x = c[j])
    <3>1. PICK k, j \in 0..(s - 1) : m = c[k] /\ x = c[j]
      BY <2>1
    <3>2. c[k + 1] = c[j + 1]
      BY <1>6, <3>1
    <3>3. k + 1 = j + 1
      BY <1>4, <1>5, <3>2
    <3>4. k = j
      BY <1>1, <3>3
    <3>5. QED
      BY <3>1, <3>4
  <2>2. CASE (\E k \in 0..(s - 1) : m = c[k]) /\ ~(\E j \in 0..(s - 1) : x = c[j])
    <3>1. PICK k \in 0..(s - 1) : m = c[k]
      BY <2>2
    <3>2. f[m] = c[k + 1] /\ k + 1 \in 0..s
      BY <1>5, <1>6, <3>1
    <3>3. f[x] = x /\ x # c[k + 1]
      BY <1>7, <2>2, <3>2
    <3>4. QED
      BY <3>2, <3>3
  <2>3. CASE ~(\E k \in 0..(s - 1) : m = c[k]) /\ (\E j \in 0..(s - 1) : x = c[j])
    <3>1. PICK k \in 0..(s - 1) : x = c[k]
      BY <2>3
    <3>2. f[x] = c[k + 1] /\ k + 1 \in 0..s
      BY <1>5, <1>6, <3>1
    <3>3. f[m] = m /\ m # c[k + 1]
      BY <1>7, <2>3, <3>2
    <3>4. QED
      BY <3>2, <3>3
  <2>4. CASE ~(\E k \in 0..(s - 1) : m = c[k]) /\ ~(\E j \in 0..(s - 1) : x = c[j])
    BY <1>7, <2>4
  <2>5. QED
    BY <2>1, <2>2, <2>3, <2>4
<1>15. IsLeaf(n) => leaf = n
  <2> SUFFICES ASSUME IsLeaf(n), s # 0 PROVE FALSE
    BY <1>1
  <2>1. 0 \in 0..s /\ 0 < s
    BY <1>1
  <2>2. ~IsLeaf(c[0])
    BY <2>1 DEF Chained
  <2>3. QED
    BY <1>1, <2>2
<1>16. Lifted(n, leaf, f)
  BY <1>1, <1>2, <1>11, <1>12, <1>13, <1>14, <1>15 DEF Lifted
<1>17. \A m \in live : node[m] \in Records
  BY DEF Tree, Shape, live
<1>18. \A m \in live \ {leaf} : Moves(c, s, m) = [node[m] EXCEPT !.pt = node[f[m]].pt, !.value = node[f[m]].value]
  <2> SUFFICES ASSUME NEW m \in live \ {leaf}
               PROVE Moves(c, s, m) = [node[m] EXCEPT !.pt = node[f[m]].pt, !.value = node[f[m]].value]
    OBVIOUS
  <2>1. CASE \E k \in 0..(s - 1) : m = c[k]
    <3>1. PICK k \in 0..(s - 1) : m = c[k]
      BY <2>1
    <3>2. f[m] = c[k + 1] /\ (CHOOSE j \in 0..(s - 1) : c[j] = m) = k
      BY <1>6, <1>10, <3>1
    <3>3. QED
      <4>1. \E j \in 0..(s - 1) : c[j] = m
        BY <3>1
      <4>2. Moves(c, s, m) = [node[m] EXCEPT !.pt = node[c[k + 1]].pt, !.value = node[c[k + 1]].value]
        BY <1>9, <3>2, <4>1, Zenon
      <4>3. QED
        BY <3>2, <4>2
  <2>2. CASE ~ \E k \in 0..(s - 1) : m = c[k]
    <3>1. f[m] = m /\ Moves(c, s, m) = node[m]
      BY <1>7, <1>9, <2>2
    <3>2. \A r \in Records : [r EXCEPT !.pt = r.pt, !.value = r.value] = r
      BY DEF Records
    <3>3. QED
      BY <1>17, <3>1, <3>2
  <2>3. QED
    BY <2>1, <2>2
<1>19. \A m \in live \ {leaf} : \A x \in {node[m].before, node[m].after} : x = leaf => m = node[leaf].parent
  <2>1. leaf \in live /\ leaf # Null
    BY <1>1, <1>2, KidIs DEF live
  <2>2. \A m \in live : \A x \in Kids(node, m) : node[x].parent = m
    BY KidIs DEF live
  <2>3. QED
    BY <2>1, <2>2 DEF Kids
<1>20. node' = [m \in live \ {leaf} |-> IF m = node[leaf].parent THEN Cuts(leaf, Moves(c, s, m)) ELSE Moves(c, s, m)]
       /\ root' = IF node[leaf].parent = Null THEN Null ELSE root
  BY DEF Deletes
<1> HIDE DEF leaf
<1>22. \A r \in Records : \A t : t = Cuts(leaf, r) =>
          /\ t \in Records /\ t.pt = r.pt /\ t.value = r.value /\ t.parent = r.parent /\ t.dim = r.dim
          /\ t.before = (IF r.before = leaf THEN Null ELSE r.before)
          /\ t.after = (IF r.after = leaf THEN Null ELSE r.after)
  BY DEF Records, Cuts
<1>23. \A m \in live \ {leaf} :
        /\ node'[m] \in Records
        /\ node'[m].pt = node[f[m]].pt /\ node'[m].value = node[f[m]].value
        /\ node'[m].before = (IF node[m].before = leaf THEN Null ELSE node[m].before)
        /\ node'[m].after = (IF node[m].after = leaf THEN Null ELSE node[m].after)
        /\ node'[m].parent = node[m].parent /\ node'[m].dim = node[m].dim
  <2> SUFFICES ASSUME NEW m \in live \ {leaf}
               PROVE  /\ node'[m] \in Records
                      /\ node'[m].pt = node[f[m]].pt /\ node'[m].value = node[f[m]].value
                      /\ node'[m].before = (IF node[m].before = leaf THEN Null ELSE node[m].before)
                      /\ node'[m].after = (IF node[m].after = leaf THEN Null ELSE node[m].after)
                      /\ node'[m].parent = node[m].parent /\ node'[m].dim = node[m].dim
    OBVIOUS
  <2>1. node[f[m]].pt \in Points /\ node[f[m]].value \in Values
    BY <1>12, Coordinates DEF live
  <2>2. PICK t : t = Moves(c, s, m)
    OBVIOUS
  <2>3. /\ t \in Records /\ t.pt = node[f[m]].pt /\ t.value = node[f[m]].value
        /\ t.before = node[m].before /\ t.after = node[m].after /\ t.parent = node[m].parent /\ t.dim = node[m].dim
    <3>1. PICK r, p, v : r = node[m] /\ p = node[f[m]].pt /\ v = node[f[m]].value
      OBVIOUS
    <3>2. r \in Records /\ p \in Points /\ v \in Values /\ t = [r EXCEPT !.pt = p, !.value = v]
      BY <1>17, <1>18, <2>1, <2>2, <3>1
    <3>3. /\ t \in Records /\ t.pt = p /\ t.value = v /\ t.before = r.before /\ t.after = r.after
          /\ t.parent = r.parent /\ t.dim = r.dim
      BY <3>2 DEF Records
    <3>4. QED
      BY <3>1, <3>3
  <2>4. node'[m] = IF m = node[leaf].parent THEN Cuts(leaf, t) ELSE t
    BY <1>20, <2>2
  <2>5. CASE m = node[leaf].parent
    <3>1. PICK u : u = Cuts(leaf, t)
      OBVIOUS
    <3>2. node'[m] = u
      BY <2>4, <2>5, <3>1
    <3>3. /\ u \in Records /\ u.pt = t.pt /\ u.value = t.value /\ u.parent = t.parent /\ u.dim = t.dim
          /\ u.before = (IF t.before = leaf THEN Null ELSE t.before)
          /\ u.after = (IF t.after = leaf THEN Null ELSE t.after)
      BY <1>22, <2>3, <3>1
    <3>4. QED
      BY <2>3, <3>2, <3>3
  <2>6. CASE m # node[leaf].parent
    <3>1. node'[m] = t
      BY <2>4, <2>6
    <3>2. node[m].before # leaf /\ node[m].after # leaf
      BY <1>19, <2>6
    <3>3. QED
      BY <2>3, <3>1, <3>2
  <2>7. QED
    BY <2>5, <2>6
<1>24. node' \in [live \ {leaf} -> Records]
  <2>1. node' = [m \in live \ {leaf} |-> node'[m]]
    BY <1>20
  <2>2. QED
    BY <1>23, <2>1
<1>25. Removed(leaf, f, node', root')
  BY <1>20, <1>23, <1>24 DEF Removed
<1>26. QED
  BY <1>16, <1>25

\* nd and rt are what is left of the tree when n has been deleted.
Deleted(n, leaf, f, nd, rt) ==
  n \in live /\ Tree(node, root) /\ Ordered(node) /\ Lifted(n, leaf, f) /\ Removed(leaf, f, nd, rt)

Remains(leaf, nd, rt) ==
  Tree(nd, rt) /\ DOMAIN nd = live \ {leaf} /\ \A m \in live \ {leaf} : Under(nd, m) = Under(node, m) \ {leaf}

LEMMA RemovedTree ==
  ASSUME NEW n, NEW leaf, NEW f, NEW nd, NEW rt, Deleted(n, leaf, f, nd, rt)
  PROVE  Remains(leaf, nd, rt)
<1> n \in live /\ Tree(node, root) /\ Lifted(n, leaf, f) /\ Removed(leaf, f, nd, rt)
  BY DEF Deleted
<1>1. PICK old : old = node
  OBVIOUS
<1>2. PICK D : D = DOMAIN old /\ live = D
  BY <1>1 DEF live
<1>3. Tree(old, root) /\ n \in D
  BY <1>1, <1>2
<1>4. leaf \in D /\ Kids(old, leaf) = {}
  <2>1. leaf \in Under(old, n) /\ IsLeaf(leaf)
    BY <1>1 DEF Lifted
  <2>2. QED
    BY <1>1, <1>2, <1>3, <2>1, UnderSelf DEF IsLeaf, Kids
<1>5. /\ nd \in [D \ {leaf} -> Records] /\ DOMAIN nd = D \ {leaf}
      /\ \A m \in D \ {leaf} :
           /\ nd[m].before = IF old[m].before = leaf THEN Null ELSE old[m].before
           /\ nd[m].after = IF old[m].after = leaf THEN Null ELSE old[m].after
           /\ nd[m].parent = old[m].parent /\ nd[m].dim = old[m].dim
      /\ rt = IF old[leaf].parent = Null THEN Null ELSE root
  BY <1>1, <1>2 DEF Removed
<1>6. leaf # Null /\ \A m \in D : m # Null
  BY <1>2, <1>3, <1>4, KidIs
<1>7. \A m \in D \ {leaf} : Kids(nd, m) = Kids(old, m) \ {leaf}
  BY <1>5, <1>6 DEF Kids
<1>8. root \in D /\ old[root].parent = Null /\ old[root].dim = 0
  BY <1>2, <1>3 DEF Tree, Shape
<1>9. D \ {leaf} # {} => rt = root /\ root # leaf
  <2> SUFFICES ASSUME NEW x \in D \ {leaf} PROVE rt = root /\ root # leaf
    OBVIOUS
  <2>1. root # leaf
    <3> SUFFICES ASSUME root = leaf PROVE FALSE
      OBVIOUS
    <3>1. x \in Under(old, leaf)
      BY <1>2, <1>3, UnderRoot
    <3>2. QED
      BY <1>2, <1>3, <1>4, <3>1, UnderSplit
  <2>2. old[leaf].parent \in D
    BY <1>2, <1>3, <1>4, <2>1, KidIs
  <2>3. QED
    BY <1>5, <1>6, <2>1, <2>2
<1>10. D \ {leaf} = {} => rt = Null
  BY <1>4, <1>5, <1>8
<1>11. Shape(nd, rt)
  <2>1. DOMAIN nd \subseteq Node /\ nd \in [DOMAIN nd -> Records]
    BY <1>2, <1>3, <1>5 DEF Tree, Shape
  <2>2. IF DOMAIN nd = {} THEN rt = Null ELSE rt \in DOMAIN nd /\ nd[rt].parent = Null /\ nd[rt].dim = 0
    BY <1>5, <1>8, <1>9, <1>10
  <2>3. \A m \in DOMAIN nd : \A x \in Kids(nd, m) :
          x \in DOMAIN nd /\ nd[x].parent = m /\ nd[x].dim = (nd[m].dim + 1) % Dimensions
    <3> SUFFICES ASSUME NEW m \in D \ {leaf}, NEW x \in Kids(nd, m)
                 PROVE x \in DOMAIN nd /\ nd[x].parent = m /\ nd[x].dim = (nd[m].dim + 1) % Dimensions
      BY <1>5
    <3>1. x \in Kids(old, m) /\ x # leaf
      BY <1>7
    <3>2. x \in D /\ old[x].parent = m /\ old[x].dim = (old[m].dim + 1) % Dimensions
      BY <1>2, <1>3, <3>1 DEF Tree, Shape
    <3>3. QED
      BY <1>5, <3>1, <3>2
  <2>4. \A m \in DOMAIN nd : nd[m].before # Null => nd[m].before # nd[m].after
    <3>1. \A m \in D : old[m].before # Null => old[m].before # old[m].after
      BY <1>2, <1>3 DEF Tree, Shape
    <3>2. QED
      BY <1>5, <3>1
  <2>5. \A m \in DOMAIN nd \ {rt} : nd[m].parent \in DOMAIN nd /\ m \in Kids(nd, nd[m].parent)
    <3> SUFFICES ASSUME NEW m \in (D \ {leaf}) \ {rt} PROVE nd[m].parent \in DOMAIN nd /\ m \in Kids(nd, nd[m].parent)
      BY <1>5
    <3>1. old[m].parent \in D /\ m \in Kids(old, old[m].parent)
      BY <1>2, <1>3, <1>9, KidIs
    <3>2. old[m].parent # leaf
      BY <1>4, <3>1
    <3>3. QED
      BY <1>5, <1>7, <3>1, <3>2
  <2>6. QED
    BY <2>1, <2>2, <2>3, <2>4, <2>5 DEF Shape
<1>12. \E depth : Deep(nd, rt, depth)
  <2>1. PICK depth : Deep(old, root, depth)
    BY <1>3 DEF Tree
  <2> DEFINE less == [m \in D \ {leaf} |-> depth[m]]
  <2>2. less \in [DOMAIN nd -> Nat]
    BY <1>2, <1>5, <2>1 DEF Deep
  <2>3. rt \in DOMAIN nd => less[rt] = 0
    BY <1>2, <1>5, <1>9, <2>1 DEF Deep
  <2>4. \A m \in D \ {leaf} : \A x \in Kids(nd, m) : less[x] = less[m] + 1
    <3> SUFFICES ASSUME NEW m \in D \ {leaf}, NEW x \in Kids(nd, m) PROVE less[x] = less[m] + 1
      OBVIOUS
    <3>1. x \in Kids(old, m) /\ x \in D \ {leaf}
      BY <1>2, <1>3, <1>7, KidIs
    <3>2. depth[x] = depth[m] + 1
      BY <1>2, <2>1, <3>1 DEF Deep
    <3>3. QED
      BY <3>1, <3>2
  <2> HIDE DEF less
  <2>5. QED
    BY <1>5, <2>2, <2>3, <2>4 DEF Deep
<1>13. Tree(nd, rt)
  BY <1>11, <1>12 DEF Tree
<1>14. \A m \in D \ {leaf} : Under(nd, m) = Under(old, m) \ {leaf}
  <2> SUFFICES ASSUME NEW m \in D \ {leaf} PROVE Under(nd, m) = Under(old, m) \ {leaf}
    OBVIOUS
  <2>1. Under(old, m) \subseteq D /\ m \in Under(old, m) /\ Closed(old, Under(old, m))
    BY <1>2, <1>3, UnderSelf
  <2>2. Under(nd, m) \subseteq D \ {leaf} /\ m \in Under(nd, m) /\ Closed(nd, Under(nd, m))
    BY <1>5, <1>13, UnderSelf
  <2>3. PICK S : S = Under(old, m) \ {leaf}
    OBVIOUS
  <2>4. Closed(nd, S)
    BY <1>7, <2>1, <2>3 DEF Closed
  <2>5. Under(nd, m) \subseteq S
    BY <1>5, <2>1, <2>3, <2>4, UnderLeast
  <2>6. PICK T : T = Under(nd, m) \cup {leaf}
    OBVIOUS
  <2>7. Closed(old, T)
    BY <1>4, <1>7, <2>2, <2>6 DEF Closed
  <2>8. Under(old, m) \subseteq T
    <3>1. T \subseteq DOMAIN old /\ m \in T
      BY <1>2, <1>4, <2>2, <2>6
    <3>2. QED
      BY <2>7, <3>1, UnderLeast
  <2>9. QED
    BY <2>2, <2>3, <2>5, <2>6, <2>8
<1>15. QED
  BY <1>1, <1>2, <1>5, <1>13, <1>14 DEF Remains

\* Moving up the greatest before a node, or the least after it, keeps the order.
LEMMA RemovedOrder ==
  ASSUME NEW n, NEW leaf, NEW f, NEW nd, NEW rt, Deleted(n, leaf, f, nd, rt)
  PROVE  Ordered(nd)
<1> n \in live /\ Tree(node, root) /\ Ordered(node) /\ Lifted(n, leaf, f) /\ Removed(leaf, f, nd, rt)
  BY DEF Deleted
<1>1. Tree(nd, rt) /\ DOMAIN nd = live \ {leaf} /\ \A m \in live \ {leaf} : Under(nd, m) = Under(node, m) \ {leaf}
  <2>1. Remains(leaf, nd, rt)
    BY RemovedTree
  <2>2. QED
    BY <2>1 DEF Remains
<1> SUFFICES ASSUME NEW m \in live \ {leaf}
             PROVE  /\ nd[m].before # Null => \A x \in Under(nd, nd[m].before) : ~Less(nd[m].pt, nd[x].pt, nd[m].dim)
                    /\ nd[m].after # Null => \A x \in Under(nd, nd[m].after) : ~Less(nd[x].pt, nd[m].pt, nd[m].dim)
  BY <1>1 DEF Ordered
<1>2. PICK d \in 0..(Dimensions - 1) : d = node[m].dim /\ d = nd[m].dim
  BY Coordinates DEF Removed, live
<1>3. \A x \in live \ {leaf} : f[x] \in live /\ f[x] \in Under(node, x) /\ nd[x].pt = node[f[x]].pt
  BY DEF Lifted, Removed
<1>4. \A x \in live : node[x].pt[d + 1] \in Int
  BY Coordinates DEF live
<1>5. PICK y \in live : y = f[m] /\ nd[m].pt = node[y].pt
  BY <1>3
<1>6. y = m \/ Replaces(m, y)
  BY <1>5 DEF Lifted
<1>7. \A k \in Kids(node, m) : k # leaf =>
        /\ k \in live \ {leaf} /\ Under(nd, k) \subseteq live \ {leaf} /\ Under(nd, k) \subseteq Under(node, k)
        /\ \A x \in Under(nd, k) : f[x] \in Under(node, k)
  <2> SUFFICES ASSUME NEW k \in Kids(node, m), k # leaf
        PROVE /\ k \in live \ {leaf} /\ Under(nd, k) \subseteq live \ {leaf} /\ Under(nd, k) \subseteq Under(node, k)
              /\ \A x \in Under(nd, k) : f[x] \in Under(node, k)
    OBVIOUS
  <2>1. k \in live \ {leaf} /\ Under(node, k) \subseteq live
    BY KidIs, UnderSelf DEF live
  <2>2. Under(nd, k) = Under(node, k) \ {leaf}
    BY <1>1, <2>1
  <2>3. \A x \in Under(node, k) : Under(node, x) \subseteq Under(node, k)
    BY <2>1, UnderWithin DEF live
  <2>4. QED
    BY <1>3, <2>1, <2>2, <2>3
<1>8. ASSUME nd[m].before # Null, NEW x \in Under(nd, nd[m].before) PROVE ~Less(nd[m].pt, nd[x].pt, nd[m].dim)
  <2>1. PICK k : k = node[m].before /\ k # leaf /\ k # Null /\ k = nd[m].before
    BY <1>8 DEF Removed
  <2>2. k \in Kids(node, m)
    BY <2>1 DEF Kids
  <2>3. x \in live \ {leaf} /\ f[x] \in Under(node, k) /\ f[x] \in live /\ nd[x].pt = node[f[x]].pt
    BY <1>3, <1>7, <1>8, <2>1, <2>2
  <2>4. CASE y = m
    BY <1>2, <1>5, <2>1, <2>3, <2>4 DEF Ordered, live
  <2>5. CASE y # m
    <3>1. ~Exceeds(f[x], y, d, TRUE)
      BY <1>2, <1>6, <2>1, <2>3, <2>5 DEF Replaces, Extremum
    <3>2. QED
      BY <1>2, <1>5, <2>3, <3>1 DEF Exceeds
  <2>6. QED
    BY <2>4, <2>5
<1>9. ASSUME nd[m].after # Null, NEW x \in Under(nd, nd[m].after) PROVE ~Less(nd[x].pt, nd[m].pt, nd[m].dim)
  <2>1. PICK k : k = node[m].after /\ k # leaf /\ k # Null /\ k = nd[m].after
    BY <1>9 DEF Removed
  <2>2. k \in Kids(node, m)
    BY <2>1 DEF Kids
  <2>3. x \in live \ {leaf} /\ f[x] \in Under(node, k) /\ f[x] \in live /\ nd[x].pt = node[f[x]].pt
    BY <1>3, <1>7, <1>9, <2>1, <2>2
  <2>4. ~Less(node[f[x]].pt, node[m].pt, d)
    BY <1>2, <2>1, <2>3 DEF Ordered, live
  <2>5. CASE y = m
    BY <1>2, <1>5, <2>3, <2>4, <2>5
  <2>6. CASE y # m /\ node[m].before # Null
    <3>1. y \in Under(node, node[m].before)
      BY <1>6, <2>6 DEF Replaces, Extremum
    <3>2. ~Less(node[m].pt, node[y].pt, d)
      BY <1>2, <2>6, <3>1 DEF Ordered, live
    <3>3. ~Less(node[f[x]].pt, node[y].pt, d)
      BY <1>4, <2>3, <2>4, <3>2 DEF Less
    <3>4. QED
      BY <1>2, <1>5, <2>3, <3>3
  <2>7. CASE y # m /\ node[m].before = Null
    <3>1. ~Exceeds(f[x], y, d, FALSE)
      BY <1>2, <1>6, <2>1, <2>3, <2>7 DEF Replaces, Extremum
    <3>2. QED
      BY <1>2, <1>5, <2>3, <3>1 DEF Exceeds
  <2>8. QED
    BY <2>5, <2>6, <2>7
<1>10. QED
  BY <1>8, <1>9

\* No two nodes share a coordinate.
Apart(nd) ==
  \A a, b \in DOMAIN nd : a # b => \A d \in 0..(Dimensions - 1) : nd[a].pt[d + 1] # nd[b].pt[d + 1]

LEMMA RemovedApart ==
  ASSUME NEW n, NEW leaf, NEW f, NEW nd, NEW rt, Deleted(n, leaf, f, nd, rt), Apart(node)
  PROVE  Apart(nd)
<1> Lifted(n, leaf, f) /\ Removed(leaf, f, nd, rt)
  BY DEF Deleted
<1> SUFFICES ASSUME NEW a \in live \ {leaf}, NEW b \in live \ {leaf}, a # b, NEW d \in 0..(Dimensions - 1)
             PROVE  nd[a].pt[d + 1] # nd[b].pt[d + 1]
  BY DEF Removed, Apart
<1>1. f[a] \in live /\ f[b] \in live /\ f[a] # f[b]
  BY DEF Lifted
<1>2. nd[a].pt = node[f[a]].pt /\ nd[b].pt = node[f[b]].pt
  BY DEF Removed
<1>3. QED
  BY <1>1, <1>2 DEF Apart, live

\* --- search paths ------------------------------------------------------------

Follows(p, h) ==
  /\ h \in [0..(Cardinality(Node) + 1) -> live \cup {Null}] /\ h[0] = root
  /\ \A k \in 1..(Cardinality(Node) + 1) : h[k] = IF h[k - 1] = Null THEN Null ELSE Toward(h[k - 1], p)

LEMMA TowardIs ==
  ASSUME Tree(node, root), NEW p, NEW x \in live
  PROVE  Toward(x, p) \in live \cup {Null} /\ (Toward(x, p) # Null => Toward(x, p) \in Kids(node, x))
<1>1. Toward(x, p) # Null => Toward(x, p) \in Kids(node, x)
  BY DEF Toward, Kids
<1>2. QED
  BY <1>1, KidIs DEF live

LEMMA PathIs ==
  ASSUME Tree(node, root), NEW p
  PROVE  Follows(p, Path(p))
<1> DEFINE C == Cardinality(Node) + 1
           S == live \cup {Null}
           Step(k, x) == IF x = Null THEN Null ELSE Toward(x, p)
           step == [x \in (1..C) \X S |-> Step(x[1], x[2])]
           body(f) == [k \in 0..C |-> IF k = 0 THEN root ELSE IF f[k - 1] = Null THEN Null ELSE Toward(f[k - 1], p)]
           h == CHOOSE f : f = body(f)
<1>0. Path(p) = h
  BY DEF Path
<1>1. C \in Nat
  BY NodesCount
<1>2. \A k \in 1..C, x \in S : Step(k, x) \in S
  BY TowardIs
<1>3. step \in [(1..C) \X S -> S]
  BY <1>2
<1>4. root \in S
  BY DEF Tree, Shape, live
<1>5. \A k \in 1..C, x \in S : step[<<k, x>>] = Step(k, x)
  OBVIOUS
<1>6. \A f : body(f) = [k \in 0..C |-> IF k = 0 THEN root ELSE Step(k, f[k - 1])]
  OBVIOUS
<1> HIDE DEF C, S, Step, step, body
<1>7. PICK f : Solves(f, S, root, step, C)
  BY <1>1, <1>3, <1>4, Recursion
<1>8. f = body(f)
  <2>1. f \in [0..C -> S] /\ f[0] = root
    BY <1>7 DEF Solves
  <2>2. \A k \in 0..C : f[k] = IF k = 0 THEN root ELSE Step(k, f[k - 1])
    <3> SUFFICES ASSUME NEW k \in 0..C, k # 0 PROVE f[k] = Step(k, f[k - 1])
      BY <2>1
    <3>1. k \in 1..C /\ k - 1 \in 0..C
      BY <1>1
    <3>2. f[k] = step[<<k, f[k - 1]>>] /\ f[k - 1] \in S
      BY <1>7, <2>1, <3>1 DEF Solves
    <3>3. QED
      BY <1>5, <3>1, <3>2
  <2>3. QED
    BY <1>6, <2>1, <2>2
<1>9. h = body(h)
  BY <1>8
<1> HIDE DEF h
<1>10. h = [k \in 0..C |-> IF k = 0 THEN root ELSE Step(k, h[k - 1])]
  BY <1>6, <1>9
<1>11. h[0] = root /\ \A k \in 1..C : h[k] = Step(k, h[k - 1])
  <2>1. \A k \in 0..C : h[k] = IF k = 0 THEN root ELSE Step(k, h[k - 1])
    BY <1>10
  <2>2. 0 \in 0..C /\ \A k \in 1..C : k \in 0..C /\ k # 0
    BY <1>1
  <2>3. QED
    BY <2>1, <2>2
<1> DEFINE P == {k \in 0..C : h[k] \in S}
<1>12. 0 \in P
  <2>1. 0 \in 0..C
    BY <1>1
  <2>2. QED
    BY <1>4, <1>11, <2>1
<1>13. \A k \in 0..C : k \in P /\ k < C => k + 1 \in P
  <2> SUFFICES ASSUME NEW k \in 0..C, k \in P, k < C PROVE k + 1 \in P
    OBVIOUS
  <2>1. k + 1 \in 1..C /\ (k + 1) - 1 = k /\ k + 1 \in 0..C
    BY <1>1
  <2>2. h[k + 1] = Step(k + 1, h[k])
    BY <1>11, <2>1
  <2>3. h[k + 1] \in S
    BY <1>2, <2>1, <2>2
  <2>4. QED
    BY <2>1, <2>3
<1> HIDE DEF P
<1>14. \A k \in 0..C : k \in P
  BY <1>1, <1>12, <1>13, Upward
<1>15. \A k \in 0..C : h[k] \in S
  BY <1>14 DEF P
<1>16. h \in [0..C -> S]
  BY <1>10, <1>15
<1>17. Follows(p, h)
  BY <1>11, <1>16 DEF Follows, C, S, Step
<1>18. QED
  BY <1>0, <1>17

\* The search for p goes from every node above x to x's side.
Leads(p, x) ==
  x \in live /\ \A m \in live : x \in Under(node, m) => m = x \/ (Toward(m, p) # Null /\ x \in Under(node, Toward(m, p)))

LEMMA PathLeads ==
  ASSUME Tree(node, root), NEW depth, Deep(node, root, depth), NEW p, NEW h, Follows(p, h)
  PROVE  \A k \in 0..(Cardinality(Node) + 1) : h[k] # Null => Leads(p, h[k]) /\ depth[h[k]] = k /\ k < Cardinality(Node)
<1>1. PICK C \in Nat : C = Cardinality(Node)
  BY NodesCount
<1>2. h[0] = root /\ \A k \in 0..(C + 1) : h[k] \in live \cup {Null}
  BY <1>1 DEF Follows
<1>3. \A m \in live : m # Null /\ depth[m] \in Nat /\ depth[m] < C
  <2>1. IsFiniteSet(live) /\ Cardinality(live) \in Nat /\ Cardinality(live) <= C
    BY <1>1, NodesCount DEF Tree, Shape, live
  <2>2. \A m \in live : m # Null /\ depth[m] \in Nat
    BY KidIs DEF Deep, live
  <2>3. \A m \in live : depth[m] + 1 <= Cardinality(live)
    BY <2>1, Shallow DEF live
  <2>4. QED
    BY <2>1, <2>2, <2>3
<1> DEFINE P == {k \in 0..(C + 1) : h[k] # Null => Leads(p, h[k]) /\ depth[h[k]] = k}
<1>4. 0 \in P
  <2> SUFFICES ASSUME h[0] # Null PROVE Leads(p, h[0]) /\ depth[h[0]] = 0
    BY <1>1
  <2>1. root \in live /\ depth[root] = 0
    BY <1>1, <1>2 DEF Deep, live
  <2>2. \A m \in live : root \in Under(node, m) => m = root
    BY Deeper DEF live
  <2>3. QED
    BY <1>2, <2>1, <2>2 DEF Leads
<1>5. \A k \in 0..(C + 1) : k \in P /\ k < C + 1 => k + 1 \in P
  <2> SUFFICES ASSUME NEW k \in 0..(C + 1), k \in P, k < C + 1, h[k + 1] # Null
               PROVE  Leads(p, h[k + 1]) /\ depth[h[k + 1]] = k + 1
    BY <1>1
  <2>1. k + 1 \in 1..(C + 1) /\ (k + 1) - 1 = k /\ k + 1 \in 0..(C + 1)
    BY <1>1
  <2>2. h[k + 1] = IF h[k] = Null THEN Null ELSE Toward(h[k], p)
    BY <1>1, <2>1 DEF Follows
  <2>3. PICK a \in live : a = h[k] /\ Leads(p, a) /\ depth[a] = k
    BY <1>2, <2>2 DEF Leads
  <2>4. PICK b \in live : b = h[k + 1] /\ b = Toward(a, p) /\ b # Null
    BY <1>2, <2>1, <2>2, <2>3
  <2>5. b \in Kids(node, a) /\ node[b].parent = a /\ depth[b] = k + 1
    BY <2>3, <2>4, TowardIs, KidIs DEF Deep, live
  <2>6. ASSUME NEW m \in live, b \in Under(node, m), m # b
        PROVE  Toward(m, p) # Null /\ b \in Under(node, Toward(m, p))
    <3>1. a \in Under(node, m)
      BY <2>5, <2>6, Deeper DEF live
    <3>2. CASE m = a
      BY <2>4, <3>2, UnderSelf DEF live
    <3>3. CASE m # a
      <4>1. PICK t : t = Toward(m, p) /\ t # Null /\ a \in Under(node, t)
        BY <2>3, <3>1, <3>3 DEF Leads
      <4>2. t \in live
        BY <4>1, TowardIs
      <4>3. b \in Under(node, t)
        BY <2>5, <4>1, <4>2, UnderSelf DEF Closed, live
      <4>4. QED
        BY <4>1, <4>3
    <3>4. QED
      BY <3>2, <3>3
  <2>7. Leads(p, b)
    BY <2>6 DEF Leads
  <2>8. QED
    BY <2>4, <2>5, <2>7
<1> HIDE DEF P
<1>6. \A k \in 0..(C + 1) : k \in P
  BY <1>1, <1>4, <1>5, Upward
<1>7. QED
  BY <1>1, <1>2, <1>3, <1>6 DEF P

\* The search for p ends at a node that has no child on p's side.
LEMMA PathEnds ==
  ASSUME Tree(node, root), NEW p, NEW h, Follows(p, h), root # Null
  PROVE  /\ \E k \in DOMAIN h : h[k] # Null /\ h[k + 1] = Null
         /\ \A k \in DOMAIN h : h[k] # Null /\ h[k + 1] = Null => Leads(p, h[k]) /\ Toward(h[k], p) = Null
<1>1. PICK C \in Nat : C = Cardinality(Node)
  BY NodesCount
<1>2. h[0] = root /\ DOMAIN h = 0..(C + 1)
  BY <1>1 DEF Follows
<1>3. PICK depth : Deep(node, root, depth)
  BY DEF Tree
<1>4. \A k \in 0..(C + 1) : h[k] # Null => Leads(p, h[k]) /\ k < C
  BY <1>1, <1>3, PathLeads
<1>5. \A k \in 0..(C + 1) : h[k] # Null => k + 1 \in 1..(C + 1) /\ (k + 1) - 1 = k
  BY <1>1, <1>4
<1>6. \A k \in 0..(C + 1) : h[k] # Null => h[k + 1] = Toward(h[k], p)
  <2> SUFFICES ASSUME NEW k \in 0..(C + 1), h[k] # Null PROVE h[k + 1] = Toward(h[k], p)
    OBVIOUS
  <2>1. k + 1 \in 1..(C + 1) /\ (k + 1) - 1 = k
    BY <1>5
  <2>2. QED
    BY <1>1, <2>1 DEF Follows
<1> DEFINE Ends == {k \in 0..(C + 1) : h[k] = Null}
<1>7. Ends \subseteq Nat /\ Ends # {}
  <2>1. C + 1 \in 0..(C + 1) /\ ~(C + 1 < C)
    BY <1>1
  <2>2. C + 1 \in Ends
    BY <1>4, <2>1
  <2>3. QED
    BY <1>1, <2>2
<1>8. PICK z \in Ends : \A y \in Ends : z <= y
  BY <1>7, HasLeast
<1>9. z \in 0..(C + 1) /\ h[z] = Null /\ z # 0
  BY <1>2, <1>8
<1>10. z - 1 \in 0..(C + 1) /\ (z - 1) + 1 = z /\ ~(z <= z - 1)
  BY <1>1, <1>9
<1>11. h[z - 1] # Null
  BY <1>8, <1>10
<1>12. QED
  BY <1>2, <1>4, <1>6, <1>9, <1>10, <1>11

\* --- insertion ---------------------------------------------------------------

\* The tree with a new leaf n for p and v under q.
Linked(n, q, p, v, nd, rt) ==
  /\ n \in Node \ live
  /\ IF root = Null THEN q = Null ELSE Leads(p, q) /\ Toward(q, p) = Null
  /\ nd \in [live \cup {n} -> Records]
  /\ nd[n].pt = p /\ nd[n].value = v /\ nd[n].before = Null /\ nd[n].after = Null /\ nd[n].parent = q
  /\ nd[n].dim = IF q = Null THEN 0 ELSE (node[q].dim + 1) % Dimensions
  /\ \A m \in live :
       /\ nd[m].pt = node[m].pt /\ nd[m].value = node[m].value
       /\ nd[m].parent = node[m].parent /\ nd[m].dim = node[m].dim
       /\ nd[m].before = IF m = q /\ Less(p, node[q].pt, node[q].dim) THEN n ELSE node[m].before
       /\ nd[m].after = IF m = q /\ ~Less(p, node[q].pt, node[q].dim) THEN n ELSE node[m].after
  /\ rt = IF root = Null THEN n ELSE root

Inserted(n, q, p, v, nd, rt) ==
  /\ p \in Points /\ v \in Values /\ Tree(node, root) /\ Ordered(node)
  /\ Linked(n, q, p, v, nd, rt)

Grows(n, q, nd, rt) ==
  /\ Tree(nd, rt) /\ DOMAIN nd = live \cup {n} /\ n \notin live /\ Under(nd, n) = {n}
  /\ \A m \in live : Under(nd, m) = Under(node, m) \cup (IF q \in Under(node, m) THEN {n} ELSE {})

LEMMA InsertIs ==
  ASSUME Tree(node, root), Ordered(node), NEW p \in Points, NEW v \in Values, Insert(p, v)
  PROVE  \E n, q : /\ Inserted(n, q, p, v, node', root')
                   /\ count' = count + 1 /\ pending' = <<n>> /\ current' = <<p, v>> /\ ret' = <<>>
                   /\ tied' = (tied \/ SharesCoordinate(p))
<1> DEFINE h == Path(p)
           q == IF root = Null THEN Null ELSE h[CHOOSE k \in DOMAIN h : h[k] # Null /\ h[k + 1] = Null]
           fresh(n) == [pt |-> p, value |-> v, before |-> Null, after |-> Null, parent |-> q,
                        dim |-> IF q = Null THEN 0 ELSE (node[q].dim + 1) % Dimensions]
           linked(n, m) == IF m # q THEN node[m]
                           ELSE IF Less(p, node[q].pt, node[q].dim)
                                THEN [node[q] EXCEPT !.before = n]
                                ELSE [node[q] EXCEPT !.after = n]
<1>2. PICK n \in Node \ live :
        /\ node' = [m \in live \cup {n} |-> IF m = n THEN fresh(n) ELSE linked(n, m)]
        /\ root' = IF root = Null THEN n ELSE root
        /\ count' = count + 1
        /\ pending' = <<n>> /\ current' = <<p, v>> /\ ret' = <<>>
        /\ tied' = (tied \/ SharesCoordinate(p))
  BY DEF Insert
<1>1. Follows(p, h)
  BY PathIs
<1> HIDE DEF h
<1>3. IF root = Null THEN q = Null ELSE Leads(p, q) /\ Toward(q, p) = Null
  <2>1. CASE root = Null
    BY <2>1
  <2>2. CASE root # Null
    <3>1. /\ \E k \in DOMAIN h : h[k] # Null /\ h[k + 1] = Null
          /\ \A k \in DOMAIN h : h[k] # Null /\ h[k + 1] = Null => Leads(p, h[k]) /\ Toward(h[k], p) = Null
      BY <1>1, <2>2, PathEnds
    <3>2. QED
      BY <2>2, <3>1
  <2>3. QED
    BY <2>1, <2>2
<1>4. q = Null \/ q \in live
  BY <1>3 DEF Leads
<1>5. n # Null /\ \A m \in live : m # n /\ m # Null /\ node[m] \in Records /\ m \in Node
  <2>1. \A m \in live : m # Null
    BY KidIs DEF live
  <2>2. QED
    BY <1>2, <2>1, TreeAssumption DEF Tree, Shape, live
<1> HIDE DEF q
<1>6. fresh(n) \in Records
  <2>1. (IF q = Null THEN 0 ELSE (node[q].dim + 1) % Dimensions) \in 0..(Dimensions - 1)
    <3>1. CASE q = Null
      BY <3>1, TreeAssumption
    <3>2. CASE q # Null
      <4>1. node[q].dim \in 0..(Dimensions - 1)
        BY <1>4, <3>2, Coordinates DEF live
      <4>2. QED
        BY <3>2, <4>1, TreeAssumption
    <3>3. QED
      BY <3>1, <3>2
  <2>2. q \in Node \cup {Null}
    BY <1>4, <1>5
  <2>3. QED
    BY <2>1, <2>2 DEF Records
<1>7. \A m \in live :
        /\ linked(n, m) \in Records
        /\ linked(n, m).pt = node[m].pt /\ linked(n, m).value = node[m].value
        /\ linked(n, m).parent = node[m].parent /\ linked(n, m).dim = node[m].dim
        /\ linked(n, m).before = (IF m = q /\ Less(p, node[q].pt, node[q].dim) THEN n ELSE node[m].before)
        /\ linked(n, m).after = (IF m = q /\ ~Less(p, node[q].pt, node[q].dim) THEN n ELSE node[m].after)
  <2> SUFFICES ASSUME NEW m \in live
        PROVE /\ linked(n, m) \in Records
              /\ linked(n, m).pt = node[m].pt /\ linked(n, m).value = node[m].value
              /\ linked(n, m).parent = node[m].parent /\ linked(n, m).dim = node[m].dim
              /\ linked(n, m).before = (IF m = q /\ Less(p, node[q].pt, node[q].dim) THEN n ELSE node[m].before)
              /\ linked(n, m).after = (IF m = q /\ ~Less(p, node[q].pt, node[q].dim) THEN n ELSE node[m].after)
    OBVIOUS
  <2>1. PICK r : r = node[m] /\ r \in Records
    BY <1>5
  <2>2. CASE m # q
    BY <2>1, <2>2
  <2>3. CASE m = q /\ Less(p, node[q].pt, node[q].dim)
    <3>1. linked(n, m) = [r EXCEPT !.before = n]
      BY <2>1, <2>3
    <3>2. PICK t : t = [r EXCEPT !.before = n]
      OBVIOUS
    <3>3. /\ t \in Records /\ t.pt = r.pt /\ t.value = r.value /\ t.parent = r.parent /\ t.dim = r.dim
          /\ t.before = n /\ t.after = r.after
      BY <1>2, <2>1, <3>2 DEF Records
    <3>4. QED
      BY <2>1, <2>3, <3>1, <3>2, <3>3
  <2>4. CASE m = q /\ ~Less(p, node[q].pt, node[q].dim)
    <3>1. linked(n, m) = [r EXCEPT !.after = n]
      BY <2>1, <2>4
    <3>2. PICK t : t = [r EXCEPT !.after = n]
      OBVIOUS
    <3>3. /\ t \in Records /\ t.pt = r.pt /\ t.value = r.value /\ t.parent = r.parent /\ t.dim = r.dim
          /\ t.after = n /\ t.before = r.before
      BY <1>2, <2>1, <3>2 DEF Records
    <3>4. QED
      BY <2>1, <2>4, <3>1, <3>2, <3>3
  <2>5. QED
    BY <2>2, <2>3, <2>4
<1>8. fresh(n).pt = p /\ fresh(n).value = v /\ fresh(n).before = Null /\ fresh(n).after = Null /\ fresh(n).parent = q
      /\ fresh(n).dim = IF q = Null THEN 0 ELSE (node[q].dim + 1) % Dimensions
  OBVIOUS
<1> HIDE DEF fresh, linked
<1>9. node'[n] = fresh(n) /\ \A m \in live : node'[m] = linked(n, m)
  BY <1>2, <1>5
<1>10. node' \in [live \cup {n} -> Records]
  BY <1>2, <1>6, <1>7
<1>11. Linked(n, q, p, v, node', root')
  BY <1>2, <1>3, <1>7, <1>8, <1>9, <1>10 DEF Linked
<1>12. Inserted(n, q, p, v, node', root')
  BY <1>11 DEF Inserted
<1>13. QED
  BY <1>2, <1>12

LEMMA InsertGrows ==
  ASSUME NEW n, NEW q, NEW p, NEW v, NEW nd, NEW rt, Inserted(n, q, p, v, nd, rt)
  PROVE  Grows(n, q, nd, rt)
<1> p \in Points /\ v \in Values /\ Tree(node, root) /\ Ordered(node) /\ Linked(n, q, p, v, nd, rt)
  BY DEF Inserted
<1>1. PICK old : old = node
  OBVIOUS
<1>2. PICK D : D = DOMAIN old /\ live = D
  BY <1>1 DEF live
<1>3. Tree(old, root)
  BY <1>1
<1>4. n \in Node /\ n \notin D /\ n # Null /\ D \subseteq Node
  BY <1>2, <1>3, TreeAssumption DEF Linked, Tree, Shape
<1>5. /\ nd \in [D \cup {n} -> Records] /\ DOMAIN nd = D \cup {n}
      /\ nd[n].before = Null /\ nd[n].after = Null /\ nd[n].parent = q
      /\ nd[n].dim = IF q = Null THEN 0 ELSE (old[q].dim + 1) % Dimensions
      /\ \A m \in D : nd[m].parent = old[m].parent /\ nd[m].dim = old[m].dim
      /\ rt = IF root = Null THEN n ELSE root
  BY <1>1, <1>2 DEF Linked
<1>6. IF root = Null THEN q = Null /\ D = {}
      ELSE q \in D /\ q # Null /\ root \in D /\ old[root].parent = Null /\ old[root].dim = 0
  <2>1. CASE root = Null
    <3>1. D = {}
      BY <1>2, <1>3, <2>1, TreeAssumption DEF Tree, Shape
    <3>2. QED
      BY <2>1, <3>1 DEF Linked
  <2>2. CASE root # Null
    <3>1. root \in D /\ old[root].parent = Null /\ old[root].dim = 0
      BY <1>2, <1>3, <2>2 DEF Tree, Shape
    <3>2. q \in D
      BY <1>2, <2>2 DEF Linked, Leads
    <3>3. QED
      BY <1>2, <1>3, <2>2, <3>1, <3>2, KidIs
  <2>3. QED
    BY <2>1, <2>2
<1>7. \A m \in D : /\ Kids(nd, m) = Kids(old, m) \cup (IF m = q THEN {n} ELSE {})
                   /\ nd[m].before # Null => nd[m].before # nd[m].after
  <2> SUFFICES ASSUME NEW m \in D
               PROVE  /\ Kids(nd, m) = Kids(old, m) \cup (IF m = q THEN {n} ELSE {})
                      /\ nd[m].before # Null => nd[m].before # nd[m].after
    OBVIOUS
  <2>1. /\ nd[m].before = IF m = q /\ Less(p, old[q].pt, old[q].dim) THEN n ELSE old[m].before
        /\ nd[m].after = IF m = q /\ ~Less(p, old[q].pt, old[q].dim) THEN n ELSE old[m].after
    BY <1>1, <1>2 DEF Linked
  <2>2. old[m].before # n /\ old[m].after # n /\ (old[m].before # Null => old[m].before # old[m].after)
    <3>1. \A k \in Kids(old, m) : k \in D
      BY <1>2, <1>3, KidIs
    <3>2. QED
      BY <1>2, <1>3, <1>4, <3>1 DEF Kids, Tree, Shape
  <2>3. CASE m # q
    BY <2>1, <2>2, <2>3 DEF Kids
  <2>4. CASE m = q
    <3>1. Toward(q, p) = Null
      BY <1>6, <2>4 DEF Linked
    <3>2. CASE Less(p, old[q].pt, old[q].dim)
      <4>1. old[m].before = Null
        BY <1>1, <2>4, <3>1, <3>2 DEF Toward
      <4>2. QED
        BY <1>4, <2>1, <2>2, <2>4, <3>2, <4>1 DEF Kids
    <3>3. CASE ~Less(p, old[q].pt, old[q].dim)
      <4>1. old[m].after = Null
        BY <1>1, <2>4, <3>1, <3>3 DEF Toward
      <4>2. QED
        BY <1>4, <2>1, <2>2, <2>4, <3>3, <4>1 DEF Kids
    <3>4. QED
      BY <3>2, <3>3
  <2>5. QED
    BY <2>3, <2>4
<1>8. Kids(nd, n) = {}
  BY <1>5 DEF Kids
<1>9. \A m \in D : \A x \in Kids(old, m) : x \in D /\ old[x].parent = m /\ old[x].dim = (old[m].dim + 1) % Dimensions
  BY <1>2, <1>3 DEF Tree, Shape
<1>10. Shape(nd, rt)
  <2>1. DOMAIN nd \subseteq Node /\ nd \in [DOMAIN nd -> Records]
    BY <1>4, <1>5
  <2>2. IF DOMAIN nd = {} THEN rt = Null ELSE rt \in DOMAIN nd /\ nd[rt].parent = Null /\ nd[rt].dim = 0
    BY <1>5, <1>6
  <2>3. \A m \in DOMAIN nd : \A x \in Kids(nd, m) :
          x \in DOMAIN nd /\ nd[x].parent = m /\ nd[x].dim = (nd[m].dim + 1) % Dimensions
    <3> SUFFICES ASSUME NEW m \in D, NEW x \in Kids(nd, m)
                 PROVE x \in DOMAIN nd /\ nd[x].parent = m /\ nd[x].dim = (nd[m].dim + 1) % Dimensions
      BY <1>5, <1>8
    <3>1. CASE x \in Kids(old, m)
      BY <1>5, <1>9, <3>1
    <3>2. CASE x \notin Kids(old, m)
      <4>1. m = q /\ x = n
        BY <1>7, <3>2
      <4>2. q # Null
        BY <1>6, <4>1
      <4>3. QED
        BY <1>5, <4>1, <4>2
    <3>3. QED
      BY <3>1, <3>2
  <2>4. \A m \in DOMAIN nd : nd[m].before # Null => nd[m].before # nd[m].after
    BY <1>5, <1>7
  <2>5. \A m \in DOMAIN nd \ {rt} : nd[m].parent \in DOMAIN nd /\ m \in Kids(nd, nd[m].parent)
    <3> SUFFICES ASSUME NEW m \in (D \cup {n}) \ {rt} PROVE nd[m].parent \in DOMAIN nd /\ m \in Kids(nd, nd[m].parent)
      BY <1>5
    <3>1. root # Null
      BY <1>5, <1>6
    <3>2. CASE m = n
      BY <1>5, <1>6, <1>7, <3>1, <3>2
    <3>3. CASE m # n
      <4>1. old[m].parent \in D /\ m \in Kids(old, old[m].parent)
        BY <1>2, <1>3, <1>5, <3>1, <3>3, KidIs
      <4>2. nd[m].parent = old[m].parent
        BY <1>5, <3>3
      <4>3. QED
        BY <1>5, <1>7, <4>1, <4>2
    <3>4. QED
      BY <3>2, <3>3
  <2>6. QED
    BY <2>1, <2>2, <2>3, <2>4, <2>5 DEF Shape
<1>11. \E depth : Deep(nd, rt, depth)
  <2>1. PICK depth : Deep(old, root, depth)
    BY <1>3 DEF Tree
  <2>2. \A m \in D : depth[m] \in Nat
    BY <1>2, <2>1 DEF Deep
  <2> DEFINE more == [m \in D \cup {n} |-> IF m # n THEN depth[m] ELSE IF q = Null THEN 0 ELSE depth[q] + 1]
  <2>3. more \in [DOMAIN nd -> Nat]
    <3>1. (IF q = Null THEN 0 ELSE depth[q] + 1) \in Nat
      BY <1>6, <2>2
    <3>2. QED
      BY <1>5, <2>2, <3>1
  <2>4. more[rt] = 0
    BY <1>2, <1>4, <1>5, <1>6, <2>1 DEF Deep
  <2>5. \A m \in DOMAIN nd : \A x \in Kids(nd, m) : more[x] = more[m] + 1
    <3> SUFFICES ASSUME NEW m \in D, NEW x \in Kids(nd, m) PROVE more[x] = more[m] + 1
      BY <1>5, <1>8
    <3>1. CASE x \in Kids(old, m)
      <4>1. depth[x] = depth[m] + 1 /\ x \in D
        BY <1>2, <1>9, <2>1, <3>1 DEF Deep
      <4>2. QED
        BY <1>4, <4>1
    <3>2. CASE x \notin Kids(old, m)
      <4>1. m = q /\ x = n /\ q # Null
        BY <1>6, <1>7, <3>2
      <4>2. QED
        BY <1>4, <4>1
    <3>3. QED
      BY <3>1, <3>2
  <2> HIDE DEF more
  <2>6. QED
    BY <2>3, <2>4, <2>5 DEF Deep
<1>12. Tree(nd, rt)
  BY <1>10, <1>11 DEF Tree
<1>13. Under(nd, n) = {n}
  <2>1. Under(nd, n) \subseteq {n}
    <3>1. {n} \subseteq DOMAIN nd /\ n \in {n} /\ Closed(nd, {n})
      BY <1>5, <1>8 DEF Closed
    <3>2. QED
      BY <3>1, UnderLeast
  <2>2. n \in Under(nd, n)
    BY <1>5, <1>12, UnderSelf
  <2>3. QED
    BY <2>1, <2>2
<1>14. \A m \in D : Under(nd, m) = Under(old, m) \cup (IF q \in Under(old, m) THEN {n} ELSE {})
  <2> SUFFICES ASSUME NEW m \in D PROVE Under(nd, m) = Under(old, m) \cup (IF q \in Under(old, m) THEN {n} ELSE {})
    OBVIOUS
  <2>1. Under(old, m) \subseteq D /\ m \in Under(old, m) /\ Closed(old, Under(old, m))
    BY <1>2, <1>3, UnderSelf
  <2>2. Under(nd, m) \subseteq D \cup {n} /\ m \in Under(nd, m) /\ Closed(nd, Under(nd, m))
    BY <1>5, <1>12, UnderSelf
  <2>3. PICK S : S = Under(old, m) \cup (IF q \in Under(old, m) THEN {n} ELSE {})
    OBVIOUS
  <2>4. S \subseteq DOMAIN nd /\ m \in S
    BY <1>5, <2>1, <2>3
  <2>5. Closed(nd, S)
    <3> SUFFICES ASSUME NEW a \in S, NEW x \in Kids(nd, a) PROVE x \in S
      BY DEF Closed
    <3>1. a \in D /\ a \in Under(old, m)
      BY <1>8, <2>1, <2>3
    <3>2. CASE x \in Kids(old, a)
      BY <2>1, <2>3, <3>1, <3>2 DEF Closed
    <3>3. CASE x \notin Kids(old, a)
      <4>1. a = q /\ x = n
        BY <1>7, <3>1, <3>3
      <4>2. QED
        BY <2>3, <3>1, <4>1
    <3>4. QED
      BY <3>2, <3>3
  <2>6. Under(nd, m) \subseteq S
    BY <2>4, <2>5, UnderLeast
  <2>7. PICK T : T = Under(nd, m) \ {n}
    OBVIOUS
  <2>8. Closed(old, T)
    <3> SUFFICES ASSUME NEW a \in T, NEW x \in Kids(old, a) PROVE x \in T
      BY DEF Closed
    <3>1. a \in D /\ a \in Under(nd, m)
      BY <2>2, <2>7
    <3>2. x \in Kids(nd, a) /\ x \in D
      BY <1>7, <1>9, <3>1
    <3>3. QED
      BY <1>4, <2>2, <2>7, <3>1, <3>2 DEF Closed
  <2>9. Under(old, m) \subseteq T
    <3>1. T \subseteq DOMAIN old /\ m \in T
      BY <1>2, <1>4, <2>2, <2>7
    <3>2. QED
      BY <2>8, <3>1, UnderLeast
  <2>10. q \in Under(old, m) => n \in Under(nd, m)
    <3> SUFFICES ASSUME q \in Under(old, m) PROVE n \in Under(nd, m)
      OBVIOUS
    <3>1. q \in D /\ q \in Under(nd, m)
      BY <2>1, <2>7, <2>9
    <3>2. n \in Kids(nd, q)
      BY <1>7, <3>1
    <3>3. QED
      BY <2>2, <3>1, <3>2 DEF Closed
  <2>11. QED
    BY <2>3, <2>6, <2>7, <2>9, <2>10
<1>15. QED
  BY <1>1, <1>2, <1>4, <1>5, <1>12, <1>13, <1>14 DEF Grows

LEMMA InsertOrder ==
  ASSUME NEW n, NEW q, NEW p, NEW v, NEW nd, NEW rt, Inserted(n, q, p, v, nd, rt)
  PROVE  Ordered(nd)
<1> p \in Points /\ v \in Values /\ Tree(node, root) /\ Ordered(node) /\ Linked(n, q, p, v, nd, rt)
  BY DEF Inserted
<1>1. Grows(n, q, nd, rt)
  BY InsertGrows
<1>2. /\ DOMAIN nd = live \cup {n} /\ n \notin live /\ Under(nd, n) = {n}
      /\ \A m \in live : Under(nd, m) = Under(node, m) \cup (IF q \in Under(node, m) THEN {n} ELSE {})
  BY <1>1 DEF Grows
<1>3. nd[n].before = Null /\ nd[n].after = Null /\ nd[n].pt = p
  BY DEF Linked
<1> SUFFICES ASSUME NEW m \in live
             PROVE  /\ nd[m].before # Null => \A x \in Under(nd, nd[m].before) : ~Less(nd[m].pt, nd[x].pt, nd[m].dim)
                    /\ nd[m].after # Null => \A x \in Under(nd, nd[m].after) : ~Less(nd[x].pt, nd[m].pt, nd[m].dim)
  BY <1>2, <1>3 DEF Ordered
<1>4. PICK d \in 0..(Dimensions - 1) : d = node[m].dim /\ d = nd[m].dim
  BY Coordinates DEF Linked, live
<1>5. \A x \in live : nd[x].pt = node[x].pt
  BY DEF Linked
<1>6. p[d + 1] \in Int /\ node[m].pt[d + 1] \in Int
  <2>1. d + 1 \in 1..Dimensions /\ p \in [1..Dimensions -> Int]
    BY TreeAssumption, PointsAssumption
  <2>2. QED
    BY <2>1, Coordinates DEF live
\* The new leaf is on p's side of every node above it.
<1>7. ASSUME NEW k \in Kids(node, m), q \in Under(node, k) PROVE Toward(m, p) = k
  <2>1. k \in live /\ Under(node, k) \subseteq Under(node, m)
    BY UnderKid DEF live
  <2>2. PICK depth : Deep(node, root, depth)
    BY DEF Tree
  <2>3. q # m
    <3>1. depth[k] = depth[m] + 1 /\ depth[m] \in Nat /\ depth[k] \in Nat
      BY <2>1, <2>2 DEF Deep, live
    <3>2. q = k \/ depth[k] < depth[q]
      BY <1>7, <2>1, <2>2, Deeper DEF live
    <3>3. QED
      BY <3>1, <3>2
  <2>4. Leads(p, q)
    <3>1. root # Null
      <4>1. root \in DOMAIN node /\ \A x \in DOMAIN node : x # Null
        BY KidIs DEF Tree, Shape, live
      <4>2. QED
        BY <4>1
    <3>2. QED
      BY <3>1 DEF Linked
  <2>5. PICK t : t = Toward(m, p) /\ t # Null /\ q \in Under(node, t)
    BY <1>7, <2>1, <2>3, <2>4 DEF Leads
  <2>6. t \in Kids(node, m)
    BY <2>5, TowardIs
  <2>7. QED
    <3>1. CASE t # k
      <4>1. Under(node, t) \cap Under(node, k) = {}
        BY <2>6, <3>1, Siblings DEF live
      <4>2. QED
        BY <1>7, <2>5, <4>1
    <3>2. QED
      BY <2>5, <3>1
<1>8. node[m].before # Null => node[m].before # node[m].after
  BY DEF Tree, Shape, live
<1>9. ASSUME nd[m].before # Null, NEW x \in Under(nd, nd[m].before) PROVE ~Less(nd[m].pt, nd[x].pt, nd[m].dim)
  <2>1. CASE nd[m].before = n
    <3>1. x = n
      BY <1>2, <1>9, <2>1
    <3>2. CASE m = q /\ Less(p, node[q].pt, node[q].dim)
      <4>0. Less(p, node[m].pt, d)
        BY <1>4, <3>2
      <4>1. ~Less(node[m].pt, p, d)
        BY <1>6, <4>0 DEF Less
      <4>2. QED
        BY <1>3, <1>4, <1>5, <3>1, <4>1
    <3>3. CASE ~(m = q /\ Less(p, node[q].pt, node[q].dim))
      <4>1. node[m].before = n /\ n # Null
        BY <1>9, <2>1, <3>3 DEF Linked
      <4>2. n \in Kids(node, m)
        BY <4>1 DEF Kids
      <4>3. QED
        BY <1>2, <4>2, KidIs DEF live
    <3>4. QED
      BY <3>2, <3>3
  <2>2. CASE nd[m].before # n
    <3>1. PICK k : k = node[m].before /\ k = nd[m].before /\ k \in Kids(node, m)
      BY <1>9, <2>2 DEF Linked, Kids
    <3>2. k \in live /\ Under(node, k) \subseteq live
      BY <3>1, KidIs, UnderSelf DEF live
    <3>3. CASE x \in Under(node, k)
      BY <1>4, <1>5, <1>9, <3>1, <3>2, <3>3 DEF Ordered, live
    <3>4. CASE x \notin Under(node, k)
      <4>1. x = n /\ q \in Under(node, k)
        BY <1>2, <1>9, <3>1, <3>2, <3>4
      <4>2. Toward(m, p) = k
        BY <1>7, <3>1, <4>1
      <4>3. Less(p, node[m].pt, d)
        BY <1>4, <1>8, <1>9, <3>1, <4>2 DEF Toward
      <4>4. QED
        BY <1>3, <1>4, <1>5, <1>6, <4>1, <4>3 DEF Less
    <3>5. QED
      BY <3>3, <3>4
  <2>3. QED
    BY <2>1, <2>2
<1>10. ASSUME nd[m].after # Null, NEW x \in Under(nd, nd[m].after) PROVE ~Less(nd[x].pt, nd[m].pt, nd[m].dim)
  <2>1. CASE nd[m].after = n
    <3>1. x = n
      BY <1>2, <1>10, <2>1
    <3>2. CASE m = q /\ ~Less(p, node[q].pt, node[q].dim)
      BY <1>3, <1>4, <1>5, <3>1, <3>2
    <3>3. CASE ~(m = q /\ ~Less(p, node[q].pt, node[q].dim))
      <4>1. node[m].after = n /\ n # Null
        BY <1>10, <2>1, <3>3 DEF Linked
      <4>2. n \in Kids(node, m)
        BY <4>1 DEF Kids
      <4>3. QED
        BY <1>2, <4>2, KidIs DEF live
    <3>4. QED
      BY <3>2, <3>3
  <2>2. CASE nd[m].after # n
    <3>1. PICK k : k = node[m].after /\ k = nd[m].after /\ k \in Kids(node, m)
      BY <1>10, <2>2 DEF Linked, Kids
    <3>2. k \in live /\ Under(node, k) \subseteq live
      BY <3>1, KidIs, UnderSelf DEF live
    <3>3. CASE x \in Under(node, k)
      BY <1>4, <1>5, <1>10, <3>1, <3>2, <3>3 DEF Ordered, live
    <3>4. CASE x \notin Under(node, k)
      <4>1. x = n /\ q \in Under(node, k)
        BY <1>2, <1>10, <3>1, <3>2, <3>4
      <4>2. Toward(m, p) = k
        BY <1>7, <3>1, <4>1
      <4>3. ~Less(p, node[m].pt, d)
        BY <1>4, <1>8, <1>10, <3>1, <4>2 DEF Toward
      <4>4. QED
        BY <1>3, <1>4, <1>5, <4>1, <4>3
    <3>5. QED
      BY <3>3, <3>4
  <2>3. QED
    BY <2>1, <2>2
<1>11. QED
  BY <1>9, <1>10

LEMMA InsertApart ==
  ASSUME NEW n, NEW q, NEW p, NEW v, NEW nd, NEW rt, Inserted(n, q, p, v, nd, rt), Apart(node), ~SharesCoordinate(p)
  PROVE  Apart(nd)
<1> Linked(n, q, p, v, nd, rt)
  BY DEF Inserted
<1>1. DOMAIN nd = live \cup {n} /\ nd[n].pt = p /\ n \notin live /\ \A m \in live : nd[m].pt = node[m].pt
  BY DEF Linked
<1> SUFFICES ASSUME NEW a \in live \cup {n}, NEW b \in live \cup {n}, a # b, NEW d \in 0..(Dimensions - 1)
             PROVE  nd[a].pt[d + 1] # nd[b].pt[d + 1]
  BY <1>1 DEF Apart
<1>2. \A m \in live : node[m].pt[d + 1] # p[d + 1]
  BY DEF SharesCoordinate
<1>3. CASE a \in live /\ b \in live
  BY <1>1, <1>3 DEF Apart, live
<1>4. CASE a = n \/ b = n
  BY <1>1, <1>2, <1>4
<1>5. QED
  BY <1>3, <1>4

\* --- searches ----------------------------------------------------------------

\* Without ties the search path for a point leads to its node.
LEMMA PathFinds ==
  ASSUME Tree(node, root), Ordered(node), Apart(node), NEW x \in live, NEW h, Follows(node[x].pt, h)
  PROVE  \E k \in DOMAIN h : h[k] = x
<1> DEFINE p == node[x].pt
<1>1. PICK C \in Nat : C = Cardinality(Node)
  BY NodesCount
<1>2. PICK depth : Deep(node, root, depth)
  BY DEF Tree
<1>3. h[0] = root /\ DOMAIN h = 0..(C + 1) /\ \A k \in 0..(C + 1) : h[k] \in live \cup {Null}
  BY <1>1 DEF Follows
<1>4. \A k \in 0..(C + 1) : h[k] # Null => depth[h[k]] = k
  BY <1>1, <1>2, PathLeads
<1>5. PICK N \in Nat : N = depth[x] /\ N + 1 <= C
  <2>1. IsFiniteSet(live) /\ Cardinality(live) \in Nat /\ Cardinality(live) <= C
    BY <1>1, NodesCount DEF Tree, Shape, live
  <2>2. depth[x] \in Nat
    BY <1>2 DEF Deep, live
  <2>3. depth[x] + 1 <= Cardinality(live)
    BY <1>2, <2>1, Shallow DEF live
  <2>4. QED
    BY <1>1, <2>1, <2>2, <2>3
<1> DEFINE P == {k \in 0..N : h[k] # Null /\ x \in Under(node, h[k])}
<1>6. 0 \in P
  <2>1. root \in live /\ x \in Under(node, root)
    BY UnderRoot DEF live
  <2>2. root # Null
    BY <2>1, KidIs DEF live
  <2>3. QED
    BY <1>3, <1>5, <2>1, <2>2
<1>7. \A k \in 0..N : k \in P /\ k < N => k + 1 \in P
  <2> SUFFICES ASSUME NEW k \in 0..N, k \in P, k < N PROVE k + 1 \in P
    OBVIOUS
  <2>1. k \in 0..(C + 1) /\ k + 1 \in 1..(C + 1) /\ (k + 1) - 1 = k /\ k + 1 \in 0..N
    BY <1>1, <1>5
  <2>2. PICK a \in live : a = h[k] /\ a # Null /\ depth[a] = k /\ x \in Under(node, a)
    BY <1>3, <1>4, <2>1
  <2>3. h[k + 1] = Toward(a, p)
    BY <1>1, <2>1, <2>2 DEF Follows
  <2>4. x # a
    BY <1>5, <2>2
  <2>5. PICK c \in Kids(node, a) : x \in Under(node, c)
    BY <2>2, <2>4, UnderSplit DEF live
  <2>6. PICK d \in 0..(Dimensions - 1) : d = node[a].dim
    BY Coordinates DEF live
  <2>7. node[x].pt[d + 1] \in Int /\ node[a].pt[d + 1] \in Int /\ node[x].pt[d + 1] # node[a].pt[d + 1]
    BY <2>4, Coordinates DEF Apart, live
  <2>8. c # Null /\ (c = node[a].before \/ c = node[a].after)
    BY <2>5 DEF Kids
  <2>9. CASE c = node[a].before
    <3>1. ~Less(node[a].pt, node[x].pt, d)
      BY <2>5, <2>6, <2>8, <2>9 DEF Ordered, live
    <3>2. Less(p, node[a].pt, d)
      BY <2>7, <3>1 DEF Less
    <3>3. QED
      BY <2>1, <2>3, <2>5, <2>6, <2>8, <2>9, <3>2 DEF Toward
  <2>10. CASE c = node[a].after
    <3>1. ~Less(p, node[a].pt, d)
      BY <2>5, <2>6, <2>8, <2>10 DEF Ordered, live
    <3>2. QED
      BY <2>1, <2>3, <2>5, <2>6, <2>8, <2>10, <3>1 DEF Toward
  <2>11. QED
    BY <2>8, <2>9, <2>10
<1> HIDE DEF P
<1>8. \A k \in 0..N : k \in P
  BY <1>5, <1>6, <1>7, Upward
<1>9. N \in 0..N /\ N \in 0..(C + 1)
  BY <1>1, <1>5
<1>10. h[N] \in live /\ x \in Under(node, h[N]) /\ depth[h[N]] = N
  BY <1>3, <1>4, <1>8, <1>9 DEF P
<1>11. h[N] = x
  <2>1. depth[x] = depth[h[N]] /\ depth[x] \in Nat
    BY <1>5, <1>10
  <2>2. x = h[N] \/ depth[h[N]] < depth[x]
    BY <1>2, <1>10, Deeper DEF live
  <2>3. QED
    BY <2>1, <2>2
<1>12. QED
  BY <1>3, <1>9, <1>11

\* Of the steps of a path at which something holds there is a first.
LEMMA FirstHit ==
  ASSUME Tree(node, root), NEW p, NEW h, Follows(p, h), NEW hits, hits \subseteq DOMAIN h, hits # {}
  PROVE  (CHOOSE k \in hits : \A j \in hits : k <= j) \in hits
<1>1. hits \subseteq Nat
  BY DEF Follows
<1>2. \E k \in hits : \A j \in hits : k <= j
  BY <1>1, HasLeast
<1>3. QED
  BY <1>2

LEMMA AtFinds ==
  ASSUME Tree(node, root), Ordered(node), Apart(node)
  PROVE  FindsPoints
<1> SUFFICES ASSUME NEW p \in Points
             PROVE  IF \E n \in live : node[n].pt = p
                    THEN \E n \in live : node[n].pt = p /\ At(p) = node[n].value
                    ELSE At(p) = Null
  BY DEF FindsPoints
<1> DEFINE h == Path(p)
           hits == {k \in DOMAIN h : h[k] # Null /\ node[h[k]].pt = p}
           one == CHOOSE k \in hits : \A j \in hits : k <= j
<1>1. At(p) = IF hits = {} THEN Null ELSE node[h[one]].value
  BY DEF At
<1>2. Follows(p, h)
  BY PathIs
<1> HIDE DEF h
<1>3. \A k \in DOMAIN h : h[k] # Null => h[k] \in live
  BY <1>2 DEF Follows
<1>4. hits # {} => one \in hits
  BY <1>2, FirstHit
<1>5. (\E n \in live : node[n].pt = p) => hits # {}
  <2> SUFFICES ASSUME NEW n \in live, node[n].pt = p PROVE hits # {}
    OBVIOUS
  <2>1. \E k \in DOMAIN h : h[k] = n
    BY <1>2, PathFinds
  <2>2. n # Null
    BY KidIs DEF live
  <2>3. QED
    BY <2>1, <2>2
<1>6. CASE hits = {}
  BY <1>1, <1>5, <1>6
<1>7. CASE hits # {}
  BY <1>1, <1>3, <1>4, <1>7
<1>8. QED
  BY <1>6, <1>7

LEMMA WithinFinds ==
  ASSUME Tree(node, root), Ordered(node), Apart(node), root # Null, NEW low \in Points, NEW high \in Points
  PROVE  Within(low, high) = {n \in live : InRange(node[n].pt, low, high)}
<1> DEFINE ks == [n \in live |-> Children(n, Less(low, node[n].pt, node[n].dim), ~Less(high, node[n].pt, node[n].dim))]
           seen == Visit(root, ks)
<1>1. Within(low, high) = {n \in {seen[k] : k \in DOMAIN seen} : InRange(node[n].pt, low, high)}
  BY DEF Within
<1>2. root \in live
  BY DEF Tree, Shape, live
<1>3. \A m \in live : Takes(m, Less(low, node[m].pt, node[m].dim), ~Less(high, node[m].pt, node[m].dim), ks[m])
  <2> SUFFICES ASSUME NEW m \in live
               PROVE  Takes(m, Less(low, node[m].pt, node[m].dim), ~Less(high, node[m].pt, node[m].dim), ks[m])
    OBVIOUS
  <2>1. ks[m] = Children(m, Less(low, node[m].pt, node[m].dim), ~Less(high, node[m].pt, node[m].dim))
    OBVIOUS
  <2>2. Less(low, node[m].pt, node[m].dim) \in BOOLEAN /\ (~Less(high, node[m].pt, node[m].dim)) \in BOOLEAN
    BY DEF Less
  <2>3. QED
    BY <2>1, <2>2, ChildrenAre
<1>4. PICK kids : kids = ks
  OBVIOUS
<1>5. Offers(node, kids)
  <2>1. \A m \in live : kids[m] \in Seq(live)
    BY <1>3, <1>4 DEF Takes
  <2>2. kids = [m \in live |-> kids[m]]
    BY <1>4
  <2>3. kids \in [live -> Seq(live)]
    BY <2>1, <2>2
  <2>4. QED
    BY <1>3, <1>4, <2>3 DEF Offers, Takes, live
<1>6. PICK v : v = Visit(root, kids) /\ v = seen
  BY <1>4
<1>7. Walked(node, root, kids, v)
  BY <1>2, <1>5, <1>6, Walks DEF live
<1>8. DOMAIN v = 1..Len(v) /\ \A i \in 1..Len(v) : v[i] \in live
  BY <1>7 DEF Walked, live
<1> HIDE DEF ks, seen
<1>9. ASSUME NEW x \in live, InRange(node[x].pt, low, high) PROVE \E i \in 1..Len(v) : v[i] = x
  <2> SUFFICES ASSUME \A i \in 1..Len(v) : v[i] # x PROVE FALSE
    OBVIOUS
  <2>0. x \in Under(node, root)
    BY UnderRoot DEF live
  <2>1. PICK i \in 1..Len(v) : \E c \in Kids(node, v[i]) :
          x \in Under(node, c) /\ \A j \in 1..Len(kids[v[i]]) : kids[v[i]][j] # c
    <3>1. PICK nd : nd = node
      OBVIOUS
    <3>2. Tree(nd, root) /\ root \in DOMAIN nd /\ Offers(nd, kids) /\ Walked(nd, root, kids, v) /\ x \in Under(nd, root)
      BY <1>2, <1>5, <1>7, <2>0, <3>1 DEF live
    <3>3. \E i \in 1..Len(v) : \E c \in Kids(nd, v[i]) :
            x \in Under(nd, c) /\ \A j \in 1..Len(kids[v[i]]) : kids[v[i]][j] # c
      BY <3>2, WalkMisses
    <3>4. QED
      BY <3>1, <3>3
  <2>2. PICK c \in Kids(node, v[i]) : x \in Under(node, c) /\ \A j \in 1..Len(kids[v[i]]) : kids[v[i]][j] # c
    BY <2>1
  <2>3. PICK m \in live : m = v[i]
    BY <1>8
  <2>4. PICK d \in 0..(Dimensions - 1) : d = node[m].dim
    BY Coordinates DEF live
  <2>5. c # Null /\ (c = node[m].before \/ c = node[m].after) /\ c \in live
    BY <2>2, <2>3, KidIs DEF Kids, live
  <2>6. x # m
    <3>1. PICK depth : Deep(node, root, depth)
      BY DEF Tree
    <3>2. depth[c] = depth[m] + 1 /\ depth[m] \in Nat /\ depth[c] \in Nat
      BY <2>2, <2>3, <2>5, <3>1 DEF Deep, live
    <3>3. x = c \/ depth[c] < depth[x]
      BY <2>2, <2>5, <3>1, Deeper DEF live
    <3>4. QED
      BY <3>2, <3>3
  <2>7. /\ node[x].pt[d + 1] \in Int /\ node[m].pt[d + 1] \in Int /\ node[x].pt[d + 1] # node[m].pt[d + 1]
        /\ low[d + 1] \in Int /\ high[d + 1] \in Int
    <3>1. d + 1 \in 1..Dimensions /\ low \in [1..Dimensions -> Int] /\ high \in [1..Dimensions -> Int]
      BY TreeAssumption, PointsAssumption
    <3>2. QED
      BY <2>6, <3>1, Coordinates DEF Apart, live
  <2>8. ~Less(node[x].pt, low, d) /\ Less(node[x].pt, high, d)
    BY <1>9 DEF InRange
  <2>9. PICK s : s = kids[m] /\ Takes(m, Less(low, node[m].pt, d), ~Less(high, node[m].pt, d), s)
                 /\ \A j \in 1..Len(s) : s[j] # c
    BY <1>3, <1>4, <2>2, <2>3, <2>4
  <2>10. CASE c = node[m].before
    <3>1. ~Less(low, node[m].pt, d)
      BY <2>5, <2>9, <2>10 DEF Takes
    <3>2. ~Less(node[m].pt, node[x].pt, d)
      BY <2>2, <2>4, <2>5, <2>10 DEF Ordered, live
    <3>3. QED
      BY <2>7, <2>8, <3>1, <3>2 DEF Less
  <2>11. CASE c = node[m].after
    <3>1. Less(high, node[m].pt, d)
      BY <2>5, <2>9, <2>11 DEF Takes
    <3>2. ~Less(node[x].pt, node[m].pt, d)
      BY <2>2, <2>4, <2>5, <2>11 DEF Ordered, live
    <3>3. QED
      BY <2>7, <2>8, <3>1, <3>2 DEF Less
  <2>12. QED
    BY <2>5, <2>10, <2>11
<1>10. QED
  BY <1>1, <1>6, <1>8, <1>9

\* --- bags --------------------------------------------------------------------

EntryAt(nd, m) == <<nd[m].pt, nd[m].value>>

Bag(nd, S) == [e \in Points \X Values |-> Cardinality({m \in S : EntryAt(nd, m) = e})]

LEMMA BagCounts ==
  ASSUME NEW nd, NEW S, S \subseteq Node, NEW e \in Points \X Values
  PROVE  Bag(nd, S)[e] \in Nat /\ (Bag(nd, S)[e] > 0 <=> \E m \in S : EntryAt(nd, m) = e)
<1>1. PICK T : T = {m \in S : EntryAt(nd, m) = e}
  OBVIOUS
<1>2. Bag(nd, S)[e] = Cardinality(T) /\ T \subseteq Node
  BY <1>1 DEF Bag
<1>3. IsFiniteSet(T) /\ Cardinality(T) \in Nat
  BY <1>2, NodesCount
<1>4. Cardinality(T) = 0 <=> T = {}
  BY <1>3, FS_EmptySet
<1>5. QED
  BY <1>1, <1>2, <1>3, <1>4

\* Taking one node out takes its entry out once.
LEMMA BagWithout ==
  ASSUME NEW nd, NEW S, S \subseteq Node, NEW x \in S, NEW e \in Points \X Values, EntryAt(nd, x) = e
  PROVE  Bag(nd, S \ {x}) = [Bag(nd, S) EXCEPT ![e] = @ - 1]
<1> DEFINE In(T, c) == {m \in T : EntryAt(nd, m) = c}
<1>1. \A T, c : c \in Points \X Values => Bag(nd, T)[c] = Cardinality(In(T, c))
  BY DEF Bag
<1>2. \A c : IsFiniteSet(In(S, c))
  <2>1. \A c : In(S, c) \subseteq Node
    OBVIOUS
  <2>2. QED
    BY <2>1, NodesCount
<1>3. In(S \ {x}, e) = In(S, e) \ {x} /\ x \in In(S, e) /\ \A c : c # e => In(S \ {x}, c) = In(S, c)
  OBVIOUS
<1> HIDE DEF In
<1>4. Cardinality(In(S, e) \ {x}) = Cardinality(In(S, e)) - 1
  BY <1>2, <1>3, FS_RemoveElement
<1>5. \A c \in Points \X Values : Bag(nd, S \ {x})[c] = IF c = e THEN Bag(nd, S)[c] - 1 ELSE Bag(nd, S)[c]
  BY <1>1, <1>3, <1>4
<1>6. \A T : Bag(nd, T) = [c \in Points \X Values |-> Bag(nd, T)[c]]
  BY DEF Bag
<1>7. PICK B, B2 : B = Bag(nd, S) /\ B2 = Bag(nd, S \ {x})
  OBVIOUS
<1>8. B = [c \in Points \X Values |-> B[c]] /\ B2 = [c \in Points \X Values |-> B2[c]]
  BY <1>6, <1>7
<1>9. B2 = [B EXCEPT ![e] = @ - 1]
  BY <1>5, <1>7, <1>8
<1>10. QED
  BY <1>7, <1>9

\* Adding a node adds its entry once.
LEMMA BagWith ==
  ASSUME NEW nd, NEW nd2, NEW S, S \subseteq Node, NEW x \in Node \ S, NEW e \in Points \X Values, EntryAt(nd2, x) = e,
         \A m \in S : EntryAt(nd2, m) = EntryAt(nd, m)
  PROVE  Bag(nd2, S \cup {x}) = [Bag(nd, S) EXCEPT ![e] = @ + 1]
<1> DEFINE In(c) == {m \in S : EntryAt(nd, m) = c}
           Now(c) == {m \in S \cup {x} : EntryAt(nd2, m) = c}
<1>1. \A c \in Points \X Values : Bag(nd, S)[c] = Cardinality(In(c)) /\ Bag(nd2, S \cup {x})[c] = Cardinality(Now(c))
  BY DEF Bag
<1>2. IsFiniteSet(In(e))
  <2>1. In(e) \subseteq Node
    OBVIOUS
  <2>2. QED
    BY <2>1, NodesCount
<1>3. Now(e) = In(e) \cup {x} /\ x \notin In(e) /\ \A c : c # e => Now(c) = In(c)
  OBVIOUS
<1> HIDE DEF In, Now
<1>4. Cardinality(In(e) \cup {x}) = Cardinality(In(e)) + 1
  BY <1>2, <1>3, FS_AddElement
<1>5. PICK B, B2 : B = Bag(nd, S) /\ B2 = Bag(nd2, S \cup {x})
  OBVIOUS
<1>6. \A c \in Points \X Values : B2[c] = IF c = e THEN B[c] + 1 ELSE B[c]
  BY <1>1, <1>3, <1>4, <1>5
<1>7. B = [c \in Points \X Values |-> B[c]] /\ B2 = [c \in Points \X Values |-> B2[c]]
  BY <1>5 DEF Bag
<1>8. B2 = [B EXCEPT ![e] = @ + 1]
  BY <1>6, <1>7
<1>9. QED
  BY <1>5, <1>8

\* Entries that moved one to one are the same entries.
LEMMA BagMoved ==
  ASSUME NEW nd, NEW nd2, NEW S, NEW S2, S2 \subseteq Node, NEW g \in [S2 -> S],
         \A y \in S : \E m \in S2 : g[m] = y, \A m, x \in S2 : g[m] = g[x] => m = x,
         \A m \in S2 : EntryAt(nd2, m) = EntryAt(nd, g[m])
  PROVE  Bag(nd2, S2) = Bag(nd, S)
<1> SUFFICES ASSUME NEW e \in Points \X Values
             PROVE  Cardinality({m \in S2 : EntryAt(nd2, m) = e}) = Cardinality({m \in S : EntryAt(nd, m) = e})
  BY DEF Bag
<1>1. PICK T, T2 : T = {m \in S : EntryAt(nd, m) = e} /\ T2 = {m \in S2 : EntryAt(nd2, m) = e}
  OBVIOUS
<1>2. IsFiniteSet(T2)
  BY <1>1, NodesCount
<1> DEFINE b == [m \in T2 |-> g[m]]
<1>3. b \in [T2 -> T] /\ (\A y \in T : \E m \in T2 : b[m] = y) /\ \A m, x \in T2 : b[m] = b[x] => m = x
  BY <1>1
<1> HIDE DEF b
<1>4. b \in Bijection(T2, T)
  BY <1>3 DEF Bijection, Injection, Surjection, IsInjective
<1>5. ExistsBijection(T2, T)
  BY <1>4 DEF ExistsBijection
<1>6. Cardinality(T) = Cardinality(T2)
  BY <1>2, <1>5, FS_Bijection
<1>7. QED
  BY <1>1, <1>6

\* --- the iterator ------------------------------------------------------------

\* The iterator's queue: nodes none of which is below another; what is left is at or below them.
Spread(nd, s) ==
  /\ s \in Seq(DOMAIN nd)
  /\ \A j, k \in 1..Len(s) : j # k => Under(nd, s[j]) \cap Under(nd, s[k]) = {}

Left(nd, s) == UNION {Under(nd, s[k]) : k \in 1..Len(s)}

LEMMA HeadIs ==
  ASSUME NEW nd, NEW rt, Tree(nd, rt), NEW s, Spread(nd, s), s # <<>>
  PROVE  /\ Head(s) = s[1] /\ 1 \in 1..Len(s) /\ Head(s) \in DOMAIN nd /\ Head(s) \in Left(nd, s)
         /\ Left(nd, s) \subseteq DOMAIN nd
<1>1. s \in Seq(DOMAIN nd) /\ 1 \in 1..Len(s)
  <2>1. s \in Seq(DOMAIN nd)
    BY DEF Spread
  <2>2. QED
    BY <2>1, EmptySeq
<1>2. Head(s) = s[1] /\ s[1] \in DOMAIN nd
  BY <1>1
<1>3. \A k \in 1..Len(s) : s[k] \in DOMAIN nd /\ Under(nd, s[k]) \subseteq DOMAIN nd
  BY <1>1, UnderSelf
<1>4. s[1] \in Under(nd, s[1])
  BY <1>2, UnderSelf
<1>5. QED
  BY <1>1, <1>2, <1>3, <1>4 DEF Left

\* s2 is s with q at its end instead of its front.
Splices(D, s, q, s2, L) ==
  /\ L \in Nat /\ L + 1 = Len(s) /\ Len(q) \in Nat
  /\ s2 \in Seq(D) /\ Len(s2) = L + Len(q)
  /\ \A i \in 1..L : i \in 1..Len(s2) /\ i + 1 \in 1..Len(s) /\ i + 1 # 1 /\ s2[i] = s[i + 1]
  /\ \A i \in 1..Len(q) : L + i \in 1..Len(s2) /\ s2[L + i] = q[i]
  /\ \A i \in 1..Len(s2) : i \in 1..L \/ (i \notin 1..L /\ i - L \in 1..Len(q) /\ s2[i] = q[i - L])

LEMMA SplicesIs ==
  ASSUME NEW D, NEW s \in Seq(D), s # <<>>, NEW q \in Seq(D)
  PROVE  \E s2, L : s2 = Tail(s) \o q /\ Splices(D, s, q, s2, L)
<1>1. PICK t \in Seq(D) : t = Tail(s) /\ Len(t) = Len(s) - 1 /\ \A i \in 1..Len(t) : t[i] = s[i + 1]
  <2>1. Tail(s) \in Seq(D) /\ Len(Tail(s)) = Len(s) - 1 /\ \A i \in 1..Len(Tail(s)) : Tail(s)[i] = s[i + 1]
    BY HeadTailProperties
  <2>2. QED
    BY <2>1
<1>2. PICK L \in Nat : L = Len(t) /\ L + 1 = Len(s)
  <2>1. Len(t) \in Nat /\ Len(s) \in Nat
    BY LenProperties
  <2>2. PICK L, N : L = Len(t) /\ N = Len(s)
    OBVIOUS
  <2>3. L \in Nat /\ N \in Nat /\ L = N - 1
    BY <1>1, <2>1, <2>2
  <2>4. L + 1 = N
    BY <2>3
  <2>5. QED
    BY <2>2, <2>3, <2>4
<1>3. PICK s2 : s2 = t \o q
  OBVIOUS
<1>4. s2 \in Seq(D) /\ Len(s2) = Len(t) + Len(q) /\ \A i \in 1..(Len(t) + Len(q)) : s2[i] = IF i <= Len(t) THEN t[i] ELSE q[i - Len(t)]
  BY <1>3, ConcatProperties
<1>5. Len(q) \in Nat /\ s2 \in Seq(D) /\ Len(s2) = L + Len(q)
      /\ \A i \in 1..(L + Len(q)) : s2[i] = IF i <= L THEN t[i] ELSE q[i - L]
  BY <1>2, <1>4
<1>6. \A i \in 1..L : i \in 1..Len(s2) /\ i + 1 \in 1..Len(s) /\ i + 1 # 1 /\ s2[i] = s[i + 1]
  <2> SUFFICES ASSUME NEW i \in 1..L PROVE i \in 1..Len(s2) /\ i + 1 \in 1..Len(s) /\ i + 1 # 1 /\ s2[i] = s[i + 1]
    OBVIOUS
  <2>1. i \in 1..(L + Len(q)) /\ i \in 1..Len(s2) /\ i + 1 \in 1..Len(s) /\ i + 1 # 1 /\ i <= L
    BY <1>2, <1>5
  <2>2. s2[i] = t[i] /\ t[i] = s[i + 1]
    BY <1>1, <1>2, <1>5, <2>1
  <2>3. QED
    BY <2>1, <2>2
<1>7. \A i \in 1..Len(q) : L + i \in 1..Len(s2) /\ s2[L + i] = q[i]
  <2> SUFFICES ASSUME NEW i \in 1..Len(q) PROVE L + i \in 1..Len(s2) /\ s2[L + i] = q[i]
    OBVIOUS
  <2>1. L + i \in 1..(L + Len(q)) /\ ~(L + i <= L) /\ (L + i) - L = i
    BY <1>5
  <2>2. QED
    BY <1>5, <2>1
<1>8. \A i \in 1..Len(s2) : i \in 1..L \/ (i \notin 1..L /\ i - L \in 1..Len(q) /\ s2[i] = q[i - L])
  <2> SUFFICES ASSUME NEW i \in 1..Len(s2), i \notin 1..L PROVE i - L \in 1..Len(q) /\ s2[i] = q[i - L]
    OBVIOUS
  <2>1. i - L \in 1..Len(q) /\ ~(i <= L) /\ i \in 1..(L + Len(q))
    BY <1>5
  <2>2. QED
    BY <1>5, <2>1
<1>9. Splices(D, s, q, s2, L)
  BY <1>2, <1>5, <1>6, <1>7, <1>8 DEF Splices
<1>10. QED
  BY <1>1, <1>3, <1>9

\* Replacing the front by its children leaves everything but the front.
Steps(nd, rt, s, a, q) ==
  /\ Tree(nd, rt) /\ Spread(nd, s) /\ s # <<>> /\ a = s[1] /\ q \in Seq(DOMAIN nd)
  /\ \A i \in 1..Len(q) : q[i] \in Kids(nd, a)
  /\ \A i, j \in 1..Len(q) : i # j => q[i] # q[j]
  /\ \A c \in Kids(nd, a) : \E i \in 1..Len(q) : q[i] = c

LEMMA AdvanceLeaves ==
  ASSUME NEW nd, NEW rt, NEW s, NEW a, NEW q, Steps(nd, rt, s, a, q), NEW s2, NEW L, Splices(DOMAIN nd, s, q, s2, L)
  PROVE  Spread(nd, s2) /\ Left(nd, s2) = Left(nd, s) \ {a}
<1> Tree(nd, rt) /\ s # <<>>
  BY DEF Steps
<1>1. s \in Seq(DOMAIN nd) /\ a = s[1] /\ 1 \in 1..Len(s) /\ a \in DOMAIN nd
  <2>1. Spread(nd, s) /\ a = s[1]
    BY DEF Steps
  <2>2. QED
    BY <2>1, HeadIs DEF Spread
<1>2. \A i, j \in 1..Len(q) : i # j => q[i] # q[j]
  BY DEF Steps
<1>3. \A c \in Kids(nd, a) : \E i \in 1..Len(q) : q[i] = c
  BY DEF Steps
<1>5. \A i \in 1..Len(q) : q[i] \in Kids(nd, a) /\ q[i] \in DOMAIN nd /\ Under(nd, q[i]) \subseteq Under(nd, a)
  <2>1. \A i \in 1..Len(q) : q[i] \in Kids(nd, a)
    BY DEF Steps
  <2>2. QED
    BY <1>1, <2>1, UnderKid
<1>6. L \in Nat /\ L + 1 = Len(s) /\ s2 \in Seq(DOMAIN nd) /\ Len(s2) = L + Len(q) /\ Len(q) \in Nat
  BY DEF Splices
<1>7. \A i \in 1..L : i \in 1..Len(s2) /\ i + 1 \in 1..Len(s) /\ i + 1 # 1 /\ s2[i] = s[i + 1]
  BY DEF Splices
<1>8. \A i \in 1..Len(q) : L + i \in 1..Len(s2) /\ s2[L + i] = q[i]
  BY DEF Splices
<1>9. \A i \in 1..Len(s2) : i \in 1..L \/ (i \notin 1..L /\ i - L \in 1..Len(q) /\ s2[i] = q[i - L])
  BY DEF Splices
<1>12. \A j, k \in 1..Len(s) : j # k => Under(nd, s[j]) \cap Under(nd, s[k]) = {}
  BY DEF Steps, Spread
<1>10. \A i \in 1..L : \E k \in 1..Len(s) : k = i + 1 /\ k # 1 /\ s2[i] = s[k] /\ Under(nd, s2[i]) \cap Under(nd, a) = {}
  <2> SUFFICES ASSUME NEW i \in 1..L
               PROVE  \E k \in 1..Len(s) : k = i + 1 /\ k # 1 /\ s2[i] = s[k] /\ Under(nd, s2[i]) \cap Under(nd, a) = {}
    OBVIOUS
  <2>1. PICK k \in 1..Len(s) : k = i + 1 /\ k # 1 /\ s2[i] = s[k]
    BY <1>7
  <2>2. Under(nd, s[k]) \cap Under(nd, s[1]) = {}
    BY <1>1, <1>12, <2>1
  <2>3. QED
    BY <1>1, <2>1, <2>2
<1>11. \A i \in 1..Len(s2) : i \notin 1..L => \E h \in 1..Len(q) : h = i - L /\ s2[i] = q[h]
  BY <1>9
<1>13. Spread(nd, s2)
  <2> SUFFICES ASSUME NEW j \in 1..Len(s2), NEW k \in 1..Len(s2), j # k
               PROVE  Under(nd, s2[j]) \cap Under(nd, s2[k]) = {}
    BY <1>6 DEF Spread
  <2>1. CASE j \in 1..L /\ k \in 1..L
    <3>1. PICK g, h \in 1..Len(s) : g = j + 1 /\ h = k + 1 /\ s2[j] = s[g] /\ s2[k] = s[h]
      BY <1>7, <2>1
    <3>2. g # h
      BY <1>6, <3>1
    <3>3. QED
      BY <1>12, <3>1, <3>2
  <2>2. CASE j \in 1..L /\ k \notin 1..L
    <3>1. PICK y : y = s2[k] /\ Under(nd, y) \subseteq Under(nd, a)
      BY <1>5, <1>11, <2>2
    <3>2. Under(nd, s2[j]) \cap Under(nd, a) = {}
      BY <1>10, <2>2
    <3>3. QED
      BY <3>1, <3>2
  <2>3. CASE j \notin 1..L /\ k \in 1..L
    <3>1. PICK y : y = s2[j] /\ Under(nd, y) \subseteq Under(nd, a)
      BY <1>5, <1>11, <2>3
    <3>2. Under(nd, s2[k]) \cap Under(nd, a) = {}
      BY <1>10, <2>3
    <3>3. QED
      BY <3>1, <3>2
  <2>4. CASE j \notin 1..L /\ k \notin 1..L
    <3>1. PICK g, h \in 1..Len(q) : g = j - L /\ h = k - L /\ s2[j] = q[g] /\ s2[k] = q[h]
      BY <1>11, <2>4
    <3>2. g # h
      BY <1>6, <3>1
    <3>3. PICK b, c \in Kids(nd, a) : b = q[g] /\ c = q[h] /\ b # c
      BY <1>2, <1>5, <3>2
    <3>4. Under(nd, b) \cap Under(nd, c) = {}
      BY <1>1, <3>3, Siblings
    <3>5. QED
      BY <3>1, <3>3, <3>4
  <2>5. QED
    BY <2>1, <2>2, <2>3, <2>4
<1>14. \A i \in 1..Len(q) : a \notin Under(nd, q[i])
  <2>1. PICK depth : Deep(nd, rt, depth)
    BY DEF Tree
  <2> SUFFICES ASSUME NEW i \in 1..Len(q), a \in Under(nd, q[i]) PROVE FALSE
    OBVIOUS
  <2>2. PICK c \in DOMAIN nd : c = q[i] /\ c \in Kids(nd, a) /\ a \in Under(nd, c)
    BY <1>5
  <2>3. depth[c] = depth[a] + 1 /\ depth[a] \in Nat /\ depth[c] \in Nat
    BY <1>1, <2>1, <2>2 DEF Deep
  <2>4. a = c \/ depth[c] < depth[a]
    BY <2>1, <2>2, Deeper
  <2>5. QED
    BY <2>3, <2>4
<1>15. ASSUME NEW x \in Left(nd, s2) PROVE x \in Left(nd, s) /\ x # a
  <2>1. PICK i \in 1..Len(s2) : x \in Under(nd, s2[i])
    BY <1>15 DEF Left
  <2>0. a \in Under(nd, a)
    BY <1>1, UnderSelf
  <2>2. CASE i \in 1..L
    <3>1. PICK k \in 1..Len(s) : x \in Under(nd, s[k]) /\ Under(nd, s2[i]) \cap Under(nd, a) = {}
      BY <1>10, <2>1, <2>2
    <3>2. QED
      BY <2>0, <2>1, <3>1 DEF Left
  <2>3. CASE i \notin 1..L
    <3>1. PICK k \in 1..Len(q) : x \in Under(nd, q[k])
      BY <1>11, <2>1, <2>3
    <3>2. x \in Under(nd, s[1]) /\ x # a
      BY <1>1, <1>5, <1>14, <3>1
    <3>3. QED
      BY <1>1, <3>2 DEF Left
  <2>4. QED
    BY <2>2, <2>3
<1>16. ASSUME NEW x \in Left(nd, s), x # a PROVE x \in Left(nd, s2)
  <2>1. PICK k \in 1..Len(s) : x \in Under(nd, s[k])
    BY <1>16 DEF Left
  <2>2. CASE k = 1
    <3>1. PICK c \in Kids(nd, a) : x \in Under(nd, c)
      BY <1>1, <1>16, <2>1, <2>2, UnderSplit
    <3>2. PICK i \in 1..Len(q) : q[i] = c
      BY <1>3, <3>1
    <3>3. QED
      BY <1>8, <3>1, <3>2 DEF Left
  <2>3. CASE k # 1
    <3>1. k - 1 \in 1..L /\ (k - 1) + 1 = k
      BY <1>6, <2>3
    <3>2. k - 1 \in 1..Len(s2) /\ s2[k - 1] = s[k]
      BY <1>7, <3>1
    <3>3. QED
      BY <2>1, <3>2 DEF Left
  <2>4. QED
    BY <2>2, <2>3
<1>17. QED
  BY <1>13, <1>15, <1>16

\* After deleting the front's entry the leaf is gone, and with it the front if that was the leaf.
LEMMA DeletionLeaves ==
  ASSUME NEW n, NEW leaf, NEW f, NEW nd, NEW rt, Deleted(n, leaf, f, nd, rt), NEW s, Spread(node, s), s # <<>>, n = s[1]
  PROVE  /\ IsLeaf(n) => \A s2, L : Splices(live, s, <<>>, s2, L) => Spread(nd, s2) /\ Left(nd, s2) = Left(node, s) \ {leaf}
         /\ ~IsLeaf(n) => Spread(nd, s) /\ Left(nd, s) = Left(node, s) \ {leaf}
<1> n \in live /\ Tree(node, root) /\ Lifted(n, leaf, f)
  BY DEF Deleted
<1>0. Remains(leaf, nd, rt)
  BY RemovedTree
<1>1. DOMAIN nd = live \ {leaf} /\ \A m \in live \ {leaf} : Under(nd, m) = Under(node, m) \ {leaf}
  BY <1>0 DEF Remains
<1>2. s \in Seq(live) /\ 1 \in 1..Len(s) /\ Len(s) \in Nat
  BY HeadIs DEF Spread, live
<1>3. \A j, k \in 1..Len(s) : j # k => Under(node, s[j]) \cap Under(node, s[k]) = {}
  BY DEF Spread
<1>4. leaf \in Under(node, n) /\ IsLeaf(leaf) /\ (IsLeaf(n) => leaf = n)
  BY DEF Lifted
<1>5. \A k \in 1..Len(s) : s[k] \in live /\ s[k] \in Under(node, s[k])
  BY <1>2, UnderSelf DEF live
<1>6. \A k \in 1..Len(s) : k # 1 => s[k] \in live \ {leaf} /\ leaf \notin Under(node, s[k]) /\ Under(nd, s[k]) = Under(node, s[k])
  <2> SUFFICES ASSUME NEW k \in 1..Len(s), k # 1
               PROVE  s[k] \in live \ {leaf} /\ leaf \notin Under(node, s[k]) /\ Under(nd, s[k]) = Under(node, s[k])
    OBVIOUS
  <2>2. leaf \notin Under(node, s[k])
    BY <1>2, <1>3, <1>4
  <2>3. s[k] \in live \ {leaf}
    BY <1>5, <2>2
  <2>4. Under(nd, s[k]) = Under(node, s[k]) \ {leaf}
    BY <1>1, <2>3
  <2>5. QED
    BY <2>2, <2>3, <2>4
<1>7. ASSUME IsLeaf(n), NEW s2, NEW L, Splices(live, s, <<>>, s2, L)
      PROVE  Spread(nd, s2) /\ Left(nd, s2) = Left(node, s) \ {leaf}
  <2>1. leaf = n
    BY <1>4, <1>7
  <2>2. Under(node, n) = {n}
    <3>1. Kids(node, n) = {}
      BY <1>7 DEF IsLeaf, Kids
    <3>2. \A x \in Under(node, n) : x = n
      BY <3>1, UnderSplit DEF live
    <3>3. QED
      BY <3>2, UnderSelf DEF live
  <2>3. L \in Nat /\ L + 1 = Len(s) /\ s2 \in Seq(live) /\ Len(s2) = L
        /\ \A i \in 1..L : i + 1 \in 1..Len(s) /\ i + 1 # 1 /\ s2[i] = s[i + 1]
    <3>1. /\ L \in Nat /\ L + 1 = Len(s) /\ s2 \in Seq(live) /\ Len(s2) = L + Len(<<>>)
          /\ \A i \in 1..L : i + 1 \in 1..Len(s) /\ i + 1 # 1 /\ s2[i] = s[i + 1]
      BY <1>7 DEF Splices
    <3>2. Len(<<>>) = 0
      OBVIOUS
    <3>3. L + 0 = L
      BY <3>1
    <3>4. QED
      BY <3>1, <3>2, <3>3
  <2>4. \A i \in 1..L : \E k \in 1..Len(s) : k = i + 1 /\ k # 1 /\ s2[i] = s[k] /\ s2[i] \in live \ {leaf} /\ Under(nd, s2[i]) = Under(node, s[k])
    <3> SUFFICES ASSUME NEW i \in 1..L
                 PROVE  \E k \in 1..Len(s) : k = i + 1 /\ k # 1 /\ s2[i] = s[k] /\ s2[i] \in live \ {leaf} /\ Under(nd, s2[i]) = Under(node, s[k])
      OBVIOUS
    <3>1. PICK k \in 1..Len(s) : k = i + 1 /\ k # 1 /\ s2[i] = s[k]
      BY <2>3
    <3>2. QED
      BY <1>6, <3>1
  <2>6. s2 \in Seq(DOMAIN nd)
    <3>1. \A i \in 1..L : s2[i] \in DOMAIN nd
      BY <1>1, <2>4
    <3>2. s2 \in [1..L -> DOMAIN nd]
      BY <2>3, <3>1
    <3>3. QED
      BY <2>3, <3>2
  <2>7. \A j, k \in 1..L : j # k => Under(nd, s2[j]) \cap Under(nd, s2[k]) = {}
    <3> SUFFICES ASSUME NEW j \in 1..L, NEW k \in 1..L, j # k PROVE Under(nd, s2[j]) \cap Under(nd, s2[k]) = {}
      OBVIOUS
    <3>1. PICK g, h \in 1..Len(s) : g = j + 1 /\ h = k + 1 /\ Under(nd, s2[j]) = Under(node, s[g]) /\ Under(nd, s2[k]) = Under(node, s[h])
      <4>1. PICK g \in 1..Len(s) : g = j + 1 /\ Under(nd, s2[j]) = Under(node, s[g])
        BY <2>4
      <4>2. PICK h \in 1..Len(s) : h = k + 1 /\ Under(nd, s2[k]) = Under(node, s[h])
        BY <2>4
      <4>3. QED
        BY <4>1, <4>2
    <3>2. g # h
      BY <2>3, <3>1
    <3>3. QED
      BY <1>3, <3>1, <3>2
  <2>8. ASSUME NEW x \in Left(nd, s2) PROVE x \in Left(node, s) /\ x # leaf
    <3>1. PICK i \in 1..L : x \in Under(nd, s2[i])
      BY <2>3, <2>8 DEF Left
    <3>2. PICK k \in 1..Len(s) : k # 1 /\ x \in Under(node, s[k])
      BY <2>4, <3>1
    <3>3. QED
      BY <1>6, <3>2 DEF Left
  <2>9. ASSUME NEW x \in Left(node, s), x # leaf PROVE x \in Left(nd, s2)
    <3>1. PICK k \in 1..Len(s) : x \in Under(node, s[k])
      BY <2>9 DEF Left
    <3>2. k # 1
      BY <2>1, <2>2, <2>9, <3>1
    <3>3. k - 1 \in 1..L /\ (k - 1) + 1 = k
      BY <1>2, <2>3, <3>2
    <3>4. Under(nd, s2[k - 1]) = Under(node, s[k])
      BY <2>4, <3>3
    <3>5. QED
      BY <2>3, <3>1, <3>3, <3>4 DEF Left
  <2>10. Spread(nd, s2)
    BY <2>3, <2>6, <2>7 DEF Spread
  <2>11. QED
    BY <2>8, <2>9, <2>10
<1>8. ASSUME ~IsLeaf(n) PROVE Spread(nd, s) /\ Left(nd, s) = Left(node, s) \ {leaf}
  <2>1. n # leaf
    BY <1>4, <1>8
  <2>2. \A k \in 1..Len(s) : s[k] \in live \ {leaf} /\ Under(nd, s[k]) = Under(node, s[k]) \ {leaf}
    <3> SUFFICES ASSUME NEW k \in 1..Len(s) PROVE s[k] \in live \ {leaf} /\ Under(nd, s[k]) = Under(node, s[k]) \ {leaf}
      OBVIOUS
    <3>1. s[k] \in live \ {leaf}
      BY <1>5, <1>6, <2>1
    <3>2. QED
      BY <1>1, <3>1
  <2>3. s \in Seq(DOMAIN nd)
    <3>1. \A k \in 1..Len(s) : s[k] \in DOMAIN nd
      BY <1>1, <2>2
    <3>2. s \in [1..Len(s) -> DOMAIN nd]
      BY <1>2, <3>1
    <3>3. QED
      BY <1>2, <3>2
  <2>4. \A j, k \in 1..Len(s) : j # k => Under(nd, s[j]) \cap Under(nd, s[k]) = {}
    <3> SUFFICES ASSUME NEW j \in 1..Len(s), NEW k \in 1..Len(s), j # k PROVE Under(nd, s[j]) \cap Under(nd, s[k]) = {}
      OBVIOUS
    <3>1. Under(nd, s[j]) \subseteq Under(node, s[j]) /\ Under(nd, s[k]) \subseteq Under(node, s[k])
      BY <2>2
    <3>2. QED
      BY <1>3, <3>1
  <2>5. \A x : x \in Left(nd, s) <=> x \in Left(node, s) /\ x # leaf
    <3>1. ASSUME NEW x \in Left(nd, s) PROVE x \in Left(node, s) /\ x # leaf
      BY <2>2, <3>1 DEF Left
    <3>2. ASSUME NEW x \in Left(node, s), x # leaf PROVE x \in Left(nd, s)
      BY <2>2, <3>2 DEF Left
    <3>3. QED
      BY <3>1, <3>2
  <2>6. QED
    BY <2>3, <2>4, <2>5 DEF Spread
<1>9. QED
  BY <1>7, <1>8

\* --- the invariant -----------------------------------------------------------

Good(nd, rt, number, shared, s, now) ==
  /\ Tree(nd, rt) /\ Ordered(nd) /\ number = Cardinality(DOMAIN nd)
  /\ shared \in BOOLEAN /\ (~shared => Apart(nd))
  /\ Spread(nd, s)
  /\ now = IF s = <<>> THEN <<>> ELSE EntryAt(nd, s[1])

Inv == Good(node, root, count, tied, pending, current)

\* The model's own operators, as the proofs see them.
Views ==
  /\ IsFiniteSet(live) /\ live \subseteq Node /\ Left(node, pending) \subseteq live
  /\ \A n \in live : EntryOf(n) = EntryAt(node, n) /\ EntryOf(n) \in Points \X Values
  /\ UNION {Below(pending[k]) : k \in DOMAIN pending} = Left(node, pending)
  /\ \A S : BagOf(S) = Bag(node, S)

LEMMA InvIs == Inv => Views
<1> SUFFICES ASSUME Inv PROVE Views
  OBVIOUS
<1>1. Tree(node, root) /\ Spread(node, pending)
  BY DEF Inv, Good
<1>2. live \subseteq Node /\ IsFiniteSet(live)
  <2>1. live \subseteq Node
    BY <1>1 DEF Tree, Shape, live
  <2>2. QED
    BY <2>1, NodesCount
<1>3. \A n \in live : EntryOf(n) = EntryAt(node, n) /\ EntryOf(n) \in Points \X Values
  <2> SUFFICES ASSUME NEW n \in live PROVE EntryOf(n) = EntryAt(node, n) /\ EntryOf(n) \in Points \X Values
    OBVIOUS
  <2>1. node[n].pt \in Points /\ node[n].value \in Values
    BY <1>1, Coordinates DEF live
  <2>2. QED
    BY <2>1 DEF EntryOf, EntryAt
<1>4. pending \in Seq(live) /\ DOMAIN pending = 1..Len(pending) /\ \A k \in 1..Len(pending) : pending[k] \in live
  BY <1>1 DEF Spread, live
<1>5. \A k \in DOMAIN pending : Below(pending[k]) = Under(node, pending[k])
  BY <1>1, <1>4, BelowIs
<1>6. UNION {Below(pending[k]) : k \in DOMAIN pending} = Left(node, pending)
  BY <1>4, <1>5 DEF Left
<1>7. Left(node, pending) \subseteq live
  BY <1>1, <1>4, UnderSelf DEF Left, live
<1>8. \A S : BagOf(S) = Bag(node, S)
  BY DEF BagOf, Bag, EntryOf, EntryAt
<1>9. QED
  BY <1>2, <1>3, <1>6, <1>7, <1>8 DEF Views

LEMMA InvIsNext == (Inv => Views)'
BY InvIs, PTL

\* --- the operations ----------------------------------------------------------

LEMMA SpreadOne ==
  ASSUME NEW nd, NEW n \in DOMAIN nd
  PROVE  Spread(nd, <<n>>) /\ Left(nd, <<n>>) = Under(nd, n) /\ <<n>> # <<>> /\ <<n>>[1] = n
<1>1. PICK s : s = <<n>>
  OBVIOUS
<1>2. s \in Seq(DOMAIN nd) /\ Len(s) = 1 /\ s[1] = n /\ s # <<>>
  BY <1>1
<1>3. \A k \in 1..Len(s) : k = 1
  BY <1>2
<1>4. Spread(nd, s)
  BY <1>2, <1>3 DEF Spread
<1>5. Left(nd, s) = Under(nd, n)
  BY <1>2, <1>3 DEF Left
<1>6. QED
  BY <1>1, <1>2, <1>4, <1>5

LEMMA SpreadNone ==
  ASSUME NEW nd
  PROVE  Spread(nd, <<>>) /\ Left(nd, <<>>) = {}
<1>1. <<>> \in Seq(DOMAIN nd) /\ Len(<<>>) = 0 /\ \A k \in 1..0 : FALSE
  OBVIOUS
<1>2. QED
  BY <1>1 DEF Spread, Left

LEMMA EmptyIsGood ==
  ASSUME NEW nd, DOMAIN nd = {}, nd \in [{} -> Records]
  PROVE  Good(nd, Null, 0, FALSE, <<>>, <<>>)
<1>1. Shape(nd, Null)
  BY DEF Shape
<1>2. Deep(nd, Null, [n \in {} |-> 0])
  BY DEF Deep
<1>3. Tree(nd, Null) /\ Ordered(nd) /\ Apart(nd)
  BY <1>1, <1>2 DEF Tree, Ordered, Apart
<1>4. 0 = Cardinality(DOMAIN nd)
  BY FS_EmptySet
<1>5. QED
  BY <1>3, <1>4, SpreadNone DEF Good

LEMMA InitHolds == Init => Inv
<1> SUFFICES ASSUME Init PROVE Inv
  OBVIOUS
<1>1. node = <<>> /\ root = Null /\ count = 0 /\ tied = FALSE /\ pending = <<>> /\ current = <<>>
  BY DEF Init
<1>2. <<>> \in Seq(Records) /\ DOMAIN <<>> = 1..0 /\ 1..0 = {}
  OBVIOUS
<1>3. <<>> \in [1..0 -> Records]
  BY <1>2
<1>4. DOMAIN node = {} /\ node \in [{} -> Records]
  BY <1>1, <1>2, <1>3
<1>5. QED
  BY <1>1, <1>4, EmptyIsGood DEF Inv

LEMMA InsertHolds ==
  ASSUME Inv, NEW p \in Points, NEW v \in Values, Insert(p, v)
  PROVE  /\ Inv' /\ count' = count + 1 /\ ret' = <<>> /\ current' = <<p, v>>
         /\ Bag(node', DOMAIN node') = [Bag(node, live) EXCEPT ![<<p, v>>] = @ + 1]
         /\ \E n \in DOMAIN node' : EntryAt(node', n) = <<p, v>> /\ Left(node', pending') = {n}
<1>1. Tree(node, root) /\ Ordered(node) /\ count = Cardinality(live) /\ tied \in BOOLEAN /\ (~tied => Apart(node))
  BY DEF Inv, Good, live
<1>2. PICK n, q : /\ Inserted(n, q, p, v, node', root')
                  /\ count' = count + 1 /\ pending' = <<n>> /\ current' = <<p, v>> /\ ret' = <<>>
                  /\ tied' = (tied \/ SharesCoordinate(p))
  BY <1>1, InsertIs
<1>3. PICK nd, rt : nd = node' /\ rt = root'
  OBVIOUS
<1>4. Inserted(n, q, p, v, nd, rt) /\ Linked(n, q, p, v, nd, rt)
  BY <1>2, <1>3 DEF Inserted
<1>5. Grows(n, q, nd, rt) /\ Ordered(nd)
  BY <1>4, InsertGrows, InsertOrder
<1>6. Tree(nd, rt) /\ DOMAIN nd = live \cup {n} /\ n \notin live /\ Under(nd, n) = {n}
  BY <1>5 DEF Grows
<1>7. live \subseteq Node /\ IsFiniteSet(live) /\ Cardinality(live) \in Nat /\ n \in Node
  <2>1. live \subseteq Node
    BY <1>1 DEF Tree, Shape, live
  <2>2. QED
    BY <1>4, <2>1, NodesCount DEF Linked
<1>8. count' = Cardinality(DOMAIN nd)
  BY <1>1, <1>2, <1>6, <1>7, FS_AddElement
<1>9. tied' \in BOOLEAN /\ (~tied' => Apart(nd))
  <2>1. tied' \in BOOLEAN
    BY <1>2
  <2>2. ASSUME ~tied' PROVE Apart(nd)
    <3>1. Apart(node) /\ ~SharesCoordinate(p)
      BY <1>1, <1>2, <2>2
    <3>2. QED
      BY <1>4, <3>1, InsertApart
  <2>3. QED
    BY <2>1, <2>2
<1>10. EntryAt(nd, n) = <<p, v>> /\ \A m \in live : EntryAt(nd, m) = EntryAt(node, m)
  BY <1>4 DEF Linked, EntryAt
<1>11. Spread(nd, <<n>>) /\ Left(nd, <<n>>) = {n} /\ <<n>> # <<>> /\ <<n>>[1] = n
  BY <1>6, SpreadOne
<1>12. Good(nd, rt, count', tied', <<n>>, <<p, v>>)
  BY <1>5, <1>6, <1>8, <1>9, <1>10, <1>11 DEF Good
<1>13. Inv'
  BY <1>2, <1>3, <1>12 DEF Inv
<1>14. Bag(nd, live \cup {n}) = [Bag(node, live) EXCEPT ![<<p, v>>] = @ + 1]
  <2>1. PICK e, S, old : e = <<p, v>> /\ S = live /\ old = node
    OBVIOUS
  <2>2. e \in Points \X Values /\ S \subseteq Node /\ n \in Node \ S
    BY <1>6, <1>7, <2>1
  <2>3. EntryAt(nd, n) = e /\ \A m \in S : EntryAt(nd, m) = EntryAt(old, m)
    BY <1>10, <2>1
  <2>4. Bag(nd, S \cup {n}) = [Bag(old, S) EXCEPT ![e] = @ + 1]
    BY <2>2, <2>3, BagWith
  <2>5. QED
    BY <2>1, <2>4
<1>15. QED
  BY <1>2, <1>3, <1>6, <1>10, <1>11, <1>13, <1>14

\* Deletion takes one entry out of any set of nodes that is closed under moving up.
Takenout(n, S, nd, S2) == Bag(nd, S2) = [Bag(node, S) EXCEPT ![EntryAt(node, n)] = @ - 1]

LEMMA DeletedBag ==
  ASSUME NEW n, NEW leaf, NEW f, NEW nd, NEW rt, Deleted(n, leaf, f, nd, rt),
         NEW S, S \subseteq live, Closed(node, S), n \in S
  PROVE  Takenout(n, S, nd, S \ {leaf})
<1> n \in live /\ Tree(node, root) /\ Lifted(n, leaf, f) /\ Removed(leaf, f, nd, rt)
  BY DEF Deleted
<1>1. \A m \in S : Under(node, m) \subseteq S
  BY UnderLeast DEF live
<1>2. f \in [live \ {leaf} -> live \ {n}] /\ (\A m \in live \ {leaf} : f[m] \in Under(node, m))
      /\ (\A y \in live \ {n} : \E m \in live \ {leaf} : f[m] = y)
      /\ (\A m, x \in live \ {leaf} : f[m] = f[x] => m = x)
      /\ (\A m \in live \ {leaf} : f[m] # m => m \in Under(node, n))
  BY DEF Lifted
<1> DEFINE g == [m \in S \ {leaf} |-> f[m]]
<1>3. g \in [S \ {leaf} -> S \ {n}]
  BY <1>1, <1>2
<1>4. \A y \in S \ {n} : \E m \in S \ {leaf} : g[m] = y
  <2> SUFFICES ASSUME NEW y \in S \ {n} PROVE \E m \in S \ {leaf} : g[m] = y
    OBVIOUS
  <2>1. PICK m \in live \ {leaf} : f[m] = y
    BY <1>2
  <2>2. m \in S
    BY <1>1, <1>2, <2>1
  <2>3. QED
    BY <2>1, <2>2
<1>5. \A m, x \in S \ {leaf} : g[m] = g[x] => m = x
  BY <1>2
<1>6. \A m \in S \ {leaf} : EntryAt(nd, m) = EntryAt(node, g[m])
  BY DEF EntryAt, Removed
<1> HIDE DEF g
<1>7. live \subseteq Node /\ EntryAt(node, n) \in Points \X Values
  <2>1. node[n].pt \in Points /\ node[n].value \in Values
    BY Coordinates DEF live
  <2>2. QED
    BY <2>1 DEF EntryAt, Tree, Shape, live
<1>8. PICK T, T2 : T = S \ {n} /\ T2 = S \ {leaf}
  OBVIOUS
<1>9. Bag(nd, T2) = Bag(node, T)
  BY <1>3, <1>4, <1>5, <1>6, <1>7, <1>8, BagMoved
<1>10. Bag(node, T) = [Bag(node, S) EXCEPT ![EntryAt(node, n)] = @ - 1]
  BY <1>7, <1>8, BagWithout
<1>11. QED
  BY <1>8, <1>9, <1>10 DEF Takenout

\* What a deletion, the tree's part of it, leaves of the invariant.
LEMMA DeleteHolds ==
  ASSUME Inv, NEW n \in live, DeleteNode(n)
  PROVE  \E leaf, f : /\ Deleted(n, leaf, f, node', root')
                      /\ Tree(node', root') /\ Ordered(node') /\ count' = Cardinality(DOMAIN node') /\ count' < count
                      /\ (Apart(node) => Apart(node'))
                      /\ DOMAIN node' = live \ {leaf} /\ Takenout(n, live, node', DOMAIN node')
<1>1. Tree(node, root) /\ Ordered(node) /\ count = Cardinality(live)
  BY DEF Inv, Good, live
<1>2. PICK c, s : Chained(n, s, c) /\ Deletes(c, s)
  BY <1>1, DeleteIs
<1>3. PICK leaf, f : Lifted(n, leaf, f) /\ Removed(leaf, f, node', root')
  BY <1>1, <1>2, DeletionLifts
<1>4. PICK nd, rt : nd = node' /\ rt = root'
  OBVIOUS
<1>5. Deleted(n, leaf, f, nd, rt)
  BY <1>1, <1>3, <1>4 DEF Deleted
<1>6. Remains(leaf, nd, rt) /\ Ordered(nd)
  BY <1>5, RemovedTree, RemovedOrder
<1>7. Tree(nd, rt) /\ DOMAIN nd = live \ {leaf}
  BY <1>6 DEF Remains
<1>8. leaf \in live /\ IsFiniteSet(live) /\ Cardinality(live) \in Nat
  <2>1. leaf \in live
    BY <1>1, <1>3, UnderSelf DEF Lifted, live
  <2>2. live \subseteq Node
    BY <1>1 DEF Tree, Shape, live
  <2>3. QED
    BY <2>1, <2>2, NodesCount
<1>9. count' = count - 1
  BY <1>2 DEF Deletes
<1>10. count' = Cardinality(DOMAIN nd) /\ count' < count
  BY <1>1, <1>7, <1>8, <1>9, FS_RemoveElement
<1>11. Apart(node) => Apart(nd)
  BY <1>5, RemovedApart
<1>12. Takenout(n, live, nd, live \ {leaf})
  <2>1. Closed(node, live)
    BY <1>1, KidIs DEF Closed, live
  <2>2. QED
    BY <1>5, <2>1, DeletedBag
<1>13. QED
  BY <1>4, <1>5, <1>6, <1>7, <1>10, <1>11, <1>12

LEMMA EraseIs ==
  ASSUME Inv, NEW p \in Points, NEW v \in Values, Erase(p, v)
  PROVE  /\ pending' = <<>> /\ current' = <<>> /\ tied' = tied
         /\ \/ \E n \in live : EntryOf(n) = <<p, v>> /\ DeleteNode(n) /\ ret' = <<TRUE>>
            \/ /\ UNCHANGED <<root, node, count>> /\ ret' = <<FALSE>>
               /\ tied \/ \A n \in live : EntryOf(n) # <<p, v>>
<1>1. Tree(node, root) /\ Ordered(node) /\ (~tied => Apart(node))
  BY DEF Inv, Good
<1> DEFINE h == Path(p)
           hits == {k \in DOMAIN h : h[k] # Null /\ EntryOf(h[k]) = <<p, v>>}
           one == CHOOSE k \in hits : \A j \in hits : k <= j
<1>2. /\ ret' = <<hits # {}>> /\ tied' = tied /\ pending' = <<>> /\ current' = <<>>
      /\ hits = {} => UNCHANGED <<root, node, count>>
      /\ hits # {} => DeleteNode(h[one])
  BY DEF Erase, Discard
<1>3. Follows(p, h)
  BY <1>1, PathIs
<1> HIDE DEF h
<1>4. \A k \in DOMAIN h : h[k] # Null => h[k] \in live
  BY <1>3 DEF Follows
<1>5. CASE hits # {}
  <2>1. one \in hits
    BY <1>1, <1>3, <1>5, FirstHit
  <2>2. h[one] \in live /\ EntryOf(h[one]) = <<p, v>> /\ DeleteNode(h[one])
    BY <1>2, <1>4, <1>5, <2>1
  <2>3. (hits # {}) = TRUE
    BY <1>5
  <2>4. ret' = <<TRUE>>
    BY <1>2, <2>3
  <2>5. QED
    BY <1>2, <2>2, <2>4
<1>6. CASE hits = {}
  <2>1. (hits # {}) = FALSE
    BY <1>6
  <2>2. ret' = <<FALSE>>
    BY <1>2, <2>1
  <2>3. ASSUME ~tied, NEW n \in live, EntryOf(n) = <<p, v>> PROVE FALSE
    <3>1. node[n].pt = p
      BY <2>3 DEF EntryOf
    <3>2. \E k \in DOMAIN h : h[k] = n
      BY <1>1, <1>3, <2>3, <3>1, PathFinds
    <3>3. n # Null
      BY <1>1, KidIs DEF live
    <3>4. QED
      BY <1>6, <2>3, <3>2, <3>3
  <2>4. QED
    BY <1>2, <1>6, <2>2, <2>3
<1>7. QED
  BY <1>5, <1>6

LEMMA EraseHolds ==
  ASSUME Inv, NEW p \in Points, NEW v \in Values, Erase(p, v)
  PROVE  Inv' /\ count' <= count
<1>1. /\ Tree(node, root) /\ Ordered(node) /\ count = Cardinality(live) /\ tied \in BOOLEAN /\ (~tied => Apart(node))
      /\ count \in Nat
  <2>1. Views
    BY InvIs
  <2>2. QED
    BY <2>1, FS_CardinalityType DEF Inv, Good, Views, live
<1>2. pending' = <<>> /\ current' = <<>> /\ tied' = tied
  BY EraseIs
<1>3. PICK nd, rt, s : nd = node' /\ rt = root' /\ s = pending'
  OBVIOUS
<1>4. Spread(nd, s) /\ s = <<>>
  BY <1>2, <1>3, SpreadNone
<1>5. CASE \E n \in live : DeleteNode(n)
  <2>1. Tree(nd, rt) /\ Ordered(nd) /\ count' = Cardinality(DOMAIN nd) /\ count' < count /\ (Apart(node) => Apart(nd))
    BY <1>3, <1>5, DeleteHolds
  <2>2. Good(nd, rt, count', tied', s, current')
    BY <1>1, <1>2, <1>4, <2>1 DEF Good
  <2>3. count' \in Int
    <3>1. \E n \in live : count' = count - 1
      BY <1>5 DEF DeleteNode
    <3>2. QED
      BY <1>1, <3>1
  <2>4. QED
    BY <1>1, <1>3, <2>1, <2>2, <2>3 DEF Inv
<1>6. CASE UNCHANGED <<root, node, count>>
  <2>1. Good(nd, rt, count', tied', s, current')
    BY <1>1, <1>2, <1>3, <1>4, <1>6 DEF Good, live
  <2>2. QED
    BY <1>1, <1>3, <1>6, <2>1 DEF Inv
<1>7. QED
  BY <1>5, <1>6, EraseIs

LEMMA BeginHolds ==
  ASSUME Inv, Begin
  PROVE  Inv' /\ count' = count /\ Left(node', pending') = live /\ node' = node
<1>1. Tree(node, root) /\ Ordered(node) /\ count = Cardinality(live) /\ tied \in BOOLEAN /\ (~tied => Apart(node))
  BY DEF Inv, Good, live
<1>2. /\ pending' = IF root = Null THEN <<>> ELSE <<root>>
      /\ current' = IF root = Null THEN <<>> ELSE EntryOf(root)
      /\ root' = root /\ node' = node /\ count' = count /\ tied' = tied
  BY DEF Begin
<1>3. PICK s : s = pending'
  OBVIOUS
<1>4. CASE root = Null
  <2>1. live = {}
    BY <1>1, <1>4, TreeAssumption DEF Tree, Shape, live
  <2>2. Spread(node, s) /\ Left(node, s) = live /\ s = <<>>
    BY <1>2, <1>3, <1>4, <2>1, SpreadNone
  <2>3. Good(node, root, count, tied, s, <<>>)
    BY <1>1, <2>2 DEF Good, live
  <2>4. QED
    BY <1>2, <1>3, <1>4, <2>2, <2>3 DEF Inv
<1>5. CASE root # Null
  <2>1. root \in live /\ Under(node, root) = live
    <3>1. root \in live
      BY <1>1, <1>5 DEF Tree, Shape, live
    <3>2. \A x \in live : x \in Under(node, root)
      BY <1>1, UnderRoot DEF live
    <3>3. Under(node, root) \subseteq live
      BY <1>1, <3>1, UnderSelf DEF live
    <3>4. QED
      BY <3>1, <3>2, <3>3
  <2>2. s = <<root>>
    BY <1>2, <1>3, <1>5
  <2>3. Spread(node, s) /\ Left(node, s) = live /\ s # <<>> /\ s[1] = root
    BY <2>1, <2>2, SpreadOne DEF live
  <2>4. EntryOf(root) = EntryAt(node, root)
    BY DEF EntryOf, EntryAt
  <2>5. Good(node, root, count, tied, s, EntryOf(root))
    BY <1>1, <2>3, <2>4 DEF Good, live
  <2>6. QED
    BY <1>2, <1>3, <1>5, <2>3, <2>5 DEF Inv
<1>6. QED
  BY <1>4, <1>5

\* What the iterator shows after a step.
LEMMA FrontIs ==
  ASSUME Front, NEW D, NEW s \in Seq(D), s = pending', NEW nd, nd = node'
  PROVE  current' = IF s = <<>> THEN <<>> ELSE EntryAt(nd, s[1])
<1>1. s # <<>> => Head(s) = s[1]
  OBVIOUS
<1>2. current' = IF s = <<>> THEN <<>> ELSE <<nd[Head(s)].pt, nd[Head(s)].value>>
  BY DEF Front
<1>3. QED
  BY <1>1, <1>2 DEF EntryAt

LEMMA AdvanceHolds ==
  ASSUME Inv, Advance
  PROVE  /\ Inv' /\ count' = count /\ node' = node /\ ret' = <<>>
         /\ \E h \in live : /\ h \in Left(node, pending) /\ current = EntryAt(node, h)
                            /\ Left(node', pending') = Left(node, pending) \ {h}
<1>1. /\ Tree(node, root) /\ Ordered(node) /\ count = Cardinality(live) /\ tied \in BOOLEAN /\ (~tied => Apart(node))
      /\ Spread(node, pending) /\ current = IF pending = <<>> THEN <<>> ELSE EntryAt(node, pending[1])
  BY DEF Inv, Good, live
<1>2. pending # <<>> /\ root' = root /\ node' = node /\ count' = count /\ tied' = tied /\ Front /\ ret' = <<>>
  BY DEF Advance
<1>3. /\ Head(pending) = pending[1] /\ Head(pending) \in live /\ Head(pending) \in Left(node, pending)
      /\ pending \in Seq(live)
  BY <1>1, <1>2, HeadIs DEF live, Spread
<1>4. PICK h, s, old : h \in live /\ h = Head(pending) /\ s = pending /\ old = node
  BY <1>3
<1>5. PICK q : q = AllChildren[h]
  OBVIOUS
<1>6. Steps(old, root, s, h, q)
  <2>1. Offers(node, AllChildren) /\ \A c \in Kids(node, h) : \E i \in 1..Len(q) : q[i] = c
    BY <1>1, <1>4, <1>5, AllOffered
  <2>2. q \in Seq(DOMAIN node) /\ (\A i \in 1..Len(q) : q[i] \in Kids(node, h)) /\ \A i, j \in 1..Len(q) : i # j => q[i] # q[j]
    BY <1>4, <1>5, <2>1 DEF Offers, live
  <2>3. QED
    BY <1>1, <1>2, <1>3, <1>4, <2>1, <2>2 DEF Steps
<1>7. PICK s2, L : s2 = Tail(s) \o q /\ Splices(live, s, q, s2, L)
  <2>1. q \in Seq(live) /\ s \in Seq(live) /\ s # <<>>
    BY <1>2, <1>3, <1>4, <1>6 DEF Steps, live
  <2>2. QED
    BY <2>1, SplicesIs
<1>8. Spread(old, s2) /\ Left(old, s2) = Left(old, s) \ {h}
  <2>1. Splices(DOMAIN old, s, q, s2, L)
    BY <1>4, <1>7 DEF live
  <2>2. QED
    BY <1>6, <2>1, AdvanceLeaves
<1>9. pending' = s2
  BY <1>4, <1>5, <1>7 DEF Advance
<1>10. current' = IF s2 = <<>> THEN <<>> ELSE EntryAt(old, s2[1])
  <2>1. s2 \in Seq(live) /\ old = node'
    BY <1>2, <1>4, <1>7 DEF Splices
  <2>2. QED
    BY <1>2, <1>9, <2>1, FrontIs
<1>11. Good(old, root, count, tied, s2, current')
  BY <1>1, <1>4, <1>8, <1>10 DEF Good, live
<1>12. Inv'
  BY <1>2, <1>4, <1>9, <1>11 DEF Inv
<1>13. current = EntryAt(node, h)
  BY <1>1, <1>2, <1>3, <1>4
<1>14. Left(node', pending') = Left(node, pending) \ {h}
  BY <1>2, <1>4, <1>8, <1>9
<1>15. QED
  BY <1>2, <1>3, <1>4, <1>12, <1>13, <1>14

LEMMA EraseAdvanceHolds ==
  ASSUME Inv, EraseAdvance
  PROVE  /\ Inv' /\ count' <= count /\ ret' = <<>> /\ current # <<>>
         /\ Bag(node', DOMAIN node') = [Bag(node, live) EXCEPT ![current] = @ - 1]
         /\ Bag(node', Left(node', pending')) = [Bag(node, Left(node, pending)) EXCEPT ![current] = @ - 1]
<1>1. /\ Tree(node, root) /\ Ordered(node) /\ count = Cardinality(live) /\ tied \in BOOLEAN /\ (~tied => Apart(node))
      /\ Spread(node, pending) /\ current = IF pending = <<>> THEN <<>> ELSE EntryAt(node, pending[1])
  BY DEF Inv, Good, live
<1>2. /\ pending # <<>> /\ DeleteNode(Head(pending)) /\ Front /\ ret' = <<>> /\ tied' = tied
      /\ pending' = IF IsLeaf(Head(pending)) THEN Tail(pending) ELSE pending
  BY DEF EraseAdvance
<1>3. /\ Head(pending) = pending[1] /\ Head(pending) \in live /\ Head(pending) \in Left(node, pending)
      /\ pending \in Seq(live) /\ Left(node, pending) \subseteq live
  BY <1>1, <1>2, HeadIs DEF live, Spread
<1>4. PICK h, s : h \in live /\ h = Head(pending) /\ s = pending /\ s # <<>> /\ h = s[1] /\ DeleteNode(h)
  BY <1>2, <1>3
<1>5. PICK leaf, f : /\ Deleted(h, leaf, f, node', root')
                     /\ Tree(node', root') /\ Ordered(node') /\ count' = Cardinality(DOMAIN node') /\ count' < count
                     /\ (Apart(node) => Apart(node'))
                     /\ DOMAIN node' = live \ {leaf} /\ Takenout(h, live, node', DOMAIN node')
  BY <1>4, DeleteHolds
<1>6. PICK nd, rt : nd = node' /\ rt = root'
  OBVIOUS
<1>7. PICK s2 : s2 = pending' /\ Spread(nd, s2) /\ Left(nd, s2) = Left(node, s) \ {leaf}
  <2>1. Deleted(h, leaf, f, nd, rt) /\ Spread(node, s)
    BY <1>1, <1>4, <1>5, <1>6
  <2>2. /\ IsLeaf(h) => \A s2, L : Splices(live, s, <<>>, s2, L) => Spread(nd, s2) /\ Left(nd, s2) = Left(node, s) \ {leaf}
        /\ ~IsLeaf(h) => Spread(nd, s) /\ Left(nd, s) = Left(node, s) \ {leaf}
    BY <1>4, <2>1, DeletionLeaves
  <2>3. CASE IsLeaf(h)
    <3>1. s \in Seq(live) /\ s # <<>> /\ <<>> \in Seq(live)
      BY <1>3, <1>4
    <3>2. PICK s2, L : s2 = Tail(s) \o <<>> /\ Splices(live, s, <<>>, s2, L)
      BY <3>1, SplicesIs
    <3>3. Tail(s) \in Seq(live)
      BY <3>1, HeadTailProperties
    <3>4. s2 = Tail(s)
      BY <3>2, <3>3, ConcatEmptySeq
    <3>5. pending' = s2
      BY <1>2, <1>4, <2>3, <3>4
    <3>6. QED
      BY <2>2, <2>3, <3>2, <3>5
  <2>4. CASE ~IsLeaf(h)
    <3>1. pending' = s
      BY <1>2, <1>4, <2>4
    <3>2. QED
      BY <2>2, <2>4, <3>1
  <2>5. QED
    BY <2>3, <2>4
<1>8. current' = IF s2 = <<>> THEN <<>> ELSE EntryAt(nd, s2[1])
  <2>1. s2 \in Seq(DOMAIN nd)
    BY <1>7 DEF Spread
  <2>2. QED
    BY <1>2, <1>6, <1>7, <2>1, FrontIs
<1>9. Good(nd, rt, count', tied', s2, current')
  BY <1>1, <1>2, <1>5, <1>6, <1>7, <1>8 DEF Good
<1>10. Inv'
  BY <1>6, <1>7, <1>9 DEF Inv
<1>11. current = EntryAt(node, h) /\ current # <<>>
  BY <1>1, <1>4 DEF EntryAt
<1>12. Takenout(h, Left(node, s), nd, Left(nd, s2))
  <2>1. Left(node, s) \subseteq live /\ h \in Left(node, s)
    BY <1>3, <1>4
  <2>2. \A k \in 1..Len(s) : s[k] \in live
    BY <1>3, <1>4
  <2>3. \A k \in 1..Len(s) : Closed(node, Under(node, s[k]))
    BY <1>1, <2>2, UnderSelf DEF live
  <2>4. Closed(node, Left(node, s))
    BY <2>3 DEF Closed, Left
  <2>5. Deleted(h, leaf, f, nd, rt)
    BY <1>5, <1>6
  <2>6. Takenout(h, Left(node, s), nd, Left(node, s) \ {leaf})
    BY <2>1, <2>4, <2>5, DeletedBag
  <2>7. QED
    BY <1>7, <2>6
<1>13. count' <= count
  <2>1. count' = count - 1
    BY <1>4 DEF DeleteNode
  <2>2. count \in Nat
    <3>1. Views
      BY InvIs
    <3>2. QED
      BY <1>1, <3>1, FS_CardinalityType DEF Views
  <2>3. QED
    BY <2>1, <2>2
<1>14. Bag(node', DOMAIN node') = [Bag(node, live) EXCEPT ![current] = @ - 1]
  BY <1>5, <1>11 DEF Takenout
<1>15. Bag(node', Left(node', pending')) = [Bag(node, Left(node, pending)) EXCEPT ![current] = @ - 1]
  BY <1>4, <1>6, <1>7, <1>11, <1>12 DEF Takenout
<1>16. QED
  BY <1>2, <1>10, <1>11, <1>13, <1>14, <1>15

LEMMA DestroyHolds ==
  ASSUME Inv, Destroy
  PROVE  Inv' /\ count' <= count /\ DOMAIN node' = {}
<1>1. Tree(node, root) /\ count = Cardinality(live)
  BY DEF Inv, Good, live
<1>2. /\ root # Null /\ root' = Null /\ count' = 0 /\ tied' = FALSE /\ pending' = <<>> /\ current' = <<>>
      /\ node' = [n \in live \ Below(root) |-> node[n]]
  BY DEF Destroy, Discard
<1>3. live \ Below(root) = {}
  <2>1. root \in live
    BY <1>1, <1>2 DEF Tree, Shape, live
  <2>2. Below(root) = Under(node, root)
    BY <1>1, <2>1, BelowIs
  <2>3. \A x \in live : x \in Under(node, root)
    BY <1>1, UnderRoot DEF live
  <2>4. QED
    BY <2>2, <2>3
<1>4. DOMAIN node' = {} /\ node' \in [{} -> Records]
  BY <1>2, <1>3
<1>5. PICK nd : nd = node'
  OBVIOUS
<1>6. Good(nd, Null, 0, FALSE, <<>>, <<>>)
  BY <1>4, <1>5, EmptyIsGood
<1>7. Inv'
  BY <1>2, <1>5, <1>6 DEF Inv
<1>8. count \in Nat
  <2>1. Views
    BY InvIs
  <2>2. QED
    BY <1>1, <2>1, FS_CardinalityType DEF Views
<1>9. QED
  BY <1>2, <1>4, <1>7, <1>8

LEMMA StepHolds == Inv /\ [Next]_vars => Inv'
<1> SUFFICES ASSUME Inv, [Next]_vars PROVE Inv'
  OBVIOUS
<1>1. ASSUME NEW p \in Points, NEW v \in Values, Insert(p, v) PROVE Inv'
  BY <1>1, InsertHolds
<1>2. ASSUME NEW p \in Points, NEW v \in Values, Erase(p, v) PROVE Inv'
  BY <1>2, EraseHolds
<1>3. CASE Begin
  BY <1>3, BeginHolds
<1>4. CASE Advance
  BY <1>4, AdvanceHolds
<1>5. CASE EraseAdvance
  BY <1>5, EraseAdvanceHolds
<1>6. CASE Destroy
  BY <1>6, DestroyHolds
<1>7. CASE UNCHANGED vars
  BY <1>7 DEF vars, Inv
<1>8. QED
  BY <1>1, <1>2, <1>3, <1>4, <1>5, <1>6, <1>7 DEF Next

\* --- the theorems ------------------------------------------------------------

LEMMA InvSearches == Inv => TreeIsSearchable
<1> SUFFICES ASSUME Inv PROVE TreeIsSearchable
  OBVIOUS
<1>1. /\ Tree(node, root) /\ Ordered(node) /\ count = Cardinality(live) /\ (~tied => Apart(node))
      /\ Spread(node, pending)
  BY DEF Inv, Good, live
<1>2. \A n \in live : Below(n) = Under(node, n) /\ n # Null
  BY <1>1, BelowIs, KidIs DEF live
<1>3. \A n \in live : \A m \in {node[n].before, node[n].after} \ {Null} :
        m \in live /\ node[m].parent = n /\ node[m].dim = (node[n].dim + 1) % Dimensions
  BY <1>1 DEF Tree, Shape, Kids, live
<1>4. TreeInv
  <2>1. Below(root) = live
    <3>1. CASE root = Null
      <4>1. live = {}
        BY <1>1, <3>1, TreeAssumption DEF Tree, Shape, live
      <4>2. QED
        BY <3>1, <4>1, BelowNull
    <3>2. CASE root # Null
      <4>1. root \in live
        BY <1>1, <3>2 DEF Tree, Shape, live
      <4>2. \A x \in live : x \in Under(node, root)
        BY <1>1, UnderRoot DEF live
      <4>3. Under(node, root) \subseteq live
        BY <1>1, <4>1, UnderSelf DEF live
      <4>4. QED
        BY <1>2, <4>1, <4>2, <4>3
    <3>3. QED
      BY <3>1, <3>2
  <2>2. root # Null => node[root].parent = Null /\ node[root].dim = 0
    BY <1>1 DEF Tree, Shape
  <2>3. \A n \in live : node[n].before # Null => node[n].before # node[n].after
    BY <1>1 DEF Tree, Shape, live
  <2>4. \A j, k \in DOMAIN pending :
          pending[j] \in live /\ (j # k => Below(pending[j]) \cap Below(pending[k]) = {})
    <3>1. DOMAIN pending = 1..Len(pending) /\ \A k \in 1..Len(pending) : pending[k] \in live
      BY <1>1 DEF Spread, live
    <3>2. \A j, k \in 1..Len(pending) : j # k => Under(node, pending[j]) \cap Under(node, pending[k]) = {}
      BY <1>1 DEF Spread
    <3>3. \A k \in 1..Len(pending) : Below(pending[k]) = Under(node, pending[k])
      BY <1>2, <3>1
    <3>4. QED
      BY <3>1, <3>2, <3>3
  <2>5. QED
    BY <1>1, <1>3, <2>1, <2>2, <2>3, <2>4 DEF TreeInv
<1>5. WeakOrder
  <2> SUFFICES ASSUME NEW n \in live
               PROVE  /\ \A m \in Below(node[n].before) : ~Less(node[n].pt, node[m].pt, node[n].dim)
                      /\ \A m \in Below(node[n].after) : ~Less(node[m].pt, node[n].pt, node[n].dim)
    BY DEF WeakOrder
  <2>1. node[n].before # Null => node[n].before \in live
    BY <1>3
  <2>2. node[n].after # Null => node[n].after \in live
    BY <1>3
  <2>3. CASE node[n].before = Null /\ node[n].after = Null
    BY <2>3, BelowNull
  <2>4. node[n].before # Null => Below(node[n].before) = Under(node, node[n].before)
    BY <1>2, <2>1
  <2>5. node[n].after # Null => Below(node[n].after) = Under(node, node[n].after)
    BY <1>2, <2>2
  <2>6. \A m \in Below(node[n].before) : ~Less(node[n].pt, node[m].pt, node[n].dim)
    BY <1>1, <2>4, BelowNull DEF Ordered, live
  <2>7. \A m \in Below(node[n].after) : ~Less(node[m].pt, node[n].pt, node[n].dim)
    BY <1>1, <2>5, BelowNull DEF Ordered, live
  <2>8. QED
    BY <2>6, <2>7
<1>6. SearchesComplete
  <2> SUFFICES ASSUME ~tied
               PROVE  /\ FindsPoints
                      /\ root # Null => \A low, high \in Points :
                           Within(low, high) = {n \in live : InRange(node[n].pt, low, high)}
    BY DEF SearchesComplete
  <2>1. FindsPoints
    BY <1>1, AtFinds
  <2>2. root # Null => \A low, high \in Points : Within(low, high) = {n \in live : InRange(node[n].pt, low, high)}
    BY <1>1, WithinFinds
  <2>3. QED
    BY <2>1, <2>2
<1>7. QED
  BY <1>4, <1>5, <1>6 DEF TreeIsSearchable

\* At all times the nodes are one tree in order, the count is right, without ties equal coordinates are
\* nowhere, and the iterator's queue holds the roots of disjoint subtrees.
THEOREM Invariance == Spec => []Inv
<1>1. QED
  BY InitHolds, StepHolds, PTL DEF Spec

\* The tree can be searched at any time: insert, erase, erase_advance and the destructor leave one tree of all
\* entries, none of them on the wrong side of a node, in which at, exists and within find exactly what is
\* there as long as no two points shared a coordinate (KDTree-inl.hh 126-343), for every number of dimensions.
THEOREM Searchable == Spec => []TreeIsSearchable
<1>1. QED
  BY Invariance, InvSearches, PTL

\* What the tree stands for, and what its iterator gives.
Stands ==
  /\ BagOf(live) = Bag(node, DOMAIN node)
  /\ BagOf(UNION {Below(pending[k]) : k \in DOMAIN pending}) = Bag(node, Left(node, pending))

Empty == [e \in Points \X Values |-> 0]

Gives ==
  IF Bag(node, Left(node, pending)) = Empty
  THEN current = <<>>
  ELSE \E e \in Points \X Values : Bag(node, Left(node, pending))[e] > 0 /\ current = e

LEMMA BagOfNone ==
  ASSUME NEW nd
  PROVE  Bag(nd, {}) = Empty
<1>1. \A e : {m \in {} : EntryAt(nd, m) = e} = {}
  OBVIOUS
<1>2. Cardinality({}) = 0
  BY FS_EmptySet
<1>3. QED
  BY <1>1, <1>2 DEF Bag, Empty

LEMMA InvStands == Inv => Stands /\ Gives
<1> SUFFICES ASSUME Inv PROVE Stands /\ Gives
  OBVIOUS
<1>1. Views
  BY InvIs
<1>2. Stands
  BY <1>1 DEF Stands, Views, live
<1>3. Tree(node, root) /\ Spread(node, pending) /\ current = IF pending = <<>> THEN <<>> ELSE EntryAt(node, pending[1])
  BY DEF Inv, Good
<1>4. CASE pending = <<>>
  <2>1. Left(node, pending) = {}
    BY <1>4, SpreadNone
  <2>2. QED
    BY <1>2, <1>3, <1>4, <2>1, BagOfNone DEF Gives
<1>5. CASE pending # <<>>
  <2>1. PICK h \in live : h = pending[1] /\ h \in Left(node, pending)
    BY <1>3, <1>5, HeadIs DEF live
  <2>2. current = EntryAt(node, h) /\ EntryAt(node, h) \in Points \X Values
    BY <1>1, <1>3, <1>5, <2>1 DEF Views
  <2>3. Left(node, pending) \subseteq Node
    BY <1>1 DEF Views
  <2>4. Bag(node, Left(node, pending))[current] > 0
    BY <2>1, <2>2, <2>3, BagCounts
  <2>5. Empty[current] = 0
    BY <2>2 DEF Empty
  <2>6. QED
    BY <1>2, <2>2, <2>4, <2>5 DEF Gives
<1>6. QED
  BY <1>4, <1>5

LEMMA InvStandsNext == (Inv => Stands /\ Gives)'
BY InvStands, PTL

\* A bag that nothing is left of.
LEMMA StandsEmpty == Inv /\ pending = <<>> => Left(node, pending) = {} /\ current = <<>>
BY SpreadNone DEF Inv, Good

LEMMA StandsEmptyNext == (Inv /\ pending = <<>> => Left(node, pending) = {} /\ current = <<>>)'
BY StandsEmpty, PTL

LEMMA MatchInsert ==
  ASSUME Inv, NEW p \in Points, NEW v \in Values, Insert(p, v)
  PROVE  Abstract!Insert(p, v)
<1>1. /\ Inv' /\ ret' = <<>> /\ current' = <<p, v>>
      /\ Bag(node', DOMAIN node') = [Bag(node, live) EXCEPT ![<<p, v>>] = @ + 1]
      /\ \E n \in DOMAIN node' : EntryAt(node', n) = <<p, v>> /\ Left(node', pending') = {n}
  BY InsertHolds
<1>2. Stands /\ Stands'
  BY <1>1, InvStands, InvStandsNext
<1>3. Bag(node', Left(node', pending')) = [Empty EXCEPT ![<<p, v>>] = 1]
  <2>1. PICK nd, e, n : nd = node' /\ e = <<p, v>> /\ n \in DOMAIN nd /\ EntryAt(nd, n) = e /\ Left(node', pending') = {n}
    BY <1>1
  <2>2. n \in Node /\ e \in Points \X Values
    <3>1. (Inv => Views)'
      BY InvIsNext
    <3>2. DOMAIN nd \subseteq Node
      BY <1>1, <2>1, <3>1 DEF Views, live
    <3>3. QED
      BY <2>1, <3>2
  <2>3. Bag(nd, {} \cup {n}) = [Bag(nd, {}) EXCEPT ![e] = @ + 1]
    BY <2>1, <2>2, BagWith
  <2>4. {} \cup {n} = {n} /\ Bag(nd, {}) = Empty /\ Empty[e] + 1 = 1
    BY <2>2, BagOfNone DEF Empty
  <2>5. Bag(nd, {n}) = [Empty EXCEPT ![e] = 1]
    BY <2>3, <2>4
  <2>6. QED
    BY <2>1, <2>5
<1>4. QED
  BY <1>1, <1>2, <1>3 DEF Stands, Empty, Abstract!Insert, Abstract!Empty, Abstract!Entry, live

LEMMA MatchBegin == Inv /\ Begin => Abstract!Begin
<1> SUFFICES ASSUME Inv, Begin PROVE Abstract!Begin
  OBVIOUS
<1>1. Inv' /\ Left(node', pending') = live /\ node' = node /\ ret' = <<>>
  BY BeginHolds DEF Begin
<1>2. Stands /\ Stands' /\ Gives'
  BY <1>1, InvStands, InvStandsNext
<1>3. BagOf(live)' = BagOf(live)
  BY <1>1, <1>2 DEF Stands
<1>4. BagOf(UNION {Below(pending[k]) : k \in DOMAIN pending})' = BagOf(live)
  BY <1>1, <1>2 DEF Stands, live
<1>5. Abstract!Give
  BY <1>2 DEF Stands, Gives, Empty, Abstract!Give, Abstract!Empty, Abstract!Entry
<1>6. QED
  BY <1>1, <1>3, <1>4, <1>5 DEF Abstract!Begin

LEMMA MatchAdvance == Inv /\ Advance => Abstract!Advance
<1> SUFFICES ASSUME Inv, Advance PROVE Abstract!Advance
  OBVIOUS
<1>1. PICK h \in live : /\ h \in Left(node, pending) /\ current = EntryAt(node, h)
                        /\ Left(node', pending') = Left(node, pending) \ {h}
  BY AdvanceHolds
<1>2. Inv' /\ node' = node /\ ret' = <<>>
  BY AdvanceHolds
<1>3. Stands /\ Stands' /\ Gives'
  BY <1>2, InvStands, InvStandsNext
<1>4. Views
  BY InvIs
<1>5. current \in Points \X Values /\ current # <<>>
  <2>1. current \in Points \X Values
    BY <1>1, <1>4 DEF Views
  <2>2. current # <<>>
    BY <1>1 DEF EntryAt
  <2>3. QED
    BY <2>1, <2>2
<1>6. Bag(node', Left(node', pending')) = [Bag(node, Left(node, pending)) EXCEPT ![current] = @ - 1]
  <2>1. PICK S : S = Left(node, pending)
    OBVIOUS
  <2>2. S \subseteq Node /\ h \in S
    BY <1>1, <1>4, <2>1 DEF Views
  <2>3. Bag(node, S \ {h}) = [Bag(node, S) EXCEPT ![current] = @ - 1]
    BY <1>1, <1>5, <2>2, BagWithout
  <2>4. QED
    BY <1>1, <1>2, <2>1, <2>3
<1>7. Abstract!Give
  BY <1>3 DEF Stands, Gives, Empty, Abstract!Give, Abstract!Empty, Abstract!Entry
<1>8. BagOf(live)' = BagOf(live)
  BY <1>2, <1>3 DEF Stands
<1>9. QED
  BY <1>2, <1>3, <1>5, <1>6, <1>7, <1>8 DEF Stands, Abstract!Advance

LEMMA MatchEraseAdvance == Inv /\ EraseAdvance => Abstract!EraseAdvance
<1> SUFFICES ASSUME Inv, EraseAdvance PROVE Abstract!EraseAdvance
  OBVIOUS
<1>1. /\ Inv' /\ ret' = <<>> /\ current # <<>>
      /\ Bag(node', DOMAIN node') = [Bag(node, live) EXCEPT ![current] = @ - 1]
      /\ Bag(node', Left(node', pending')) = [Bag(node, Left(node, pending)) EXCEPT ![current] = @ - 1]
  BY EraseAdvanceHolds
<1>2. Stands /\ Stands' /\ Gives'
  BY <1>1, InvStands, InvStandsNext
<1>3. Abstract!Give
  BY <1>2 DEF Stands, Gives, Empty, Abstract!Give, Abstract!Empty, Abstract!Entry
<1>4. QED
  BY <1>1, <1>2, <1>3 DEF Stands, live, Abstract!EraseAdvance

LEMMA MatchDestroy == Inv /\ Destroy => Abstract!Destroy
<1> SUFFICES ASSUME Inv, Destroy PROVE Abstract!Destroy
  OBVIOUS
<1>1. Inv' /\ DOMAIN node' = {}
  BY DestroyHolds
<1>2. pending' = <<>> /\ current' = <<>> /\ ret' = <<>>
  BY DEF Destroy, Discard
<1>3. Stands'
  BY <1>1, InvStandsNext
<1>4. Left(node', pending') = {}
  BY <1>1, <1>2, StandsEmptyNext
<1>5. Bag(node', {}) = Empty
  BY BagOfNone
<1>6. QED
  BY <1>1, <1>2, <1>3, <1>4, <1>5 DEF Stands, Empty, Abstract!Destroy, Abstract!Stop, Abstract!Empty, Abstract!Entry

LEMMA MatchErase ==
  ASSUME Inv, NEW p \in Points, NEW v \in Values, Erase(p, v)
  PROVE  Abstract!Erase(p, v) \/ (tied /\ ret' = <<FALSE>> /\ UNCHANGED node)
<1>1. Inv' /\ pending' = <<>> /\ current' = <<>>
  BY EraseHolds, EraseIs
<1>2. Stands /\ Stands' /\ Views
  BY <1>1, InvStands, InvStandsNext, InvIs
<1>3. Left(node', pending') = {} /\ Bag(node', {}) = Empty
  BY <1>1, StandsEmptyNext, BagOfNone
<1>4. Abstract!Stop
  BY <1>1, <1>2, <1>3 DEF Stands, Empty, Abstract!Stop, Abstract!Empty, Abstract!Entry
<1>5. PICK e \in Points \X Values : e = <<p, v>>
  OBVIOUS
<1>6. Bag(node, live)[e] \in Nat /\ (Bag(node, live)[e] > 0 <=> \E n \in live : EntryAt(node, n) = e)
  <2>1. live \subseteq Node
    BY <1>2 DEF Views
  <2>2. PICK S : S = live
    OBVIOUS
  <2>3. QED
    BY <2>1, <2>2, BagCounts
<1>7. BagOf(live) = Bag(node, live) /\ BagOf(live)' = Bag(node', DOMAIN node')
  BY <1>2 DEF Stands, live
<1>8. CASE \E n \in live : EntryOf(n) = <<p, v>> /\ DeleteNode(n) /\ ret' = <<TRUE>>
  <2>1. PICK n \in live : EntryOf(n) = e /\ DeleteNode(n) /\ ret' = <<TRUE>>
    BY <1>5, <1>8
  <2>2. EntryAt(node, n) = e
    BY <1>2, <2>1 DEF Views
  <2>3. Takenout(n, live, node', DOMAIN node')
    BY <2>1, DeleteHolds
  <2>4. Bag(node', DOMAIN node') = [Bag(node, live) EXCEPT ![e] = @ - 1]
    BY <2>2, <2>3 DEF Takenout
  <2>5. (Bag(node, live)[e] > 0) = TRUE
    BY <1>6, <2>2
  <2>6. ret' = <<Bag(node, live)[e] > 0>>
    BY <2>1, <2>5
  <2>7. QED
    BY <1>4, <1>5, <1>7, <2>4, <2>5, <2>6 DEF Abstract!Erase
<1>9. CASE UNCHANGED <<root, node, count>> /\ ret' = <<FALSE>> /\ \A n \in live : EntryOf(n) # <<p, v>>
  <2>1. \A n \in live : EntryAt(node, n) # e
    BY <1>2, <1>5, <1>9 DEF Views
  <2>2. (Bag(node, live)[e] > 0) = FALSE
    BY <1>6, <2>1
  <2>3. ret' = <<Bag(node, live)[e] > 0>>
    BY <1>9, <2>2
  <2>4. Bag(node', DOMAIN node') = Bag(node, live)
    BY <1>9 DEF live
  <2>5. QED
    BY <1>4, <1>5, <1>7, <2>2, <2>3, <2>4 DEF Abstract!Erase
<1>10. CASE UNCHANGED <<root, node, count>> /\ ret' = <<FALSE>> /\ tied
  BY <1>10
<1>11. QED
  BY <1>8, <1>9, <1>10, EraseIs

LEMMA Matches == Inv => CallsMatch
BY MatchInsert, MatchBegin, MatchAdvance, MatchEraseAdvance, MatchDestroy, MatchErase DEF CallsMatch

\* The tree is the bag of its entries: insert, erase, the iterator and the destructor do to it what KDBag's
\* operations do; an iteration goes once through every entry, whichever erase_advance deletes on the way.
THEOREM Refinement == Spec => ImplementsBag
<1>1. Init => Abstract!Init
  <2> SUFFICES ASSUME Init PROVE Abstract!Init
    OBVIOUS
  <2>1. Stands /\ Inv
    BY InitHolds, InvStands
  <2>2. live = {} /\ pending = <<>> /\ current = <<>> /\ ret = <<>>
    BY DEF Init, live
  <2>3. Left(node, pending) = {}
    BY <2>1, <2>2, StandsEmpty
  <2>4. Bag(node, {}) = Empty
    BY BagOfNone
  <2>5. QED
    BY <2>1, <2>2, <2>3, <2>4 DEF Stands, live, Empty, Abstract!Init, Abstract!Empty, Abstract!Entry
<1>2. QED
  BY <1>1, Invariance, Matches, PTL DEF ImplementsBag, Spec

-----------------------------------------------------------------------------
(***************************************************************************)
(* Image.hh: pixel formats, filling, copying, turning and growing images   *)
(* of any size, and views of them.                                         *)
(***************************************************************************)
CONSTANT Nan
VARIABLE input
Img == INSTANCE Images

\* --- pixel formats ----------------------------------------------------------

Channel == 0..255
Colours == [1..4 -> Channel]

LEMMA ColourIs == \A r, g, b, a \in Channel : <<r, g, b, a>> \in Colours
BY DEF Colours

LEMMA SameColour == \A c, d \in Colours : c[1] = d[1] /\ c[2] = d[2] /\ c[3] = d[3] /\ c[4] = d[4] => c = d
BY DEF Colours

\* A channel that was cut to five or six bits is widened to what it was cut from.
LEMMA Widened ==
  ASSUME NEW v \in Channel
  PROVE  /\ Img!Widen5(v) \in Channel /\ Img!Widen5(Img!Widen5(v)) = Img!Widen5(v)
         /\ Img!Widen6(v) \in Channel /\ Img!Widen6(Img!Widen6(v)) = Img!Widen6(v)
BY DEF Channel, Img!Widen5, Img!Widen6

LEMMA Bright ==
  ASSUME NEW c \in Colours
  PROVE  /\ Img!Brightness(c) \in Channel
         /\ \A v, a \in Channel : Img!Brightness(Img!gray(v, a)) = v
<1>1. c[1] \in Channel /\ c[2] \in Channel /\ c[3] \in Channel
  BY DEF Colours
<1>2. \A r, g, b \in Channel : (r + g + b) \div 3 \in Channel
  BY DEF Channel
<1>3. \A v \in Channel : (v + v + v) \div 3 = v
  BY DEF Channel
<1>4. QED
  BY <1>1, <1>2, <1>3 DEF Img!Brightness, Img!gray

LEMMA Grays == /\ Img!White = <<255, 255, 255, 255>> /\ Img!Black = <<0, 0, 0, 255>> /\ Img!Transparent = <<0, 0, 0, 0>>
               /\ {Img!White, Img!Black, Img!Transparent} \subseteq Colours
BY DEF Img!White, Img!Black, Img!Transparent, Img!gray, Colours, Channel

\* The packed formats: bits of a byte, from the top.
Bytes8 == 0..255

LEMMA Powers == 2 ^ 0 = 1 /\ 2 ^ 1 = 2 /\ 2 ^ 2 = 4 /\ 2 ^ 3 = 8 /\ 2 ^ 4 = 16 /\ 2 ^ 5 = 32 /\ 2 ^ 6 = 64 /\ 2 ^ 7 = 128
OBVIOUS

\* A byte is the sum of its bits, the top one being bit 0.
Sum8(b) == 128 * b[0] + 64 * b[1] + 32 * b[2] + 16 * b[3] + 8 * b[4] + 4 * b[5] + 2 * b[6] + b[7]

LEMMA ByteIsSum ==
  ASSUME NEW byte \in Bytes8
  PROVE  \E b \in [0..7 -> 0..1] : byte = Sum8(b)
<1> DEFINE b == [i \in 0..7 |-> IF i = 0 THEN byte \div 128 ELSE IF i = 1 THEN (byte \div 64) % 2 ELSE IF i = 2 THEN (byte \div 32) % 2
                   ELSE IF i = 3 THEN (byte \div 16) % 2 ELSE IF i = 4 THEN (byte \div 8) % 2 ELSE IF i = 5 THEN (byte \div 4) % 2
                   ELSE IF i = 6 THEN (byte \div 2) % 2 ELSE byte % 2]
<1>1. byte \in Int /\ 0 <= byte /\ byte <= 255
  BY DEF Bytes8
<1>2. /\ b[0] = byte \div 128
      /\ b[1] = (byte \div 64) % 2
      /\ b[2] = (byte \div 32) % 2
      /\ b[3] = (byte \div 16) % 2
      /\ b[4] = (byte \div 8) % 2
      /\ b[5] = (byte \div 4) % 2
      /\ b[6] = (byte \div 2) % 2
      /\ b[7] = byte % 2
  OBVIOUS
<1>3. b \in [0..7 -> 0..1]
  BY <1>1
<1> HIDE DEF b
<1>4. byte = Sum8(b)
  BY <1>1, <1>2 DEF Sum8
<1>5. QED
  BY <1>3, <1>4

LEMMA SumBit ==
  ASSUME NEW b \in [0..7 -> 0..1]
  PROVE  Sum8(b) \in Bytes8 /\ \A i \in 0..7 : Img!Field(Sum8(b), i, 1) = b[i]
<1>1. b[0] \in 0..1 /\ b[1] \in 0..1 /\ b[2] \in 0..1 /\ b[3] \in 0..1 /\ b[4] \in 0..1 /\ b[5] \in 0..1 /\ b[6] \in 0..1 /\ b[7] \in 0..1
  OBVIOUS
<1>2. Sum8(b) \in Bytes8
  BY <1>1 DEF Sum8, Bytes8
<1>3. Img!Field(Sum8(b), 0, 1) = b[0]
  BY <1>1, Powers DEF Sum8, Img!Field
<1>4. Img!Field(Sum8(b), 1, 1) = b[1]
  BY <1>1, Powers DEF Sum8, Img!Field
<1>5. Img!Field(Sum8(b), 2, 1) = b[2]
  BY <1>1, Powers DEF Sum8, Img!Field
<1>6. Img!Field(Sum8(b), 3, 1) = b[3]
  BY <1>1, Powers DEF Sum8, Img!Field
<1>7. Img!Field(Sum8(b), 4, 1) = b[4]
  BY <1>1, Powers DEF Sum8, Img!Field
<1>8. Img!Field(Sum8(b), 5, 1) = b[5]
  BY <1>1, Powers DEF Sum8, Img!Field
<1>9. Img!Field(Sum8(b), 6, 1) = b[6]
  BY <1>1, Powers DEF Sum8, Img!Field
<1>10. Img!Field(Sum8(b), 7, 1) = b[7]
  BY <1>1, Powers DEF Sum8, Img!Field
<1>11. QED
  BY <1>2, <1>3, <1>4, <1>5, <1>6, <1>7, <1>8, <1>9, <1>10

LEMMA OneBit ==
  ASSUME NEW byte \in Bytes8, NEW spot \in 0..7, NEW v \in 0..1
  PROVE  /\ Img!Field(byte, spot, 1) \in 0..1
         /\ Img!WithField(byte, spot, 1, v) \in Bytes8
         /\ Img!Field(Img!WithField(byte, spot, 1, v), spot, 1) = v
         /\ \A i \in 0..7 : i # spot => Img!Field(Img!WithField(byte, spot, 1, v), i, 1) = Img!Field(byte, i, 1)
<1>1. PICK b \in [0..7 -> 0..1] : byte = Sum8(b)
  BY ByteIsSum
<1>2. \A i \in 0..7 : Img!Field(byte, i, 1) = b[i] /\ b[i] \in 0..1
  BY <1>1, SumBit
<1> DEFINE c == [b EXCEPT ![spot] = v]
<1>3. c \in [0..7 -> 0..1] /\ \A i \in 0..7 : c[i] = IF i = spot THEN v ELSE b[i]
  BY <1>2
<1> HIDE DEF c
<1>4. Img!WithField(byte, spot, 1, v) = byte + (v - b[spot]) * 2 ^ (7 - spot)
  BY <1>2 DEF Img!WithField
<1>5. byte + (v - b[spot]) * 2 ^ (7 - spot) = Sum8(c)
  <2>1. CASE spot = 0
    BY <1>1, <1>2, <1>3, <2>1, Powers DEF Sum8
  <2>2. CASE spot = 1
    BY <1>1, <1>2, <1>3, <2>2, Powers DEF Sum8
  <2>3. CASE spot = 2
    BY <1>1, <1>2, <1>3, <2>3, Powers DEF Sum8
  <2>4. CASE spot = 3
    BY <1>1, <1>2, <1>3, <2>4, Powers DEF Sum8
  <2>5. CASE spot = 4
    BY <1>1, <1>2, <1>3, <2>5, Powers DEF Sum8
  <2>6. CASE spot = 5
    BY <1>1, <1>2, <1>3, <2>6, Powers DEF Sum8
  <2>7. CASE spot = 6
    BY <1>1, <1>2, <1>3, <2>7, Powers DEF Sum8
  <2>8. CASE spot = 7
    BY <1>1, <1>2, <1>3, <2>8, Powers DEF Sum8
  <2>9. QED
    BY <2>1, <2>2, <2>3, <2>4, <2>5, <2>6, <2>7, <2>8
<1>6. QED
  BY <1>2, <1>3, <1>4, <1>5, SumBit

LEMMA TwoBits ==
  ASSUME NEW byte \in Bytes8, NEW spot \in {0, 2, 4, 6}, NEW v \in 0..3
  PROVE  /\ Img!Field(byte, spot, 2) \in 0..3
         /\ Img!WithField(byte, spot, 2, v) \in Bytes8
         /\ \A i \in {0, 2, 4, 6} : Img!Field(Img!WithField(byte, spot, 2, v), i, 2) = IF i = spot THEN v ELSE Img!Field(byte, i, 2)
<1>1. CASE spot = 0
  BY <1>1, Powers, SMTT(30) DEF Bytes8, Img!Field, Img!WithField
<1>2. CASE spot = 2
  BY <1>2, Powers, SMTT(30) DEF Bytes8, Img!Field, Img!WithField
<1>3. CASE spot = 4
  BY <1>3, Powers, SMTT(30) DEF Bytes8, Img!Field, Img!WithField
<1>4. CASE spot = 6
  BY <1>4, Powers, SMTT(30) DEF Bytes8, Img!Field, Img!WithField
<1>5. QED
  BY <1>1, <1>2, <1>3, <1>4

\* A row of packed pixels: n pixels to a byte, each of n bits.
LEMMA Place ==
  ASSUME NEW n \in Nat \ {0}, NEW m \in Nat, NEW x \in 0..(n * m - 1)
  PROVE  x \div n + 1 \in 1..m /\ x % n \in 0..(n - 1) /\ x = n * (x \div n) + (x % n)
<1>1. x \div n \in Int /\ x % n \in 0..(n - 1) /\ x = n * (x \div n) + (x % n)
  OBVIOUS
<1> DEFINE q == x \div n
<1>2. q \in Int /\ n * q <= x /\ x < n * (q + 1)
  BY <1>1
<1> HIDE DEF q
<1>3. ~(q < 0)
  <2>1. q < 0 => n * (q + 1) <= 0
    BY <1>2
  <2>2. QED
    BY <1>2, <2>1
<1>4. ~(q >= m)
  <2>1. q >= m => n * q >= n * m
    BY <1>2
  <2>2. QED
    BY <1>2, <2>1
<1>5. QED
  BY <1>1, <1>2, <1>3, <1>4 DEF q

LEMMA SamePlace ==
  ASSUME NEW n \in Nat \ {0}, NEW m \in Nat, NEW x \in 0..(n * m - 1), NEW y \in 0..(n * m - 1),
         x \div n = y \div n, x % n = y % n
  PROVE  x = y
<1>1. /\ x = n * (x \div n) + (x % n)
      /\ y = n * (y \div n) + (y % n)
  BY Place
<1>2. QED
  BY <1>1

LEMMA OtherBit ==
  ASSUME NEW byte \in Bytes8, NEW spot \in 0..7, NEW v \in 0..1, NEW i \in 0..7, i # spot
  PROVE  Img!Field(Img!WithField(byte, spot, 1, v), i, 1) = Img!Field(byte, i, 1)
BY OneBit

(* A pixel of a monochrome row reads as what was stored there, and the pixels that share its byte, or *)
(* the row, read as before (Image.hh, read and write of G1 and GA11).                                 *)
THEOREM PackedG1 ==
  ASSUME NEW row \in Seq(Bytes8), NEW x \in 0..(8 * Len(row) - 1), NEW c \in Colours
  PROVE  \A y \in 0..(8 * Len(row) - 1) :
           Img!read_G1(Img!write_G1(row, x, c), y) =
             IF y = x THEN IF Img!Brightness(c) >= 128 THEN Img!White ELSE Img!Black ELSE Img!read_G1(row, y)
<1> SUFFICES ASSUME NEW y \in 0..(8 * Len(row) - 1)
             PROVE  Img!read_G1(Img!write_G1(row, x, c), y) =
                      IF y = x THEN IF Img!Brightness(c) >= 128 THEN Img!White ELSE Img!Black ELSE Img!read_G1(row, y)
  OBVIOUS
<1> DEFINE i == x \div 8 + 1
           j == y \div 8 + 1
           xa == x % 8
           ya == y % 8
           v == IF Img!Brightness(c) >= 128 THEN 0 ELSE 1
           w == Img!WithField(row[i], xa, 1, v)
           out == Img!write_G1(row, x, c)
<1>1. i \in 1..Len(row) /\ xa \in 0..7 /\ j \in 1..Len(row) /\ ya \in 0..7
  <2>1. Len(row) \in Nat /\ 8 \in Nat \ {0}
    OBVIOUS
  <2>2. /\ x \div 8 + 1 \in 1..Len(row) /\ x % 8 \in 0..(8 - 1)
        /\ y \div 8 + 1 \in 1..Len(row) /\ y % 8 \in 0..(8 - 1)
    BY <2>1, Place
  <2>3. QED
    BY <2>2
<1>2. i = j /\ xa = ya <=> x = y
  <2>1. Len(row) \in Nat /\ 8 \in Nat \ {0}
    OBVIOUS
  <2>2. x \div 8 = y \div 8 /\ x % 8 = y % 8 => x = y
    BY <2>1, SamePlace
  <2>3. QED
    BY <2>2
<1>3. row[i] \in Bytes8 /\ row[j] \in Bytes8 /\ v \in 0..1
  BY <1>1
<1>4. out = [row EXCEPT ![i] = w]
  BY DEF Img!write_G1
<1>5. out[j] = IF j = i THEN w ELSE row[j]
  BY <1>1, <1>4
<1> HIDE DEF i, j, v, w, out, xa, ya
<1>6. Img!Field(out[j], ya, 1) = IF y = x THEN v ELSE Img!Field(row[j], ya, 1)
  <2>1. Img!Field(w, xa, 1) = v
    BY <1>1, <1>3, OneBit DEF w
  <2>2. ya # xa => Img!Field(w, ya, 1) = Img!Field(row[i], ya, 1)
    BY <1>1, <1>3, OtherBit DEF w
  <2>3. QED
    BY <1>1, <1>2, <1>5, <2>1, <2>2
<1>7. Img!read_G1(out, y) = (IF Img!Field(out[j], ya, 1) = 1 THEN Img!Black ELSE Img!White)
      /\ Img!read_G1(row, y) = (IF Img!Field(row[j], ya, 1) = 1 THEN Img!Black ELSE Img!White)
  BY DEF Img!read_G1, j, ya
<1>8. QED
  BY <1>6, <1>7 DEF out, v

(* The same of the row of two bits to a pixel, where a colour with an alpha below 128 is stored as    *)
(* transparent.                                                                                       *)
THEOREM PackedGA11 ==
  ASSUME NEW row \in Seq(Bytes8), NEW x \in 0..(4 * Len(row) - 1), NEW c \in Colours
  PROVE  \A y \in 0..(4 * Len(row) - 1) :
           Img!read_GA11(Img!write_GA11(row, x, c), y) =
             IF y = x THEN IF c[4] < 128 THEN Img!Transparent ELSE IF Img!Brightness(c) >= 128 THEN Img!White ELSE Img!Black
             ELSE Img!read_GA11(row, y)
<1> DEFINE of == IF c[4] < 128 THEN Img!Transparent ELSE IF Img!Brightness(c) >= 128 THEN Img!White ELSE Img!Black
<1> SUFFICES ASSUME NEW y \in 0..(4 * Len(row) - 1)
             PROVE  Img!read_GA11(Img!write_GA11(row, x, c), y) = IF y = x THEN of ELSE Img!read_GA11(row, y)
  OBVIOUS
<1> DEFINE i == x \div 4 + 1
           j == y \div 4 + 1
           xa == x % 4
           ya == y % 4
           v == IF c[4] < 128 THEN 0 ELSE IF Img!Brightness(c) >= 128 THEN 1 ELSE 3
           w == Img!WithField(row[i], 2 * xa, 2, v)
           out == Img!write_GA11(row, x, c)
           pixel == <<Img!Transparent, Img!White, Img!Transparent, Img!Black>>
<1>1. i \in 1..Len(row) /\ xa \in 0..3 /\ j \in 1..Len(row) /\ ya \in 0..3
  <2>1. Len(row) \in Nat /\ 4 \in Nat \ {0}
    OBVIOUS
  <2>2. /\ x \div 4 + 1 \in 1..Len(row) /\ x % 4 \in 0..(4 - 1)
        /\ y \div 4 + 1 \in 1..Len(row) /\ y % 4 \in 0..(4 - 1)
    BY <2>1, Place
  <2>3. QED
    BY <2>2
<1>2. i = j /\ xa = ya <=> x = y
  <2>1. Len(row) \in Nat /\ 4 \in Nat \ {0}
    OBVIOUS
  <2>2. x \div 4 = y \div 4 /\ x % 4 = y % 4 => x = y
    BY <2>1, SamePlace
  <2>3. QED
    BY <2>2
<1>3. row[i] \in Bytes8 /\ row[j] \in Bytes8 /\ v \in 0..3
  BY <1>1
<1>4. out = [row EXCEPT ![i] = w]
  BY DEF Img!write_GA11
<1>5. out[j] = IF j = i THEN w ELSE row[j]
  <2> HIDE DEF w, i, j, v, xa, ya
  <2>1. QED
    BY <1>1, <1>4
<1>a. pixel[v + 1] = of
  OBVIOUS
<1> HIDE DEF i, j, v, w, out, xa, ya, of
<1>9. 2 * xa \in {0, 2, 4, 6} /\ 2 * ya \in {0, 2, 4, 6} /\ (2 * xa = 2 * ya <=> xa = ya)
  BY <1>1
<1>6. Img!Field(out[j], 2 * ya, 2) = IF y = x THEN v ELSE Img!Field(row[j], 2 * ya, 2)
  BY <1>2, <1>3, <1>5, <1>9, TwoBits DEF w
<1>7. Img!read_GA11(out, y) = pixel[Img!Field(out[j], 2 * ya, 2) + 1]
      /\ Img!read_GA11(row, y) = pixel[Img!Field(row[j], 2 * ya, 2) + 1]
  BY DEF Img!read_GA11, j, ya
<1>8. QED
  BY <1>6, <1>7, <1>a DEF out

LEMMA StoredIs ==
  ASSUME NEW c \in Colours
  PROVE  /\ Img!Stored("G1", c) = IF Img!Brightness(c) >= 128 THEN Img!White ELSE Img!Black
         /\ Img!Stored("GA11", c) = IF c[4] < 128 THEN Img!Transparent ELSE IF Img!Brightness(c) >= 128 THEN Img!White ELSE Img!Black
         /\ Img!Stored("G8", c) = Img!g8(c)
         /\ Img!Stored("GA88", c) = Img!ga88(c)
         /\ Img!Stored("XRGB1555", c) = Img!xrgb1555(c)
         /\ Img!Stored("ARGB1555", c) = Img!argb1555(c)
         /\ Img!Stored("RGB565", c) = Img!rgb565(c)
         /\ Img!Stored("RGB888", c) = Img!rgb888(c)
         /\ Img!Stored("RGBA8888", c) = c
<1>1. <<0>> \in Seq(Bytes8) /\ Len(<<0>>) = 1
  BY DEF Bytes8
<1>2. 0 \in 0..(8 * Len(<<0>>) - 1) /\ 0 \in 0..(4 * Len(<<0>>) - 1)
  BY <1>1
<1>3. Img!read_G1(Img!write_G1(<<0>>, 0, c), 0) = IF Img!Brightness(c) >= 128 THEN Img!White ELSE Img!Black
  BY <1>1, <1>2, PackedG1
<1>4. Img!read_GA11(Img!write_GA11(<<0>>, 0, c), 0)
        = IF c[4] < 128 THEN Img!Transparent ELSE IF Img!Brightness(c) >= 128 THEN Img!White ELSE Img!Black
  <2> DEFINE row == <<0>>
             of == IF c[4] < 128 THEN Img!Transparent ELSE IF Img!Brightness(c) >= 128 THEN Img!White ELSE Img!Black
  <2>1. row \in Seq(Bytes8) /\ 0 \in 0..(4 * Len(row) - 1)
    BY <1>1, <1>2
  <2> HIDE DEF row
  <2>2. \A y \in 0..(4 * Len(row) - 1) :
          Img!read_GA11(Img!write_GA11(row, 0, c), y) = IF y = 0 THEN of ELSE Img!read_GA11(row, y)
    BY <2>1, PackedGA11
  <2>3. Img!read_GA11(Img!write_GA11(row, 0, c), 0) = of
    BY <2>1, <2>2
  <2>4. QED
    BY <2>3 DEF row
<1>5. QED
  BY <1>3, <1>4 DEF Img!Stored, Img!rgba8888

(* What a format stores is a colour that it stores again unchanged, opaque when the format has no     *)
(* alpha (Image.hh, the pixel formats).                                                               *)
THEOREM PixelsKept ==
  ASSUME NEW f \in Img!Formats, NEW c \in Colours
  PROVE  /\ Img!Stored(f, c) \in Colours
         /\ Img!Stored(f, Img!Stored(f, c)) = Img!Stored(f, c)
         /\ ~Img!HAS_ALPHA(f) => Img!Stored(f, c)[4] = 255
<1> DEFINE Stores(g) == /\ Img!Stored(g, c) \in Colours
                        /\ Img!Stored(g, Img!Stored(g, c)) = Img!Stored(g, c)
                        /\ g \notin {"GA11", "GA88", "ARGB1555", "RGBA8888"} => Img!Stored(g, c)[4] = 255
<1>1. c[1] \in Channel /\ c[2] \in Channel /\ c[3] \in Channel /\ c[4] \in Channel /\ 255 \in Channel /\ 0 \in Channel
  BY DEF Colours, Channel
<1>2. Img!Brightness(c) \in Channel /\ Img!Brightness(Img!White) = 255 /\ Img!Brightness(Img!Black) = 0
  BY <1>1, Bright DEF Img!White, Img!Black
<1>3. Stores("G1")
  BY <1>2, StoredIs, Grays
<1>4. Stores("GA11")
  BY <1>1, <1>2, StoredIs, Grays DEF Channel
<1>5. Stores("G8")
  <2>1. Img!g8(c) \in Colours /\ Img!g8(c) = Img!gray(Img!Brightness(c), 255) /\ Img!g8(c)[4] = 255
    BY <1>1, <1>2, ColourIs DEF Img!g8, Img!gray
  <2>2. Img!Brightness(Img!g8(c)) = Img!Brightness(c)
    BY <1>1, <1>2, <2>1, Bright
  <2>3. Img!g8(Img!g8(c)) = Img!g8(c)
    BY <2>1, <2>2 DEF Img!g8
  <2>4. QED
    BY <2>1, <2>3, StoredIs
<1>6. Stores("GA88")
  <2>1. Img!ga88(c) \in Colours /\ Img!ga88(c) = Img!gray(Img!Brightness(c), c[4]) /\ Img!ga88(c)[4] = c[4]
    BY <1>1, <1>2, ColourIs DEF Img!ga88, Img!gray
  <2>2. Img!Brightness(Img!ga88(c)) = Img!Brightness(c)
    BY <1>1, <1>2, <2>1, Bright
  <2>3. Img!ga88(Img!ga88(c)) = Img!ga88(c)
    BY <2>1, <2>2 DEF Img!ga88
  <2>4. QED
    BY <2>1, <2>3, StoredIs
<1>7. Stores("XRGB1555")
  <2>1. Img!xrgb1555(c) \in Colours
    <3>1. Img!Widen5(c[1]) \in Channel /\ Img!Widen5(c[2]) \in Channel /\ Img!Widen5(c[3]) \in Channel
      BY <1>1, Widened
    <3>2. QED
      BY <1>1, <3>1, ColourIs DEF Img!xrgb1555
  <2>2. Img!xrgb1555(Img!xrgb1555(c)) = Img!xrgb1555(c) /\ Img!xrgb1555(c)[4] = 255
    BY <1>1, Widened DEF Img!xrgb1555
  <2>3. QED
    BY <2>1, <2>2, StoredIs
<1>8. Stores("ARGB1555")
  <2>1. Img!argb1555(c) \in Colours
    <3>1. Img!Widen5(c[1]) \in Channel /\ Img!Widen5(c[2]) \in Channel /\ Img!Widen5(c[3]) \in Channel
      BY <1>1, Widened
    <3>2. (IF c[4] >= 128 THEN 255 ELSE 0) \in Channel
      BY <1>1
    <3>3. QED
      BY <3>1, <3>2, ColourIs DEF Img!argb1555, Img!xrgb1555, Img!replace_alpha
  <2>2. Img!argb1555(Img!argb1555(c)) = Img!argb1555(c)
    BY <1>1, Widened DEF Img!argb1555, Img!xrgb1555, Img!replace_alpha
  <2>3. QED
    BY <2>1, <2>2, StoredIs
<1>9. Stores("RGB565")
  <2>1. Img!rgb565(c) \in Colours
    <3>1. Img!Widen5(c[1]) \in Channel /\ Img!Widen6(c[2]) \in Channel /\ Img!Widen5(c[3]) \in Channel
      BY <1>1, Widened
    <3>2. QED
      BY <1>1, <3>1, ColourIs DEF Img!rgb565
  <2>2. Img!rgb565(Img!rgb565(c)) = Img!rgb565(c) /\ Img!rgb565(c)[4] = 255
    BY <1>1, Widened DEF Img!rgb565
  <2>3. QED
    BY <2>1, <2>2, StoredIs
<1>10. Stores("RGB888")
  <2>1. Img!rgb888(c) \in Colours
    BY <1>1, ColourIs DEF Img!rgb888, Img!replace_alpha
  <2>2. Img!rgb888(Img!rgb888(c)) = Img!rgb888(c) /\ Img!rgb888(c)[4] = 255
    BY DEF Img!rgb888, Img!replace_alpha
  <2>3. QED
    BY <2>1, <2>2, StoredIs
<1>11. Stores("RGBA8888")
  <2>1. Img!Stored("RGBA8888", c) = c
    BY StoredIs
  <2>2. QED
    BY <2>1
<1> HIDE DEF Stores
<1>12. Stores(f)
  BY <1>3, <1>4, <1>5, <1>6, <1>7, <1>8, <1>9, <1>10, <1>11 DEF Img!Formats
<1>13. QED
  BY <1>12 DEF Stores, Img!HAS_ALPHA

\* --- images -------------------------------------------------------------------

\* A window into colours as its format stores them: every pixel has a place of its own.
Memory == UNION {[D -> Colours] : D \in SUBSET Nat}
Window(img) ==
  /\ img \in [format : Img!Formats, w : Int, h : Int, stride : Nat, off : Nat, mem : Memory, bad : BOOLEAN]
  /\ img.w <= img.stride
  /\ \A p \in Img!Points(img) : Img!Address(img, p) \in DOMAIN img.mem
  /\ \A a \in DOMAIN img.mem : Img!Stored(img.format, img.mem[a]) = img.mem[a]

LEMMA PointIs ==
  ASSUME NEW img, Window(img), NEW p \in Img!Points(img)
  PROVE  /\ p = <<p[1], p[2]>> /\ p[1] \in 0..(img.w - 1) /\ p[2] \in 0..(img.h - 1)
         /\ p \in Int \X Int /\ Img!check(img, p)
         /\ Img!Address(img, p) \in DOMAIN img.mem
         /\ Img!read(img, p) = img.mem[Img!Address(img, p)] /\ Img!read(img, p) \in Colours
         /\ Img!Stored(img.format, Img!read(img, p)) = Img!read(img, p)
<1>1. p = <<p[1], p[2]>> /\ p[1] \in 0..(img.w - 1) /\ p[2] \in 0..(img.h - 1)
  BY DEF Img!Points
<1>2. img.mem \in Memory /\ img.w \in Int /\ img.h \in Int
  BY DEF Window
<1>3. \A a \in DOMAIN img.mem : img.mem[a] \in Colours
  BY <1>2 DEF Memory
<1>4. Img!check(img, p)
  BY <1>1 DEF Img!check
<1>5. Img!Address(img, p) \in DOMAIN img.mem
  BY DEF Window
<1>6. Img!read(img, p) = img.mem[Img!Address(img, p)]
  BY <1>4 DEF Img!read
<1>7. p \in Int \X Int
  BY <1>1, <1>2
<1>8. QED
  BY <1>1, <1>3, <1>4, <1>5, <1>6, <1>7 DEF Window

LEMMA InImage ==
  ASSUME NEW img, Window(img), NEW p \in Int \X Int
  PROVE  Img!check(img, p) <=> p \in Img!Points(img)
BY DEF Window, Img!check, Img!Points

LEMMA OwnPlace ==
  ASSUME NEW img, Window(img), NEW p \in Img!Points(img), NEW q \in Img!Points(img), Img!Address(img, p) = Img!Address(img, q)
  PROVE  p = q
<1>1. /\ p = <<p[1], p[2]>> /\ p[1] \in 0..(img.w - 1) /\ p[2] \in 0..(img.h - 1)
      /\ q = <<q[1], q[2]>> /\ q[1] \in 0..(img.w - 1) /\ q[2] \in 0..(img.h - 1)
  BY PointIs
<1>2. img.w \in Int /\ img.h \in Int /\ img.stride \in Nat /\ img.off \in Nat /\ img.w <= img.stride
  BY DEF Window
<1> DEFINE s == img.stride
           a == p[2]
           b == q[2]
<1>3. a * s + p[1] = b * s + q[1] /\ a \in Nat /\ b \in Nat /\ s \in Nat /\ p[1] \in 0..(s - 1) /\ q[1] \in 0..(s - 1)
  <2>1. img.off + a * s + p[1] = img.off + b * s + q[1]
    BY DEF Img!Address
  <2>2. a \in Nat /\ b \in Nat /\ s \in Nat /\ p[1] \in 0..(s - 1) /\ q[1] \in 0..(s - 1)
    BY <1>1, <1>2
  <2>3. a * s \in Int /\ b * s \in Int
    BY <2>2
  <2> HIDE DEF a, b, s
  <2>4. QED
    BY <1>2, <2>1, <2>2, <2>3
<1> HIDE DEF a, b, s
<1>4. ~(a < b)
  <2>1. a < b => (b - a) * s >= s /\ b * s - a * s = (b - a) * s
    BY <1>3
  <2>2. QED
    BY <1>3, <2>1
<1>5. ~(b < a)
  <2>1. b < a => (a - b) * s >= s /\ a * s - b * s = (a - b) * s
    BY <1>3
  <2>2. QED
    BY <1>3, <2>1
<1>6. a = b /\ p[1] = q[1]
  BY <1>3, <1>4, <1>5
<1>7. QED
  BY <1>1, <1>6 DEF a, b

\* out is img with the points of S painted, each as new says, and nothing else changed, in the window or beside it.
Repainted(img, out, S, new) ==
  /\ Window(out)
  /\ out.format = img.format /\ out.w = img.w /\ out.h = img.h /\ out.stride = img.stride /\ out.off = img.off
  /\ DOMAIN out.mem = DOMAIN img.mem
  /\ out.bad <=> img.bad \/ ~(S \subseteq Img!Points(img))
  /\ \A p \in Img!Points(img) : Img!read(out, p) = IF p \in S THEN Img!Stored(img.format, new[p]) ELSE Img!read(img, p)
  /\ \A a \in DOMAIN img.mem : (\A p \in S \cap Img!Points(img) : Img!Address(img, p) # a) => out.mem[a] = img.mem[a]

LEMMA PaintedIs ==
  ASSUME NEW img, Window(img), NEW S \in SUBSET (Int \X Int), NEW new \in [S -> Colours]
  PROVE  Repainted(img, Img!Painted(img, new), S, new)
<1> DEFINE inside == {p \in DOMAIN new : Img!check(img, p)}
           spot == [a \in {Img!Address(img, p) : p \in inside} |-> CHOOSE p \in inside : Img!Address(img, p) = a]
           m == [a \in DOMAIN img.mem |-> IF a \in DOMAIN spot THEN Img!Stored(img.format, new[spot[a]]) ELSE img.mem[a]]
           b == img.bad \/ inside # DOMAIN new
           out == Img!Painted(img, new)
<1>1. out = [img EXCEPT !.mem = m, !.bad = b]
  BY DEF Img!Painted
<1>2. DOMAIN new = S /\ inside = S \cap Img!Points(img)
  BY InImage
<1>3. \A p \in inside : Img!Address(img, p) \in DOMAIN spot /\ spot[Img!Address(img, p)] = p
  BY <1>2, OwnPlace
<1>4. \A a \in DOMAIN spot : spot[a] \in inside /\ Img!Address(img, spot[a]) = a
  OBVIOUS
<1> HIDE DEF spot, inside
<1>5. /\ img.format \in Img!Formats /\ img.mem \in [DOMAIN img.mem -> Colours] /\ DOMAIN img.mem \in SUBSET Nat
      /\ img.bad \in BOOLEAN
  BY DEF Window, Memory
<1>6. \A a \in DOMAIN img.mem : /\ m[a] \in Colours
                                /\ Img!Stored(img.format, m[a]) = m[a]
                                /\ a \in DOMAIN spot => m[a] = Img!Stored(img.format, new[spot[a]])
                                /\ a \notin DOMAIN spot => m[a] = img.mem[a]
  BY <1>2, <1>4, <1>5, PixelsKept DEF Window
<1>7. m \in Memory /\ DOMAIN m = DOMAIN img.mem
  <2>1. m \in [DOMAIN img.mem -> Colours]
    BY <1>6
  <2>2. QED
    BY <1>5, <2>1 DEF Memory
<1> HIDE DEF m
<1>8. /\ out.format = img.format /\ out.w = img.w /\ out.h = img.h /\ out.stride = img.stride /\ out.off = img.off
      /\ out.mem = m /\ out.bad = b
      /\ out \in [format : Img!Formats, w : Int, h : Int, stride : Nat, off : Nat, mem : Memory, bad : BOOLEAN]
  BY <1>1, <1>5, <1>7 DEF Window
<1> HIDE DEF out
<1>9. Img!Points(out) = Img!Points(img) /\ \A p : Img!Address(out, p) = Img!Address(img, p) /\ (Img!check(out, p) <=> Img!check(img, p))
  BY <1>8 DEF Img!Points, Img!Address, Img!check
<1>10. Window(out)
  BY <1>6, <1>7, <1>8, <1>9 DEF Window
<1>11. \A p \in Img!Points(img) : Img!read(out, p) = IF p \in S THEN Img!Stored(img.format, new[p]) ELSE Img!read(img, p)
  <2> SUFFICES ASSUME NEW p \in Img!Points(img)
               PROVE  Img!read(out, p) = IF p \in S THEN Img!Stored(img.format, new[p]) ELSE Img!read(img, p)
    OBVIOUS
  <2>1. Img!Address(img, p) \in DOMAIN img.mem /\ Img!read(img, p) = img.mem[Img!Address(img, p)]
    BY PointIs
  <2>2. Img!read(out, p) = m[Img!Address(img, p)]
    BY <1>8, <1>9, <1>10, PointIs
  <2>3. CASE p \in S
    BY <1>2, <1>3, <1>6, <2>1, <2>2, <2>3
  <2>4. CASE p \notin S
    <3>1. Img!Address(img, p) \notin DOMAIN spot
      <4> SUFFICES ASSUME Img!Address(img, p) \in DOMAIN spot PROVE FALSE
        OBVIOUS
      <4>1. spot[Img!Address(img, p)] \in S \cap Img!Points(img) /\ Img!Address(img, spot[Img!Address(img, p)]) = Img!Address(img, p)
        BY <1>2, <1>4
      <4>2. QED
        BY <2>4, <4>1, OwnPlace
    <3>2. QED
      BY <1>6, <2>1, <2>2, <2>4, <3>1
  <2>5. QED
    BY <2>3, <2>4
<1>12. \A a \in DOMAIN img.mem : (\A p \in S \cap Img!Points(img) : Img!Address(img, p) # a) => out.mem[a] = img.mem[a]
  BY <1>2, <1>4, <1>6, <1>8
<1>13. out.bad <=> img.bad \/ ~(S \subseteq Img!Points(img))
  BY <1>2, <1>8
<1>14. QED
  BY <1>7, <1>8, <1>10, <1>11, <1>12, <1>13 DEF Repainted, out

\* --- rectangles -----------------------------------------------------------------

LEMMA RectIs ==
  ASSUME NEW x \in Int, NEW y \in Int, NEW w \in Int, NEW h \in Int
  PROVE  /\ Img!Rect(x, y, w, h) \in SUBSET (Int \X Int)
         /\ \A p \in Int \X Int : p \in Img!Rect(x, y, w, h) <=> x <= p[1] /\ p[1] < x + w /\ y <= p[2] /\ p[2] < y + h
BY DEF Img!Rect

LEMMA InRect ==
  ASSUME NEW x \in Int, NEW y \in Int, NEW w \in Int, NEW h \in Int, NEW p, p \in Int \X Int
  PROVE  p \in Img!Rect(x, y, w, h) <=> x <= p[1] /\ p[1] < x + w /\ y <= p[2] /\ p[2] < y + h
BY RectIs

LEMMA PointsAre ==
  ASSUME NEW img, img.w \in Int, img.h \in Int
  PROVE  /\ Img!Points(img) \in SUBSET (Int \X Int)
         /\ \A p \in Int \X Int : p \in Img!Points(img) <=> 0 <= p[1] /\ p[1] < img.w /\ 0 <= p[2] /\ p[2] < img.h
BY DEF Img!Points

\* What is left of a rectangle is what lies in the image, wherever it is and whichever sizes it has.
LEMMA ClampIs ==
  ASSUME NEW img, Window(img), NEW x \in Int, NEW y \in Int, NEW w \in Int, NEW h \in Int
  PROVE  Img!clamp_rect(img, x, y, w, h) = Img!Points(img) \cap Img!Rect(x, y, w, h)
<1> DEFINE left == IF x < 0 THEN 0 ELSE x
           top == IF y < 0 THEN 0 ELSE y
           wd == IF x < 0 THEN w + x ELSE w
           ht == IF y < 0 THEN h + y ELSE h
           wid == IF left + wd > img.w THEN img.w - left ELSE wd
           hgt == IF top + ht > img.h THEN img.h - top ELSE ht
<1>1. img.w \in Int /\ img.h \in Int
  BY DEF Window
<1>2. Img!clamp_rect(img, x, y, w, h) = Img!Rect(left, top, wid, hgt)
  BY DEF Img!clamp_rect
<1>3. left \in Int /\ top \in Int /\ wid \in Int /\ hgt \in Int
  BY <1>1
<1>4. \A i \in Int : left <= i /\ i < left + wid <=> 0 <= i /\ i < img.w /\ x <= i /\ i < x + w
  BY <1>1
<1>5. \A i \in Int : top <= i /\ i < top + hgt <=> 0 <= i /\ i < img.h /\ y <= i /\ i < y + h
  BY <1>1
<1> HIDE DEF left, top, wid, hgt
<1>6. \A p \in Int \X Int : p \in Img!Rect(left, top, wid, hgt) <=> p \in Img!Points(img) /\ p \in Img!Rect(x, y, w, h)
  <2> SUFFICES ASSUME NEW p \in Int \X Int
               PROVE  p \in Img!Rect(left, top, wid, hgt) <=> p \in Img!Points(img) /\ p \in Img!Rect(x, y, w, h)
    OBVIOUS
  <2>1. p[1] \in Int /\ p[2] \in Int
    OBVIOUS
  <2>2. p \in Img!Rect(left, top, wid, hgt) <=> left <= p[1] /\ p[1] < left + wid /\ top <= p[2] /\ p[2] < top + hgt
    BY <1>3, RectIs
  <2>3. p \in Img!Rect(x, y, w, h) <=> x <= p[1] /\ p[1] < x + w /\ y <= p[2] /\ p[2] < y + h
    BY RectIs
  <2>4. p \in Img!Points(img) <=> 0 <= p[1] /\ p[1] < img.w /\ 0 <= p[2] /\ p[2] < img.h
    BY <1>1, PointsAre
  <2>5. QED
    BY <1>4, <1>5, <2>1, <2>2, <2>3, <2>4
<1>7. Img!Rect(left, top, wid, hgt) \in SUBSET (Int \X Int) /\ Img!Points(img) \in SUBSET (Int \X Int)
  BY <1>1, <1>3, RectIs, PointsAre
<1>8. QED
  BY <1>2, <1>6, <1>7

LEMMA Weighed ==
  ASSUME NEW a \in Channel, NEW n \in Channel, NEW o \in Channel
  PROVE  (a * n + (255 - a) * o) \div 255 \in Channel
<1> DEFINE b == 255 - a
           s == a * n
           t == b * o
<1>1. a \in Nat /\ b \in Nat /\ a + b = 255
  BY DEF Channel
<1>2. s \in Int /\ 0 <= s /\ s <= 255 * a /\ t \in Int /\ 0 <= t /\ t <= 255 * b
  <2>1. \A i \in Nat, j \in 0..255 : i * j \in Int /\ 0 <= i * j /\ i * j <= 255 * i
    OBVIOUS
  <2>2. QED
    BY <1>1, <2>1 DEF Channel
<1> HIDE DEF b, s, t
<1>3. 0 <= s + t /\ s + t <= 255 * 255
  BY <1>1, <1>2
<1>4. (s + t) \div 255 \in 0..255
  BY <1>2, <1>3
<1>5. QED
  BY <1>4 DEF b, s, t, Channel

LEMMA BlendIs ==
  ASSUME NEW c \in Colours, NEW d \in Colours
  PROVE  Img!alpha_blend(c, d) \in Colours
<1>1. \A i \in 1..4 : c[i] \in Channel /\ d[i] \in Channel
  BY DEF Colours
<1>2. \A i \in 1..4 : (d[4] * d[i] + (255 - d[4]) * c[i]) \div 255 \in Channel
  BY <1>1, Weighed
<1>3. QED
  BY <1>1, <1>2, ColourIs DEF Img!alpha_blend

\* What filling a rectangle makes of a pixel in it.
Coloured(img, p, color, blend) == IF blend THEN Img!alpha_blend(Img!read(img, p), color) ELSE color
Fill(img, x, y, w, h, color, blend) ==
  IF blend THEN Img!blend_rect(img, x, y, w, h, color) ELSE Img!write_rect(img, x, y, w, h, color)

LEMMA FillIs ==
  ASSUME NEW img, Window(img), NEW x \in Int, NEW y \in Int, NEW w \in Int, NEW h \in Int,
         NEW color \in Colours, color[4] # 0, NEW blend \in BOOLEAN,
         NEW hit, hit = Img!Points(img) \cap Img!Rect(x, y, w, h),
         NEW new, new = [p \in hit |-> Coloured(img, p, color, blend)]
  PROVE  Repainted(img, Fill(img, x, y, w, h, color, blend), hit, new)
<1>1. hit = Img!clamp_rect(img, x, y, w, h) /\ hit \in SUBSET (Int \X Int)
  BY ClampIs, RectIs
<1>2. new \in [hit -> Colours]
  <2>1. \A p \in hit : Coloured(img, p, color, blend) \in Colours
    BY PointIs, BlendIs DEF Coloured
  <2>2. QED
    BY <2>1
<1>3. Fill(img, x, y, w, h, color, blend) = Img!Painted(img, new)
  <2>1. CASE blend
    <3>1. new = [p \in hit |-> Img!alpha_blend(Img!read(img, p), color)]
      BY <2>1 DEF Coloured
    <3>2. QED
      BY <1>1, <2>1, <3>1 DEF Fill, Img!blend_rect
  <2>2. CASE ~blend
    <3>1. new = [p \in hit |-> color]
      BY <2>2 DEF Coloured
    <3>2. QED
      BY <1>1, <2>2, <3>1 DEF Fill, Img!write_rect
  <2>3. QED
    BY <2>1, <2>2
<1>4. QED
  BY <1>1, <1>2, <1>3, PaintedIs

\* --- views ------------------------------------------------------------------------

\* v is the window of img at x and y, w by h: its pixels are at the same places.
Viewed(img, x, y, w, h, v) ==
  /\ Window(v)
  /\ x >= 0 /\ y >= 0 /\ x + w <= img.w /\ y + h <= img.h
  /\ v.w = w /\ v.h = h /\ v.format = img.format /\ v.mem = img.mem /\ v.stride = img.stride /\ v.bad = img.bad
  /\ \A p \in Img!Points(v) : /\ <<p[1] + x, p[2] + y>> \in Img!Points(img)
                             /\ Img!Address(v, p) = Img!Address(img, <<p[1] + x, p[2] + y>>)

LEMMA ViewIs ==
  ASSUME NEW img, Window(img), NEW x \in Int, NEW y \in Int, NEW w \in Int, NEW h \in Int, Img!view(img, x, y, w, h).ok
  PROVE  Viewed(img, x, y, w, h, Img!view(img, x, y, w, h).val)
<1> DEFINE v == Img!view(img, x, y, w, h).val
<1>1. /\ img.format \in Img!Formats /\ img.mem \in Memory /\ img.bad \in BOOLEAN
      /\ img.w \in Int /\ img.h \in Int /\ img.stride \in Nat /\ img.off \in Nat
  BY DEF Window
<1>2. x >= 0 /\ y >= 0 /\ x + w <= img.w /\ y + h <= img.h
  BY <1>1 DEF Img!view
<1>3. v = [img EXCEPT !.w = w, !.h = h, !.off = Img!Address(img, <<x, y>>)]
  BY <1>1, <1>2 DEF Img!view
<1> HIDE DEF v
<1>4. /\ v.w = w /\ v.h = h /\ v.off = Img!Address(img, <<x, y>>)
      /\ v.format = img.format /\ v.mem = img.mem /\ v.stride = img.stride /\ v.bad = img.bad
  BY <1>3 DEF Window
<1>5. \A p \in Img!Points(v) : /\ <<p[1] + x, p[2] + y>> \in Img!Points(img)
                             /\ Img!Address(v, p) = Img!Address(img, <<p[1] + x, p[2] + y>>)
  <2> SUFFICES ASSUME NEW p \in Img!Points(v)
               PROVE  /\ <<p[1] + x, p[2] + y>> \in Img!Points(img)
                      /\ Img!Address(v, p) = Img!Address(img, <<p[1] + x, p[2] + y>>)
    OBVIOUS
  <2>1. p[1] \in 0..(w - 1) /\ p[2] \in 0..(h - 1)
    BY <1>4 DEF Img!Points
  <2>2. p[1] + x \in 0..(img.w - 1) /\ p[2] + y \in 0..(img.h - 1)
    BY <1>1, <1>2, <2>1
  <2>3. Img!Address(v, p) = (img.off + y * img.stride + x) + p[2] * img.stride + p[1]
    BY <1>4 DEF Img!Address
  <2>4. Img!Address(img, <<p[1] + x, p[2] + y>>) = img.off + (p[2] + y) * img.stride + (p[1] + x)
    BY DEF Img!Address
  <2>5. y * img.stride \in Int /\ p[2] * img.stride \in Int /\ (p[2] + y) * img.stride = p[2] * img.stride + y * img.stride
    BY <1>1, <2>1
  <2>6. QED
    BY <1>1, <2>1, <2>2, <2>3, <2>4, <2>5 DEF Img!Points
<1>6. Window(v)
  <2>1. Img!Address(img, <<x, y>>) \in Nat
    <3>1. img.off \in Nat /\ img.stride \in Nat /\ x \in Nat /\ y \in Nat
      BY <1>1, <1>2
    <3>2. y * img.stride \in Nat
      BY <3>1
    <3>3. QED
      BY <3>1, <3>2 DEF Img!Address
  <2>2. v \in [format : Img!Formats, w : Int, h : Int, stride : Nat, off : Nat, mem : Memory, bad : BOOLEAN]
    BY <1>3, <2>1 DEF Window
  <2>3. v.w <= v.stride
    BY <1>1, <1>2, <1>4 DEF Window
  <2>4. QED
    BY <1>4, <1>5, <2>2, <2>3 DEF Window
<1>7. Viewed(img, x, y, w, h, v)
  BY <1>2, <1>4, <1>5, <1>6 DEF Viewed
<1>8. QED
  BY <1>7 DEF v

\* The image that shares its pixels with the view, after out was made of the view.
Behind(img, out) == [img EXCEPT !.mem = out.mem]

(* Filling a rectangle of a view changes the pixels of the image that lie in both, each to what the   *)
(* format stores of the colour or of the blend, and no pixel outside; nothing is missed, wherever the *)
(* rectangle is (Image.hh, view, clamp_rect, write_rect and blend_rect).                              *)
THEOREM FillsAreClipped ==
  ASSUME NEW img, Window(img), NEW vx \in Int, NEW vy \in Int, NEW vw \in Int, NEW vh \in Int, Img!view(img, vx, vy, vw, vh).ok,
         NEW v, v = Img!view(img, vx, vy, vw, vh).val,
         NEW x \in Int, NEW y \in Int, NEW w \in Int, NEW h \in Int,
         NEW color \in Colours, color[4] # 0, NEW blend \in BOOLEAN,
         NEW out, out = Fill(v, x, y, w, h, color, blend)
  PROVE  /\ out.bad = img.bad
         /\ \A p \in Img!Points(img) :
              LET q == <<p[1] - vx, p[2] - vy>>
              IN  Img!read(Behind(img, out), p) =
                    IF q \in Img!Points(v) /\ q \in Img!Rect(x, y, w, h)
                    THEN Img!Stored(img.format, Coloured(v, q, color, blend)) ELSE Img!read(img, p)
<1> DEFINE hit == Img!Points(v) \cap Img!Rect(x, y, w, h)
           new == [q \in hit |-> Coloured(v, q, color, blend)]
<1>1. /\ Window(v)
      /\ vx >= 0 /\ vy >= 0 /\ vx + vw <= img.w /\ vy + vh <= img.h
      /\ v.w = vw /\ v.h = vh /\ v.format = img.format /\ v.mem = img.mem /\ v.stride = img.stride /\ v.bad = img.bad
      /\ \A q \in Img!Points(v) : /\ <<q[1] + vx, q[2] + vy>> \in Img!Points(img)
                                 /\ Img!Address(v, q) = Img!Address(img, <<q[1] + vx, q[2] + vy>>)
  <2>1. Viewed(img, vx, vy, vw, vh, v)
    BY ViewIs
  <2>2. QED
    BY <2>1 DEF Viewed
<1>2. Repainted(v, out, hit, new)
  <2> DEFINE h0 == hit
             n0 == [q \in h0 |-> Coloured(v, q, color, blend)]
  <2>1. h0 = Img!Points(v) \cap Img!Rect(x, y, w, h)
    OBVIOUS
  <2> HIDE DEF h0, hit
  <2>2. n0 = [q \in h0 |-> Coloured(v, q, color, blend)]
    OBVIOUS
  <2> HIDE DEF n0
  <2>3. Repainted(v, Fill(v, x, y, w, h, color, blend), h0, n0)
    BY <1>1, <2>1, <2>2, FillIs
  <2>4. QED
    BY <2>3 DEF h0, n0
<1> HIDE DEF hit, new
<1>3. out.bad = img.bad
  <2>1. hit \subseteq Img!Points(v)
    BY DEF hit
  <2>2. out.bad \in BOOLEAN /\ v.bad \in BOOLEAN /\ (out.bad <=> v.bad)
    BY <1>1, <1>2, <2>1 DEF Repainted, Window
  <2>3. QED
    BY <1>1, <2>2
<1>4. /\ Behind(img, out).mem = out.mem /\ DOMAIN out.mem = DOMAIN img.mem
      /\ \A p : Img!Address(Behind(img, out), p) = Img!Address(img, p) /\ (Img!check(Behind(img, out), p) <=> Img!check(img, p))
  BY <1>1, <1>2 DEF Behind, Window, Repainted, Img!Address, Img!check
<1> SUFFICES ASSUME NEW p \in Img!Points(img)
             PROVE  Img!read(Behind(img, out), p) =
                      IF <<p[1] - vx, p[2] - vy>> \in Img!Points(v) /\ <<p[1] - vx, p[2] - vy>> \in Img!Rect(x, y, w, h)
                      THEN Img!Stored(img.format, Coloured(v, <<p[1] - vx, p[2] - vy>>, color, blend)) ELSE Img!read(img, p)
  BY <1>3
<1> DEFINE q == <<p[1] - vx, p[2] - vy>>
<1>5. Img!read(Behind(img, out), p) = out.mem[Img!Address(img, p)] /\ Img!read(img, p) = img.mem[Img!Address(img, p)]
      /\ Img!Address(img, p) \in DOMAIN img.mem /\ p = <<p[1], p[2]>> /\ p[1] \in Int /\ p[2] \in Int
  BY <1>4, PointIs DEF Img!read
<1>6. <<q[1] + vx, q[2] + vy>> = p
  BY <1>5
<1> HIDE DEF q
<1>7. CASE q \in hit
  <2>1. q \in Img!Points(v) /\ q \in Img!Rect(x, y, w, h)
    BY <1>7 DEF hit
  <2>2. Img!Address(out, q) = Img!Address(img, p)
    <3>1. Img!Address(out, q) = Img!Address(v, q)
      BY <1>2 DEF Repainted, Img!Address
    <3>2. QED
      BY <1>1, <1>6, <2>1, <3>1
  <2>3. Img!read(out, q) = out.mem[Img!Address(img, p)]
    <3>1. q \in Img!Points(out) /\ Window(out)
      BY <1>2, <2>1 DEF Repainted, Img!Points
    <3>2. QED
      BY <2>2, <3>1, PointIs
  <2>4. Img!read(out, q) = Img!Stored(img.format, Coloured(v, q, color, blend))
    BY <1>1, <1>2, <1>7, <2>1 DEF Repainted, new
  <2>5. QED
    BY <1>5, <2>1, <2>3, <2>4 DEF q
<1>8. CASE q \notin hit
  <2>1. ~(q \in Img!Points(v) /\ q \in Img!Rect(x, y, w, h))
    BY <1>8 DEF hit
  <2>2. \A r \in hit \cap Img!Points(v) : Img!Address(v, r) # Img!Address(img, p)
    <3> SUFFICES ASSUME NEW r \in Img!Points(v), r \in hit, Img!Address(v, r) = Img!Address(img, p) PROVE FALSE
      OBVIOUS
    <3> DEFINE there == <<r[1] + vx, r[2] + vy>>
    <3>a. there \in Img!Points(img) /\ Img!Address(img, there) = Img!Address(img, p)
      BY <1>1
    <3> HIDE DEF there
    <3>b. there = p
      BY <3>a, OwnPlace
    <3>1. <<r[1] + vx, r[2] + vy>> = p
      BY <3>b DEF there
    <3>2. r = <<r[1], r[2]>> /\ r[1] \in Int /\ r[2] \in Int
      BY <1>1, PointIs
    <3>3. r = q
      BY <3>1, <3>2 DEF q
    <3>4. QED
      BY <1>8, <3>3
  <2>3. out.mem[Img!Address(img, p)] = img.mem[Img!Address(img, p)]
    BY <1>1, <1>2, <1>5, <2>2 DEF Repainted
  <2>4. QED
    BY <1>5, <2>1, <2>3 DEF q
<1>9. QED
  BY <1>7, <1>8

\* --- copies ---------------------------------------------------------------------

\* What the copy_from functions hand to the copy: an alpha or a colour, where they have one.
CopyFns == [kind : {"copy", "blend"}] \cup [kind : {"alpha"}, arg : Channel]
             \cup [kind : {"source_color_mask", "dest_color_mask"}, arg : Colours]

LEMMA PerPixelIs ==
  ASSUME NEW fn \in CopyFns, NEW c \in Colours, NEW d \in Colours
  PROVE  Img!PerPixel(fn, c, d) \in Colours
<1>1. CASE fn.kind = "copy"
  BY <1>1 DEF Img!PerPixel
<1>2. CASE fn.kind = "alpha"
  <2>1. fn.arg \in Channel
    BY <1>2 DEF CopyFns
  <2>2. Img!replace_alpha(d, fn.arg) \in Colours
    <3>1. d[1] \in Channel /\ d[2] \in Channel /\ d[3] \in Channel
      BY DEF Colours
    <3>2. QED
      BY <2>1, <3>1, ColourIs DEF Img!replace_alpha
  <2>3. Img!alpha_blend(c, Img!replace_alpha(d, fn.arg)) \in Colours
    BY <2>2, BlendIs
  <2>4. QED
    BY <1>2, <2>3 DEF Img!PerPixel
<1>3. CASE fn.kind = "blend"
  <2>1. Img!alpha_blend(c, d) \in Colours
    BY BlendIs
  <2>2. QED
    BY <1>3, <2>1 DEF Img!PerPixel
<1>4. CASE fn.kind = "source_color_mask"
  BY <1>4 DEF Img!PerPixel
<1>5. CASE fn.kind = "dest_color_mask"
  BY <1>5 DEF Img!PerPixel
<1>6. fn.kind \in {"copy", "blend", "alpha", "source_color_mask", "dest_color_mask"}
  BY DEF CopyFns
<1>7. QED
  BY <1>1, <1>2, <1>3, <1>4, <1>5, <1>6

Areas == [x : Int, y : Int, w : Int, h : Int]
CopyMode(d, s, resize_mode) == IF s.w = d.w /\ s.h = d.h THEN "NONE" ELSE resize_mode
From(d, s, mode, p) ==
  <<s.x + Img!SourceAt(mode, p[1] - d.x, d.w, s.w), s.y + Img!SourceAt(mode, p[2] - d.y, d.h, s.h)>>
Taken(img, source, d, s, mode) ==
  {p \in Img!Rect(d.x, d.y, d.w, d.h) : Img!check(img, p) /\ Img!check(source, From(d, s, mode, p))}

LEMMA CopyIs ==
  ASSUME NEW img, Window(img), NEW source, Window(source), NEW d \in Areas, NEW s \in Areas, NEW resize_mode,
         NEW mode, mode = CopyMode(d, s, resize_mode), mode # "LINEAR", NEW fn \in CopyFns,
         NEW dest, dest = Taken(img, source, d, s, mode),
         NEW new, new = [p \in dest |-> Img!PerPixel(fn, Img!read(img, p), Img!read(source, From(d, s, mode, p)))]
  PROVE  /\ Repainted(img, Img!copy_from_with_custom(img, source, d, s, resize_mode, fn), dest, new)
         /\ \A p \in Img!Points(img) : p \in dest <=> p \in Img!Rect(d.x, d.y, d.w, d.h) /\ Img!check(source, From(d, s, mode, p))
         /\ dest \subseteq Img!Points(img)
         /\ \A p \in dest : From(d, s, mode, p) \in Img!Points(source)
<1>1. Img!Rect(d.x, d.y, d.w, d.h) \in SUBSET (Int \X Int)
  BY RectIs DEF Areas
<1>2. dest \in SUBSET (Int \X Int) /\ dest \subseteq Img!Points(img)
  BY <1>1, InImage DEF Taken
<1>3. \A p \in Img!Points(img) : Img!check(img, p)
  BY PointIs
<1>4. \A p \in dest : From(d, s, mode, p) \in Img!Points(source)
  BY DEF Taken, From, Img!check, Img!Points
<1>5. new \in [dest -> Colours]
  <2>1. \A p \in dest : Img!read(img, p) \in Colours /\ Img!read(source, From(d, s, mode, p)) \in Colours
    BY <1>2, <1>4, PointIs
  <2>2. QED
    BY <2>1, PerPixelIs
<1>6. Img!copy_from_with_custom(img, source, d, s, resize_mode, fn) = Img!Painted(img, new)
  <2> DEFINE m == IF s.w = d.w /\ s.h = d.h THEN "NONE" ELSE resize_mode
             Source(p) == <<s.x + Img!SourceAt(m, p[1] - d.x, d.w, s.w), s.y + Img!SourceAt(m, p[2] - d.y, d.h, s.h)>>
             Shown(p) == IF m = "LINEAR" THEN Img!Interpolated(source, p[1] - d.x, p[2] - d.y, d, s) ELSE Img!read(source, Source(p))
             set == {p \in Img!Rect(d.x, d.y, d.w, d.h) : m = "LINEAR" \/ (Img!check(img, p) /\ Img!check(source, Source(p)))}
             fun == [p \in set |-> Img!PerPixel(fn, Img!read(img, p), Shown(p))]
  <2>1. Img!copy_from_with_custom(img, source, d, s, resize_mode, fn) = Img!Painted(img, fun)
    BY DEF Img!copy_from_with_custom
  <2>2. m = mode
    BY DEF CopyMode
  <2>3. \A p : Source(p) = From(d, s, mode, p)
    BY <2>2 DEF From
  <2>4. \A p : Shown(p) = Img!read(source, From(d, s, mode, p))
    BY <2>2, <2>3
  <2> HIDE DEF m, Source, Shown
  <2>5. set = dest
    <3>1. \A p : m = "LINEAR" \/ (Img!check(img, p) /\ Img!check(source, Source(p)))
                 <=> Img!check(img, p) /\ Img!check(source, From(d, s, mode, p))
      BY <2>2, <2>3
    <3>2. QED
      BY <3>1 DEF Taken
  <2> HIDE DEF set
  <2>6. fun = new
    BY <2>4, <2>5
  <2>7. QED
    BY <2>1, <2>6
<1>7. QED
  BY <1>1, <1>2, <1>3, <1>4, <1>5, <1>6, PaintedIs DEF Taken

(* A copy never misses the image it is made into, however the two rectangles lie, and whatever the    *)
(* code makes of a NaN: it writes exactly the pixels of the rectangle for which the source has one,   *)
(* each as the format stores what the function makes of both; only the linear mode, which asks for    *)
(* neither, is left out (Image.hh, copy_from_with_custom and the copies built on it).                 *)
THEOREM CopiesStayInside ==
  ASSUME NEW img, Window(img), NEW source, Window(source), NEW d \in Areas, NEW s \in Areas, NEW resize_mode,
         NEW mode, mode = CopyMode(d, s, resize_mode), mode # "LINEAR", NEW fn \in CopyFns,
         NEW out, out = Img!copy_from_with_custom(img, source, d, s, resize_mode, fn)
  PROVE  /\ Window(out) /\ out.bad = img.bad
         /\ \A p \in Img!Points(img) :
              Img!read(out, p) =
                IF p \in Img!Rect(d.x, d.y, d.w, d.h) /\ From(d, s, mode, p) \in Img!Points(source)
                THEN Img!Stored(img.format, Img!PerPixel(fn, Img!read(img, p), Img!read(source, From(d, s, mode, p))))
                ELSE Img!read(img, p)
<1> DEFINE dest == Taken(img, source, d, s, mode)
           new == [p \in dest |-> Img!PerPixel(fn, Img!read(img, p), Img!read(source, From(d, s, mode, p)))]
<1>1. dest = Taken(img, source, d, s, mode)
  OBVIOUS
<1> HIDE DEF dest
<1>2. new = [p \in dest |-> Img!PerPixel(fn, Img!read(img, p), Img!read(source, From(d, s, mode, p)))]
  OBVIOUS
<1> HIDE DEF new
<1>3. /\ Repainted(img, out, dest, new)
      /\ \A p \in Img!Points(img) : p \in dest <=> p \in Img!Rect(d.x, d.y, d.w, d.h) /\ Img!check(source, From(d, s, mode, p))
      /\ dest \subseteq Img!Points(img)
      /\ \A p \in dest : From(d, s, mode, p) \in Img!Points(source)
  BY <1>1, <1>2, CopyIs
<1>4. \A p \in Img!Points(img) : p \in dest <=> p \in Img!Rect(d.x, d.y, d.w, d.h) /\ From(d, s, mode, p) \in Img!Points(source)
  <2>1. \A q \in Img!Points(source) : Img!check(source, q)
    BY PointIs
  <2>2. QED
    BY <1>3, <2>1
<1>5. Window(out) /\ out.bad = img.bad
  BY <1>3 DEF Repainted, Window
<1>6. QED
  BY <1>2, <1>3, <1>4, <1>5 DEF Repainted

\* The pixel of the source for the pixel p, where nothing is stretched.
SourceOf(d, s, p) == <<s.x + (p[1] - d.x), s.y + (p[2] - d.y)>>

\* out is img with the rectangle s of the source copied to d, pixel by pixel, where both images have one.
PlainlyCopied(img, source, d, s, out) ==
  /\ Window(out) /\ out.bad = img.bad /\ out.w = img.w /\ out.h = img.h /\ out.format = img.format
  /\ Img!Points(out) = Img!Points(img)
  /\ \A p \in Img!Points(img) :
       Img!read(out, p) =
         IF p \in Img!Rect(d.x, d.y, d.w, d.h) /\ SourceOf(d, s, p) \in Img!Points(source)
         THEN Img!Stored(img.format, Img!read(source, SourceOf(d, s, p))) ELSE Img!read(img, p)

LEMMA PlainCopy ==
  ASSUME NEW img, Window(img), NEW source, Window(source), NEW d \in Areas, NEW s \in Areas
  PROVE  PlainlyCopied(img, source, d, s, Img!copy_from(img, source, d, s, "NONE"))
<1> DEFINE out == Img!copy_from(img, source, d, s, "NONE")
           fn == [kind |-> "copy"]
           dest == Taken(img, source, d, s, "NONE")
           new == [p \in dest |-> Img!PerPixel(fn, Img!read(img, p), Img!read(source, From(d, s, "NONE", p)))]
<1>1. fn \in CopyFns /\ CopyMode(d, s, "NONE") = "NONE" /\ out = Img!copy_from_with_custom(img, source, d, s, "NONE", fn)
  BY DEF CopyFns, CopyMode, Img!copy_from
<1>2. \A p : From(d, s, "NONE", p) = SourceOf(d, s, p)
  BY DEF From, Img!SourceAt, SourceOf
<1>3. \A c, e : Img!PerPixel(fn, c, e) = e
  BY DEF Img!PerPixel
<1>4. dest = Taken(img, source, d, s, "NONE")
  OBVIOUS
<1> HIDE DEF fn, dest, out
<1>5. new = [p \in dest |-> Img!PerPixel(fn, Img!read(img, p), Img!read(source, From(d, s, "NONE", p)))]
  OBVIOUS
<1> HIDE DEF new
<1>6. Repainted(img, out, dest, new)
  BY <1>1, <1>4, <1>5, CopyIs
<1>7. out.w = img.w /\ out.h = img.h /\ out.format = img.format /\ Img!Points(out) = Img!Points(img)
  BY <1>6 DEF Repainted, Img!Points
<1>8. /\ Window(out) /\ out.bad = img.bad
      /\ \A p \in Img!Points(img) :
           Img!read(out, p) =
             IF p \in Img!Rect(d.x, d.y, d.w, d.h) /\ From(d, s, "NONE", p) \in Img!Points(source)
             THEN Img!Stored(img.format, Img!PerPixel(fn, Img!read(img, p), Img!read(source, From(d, s, "NONE", p))))
             ELSE Img!read(img, p)
  BY <1>1, CopiesStayInside
<1>9. QED
  BY <1>2, <1>3, <1>7, <1>8 DEF PlainlyCopied, out

(* Copying from a view, pixel by pixel, shows what copying from its rectangle shows, cut to the size  *)
(* of the view: the edges of a view cut the copy like the edges of an image (Image.hh, view and       *)
(* copy_from).                                                                                        *)
THEOREM ViewsAreCopiedAlike ==
  ASSUME NEW img, Window(img), NEW source, Window(source), NEW s \in Areas,
         Img!view(source, s.x, s.y, s.w, s.h).ok, NEW v, v = Img!view(source, s.x, s.y, s.w, s.h).val,
         NEW d \in Areas,
         NEW kept \in Areas, kept.x = d.x, kept.y = d.y,
         kept.w = IF s.w < d.w THEN s.w ELSE d.w, kept.h = IF s.h < d.h THEN s.h ELSE d.h
  PROVE  Img!equal(Img!copy_from(img, v, d, Img!Area(0, 0, s.w, s.h), "NONE"), Img!copy_from(img, source, kept, s, "NONE"))
<1> DEFINE o == Img!Area(0, 0, s.w, s.h)
           a == Img!copy_from(img, v, d, o, "NONE")
           b == Img!copy_from(img, source, kept, s, "NONE")
<1>0. d \in [x : Int, y : Int, w : Int, h : Int] /\ s \in [x : Int, y : Int, w : Int, h : Int]
  BY DEF Areas
<1>1. o \in Areas /\ o.x = 0 /\ o.y = 0
  BY DEF Img!Area, Areas
<1>2. /\ Window(v) /\ v.format = source.format /\ v.w = s.w /\ v.h = s.h /\ v.mem = source.mem
      /\ s.x >= 0 /\ s.y >= 0 /\ s.x + s.w <= source.w /\ s.y + s.h <= source.h
      /\ \A p \in Img!Points(v) : /\ <<p[1] + s.x, p[2] + s.y>> \in Img!Points(source)
                                 /\ Img!Address(v, p) = Img!Address(source, <<p[1] + s.x, p[2] + s.y>>)
  <2>1. s.x \in Int /\ s.y \in Int /\ s.w \in Int /\ s.h \in Int
    BY <1>0
  <2>2. Viewed(source, s.x, s.y, s.w, s.h, v)
    BY <2>1, ViewIs
  <2>3. QED
    BY <2>2 DEF Viewed
<1> HIDE DEF o
<1>c. PlainlyCopied(img, v, d, o, a)
  BY <1>1, <1>2, PlainCopy
<1>d. PlainlyCopied(img, source, kept, s, b)
  BY PlainCopy
<1> HIDE DEF a, b
<1>3. /\ a.w = img.w /\ a.h = img.h /\ Img!Points(a) = Img!Points(img)
      /\ \A p \in Img!Points(img) :
           Img!read(a, p) =
             IF p \in Img!Rect(d.x, d.y, d.w, d.h) /\ SourceOf(d, o, p) \in Img!Points(v)
             THEN Img!Stored(img.format, Img!read(v, SourceOf(d, o, p))) ELSE Img!read(img, p)
  BY <1>c DEF PlainlyCopied
<1>4. /\ b.w = img.w /\ b.h = img.h
      /\ \A p \in Img!Points(img) :
           Img!read(b, p) =
             IF p \in Img!Rect(kept.x, kept.y, kept.w, kept.h) /\ SourceOf(kept, s, p) \in Img!Points(source)
             THEN Img!Stored(img.format, Img!read(source, SourceOf(kept, s, p))) ELSE Img!read(img, p)
  BY <1>d DEF PlainlyCopied
<1>5. ASSUME NEW p \in Img!Points(img)
      PROVE  /\ p \in Img!Rect(d.x, d.y, d.w, d.h) /\ SourceOf(d, o, p) \in Img!Points(v)
                  <=> p \in Img!Rect(kept.x, kept.y, kept.w, kept.h) /\ SourceOf(kept, s, p) \in Img!Points(source)
             /\ SourceOf(d, o, p) \in Img!Points(v) => Img!read(v, SourceOf(d, o, p)) = Img!read(source, SourceOf(kept, s, p))
  <2> DEFINE i == p[1] - d.x
             j == p[2] - d.y
  <2>1. p \in Int \X Int /\ p[1] \in Int /\ p[2] \in Int /\ i \in Int /\ j \in Int
    BY <1>0, PointIs
  <2>2. SourceOf(d, o, p) = <<i, j>> /\ SourceOf(kept, s, p) = <<s.x + i, s.y + j>>
    BY <1>1, <2>1 DEF SourceOf
  <2>3. p \in Img!Rect(d.x, d.y, d.w, d.h) <=> 0 <= i /\ i < d.w /\ 0 <= j /\ j < d.h
    <3>1. p \in Img!Rect(d.x, d.y, d.w, d.h) <=> d.x <= p[1] /\ p[1] < d.x + d.w /\ d.y <= p[2] /\ p[2] < d.y + d.h
      <4>1. d.x \in Int /\ d.y \in Int /\ d.w \in Int /\ d.h \in Int
        BY <1>0
      <4>2. QED
        BY <4>1, <2>1, InRect
    <3>2. QED
      BY <1>0, <2>1, <3>1
  <2>4. p \in Img!Rect(kept.x, kept.y, kept.w, kept.h)
          <=> 0 <= i /\ i < d.w /\ i < s.w /\ 0 <= j /\ j < d.h /\ j < s.h
    <3>1. kept.w \in Int /\ kept.h \in Int
      BY DEF Areas
    <3>2. p \in Img!Rect(d.x, d.y, kept.w, kept.h) <=> d.x <= p[1] /\ p[1] < d.x + kept.w /\ d.y <= p[2] /\ p[2] < d.y + kept.h
      <4>1. d.x \in Int /\ d.y \in Int
        BY <1>0
      <4>2. QED
        BY <4>1, <2>1, <3>1, InRect
    <3>3. QED
      BY <1>0, <2>1, <3>1, <3>2
  <2> HIDE DEF i, j
  <2>5. <<i, j>> \in Img!Points(v) <=> 0 <= i /\ i < s.w /\ 0 <= j /\ j < s.h
    <3>1. v.w \in Int /\ v.h \in Int /\ <<i, j>> \in Int \X Int
      BY <1>0, <1>2, <2>1
    <3>2. QED
      BY <1>2, <3>1, PointsAre
  <2>6. <<s.x + i, s.y + j>> \in Img!Points(source)
          <=> 0 <= s.x + i /\ s.x + i < source.w /\ 0 <= s.y + j /\ s.y + j < source.h
    <3>1. source.w \in Int /\ source.h \in Int /\ <<s.x + i, s.y + j>> \in Int \X Int
      BY <1>0, <2>1 DEF Window
    <3>2. QED
      BY <3>1, PointsAre
  <2>7. source.w \in Int /\ source.h \in Int
    BY DEF Window
  <2>8. p \in Img!Rect(d.x, d.y, d.w, d.h) /\ <<i, j>> \in Img!Points(v)
          <=> p \in Img!Rect(kept.x, kept.y, kept.w, kept.h) /\ <<s.x + i, s.y + j>> \in Img!Points(source)
    BY <1>0, <1>2, <2>1, <2>3, <2>4, <2>5, <2>6, <2>7
  <2>9. <<i, j>> \in Img!Points(v) => Img!read(v, <<i, j>>) = Img!read(source, <<s.x + i, s.y + j>>)
    <3> SUFFICES ASSUME <<i, j>> \in Img!Points(v) PROVE Img!read(v, <<i, j>>) = Img!read(source, <<s.x + i, s.y + j>>)
      OBVIOUS
    <3>1. <<i + s.x, j + s.y>> \in Img!Points(source) /\ Img!Address(v, <<i, j>>) = Img!Address(source, <<i + s.x, j + s.y>>)
      BY <1>2
    <3>2. <<i + s.x, j + s.y>> = <<s.x + i, s.y + j>>
      BY <1>0, <2>1
    <3>3. /\ Img!read(v, <<i, j>>) = v.mem[Img!Address(v, <<i, j>>)]
          /\ Img!read(source, <<i + s.x, j + s.y>>) = source.mem[Img!Address(source, <<i + s.x, j + s.y>>)]
      BY <1>2, <3>1, PointIs
    <3>4. QED
      BY <1>2, <3>1, <3>2, <3>3
  <2>10. QED
    BY <2>2, <2>8, <2>9
<1>6. \A p \in Img!Points(img) : Img!read(a, p) = Img!read(b, p)
  BY <1>3, <1>4, <1>5
<1>7. QED
  BY <1>3, <1>4, <1>6 DEF a, b, o, Img!equal

\* --- turning, growing, storing ---------------------------------------------------

\* Two images of the same shape that show the same and have the same beside their windows.
Shown(a, b) ==
  /\ a.format = b.format /\ a.w = b.w /\ a.h = b.h /\ a.stride = b.stride /\ a.off = b.off /\ a.bad = b.bad
  /\ DOMAIN a.mem = DOMAIN b.mem
  /\ \A p \in Img!Points(a) : Img!read(a, p) = Img!read(b, p)
  /\ \A i \in DOMAIN a.mem : (\A p \in Img!Points(a) : Img!Address(a, p) # i) => a.mem[i] = b.mem[i]

LEMMA SameImage ==
  ASSUME NEW a, Window(a), NEW b, Window(b), Shown(a, b)
  PROVE  a = b
<1>1. Img!Points(a) = Img!Points(b) /\ \A p : Img!Address(a, p) = Img!Address(b, p)
  BY DEF Shown, Img!Points, Img!Address
<1>2. \A i \in DOMAIN a.mem : a.mem[i] = b.mem[i]
  <2> SUFFICES ASSUME NEW i \in DOMAIN a.mem, NEW p \in Img!Points(a), Img!Address(a, p) = i PROVE a.mem[i] = b.mem[i]
    BY DEF Shown
  <2>1. Img!read(a, p) = a.mem[i] /\ Img!read(b, p) = b.mem[i]
    BY <1>1, PointIs
  <2>2. QED
    BY <2>1 DEF Shown
<1>3. a.mem \in [DOMAIN a.mem -> Colours] /\ b.mem \in [DOMAIN b.mem -> Colours]
  BY DEF Window, Memory
<1>4. a.mem = b.mem
  BY <1>2, <1>3 DEF Shown
<1>5. QED
  BY <1>4 DEF Window, Shown

Mirror(img, across, p) == IF across THEN <<img.w - p[1] - 1, p[2]>> ELSE <<p[1], img.h - p[2] - 1>>
Reversed(img, across) == IF across THEN Img!reverse_horizontal(img) ELSE Img!reverse_vertical(img)

LEMMA MirrorIs ==
  ASSUME NEW img, Window(img), NEW across \in BOOLEAN, NEW p \in Img!Points(img)
  PROVE  Mirror(img, across, p) \in Img!Points(img) /\ Mirror(img, across, Mirror(img, across, p)) = p
<1>1. p = <<p[1], p[2]>> /\ p[1] \in 0..(img.w - 1) /\ p[2] \in 0..(img.h - 1) /\ img.w \in Int /\ img.h \in Int
  BY PointIs DEF Window
<1>2. img.w - p[1] - 1 \in 0..(img.w - 1) /\ img.h - p[2] - 1 \in 0..(img.h - 1)
      /\ img.w - (img.w - p[1] - 1) - 1 = p[1] /\ img.h - (img.h - p[2] - 1) - 1 = p[2]
  BY <1>1
<1>3. QED
  BY <1>1, <1>2 DEF Mirror, Img!Points

LEMMA ReversedIs ==
  ASSUME NEW img, Window(img), NEW across \in BOOLEAN,
         NEW new, new = [p \in Img!Points(img) |-> Img!read(img, Mirror(img, across, p))]
  PROVE  /\ Repainted(img, Reversed(img, across), Img!Points(img), new)
         /\ \A p \in Img!Points(img) : Img!read(Reversed(img, across), p) = Img!read(img, Mirror(img, across, p))
<1>1. Reversed(img, across) = Img!Painted(img, new)
  <2>1. CASE across
    <3>1. new = [p \in Img!Points(img) |-> Img!read(img, <<img.w - p[1] - 1, p[2]>>)]
      BY <2>1 DEF Mirror
    <3>2. QED
      BY <2>1, <3>1 DEF Reversed, Img!reverse_horizontal
  <2>2. CASE ~across
    <3>1. new = [p \in Img!Points(img) |-> Img!read(img, <<p[1], img.h - p[2] - 1>>)]
      BY <2>2 DEF Mirror
    <3>2. QED
      BY <2>2, <3>1 DEF Reversed, Img!reverse_vertical
  <2>3. QED
    BY <2>1, <2>2
<1>2. Img!Points(img) \in SUBSET (Int \X Int)
  BY PointsAre DEF Window
<1>3. \A p \in Img!Points(img) : new[p] \in Colours /\ Img!Stored(img.format, new[p]) = new[p]
  BY MirrorIs, PointIs
<1>4. new \in [Img!Points(img) -> Colours]
  BY <1>3
<1>5. Repainted(img, Reversed(img, across), Img!Points(img), new)
  BY <1>1, <1>2, <1>4, PaintedIs
<1>6. QED
  BY <1>3, <1>5 DEF Repainted

(* Turning an image over twice gives it back, to the pixel and beside the window, for every size, odd *)
(* or even, and for a view (Image.hh, reverse_horizontal and reverse_vertical).                       *)
THEOREM ReversedTwice ==
  ASSUME NEW img, Window(img)
  PROVE  /\ Img!reverse_horizontal(Img!reverse_horizontal(img)) = img
         /\ Img!reverse_vertical(Img!reverse_vertical(img)) = img
<1>1. ASSUME NEW across \in BOOLEAN
      PROVE  Reversed(Reversed(img, across), across) = img
  <2> DEFINE once == Reversed(img, across)
             twice == Reversed(once, across)
             n1 == [p \in Img!Points(img) |-> Img!read(img, Mirror(img, across, p))]
             n2 == [p \in Img!Points(once) |-> Img!read(once, Mirror(once, across, p))]
  <2>1. /\ Repainted(img, once, Img!Points(img), n1)
        /\ \A p \in Img!Points(img) : Img!read(once, p) = Img!read(img, Mirror(img, across, p))
    BY ReversedIs
  <2> HIDE DEF once, n1
  <2>2. Window(once) /\ Img!Points(once) = Img!Points(img) /\ \A p : Mirror(once, across, p) = Mirror(img, across, p)
    BY <2>1 DEF Repainted, Img!Points, Mirror
  <2>3. n2 = [p \in Img!Points(once) |-> Img!read(once, Mirror(once, across, p))]
    OBVIOUS
  <2> HIDE DEF n2
  <2>4. /\ Repainted(once, twice, Img!Points(once), n2)
        /\ \A p \in Img!Points(once) : Img!read(twice, p) = Img!read(once, Mirror(once, across, p))
    BY <2>2, <2>3, ReversedIs
  <2> HIDE DEF twice
  <2>5. \A p \in Img!Points(img) : Img!read(twice, p) = Img!read(img, p)
    BY <2>1, <2>2, <2>4, MirrorIs
  <2>6. \A p : Img!Address(once, p) = Img!Address(img, p)
    BY <2>1 DEF Repainted, Img!Address
  <2>7. \A a \in DOMAIN img.mem : (\A p \in Img!Points(img) : Img!Address(img, p) # a) => twice.mem[a] = img.mem[a]
    BY <2>1, <2>2, <2>4, <2>6 DEF Repainted
  <2>8. /\ Window(twice) /\ DOMAIN twice.mem = DOMAIN img.mem
        /\ twice.format = img.format /\ twice.w = img.w /\ twice.h = img.h /\ twice.stride = img.stride /\ twice.off = img.off
    BY <2>1, <2>4 DEF Repainted
  <2>9. twice.bad = img.bad
    <3>1. twice.bad \in BOOLEAN /\ img.bad \in BOOLEAN /\ (twice.bad <=> img.bad)
      BY <2>1, <2>4, <2>8 DEF Repainted, Window
    <3>2. QED
      BY <3>1
  <2>10. Img!Points(twice) = Img!Points(img) /\ \A p : Img!Address(twice, p) = Img!Address(img, p)
    BY <2>8 DEF Img!Points, Img!Address
  <2>11. twice = img
    <3>1. Shown(twice, img)
      BY <2>5, <2>7, <2>8, <2>9, <2>10 DEF Shown
    <3>2. QED
      BY <2>8, <3>1, SameImage
  <2>12. QED
    BY <2>11 DEF twice, once
<1>2. Reversed(Reversed(img, TRUE), TRUE) = img /\ Reversed(Reversed(img, FALSE), FALSE) = img
  BY <1>1
<1>3. QED
  BY <1>2 DEF Reversed

\* img is an image of its own, filled with one colour.
Plain(f, w, h, c, img) ==
  /\ Window(img)
  /\ img.format = f /\ img.w = w /\ img.h = h /\ img.stride = w /\ img.off = 0 /\ img.bad = FALSE
  /\ \A p \in Img!Points(img) : Img!read(img, p) = Img!Stored(f, c)

LEMMA NewIs ==
  ASSUME NEW f \in Img!Formats, NEW w \in Nat, NEW h \in Nat, NEW c \in Colours
  PROVE  Plain(f, w, h, c, Img!NewImage(f, w, h, c))
<1> DEFINE img == Img!NewImage(f, w, h, c)
           n == w * h
           m == [i \in 0..(n - 1) |-> Img!Stored(f, c)]
<1>1. img = [format |-> f, w |-> w, h |-> h, stride |-> w, off |-> 0, mem |-> m, bad |-> FALSE]
  BY DEF Img!NewImage
<1>2. Img!Stored(f, c) \in Colours /\ Img!Stored(f, Img!Stored(f, c)) = Img!Stored(f, c)
  BY PixelsKept
<1>3. n \in Nat
  OBVIOUS
<1> HIDE DEF n
<1>4. m \in [0..(n - 1) -> Colours] /\ 0..(n - 1) \in SUBSET Nat
  BY <1>2, <1>3
<1>5. m \in Memory
  BY <1>4 DEF Memory
<1>6. \A i \in 0..(n - 1) : m[i] = Img!Stored(f, c)
  OBVIOUS
<1>7. DOMAIN m = 0..(n - 1)
  OBVIOUS
<1> HIDE DEF m, img
<1>8. /\ img.format = f /\ img.w = w /\ img.h = h /\ img.stride = w /\ img.off = 0 /\ img.bad = FALSE /\ img.mem = m
      /\ img \in [format : Img!Formats, w : Int, h : Int, stride : Nat, off : Nat, mem : Memory, bad : BOOLEAN]
  BY <1>1, <1>5
<1>9. ASSUME NEW p \in Img!Points(img)
      PROVE  Img!Address(img, p) \in 0..(n - 1)
  <2>1. p[1] \in 0..(w - 1) /\ p[2] \in 0..(h - 1)
    BY <1>8 DEF Img!Points
  <2>2. Img!Address(img, p) = 0 + p[2] * w + p[1]
    BY <1>8 DEF Img!Address
  <2>3. p[2] * w \in Nat /\ p[2] * w + w <= n
    <3>1. \A j \in Nat : j < h => j * w \in Nat /\ j * w + w = (j + 1) * w /\ (j + 1) * w <= h * w
      OBVIOUS
    <3>2. h * w = n
      BY DEF n
    <3>3. p[2] \in Nat /\ p[2] < h
      BY <2>1
    <3>4. QED
      BY <3>1, <3>2, <3>3
  <2>4. QED
    BY <1>3, <2>1, <2>2, <2>3
<1>10. Window(img)
  BY <1>2, <1>6, <1>7, <1>8, <1>9 DEF Window
<1>11. QED
  BY <1>6, <1>8, <1>9, <1>10, PointIs DEF Plain, img

LEMMA MinIs ==
  ASSUME NEW a \in Int, NEW b \in Int
  PROVE  Img!Min({a, b}) = IF a <= b THEN a ELSE b
<1> DEFINE m == IF a <= b THEN a ELSE b
<1>1. \A x : x \in {a, b} /\ (\A y \in {a, b} : x <= y) <=> x = m
  OBVIOUS
<1> HIDE DEF m
<1>2. Img!Min({a, b}) = m
  BY <1>1 DEF Img!Min
<1>3. QED
  BY <1>2 DEF m

Resized(img, w, h, out) ==
  /\ Window(out) /\ out.w = w /\ out.h = h /\ out.format = img.format /\ (img.bad = FALSE => out.bad = FALSE)
  /\ \A p \in Img!Points(out) :
       Img!read(out, p) = IF p \in Img!Points(img) THEN Img!read(img, p) ELSE Img!Stored(img.format, Img!Transparent)

(* An image of another size shows what both sizes have and is otherwise what the format stores of     *)
(* transparent (Image.hh, resize).                                                                    *)
THEOREM ResizeKeeps ==
  ASSUME NEW img, Window(img), img.w \in Nat, img.h \in Nat, NEW w \in Nat, NEW h \in Nat
  PROVE  Resized(img, w, h, Img!resize(img, w, h))
<1> DEFINE out == Img!resize(img, w, h)
           new == Img!NewImage(img.format, w, h, Img!Transparent)
           wd == Img!Min({img.w, w})
           ht == Img!Min({img.h, h})
           kept == [x |-> 0, y |-> 0, w |-> wd, h |-> ht]
<1>1. CASE w = img.w /\ h = img.h
  <2>1. out = img
    BY <1>1 DEF Img!resize
  <2>2. QED
    BY <1>1, <2>1 DEF Resized
<1>2. CASE ~(w = img.w /\ h = img.h)
  <2>1. out = Img!copy_from(new, img, kept, kept, "NONE")
    BY <1>2 DEF Img!resize
  <2>2. wd = (IF img.w <= w THEN img.w ELSE w) /\ ht = (IF img.h <= h THEN img.h ELSE h)
    BY MinIs
  <2> HIDE DEF wd, ht
  <2>3. wd \in Int /\ ht \in Int /\ kept.x = 0 /\ kept.y = 0 /\ kept.w = wd /\ kept.h = ht /\ kept \in Areas
    BY <2>2 DEF Areas
  <2>4. img.format \in Img!Formats /\ Img!Transparent \in Colours
    BY Grays DEF Window
  <2>5. /\ Window(new) /\ new.w = w /\ new.h = h /\ new.format = img.format /\ new.bad = FALSE
        /\ \A p \in Img!Points(new) : Img!read(new, p) = Img!Stored(img.format, Img!Transparent)
    <3>1. Plain(img.format, w, h, Img!Transparent, new)
      BY <2>4, NewIs
    <3>2. QED
      BY <3>1 DEF Plain
  <2> HIDE DEF new, kept, out
  <2>6. PlainlyCopied(new, img, kept, kept, out)
    BY <2>1, <2>3, <2>5, PlainCopy
  <2>7. ASSUME NEW p \in Img!Points(new)
        PROVE  /\ p \in Img!Rect(kept.x, kept.y, kept.w, kept.h) /\ SourceOf(kept, kept, p) \in Img!Points(img) <=> p \in Img!Points(img)
               /\ SourceOf(kept, kept, p) = p
    <3>1. p = <<p[1], p[2]>> /\ p[1] \in 0..(w - 1) /\ p[2] \in 0..(h - 1) /\ p \in Int \X Int
      BY <2>5, PointIs
    <3>2. SourceOf(kept, kept, p) = p
      BY <2>3, <3>1 DEF SourceOf
    <3>3. p \in Img!Rect(0, 0, wd, ht) <=> p[1] < wd /\ p[2] < ht
      <4>1. p \in Img!Rect(0, 0, wd, ht) <=> 0 <= p[1] /\ p[1] < 0 + wd /\ 0 <= p[2] /\ p[2] < 0 + ht
        BY <2>3, <3>1, InRect
      <4>2. QED
        BY <2>3, <3>1, <4>1
    <3>4. p \in Img!Points(img) <=> p[1] < img.w /\ p[2] < img.h
      <4>1. img.w \in Int /\ img.h \in Int
        OBVIOUS
      <4>2. p \in Img!Points(img) <=> 0 <= p[1] /\ p[1] < img.w /\ 0 <= p[2] /\ p[2] < img.h
        BY <3>1, <4>1, PointsAre
      <4>3. QED
        BY <3>1, <4>2
    <3>5. p[1] < wd /\ p[2] < ht <=> p[1] < img.w /\ p[2] < img.h
      BY <2>2, <3>1
    <3>6. QED
      BY <2>3, <3>2, <3>3, <3>4, <3>5
  <2>8. \A p \in Img!Points(img) : Img!Stored(img.format, Img!read(img, p)) = Img!read(img, p)
    BY PointIs
  <2>9. /\ Window(out) /\ out.bad = FALSE /\ out.w = w /\ out.h = h /\ out.format = img.format
        /\ Img!Points(out) = Img!Points(new)
        /\ \A p \in Img!Points(new) :
             Img!read(out, p) = IF p \in Img!Rect(kept.x, kept.y, kept.w, kept.h) /\ SourceOf(kept, kept, p) \in Img!Points(img)
                                THEN Img!Stored(img.format, Img!read(img, SourceOf(kept, kept, p))) ELSE Img!read(new, p)
    BY <2>5, <2>6 DEF PlainlyCopied
  <2>10. \A p \in Img!Points(new) :
           Img!read(out, p) = IF p \in Img!Points(img) THEN Img!read(img, p) ELSE Img!Stored(img.format, Img!Transparent)
    BY <2>5, <2>7, <2>8, <2>9
  <2>11. Resized(img, w, h, out)
    BY <2>9, <2>10 DEF Resized
  <2>12. QED
    BY <2>11 DEF out
<1>3. QED
  BY <1>1, <1>2

(* An image that was made larger and then as large as before shows what it showed (Image.hh, resize).  *)
THEOREM GrownAndShrunk ==
  ASSUME NEW img, Window(img), img.w \in Nat, img.h \in Nat, NEW w \in Nat, NEW h \in Nat, img.w <= w, img.h <= h
  PROVE  Img!equal(Img!resize(Img!resize(img, w, h), img.w, img.h), img)
<1> DEFINE grown == Img!resize(img, w, h)
           back == Img!resize(grown, img.w, img.h)
<1>1. /\ Window(grown) /\ grown.w = w /\ grown.h = h /\ grown.format = img.format
      /\ \A p \in Img!Points(grown) :
           Img!read(grown, p) = IF p \in Img!Points(img) THEN Img!read(img, p) ELSE Img!Stored(img.format, Img!Transparent)
  <2>1. Resized(img, w, h, grown)
    BY ResizeKeeps
  <2>2. QED
    BY <2>1 DEF Resized
<1> HIDE DEF grown
<1>2. /\ Window(back) /\ back.w = img.w /\ back.h = img.h
      /\ \A p \in Img!Points(back) :
           Img!read(back, p) = IF p \in Img!Points(grown) THEN Img!read(grown, p) ELSE Img!Stored(grown.format, Img!Transparent)
  <2>1. Resized(grown, img.w, img.h, back)
    BY <1>1, ResizeKeeps
  <2>2. QED
    BY <2>1 DEF Resized
<1> HIDE DEF back
<1>3. Img!Points(back) = Img!Points(img)
  BY <1>2 DEF Img!Points
<1>4. \A p \in Img!Points(img) : p \in Img!Points(grown)
  <2>1. \A i \in Int : i \in 0..(img.w - 1) => i \in 0..(w - 1)
    OBVIOUS
  <2>2. \A i \in Int : i \in 0..(img.h - 1) => i \in 0..(h - 1)
    OBVIOUS
  <2>3. QED
    BY <1>1, <2>1, <2>2 DEF Img!Points
<1>5. QED
  BY <1>1, <1>2, <1>3, <1>4 DEF Img!equal, back, grown

(* An image in another format shows what that format stores of each of its pixels, and converting it  *)
(* again changes nothing at all (Image.hh, change_pixel_format).                                      *)
THEOREM ConvertedOnce ==
  ASSUME NEW img, Window(img), img.w \in Nat, img.h \in Nat, NEW f \in Img!Formats,
         NEW out, out = Img!change_pixel_format(img, f)
  PROVE  /\ Window(out) /\ out.w = img.w /\ out.h = img.h /\ out.format = f /\ out.bad = FALSE
         /\ \A p \in Img!Points(img) : Img!read(out, p) = Img!Stored(f, Img!read(img, p))
         /\ Img!change_pixel_format(out, f) = out
<1> DEFINE new == Img!NewImage(f, img.w, img.h, Img!Transparent)
<1>0. Img!Transparent \in Colours
  BY Grays
<1>1. Window(new) /\ new.w = img.w /\ new.h = img.h /\ new.format = f /\ new.bad = FALSE
  <2>1. Plain(f, img.w, img.h, Img!Transparent, new)
    BY <1>0, NewIs
  <2>2. QED
    BY <2>1 DEF Plain
<1> HIDE DEF new
<1>2. ASSUME NEW src, Window(src), src.w = img.w, src.h = img.h,
             NEW res, res = Img!change_pixel_format(src, f),
             NEW shown, shown = [p \in Img!Points(src) |-> Img!read(src, p)]
      PROVE  /\ Repainted(new, res, Img!Points(new), shown) /\ Img!Points(src) = Img!Points(new)
             /\ \A p \in Img!Points(new) : Img!read(res, p) = Img!Stored(f, Img!read(src, p))
             /\ Window(res) /\ res.w = img.w /\ res.h = img.h /\ res.format = f /\ res.bad = FALSE
  <2>1. res = Img!Painted(new, shown)
    BY <1>2 DEF Img!change_pixel_format, new
  <2>2. Img!Points(src) = Img!Points(new) /\ Img!Points(new) \in SUBSET (Int \X Int)
    BY <1>1, <1>2 DEF Img!Points
  <2>3. shown \in [Img!Points(new) -> Colours]
    <3>1. \A p \in Img!Points(src) : Img!read(src, p) \in Colours
      BY <1>2, PointIs
    <3>2. QED
      BY <1>2, <2>2, <3>1
  <2>4. Repainted(new, res, Img!Points(new), shown)
    BY <1>1, <2>1, <2>2, <2>3, PaintedIs
  <2>5. Window(res) /\ res.w = img.w /\ res.h = img.h /\ res.format = f /\ (res.bad <=> FALSE)
    BY <1>1, <2>4 DEF Repainted
  <2>6. res.bad = FALSE
    BY <2>5 DEF Window
  <2>7. \A p \in Img!Points(new) : Img!read(res, p) = Img!Stored(f, Img!read(src, p))
    BY <1>1, <1>2, <2>2, <2>4 DEF Repainted
  <2>8. QED
    BY <2>2, <2>4, <2>5, <2>6, <2>7
<1> DEFINE s1 == [p \in Img!Points(img) |-> Img!read(img, p)]
           s2 == [p \in Img!Points(out) |-> Img!read(out, p)]
           again == Img!change_pixel_format(out, f)
<1>3. s1 = [p \in Img!Points(img) |-> Img!read(img, p)] /\ s2 = [p \in Img!Points(out) |-> Img!read(out, p)]
  OBVIOUS
<1> HIDE DEF s1, s2
<1>4. /\ Repainted(new, out, Img!Points(new), s1) /\ Img!Points(img) = Img!Points(new)
      /\ \A p \in Img!Points(new) : Img!read(out, p) = Img!Stored(f, Img!read(img, p))
      /\ Window(out) /\ out.w = img.w /\ out.h = img.h /\ out.format = f /\ out.bad = FALSE
  BY <1>2, <1>3
<1>5. /\ Repainted(new, again, Img!Points(new), s2) /\ Img!Points(out) = Img!Points(new)
      /\ \A p \in Img!Points(new) : Img!read(again, p) = Img!Stored(f, Img!read(out, p))
      /\ Window(again) /\ again.w = img.w /\ again.h = img.h /\ again.format = f /\ again.bad = FALSE
  BY <1>2, <1>3, <1>4
<1> HIDE DEF again
<1>6. Img!Points(again) = Img!Points(new) /\ \A p : Img!Address(again, p) = Img!Address(new, p)
  BY <1>5 DEF Repainted, Img!Points, Img!Address
<1>7. \A p \in Img!Points(new) : Img!read(again, p) = Img!read(out, p)
  BY <1>4, <1>5, PointIs
<1>8. \A i \in DOMAIN again.mem : (\A p \in Img!Points(again) : Img!Address(again, p) # i) => again.mem[i] = out.mem[i]
  BY <1>4, <1>5, <1>6 DEF Repainted
<1>9. DOMAIN again.mem = DOMAIN out.mem /\ again.stride = out.stride /\ again.off = out.off
  BY <1>4, <1>5 DEF Repainted
<1>10. again = out
  <2>1. Shown(again, out)
    BY <1>4, <1>5, <1>6, <1>7, <1>8, <1>9 DEF Shown
  <2>2. QED
    BY <1>4, <1>5, <2>1, SameImage
<1>11. QED
  BY <1>4, <1>10 DEF again

(* A copy of a view shows what the view shows, and it reads past the end of the pixels just when the   *)
(* view begins to the right of the edge and reaches the bottom of the image: whole rows are copied    *)
(* from its first pixel on (Image.hh, copy and view).                                                 *)
THEOREM CopiesOfViews ==
  ASSUME NEW img, Window(img), img.off = 0, img.stride = img.w, DOMAIN img.mem = 0..(img.w * img.h - 1),
         NEW x \in Int, NEW y \in Int, NEW w \in Nat, NEW h \in Nat, Img!view(img, x, y, w, h).ok,
         NEW v, v = Img!view(img, x, y, w, h).val
  PROVE  /\ Img!equal(Img!copy(v), v)
         /\ Img!copy(v).bad <=> img.bad \/ (x > 0 /\ h > 0 /\ y + h = img.h)
<1> DEFINE W == img.w
           H == img.h
           n == W * h
           m == [i \in 0..(n - 1) |-> IF v.off + i \in DOMAIN v.mem THEN v.mem[v.off + i] ELSE Img!Transparent]
           c == Img!copy(v)
           past == n > 0 /\ v.off + n > Cardinality(DOMAIN v.mem)
<1>1. /\ Window(v)
      /\ x >= 0 /\ y >= 0 /\ x + w <= W /\ y + h <= H
      /\ v.w = w /\ v.h = h /\ v.format = img.format /\ v.mem = img.mem /\ v.stride = W /\ v.bad = img.bad
  <2>1. w \in Int /\ h \in Int
    OBVIOUS
  <2>2. Viewed(img, x, y, w, h, v)
    BY <2>1, ViewIs
  <2>3. QED
    BY <2>2 DEF Viewed
<1>2. W \in Nat /\ H \in Nat /\ x \in Nat /\ y \in Nat /\ x <= W /\ img.bad \in BOOLEAN
  <2>1. W \in Int /\ H \in Int /\ img.bad \in BOOLEAN
    BY DEF Window
  <2>2. QED
    BY <1>1, <2>1
<1>3. v.off = y * W + x
  <2>1. v.off = 0 + y * W + x
    BY <1>1, <1>2 DEF Img!view, Img!Address, Window
  <2>2. y * W \in Nat
    BY <1>2
  <2> HIDE DEF W
  <2>3. QED
    BY <1>2, <2>1, <2>2
<1>4. Cardinality(DOMAIN v.mem) = W * H
  <2>1. W * H \in Nat
    BY <1>2
  <2>2. DOMAIN v.mem = 0..(W * H - 1)
    BY <1>1
  <2> HIDE DEF W, H
  <2>3. 0 \in Int /\ W * H - 1 \in Int
    BY <2>1
  <2>4. Cardinality(0..(W * H - 1)) = IF 0 > W * H - 1 THEN 0 ELSE (W * H - 1) - 0 + 1
    BY <2>3, FS_Interval
  <2>5. QED
    BY <2>1, <2>2, <2>4
<1>a. Img!Cardinality(DOMAIN v.mem) = Cardinality(DOMAIN v.mem)
  BY DEF Img!Cardinality, Cardinality
<1>5. c = [v EXCEPT !.off = 0, !.bad = v.bad \/ past, !.mem = m]
  BY <1>1, <1>a DEF Img!copy
<1> HIDE DEF W, H, n, m, c
<1>6. /\ c.w = w /\ c.h = h /\ c.stride = W /\ c.off = 0 /\ c.mem = m /\ c.bad = (v.bad \/ past)
  BY <1>1, <1>5 DEF Window
<1>7. past <=> x > 0 /\ h > 0 /\ y + h = H
  <2>1. H - y - h \in Nat
    BY <1>1, <1>2
  <2> DEFINE k == H - y - h
  <2>2. W * H = y * W + W * h + W * k
    BY <1>2
  <2>3. /\ y * W \in Nat /\ W * h \in Nat /\ W * k \in Nat
        /\ k > 0 => W * k >= W
        /\ k = 0 => W * k = 0
        /\ h > 0 => W * h >= W
        /\ h = 0 => W * h = 0
    BY <1>2, <2>1
  <2>4. k = 0 <=> y + h = H
    BY <1>2
  <2> HIDE DEF k
  <2>5. past <=> W * h > 0 /\ y * W + x + W * h > W * H
    BY <1>3, <1>4 DEF n
  <2>6. past <=> W * h > 0 /\ x > W * k
    BY <1>2, <2>2, <2>3, <2>5
  <2>7. CASE k = 0
    BY <1>1, <1>2, <2>3, <2>4, <2>6, <2>7
  <2>8. CASE k > 0
    BY <1>1, <1>2, <2>3, <2>4, <2>6, <2>8
  <2>9. QED
    BY <2>1, <2>7, <2>8 DEF k
<1> HIDE DEF past
<1>8. c.bad <=> img.bad \/ (x > 0 /\ h > 0 /\ y + h = H)
  BY <1>1, <1>6, <1>7
<1>9. ASSUME NEW p \in Img!Points(v)
      PROVE  Img!read(c, p) = Img!read(v, p)
  <2>1. p[1] \in 0..(w - 1) /\ p[2] \in 0..(h - 1)
    BY <1>1, PointIs
  <2> DEFINE i == p[2] * W + p[1]
  <2>2. p[2] * W \in Nat /\ p[2] * W + W <= n
    <3>1. \A j \in Nat : j < h => j * W \in Nat /\ j * W + W = (j + 1) * W /\ (j + 1) * W <= h * W
      BY <1>2
    <3>2. h * W = n
      BY <1>2 DEF n
    <3>3. p[2] \in Nat /\ p[2] < h
      BY <2>1
    <3>4. QED
      BY <3>1, <3>2, <3>3
  <2>3. n \in Int
    BY <1>2 DEF n
  <2>4. i \in 0..(n - 1)
    <3> DEFINE r == p[2] * W
    <3>1. r \in Nat /\ r + W <= n /\ i = r + p[1] /\ W \in Nat /\ p[1] \in Nat /\ p[1] < w /\ w <= W
      BY <1>1, <1>2, <2>1, <2>2
    <3> HIDE DEF r, i
    <3>2. QED
      BY <2>3, <3>1
  <2>5. Img!Address(v, p) = v.off + i
    <3>1. Img!Address(v, p) = v.off + p[2] * W + p[1]
      BY <1>1 DEF Img!Address
    <3>2. v.off \in Int
      BY <1>1 DEF Window
    <3>3. QED
      BY <2>1, <2>2, <3>1, <3>2
  <2>6. Img!Address(c, p) = i
    <3>1. Img!Address(c, p) = 0 + p[2] * W + p[1]
      BY <1>6 DEF Img!Address
    <3>2. QED
      BY <2>1, <2>2, <3>1
  <2> HIDE DEF i
  <2>7. v.off + i \in DOMAIN v.mem /\ Img!read(v, p) = v.mem[v.off + i]
    BY <1>1, <2>5, PointIs
  <2>8. m[i] = v.mem[v.off + i]
    BY <2>4, <2>7 DEF m
  <2>9. Img!check(c, p)
    BY <1>6, <2>1 DEF Img!check
  <2>10. QED
    BY <1>6, <2>6, <2>7, <2>8, <2>9 DEF Img!read
<1>10. Img!Points(c) = Img!Points(v)
  BY <1>1, <1>6 DEF Img!Points
<1>11. QED
  BY <1>1, <1>6, <1>8, <1>9, <1>10 DEF Img!equal, c, H

\* --- frames ---------------------------------------------------------------------------

\* out is img with the points of S, where it has them, in the colour.
Dotted(img, S, color, out) ==
  /\ Window(out) /\ out.w = img.w /\ out.h = img.h /\ out.format = img.format /\ out.bad = img.bad
  /\ \A p \in Img!Points(img) : Img!read(out, p) = IF p \in S THEN Img!Stored(img.format, color) ELSE Img!read(img, p)

LEMMA DotsAre ==
  ASSUME NEW img, Window(img), NEW S \in SUBSET (Int \X Int), NEW color \in Colours,
         NEW hit, hit = {q \in S : Img!check(img, q)}
  PROVE  Dotted(img, S, color, Img!Painted(img, [p \in hit |-> color]))
<1> DEFINE new == [p \in hit |-> color]
           out == Img!Painted(img, new)
<1>1. new \in [hit -> Colours] /\ hit \in SUBSET (Int \X Int) /\ \A p \in hit : new[p] = color
  OBVIOUS
<1>2. hit = S \cap Img!Points(img)
  BY InImage
<1> HIDE DEF new
<1>3. Repainted(img, out, hit, new)
  BY <1>1, PaintedIs
<1> HIDE DEF out
<1>4. out.bad = img.bad
  <2>1. out.bad \in BOOLEAN /\ img.bad \in BOOLEAN /\ (out.bad <=> img.bad)
    BY <1>2, <1>3 DEF Repainted, Window
  <2>2. QED
    BY <2>1
<1>5. Dotted(img, S, color, out)
  BY <1>1, <1>2, <1>3, <1>4 DEF Repainted, Dotted
<1>6. QED
  BY <1>5 DEF out, new

LEMMA LinesAre ==
  ASSUME NEW img, Window(img), NEW a \in Int, NEW b \in Int, NEW c \in Int, NEW color \in Colours
  PROVE  /\ Dotted(img, (a..b) \X {c}, color, Img!draw_horizontal_line(img, a, b, c, 0, color))
         /\ Dotted(img, {c} \X (a..b), color, Img!draw_vertical_line(img, c, a, b, 0, color))
<1>1. \A n : Img!Dash(n, 0)
  BY DEF Img!Dash
<1> DEFINE across == {q \in (a..b) \X {c} : Img!check(img, q)}
           down == {q \in {c} \X (a..b) : Img!check(img, q)}
<1>2. Img!draw_horizontal_line(img, a, b, c, 0, color) = Img!Painted(img, [p \in across |-> color])
  BY <1>1 DEF Img!draw_horizontal_line
<1>3. Img!draw_vertical_line(img, c, a, b, 0, color) = Img!Painted(img, [p \in down |-> color])
  BY <1>1 DEF Img!draw_vertical_line
<1>4. (a..b) \X {c} \in SUBSET (Int \X Int) /\ {c} \X (a..b) \in SUBSET (Int \X Int)
  OBVIOUS
<1>5. across = {q \in (a..b) \X {c} : Img!check(img, q)} /\ down = {q \in {c} \X (a..b) : Img!check(img, q)}
  OBVIOUS
<1> HIDE DEF across, down
<1>6. Dotted(img, (a..b) \X {c}, color, Img!Painted(img, [p \in across |-> color]))
  BY <1>4, <1>5, DotsAre
<1>7. Dotted(img, {c} \X (a..b), color, Img!Painted(img, [p \in down |-> color]))
  BY <1>4, <1>5, DotsAre
<1>8. QED
  BY <1>2, <1>3, <1>6, <1>7

Frame(x, y, w, h) == {p \in Img!Rect(x, y, w, h) : p[1] \in {x, x + w - 1} \/ p[2] \in {y, y + h - 1}}

(* Drawing a rectangle, whatever its place and size, draws the points of its frame that the image has *)
(* and no others, of one column or one row too, and misses nothing (Image.hh, draw_rect and the lines *)
(* it draws).                                                                                         *)
THEOREM FramesAreDrawn ==
  ASSUME NEW img, Window(img), NEW x \in Int, NEW y \in Int, NEW w \in Int, NEW h \in Int, NEW color \in Colours
  PROVE  Dotted(img, Frame(x, y, w, h), color, Img!draw_rect(img, x, y, w, h, color))
<1>1. CASE w <= 0 \/ h <= 0
  <2>1. Img!draw_rect(img, x, y, w, h, color) = img
    BY <1>1 DEF Img!draw_rect
  <2>2. Frame(x, y, w, h) = {}
    BY <1>1 DEF Frame, Img!Rect
  <2>3. QED
    BY <2>1, <2>2 DEF Dotted
<1>2. CASE w > 0 /\ h > 0
  <2> DEFINE top == Img!draw_horizontal_line(img, x, x + w - 1, y, 0, color)
             bottom == Img!draw_horizontal_line(top, x, x + w - 1, y + h - 1, 0, color)
             left == Img!draw_vertical_line(bottom, x, y + 1, y + h - 1, 0, color)
             right == Img!draw_vertical_line(left, x + w - 1, y + 1, y + h - 1, 0, color)
  <2>1. Img!draw_rect(img, x, y, w, h, color) = right
    BY <1>2 DEF Img!draw_rect
  <2>2. x + w - 1 \in Int /\ y + h - 1 \in Int /\ y + 1 \in Int
    OBVIOUS
  <2>3. Dotted(img, (x..(x + w - 1)) \X {y}, color, top)
    BY <2>2, LinesAre
  <2> HIDE DEF top
  <2>4. Dotted(top, (x..(x + w - 1)) \X {y + h - 1}, color, bottom)
    BY <2>2, <2>3, LinesAre DEF Dotted
  <2> HIDE DEF bottom
  <2>5. Dotted(bottom, {x} \X ((y + 1)..(y + h - 1)), color, left)
    BY <2>2, <2>4, LinesAre DEF Dotted
  <2> HIDE DEF left
  <2>6. Dotted(left, {x + w - 1} \X ((y + 1)..(y + h - 1)), color, right)
    BY <2>2, <2>5, LinesAre DEF Dotted
  <2> HIDE DEF right
  <2>7. Img!Points(top) = Img!Points(img) /\ Img!Points(bottom) = Img!Points(img) /\ Img!Points(left) = Img!Points(img)
    BY <2>3, <2>4, <2>5 DEF Dotted, Img!Points
  <2>8. /\ Window(right) /\ right.w = img.w /\ right.h = img.h /\ right.format = img.format /\ right.bad = img.bad
        /\ top.format = img.format /\ bottom.format = img.format /\ left.format = img.format
    BY <2>3, <2>4, <2>5, <2>6 DEF Dotted
  <2>9. ASSUME NEW p \in Img!Points(img)
        PROVE  p \in Frame(x, y, w, h) <=> \/ p \in (x..(x + w - 1)) \X {y}
                                          \/ p \in (x..(x + w - 1)) \X {y + h - 1}
                                          \/ p \in {x} \X ((y + 1)..(y + h - 1))
                                          \/ p \in {x + w - 1} \X ((y + 1)..(y + h - 1))
    <3>1. p = <<p[1], p[2]>> /\ p[1] \in Int /\ p[2] \in Int /\ p \in Int \X Int
      BY PointIs
    <3> DEFINE i == p[1]
               j == p[2]
    <3>2. p \in Img!Rect(x, y, w, h) <=> x <= i /\ i < x + w /\ y <= j /\ j < y + h
      BY <3>1, InRect
    <3>3. p \in Frame(x, y, w, h) <=> p \in Img!Rect(x, y, w, h) /\ (i \in {x, x + w - 1} \/ j \in {y, y + h - 1})
      BY DEF Frame
    <3>4. /\ p \in (x..(x + w - 1)) \X {y} <=> x <= i /\ i <= x + w - 1 /\ j = y
          /\ p \in (x..(x + w - 1)) \X {y + h - 1} <=> x <= i /\ i <= x + w - 1 /\ j = y + h - 1
          /\ p \in {x} \X ((y + 1)..(y + h - 1)) <=> i = x /\ y + 1 <= j /\ j <= y + h - 1
          /\ p \in {x + w - 1} \X ((y + 1)..(y + h - 1)) <=> i = x + w - 1 /\ y + 1 <= j /\ j <= y + h - 1
      BY <3>1
    <3>5. i \in Int /\ j \in Int
      BY <3>1
    <3> HIDE DEF i, j
    <3>6. QED
      BY <1>2, <3>2, <3>3, <3>4, <3>5
  <2>10. \A p \in Img!Points(img) :
           Img!read(right, p) = IF p \in Frame(x, y, w, h) THEN Img!Stored(img.format, color) ELSE Img!read(img, p)
    BY <2>3, <2>4, <2>5, <2>6, <2>7, <2>8, <2>9 DEF Dotted
  <2>11. QED
    BY <2>1, <2>8, <2>10 DEF Dotted
<1>3. QED
  BY <1>1, <1>2

\* --- stretching -----------------------------------------------------------------------

LEMMA Quotients ==
  ASSUME NEW d \in Nat \ {0}
  PROVE  /\ \A a \in Int : a \div d \in Int /\ d * (a \div d) <= a /\ a < d * (a \div d) + d
         /\ \A q \in Int, r \in 0..(d - 1) : (d * q + r) \div d = q
         /\ \A a, b \in Int : a <= b => a \div d <= b \div d
<1>1. \A a \in Int : a \div d \in Int /\ a = d * (a \div d) + (a % d) /\ a % d \in 0..(d - 1)
  OBVIOUS
<1>2. ASSUME NEW p \in Int, NEW q \in Int, d * p < d * q + d
      PROVE  p <= q
  <2>1. p > q => d * p >= d * q + d
    <3>1. \A k \in Nat : k >= 1 => d * k >= d
      OBVIOUS
    <3>2. d * (p - q) = d * p - d * q /\ d * p \in Int /\ d * q \in Int
      OBVIOUS
    <3>3. p > q => d * (p - q) >= d
      <4>1. p > q => p - q \in Nat /\ p - q >= 1
        OBVIOUS
      <4>2. QED
        BY <3>1, <4>1
    <3>4. QED
      BY <3>2, <3>3
  <2>2. d * p \in Int /\ d * q \in Int
    OBVIOUS
  <2>3. QED
    BY <1>2, <2>1, <2>2
<1>3. \A a \in Int : a \div d \in Int /\ d * (a \div d) <= a /\ a < d * (a \div d) + d
  <2> SUFFICES ASSUME NEW a \in Int
               PROVE  a \div d \in Int /\ d * (a \div d) <= a /\ a < d * (a \div d) + d
    OBVIOUS
  <2> DEFINE m == d * (a \div d)
             r == a % d
  <2>1. a \div d \in Int /\ m \in Int /\ a = m + r /\ r \in 0..(d - 1)
    BY <1>1
  <2> HIDE DEF m, r
  <2>2. m <= a /\ a < m + d
    BY <2>1
  <2>3. QED
    BY <2>1, <2>2 DEF m
<1>4. ASSUME NEW q \in Int, NEW r \in 0..(d - 1)
      PROVE  (d * q + r) \div d = q
  <2> DEFINE m == d * q
             p == (m + r) \div d
             n == d * p
  <2>1. m \in Int
    OBVIOUS
  <2> HIDE DEF m
  <2>2. p \in Int /\ n <= m + r /\ m + r < n + d
    BY <1>3, <2>1
  <2>3. n \in Int
    BY <2>2
  <2> HIDE DEF n
  <2>4. n < m + d /\ m < n + d
    BY <2>1, <2>2, <2>3
  <2> HIDE DEF p
  <2>5. p <= q /\ q <= p
    BY <1>2, <2>2, <2>4 DEF m, n
  <2>6. p = q
    BY <2>2, <2>5
  <2>7. QED
    BY <2>6 DEF p, m
<1>5. ASSUME NEW a \in Int, NEW b \in Int, a <= b
      PROVE  a \div d <= b \div d
  <2> DEFINE p == a \div d
             q == b \div d
             m == d * p
             n == d * q
  <2>1. p \in Int /\ q \in Int /\ m <= a /\ b < n + d
    BY <1>3
  <2> HIDE DEF p, q
  <2>2. m \in Int /\ n \in Int
    BY <2>1
  <2> HIDE DEF m, n
  <2>3. m < n + d
    BY <1>5, <2>1, <2>2
  <2>4. p <= q
    BY <1>2, <2>1, <2>3 DEF m, n
  <2>5. QED
    BY <2>4 DEF p, q
<1>6. QED
  BY <1>3, <1>4, <1>5

(* Stretching to the nearest pixel takes the first column for the first and the last for the last,    *)
(* goes through the columns in order and never leaves them (Image.hh, copy_from_with_custom).         *)
THEOREM StretchedInOrder ==
  ASSUME NEW n \in Nat, n >= 2, NEW m \in Nat \ {0}
  PROVE  /\ \A i \in 0..(n - 1) : Img!SourceAt("NEAREST", i, n, m) \in 0..(m - 1)
         /\ Img!SourceAt("NEAREST", 0, n, m) = 0
         /\ Img!SourceAt("NEAREST", n - 1, n, m) = m - 1
         /\ \A i, j \in 0..(n - 1) : i <= j => Img!SourceAt("NEAREST", i, n, m) <= Img!SourceAt("NEAREST", j, n, m)
<1> DEFINE d == n - 1
           k == m - 1
           e == 2 * d
           Col(i) == Img!SourceAt("NEAREST", i, n, m)
           top(i) == 2 * (k * i) + d
<1>1. d \in Nat \ {0} /\ k \in Nat /\ e \in Nat \ {0} /\ 0 <= d /\ d < e
  OBVIOUS
<1>2. \A i : Col(i) = top(i) \div e
  BY DEF Img!SourceAt, Img!Nearest
<1> HIDE DEF d, k, Col
<1>3. \A i \in Nat : k * i \in Nat /\ top(i) \in Int
  BY <1>1
<1>4. \A i, j \in Nat : i <= j => top(i) <= top(j)
  <2> SUFFICES ASSUME NEW i \in Nat, NEW j \in Nat, i <= j PROVE top(i) <= top(j)
    OBVIOUS
  <2>1. k * j = k * i + k * (j - i) /\ k * (j - i) \in Nat /\ k * i \in Nat /\ k * j \in Nat
    BY <1>1
  <2>2. k * i <= k * j
    BY <2>1
  <2>3. QED
    BY <1>1, <2>1, <2>2
<1>5. top(0) = e * 0 + d /\ top(d) = e * k + d
  <2>1. k * 0 = 0
    BY <1>1
  <2>2. 2 * (k * d) = e * k
    BY <1>1
  <2>3. QED
    BY <1>1, <2>1, <2>2
<1> HIDE DEF e, top
<1>6. Col(0) = 0 /\ Col(d) = k
  <2>1. \A q \in Int, r \in 0..(e - 1) : (e * q + r) \div e = q
    BY <1>1, Quotients
  <2>2. 0 \in Int /\ k \in Int /\ d \in 0..(e - 1)
    BY <1>1
  <2>3. (e * 0 + d) \div e = 0 /\ (e * k + d) \div e = k
    BY <2>1, <2>2
  <2>4. QED
    BY <1>2, <1>5, <2>3
<1>7. \A i, j \in Nat : i <= j => Col(i) <= Col(j)
  <2>1. \A a, b \in Int : a <= b => a \div e <= b \div e
    BY <1>1, Quotients
  <2>2. QED
    BY <1>2, <1>3, <1>4, <2>1
<1>8. \A i \in Nat : Col(i) \in Int
  <2>1. \A a \in Int : a \div e \in Int
    BY <1>1, Quotients
  <2>2. QED
    BY <1>2, <1>3, <2>1
<1>9. \A i \in 0..d : Col(i) \in 0..k
  <2> SUFFICES ASSUME NEW i \in 0..d PROVE Col(i) \in 0..k
    OBVIOUS
  <2>1. i \in Nat /\ 0 \in Nat /\ d \in Nat /\ 0 <= i /\ i <= d
    BY <1>1
  <2>2. Col(0) <= Col(i) /\ Col(i) <= Col(d)
    BY <1>7, <2>1
  <2>3. QED
    BY <1>1, <1>6, <1>8, <2>1, <2>2
<1>10. \A i \in 0..d : i \in Nat
  BY <1>1
<1>11. QED
  BY <1>6, <1>7, <1>9, <1>10 DEF Col, d, k

(* A picture that is stretched to the nearest pixel from a rectangle inside the source fills the      *)
(* rectangle it is copied to, as far as the image has it: each pixel of it is written, and the        *)
(* corners show the corners (Image.hh, copy_from_with_custom).                                        *)
THEOREM StretchedWhole ==
  ASSUME NEW img, Window(img), NEW source, Window(source), NEW d \in Areas, NEW s \in Areas,
         d.w >= 2, d.h >= 2, s.w >= 1, s.h >= 1, ~(s.w = d.w /\ s.h = d.h),
         0 <= s.x, s.x + s.w <= source.w, 0 <= s.y, s.y + s.h <= source.h,
         NEW p \in Img!Points(img), p \in Img!Rect(d.x, d.y, d.w, d.h)
  PROVE  LET q == From(d, s, "NEAREST", p)
         IN  /\ q \in Img!Points(source) /\ q \in Img!Rect(s.x, s.y, s.w, s.h)
             /\ Img!read(Img!copy_from(img, source, d, s, "NEAREST"), p) = Img!Stored(img.format, Img!read(source, q))
             /\ p[1] = d.x => q[1] = s.x
             /\ p[1] = d.x + d.w - 1 => q[1] = s.x + s.w - 1
             /\ p[2] = d.y => q[2] = s.y
             /\ p[2] = d.y + d.h - 1 => q[2] = s.y + s.h - 1
<1> DEFINE i == p[1] - d.x
           j == p[2] - d.y
           a == Img!SourceAt("NEAREST", i, d.w, s.w)
           b == Img!SourceAt("NEAREST", j, d.h, s.h)
           q == From(d, s, "NEAREST", p)
           fn == [kind |-> "copy"]
           out == Img!copy_from(img, source, d, s, "NEAREST")
<1>1. /\ d.x \in Int /\ d.y \in Int /\ d.w \in Nat /\ d.h \in Nat
      /\ s.x \in Int /\ s.y \in Int /\ s.w \in Nat \ {0} /\ s.h \in Nat \ {0}
  BY DEF Areas
<1>2. i \in 0..(d.w - 1) /\ j \in 0..(d.h - 1) /\ p[1] \in Int /\ p[2] \in Int
  <2>1. p \in Int \X Int /\ p[1] \in Int /\ p[2] \in Int
    BY PointIs
  <2>2. d.x <= p[1] /\ p[1] < d.x + d.w /\ d.y <= p[2] /\ p[2] < d.y + d.h
    BY <1>1, <2>1, InRect
  <2>3. QED
    BY <1>1, <2>1, <2>2
<1>3. q = <<s.x + a, s.y + b>> /\ q[1] = s.x + a /\ q[2] = s.y + b
  BY DEF From
<1>4. /\ a \in 0..(s.w - 1) /\ (i = 0 => a = 0) /\ (i = d.w - 1 => a = s.w - 1)
      /\ b \in 0..(s.h - 1) /\ (j = 0 => b = 0) /\ (j = d.h - 1 => b = s.h - 1)
  <2>1. ASSUME NEW n \in Nat, n >= 2, NEW m \in Nat \ {0}, NEW k \in 0..(n - 1), NEW v, v = Img!SourceAt("NEAREST", k, n, m)
        PROVE  v \in 0..(m - 1) /\ (k = 0 => v = 0) /\ (k = n - 1 => v = m - 1)
    <3>1. /\ \A l \in 0..(n - 1) : Img!SourceAt("NEAREST", l, n, m) \in 0..(m - 1)
          /\ Img!SourceAt("NEAREST", 0, n, m) = 0 /\ Img!SourceAt("NEAREST", n - 1, n, m) = m - 1
      BY <2>1, StretchedInOrder
    <3>2. QED
      BY <2>1, <3>1
  <2>2. a = Img!SourceAt("NEAREST", i, d.w, s.w) /\ b = Img!SourceAt("NEAREST", j, d.h, s.h)
    OBVIOUS
  <2> HIDE DEF a, b, i, j
  <2>3. a \in 0..(s.w - 1) /\ (i = 0 => a = 0) /\ (i = d.w - 1 => a = s.w - 1)
    BY <1>1, <1>2, <2>1, <2>2
  <2>4. b \in 0..(s.h - 1) /\ (j = 0 => b = 0) /\ (j = d.h - 1 => b = s.h - 1)
    BY <1>1, <1>2, <2>1, <2>2
  <2>5. QED
    BY <2>3, <2>4
<1> HIDE DEF a, b, q
<1>5. q \in Int \X Int /\ q[1] \in Int /\ q[2] \in Int
  BY <1>1, <1>3, <1>4
<1>6. q \in Img!Rect(s.x, s.y, s.w, s.h)
  <2>1. s.w \in Int /\ s.h \in Int
    BY <1>1
  <2>2. q \in Img!Rect(s.x, s.y, s.w, s.h) <=> s.x <= q[1] /\ q[1] < s.x + s.w /\ s.y <= q[2] /\ q[2] < s.y + s.h
    BY <1>1, <1>5, <2>1, InRect
  <2>3. QED
    BY <1>1, <1>3, <1>4, <2>2
<1>7. q \in Img!Points(source)
  <2>1. source.w \in Int /\ source.h \in Int
    BY DEF Window
  <2>2. q \in Img!Points(source) <=> 0 <= q[1] /\ q[1] < source.w /\ 0 <= q[2] /\ q[2] < source.h
    BY <1>5, <2>1, PointsAre
  <2>3. QED
    BY <1>1, <1>3, <1>4, <2>1, <2>2
<1>8. Img!read(out, p) = Img!Stored(img.format, Img!read(source, q))
  <2>1. fn \in CopyFns /\ CopyMode(d, s, "NEAREST") = "NEAREST" /\ out = Img!copy_from_with_custom(img, source, d, s, "NEAREST", fn)
    BY DEF CopyFns, CopyMode, Img!copy_from
  <2>2. Img!PerPixel(fn, Img!read(img, p), Img!read(source, q)) = Img!read(source, q)
    BY DEF Img!PerPixel
  <2> HIDE DEF fn, out
  <2>3. Img!read(out, p) =
          IF p \in Img!Rect(d.x, d.y, d.w, d.h) /\ From(d, s, "NEAREST", p) \in Img!Points(source)
          THEN Img!Stored(img.format, Img!PerPixel(fn, Img!read(img, p), Img!read(source, From(d, s, "NEAREST", p))))
          ELSE Img!read(img, p)
    BY <2>1, CopiesStayInside
  <2>4. QED
    BY <1>7, <2>2, <2>3 DEF q
<1>9. /\ p[1] = d.x => q[1] = s.x
      /\ p[1] = d.x + d.w - 1 => q[1] = s.x + s.w - 1
      /\ p[2] = d.y => q[2] = s.y
      /\ p[2] = d.y + d.h - 1 => q[2] = s.y + s.h - 1
  BY <1>1, <1>2, <1>3, <1>4
<1>10. QED
  BY <1>6, <1>7, <1>8, <1>9 DEF q, out
=============================================================================
