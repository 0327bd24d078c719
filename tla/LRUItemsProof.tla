---------------------------- MODULE LRUItemsProof -----------------------------
(***************************************************************************)
(* What link_item, unlink_item and touch_item do to a list that represents *)
(* an order: lemmas for every set of items and every order.  What the      *)
(* steps of LRUItems do to the lists, to the totals, and to the containers *)
(* as their callers see them.                                              *)
(***************************************************************************)
EXTENDS LRUItems, FiniteSetTheorems, TLAPS

\* A list represents the same order as long as its own pointers and the order
\* of its own items are the same.
LEMMA RepresentsFrame ==
  ASSUME NEW S, NEW L, NEW M, NEW order, NEW order2,
         Represents(L, S, order),
         M.head = L.head, M.tail = L.tail,
         \A i \in S : M.prev[i] = L.prev[i] /\ M.next[i] = L.next[i],
         \A a, b \in S : <<a, b>> \in order2 <=> <<a, b>> \in order
  PROVE  Represents(M, S, order2)
<1>1. TotalOrder(S, order2)
  BY DEF Represents, TotalOrder
<1>2. \A a : Newest(S, order, a) => Newest(S, order2, a)
  BY DEF Newest
<1>3. \A a : Oldest(S, order, a) => Oldest(S, order2, a)
  BY DEF Oldest
<1>4. \A a, b : Follows(S, order, a, b) => Follows(S, order2, a, b)
  BY DEF Follows
<1>5. QED
  BY <1>1, <1>2, <1>3, <1>4 DEF Represents

\* The neighbours of an item of the list are items of the list.
LEMMA Neighbours ==
  ASSUME NEW S, NEW L, NEW order, Represents(L, S, order), NEW i \in S
  PROVE  /\ L.prev[i] = Null \/ L.prev[i] \in S \ {i}
         /\ L.next[i] = Null \/ L.next[i] \in S \ {i}
BY DEF Represents, Follows, TotalOrder

-----------------------------------------------------------------------------
\* unlink_item takes one item out and leaves the order of the others.
LEMMA UnlinkRepresents ==
  ASSUME NEW Slot, Null \notin Slot, NEW L \in List(Slot), NEW S \in SUBSET Slot,
         NEW order, Represents(L, S, order), NEW i \in S,
         NEW M, M = Unlink(L, i)
  PROVE  /\ M \in List(Slot)
         /\ Represents(M, S \ {i}, Forget(order, i))
         /\ M.prev[i] = Null /\ M.next[i] = Null
         /\ \A j \in Slot \ S : M.prev[j] = L.prev[j] /\ M.next[j] = L.next[j]
<1> DEFINE p == L.prev[i]
           n == L.next[i]
           T == S \ {i}
           R == Forget(order, i)
<1>1. /\ p \in Slot \cup {Null} /\ n \in Slot \cup {Null}
      /\ DOMAIN L.next = Slot /\ DOMAIN L.prev = Slot
  BY DEF List
<1>2. /\ M.head = IF L.head = i THEN n ELSE L.head
      /\ M.tail = IF L.tail = i THEN p ELSE L.tail
      /\ M.next = [j \in Slot |-> IF j = i THEN Null
                                  ELSE IF j = p THEN n ELSE L.next[j]]
      /\ M.prev = [j \in Slot |-> IF j = i THEN Null
                                  ELSE IF j = n THEN p ELSE L.prev[j]]
  BY <1>1 DEF Unlink
<1>3. M \in List(Slot)
  <2>1. /\ M.head \in Slot \cup {Null} /\ M.tail \in Slot \cup {Null}
        /\ M.next \in [Slot -> Slot \cup {Null}]
        /\ M.prev \in [Slot -> Slot \cup {Null}]
    BY <1>1, <1>2 DEF List
  <2>2. M = [head |-> M.head, tail |-> M.tail, prev |-> M.prev, next |-> M.next]
    BY DEF Unlink
  <2>3. QED
    BY <2>1, <2>2 DEF List
<1>4. p = Null \/ p \in T
  BY Neighbours
<1>5. n = Null \/ n \in T
  BY Neighbours
<1>6. \A j \in Slot : /\ M.next[j] = IF j = i THEN Null ELSE IF j = p THEN n ELSE L.next[j]
                      /\ M.prev[j] = IF j = i THEN Null ELSE IF j = n THEN p ELSE L.prev[j]
  BY <1>2
<1>7. TotalOrder(S, order)
  BY DEF Represents
<1>8. \A a, b \in T : <<a, b>> \in R <=> <<a, b>> \in order
  BY DEF Forget
<1>9. TotalOrder(T, R)
  BY <1>7, <1>8 DEF TotalOrder
<1>10. \A j \in T : (L.next[j] = i <=> j = p) /\ (L.prev[j] = i <=> j = n)
  <2>1. ASSUME NEW j \in T, L.next[j] = i PROVE j = p
    <3>1. Follows(S, order, j, i)
      BY <2>1 DEF Represents
    <3>2. p # Null
      BY <1>7, <3>1 DEF Represents, Newest, Follows, TotalOrder
    <3>3. Follows(S, order, p, i)
      BY <3>2 DEF Represents
    <3>4. QED
      BY <1>7, <3>1, <3>3 DEF Follows, TotalOrder
  <2>2. ASSUME NEW j \in T, L.prev[j] = i PROVE j = n
    <3>1. Follows(S, order, i, j)
      BY <2>2 DEF Represents
    <3>2. n # Null
      BY <1>7, <3>1 DEF Represents, Oldest, Follows, TotalOrder
    <3>3. Follows(S, order, i, n)
      BY <3>2 DEF Represents
    <3>4. QED
      BY <1>7, <3>1, <3>3 DEF Follows, TotalOrder
  <2>3. ASSUME p \in T PROVE L.next[p] = i
    <3>1. Follows(S, order, p, i)
      BY <2>3 DEF Represents
    <3>2. L.next[p] # Null
      BY <1>7, <2>3, <3>1 DEF Represents, Oldest, Follows, TotalOrder
    <3>3. Follows(S, order, p, L.next[p])
      BY <2>3, <3>2 DEF Represents
    <3>4. QED
      BY <1>7, <3>1, <3>3 DEF Follows, TotalOrder
  <2>4. ASSUME n \in T PROVE L.prev[n] = i
    <3>1. Follows(S, order, i, n)
      BY <2>4 DEF Represents
    <3>2. L.prev[n] # Null
      BY <1>7, <2>4, <3>1 DEF Represents, Newest, Follows, TotalOrder
    <3>3. Follows(S, order, L.prev[n], n)
      BY <2>4, <3>2 DEF Represents
    <3>4. QED
      BY <1>7, <3>1, <3>3 DEF Follows, TotalOrder
  <2>5. QED
    BY <2>1, <2>2, <2>3, <2>4
<1>11. IF M.head = Null THEN T = {} ELSE Newest(T, R, M.head)
  <2>1. CASE L.head = i
    <3>1. M.head = n
      BY <1>2, <2>1
    <3>2. CASE n = Null
      BY <1>7, <2>1, <3>1, <3>2 DEF Represents, Newest, Oldest, TotalOrder
    <3>3. CASE n # Null
      <4>1. Follows(S, order, i, n)
        BY <3>3 DEF Represents
      <4>2. Newest(S, order, i)
        BY <2>1 DEF Represents
      <4>3. Newest(T, order, n)
        BY <1>5, <1>7, <3>3, <4>1, <4>2 DEF Newest, Follows, TotalOrder
      <4>4. QED
        BY <1>5, <1>8, <3>1, <3>3, <4>3 DEF Newest
    <3>4. QED
      BY <3>2, <3>3
  <2>2. CASE L.head # i
    BY <1>2, <1>8, <2>2 DEF Represents, Newest
  <2>3. QED
    BY <2>1, <2>2
<1>12. IF M.tail = Null THEN T = {} ELSE Oldest(T, R, M.tail)
  <2>1. CASE L.tail = i
    <3>1. M.tail = p
      BY <1>2, <2>1
    <3>2. CASE p = Null
      BY <1>7, <2>1, <3>1, <3>2 DEF Represents, Newest, Oldest, TotalOrder
    <3>3. CASE p # Null
      <4>1. Follows(S, order, p, i)
        BY <3>3 DEF Represents
      <4>2. Oldest(S, order, i)
        BY <2>1 DEF Represents
      <4>3. Oldest(T, order, p)
        BY <1>4, <1>7, <3>3, <4>1, <4>2 DEF Oldest, Follows, TotalOrder
      <4>4. QED
        BY <1>4, <1>8, <3>1, <3>3, <4>3 DEF Oldest
    <3>4. QED
      BY <3>2, <3>3
  <2>2. CASE L.tail # i
    BY <1>2, <1>8, <2>2 DEF Represents, Oldest
  <2>3. QED
    BY <2>1, <2>2
<1>13. ASSUME NEW j \in T
       PROVE  IF M.next[j] = Null THEN Oldest(T, R, j) ELSE Follows(T, R, j, M.next[j])
  <2>1. CASE j = p
    <3>1. M.next[j] = n
      BY <1>6, <2>1
    <3>2. Follows(S, order, p, i)
      BY <1>4, <2>1 DEF Represents
    <3>3. CASE n = Null
      <4>1. Oldest(S, order, i)
        BY <3>3 DEF Represents
      <4>2. Oldest(T, order, p)
        BY <1>7, <2>1, <3>2, <4>1 DEF Oldest, Follows, TotalOrder
      <4>3. QED
        BY <1>8, <2>1, <3>1, <3>3, <4>2 DEF Oldest
    <3>4. CASE n # Null
      <4>1. Follows(S, order, i, n)
        BY <3>4 DEF Represents
      <4>2. Follows(T, order, p, n)
        BY <1>5, <1>7, <2>1, <3>2, <3>4, <4>1 DEF Follows, TotalOrder
      <4>3. QED
        BY <1>5, <1>8, <2>1, <3>1, <3>4, <4>2 DEF Follows
    <3>5. QED
      BY <3>3, <3>4
  <2>2. CASE j # p
    <3>1. M.next[j] = L.next[j] /\ L.next[j] # i
      BY <1>6, <1>10, <2>2
    <3>2. CASE L.next[j] = Null
      BY <1>8, <3>1, <3>2 DEF Represents, Oldest
    <3>3. CASE L.next[j] # Null
      <4>1. Follows(S, order, j, L.next[j])
        BY <3>3 DEF Represents
      <4>2. QED
        BY <1>8, <3>1, <3>3, <4>1 DEF Follows
    <3>4. QED
      BY <3>2, <3>3
  <2>3. QED
    BY <2>1, <2>2
<1>14. ASSUME NEW j \in T
       PROVE  IF M.prev[j] = Null THEN Newest(T, R, j) ELSE Follows(T, R, M.prev[j], j)
  <2>1. CASE j = n
    <3>1. M.prev[j] = p
      BY <1>6, <2>1
    <3>2. Follows(S, order, i, n)
      BY <1>5, <2>1 DEF Represents
    <3>3. CASE p = Null
      <4>1. Newest(S, order, i)
        BY <3>3 DEF Represents
      <4>2. Newest(T, order, n)
        BY <1>7, <2>1, <3>2, <4>1 DEF Newest, Follows, TotalOrder
      <4>3. QED
        BY <1>8, <2>1, <3>1, <3>3, <4>2 DEF Newest
    <3>4. CASE p # Null
      <4>1. Follows(S, order, p, i)
        BY <3>4 DEF Represents
      <4>2. Follows(T, order, p, n)
        BY <1>4, <1>7, <2>1, <3>2, <3>4, <4>1 DEF Follows, TotalOrder
      <4>3. QED
        BY <1>4, <1>8, <2>1, <3>1, <3>4, <4>2 DEF Follows
    <3>5. QED
      BY <3>3, <3>4
  <2>2. CASE j # n
    <3>1. M.prev[j] = L.prev[j] /\ L.prev[j] # i
      BY <1>6, <1>10, <2>2
    <3>2. CASE L.prev[j] = Null
      BY <1>8, <3>1, <3>2 DEF Represents, Newest
    <3>3. CASE L.prev[j] # Null
      <4>1. Follows(S, order, L.prev[j], j)
        BY <3>3 DEF Represents
      <4>2. QED
        BY <1>8, <3>1, <3>3, <4>1 DEF Follows
    <3>4. QED
      BY <3>2, <3>3
  <2>3. QED
    BY <2>1, <2>2
<1>15. Represents(M, T, R)
  BY <1>9, <1>11, <1>12, <1>13, <1>14 DEF Represents
<1>16. /\ M.prev[i] = Null /\ M.next[i] = Null
       /\ \A j \in Slot \ S : M.prev[j] = L.prev[j] /\ M.next[j] = L.next[j]
  BY <1>4, <1>5, <1>6
<1>17. QED
  BY <1>3, <1>15, <1>16

-----------------------------------------------------------------------------
\* link_item puts an item of no list at the front.
LEMMA LinkRepresents ==
  ASSUME NEW Slot, Null \notin Slot, NEW L \in List(Slot), NEW S \in SUBSET Slot,
         NEW order, Represents(L, S, order), NEW i \in Slot \ S, L.prev[i] = Null,
         NEW M, M = Link(L, i)
  PROVE  /\ M \in List(Slot)
         /\ Represents(M, S \cup {i}, MakeNewest(S, order, i))
         /\ \A j \in Slot \ (S \cup {i}) :
              M.prev[j] = L.prev[j] /\ M.next[j] = L.next[j]
<1> DEFINE T == S \cup {i}
           R == MakeNewest(S, order, i)
<1>1. /\ L.head \in Slot \cup {Null} /\ L.tail \in Slot \cup {Null}
      /\ L.next \in [Slot -> Slot \cup {Null}] /\ L.prev \in [Slot -> Slot \cup {Null}]
  BY DEF List
<1>2. /\ M.head = i
      /\ M.tail = IF L.tail = Null THEN i ELSE L.tail
      /\ M.next = [L.next EXCEPT ![i] = L.head]
      /\ M.prev = IF L.head = Null THEN L.prev ELSE [L.prev EXCEPT ![L.head] = i]
  BY DEF Link
<1>3. M \in List(Slot)
  <2>1. /\ M.head \in Slot \cup {Null} /\ M.tail \in Slot \cup {Null}
        /\ M.next \in [Slot -> Slot \cup {Null}] /\ M.prev \in [Slot -> Slot \cup {Null}]
    BY <1>1, <1>2
  <2>2. M = [head |-> M.head, tail |-> M.tail, prev |-> M.prev, next |-> M.next]
    BY DEF Link
  <2>3. QED
    BY <2>1, <2>2 DEF List
<1>4. L.head = Null \/ L.head \in S
  BY DEF Represents, Newest
<1>5. \A j \in Slot : /\ M.next[j] = IF j = i THEN L.head ELSE L.next[j]
                      /\ M.prev[j] = IF j = L.head THEN i ELSE L.prev[j]
  BY <1>1, <1>2
<1>6. \A a, b \in T : <<a, b>> \in R <=> IF a = i \/ b = i THEN a = i /\ b # i
                                                          ELSE <<a, b>> \in order
  BY DEF MakeNewest
<1> HIDE DEF R
<1>7. TotalOrder(S, order)
  BY DEF Represents
<1>8. TotalOrder(T, R)
  BY <1>6, <1>7 DEF TotalOrder
<1>9. Newest(T, R, i)
  BY <1>6 DEF Newest
<1>10. IF M.tail = Null THEN T = {} ELSE Oldest(T, R, M.tail)
  <2>1. CASE L.tail = Null
    BY <1>2, <1>6, <2>1 DEF Represents, Oldest
  <2>2. CASE L.tail # Null
    BY <1>2, <1>6, <2>2 DEF Represents, Oldest
  <2>3. QED
    BY <2>1, <2>2
<1>11. ASSUME NEW j \in T
       PROVE  IF M.next[j] = Null THEN Oldest(T, R, j) ELSE Follows(T, R, j, M.next[j])
  <2>1. CASE j = i
    <3>1. M.next[j] = L.head
      BY <1>5, <2>1
    <3>2. CASE L.head = Null
      BY <1>6, <2>1, <3>1, <3>2 DEF Represents, Oldest
    <3>3. CASE L.head # Null
      <4>1. Newest(S, order, L.head)
        BY <3>3 DEF Represents
      <4>2. Follows(T, R, i, L.head)
        BY <1>6, <1>7, <4>1 DEF Newest, Follows, TotalOrder
      <4>3. QED
        BY <2>1, <3>1, <3>3, <4>2
    <3>4. QED
      BY <3>2, <3>3
  <2>2. CASE j # i
    <3>1. j \in S /\ M.next[j] = L.next[j]
      BY <1>5, <2>2
    <3>2. CASE L.next[j] = Null
      <4>1. Oldest(S, order, j)
        BY <3>1, <3>2 DEF Represents
      <4>2. Oldest(T, R, j)
        BY <1>6, <4>1 DEF Oldest
      <4>3. QED
        BY <3>1, <3>2, <4>2
    <3>3. CASE L.next[j] # Null
      <4>1. Follows(S, order, j, L.next[j])
        BY <3>1, <3>3 DEF Represents
      <4>2. Follows(T, R, j, L.next[j])
        BY <1>6, <4>1 DEF Follows
      <4>3. QED
        BY <3>1, <3>3, <4>2
    <3>4. QED
      BY <3>2, <3>3
  <2>3. QED
    BY <2>1, <2>2
<1>12. ASSUME NEW j \in T
       PROVE  IF M.prev[j] = Null THEN Newest(T, R, j) ELSE Follows(T, R, M.prev[j], j)
  <2>1. CASE j = i
    <3>1. M.prev[j] = Null
      BY <1>4, <1>5, <2>1
    <3>2. QED
      BY <1>9, <2>1, <3>1
  <2>2. CASE j # i /\ j = L.head
    <3>1. M.prev[j] = i /\ i # Null
      BY <1>5, <2>2
    <3>2. Newest(S, order, L.head)
      BY <2>2 DEF Represents
    <3>3. Follows(T, R, i, j)
      BY <1>6, <1>7, <2>2, <3>2 DEF Newest, Follows, TotalOrder
    <3>4. QED
      BY <3>1, <3>3
  <2>3. CASE j # i /\ j # L.head
    <3>1. j \in S /\ M.prev[j] = L.prev[j]
      BY <1>5, <2>3
    <3>2. L.prev[j] # Null
      <4>1. L.head # Null /\ Newest(S, order, L.head)
        BY <3>1 DEF Represents
      <4>2. ~Newest(S, order, j)
        BY <1>7, <2>3, <3>1, <4>1 DEF Newest, TotalOrder
      <4>3. QED
        BY <3>1, <4>2 DEF Represents
    <3>3. Follows(S, order, L.prev[j], j)
      BY <3>1, <3>2 DEF Represents
    <3>4. Follows(T, R, L.prev[j], j)
      BY <1>6, <3>3 DEF Follows
    <3>5. QED
      BY <3>1, <3>2, <3>4
  <2>4. QED
    BY <2>1, <2>2, <2>3
<1>13. Represents(M, T, R)
  BY <1>2, <1>8, <1>9, <1>10, <1>11, <1>12 DEF Represents
<1>14. \A j \in Slot \ T : M.prev[j] = L.prev[j] /\ M.next[j] = L.next[j]
  BY <1>4, <1>5
<1>15. QED
  BY <1>3, <1>13, <1>14 DEF R

-----------------------------------------------------------------------------
\* Unlinking and linking an item of the list makes it the newest.
LEMMA RelinkRepresents ==
  ASSUME NEW Slot, Null \notin Slot, NEW L \in List(Slot), NEW S \in SUBSET Slot,
         NEW order, Represents(L, S, order), NEW i \in S,
         NEW M, M = Link(Unlink(L, i), i)
  PROVE  /\ M \in List(Slot)
         /\ Represents(M, S, MakeNewest(S, order, i))
         /\ \A j \in Slot \ S : M.prev[j] = L.prev[j] /\ M.next[j] = L.next[j]
<1> DEFINE U == Unlink(L, i)
           T == S \ {i}
           R == Forget(order, i)
<1>1. /\ U \in List(Slot) /\ Represents(U, T, R) /\ U.prev[i] = Null
      /\ \A j \in Slot \ S : U.prev[j] = L.prev[j] /\ U.next[j] = L.next[j]
  BY UnlinkRepresents, SMTT(30)
<1>2. T \in SUBSET Slot /\ i \in Slot \ T /\ T \cup {i} = S /\ M = Link(U, i)
  OBVIOUS
<1> HIDE DEF U, T, R
<1>3. /\ M \in List(Slot) /\ Represents(M, S, MakeNewest(T, R, i))
      /\ \A j \in Slot \ S : M.prev[j] = U.prev[j] /\ M.next[j] = U.next[j]
  BY <1>1, <1>2, LinkRepresents
<1>4. \A a, b \in S : <<a, b>> \in MakeNewest(S, order, i)
                        <=> <<a, b>> \in MakeNewest(T, R, i)
  BY DEF MakeNewest, Forget, T, R
<1>5. Represents(M, S, MakeNewest(S, order, i))
  BY <1>3, <1>4, RepresentsFrame
<1>6. QED
  BY <1>1, <1>3, <1>5

\* So does touch_item, which leaves an item alone that is the newest already.
LEMMA MoveToFrontRepresents ==
  ASSUME NEW Slot, Null \notin Slot, NEW L \in List(Slot), NEW S \in SUBSET Slot,
         NEW order, Represents(L, S, order), NEW i \in S,
         NEW M, M = MoveToFront(L, i)
  PROVE  /\ M \in List(Slot)
         /\ Represents(M, S, MakeNewest(S, order, i))
         /\ \A j \in Slot \ S : M.prev[j] = L.prev[j] /\ M.next[j] = L.next[j]
<1>1. CASE L.head = i
  <2>1. M = L
    BY <1>1 DEF MoveToFront
  <2>2. Newest(S, order, i) /\ TotalOrder(S, order)
    BY <1>1 DEF Represents
  <2>3. \A a, b \in S : <<a, b>> \in MakeNewest(S, order, i) <=> <<a, b>> \in order
    BY <2>2 DEF MakeNewest, Newest, TotalOrder
  <2>4. Represents(L, S, MakeNewest(S, order, i))
    BY <2>3, RepresentsFrame
  <2>5. QED
    BY <2>1, <2>4
<1>2. CASE L.head # i
  <2>1. M = Link(Unlink(L, i), i)
    BY <1>2 DEF MoveToFront
  <2>2. QED
    BY <2>1, RelinkRepresents
<1>3. QED
  BY <1>1, <1>2

\* The tail of a list that is not empty is the item used least recently.
LEMMA TailIsOldest ==
  ASSUME NEW L, NEW S, NEW order, Represents(L, S, order), L.tail # Null
  PROVE  L.tail \in S /\ Oldest(S, order, L.tail)
BY DEF Represents, Oldest

-----------------------------------------------------------------------------
(***************************************************************************)
(* Every step of LRUItems keeps the lists of all containers correct: the   *)
(* step's own by the lemmas above, the others because no two containers    *)
(* own the same table.                                                     *)
(***************************************************************************)

LEMMA NewTotal ==
  ASSUME NEW c \in Containers, NEW d \in Int, AddToTotal(c, d),
         total \in [Containers -> 0 .. Modulus - 1]
  PROVE  total' \in [Containers -> 0 .. Modulus - 1]
<1>1. total[c] + d \in Int
  BY ItemAssumption
<1>2. \A x \in Int : x % Modulus \in 0 .. Modulus - 1
  BY ItemAssumption
<1>3. QED
  BY <1>1, <1>2 DEF AddToTotal

\* The lists of the other containers survive a step on c's own items.
LEMMA OtherLists ==
  ASSUME ItemsOK, TableInv, ListInv, NEW c \in Containers, NEW d \in Containers \ {c},
         table' = table, head'[d] = head[d], tail'[d] = tail[d],
         \A i \in Item : i[1] # table[c] =>
            (i \in live' <=> i \in live) /\ prev'[i] = prev[i] /\ next'[i] = next[i],
         live' \subseteq Item,
         \A a, b \in Item : a[1] # table[c] /\ b[1] # table[c] =>
            (<<a, b>> \in newer' <=> <<a, b>> \in newer)
  PROVE  Represents(ListOf(d), ItemsOf(d), newer)'
<1>1. table[d] # table[c]
  BY DEF TableInv
<1>2. ItemsOf(d)' = ItemsOf(d)
  BY <1>1 DEF ItemsOf, ItemsOK
<1>3. \A i \in ItemsOf(d) : i \in Item /\ i[1] # table[c]
  BY <1>1 DEF ItemsOf, ItemsOK
<1>4. Represents(ListOf(d), ItemsOf(d), newer)
  BY DEF ListInv
<1> DEFINE L == ListOf(d)
           M == ListOf(d)'
           S == ItemsOf(d)
<1>5. M.head = L.head /\ M.tail = L.tail
  BY DEF ListOf
<1>6. \A i \in S : M.prev[i] = L.prev[i] /\ M.next[i] = L.next[i]
  BY <1>3 DEF ListOf
<1>7. \A a, b \in S : <<a, b>> \in newer' <=> <<a, b>> \in newer
  BY <1>3
<1> HIDE DEF L, M, S
<1>8. Represents(M, S, newer')
  BY <1>4, <1>5, <1>6, <1>7, RepresentsFrame DEF L, S
<1>9. QED
  BY <1>2, <1>8 DEF M, S

LEMMA ListTyped ==
  ASSUME ItemsOK, NEW c \in Containers
  PROVE  ListOf(c) \in List(Item) /\ ItemsOf(c) \in SUBSET Item
BY DEF ItemsOK, ListOf, ItemsOf, List

\* What SetList(c, L) makes of the variables.
LEMMA ListSet ==
  ASSUME ItemsOK, NEW c \in Containers, NEW L \in List(Item), SetList(c, L)
  PROVE  /\ head' \in [Containers -> Item \cup {Null}]
         /\ tail' \in [Containers -> Item \cup {Null}]
         /\ prev' \in [Item -> Item \cup {Null}]
         /\ next' \in [Item -> Item \cup {Null}]
         /\ ListOf(c)' = L
         /\ \A d \in Containers \ {c} : head'[d] = head[d] /\ tail'[d] = tail[d]
<1>1. /\ L.head \in Item \cup {Null} /\ L.tail \in Item \cup {Null}
      /\ L.prev \in [Item -> Item \cup {Null}] /\ L.next \in [Item -> Item \cup {Null}]
      /\ L = [head |-> L.head, tail |-> L.tail, prev |-> L.prev, next |-> L.next]
  BY DEF List
<1>2. head'[c] = L.head /\ tail'[c] = L.tail
  BY DEF ItemsOK, SetList
<1>3. QED
  BY <1>1, <1>2 DEF ItemsOK, SetList, ListOf

\* A step on c's items whose new list is right keeps all the lists right.
LEMMA ListsKept ==
  ASSUME ItemsOK, TableInv, ListInv, NEW c \in Containers, NEW L \in List(Item),
         SetList(c, L), table' = table, live' \subseteq Item,
         Represents(L, ItemsOf(c)', newer'),
         \A i \in Item : i[1] # table[c] =>
            /\ i \in live' <=> i \in live
            /\ L.prev[i] = prev[i] /\ L.next[i] = next[i],
         \A a, b \in Item : a[1] # table[c] /\ b[1] # table[c] =>
            (<<a, b>> \in newer' <=> <<a, b>> \in newer)
  PROVE  ListInv'
<1>1. prev' = L.prev /\ next' = L.next
  BY DEF SetList
<1>2. /\ ListOf(c)' = L
      /\ \A d \in Containers \ {c} : head'[d] = head[d] /\ tail'[d] = tail[d]
  BY ListSet
<1>3. Represents(ListOf(c), ItemsOf(c), newer)'
  BY <1>2
<1>4. ASSUME NEW d \in Containers \ {c}
      PROVE  Represents(ListOf(d), ItemsOf(d), newer)'
  BY <1>1, <1>2, OtherLists
<1>5. QED
  BY <1>3, <1>4 DEF ListInv

-----------------------------------------------------------------------------
\* Linking a new item in.
LEMMA AddKeeps ==
  ASSUME IInv, NEW c \in Containers, NEW k \in Keys, NEW s \in Sizes,
         ~Has(c, k), NEW i, i = At(c, k), Add(c, i, s)
  PROVE  IInv'
<1> USE DEF IInv
<1> DEFINE L == ListOf(c)
           M == Link(L, i)
           S == ItemsOf(c)
<1>1. i \in Item /\ i[1] = table[c] /\ i \notin live
  BY DEF ItemsOK, At, Has, Item
<1>2. L \in List(Item) /\ S \in SUBSET Item /\ Represents(L, S, newer)
  BY ListTyped DEF ListInv
<1>3. i \in Item \ S /\ \A j \in Item : j[1] # table[c] => j \in Item \ (S \cup {i})
  BY <1>1 DEF ItemsOf
<1>4. L.prev[i] = Null /\ L.prev = prev /\ L.next = next
  BY <1>1 DEF FreeInv, ListOf
<1>12. i \in Item \ S /\ L.prev[i] = Null /\ M = Link(L, i) /\ Null \notin Item
  BY <1>3, <1>4, ItemAssumption
<1> HIDE DEF L, M, S
<1>5. /\ M \in List(Item)
      /\ Represents(M, S \cup {i}, MakeNewest(S, newer, i))
      /\ \A j \in Item \ (S \cup {i}) : M.prev[j] = L.prev[j] /\ M.next[j] = L.next[j]
  BY <1>2, <1>12, LinkRepresents, SMTT(60)
<1>6. SetList(c, M) /\ newer' = MakeNewest(S, newer, i) /\ table' = table
      /\ live' = live \cup {i} /\ size' = [size EXCEPT ![i] = s] /\ AddToTotal(c, s)
  BY DEF Add, Use, M, L, S
<1>7. ItemsOK'
  <2>1. s \in 0 .. Modulus - 1 /\ s \in Int
    BY ItemAssumption
  <2>2. total' \in [Containers -> 0 .. Modulus - 1]
    BY <1>6, <2>1, NewTotal DEF ItemsOK
  <2>3. newer' \in SUBSET (Item \X Item)
    BY <1>1, <1>2, <1>6 DEF ItemsOK, MakeNewest
  <2>4. /\ head' \in [Containers -> Item \cup {Null}]
        /\ tail' \in [Containers -> Item \cup {Null}]
        /\ prev' \in [Item -> Item \cup {Null}]
        /\ next' \in [Item -> Item \cup {Null}]
    BY <1>5, <1>6, ListSet
  <2>5. QED
    BY <1>1, <1>6, <2>1, <2>2, <2>3, <2>4 DEF ItemsOK
<1>8. TableInv'
  BY <1>6 DEF TableInv
<1>9. ListInv'
  <2>1. ItemsOf(c)' = S \cup {i}
    BY <1>1, <1>6 DEF ItemsOf, S
  <2>2. \A j \in Item : j[1] # table[c] =>
           /\ j \in live' <=> j \in live
           /\ M.prev[j] = prev[j] /\ M.next[j] = next[j]
    BY <1>1, <1>3, <1>4, <1>5, <1>6
  <2>3. \A a, b \in Item : a[1] # table[c] /\ b[1] # table[c] =>
           (<<a, b>> \in newer' <=> <<a, b>> \in newer)
    BY <1>1, <1>6 DEF MakeNewest
  <2>4. live' \subseteq Item
    BY <1>7 DEF ItemsOK
  <2>5. Represents(M, ItemsOf(c)', newer')
    BY <1>5, <1>6, <2>1
  <2>6. QED
    BY <1>5, <1>6, <2>2, <2>3, <2>4, <2>5, ListsKept
<1>10. FreeInv'
  <2>1. ASSUME NEW j \in Item \ live'
        PROVE  prev'[j] = Null /\ next'[j] = Null /\ size'[j] = 0
    <3>1. j \in Item \ (S \cup {i}) /\ j \in Item \ live
      BY <1>6, <2>1 DEF S, ItemsOf
    <3>2. QED
      BY <1>4, <1>5, <1>6, <3>1 DEF FreeInv, ItemsOK, SetList
  <2>2. ASSUME NEW p \in newer'
        PROVE  p[1] \in live' /\ p[2] \in live' /\ p[1][1] = p[2][1]
    <3>1. p \in newer \/ \E a \in S : p = <<i, a>>
      BY <1>6 DEF MakeNewest
    <3>2. QED
      BY <1>1, <1>6, <3>1 DEF FreeInv, S, ItemsOf
  <2>3. QED
    BY <2>1, <2>2 DEF FreeInv
<1>11. QED
  BY <1>7, <1>8, <1>9, <1>10

\* Using an item again, by either way of moving it to the front.
LEMMA RenewKeeps ==
  ASSUME IInv, NEW c \in Containers, NEW k \in Keys, NEW s \in 0 .. Modulus - 1,
         Has(c, k), NEW i, i = At(c, k), NEW M,
         \/ M = MoveToFront(ListOf(c), i)
         \/ M = Link(Unlink(ListOf(c), i), i),
         Renew(c, i, M, s)
  PROVE  IInv'
<1> USE DEF IInv
<1> DEFINE L == ListOf(c)
           S == ItemsOf(c)
<1>1. i \in Item /\ i[1] = table[c] /\ i \in live /\ i \in S
  BY DEF ItemsOK, At, Has, Item, ItemsOf
<1>2. L \in List(Item) /\ S \in SUBSET Item /\ Represents(L, S, newer)
  BY ListTyped DEF ListInv
<1>3. \A j \in Item : j[1] # table[c] => j \in Item \ S
  BY DEF ItemsOf
<1>4. L.prev = prev /\ L.next = next
  BY DEF ListOf
<1>5. (M = MoveToFront(L, i) \/ M = Link(Unlink(L, i), i)) /\ i \in S /\ Null \notin Item
  BY <1>1, ItemAssumption
<1>6. SetList(c, M) /\ newer' = MakeNewest(S, newer, i) /\ table' = table
      /\ live' = live /\ size' = [size EXCEPT ![i] = s] /\ AddToTotal(c, s - size[i])
  BY DEF Renew, Resize, Use
<1>7. ItemsOf(c)' = S
  BY <1>6 DEF ItemsOf
<1> HIDE DEF L, S
<1>8. /\ M \in List(Item)
      /\ Represents(M, S, MakeNewest(S, newer, i))
      /\ \A j \in Item \ S : M.prev[j] = L.prev[j] /\ M.next[j] = L.next[j]
  BY <1>2, <1>5, MoveToFrontRepresents, RelinkRepresents, SMTT(60)
<1>9. ItemsOK'
  <2>1. s - size[i] \in Int
    BY <1>1, ItemAssumption DEF ItemsOK
  <2>2. total' \in [Containers -> 0 .. Modulus - 1]
    BY <1>6, <2>1, NewTotal DEF ItemsOK
  <2>3. newer' \in SUBSET (Item \X Item)
    BY <1>1, <1>2, <1>6 DEF ItemsOK, MakeNewest
  <2>4. /\ head' \in [Containers -> Item \cup {Null}]
        /\ tail' \in [Containers -> Item \cup {Null}]
        /\ prev' \in [Item -> Item \cup {Null}]
        /\ next' \in [Item -> Item \cup {Null}]
    BY <1>6, <1>8, ListSet
  <2>5. QED
    BY <1>6, <2>2, <2>3, <2>4 DEF ItemsOK
<1>10. TableInv'
  BY <1>6 DEF TableInv
<1>11. ListInv'
  <2>1. \A j \in Item : j[1] # table[c] =>
           /\ j \in live' <=> j \in live
           /\ M.prev[j] = prev[j] /\ M.next[j] = next[j]
    BY <1>3, <1>4, <1>6, <1>8
  <2>2. \A a, b \in Item : a[1] # table[c] /\ b[1] # table[c] =>
           (<<a, b>> \in newer' <=> <<a, b>> \in newer)
    BY <1>1, <1>6 DEF MakeNewest
  <2>3. live' \subseteq Item
    BY <1>9 DEF ItemsOK
  <2>4. Represents(M, ItemsOf(c)', newer')
    BY <1>6, <1>7, <1>8
  <2>5. QED
    BY <1>6, <1>8, <2>1, <2>2, <2>3, <2>4, ListsKept
<1>12. FreeInv'
  <2>1. ASSUME NEW j \in Item \ live'
        PROVE  prev'[j] = Null /\ next'[j] = Null /\ size'[j] = 0
    <3>1. j \in Item \ S /\ j \in Item \ live /\ j # i
      BY <1>1, <1>6, <2>1 DEF S, ItemsOf
    <3>2. QED
      BY <1>4, <1>6, <1>8, <3>1 DEF FreeInv, ItemsOK, SetList
  <2>2. ASSUME NEW p \in newer'
        PROVE  p[1] \in live' /\ p[2] \in live' /\ p[1][1] = p[2][1]
    <3>1. p \in newer \/ \E a \in S : p = <<i, a>>
      BY <1>6 DEF MakeNewest
    <3>2. QED
      BY <1>1, <1>6, <3>1 DEF FreeInv, S, ItemsOf
  <2>3. QED
    BY <2>1, <2>2 DEF FreeInv
<1>13. QED
  BY <1>9, <1>10, <1>11, <1>12

\* Taking an item out.
LEMMA FreeKeeps ==
  ASSUME IInv, NEW c \in Containers, NEW i \in ItemsOf(c), Free(c, i)
  PROVE  IInv'
<1> USE DEF IInv
<1> DEFINE L == ListOf(c)
           M == Unlink(L, i)
           S == ItemsOf(c)
<1>1. i \in Item /\ i[1] = table[c] /\ i \in live /\ i \in S
  BY DEF ItemsOK, ItemsOf
<1>2. L \in List(Item) /\ S \in SUBSET Item /\ Represents(L, S, newer)
  BY ListTyped DEF ListInv
<1>3. \A j \in Item : j[1] # table[c] => j \in Item \ S
  BY DEF ItemsOf
<1>4. L.prev = prev /\ L.next = next
  BY DEF ListOf
<1>5. SetList(c, M) /\ newer' = Forget(newer, i) /\ table' = table
      /\ live' = live \ {i} /\ size' = [size EXCEPT ![i] = 0] /\ AddToTotal(c, -size[i])
  BY DEF Free
<1>6. ItemsOf(c)' = S \ {i}
  BY <1>5 DEF ItemsOf
<1>13. M = Unlink(L, i) /\ i \in S /\ Null \notin Item
  BY <1>1, ItemAssumption
<1> HIDE DEF L, M, S
<1>7. /\ M \in List(Item)
      /\ Represents(M, S \ {i}, Forget(newer, i))
      /\ M.prev[i] = Null /\ M.next[i] = Null
      /\ \A j \in Item \ S : M.prev[j] = L.prev[j] /\ M.next[j] = L.next[j]
  BY <1>2, <1>13, UnlinkRepresents, SMTT(60)
<1>8. ItemsOK'
  <2>1. -size[i] \in Int /\ 0 \in 0 .. Modulus - 1
    BY <1>1, ItemAssumption DEF ItemsOK
  <2>2. total' \in [Containers -> 0 .. Modulus - 1]
    BY <1>5, <2>1, NewTotal DEF ItemsOK
  <2>3. newer' \in SUBSET (Item \X Item)
    BY <1>5 DEF ItemsOK, Forget
  <2>4. /\ head' \in [Containers -> Item \cup {Null}]
        /\ tail' \in [Containers -> Item \cup {Null}]
        /\ prev' \in [Item -> Item \cup {Null}]
        /\ next' \in [Item -> Item \cup {Null}]
    BY <1>5, <1>7, ListSet
  <2>5. QED
    BY <1>5, <2>1, <2>2, <2>3, <2>4 DEF ItemsOK
<1>9. TableInv'
  BY <1>5 DEF TableInv
<1>10. ListInv'
  <2>1. \A j \in Item : j[1] # table[c] =>
           /\ j \in live' <=> j \in live
           /\ M.prev[j] = prev[j] /\ M.next[j] = next[j]
    BY <1>1, <1>3, <1>4, <1>5, <1>7
  <2>2. \A a, b \in Item : a[1] # table[c] /\ b[1] # table[c] =>
           (<<a, b>> \in newer' <=> <<a, b>> \in newer)
    BY <1>1, <1>5 DEF Forget
  <2>3. live' \subseteq Item
    BY <1>8 DEF ItemsOK
  <2>4. Represents(M, ItemsOf(c)', newer')
    BY <1>5, <1>6, <1>7
  <2>5. QED
    BY <1>5, <1>7, <2>1, <2>2, <2>3, <2>4, ListsKept
<1>11. FreeInv'
  <2>1. ASSUME NEW j \in Item \ live'
        PROVE  prev'[j] = Null /\ next'[j] = Null /\ size'[j] = 0
    <3>1. CASE j = i
      BY <1>5, <1>7, <3>1 DEF ItemsOK, SetList
    <3>2. CASE j # i
      <4>1. j \in Item \ S /\ j \in Item \ live
        BY <1>5, <2>1, <3>2 DEF S, ItemsOf
      <4>2. QED
        BY <1>4, <1>5, <1>7, <3>2, <4>1 DEF FreeInv, ItemsOK, SetList
    <3>3. QED
      BY <3>1, <3>2
  <2>2. ASSUME NEW p \in newer'
        PROVE  p[1] \in live' /\ p[2] \in live' /\ p[1][1] = p[2][1]
    BY <1>5, <2>2 DEF Forget, FreeInv
  <2>3. QED
    BY <2>1, <2>2 DEF FreeInv
<1>12. QED
  BY <1>8, <1>9, <1>10, <1>11

\* Giving an item another size.
LEMMA ResizeKeeps ==
  ASSUME IInv, NEW c \in Containers, NEW k \in Keys, NEW s \in Sizes,
         Has(c, k), Resize(c, At(c, k), s),
         UNCHANGED <<table, live, head, tail, prev, next, newer>>
  PROVE  IInv'
<1> USE DEF IInv
<1> DEFINE i == At(c, k)
<1>1. i \in Item /\ i \in live
  BY DEF ItemsOK, At, Has, Item
<1> HIDE DEF i
<1>2. size' = [size EXCEPT ![i] = s] /\ AddToTotal(c, s - size[i])
  BY DEF Resize, i
<1>3. s \in 0 .. Modulus - 1 /\ s - size[i] \in Int
  BY <1>1, ItemAssumption DEF ItemsOK
<1>4. total' \in [Containers -> 0 .. Modulus - 1]
  BY <1>2, <1>3, NewTotal DEF ItemsOK
<1>5. ItemsOK'
  BY <1>2, <1>3, <1>4 DEF ItemsOK
<1>6. TableInv' /\ ListInv'
  BY DEF TableInv, ListInv, ListOf, ItemsOf
<1>7. FreeInv'
  BY <1>1, <1>2 DEF FreeInv, ItemsOK
<1>8. QED
  BY <1>5, <1>6, <1>7

\* Emptying a container.
LEMMA FreeAllKeeps ==
  ASSUME IInv, NEW c \in Containers, FreeAll(c)
  PROVE  IInv'
<1> USE DEF IInv
<1> DEFINE S == ItemsOf(c)
           L == [head |-> Null, tail |-> Null,
                 prev |-> [i \in Item |-> IF i \in S THEN Null ELSE prev[i]],
                 next |-> [i \in Item |-> IF i \in S THEN Null ELSE next[i]]]
<1>1. \A i \in live : i \in S <=> i[1] = table[c]
  BY DEF ItemsOf
<1>2. L \in List(Item) /\ SetList(c, L)
  BY DEF List, SetList, FreeAll, ItemsOK
<1>3. /\ live' = live \ S /\ table' = table /\ newer' = newer \ NewerOf(c)
      /\ size' = [i \in Item |-> IF i \in S THEN 0 ELSE size[i]]
      /\ total' = [total EXCEPT ![c] = 0]
      /\ prev' = [i \in Item |-> IF i \in S THEN Null ELSE prev[i]]
      /\ next' = [i \in Item |-> IF i \in S THEN Null ELSE next[i]]
  BY DEF FreeAll
<1>4. ItemsOf(c)' = {}
  BY <1>1, <1>3 DEF ItemsOf
<1>5. L.head = Null /\ L.tail = Null
      /\ \A i \in Item \ S : L.prev[i] = prev[i] /\ L.next[i] = next[i]
  OBVIOUS
<1>6. \A i \in Item : i[1] # table[c] => i \notin S
  BY DEF ItemsOf
<1> HIDE DEF L, S
<1>7. ItemsOK'
  <2>1. /\ head' \in [Containers -> Item \cup {Null}]
        /\ tail' \in [Containers -> Item \cup {Null}]
        /\ prev' \in [Item -> Item \cup {Null}]
        /\ next' \in [Item -> Item \cup {Null}]
    BY <1>2, ListSet
  <2>2. 0 \in 0 .. Modulus - 1
    BY ItemAssumption
  <2>3. QED
    BY <1>3, <2>1, <2>2 DEF ItemsOK
<1>8. TableInv'
  BY <1>3 DEF TableInv
<1>9. ListInv'
  <2>1. Represents(L, ItemsOf(c)', newer')
    BY <1>4, <1>5 DEF Represents, TotalOrder
  <2>2. \A i \in Item : i[1] # table[c] =>
           /\ i \in live' <=> i \in live
           /\ L.prev[i] = prev[i] /\ L.next[i] = next[i]
    BY <1>3, <1>5, <1>6
  <2>3. \A a, b \in Item : a[1] # table[c] /\ b[1] # table[c] =>
           (<<a, b>> \in newer' <=> <<a, b>> \in newer)
    BY <1>3 DEF NewerOf
  <2>4. live' \subseteq Item
    BY <1>7 DEF ItemsOK
  <2>5. table' = table
    BY <1>3
  <2>6. QED
    BY <1>2, <2>1, <2>2, <2>3, <2>4, <2>5, ListsKept
<1>10. FreeInv'
  <2>1. ASSUME NEW j \in Item \ live'
        PROVE  prev'[j] = Null /\ next'[j] = Null /\ size'[j] = 0
    BY <1>3, <2>1 DEF FreeInv
  <2>2. ASSUME NEW p \in newer'
        PROVE  p[1] \in live' /\ p[2] \in live' /\ p[1][1] = p[2][1]
    BY <1>1, <1>3, <2>2 DEF FreeInv, NewerOf
  <2>3. QED
    BY <2>1, <2>2 DEF FreeInv
<1>11. QED
  BY <1>7, <1>8, <1>9, <1>10

\* swap: the lists follow their tables.
LEMMA ExchangeKeeps ==
  ASSUME IInv, NEW c \in Containers, NEW d \in Containers, Exchange(c, d)
  PROVE  IInv'
<1> USE DEF IInv
<1> DEFINE from(e) == IF e = c THEN d ELSE IF e = d THEN c ELSE e
<1>1. \A e \in Containers :
         /\ from(e) \in Containers
         /\ table'[e] = table[from(e)] /\ total'[e] = total[from(e)]
         /\ head'[e] = head[from(e)] /\ tail'[e] = tail[from(e)]
  BY DEF Exchange, ItemsOK
<1>2. \A e, f \in Containers : from(e) = from(f) => e = f
  OBVIOUS
<1> HIDE DEF from
<1>3. UNCHANGED <<live, prev, next, size, newer>>
  BY DEF Exchange
<1>4. ItemsOK'
  BY <1>3 DEF Exchange, ItemsOK
<1>5. TableInv'
  BY <1>1, <1>2 DEF TableInv
<1>6. ListInv'
  <2>1. ASSUME NEW e \in Containers
        PROVE  Represents(ListOf(e), ItemsOf(e), newer)'
    <3>1. ListOf(e)' = ListOf(from(e)) /\ ItemsOf(e)' = ItemsOf(from(e))
      BY <1>1, <1>3 DEF ListOf, ItemsOf
    <3>2. Represents(ListOf(from(e)), ItemsOf(from(e)), newer)
      BY <1>1 DEF ListInv
    <3>3. QED
      BY <1>3, <3>1, <3>2
  <2>2. QED
    BY <2>1 DEF ListInv
<1>7. FreeInv'
  BY <1>3 DEF FreeInv
<1>8. QED
  BY <1>4, <1>5, <1>6, <1>7

-----------------------------------------------------------------------------
LEMMA InitKeeps == InitItems => IInv
<1> SUFFICES ASSUME InitItems PROVE IInv
  OBVIOUS
<1> USE DEF InitItems
<1>1. 0 \in 0 .. Modulus - 1
  BY ItemAssumption
<1>2. ItemsOK
  BY <1>1 DEF ItemsOK
<1>3. TableInv /\ FreeInv
  BY DEF TableInv, FreeInv
<1>4. ListInv
  BY DEF ListInv, ListOf, ItemsOf, Represents, TotalOrder
<1>5. QED
  BY <1>2, <1>3, <1>4 DEF IInv

\* The oldest item of a container that is not empty is its tail.
LEMMA TailInside ==
  ASSUME IInv, NEW c \in Containers, tail[c] # Null
  PROVE  /\ tail[c] \in ItemsOf(c)
         /\ \A i \in ItemsOf(c) \ {tail[c]} : <<i, tail[c]>> \in newer
<1>1. Represents(ListOf(c), ItemsOf(c), newer) /\ ListOf(c).tail = tail[c]
  BY DEF IInv, ListInv, ListOf
<1>2. QED
  BY <1>1, TailIsOldest DEF Oldest

-----------------------------------------------------------------------------
(***************************************************************************)
(* The totals: the sum of the sizes of a container's items, as a number of *)
(* units, and arithmetic modulo the number of values of size_t.            *)
(***************************************************************************)

\* Integer division.
LEMMA DivMod ==
  ASSUME NEW a \in Int
  PROVE  /\ a \div Modulus \in Int
         /\ a % Modulus \in 0 .. Modulus - 1
         /\ a = Modulus * (a \div Modulus) + (a % Modulus)
BY ItemAssumption

\* Two remainders that differ by a multiple of the modulus are the same.
LEMMA Small ==
  ASSUME NEW r \in 0 .. Modulus - 1, NEW q \in Int, NEW s \in 0 .. Modulus - 1,
         r = s + Modulus * q
  PROVE  r = s
<1>1. CASE q = 0
  BY <1>1, ItemAssumption
<1>2. CASE q >= 1
  <2>1. Modulus * q >= Modulus
    BY <1>2, ItemAssumption
  <2>2. QED
    BY <2>1, ItemAssumption
<1>3. CASE q <= -1
  <2>1. Modulus * q <= -Modulus
    BY <1>3, ItemAssumption
  <2>2. QED
    BY <2>1, ItemAssumption
<1>4. QED
  BY <1>1, <1>2, <1>3

\* A sum may be reduced early: size_t wraps around at every addition.
LEMMA AddMod ==
  ASSUME NEW a \in Int, NEW d \in Int
  PROVE  ((a % Modulus) + d) % Modulus = (a + d) % Modulus
<1> DEFINE x == (a % Modulus) + d
           y == a + d
           p == x \div Modulus
           q == y \div Modulus
           t == a \div Modulus
<1>9. t \in Int /\ a % Modulus \in 0 .. Modulus - 1 /\ a = Modulus * t + (a % Modulus)
  BY DivMod
<1>1. x \in Int /\ y \in Int /\ t \in Int /\ y = x + Modulus * t
  <2> HIDE DEF t
  <2> QED
    BY <1>9, ItemAssumption
<1>2. /\ p \in Int /\ x % Modulus \in 0 .. Modulus - 1 /\ x = Modulus * p + (x % Modulus)
  BY <1>1, DivMod
<1>3. /\ q \in Int /\ y % Modulus \in 0 .. Modulus - 1 /\ y = Modulus * q + (y % Modulus)
  BY <1>1, DivMod
<1> HIDE DEF x, y, p, q, t
<1> DEFINE r == x % Modulus
           s == y % Modulus
<1>4. r \in 0 .. Modulus - 1 /\ s \in 0 .. Modulus - 1
  BY <1>2, <1>3
<1>5. x = Modulus * p + r /\ y = Modulus * q + s
  BY <1>2, <1>3
<1> HIDE DEF r, s
<1>6. s = r + Modulus * (p + t - q)
  BY <1>1, <1>2, <1>3, <1>4, <1>5, ItemAssumption
<1>7. s = r
  BY <1>1, <1>2, <1>3, <1>4, <1>6, Small
<1>8. QED
  BY <1>7 DEF x, y, r, s

\* The sum of finitely many sizes is a number.
LEMMA SumFinite ==
  ASSUME NEW S, NEW sz, IsFiniteSet(S)
  PROVE  IsFiniteSet(Units(S, sz)) /\ SumOfSizes(S, sz) \in Nat
<1>1. IsFiniteSet(1 .. Modulus - 1)
  BY ItemAssumption, FS_Interval
<1>2. IsFiniteSet(S \X (1 .. Modulus - 1))
  BY <1>1, FS_Product
<1>3. QED
  BY <1>2, FS_Subset, FS_CardinalityType DEF Units, SumOfSizes

\* It depends on the sizes of its items only.
LEMMA SumSame ==
  ASSUME NEW S, NEW sz, NEW sz2, \A i \in S : sz2[i] = sz[i]
  PROVE  SumOfSizes(S, sz2) = SumOfSizes(S, sz)
<1>1. Units(S, sz2) = Units(S, sz)
  BY DEF Units
<1>2. QED
  BY <1>1 DEF SumOfSizes

\* Taking one item out takes its size off the sum.
LEMMA SumWithout ==
  ASSUME NEW S, NEW sz, IsFiniteSet(S), NEW i \in S, sz[i] \in 0 .. Modulus - 1
  PROVE  SumOfSizes(S, sz) = SumOfSizes(S \ {i}, sz) + sz[i]
<1> DEFINE T == Units(S \ {i}, sz)
           Q == 1 .. sz[i]
           U == {i} \X Q
<1>1. IsFiniteSet(S \ {i})
  BY FS_RemoveElement
<1>2. IsFiniteSet(T) /\ Cardinality(T) \in Nat
  BY <1>1, SumFinite DEF SumOfSizes
<1>3. IsFiniteSet(Q) /\ Cardinality(Q) = sz[i]
  BY FS_Interval
<1>4. IsFiniteSet({i}) /\ Cardinality({i}) = 1
  BY FS_Singleton
<1>5. IsFiniteSet(U) /\ Cardinality(U) = 1 * sz[i]
  <2> HIDE DEF Q
  <2> QED
    BY <1>3, <1>4, FS_Product
<1>6. Units(S, sz) = T \cup U /\ T \cap U = {}
  BY ItemAssumption DEF Units
<1> HIDE DEF T, U
<1>7. Cardinality(T \cup U) = Cardinality(T) + Cardinality(U) - Cardinality({})
  BY <1>2, <1>5, <1>6, FS_Union
<1>8. QED
  BY <1>2, <1>5, <1>6, <1>7, FS_EmptySet DEF SumOfSizes, T

\* The totals are sums, and there are finitely many items to sum up.
TotalInv == IsFiniteSet(live) /\ TotalIsSum

\* A step on the items of one table leaves the totals of the others right.
LEMMA TotalsKept ==
  ASSUME ItemsOK, TableInv, TotalInv, NEW c \in Containers, table' = table,
         IsFiniteSet(live'),
         \A i \in Item : i[1] # table[c] =>
            (i \in live' <=> i \in live) /\ size'[i] = size[i],
         live' \subseteq Item,
         NEW n, total' = [total EXCEPT ![c] = n],
         n = SumOfSizes(ItemsOf(c)', size') % Modulus
  PROVE  TotalInv'
<1>1. ASSUME NEW d \in Containers
      PROVE  total'[d] = SumOfSizes(ItemsOf(d)', size') % Modulus
  <2>1. CASE d = c
    BY <2>1 DEF ItemsOK
  <2>2. CASE d # c
    <3>1. table[d] # table[c]
      BY <2>2 DEF TableInv
    <3>2. ItemsOf(d)' = ItemsOf(d)
      BY <3>1 DEF ItemsOf, ItemsOK
    <3>3. \A i \in ItemsOf(d) : size'[i] = size[i]
      BY <3>1 DEF ItemsOf, ItemsOK
    <3>4. SumOfSizes(ItemsOf(d), size') = SumOfSizes(ItemsOf(d), size)
      BY <3>3, SumSame
    <3>5. total'[d] = total[d]
      BY <2>2 DEF ItemsOK
    <3>6. QED
      BY <3>2, <3>4, <3>5 DEF TotalInv, TotalIsSum
  <2>3. QED
    BY <2>1, <2>2
<1>2. TotalIsSum'
  BY <1>1 DEF TotalIsSum
<1>3. QED
  BY <1>2 DEF TotalInv

\* Adding d to the total of c is right when d is what the sum changes by.
LEMMA TotalMoves ==
  ASSUME ItemsOK, TableInv, TotalInv, NEW c \in Containers, table' = table,
         IsFiniteSet(live'),
         \A i \in Item : i[1] # table[c] =>
            (i \in live' <=> i \in live) /\ size'[i] = size[i],
         live' \subseteq Item,
         NEW d \in Int, AddToTotal(c, d),
         SumOfSizes(ItemsOf(c)', size') = SumOfSizes(ItemsOf(c), size) + d
  PROVE  TotalInv'
<1> DEFINE a == SumOfSizes(ItemsOf(c), size)
<1>1. IsFiniteSet(ItemsOf(c)) /\ a \in Nat
  <2>1. IsFiniteSet(ItemsOf(c))
    BY FS_Subset DEF TotalInv, ItemsOf
  <2>2. QED
    BY <2>1, SumFinite
<1>2. total[c] = a % Modulus
  BY DEF TotalInv, TotalIsSum
<1>3. total' = [total EXCEPT ![c] = (total[c] + d) % Modulus]
  BY DEF AddToTotal
<1> HIDE DEF a
<1>4. (total[c] + d) % Modulus = (a + d) % Modulus
  BY <1>1, <1>2, AddMod
<1>5. (total[c] + d) % Modulus = SumOfSizes(ItemsOf(c)', size') % Modulus
  BY <1>4 DEF a
<1>6. QED
  BY <1>3, <1>5, TotalsKept

\* Each step moves the total by what it changes the sum by.
LEMMA ResizeTotals ==
  ASSUME IInv, TotalInv, NEW c \in Containers, NEW i \in ItemsOf(c),
         NEW s \in 0 .. Modulus - 1, Resize(c, i, s), UNCHANGED <<table, live>>
  PROVE  TotalInv'
<1> DEFINE S == ItemsOf(c)
<1>1. i \in Item /\ i[1] = table[c] /\ size[i] \in 0 .. Modulus - 1 /\ live' \subseteq Item
  BY DEF ItemsOf, IInv, ItemsOK
<1>2. IsFiniteSet(S)
  BY FS_Subset DEF TotalInv, ItemsOf
<1>3. size' = [size EXCEPT ![i] = s] /\ AddToTotal(c, s - size[i]) /\ ItemsOf(c)' = S
  BY DEF Resize, ItemsOf
<1>4. size'[i] = s /\ \A j \in Item \ {i} : size'[j] = size[j]
  BY <1>1, <1>3 DEF IInv, ItemsOK
<1>5. \A j \in S \ {i} : size'[j] = size[j]
  BY <1>4 DEF ItemsOf, IInv, ItemsOK
<1>6. SumOfSizes(S \ {i}, size') = SumOfSizes(S \ {i}, size)
  BY <1>5, SumSame
<1>7. SumOfSizes(S, size) = SumOfSizes(S \ {i}, size) + size[i]
  BY <1>1, <1>2, SumWithout
<1>8. SumOfSizes(S, size') = SumOfSizes(S \ {i}, size') + s
  BY <1>2, <1>4, SumWithout
<1>9. SumOfSizes(S \ {i}, size) \in Nat
  BY <1>2, FS_RemoveElement, SumFinite
<1>10. s - size[i] \in Int
  BY <1>1, ItemAssumption
<1> HIDE DEF S
<1>11. SumOfSizes(ItemsOf(c)', size') = SumOfSizes(S, size) + (s - size[i])
  BY <1>1, <1>3, <1>6, <1>7, <1>8, <1>9, ItemAssumption
<1>12. IsFiniteSet(live')
  BY DEF TotalInv
<1>13. \A j \in Item : j[1] # table[c] => j # i
  BY <1>1
<1>14. QED
  BY <1>1, <1>3, <1>4, <1>10, <1>11, <1>12, <1>13, TotalMoves DEF S, IInv

\* A new item.
LEMMA AddTotals ==
  ASSUME IInv, TotalInv, NEW c \in Containers, NEW k \in Keys, NEW s \in 0 .. Modulus - 1,
         ~Has(c, k), Add(c, At(c, k), s)
  PROVE  TotalInv'
<1> DEFINE i == At(c, k)
           S == ItemsOf(c)
<1>1. i \in Item /\ i[1] = table[c] /\ i \notin S
  BY DEF At, Item, Has, ItemsOf, IInv, ItemsOK
<1>2. IsFiniteSet(S)
  BY FS_Subset DEF TotalInv, ItemsOf
<1> HIDE DEF i
<1>3. /\ size' = [size EXCEPT ![i] = s] /\ AddToTotal(c, s) /\ table' = table
      /\ live' = live \cup {i}
  BY DEF Add, i
<1>4. size'[i] = s /\ \A j \in Item \ {i} : size'[j] = size[j]
  BY <1>1, <1>3 DEF IInv, ItemsOK
<1>5. ItemsOf(c)' = S \cup {i}
  BY <1>1, <1>3 DEF ItemsOf
<1>6. \A j \in S : j \in Item \ {i}
  BY <1>1 DEF ItemsOf, IInv, ItemsOK
<1> HIDE DEF S
<1>7. IsFiniteSet(S \cup {i}) /\ (S \cup {i}) \ {i} = S
  BY <1>1, <1>2, FS_AddElement
<1>8. SumOfSizes(S, size') = SumOfSizes(S, size)
  BY <1>4, <1>6, SumSame
<1>9. SumOfSizes(S \cup {i}, size') = SumOfSizes((S \cup {i}) \ {i}, size') + size'[i]
  BY <1>4, <1>7, SumWithout
<1>10. SumOfSizes(ItemsOf(c)', size') = SumOfSizes(S, size) + s
  BY <1>4, <1>5, <1>7, <1>8, <1>9
<1>11. IsFiniteSet(live') /\ live' \subseteq Item
  BY <1>1, <1>3, FS_AddElement DEF TotalInv, IInv, ItemsOK
<1>12. \A j \in Item : j[1] # table[c] => j # i
  BY <1>1
<1>13. s \in Int
  BY ItemAssumption
<1>14. QED
  BY <1>3, <1>4, <1>10, <1>11, <1>12, <1>13, TotalMoves DEF S, IInv

\* An item that leaves.
LEMMA FreeTotals ==
  ASSUME IInv, TotalInv, NEW c \in Containers, NEW i \in ItemsOf(c), Free(c, i)
  PROVE  TotalInv'
<1> DEFINE S == ItemsOf(c)
<1>1. i \in Item /\ i[1] = table[c] /\ size[i] \in 0 .. Modulus - 1
  BY DEF ItemsOf, IInv, ItemsOK
<1>2. IsFiniteSet(S) /\ i \in S
  BY FS_Subset DEF TotalInv, ItemsOf
<1>3. /\ size' = [size EXCEPT ![i] = 0] /\ AddToTotal(c, -size[i]) /\ table' = table
      /\ live' = live \ {i}
  BY DEF Free
<1>4. \A j \in Item \ {i} : size'[j] = size[j]
  BY <1>1, <1>3 DEF IInv, ItemsOK
<1>5. ItemsOf(c)' = S \ {i}
  BY <1>3 DEF ItemsOf
<1>6. \A j \in S \ {i} : j \in Item \ {i}
  BY DEF ItemsOf, IInv, ItemsOK
<1> HIDE DEF S
<1>7. SumOfSizes(S \ {i}, size') = SumOfSizes(S \ {i}, size)
  BY <1>4, <1>6, SumSame
<1>8. SumOfSizes(S, size) = SumOfSizes(S \ {i}, size) + size[i]
  BY <1>1, <1>2, SumWithout
<1>9. SumOfSizes(S \ {i}, size) \in Nat
  BY <1>2, FS_RemoveElement, SumFinite
<1>10. SumOfSizes(ItemsOf(c)', size') = SumOfSizes(S, size) + (-size[i])
  BY <1>1, <1>5, <1>7, <1>8, <1>9, ItemAssumption
<1>11. IsFiniteSet(live') /\ live' \subseteq Item
  BY <1>3, FS_RemoveElement DEF TotalInv, IInv, ItemsOK
<1>12. \A j \in Item : j[1] # table[c] => j # i
  BY <1>1
<1>13. -size[i] \in Int
  BY <1>1, ItemAssumption
<1>14. QED
  BY <1>3, <1>4, <1>10, <1>11, <1>12, <1>13, TotalMoves DEF S, IInv

\* Emptying a container.
LEMMA FreeAllTotals ==
  ASSUME IInv, TotalInv, NEW c \in Containers, FreeAll(c)
  PROVE  TotalInv'
<1>1. /\ live' = live \ ItemsOf(c) /\ table' = table
      /\ size' = [i \in Item |-> IF i \in ItemsOf(c) THEN 0 ELSE size[i]]
      /\ total' = [total EXCEPT ![c] = 0]
  BY DEF FreeAll
<1>2. ItemsOf(c)' = {}
  BY <1>1 DEF ItemsOf
<1>3. \A i \in Item : i[1] # table[c] => i \notin ItemsOf(c)
  BY DEF ItemsOf
<1>4. IsFiniteSet(live') /\ live' \subseteq Item
  <2>1. live' \in SUBSET live
    BY <1>1
  <2>2. QED
    BY <2>1, FS_Subset DEF TotalInv, IInv, ItemsOK
<1>5. SumOfSizes({}, size') = 0
  <2>1. Units({}, size') = {}
    BY DEF Units
  <2>2. QED
    BY <2>1, FS_EmptySet DEF SumOfSizes
<1>6. 0 = SumOfSizes(ItemsOf(c)', size') % Modulus
  BY <1>2, <1>5, ItemAssumption
<1>7. QED
  BY <1>1, <1>3, <1>4, <1>6, TotalsKept DEF IInv

\* swap: the totals follow their tables.
LEMMA ExchangeTotals ==
  ASSUME IInv, TotalInv, NEW c \in Containers, NEW d \in Containers, Exchange(c, d)
  PROVE  TotalInv'
<1> DEFINE from(e) == IF e = c THEN d ELSE IF e = d THEN c ELSE e
<1>1. \A e \in Containers : /\ from(e) \in Containers
                            /\ table'[e] = table[from(e)] /\ total'[e] = total[from(e)]
  BY DEF Exchange, IInv, ItemsOK
<1> HIDE DEF from
<1>2. live' = live /\ size' = size
  BY DEF Exchange
<1>3. \A e \in Containers : ItemsOf(e)' = ItemsOf(from(e))
  BY <1>1, <1>2 DEF ItemsOf
<1>4. QED
  BY <1>1, <1>2, <1>3 DEF TotalInv, TotalIsSum

\* An empty container has total 0.
LEMMA InitTotals == InitItems => TotalInv
<1> SUFFICES ASSUME InitItems PROVE TotalInv
  OBVIOUS
<1>1. IsFiniteSet(live)
  BY FS_EmptySet DEF InitItems
<1>2. \A c \in Containers : Units(ItemsOf(c), size) = {}
  BY DEF InitItems, Units, ItemsOf
<1>3. 0 % Modulus = 0
  BY ItemAssumption
<1>4. \A c \in Containers : total[c] = 0 /\ SumOfSizes(ItemsOf(c), size) = 0
  BY <1>2, FS_EmptySet DEF InitItems, SumOfSizes
<1>5. TotalIsSum
  BY <1>3, <1>4 DEF TotalIsSum
<1>6. QED
  BY <1>1, <1>5 DEF TotalInv

-----------------------------------------------------------------------------
(***************************************************************************)
(* The containers as their callers see them, as operators of a table t, a  *)
(* set l of live items, sizes s, values v and an order n, so that the same *)
(* lemmas speak of the state before and after a step.                      *)
(***************************************************************************)

Row(t, l, s, v) ==
  [k \in {x \in Keys : <<t, x>> \in l} |-> [value |-> v[<<t, k>>], size |-> s[<<t, k>>]]]
View(t, l, s, v) == [c \in Containers |-> Row(t[c], l, s, v)]

PairsOf(t, n) == {p \in Keys \X Keys : <<<<t, p[1]>>, <<t, p[2]>>>> \in n}
Pairs(t, n) == [c \in Containers |-> PairsOf(t[c], n)]

\* No two containers own the same table.
Owned(t) == /\ \A c \in Containers : t[c] \in Containers
            /\ \A c, d \in Containers : t[c] = t[d] => c = d

\* EntriesWith and KeyOrder over primed and unprimed state alike.
LEMMA EntriesAre == \A v : EntriesWith(v) = View(table, live, size, v)
BY DEF EntriesWith, View, Row, Has, At

LEMMA OrderIs == KeyOrder = Pairs(table, newer)
BY DEF KeyOrder, Pairs, PairsOf, At

\* A row depends on the items of its own table only.
LEMMA RowSame ==
  ASSUME NEW t, NEW l, NEW l2, NEW s, NEW s2, NEW v, NEW v2,
         \A k \in Keys : /\ <<t, k>> \in l2 <=> <<t, k>> \in l
                         /\ s2[<<t, k>>] = s[<<t, k>>] /\ v2[<<t, k>>] = v[<<t, k>>]
  PROVE  Row(t, l2, s2, v2) = Row(t, l, s, v)
<1>1. {x \in Keys : <<t, x>> \in l2} = {x \in Keys : <<t, x>> \in l}
  OBVIOUS
<1>2. QED
  BY <1>1 DEF Row

\* A step on the items of one table changes the entries of its container only.
LEMMA ViewExcept ==
  ASSUME NEW t, Owned(t),
         NEW c \in Containers, NEW l, NEW l2, NEW s, NEW s2, NEW v, NEW v2,
         \A i \in Item : i[1] # t[c] => /\ i \in l2 <=> i \in l
                                        /\ s2[i] = s[i] /\ v2[i] = v[i]
  PROVE  View(t, l2, s2, v2) = [View(t, l, s, v) EXCEPT ![c] = Row(t[c], l2, s2, v2)]
<1>1. ASSUME NEW d \in Containers \ {c}
      PROVE  Row(t[d], l2, s2, v2) = Row(t[d], l, s, v)
  <2>1. \A k \in Keys : <<t[d], k>> \in Item /\ <<t[d], k>>[1] # t[c]
    BY DEF Item, Owned
  <2>2. QED
    BY <2>1, RowSame
<1>2. QED
  BY <1>1 DEF View

\* A row with a key bound to e, and without a key.
Bound(r, k, e) == [x \in DOMAIN r \cup {k} |-> IF x = k THEN e ELSE r[x]]
Without(r, k) == [x \in DOMAIN r \ {k} |-> r[x]]

\* An order in which k became the newest of keys, and without k.
Kept(o, k) == {p \in o : p[1] # k /\ p[2] # k}
Used(o, k, keys) == Kept(o, k) \cup {<<k, x>> : x \in keys \ {k}}

\* What adding or changing an item, and taking one away, does to its row.
LEMMA RowBind ==
  ASSUME NEW t, NEW k \in Keys, NEW l, NEW l2, NEW s, NEW s2, NEW v, NEW v2,
         \A x \in Keys : <<t, x>> \in l2 <=> <<t, x>> \in l \/ x = k,
         \A x \in Keys \ {k} : s2[<<t, x>>] = s[<<t, x>>] /\ v2[<<t, x>>] = v[<<t, x>>]
  PROVE  Row(t, l2, s2, v2) =
           Bound(Row(t, l, s, v), k, [value |-> v2[<<t, k>>], size |-> s2[<<t, k>>]])
<1>1. {x \in Keys : <<t, x>> \in l2} = {x \in Keys : <<t, x>> \in l} \cup {k}
  OBVIOUS
<1>2. QED
  BY <1>1 DEF Row, Bound

LEMMA RowRemove ==
  ASSUME NEW t, NEW k \in Keys, NEW l, NEW l2, NEW s, NEW s2, NEW v, NEW v2,
         \A x \in Keys : <<t, x>> \in l2 <=> <<t, x>> \in l /\ x # k,
         \A x \in Keys \ {k} : s2[<<t, x>>] = s[<<t, x>>] /\ v2[<<t, x>>] = v[<<t, x>>]
  PROVE  Row(t, l2, s2, v2) = Without(Row(t, l, s, v), k)
<1>1. {x \in Keys : <<t, x>> \in l2} = {x \in Keys : <<t, x>> \in l} \ {k}
  OBVIOUS
<1>2. QED
  BY <1>1 DEF Row, Without

\* The same for the order.
LEMMA PairsExcept ==
  ASSUME NEW t, Owned(t),
         NEW c \in Containers, NEW n, NEW n2,
         \A a, b \in Item : a[1] # t[c] /\ b[1] # t[c] => (<<a, b>> \in n2 <=> <<a, b>> \in n)
  PROVE  Pairs(t, n2) = [Pairs(t, n) EXCEPT ![c] = PairsOf(t[c], n2)]
<1>1. ASSUME NEW d \in Containers \ {c}
      PROVE  PairsOf(t[d], n2) = PairsOf(t[d], n)
  <2>1. \A k \in Keys : <<t[d], k>> \in Item /\ <<t[d], k>>[1] # t[c]
    BY DEF Item, Owned
  <2>2. QED
    BY <2>1 DEF PairsOf
<1>2. QED
  BY <1>1 DEF Pairs

\* The same for the entries of all containers: an item bound, an item removed, all
\* items of a table freed, two tables exchanged.
LEMMA ViewBind ==
  ASSUME NEW t, Owned(t), NEW c \in Containers, NEW k \in Keys, NEW i, i = <<t[c], k>>,
         NEW l, NEW l2, NEW s, NEW s2, NEW v, NEW v2,
         \A j \in Item : j \in l2 <=> j \in l \/ j = i,
         \A j \in Item \ {i} : s2[j] = s[j] /\ v2[j] = v[j],
         NEW e, e = [value |-> v2[i], size |-> s2[i]]
  PROVE  View(t, l2, s2, v2) = [View(t, l, s, v) EXCEPT ![c] = Bound(@, k, e)]
<1> DEFINE tc == t[c]
<1>1. \A x \in Keys \ {k} : s2[<<tc, x>>] = s[<<tc, x>>] /\ v2[<<tc, x>>] = v[<<tc, x>>]
  BY DEF Owned, Item
<1>2. \A j \in Item : j[1] # t[c] => /\ j \in l2 <=> j \in l
                                     /\ s2[j] = s[j] /\ v2[j] = v[j]
  OBVIOUS
<1>3. View(t, l2, s2, v2) = [View(t, l, s, v) EXCEPT ![c] = Row(t[c], l2, s2, v2)]
  BY <1>2, ViewExcept
<1>6. i = <<tc, k>> /\ \A x \in Keys : <<tc, x>> \in l2 <=> <<tc, x>> \in l \/ x = k
  BY DEF Owned, Item
<1> HIDE DEF tc
<1>4. Row(tc, l2, s2, v2) =
        Bound(Row(tc, l, s, v), k, e)
  BY <1>1, <1>6, RowBind
<1>5. QED
  BY <1>3, <1>4 DEF View, tc

LEMMA ViewRemove ==
  ASSUME NEW t, Owned(t), NEW c \in Containers, NEW k \in Keys, NEW i, i = <<t[c], k>>,
         NEW l, NEW l2, NEW s, NEW s2, NEW v, NEW v2,
         \A j \in Item : j \in l2 <=> j \in l /\ j # i,
         \A j \in Item \ {i} : s2[j] = s[j] /\ v2[j] = v[j]
  PROVE  View(t, l2, s2, v2) = [View(t, l, s, v) EXCEPT ![c] = Without(@, k)]
<1> DEFINE tc == t[c]
<1>1. \A x \in Keys \ {k} : s2[<<tc, x>>] = s[<<tc, x>>] /\ v2[<<tc, x>>] = v[<<tc, x>>]
  BY DEF Owned, Item
<1>2. \A j \in Item : j[1] # t[c] => /\ j \in l2 <=> j \in l
                                     /\ s2[j] = s[j] /\ v2[j] = v[j]
  OBVIOUS
<1>3. View(t, l2, s2, v2) = [View(t, l, s, v) EXCEPT ![c] = Row(t[c], l2, s2, v2)]
  BY <1>2, ViewExcept
<1>6. i = <<tc, k>> /\ \A x \in Keys : <<tc, x>> \in l2 <=> <<tc, x>> \in l /\ x # k
  BY DEF Owned, Item
<1> HIDE DEF tc
<1>4. Row(tc, l2, s2, v2) =
        Without(Row(tc, l, s, v), k)
  BY <1>1, <1>6, RowRemove
<1>5. QED
  BY <1>3, <1>4 DEF View, tc

LEMMA ViewClear ==
  ASSUME NEW t, Owned(t), NEW c \in Containers,
         NEW l, NEW l2, NEW s, NEW s2, NEW v, NEW v2,
         \A j \in Item : IF j[1] = t[c] THEN j \notin l2
                         ELSE (j \in l2 <=> j \in l) /\ s2[j] = s[j] /\ v2[j] = v[j]
  PROVE  View(t, l2, s2, v2) = [View(t, l, s, v) EXCEPT ![c] = <<>>]
<1>1. View(t, l2, s2, v2) = [View(t, l, s, v) EXCEPT ![c] = Row(t[c], l2, s2, v2)]
  BY ViewExcept
<1>2. {x \in Keys : <<t[c], x>> \in l2} = {}
  BY DEF Owned, Item
<1>3. Row(t[c], l2, s2, v2) = <<>>
  BY <1>2 DEF Row
<1>4. QED
  BY <1>1, <1>3

LEMMA ViewSwap ==
  ASSUME NEW t, NEW c \in Containers, NEW d \in Containers, NEW t2,
         \A e \in Containers : t2[e] = IF e = d THEN t[c] ELSE IF e = c THEN t[d] ELSE t[e],
         NEW l, NEW s, NEW v, NEW E, E = View(t, l, s, v)
  PROVE  View(t2, l, s, v) = [E EXCEPT ![c] = E[d], ![d] = E[c]]
BY DEF View

\* What the same steps do to the order of the keys.
LEMMA OrderUse ==
  ASSUME NEW t, Owned(t), NEW c \in Containers, NEW k \in Keys, NEW i, i = <<t[c], k>>,
         NEW keys \in SUBSET Keys, NEW n, NEW n2,
         \A a, b \in Item : <<a, b>> \in n2 <=>
            \/ a # i /\ b # i /\ <<a, b>> \in n
            \/ a = i /\ b # i /\ b[1] = t[c] /\ b[2] \in keys
  PROVE  Pairs(t, n2) = [Pairs(t, n) EXCEPT ![c] =
           Used(@, k, keys)]
<1>1. \A a, b \in Item : a[1] # t[c] /\ b[1] # t[c] => (<<a, b>> \in n2 <=> <<a, b>> \in n)
  BY DEF Owned, Item
<1>2. Pairs(t, n2) = [Pairs(t, n) EXCEPT ![c] = PairsOf(t[c], n2)]
  BY <1>1, PairsExcept
<1>3. \A a, b \in Keys : <<<<t[c], a>>, <<t[c], b>>>> \in n2 <=>
         \/ a # k /\ b # k /\ <<<<t[c], a>>, <<t[c], b>>>> \in n
         \/ a = k /\ b # k /\ b \in keys
  BY DEF Owned, Item
<1>4. PairsOf(t[c], n2) = Used(PairsOf(t[c], n), k, keys)
  <2> DEFINE A == PairsOf(t[c], n2)
             B == {p \in PairsOf(t[c], n) : p[1] # k /\ p[2] # k}
             D == {<<k, x>> : x \in keys \ {k}}
  <2>1. A \subseteq Keys \X Keys /\ B \subseteq Keys \X Keys /\ D \subseteq Keys \X Keys
    <3>1. A \subseteq Keys \X Keys /\ B \subseteq Keys \X Keys
      BY DEF PairsOf
    <3>2. ASSUME NEW p \in D PROVE p \in Keys \X Keys
      <4>1. PICK x \in Keys : p = <<k, x>>
        OBVIOUS
      <4>2. QED
        BY <4>1
    <3>3. QED
      BY <3>1, <3>2
  <2>2. ASSUME NEW a \in Keys, NEW b \in Keys
        PROVE  <<a, b>> \in A <=> <<a, b>> \in B \/ <<a, b>> \in D
    <3>1. <<a, b>> \in A <=> <<<<t[c], a>>, <<t[c], b>>>> \in n2
      BY DEF PairsOf
    <3>2. <<a, b>> \in B <=> a # k /\ b # k /\ <<<<t[c], a>>, <<t[c], b>>>> \in n
      BY DEF PairsOf
    <3>3. <<a, b>> \in D <=> a = k /\ b # k /\ b \in keys
      OBVIOUS
    <3>4. QED
      BY <1>3, <3>1, <3>2, <3>3
  <2> HIDE DEF A, B, D
  <2>3. A = B \cup D
    BY <2>1, <2>2
  <2>4. QED
    BY <2>3 DEF A, B, D, Used, Kept
<1>5. QED
  BY <1>2, <1>4 DEF Pairs

LEMMA OrderForget ==
  ASSUME NEW t, Owned(t), NEW c \in Containers, NEW k \in Keys, NEW i, i = <<t[c], k>>,
         NEW n, NEW n2,
         \A a, b \in Item : <<a, b>> \in n2 <=> a # i /\ b # i /\ <<a, b>> \in n
  PROVE  Pairs(t, n2) = [Pairs(t, n) EXCEPT ![c] = Kept(@, k)]
<1>1. \A a, b \in Item : a[1] # t[c] /\ b[1] # t[c] => (<<a, b>> \in n2 <=> <<a, b>> \in n)
  BY DEF Owned, Item
<1>2. Pairs(t, n2) = [Pairs(t, n) EXCEPT ![c] = PairsOf(t[c], n2)]
  BY <1>1, PairsExcept
<1>3. \A a, b \in Keys : <<<<t[c], a>>, <<t[c], b>>>> \in n2 <=>
         a # k /\ b # k /\ <<<<t[c], a>>, <<t[c], b>>>> \in n
  BY DEF Owned, Item
<1>4. PairsOf(t[c], n2) = Kept(PairsOf(t[c], n), k)
  BY <1>3 DEF PairsOf, Kept
<1>5. QED
  BY <1>2, <1>4 DEF Pairs

LEMMA OrderClear ==
  ASSUME NEW t, Owned(t), NEW c \in Containers, NEW n, NEW n2,
         \A a, b \in Item : <<a, b>> \in n2 <=>
            a[1] # t[c] /\ b[1] # t[c] /\ <<a, b>> \in n
  PROVE  Pairs(t, n2) = [Pairs(t, n) EXCEPT ![c] = {}]
<1>1. \A a, b \in Item : a[1] # t[c] /\ b[1] # t[c] => (<<a, b>> \in n2 <=> <<a, b>> \in n)
  OBVIOUS
<1>2. Pairs(t, n2) = [Pairs(t, n) EXCEPT ![c] = PairsOf(t[c], n2)]
  BY <1>1, PairsExcept
<1>3. PairsOf(t[c], n2) = {}
  BY DEF PairsOf, Owned, Item
<1>4. QED
  BY <1>2, <1>3

LEMMA OrderSwap ==
  ASSUME NEW t, NEW c \in Containers, NEW d \in Containers, NEW t2,
         \A e \in Containers : t2[e] = IF e = d THEN t[c] ELSE IF e = c THEN t[d] ELSE t[e],
         NEW n, NEW P, P = Pairs(t, n)
  PROVE  Pairs(t2, n) = [P EXCEPT ![c] = P[d], ![d] = P[c]]
BY DEF Pairs

LEMMA TablesOwned == IInv => Owned(table)
BY DEF IInv, ItemsOK, TableInv, Owned

\* The keys of a container are those the table finds.
LEMMA RowKeys ==
  ASSUME NEW c \in Containers, NEW v
  PROVE  DOMAIN EntriesWith(v)[c] = {k \in Keys : Has(c, k)}
BY DEF EntriesWith

\* An item that gets size s, a new one or an old one.
LEMMA BindMatches ==
  ASSUME IInv, NEW c \in Containers, NEW k \in Keys, NEW i, i = At(c, k), table' = table,
         \A j \in Item : j \in live' <=> j \in live \/ j = i,
         \A j \in Item \ {i} : size'[j] = size[j],
         NEW v, NEW w, \A j \in Item \ {i} : w[j] = v[j],
         NEW e, e = [value |-> w[i], size |-> size'[i]]
  PROVE  View(table', live', size', w) = [EntriesWith(v) EXCEPT ![c] = Bound(@, k, e)]
<1> DEFINE E == View(table, live, size, v)
<1>1. i \in Item /\ i = <<table[c], k>>
  BY DEF At, Item, IInv, ItemsOK
<1>2. View(table, live', size', w) = [E EXCEPT ![c] = Bound(@, k, e)]
  BY <1>1, TablesOwned, ViewBind
<1>3. E = EntriesWith(v)
  BY EntriesAre
<1> HIDE DEF E
<1>4. QED
  BY <1>2, <1>3

\* The steps of LRUItems in terms of the entries and the order of the keys.
LEMMA RemoveMatches ==
  ASSUME IInv, NEW c \in Containers, NEW k \in Keys, NEW i, i = At(c, k), Free(c, i),
         NEW v, NEW w, \A j \in Item \ {i} : w[j] = v[j]
  PROVE  View(table', live', size', w) = [EntriesWith(v) EXCEPT ![c] = Without(@, k)]
<1> DEFINE E == View(table, live, size, v)
<1>1. i \in Item /\ i = <<table[c], k>>
  BY DEF At, Item, IInv, ItemsOK
<1>2. \A j \in Item \ {i} : size'[j] = size[j]
  BY <1>1 DEF IInv, ItemsOK, Free
<1>3. \A j \in Item : j \in live' <=> j \in live /\ j # i
  BY DEF Free
<1>4. View(table, live', size', w) = [E EXCEPT ![c] = Without(@, k)]
  BY <1>1, <1>2, <1>3, TablesOwned, ViewRemove
<1>5. E = EntriesWith(v) /\ table' = table
  BY EntriesAre DEF Free
<1> HIDE DEF E
<1>6. QED
  BY <1>4, <1>5

LEMMA ClearMatches ==
  ASSUME IInv, NEW c \in Containers, FreeAll(c),
         NEW v, NEW w, \A j \in Item \ ItemsOf(c) : w[j] = v[j]
  PROVE  /\ View(table', live', size', w) = [EntriesWith(v) EXCEPT ![c] = <<>>]
         /\ Pairs(table', newer') = [KeyOrder EXCEPT ![c] = {}]
<1> DEFINE E == View(table, live, size, v)
           P == Pairs(table, newer)
<1>1. E = EntriesWith(v) /\ P = KeyOrder /\ table' = table
  BY EntriesAre, OrderIs DEF FreeAll
<1>2. \A j \in Item : IF j[1] = table[c] THEN j \notin live'
                      ELSE (j \in live' <=> j \in live) /\ size'[j] = size[j] /\ w[j] = v[j]
  BY DEF FreeAll, ItemsOf
<1>3. View(table, live', size', w) = [E EXCEPT ![c] = <<>>]
  BY <1>2, TablesOwned, ViewClear
<1>4. \A a, b \in Item : <<a, b>> \in newer' <=>
         a[1] # table[c] /\ b[1] # table[c] /\ <<a, b>> \in newer
  BY DEF FreeAll, NewerOf, IInv, FreeInv
<1>5. Pairs(table, newer') = [P EXCEPT ![c] = {}]
  BY <1>4, TablesOwned, OrderClear
<1> HIDE DEF E, P
<1>6. QED
  BY <1>1, <1>3, <1>5

LEMMA SwapMatches ==
  ASSUME IInv, NEW c \in Containers, NEW d \in Containers, Exchange(c, d),
         NEW v, NEW E, E = EntriesWith(v)
  PROVE  /\ View(table', live', size', v) = [E EXCEPT ![c] = E[d], ![d] = E[c]]
         /\ Pairs(table', newer') = [KeyOrder EXCEPT ![c] = KeyOrder[d], ![d] = KeyOrder[c]]
<1> DEFINE P == Pairs(table, newer)
<1>1. E = View(table, live, size, v) /\ P = KeyOrder
  BY EntriesAre, OrderIs
<1>2. \A e \in Containers :
         table'[e] = IF e = d THEN table[c] ELSE IF e = c THEN table[d] ELSE table[e]
  BY DEF Exchange, IInv, ItemsOK
<1>3. live' = live /\ size' = size /\ newer' = newer
  BY DEF Exchange
<1>4. View(table', live, size, v) = [E EXCEPT ![c] = E[d], ![d] = E[c]]
  BY <1>1, <1>2, ViewSwap
<1>5. P = Pairs(table, newer)
  OBVIOUS
<1> HIDE DEF P
<1>6. Pairs(table', newer) = [P EXCEPT ![c] = P[d], ![d] = P[c]]
  BY <1>2, <1>5, OrderSwap
<1>7. QED
  BY <1>1, <1>3, <1>4, <1>6

LEMMA UseMatches ==
  ASSUME IInv, NEW c \in Containers, NEW k \in Keys, table' = table, Use(c, At(c, k))
  PROVE  Pairs(table', newer') = [KeyOrder EXCEPT ![c] =
           Used(@, k, {y \in Keys : Has(c, y)})]
<1> DEFINE i == At(c, k)
           keys == {y \in Keys : Has(c, y)}
<1>1. Pairs(table, newer) = KeyOrder
  BY OrderIs
<1>2. i = <<table[c], k>>
  BY DEF At
<1>3. \A a, b \in Item : <<a, b>> \in newer' <=>
         \/ a # i /\ b # i /\ <<a, b>> \in newer
         \/ a = i /\ b # i /\ b[1] = table[c] /\ b[2] \in keys
  BY DEF Use, MakeNewest, ItemsOf, Item, Has, At
<1>4. keys \in SUBSET Keys
  OBVIOUS
<1> HIDE DEF i, keys
<1>5. Pairs(table, newer') = [Pairs(table, newer) EXCEPT ![c] = Used(@, k, keys)]
  BY <1>2, <1>3, <1>4, TablesOwned, OrderUse
<1>6. QED
  BY <1>1, <1>5 DEF keys

LEMMA ForgetMatches ==
  ASSUME IInv, NEW c \in Containers, NEW k \in Keys, Free(c, At(c, k))
  PROVE  Pairs(table', newer') = [KeyOrder EXCEPT ![c] = Kept(@, k)]
<1> DEFINE i == At(c, k)
<1>1. Pairs(table, newer) = KeyOrder /\ table' = table
  BY OrderIs DEF Free
<1>2. i = <<table[c], k>>
  BY DEF At
<1>3. \A a, b \in Item : <<a, b>> \in newer' <=> a # i /\ b # i /\ <<a, b>> \in newer
  BY DEF Free, Forget
<1> HIDE DEF i
<1>4. Pairs(table, newer') = [Pairs(table, newer) EXCEPT ![c] = Kept(@, k)]
  BY <1>2, <1>3, TablesOwned, OrderForget
<1>5. QED
  BY <1>1, <1>4
=============================================================================
