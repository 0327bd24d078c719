------------------------------- MODULE LRUList -------------------------------
(***************************************************************************)
(* The intrusive doubly linked list inside LRUSet and LRUMap               *)
(* (src/src/LRUSet-inl.hh 121-149 and src/src/LRUMap.hh 40-73, the same    *)
(* code twice).  An item is its address.  A list is the four things the    *)
(* code's functions read and write: the owner's head and tail, and the     *)
(* prev and next fields of all items in memory.                            *)
(***************************************************************************)
CONSTANT Null   \* the null pointer

\* A list over the items of memory.
List(Item) == [head : Item \cup {Null}, tail : Item \cup {Null},
               prev : [Item -> Item \cup {Null}], next : [Item -> Item \cup {Null}]]

\* Mutant: the old head is not told who precedes it.
LinkOneWay(L, i) ==
  [head |-> i,
   tail |-> IF L.tail = Null THEN i ELSE L.tail,
   next |-> [L.next EXCEPT ![i] = L.head],
   prev |-> L.prev]

\* link_item: put i at the front.
Link(L, i) ==
  [head |-> i,
   tail |-> IF L.tail = Null THEN i ELSE L.tail,
   next |-> [L.next EXCEPT ![i] = L.head],
   prev |-> IF L.head = Null THEN L.prev ELSE [L.prev EXCEPT ![L.head] = i]]

\* unlink_item: join i's neighbours and clear its own pointers.
Unlink(L, i) ==
  LET p == L.prev[i]
      n == L.next[i]
  IN  [head |-> IF L.head = i THEN n ELSE L.head,
       tail |-> IF L.tail = i THEN p ELSE L.tail,
       next |-> [j \in DOMAIN L.next |-> IF j = i THEN Null
                                  ELSE IF j = p THEN n ELSE L.next[j]],
       prev |-> [j \in DOMAIN L.prev |-> IF j = i THEN Null
                                  ELSE IF j = n THEN p ELSE L.prev[j]]]

\* touch_item: an item that is the head already is left alone.
MoveToFront(L, i) == IF L.head = i THEN L ELSE Link(Unlink(L, i), i)

-----------------------------------------------------------------------------
(* What the list stands for: a set S of items with a total order, the set  *)
(* of pairs <<a, b>> such that a was used more recently than b.            *)

TotalOrder(S, newer) ==
  /\ \A a \in S : <<a, a>> \notin newer
  /\ \A a, b \in S : a # b => (<<a, b>> \in newer <=> <<b, a>> \notin newer)
  /\ \A a, b, c \in S : <<a, b>> \in newer /\ <<b, c>> \in newer => <<a, c>> \in newer

Newest(S, newer, a) == a \in S /\ \A b \in S \ {a} : <<a, b>> \in newer
Oldest(S, newer, a) == a \in S /\ \A b \in S \ {a} : <<b, a>> \in newer

\* b comes right after a: a is newer, and nothing lies between them.
Follows(S, newer, a, b) ==
  /\ a \in S /\ b \in S /\ <<a, b>> \in newer
  /\ \A c \in S : ~(<<a, c>> \in newer /\ <<c, b>> \in newer)

MakeNewest(S, newer, i) ==
  {p \in newer : p[1] # i /\ p[2] # i} \cup {<<i, a>> : a \in S \ {i}}

Forget(newer, i) == {p \in newer : p[1] # i /\ p[2] # i}

\* The pointers of L hold exactly the items of S from newest to oldest.
Represents(L, S, newer) ==
  /\ TotalOrder(S, newer)
  /\ IF L.head = Null THEN S = {} ELSE Newest(S, newer, L.head)
  /\ IF L.tail = Null THEN S = {} ELSE Oldest(S, newer, L.tail)
  /\ \A i \in S :
       /\ IF L.next[i] = Null THEN Oldest(S, newer, i)
                              ELSE Follows(S, newer, i, L.next[i])
       /\ IF L.prev[i] = Null THEN Newest(S, newer, i)
                              ELSE Follows(S, newer, L.prev[i], i)
=============================================================================
