------------------------------ MODULE LRUItems ------------------------------
(***************************************************************************)
(* What LRUSet (src/src/LRUSet-inl.hh) and LRUMap (src/src/LRUMap.hh) have *)
(* in common.  Each container owns a hash table, and every entry of the    *)
(* table holds an item of the container's list.  An item's address is the  *)
(* table it was allocated by and its key; swap exchanges the tables of two *)
(* containers and leaves the items where they are.  A freed item is kept   *)
(* with null pointers and size 0, as the next one at that address is       *)
(* constructed.                                                            *)
(***************************************************************************)
EXTENDS Integers, FiniteSets, LRUList

CONSTANTS
  Containers, \* the LRUSet or LRUMap objects
  Keys,       \* K, KeyT
  Sizes,      \* the sizes that callers pass
  Modulus     \* number of values of size_t

Item == Containers \X Keys

\* The sizes that fit in ssize_t, the type of touch's argument.
SignedSizes == {s \in Sizes : 2 * s < Modulus}

ASSUME ItemAssumption ==
  /\ Null \notin Item
  /\ Modulus \in Nat \ {0}
  /\ Sizes \subseteq 0 .. Modulus - 1

VARIABLES
  table,      \* the hash table of each container
  live,       \* the items that are allocated
  head, tail, \* of each container
  prev, next, \* of each item
  size,       \* of each item
  total,      \* total_size of each container
  newer       \* history: pairs of items, the first used more recently

itemVars == <<table, live, head, tail, prev, next, size, total, newer>>

\* What unordered_map::find finds: the item of key k, if it is live.
At(c, k) == <<table[c], k>>
Has(c, k) == At(c, k) \in live

ItemsOf(c) == {i \in live : i[1] = table[c]}
NewerOf(c) == {p \in newer : p[1][1] = table[c]}

ListOf(c) == [head |-> head[c], tail |-> tail[c], prev |-> prev, next |-> next]

InitItems ==
  /\ table = [c \in Containers |-> c]
  /\ live = {}
  /\ head = [c \in Containers |-> Null]
  /\ tail = [c \in Containers |-> Null]
  /\ prev = [i \in Item |-> Null]
  /\ next = [i \in Item |-> Null]
  /\ size = [i \in Item |-> 0]
  /\ total = [c \in Containers |-> 0]
  /\ newer = {}

-----------------------------------------------------------------------------
SetList(c, L) ==
  /\ head' = [head EXCEPT ![c] = L.head]
  /\ tail' = [tail EXCEPT ![c] = L.tail]
  /\ prev' = L.prev
  /\ next' = L.next

\* The unsigned arithmetic of size_t.  What is added may be the difference of two
\* sizes, taken in size_t or in ssize_t: it is the same number modulo Modulus.
AddToTotal(c, d) == total' = [total EXCEPT ![c] = (@ + d) % Modulus]

Use(c, i) == newer' = MakeNewest(ItemsOf(c), newer, i)

\* Mutant: the new size is added and the old one not taken off.
ResizeAdds(c, i, s) ==
  /\ AddToTotal(c, s)
  /\ size' = [size EXCEPT ![i] = s]

Resize(c, i, s) ==
  /\ AddToTotal(c, s - size[i])
  /\ size' = [size EXCEPT ![i] = s]

\* A new item is linked in at the front.
Add(c, i, s) ==
  /\ live' = live \cup {i}
  /\ size' = [size EXCEPT ![i] = s]
  /\ AddToTotal(c, s)
  /\ SetList(c, Link(ListOf(c), i))
  /\ Use(c, i)
  /\ UNCHANGED table

\* An item is used, so that the list becomes L, and gets size s.
Renew(c, i, L, s) ==
  /\ SetList(c, L)
  /\ Use(c, i)
  /\ Resize(c, i, s)
  /\ UNCHANGED <<table, live>>

\* Mutant: the size of an item that leaves stays in the total.
FreeKeepsTotal(c, i) ==
  /\ SetList(c, Unlink(ListOf(c), i))
  /\ live' = live \ {i}
  /\ size' = [size EXCEPT ![i] = 0]
  /\ newer' = Forget(newer, i)
  /\ UNCHANGED <<table, total>>

\* An item is unlinked and erased from the table.
Free(c, i) ==
  /\ SetList(c, Unlink(ListOf(c), i))
  /\ live' = live \ {i}
  /\ AddToTotal(c, -size[i])
  /\ size' = [size EXCEPT ![i] = 0]
  /\ newer' = Forget(newer, i)
  /\ UNCHANGED table

FreeAll(c) ==
  /\ head' = [head EXCEPT ![c] = Null]
  /\ tail' = [tail EXCEPT ![c] = Null]
  /\ live' = live \ ItemsOf(c)
  /\ prev' = [i \in Item |-> IF i \in ItemsOf(c) THEN Null ELSE prev[i]]
  /\ next' = [i \in Item |-> IF i \in ItemsOf(c) THEN Null ELSE next[i]]
  /\ size' = [i \in Item |-> IF i \in ItemsOf(c) THEN 0 ELSE size[i]]
  /\ newer' = newer \ NewerOf(c)
  /\ total' = [total EXCEPT ![c] = 0]
  /\ UNCHANGED table

\* Mutant: the tables are exchanged and the totals, the lists are not.
ExchangeKeepsLists(c, d) ==
  /\ table' = [table EXCEPT ![c] = table[d], ![d] = table[c]]
  /\ total' = [total EXCEPT ![c] = total[d], ![d] = total[c]]
  /\ UNCHANGED <<live, head, tail, prev, next, size, newer>>

Exchange(c, d) ==
  /\ table' = [table EXCEPT ![c] = table[d], ![d] = table[c]]
  /\ head' = [head EXCEPT ![c] = head[d], ![d] = head[c]]
  /\ tail' = [tail EXCEPT ![c] = tail[d], ![d] = tail[c]]
  /\ total' = [total EXCEPT ![c] = total[d], ![d] = total[c]]
  /\ UNCHANGED <<live, prev, next, size, newer>>

-----------------------------------------------------------------------------
(* Properties. *)

ItemsOK ==
  /\ table \in [Containers -> Containers]
  /\ live \in SUBSET Item
  /\ head \in [Containers -> Item \cup {Null}]
  /\ tail \in [Containers -> Item \cup {Null}]
  /\ prev \in [Item -> Item \cup {Null}]
  /\ next \in [Item -> Item \cup {Null}]
  /\ size \in [Item -> 0 .. Modulus - 1]
  /\ total \in [Containers -> 0 .. Modulus - 1]
  /\ newer \in SUBSET (Item \X Item)

\* No two containers own the same hash table.
TableInv == \A c, d \in Containers : table[c] = table[d] => c = d

\* The list of every container holds exactly the items of its table, in the
\* order of their last use, and no pointer of it is stale.
ListInv == \A c \in Containers : Represents(ListOf(c), ItemsOf(c), newer)

\* Nothing is left behind in memory that was freed, and no order relates it.
FreeInv ==
  /\ \A i \in Item \ live : prev[i] = Null /\ next[i] = Null /\ size[i] = 0
  /\ \A p \in newer : p[1] \in live /\ p[2] \in live /\ p[1][1] = p[2][1]

IInv == ItemsOK /\ TableInv /\ ListInv /\ FreeInv

\* The sum of the sizes sz of a set of items, counted unit by unit: the provers
\* reason about cardinalities, not about a sum defined by recursion.
Units(S, sz) == {u \in S \X (1 .. Modulus - 1) : u[2] <= sz[u[1]]}
SumOfSizes(S, sz) == Cardinality(Units(S, sz))

\* What the containers hold, by key, when an item's value is v[item], and which
\* of two keys was used more recently.
EntriesWith(v) ==
  [c \in Containers |->
     [k \in {x \in Keys : Has(c, x)} |-> [value |-> v[At(c, k)], size |-> size[At(c, k)]]]]

KeyOrder ==
  [c \in Containers |-> {p \in Keys \X Keys : <<At(c, p[1]), At(c, p[2])>> \in newer}]

\* size() is the sum of the sizes of the items that are in the container,
\* whatever the operations did to them before and even where the sum wraps
\* around (LRUSet-inl.hh 39, 48, 78, 95, 112, 172, 189-198; LRUMap.hh 76, 142,
\* 165, 181, 190, 250, 257-266).
TotalIsSum ==
  \A c \in Containers : total[c] = SumOfSizes(ItemsOf(c), size) % Modulus
=============================================================================
