----------------------------- MODULE LRUMapProof -----------------------------
(***************************************************************************)
(* LRUMap: the invariant of its lists and of its totals, that every entry *)
(* has a value, and that it is a container ordered by last use, for any    *)
(* number of maps, keys, values and sizes.                                 *)
(***************************************************************************)
EXTENDS LRUMap, LRUItemsProof

LEMMA StepKeeps == IInv /\ [Next]_vars => IInv'
<1> SUFFICES ASSUME IInv, [Next]_vars PROVE IInv'
  OBVIOUS
<1>1. ASSUME UNCHANGED itemVars PROVE IInv'
  BY <1>1 DEF IInv, ItemsOK, TableInv, ListInv, FreeInv, ListOf, ItemsOf, itemVars
<1>2. ASSUME NEW c \in Containers, NEW k \in Keys, Has(c, k)
      PROVE  At(c, k) \in ItemsOf(c) /\ size[At(c, k)] \in 0 .. Modulus - 1
  BY <1>2 DEF Has, At, ItemsOf, Item, IInv, ItemsOK
<1>3. \A s \in Sizes : s \in 0 .. Modulus - 1
  BY ItemAssumption
<1>4. ASSUME NEW c \in Containers, NEW k \in Keys, Lookup(c, k) PROVE IInv'
  BY <1>1, <1>2, <1>4, RenewKeeps DEF Lookup
<1>5. ASSUME NEW c \in Containers, NEW k \in Keys, NEW v \in Values, NEW s \in Sizes,
             Insert(c, k, v, s)
      PROVE  IInv'
  BY <1>3, <1>5, AddKeeps, RenewKeeps DEF Insert
<1>6. ASSUME NEW c \in Containers, NEW k \in Keys, NEW v \in Values, NEW s \in Sizes,
             Emplace(c, k, v, s)
      PROVE  IInv'
  BY <1>1, <1>6, AddKeeps DEF Emplace
<1>7. ASSUME NEW c \in Containers, NEW k \in Keys, Erase(c, k) PROVE IInv'
  BY <1>1, <1>2, <1>7, FreeKeeps DEF Erase
<1>8. ASSUME NEW c \in Containers, Clear(c) PROVE IInv'
  BY <1>8, FreeAllKeeps DEF Clear
<1>9. ASSUME NEW c \in Containers, NEW k \in Keys, NEW s \in Sizes,
             NEW touch \in BOOLEAN, ChangeSize(c, k, s, touch)
      PROVE  IInv'
  BY <1>1, <1>3, <1>9, RenewKeeps, ResizeKeeps DEF ChangeSize
<1>10. ASSUME NEW c \in Containers, NEW k \in Keys, NEW s \in SignedSizes \cup {-1},
              Touch(c, k, s)
       PROVE  IInv'
  <2>1. Has(c, k) => (IF s >= 0 THEN s ELSE size[At(c, k)]) \in 0 .. Modulus - 1
    BY <1>2, <1>3 DEF SignedSizes
  <2>2. QED
    BY <1>1, <1>10, <2>1, RenewKeeps DEF Touch
<1>11. ASSUME NEW c \in Containers, EvictObject(c) PROVE IInv'
  BY <1>1, <1>11, TailInside, FreeKeeps DEF EvictObject
<1>12. ASSUME NEW c \in Containers, NEW d \in Containers, Swap(c, d) PROVE IInv'
  BY <1>12, ExchangeKeeps DEF Swap
<1>13. QED
  BY <1>1, <1>4, <1>5, <1>6, <1>7, <1>8, <1>9, <1>10, <1>11, <1>12
     DEF Next, vars, itemVars

\* The list of every map holds exactly the entries of its table in the order of
\* their last use, through any history of operations and swaps
\* (LRUMap.hh 40-73, 87-267).
THEOREM Invariance == Spec => []IInv
<1>1. Init => IInv
  BY InitKeeps DEF Init
<1>2. QED
  BY <1>1, StepKeeps, PTL DEF Spec

-----------------------------------------------------------------------------
ValueOK ==
  /\ value \in [Item -> Values \cup {Null}]
  /\ \A i \in Item : value[i] = Null <=> i \notin live

LEMMA ValueStep ==
  ASSUME IInv, ValueOK, [Next]_vars
  PROVE  ValueOK'
<1> USE ValueAssumption DEF ValueOK
<1>1. \A c \in Containers, k \in Keys : At(c, k) \in Item
  BY DEF At, Item, IInv, ItemsOK
<1>2. \A c \in Containers : ItemsOf(c) \subseteq live
  BY DEF ItemsOf
<1>3. ASSUME UNCHANGED <<live, value>> PROVE ValueOK'
  BY <1>3
<1>4. ASSUME NEW c \in Containers, NEW k \in Keys,
             NEW v \in Values, live' = live \cup {At(c, k)}, SetValue(At(c, k), v)
      PROVE  ValueOK'
  BY <1>1, <1>4 DEF SetValue
<1>5. ASSUME NEW i \in live, live' = live \ {i}, SetValue(i, Null)
      PROVE  ValueOK'
  BY <1>5 DEF SetValue, IInv, ItemsOK
<1>6. ASSUME NEW c \in Containers, NEW k \in Keys, Lookup(c, k) PROVE ValueOK'
  BY <1>3, <1>6 DEF Lookup, Renew, itemVars
<1>7. ASSUME NEW c \in Containers, NEW k \in Keys, NEW v \in Values, NEW s \in Sizes,
             Insert(c, k, v, s)
      PROVE  ValueOK'
  <2>1. live' = live \cup {At(c, k)} /\ SetValue(At(c, k), v)
    BY <1>7 DEF Insert, Renew, Add, Has
  <2>2. QED
    BY <1>4, <2>1
<1>8. ASSUME NEW c \in Containers, NEW k \in Keys, NEW v \in Values, NEW s \in Sizes,
             Emplace(c, k, v, s)
      PROVE  ValueOK'
  BY <1>3, <1>4, <1>8 DEF Emplace, Add, itemVars
<1>9. ASSUME NEW c \in Containers, NEW k \in Keys, Erase(c, k) PROVE ValueOK'
  BY <1>3, <1>5, <1>9 DEF Erase, Free, Has, itemVars
<1>10. ASSUME NEW c \in Containers, Clear(c) PROVE ValueOK'
  BY <1>2, <1>10 DEF Clear, FreeAll
<1>11. ASSUME NEW c \in Containers, NEW k \in Keys, NEW s \in Sizes,
              NEW touch \in BOOLEAN, ChangeSize(c, k, s, touch)
       PROVE  ValueOK'
  BY <1>3, <1>11 DEF ChangeSize, Renew, itemVars
<1>12. ASSUME NEW c \in Containers, NEW k \in Keys, NEW s \in SignedSizes \cup {-1},
              Touch(c, k, s)
       PROVE  ValueOK'
  BY <1>3, <1>12 DEF Touch, Renew, itemVars
<1>13. ASSUME NEW c \in Containers, EvictObject(c) PROVE ValueOK'
  <2>1. tail[c] # Null => tail[c] \in live
    BY <1>2, TailInside
  <2>2. QED
    BY <1>3, <1>5, <1>13, <2>1 DEF EvictObject, Free, itemVars
<1>14. ASSUME NEW c \in Containers, NEW d \in Containers, Swap(c, d) PROVE ValueOK'
  BY <1>3, <1>14 DEF Swap, Exchange
<1>15. QED
  BY <1>3, <1>6, <1>7, <1>8, <1>9, <1>10, <1>11, <1>12, <1>13, <1>14
     DEF Next, vars, itemVars

LEMMA ValueInit == Init => ValueOK
BY ValueAssumption DEF Init, InitItems, ValueOK

\* Every entry of a map has a value, and no value outlives its entry
\* (LRUMap.hh 127-191, 237-252).
THEOREM Typing == Spec => []TypeOK
<1>1. Init => ValueOK
  BY ValueInit
<1>2. IInv /\ ValueOK /\ [Next]_vars => ValueOK'
  BY ValueStep
<1>3. IInv /\ ValueOK => TypeOK
  BY DEF IInv, ValueOK, TypeOK
<1>4. QED
  BY <1>1, <1>2, <1>3, Invariance, PTL DEF Spec

\* What evict_object removes is the entry used least recently, with its value
\* and size, and it removes nothing else (LRUMap.hh 237-252).
LeastRecentlyUsed ==
  \A c \in Containers : EvictObject(c) /\ ItemsOf(c) # {} =>
    \E i \in ItemsOf(c) :
      /\ \A j \in ItemsOf(c) \ {i} : <<j, i>> \in newer
      /\ ret' = <<i[2], value[i], size[i]>>
      /\ live' = live \ {i}

THEOREM EvictsOldest == Spec => [][LeastRecentlyUsed]_vars
<1>1. IInv => LeastRecentlyUsed
  <2> SUFFICES ASSUME IInv, NEW c \in Containers, EvictObject(c), ItemsOf(c) # {}
               PROVE  \E i \in ItemsOf(c) :
                        /\ \A j \in ItemsOf(c) \ {i} : <<j, i>> \in newer
                        /\ ret' = <<i[2], value[i], size[i]>>
                        /\ live' = live \ {i}
    BY DEF LeastRecentlyUsed
  <2>1. tail[c] # Null
    BY DEF IInv, ListInv, ListOf, Represents
  <2>2. /\ tail[c] \in ItemsOf(c)
        /\ \A i \in ItemsOf(c) \ {tail[c]} : <<i, tail[c]>> \in newer
    BY <2>1, TailInside
  <2>3. /\ ret' = <<tail[c][2], value[tail[c]], size[tail[c]]>>
        /\ live' = live \ {tail[c]}
    BY <2>1 DEF EvictObject, Free
  <2>4. QED
    BY <2>2, <2>3
<1>2. QED
  BY <1>1, Invariance, PTL

-----------------------------------------------------------------------------
(* What the calls do to the container that a map stands for. *)

LEMMA SeenAs ==
  /\ Entries = EntriesWith(value)
  /\ Entries' = View(table', live', size', value')
  /\ KeyOrder' = Pairs(table', newer')
BY DEF Entries, EntriesWith, KeyOrder, View, Row, Pairs, PairsOf, Has, At

LEMMA EntriesKept ==
  ASSUME UNCHANGED <<itemVars, value>>
  PROVE  Entries' = Entries /\ KeyOrder' = KeyOrder
BY DEF Entries, EntriesWith, KeyOrder, Has, At, itemVars

LEMMA HasSame ==
  ASSUME NEW c \in Containers
  PROVE  /\ DOMAIN Entries[c] = {k \in Keys : Has(c, k)}
         /\ \A k \in Keys : Abstract!Has(c, k) <=> Has(c, k)
<1>1. DOMAIN Entries[c] = {k \in Keys : Has(c, k)}
  BY RowKeys DEF Entries
<1>2. QED
  BY <1>1 DEF Abstract!Has

\* The entries when the item of k gets a size and a value.
LEMMA EntryBound ==
  ASSUME IInv, NEW c \in Containers, NEW k \in Keys, NEW i, i = At(c, k), table' = table,
         \A j \in Item : j \in live' <=> j \in live \/ j = i,
         \A j \in Item \ {i} : size'[j] = size[j],
         \A j \in Item \ {i} : value'[j] = value[j]
  PROVE  Abstract!Bind(c, k, [value |-> value'[i], size |-> size'[i]])
<1> DEFINE e == [value |-> value'[i], size |-> size'[i]]
<1>1. e = [value |-> value'[i], size |-> size'[i]]
  OBVIOUS
<1> HIDE DEF e
<1>2. View(table', live', size', value') = [EntriesWith(value) EXCEPT ![c] = Bound(@, k, e)]
  BY <1>1, BindMatches
<1>3. Entries' = [Entries EXCEPT ![c] = Bound(@, k, e)]
  BY <1>2, SeenAs
<1>4. Bound(Entries[c], k, e) =
        [x \in DOMAIN Entries[c] \cup {k} |-> IF x = k THEN e ELSE Entries[c][x]]
  BY DEF Bound
<1>5. Abstract!Bind(c, k, e)
  BY <1>3, <1>4 DEF Abstract!Bind
<1>6. QED
  BY <1>5 DEF e

\* What Add, Renew and Resize do to the item of k.
LEMMA ItemBound ==
  ASSUME IInv, ValueOK, NEW c \in Containers, NEW k \in Keys, table' = table,
         live' = live \cup {At(c, k)},
         NEW s, size' = [size EXCEPT ![At(c, k)] = s],
         NEW v, value' = [value EXCEPT ![At(c, k)] = v]
  PROVE  Abstract!Bind(c, k, [value |-> v, size |-> s])
<1> DEFINE i == At(c, k)
<1>1. i \in Item /\ size'[i] = s /\ value'[i] = v
  BY DEF At, Item, IInv, ItemsOK, ValueOK
<1>2. /\ \A j \in Item : j \in live' <=> j \in live \/ j = i
      /\ \A j \in Item \ {i} : size'[j] = size[j]
      /\ \A j \in Item \ {i} : value'[j] = value[j]
  BY <1>1 DEF IInv, ItemsOK, ValueOK
<1>3. Abstract!Bind(c, k, [value |-> value'[i], size |-> size'[i]])
  BY <1>2, EntryBound
<1>4. QED
  BY <1>1, <1>3

\* The order when k is used.
LEMMA UseSeen ==
  ASSUME IInv, NEW c \in Containers, NEW k \in Keys, table' = table, Use(c, At(c, k))
  PROVE  Abstract!Use(c, k)
<1> DEFINE keys == {x \in Keys : Has(c, x)}
<1>1. KeyOrder' = [KeyOrder EXCEPT ![c] = Used(@, k, keys)]
  BY SeenAs, UseMatches
<1>2. DOMAIN Entries[c] = keys
  BY HasSame
<1> HIDE DEF keys
<1>3. QED
  BY <1>1, <1>2 DEF Abstract!Use, Abstract!Others, Used, Kept

\* A call that does not find its key, and one that does.
LEMMA Missed ==
  ASSUME NEW c \in Containers, NEW k \in Keys, ~Has(c, k), UNCHANGED <<itemVars, value>>
  PROVE  (Has(c, k) = FALSE) /\ UNCHANGED <<Entries, KeyOrder>> /\ ~Abstract!Has(c, k)
<1>1. Has(c, k) = FALSE
  BY DEF Has
<1>2. QED
  BY <1>1, EntriesKept, HasSame

LEMMA Found ==
  ASSUME NEW c \in Containers, NEW k \in Keys, Has(c, k)
  PROVE  (Has(c, k) = TRUE) /\ Abstract!Has(c, k)
<1>1. Has(c, k) = TRUE
  BY DEF Has
<1>2. QED
  BY <1>1, HasSame

\* An item that leaves takes its entry with it.
LEMMA FreeSeen ==
  ASSUME IInv, ValueOK, NEW c \in Containers, NEW k \in Keys, Free(c, At(c, k)),
         SetValue(At(c, k), Null)
  PROVE  /\ Abstract!Remove(c, k)
         /\ KeyOrder' = [KeyOrder EXCEPT ![c] = Abstract!Others(c, k)]
<1>1. \A j \in Item \ {At(c, k)} : value'[j] = value[j]
  BY DEF SetValue, ValueOK
<1>2. Entries' = [Entries EXCEPT ![c] = Without(@, k)]
  BY <1>1, SeenAs, RemoveMatches
<1>3. KeyOrder' = [KeyOrder EXCEPT ![c] = Kept(@, k)]
  BY SeenAs, ForgetMatches
<1>4. Without(Entries[c], k) = [x \in DOMAIN Entries[c] \ {k} |-> Entries[c][x]]
  BY DEF Without
<1>5. Kept(KeyOrder[c], k) = Abstract!Others(c, k)
  BY DEF Kept, Abstract!Others
<1>6. QED
  BY <1>2, <1>3, <1>4, <1>5 DEF Abstract!Remove

\* What the entry of a live item is.
LEMMA EntryIs ==
  ASSUME IInv, NEW c \in Containers, NEW k \in Keys, Has(c, k)
  PROVE  /\ Entries[c][k] = [value |-> value[At(c, k)], size |-> size[At(c, k)]]
         /\ Entries[c][k].value = value[At(c, k)]
         /\ Entries[c][k].size = size[At(c, k)]
<1>1. Entries[c][k] = [value |-> value[At(c, k)], size |-> size[At(c, k)]]
  BY DEF Entries, EntriesWith
<1>2. QED
  BY <1>1

LEMMA PutMatches ==
  ASSUME IInv, ValueOK, NEW c \in Containers, NEW k \in Keys, NEW v \in Values,
         NEW s \in Sizes, Insert(c, k, v, s)
  PROVE  Abstract!Put(c, k, v, s)
<1>1. /\ table' = table /\ size' = [size EXCEPT ![At(c, k)] = s] /\ Use(c, At(c, k))
      /\ live' = live \cup {At(c, k)} /\ value' = [value EXCEPT ![At(c, k)] = v]
  BY DEF Insert, Renew, Resize, Add, Has, SetValue
<1>2. ret' = <<~Abstract!Has(c, k)>>
  <2>1. ret' = <<~Has(c, k)>>
    BY DEF Insert
  <2>2. (~Has(c, k)) = (~Abstract!Has(c, k))
    BY HasSame
  <2>3. QED
    BY <2>1, <2>2
<1>3. Abstract!Bind(c, k, [value |-> v, size |-> s])
  BY <1>1, ItemBound
<1>4. Abstract!Use(c, k)
  BY <1>1, UseSeen
<1>5. QED
  BY <1>2, <1>3, <1>4 DEF Abstract!Put

LEMMA EmplaceMatches ==
  ASSUME IInv, ValueOK, NEW c \in Containers, NEW k \in Keys, NEW v \in Values,
         NEW s \in Sizes, Emplace(c, k, v, s)
  PROVE  Abstract!Emplace(c, k, v, s)
<1>1. CASE Has(c, k)
  <2>1. ret' = <<~Has(c, k)>> /\ UNCHANGED <<Entries, KeyOrder>>
    BY <1>1, EntriesKept DEF Emplace
  <2>2. (~Has(c, k)) = FALSE
    BY <1>1
  <2>3. QED
    BY <1>1, <2>1, <2>2, Found DEF Abstract!Emplace
<1>2. CASE ~Has(c, k)
  <2>1. Insert(c, k, v, s)
    BY <1>2 DEF Emplace, Insert
  <2>2. QED
    BY <1>2, <2>1, PutMatches, HasSame DEF Abstract!Emplace
<1>3. QED
  BY <1>1, <1>2

LEMMA EraseMatches ==
  ASSUME IInv, ValueOK, NEW c \in Containers, NEW k \in Keys, Erase(c, k)
  PROVE  Abstract!Erase(c, k)
<1>1. CASE Has(c, k)
  <2>1. Free(c, At(c, k)) /\ SetValue(At(c, k), Null) /\ ret' = <<Has(c, k)>>
    BY <1>1 DEF Erase
  <2>2. /\ Abstract!Remove(c, k)
        /\ KeyOrder' = [KeyOrder EXCEPT ![c] = Abstract!Others(c, k)]
    BY <2>1, FreeSeen
  <2>3. ret' = <<TRUE>> /\ Abstract!Has(c, k)
    BY <1>1, <2>1, Found
  <2>4. QED
    BY <2>2, <2>3 DEF Abstract!Erase
<1>2. CASE ~Has(c, k)
  BY <1>2, Missed DEF Erase, Abstract!Erase
<1>3. QED
  BY <1>1, <1>2

\* An entry that is used and keeps its size.
LEMMA UsedSame ==
  ASSUME IInv, NEW c \in Containers, NEW k \in Keys, Has(c, k), NEW L,
         Renew(c, At(c, k), L, size[At(c, k)]), UNCHANGED value
  PROVE  Abstract!Use(c, k) /\ Entries' = Entries
<1>1. /\ table' = table /\ live' = live /\ Use(c, At(c, k))
      /\ size' = [size EXCEPT ![At(c, k)] = size[At(c, k)]]
  BY DEF Renew, Resize
<1>2. size' = size
  BY <1>1 DEF IInv, ItemsOK
<1>3. Entries' = Entries
  BY <1>1, <1>2 DEF Entries, EntriesWith, Has, At
<1>4. QED
  BY <1>1, <1>3, UseSeen

\* An entry that gets size s and keeps its value.
LEMMA Resized ==
  ASSUME IInv, ValueOK, NEW c \in Containers, NEW k \in Keys, Has(c, k), NEW s,
         table' = table, live' = live, Resize(c, At(c, k), s), UNCHANGED value
  PROVE  Abstract!Bind(c, k, [value |-> Entries[c][k].value, size |-> s])
<1> DEFINE i == At(c, k)
<1>1. i \in live /\ i \in Item
  BY DEF Has, IInv, ItemsOK
<1>2. live' = live \cup {i} /\ size' = [size EXCEPT ![i] = s]
  BY <1>1 DEF Resize
<1>3. value' = [value EXCEPT ![i] = value[i]]
  BY <1>1 DEF ValueOK
<1>4. Abstract!Bind(c, k, [value |-> value[i], size |-> s])
  BY <1>2, <1>3, ItemBound
<1>5. QED
  BY <1>4, EntryIs

LEMMA AtMatches ==
  ASSUME IInv, ValueOK, NEW c \in Containers, NEW k \in Keys, Lookup(c, k)
  PROVE  Abstract!At(c, k)
<1>1. CASE Has(c, k)
  <2>1. ret' = <<Entries[c][k].value>>
    BY <1>1, EntryIs DEF Lookup
  <2>2. Abstract!Use(c, k) /\ Entries' = Entries
    BY <1>1, UsedSame DEF Lookup
  <2>3. QED
    BY <1>1, <2>1, <2>2, Found DEF Abstract!At
<1>2. CASE ~Has(c, k)
  BY <1>2, Missed DEF Lookup, Abstract!At
<1>3. QED
  BY <1>1, <1>2

LEMMA TouchMatches ==
  ASSUME IInv, ValueOK, NEW c \in Containers, NEW k \in Keys,
         NEW s \in SignedSizes \cup {-1}, Touch(c, k, s)
  PROVE  Abstract!Update(c, k, s, TRUE)
<1>1. CASE Has(c, k)
  <2> DEFINE i == At(c, k)
             L == MoveToFront(ListOf(c), i)
  <2>1. /\ ret' = <<Has(c, k)>> /\ UNCHANGED value
        /\ Renew(c, i, L, IF s >= 0 THEN s ELSE size[i])
    BY <1>1 DEF Touch
  <2>2. ret' = <<TRUE>> /\ Abstract!Has(c, k)
    BY <1>1, <2>1, Found
  <2> HIDE DEF L
  <2>3. CASE s = -1
    <3>1. Abstract!Use(c, k) /\ Entries' = Entries
      BY <1>1, <2>1, <2>3, UsedSame
    <3>2. QED
      BY <2>2, <2>3, <3>1 DEF Abstract!Update
  <2>4. CASE s # -1
    <3>1. s >= 0
      BY <2>4, ItemAssumption DEF SignedSizes
    <3>2. table' = table /\ live' = live /\ Use(c, i) /\ Resize(c, i, s)
      BY <2>1, <3>1 DEF Renew
    <3>3. Abstract!Bind(c, k, [value |-> Entries[c][k].value, size |-> s])
      BY <1>1, <2>1, <3>2, Resized
    <3>4. Abstract!Use(c, k)
      BY <3>2, UseSeen
    <3>5. QED
      BY <2>2, <2>4, <3>3, <3>4 DEF Abstract!Update
  <2>5. QED
    BY <2>3, <2>4
<1>2. CASE ~Has(c, k)
  BY <1>2, Missed DEF Touch, Abstract!Update
<1>3. QED
  BY <1>1, <1>2

LEMMA ChangeSizeMatches ==
  ASSUME IInv, ValueOK, NEW c \in Containers, NEW k \in Keys, NEW s \in Sizes,
         NEW touch \in BOOLEAN, ChangeSize(c, k, s, touch)
  PROVE  Abstract!Update(c, k, s, touch)
<1>1. CASE Has(c, k)
  <2>1. ret' = <<TRUE>> /\ Abstract!Has(c, k)
    BY <1>1, Found DEF ChangeSize
  <2>2. table' = table /\ live' = live /\ Resize(c, At(c, k), s) /\ UNCHANGED value
    BY <1>1 DEF ChangeSize, Renew
  <2>3. Abstract!Bind(c, k, [value |-> Entries[c][k].value, size |-> s])
    BY <1>1, <2>2, Resized
  <2>4. IF touch THEN Abstract!Use(c, k) ELSE KeyOrder' = KeyOrder
    <3>1. CASE touch
      <4>1. Use(c, At(c, k))
        BY <1>1, <3>1 DEF ChangeSize, Renew
      <4>2. QED
        BY <2>2, <3>1, <4>1, UseSeen
    <3>2. CASE ~touch
      BY <1>1, <3>2 DEF ChangeSize, KeyOrder, At
    <3>3. QED
      BY <3>1, <3>2
  <2>5. s # -1
    BY ItemAssumption
  <2>6. QED
    BY <2>1, <2>3, <2>4, <2>5 DEF Abstract!Update
<1>2. CASE ~Has(c, k)
  BY <1>2, Missed DEF ChangeSize, Abstract!Update
<1>3. QED
  BY <1>1, <1>2

LEMMA ClearMatchesCall ==
  ASSUME IInv, NEW c \in Containers, Clear(c)
  PROVE  Abstract!Clear(c)
<1>1. FreeAll(c) /\ ret' = <<>> /\ \A j \in Item \ ItemsOf(c) : value'[j] = value[j]
  BY DEF Clear
<1>2. View(table', live', size', value') = [EntriesWith(value) EXCEPT ![c] = <<>>]
      /\ Pairs(table', newer') = [KeyOrder EXCEPT ![c] = {}]
  BY <1>1, ClearMatches
<1>3. QED
  BY <1>1, <1>2, SeenAs DEF Abstract!Clear

\* The tail of the list is the entry used least recently.
LEMMA TailSeen ==
  ASSUME IInv, NEW c \in Containers, tail[c] # Null, NEW k, k = tail[c][2]
  PROVE  /\ k \in Keys /\ tail[c] = At(c, k) /\ Has(c, k)
         /\ DOMAIN Entries[c] # {}
         /\ Abstract!LeastRecent(c, k)
         /\ Abstract!Entry(c, k) = <<k, value[tail[c]], size[tail[c]]>>
<1>1. /\ tail[c] \in ItemsOf(c)
      /\ \A i \in ItemsOf(c) \ {tail[c]} : <<i, tail[c]>> \in newer
  BY TailInside
<1>2. tail[c] \in live /\ tail[c] \in Item /\ tail[c][1] = table[c]
  BY <1>1 DEF ItemsOf, IInv, ItemsOK
<1>3. k \in Keys /\ tail[c] = At(c, k) /\ Has(c, k)
  BY <1>2 DEF Item, At, Has
<1>4. DOMAIN Entries[c] # {} /\ Abstract!Has(c, k)
  BY <1>3, HasSame
<1>5. ASSUME NEW x \in DOMAIN Entries[c] \ {k}
      PROVE  <<x, k>> \in KeyOrder[c]
  <2>1. x \in Keys /\ Has(c, x) /\ x # k
    BY <1>5, HasSame
  <2>2. At(c, x) \in ItemsOf(c) \ {tail[c]}
    BY <1>3, <2>1 DEF At, Has, ItemsOf
  <2>3. <<At(c, x), At(c, k)>> \in newer
    BY <1>1, <1>3, <2>2
  <2>4. QED
    BY <1>3, <2>1, <2>3 DEF KeyOrder
<1>6. Abstract!LeastRecent(c, k)
  BY <1>4, <1>5 DEF Abstract!LeastRecent
<1>7. Abstract!Entry(c, k) = <<k, value[tail[c]], size[tail[c]]>>
  BY <1>3, EntryIs DEF Abstract!Entry
<1>8. QED
  BY <1>3, <1>4, <1>6, <1>7

LEMMA NoTail ==
  ASSUME IInv, NEW c \in Containers, tail[c] = Null
  PROVE  DOMAIN Entries[c] = {}
<1>1. ItemsOf(c) = {}
  BY DEF IInv, ListInv, ListOf, Represents
<1>2. \A k \in Keys : ~Has(c, k)
  BY <1>1 DEF Has, At, ItemsOf
<1>3. QED
  BY <1>2, HasSame

LEMMA EvictMatches ==
  ASSUME IInv, ValueOK, NEW c \in Containers, EvictObject(c)
  PROVE  Abstract!Evict(c)
<1>1. CASE tail[c] = Null
  <2>1. ret' = <<>> /\ UNCHANGED <<Entries, KeyOrder>>
    BY <1>1, EntriesKept DEF EvictObject
  <2>2. QED
    BY <1>1, <2>1, NoTail DEF Abstract!Evict
<1>2. CASE tail[c] # Null
  <2> DEFINE k == tail[c][2]
  <2>1. /\ ret' = <<k, value[tail[c]], size[tail[c]]>>
        /\ Free(c, tail[c]) /\ SetValue(tail[c], Null)
    BY <1>2 DEF EvictObject
  <2>2. /\ k \in Keys /\ DOMAIN Entries[c] # {} /\ Abstract!LeastRecent(c, k)
        /\ ret' = Abstract!Entry(c, k) /\ tail[c] = At(c, k)
    BY <1>2, <2>1, TailSeen
  <2>3. Free(c, At(c, k)) /\ SetValue(At(c, k), Null)
    BY <2>1, <2>2
  <2> HIDE DEF k
  <2>4. Abstract!Remove(c, k) /\ KeyOrder' = [KeyOrder EXCEPT ![c] = Abstract!Others(c, k)]
    BY <2>2, <2>3, FreeSeen
  <2>5. QED
    BY <2>2, <2>4 DEF Abstract!Evict
<1>3. QED
  BY <1>1, <1>2

LEMMA SwapMatchesCall ==
  ASSUME IInv, NEW c \in Containers, NEW d \in Containers, Swap(c, d)
  PROVE  Abstract!Swap(c, d)
<1>1. Exchange(c, d) /\ ret' = <<>> /\ value' = value
  BY DEF Swap
<1>2. View(table', live', size', value) = [Entries EXCEPT ![c] = Entries[d], ![d] = Entries[c]]
      /\ Pairs(table', newer') = [KeyOrder EXCEPT ![c] = KeyOrder[d], ![d] = KeyOrder[c]]
  BY <1>1, SwapMatches, SeenAs
<1>3. QED
  BY <1>1, <1>2, SeenAs DEF Abstract!Swap

LEMMA InitMatches == Init => Abstract!Init
<1> SUFFICES ASSUME Init PROVE Abstract!Init
  OBVIOUS
<1>1. \A c \in Containers : {k \in Keys : Has(c, k)} = {}
  BY DEF Init, InitItems, Has
<1>2. Entries = [c \in Containers |-> <<>>]
  BY <1>1 DEF Entries, EntriesWith
<1>3. KeyOrder = [c \in Containers |-> {}]
  BY DEF Init, InitItems, KeyOrder
<1>4. QED
  BY <1>2, <1>3 DEF Init, Abstract!Init

-----------------------------------------------------------------------------
(* The totals. *)

LEMMA TotalStep == IInv /\ TotalInv /\ [Next]_vars => TotalInv'
<1> SUFFICES ASSUME IInv, TotalInv, [Next]_vars PROVE TotalInv'
  OBVIOUS
<1>1. ASSUME UNCHANGED itemVars PROVE TotalInv'
  BY <1>1 DEF TotalInv, TotalIsSum, ItemsOf, itemVars
<1>2. ASSUME NEW c \in Containers, NEW k \in Keys, Has(c, k)
      PROVE  At(c, k) \in ItemsOf(c) /\ size[At(c, k)] \in 0 .. Modulus - 1
  BY <1>2 DEF Has, At, ItemsOf, Item, IInv, ItemsOK
<1>3. \A s \in Sizes : s \in 0 .. Modulus - 1
  BY ItemAssumption
<1>4. ASSUME NEW c \in Containers, NEW k \in Keys, Has(c, k), NEW L,
             NEW s \in 0 .. Modulus - 1, Renew(c, At(c, k), L, s)
      PROVE  TotalInv'
  <2>1. Resize(c, At(c, k), s) /\ table' = table /\ live' = live
    BY <1>4 DEF Renew
  <2>2. At(c, k) \in ItemsOf(c)
    BY <1>2, <1>4
  <2>3. QED
    BY <1>4, <2>1, <2>2, ResizeTotals
<1>5. ASSUME NEW c \in Containers, NEW k \in Keys, Lookup(c, k) PROVE TotalInv'
  BY <1>1, <1>2, <1>4, <1>5 DEF Lookup
<1>6. ASSUME NEW c \in Containers, NEW k \in Keys, NEW v \in Values, NEW s \in Sizes,
             Insert(c, k, v, s)
      PROVE  TotalInv'
  BY <1>3, <1>4, <1>6, AddTotals DEF Insert
<1>7. ASSUME NEW c \in Containers, NEW k \in Keys, NEW v \in Values, NEW s \in Sizes,
             Emplace(c, k, v, s)
      PROVE  TotalInv'
  BY <1>1, <1>3, <1>7, AddTotals DEF Emplace
<1>8. ASSUME NEW c \in Containers, NEW k \in Keys, Erase(c, k) PROVE TotalInv'
  BY <1>1, <1>2, <1>8, FreeTotals DEF Erase
<1>9. ASSUME NEW c \in Containers, Clear(c) PROVE TotalInv'
  BY <1>9, FreeAllTotals DEF Clear
<1>10. ASSUME NEW c \in Containers, NEW k \in Keys, NEW s \in Sizes,
              NEW touch \in BOOLEAN, ChangeSize(c, k, s, touch)
       PROVE  TotalInv'
  <2>1. CASE Has(c, k)
    <3>1. Resize(c, At(c, k), s) /\ table' = table /\ live' = live
      BY <1>10, <2>1 DEF ChangeSize, Renew
    <3>2. s \in 0 .. Modulus - 1 /\ At(c, k) \in ItemsOf(c)
      BY <1>2, <1>3, <2>1
    <3>3. QED
      BY <3>1, <3>2, ResizeTotals
  <2>2. CASE ~Has(c, k)
    BY <1>1, <1>10, <2>2 DEF ChangeSize
  <2>3. QED
    BY <2>1, <2>2
<1>11. ASSUME NEW c \in Containers, NEW k \in Keys, NEW s \in SignedSizes \cup {-1},
              Touch(c, k, s)
       PROVE  TotalInv'
  <2>1. Has(c, k) => (IF s >= 0 THEN s ELSE size[At(c, k)]) \in 0 .. Modulus - 1
    BY <1>2, <1>3 DEF SignedSizes
  <2>2. QED
    BY <1>1, <1>4, <1>11, <2>1 DEF Touch
<1>12. ASSUME NEW c \in Containers, EvictObject(c) PROVE TotalInv'
  BY <1>1, <1>12, TailInside, FreeTotals DEF EvictObject
<1>13. ASSUME NEW c \in Containers, NEW d \in Containers, Swap(c, d) PROVE TotalInv'
  BY <1>13, ExchangeTotals DEF Swap
<1>14. QED
  BY <1>1, <1>5, <1>6, <1>7, <1>8, <1>9, <1>10, <1>11, <1>12, <1>13
     DEF Next, vars, itemVars

\* The total of every map is the sum of the sizes of its entries modulo 2^w, for
\* sizes that make it wrap around as well (LRUMap.hh 75-78, 127-191, 254-267).
THEOREM Totals == Spec => []TotalIsSum
<1>1. Init => TotalInv
  BY InitTotals DEF Init
<1>2. TotalInv => TotalIsSum
  BY DEF TotalInv
<1>3. QED
  BY <1>1, <1>2, TotalStep, Invariance, PTL DEF Spec

-----------------------------------------------------------------------------
(* The refinement. *)

LEMMA CallsAre == IInv /\ ValueOK => CallsMatch
<1> SUFFICES ASSUME IInv, ValueOK PROVE CallsMatch
  OBVIOUS
<1>1. \A c \in Containers, k \in Keys : /\ Erase(c, k) => Abstract!Erase(c, k)
                                        /\ Lookup(c, k) => Abstract!At(c, k)
  BY EraseMatches, AtMatches
<1>2. \A c \in Containers, k \in Keys, s \in SignedSizes \cup {-1} :
        Touch(c, k, s) => Abstract!Update(c, k, s, TRUE)
  BY TouchMatches
<1>3. \A c \in Containers, k \in Keys, s \in Sizes, touch \in BOOLEAN :
        ChangeSize(c, k, s, touch) => Abstract!Update(c, k, s, touch)
  BY ChangeSizeMatches
<1>4. \A c \in Containers, k \in Keys, v \in Values, s \in Sizes :
        /\ Insert(c, k, v, s) => Abstract!Put(c, k, v, s)
        /\ Emplace(c, k, v, s) => Abstract!Emplace(c, k, v, s)
  BY PutMatches, EmplaceMatches
<1>5. \A c \in Containers : /\ Clear(c) => Abstract!Clear(c)
                            /\ EvictObject(c) => Abstract!Evict(c)
  BY ClearMatchesCall, EvictMatches
<1>6. \A c, d \in Containers : Swap(c, d) => Abstract!Swap(c, d)
  BY SwapMatchesCall
<1>7. QED
  BY <1>1, <1>2, <1>3, <1>4, <1>5, <1>6 DEF CallsMatch

\* Every step is a step of the container ordered by last use, or leaves it alone.
LEMMA StepMatches == CallsMatch /\ [Next]_vars => [Abstract!Next]_(Abstract!avars)
<1> SUFFICES ASSUME CallsMatch, [Next]_vars PROVE [Abstract!Next]_(Abstract!avars)
  OBVIOUS
<1>1. CASE UNCHANGED vars
  BY <1>1, EntriesKept DEF vars, Abstract!avars
<1>2. CASE \E c \in Containers, k \in Keys : Lookup(c, k) \/ Erase(c, k)
  BY <1>2 DEF CallsMatch, Abstract!Next
<1>3. CASE \E c \in Containers, k \in Keys, s \in SignedSizes \cup {-1} : Touch(c, k, s)
  <2>1. PICK c \in Containers, k \in Keys, s \in SignedSizes \cup {-1} : Touch(c, k, s)
    BY <1>3
  <2>2. Abstract!Update(c, k, s, TRUE) /\ s \in Sizes \cup {-1}
    BY <2>1 DEF CallsMatch, SignedSizes
  <2>3. QED
    BY <2>2 DEF Abstract!Next
<1>4. CASE \E c \in Containers, k \in Keys, v \in Values, s \in Sizes :
             Insert(c, k, v, s) \/ Emplace(c, k, v, s)
  BY <1>4 DEF CallsMatch, Abstract!Next
<1>5. CASE \E c \in Containers, k \in Keys, s \in Sizes, touch \in BOOLEAN :
             ChangeSize(c, k, s, touch)
  BY <1>5 DEF CallsMatch, Abstract!Next
<1>6. CASE \E c \in Containers : Clear(c) \/ EvictObject(c)
  BY <1>6 DEF CallsMatch, Abstract!Next
<1>7. CASE \E c, d \in Containers : Swap(c, d)
  BY <1>7 DEF CallsMatch, Abstract!Next
<1>8. QED
  BY <1>1, <1>2, <1>3, <1>4, <1>5, <1>6, <1>7 DEF Next

\* A map refines the container of values ordered by last use, call by call, and
\* its behaviours are behaviours of that container (LRUMap.hh 87-267).
THEOREM Refinement == Spec => ImplementsOrder
<1>1. Spec => []ValueOK
  BY ValueInit, ValueStep, Invariance, PTL DEF Spec
<1>2. QED
  BY <1>1, InitMatches, CallsAre, StepMatches, Invariance, PTL
     DEF Spec, ImplementsOrder, Abstract!Spec
=============================================================================
