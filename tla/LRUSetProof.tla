----------------------------- MODULE LRUSetProof -----------------------------
(***************************************************************************)
(* LRUSet: the invariant of its lists and of its totals, and that it is a  *)
(* container ordered by last use, for any number of sets, keys and sizes.  *)
(***************************************************************************)
EXTENDS LRUSet, LRUItemsProof

LEMMA StepKeeps == IInv /\ [Next]_vars => IInv'
<1> SUFFICES ASSUME IInv, [Next]_vars PROVE IInv'
  OBVIOUS
<1>1. ASSUME UNCHANGED itemVars PROVE IInv'
  BY <1>1 DEF IInv, ItemsOK, TableInv, ListInv, FreeInv, ListOf, ItemsOf, itemVars
<1>2. ASSUME NEW c \in Containers, NEW k \in Keys, NEW s \in Sizes, Insert(c, k, s)
      PROVE  IInv'
  <2>1. s \in 0 .. Modulus - 1
    BY ItemAssumption
  <2>2. QED
    BY <1>2, <2>1, AddKeeps, RenewKeeps DEF Insert
<1>3. ASSUME NEW c \in Containers, NEW k \in Keys, Erase(c, k) PROVE IInv'
  <2>1. Has(c, k) => At(c, k) \in ItemsOf(c)
    BY DEF Has, At, ItemsOf
  <2>2. QED
    BY <1>1, <1>3, <2>1, FreeKeeps DEF Erase
<1>4. ASSUME NEW c \in Containers, NEW k \in Keys, NEW s \in Sizes, ChangeSize(c, k, s)
      PROVE  IInv'
  BY <1>1, <1>4, ResizeKeeps DEF ChangeSize
<1>5. ASSUME NEW c \in Containers, NEW k \in Keys, NEW s \in SignedSizes \cup {-1},
             Touch(c, k, s)
      PROVE  IInv'
  <2>1. Has(c, k) => (IF s >= 0 THEN s ELSE size[At(c, k)]) \in 0 .. Modulus - 1
    BY ItemAssumption DEF SignedSizes, Has, At, Item, IInv, ItemsOK
  <2>2. QED
    BY <1>1, <1>5, <2>1, RenewKeeps DEF Touch
<1>6. ASSUME NEW c \in Containers, EvictObject(c) PROVE IInv'
  BY <1>1, <1>6, TailInside, FreeKeeps DEF EvictObject
<1>7. ASSUME NEW c \in Containers, Clear(c) PROVE IInv'
  BY <1>7, FreeAllKeeps DEF Clear
<1>8. ASSUME NEW c \in Containers, NEW d \in Containers, Swap(c, d) PROVE IInv'
  BY <1>8, ExchangeKeeps DEF Swap
<1>9. QED
  BY <1>1, <1>2, <1>3, <1>4, <1>5, <1>6, <1>7, <1>8 DEF Next, Peek, vars, itemVars

\* The list of every set holds exactly the items of its table in the order of
\* their last use, through any history of operations and swaps
\* (LRUSet-inl.hh 29-199).
THEOREM Invariance == Spec => []IInv
<1>1. Init => IInv
  BY InitKeeps DEF Init
<1>2. QED
  BY <1>1, StepKeeps, PTL DEF Spec

\* What evict_object removes and peek reports is the item of the set that was
\* used least recently, and evict_object removes nothing else
\* (LRUSet-inl.hh 161-183).
LeastRecentlyUsed ==
  \A c \in Containers : EvictObject(c) /\ ItemsOf(c) # {} =>
    \E i \in ItemsOf(c) :
      /\ \A j \in ItemsOf(c) \ {i} : <<j, i>> \in newer
      /\ ret' = <<i[2], size[i]>>
      /\ live' = live \ {i}

THEOREM EvictsOldest == Spec => [][LeastRecentlyUsed]_vars
<1>1. IInv => LeastRecentlyUsed
  <2> SUFFICES ASSUME IInv, NEW c \in Containers, EvictObject(c), ItemsOf(c) # {}
               PROVE  \E i \in ItemsOf(c) :
                        /\ \A j \in ItemsOf(c) \ {i} : <<j, i>> \in newer
                        /\ ret' = <<i[2], size[i]>>
                        /\ live' = live \ {i}
    BY DEF LeastRecentlyUsed
  <2>1. tail[c] # Null
    BY DEF IInv, ListInv, ListOf, Represents
  <2>2. /\ tail[c] \in ItemsOf(c)
        /\ \A i \in ItemsOf(c) \ {tail[c]} : <<i, tail[c]>> \in newer
    BY <2>1, TailInside
  <2>3. ret' = <<tail[c][2], size[tail[c]]>> /\ live' = live \ {tail[c]}
    BY <2>1 DEF EvictObject, Free
  <2>4. QED
    BY <2>2, <2>3
<1>2. QED
  BY <1>1, Invariance, PTL

-----------------------------------------------------------------------------
(* What the calls do to the container that a set stands for. *)

\* An item of a set has no value.
Valueless == [i \in Item |-> Null]

LEMMA SeenAs ==
  /\ Entries = EntriesWith(Valueless)
  /\ Entries' = View(table', live', size', Valueless)
  /\ KeyOrder' = Pairs(table', newer')
BY DEF Entries, EntriesWith, KeyOrder, View, Row, Pairs, PairsOf, Has, At, Valueless

LEMMA Answers ==
  /\ ret' = <<>> => Answer' = <<>>
  /\ \A b : ret' = <<b>> => Answer' = <<b>>
  /\ \A k, s : ret' = <<k, s>> => Answer' = <<k, Null, s>>
BY DEF Answer

LEMMA EntriesKept ==
  ASSUME UNCHANGED itemVars
  PROVE  Entries' = Entries /\ KeyOrder' = KeyOrder
BY DEF Entries, EntriesWith, KeyOrder, Has, At, itemVars

LEMMA HasSame ==
  ASSUME NEW c \in Containers
  PROVE  /\ DOMAIN Entries[c] = {k \in Keys : Has(c, k)}
         /\ \A k \in Keys : Abstract!Has(c, k) <=> Has(c, k)
<1>1. DOMAIN Entries[c] = {k \in Keys : Has(c, k)}
  BY RowKeys DEF Entries
<1>2. QED
  BY <1>1 DEF Abstract!Has

\* The entries when the item of k gets size s.
LEMMA EntryBound ==
  ASSUME IInv, NEW c \in Containers, NEW k \in Keys, NEW i, i = At(c, k), table' = table,
         \A j \in Item : j \in live' <=> j \in live \/ j = i,
         \A j \in Item \ {i} : size'[j] = size[j]
  PROVE  Abstract!Bind(c, k, [value |-> Null, size |-> size'[i]])
<1> DEFINE e == [value |-> Null, size |-> size'[i]]
<1>1. i \in Item
  BY DEF At, Item, IInv, ItemsOK
<1>2. e = [value |-> Valueless[i], size |-> size'[i]]
  BY <1>1 DEF Valueless
<1> HIDE DEF e
<1>4. View(table', live', size', Valueless) =
        [EntriesWith(Valueless) EXCEPT ![c] = Bound(@, k, e)]
  BY <1>2, BindMatches
<1>5. Entries' = [Entries EXCEPT ![c] = Bound(@, k, e)]
  BY <1>4, SeenAs
<1>6. Bound(Entries[c], k, e) =
        [x \in DOMAIN Entries[c] \cup {k} |-> IF x = k THEN e ELSE Entries[c][x]]
  BY DEF Bound
<1>7. Abstract!Bind(c, k, e)
  BY <1>5, <1>6 DEF Abstract!Bind
<1>8. QED
  BY <1>7 DEF e

\* The order when k is used.
LEMMA UseSeen ==
  ASSUME IInv, NEW c \in Containers, NEW k \in Keys, table' = table, Use(c, At(c, k))
  PROVE  Abstract!Use(c, k)
<1> DEFINE keys == {x \in Keys : Has(c, x)}
<1>1. KeyOrder' = [KeyOrder EXCEPT ![c] = Used(@, k, keys)]
  BY SeenAs, UseMatches
<1>2. DOMAIN Entries[c] = keys
  BY HasSame
<1> HIDE DEF keys
<1>3. QED
  BY <1>1, <1>2 DEF Abstract!Use, Abstract!Others, Used, Kept

\* What Add, Renew and Resize do to the item of k.
LEMMA ItemBound ==
  ASSUME IInv, NEW c \in Containers, NEW k \in Keys, table' = table,
         live' = live \cup {At(c, k)}, NEW s, size' = [size EXCEPT ![At(c, k)] = s]
  PROVE  Abstract!Bind(c, k, [value |-> Null, size |-> s])
<1> DEFINE i == At(c, k)
<1>1. i \in Item /\ size'[i] = s
  BY DEF At, Item, IInv, ItemsOK
<1>2. /\ \A j \in Item : j \in live' <=> j \in live \/ j = i
      /\ \A j \in Item \ {i} : size'[j] = size[j]
  BY <1>1 DEF IInv, ItemsOK
<1>3. Abstract!Bind(c, k, [value |-> Null, size |-> size'[i]])
  BY <1>2, EntryBound
<1>4. QED
  BY <1>1, <1>3

LEMMA PutMatches ==
  ASSUME IInv, NEW c \in Containers, NEW k \in Keys, NEW s \in Sizes, Insert(c, k, s)
  PROVE  Abstract!Put(c, k, Null, s)
<1>1. /\ table' = table /\ size' = [size EXCEPT ![At(c, k)] = s] /\ Use(c, At(c, k))
      /\ live' = live \cup {At(c, k)}
  BY DEF Insert, Renew, Resize, Add, Has
<1>2. Answer' = <<~Abstract!Has(c, k)>>
  <2>1. Answer' = <<~Has(c, k)>>
    BY Answers DEF Insert
  <2>2. (~Has(c, k)) = (~Abstract!Has(c, k))
    BY HasSame
  <2>3. QED
    BY <2>1, <2>2
<1>3. Abstract!Bind(c, k, [value |-> Null, size |-> s])
  BY <1>1, ItemBound
<1>4. Abstract!Use(c, k)
  BY <1>1, UseSeen
<1>5. QED
  BY <1>2, <1>3, <1>4 DEF Abstract!Put

\* A call that does not find its key, and one that does.
LEMMA Missed ==
  ASSUME NEW c \in Containers, NEW k \in Keys, ~Has(c, k), ret' = <<Has(c, k)>>,
         UNCHANGED itemVars
  PROVE  Answer' = <<FALSE>> /\ UNCHANGED <<Entries, KeyOrder>> /\ ~Abstract!Has(c, k)
<1>1. Has(c, k) = FALSE
  BY DEF Has
<1>2. Answer' = <<FALSE>>
  BY <1>1, Answers
<1>3. QED
  BY <1>2, EntriesKept, HasSame

LEMMA Found ==
  ASSUME NEW c \in Containers, NEW k \in Keys, Has(c, k), ret' = <<Has(c, k)>>
  PROVE  Answer' = <<TRUE>> /\ Abstract!Has(c, k)
<1>1. Has(c, k) = TRUE
  BY DEF Has
<1>2. Answer' = <<TRUE>>
  BY <1>1, Answers
<1>3. QED
  BY <1>2, HasSame

\* An item that leaves takes its entry with it.
LEMMA FreeSeen ==
  ASSUME IInv, NEW c \in Containers, NEW k \in Keys, Free(c, At(c, k))
  PROVE  /\ Abstract!Remove(c, k)
         /\ KeyOrder' = [KeyOrder EXCEPT ![c] = Abstract!Others(c, k)]
<1>2. Entries' = [Entries EXCEPT ![c] = Without(@, k)]
  BY SeenAs, RemoveMatches
<1>3. KeyOrder' = [KeyOrder EXCEPT ![c] = Kept(@, k)]
  BY SeenAs, ForgetMatches
<1>4. Without(Entries[c], k) = [x \in DOMAIN Entries[c] \ {k} |-> Entries[c][x]]
  BY DEF Without
<1>5. Kept(KeyOrder[c], k) = Abstract!Others(c, k)
  BY DEF Kept, Abstract!Others
<1>6. QED
  BY <1>2, <1>3, <1>4, <1>5 DEF Abstract!Remove

\* What the entry of a live item is.
LEMMA SizesAre ==
  ASSUME IInv, NEW c \in Containers, NEW k \in Keys, Has(c, k)
  PROVE  /\ Entries[c][k] = [value |-> Null, size |-> size[At(c, k)]]
         /\ Entries[c][k].value = Null
         /\ Entries[c][k].size = size[At(c, k)]
<1>1. Entries[c][k] = [value |-> Null, size |-> size[At(c, k)]]
  BY DEF Entries, EntriesWith, At, Has, Item, Valueless, IInv, ItemsOK
<1>2. QED
  BY <1>1

LEMMA EraseMatches ==
  ASSUME IInv, NEW c \in Containers, NEW k \in Keys, Erase(c, k)
  PROVE  Abstract!Erase(c, k)
<1>1. CASE Has(c, k)
  <2>1. Free(c, At(c, k)) /\ ret' = <<Has(c, k)>>
    BY <1>1 DEF Erase
  <2>2. /\ Abstract!Remove(c, k)
        /\ KeyOrder' = [KeyOrder EXCEPT ![c] = Abstract!Others(c, k)]
    BY <2>1, FreeSeen
  <2>3. Answer' = <<TRUE>> /\ Abstract!Has(c, k)
    BY <1>1, <2>1, Found
  <2>4. QED
    BY <2>2, <2>3 DEF Abstract!Erase
<1>2. CASE ~Has(c, k)
  BY <1>2, Missed DEF Erase, Abstract!Erase
<1>3. QED
  BY <1>1, <1>2

\* touch and change_size.
LEMMA UpdateMatches ==
  ASSUME IInv, NEW c \in Containers, NEW k \in Keys, NEW s \in SignedSizes \cup {-1},
         Touch(c, k, s)
  PROVE  Abstract!Update(c, k, s, TRUE)
<1>1. CASE Has(c, k)
  <2> DEFINE i == At(c, k)
  <2>1. ret' = <<Has(c, k)>> /\ table' = table /\ live' = live /\ Use(c, i)
        /\ size' = [size EXCEPT ![i] = IF s >= 0 THEN s ELSE size[i]]
    BY <1>1 DEF Touch, Renew, Resize
  <2>2. i \in Item /\ live' = live \cup {i}
    BY <1>1, <2>1 DEF Has, IInv, ItemsOK
  <2>3. Abstract!Use(c, k)
    BY <2>1, UseSeen
  <2>4. Answer' = <<TRUE>> /\ Abstract!Has(c, k)
    BY <1>1, <2>1, Found
  <2>5. CASE s = -1
    <3>1. size' = size
      BY <2>1, <2>2, <2>5 DEF IInv, ItemsOK
    <3>2. Entries' = Entries
      BY <2>1, <3>1 DEF Entries, EntriesWith, Has, At
    <3>3. QED
      BY <2>3, <2>4, <2>5, <3>2 DEF Abstract!Update
  <2>6. CASE s # -1
    <3>1. s >= 0
      BY <2>6, ItemAssumption DEF SignedSizes
    <3>2. size' = [size EXCEPT ![i] = s]
      BY <2>1, <3>1
    <3>3. Abstract!Bind(c, k, [value |-> Null, size |-> s])
      BY <2>1, <2>2, <3>2, ItemBound
    <3>4. Entries[c][k].value = Null
      BY <1>1, SizesAre
    <3>5. QED
      BY <2>3, <2>4, <2>6, <3>3, <3>4 DEF Abstract!Update
  <2>7. QED
    BY <2>5, <2>6
<1>2. CASE ~Has(c, k)
  BY <1>2, Missed DEF Touch, Abstract!Update
<1>3. QED
  BY <1>1, <1>2

LEMMA ChangeSizeMatches ==
  ASSUME IInv, NEW c \in Containers, NEW k \in Keys, NEW s \in Sizes, ChangeSize(c, k, s)
  PROVE  Abstract!Update(c, k, s, FALSE)
<1>1. CASE Has(c, k)
  <2> DEFINE i == At(c, k)
  <2>1. ret' = <<Has(c, k)>> /\ table' = table /\ live' = live /\ newer' = newer
        /\ size' = [size EXCEPT ![i] = s]
    BY <1>1 DEF ChangeSize, Resize
  <2>2. live' = live \cup {i}
    BY <1>1, <2>1 DEF Has
  <2>3. KeyOrder' = KeyOrder
    BY <2>1 DEF KeyOrder, At
  <2>4. Answer' = <<TRUE>> /\ Abstract!Has(c, k)
    BY <1>1, <2>1, Found
  <2>5. Abstract!Bind(c, k, [value |-> Null, size |-> s])
    BY <2>1, <2>2, ItemBound
  <2>6. Entries[c][k].value = Null
    BY <1>1, SizesAre
  <2>7. s # -1
    BY ItemAssumption
  <2>8. QED
    BY <2>3, <2>4, <2>5, <2>6, <2>7 DEF Abstract!Update
<1>2. CASE ~Has(c, k)
  BY <1>2, Missed DEF ChangeSize, Abstract!Update
<1>3. QED
  BY <1>1, <1>2

LEMMA ClearMatchesCall ==
  ASSUME IInv, NEW c \in Containers, Clear(c)
  PROVE  Abstract!Clear(c)
<1>1. FreeAll(c) /\ Answer' = <<>>
  BY Answers DEF Clear
<1>2. View(table', live', size', Valueless) = [EntriesWith(Valueless) EXCEPT ![c] = <<>>]
      /\ Pairs(table', newer') = [KeyOrder EXCEPT ![c] = {}]
  BY <1>1, ClearMatches
<1>3. QED
  BY <1>1, <1>2, SeenAs DEF Abstract!Clear

\* The tail of the list is the entry used least recently.
LEMMA TailSeen ==
  ASSUME IInv, NEW c \in Containers, tail[c] # Null, NEW k, k = tail[c][2]
  PROVE  /\ k \in Keys /\ tail[c] = At(c, k) /\ Has(c, k)
         /\ DOMAIN Entries[c] # {}
         /\ Abstract!LeastRecent(c, k)
         /\ Abstract!Entry(c, k) = <<k, Null, size[tail[c]]>>
<1>1. /\ tail[c] \in ItemsOf(c)
      /\ \A i \in ItemsOf(c) \ {tail[c]} : <<i, tail[c]>> \in newer
  BY TailInside
<1>2. tail[c] \in live /\ tail[c] \in Item /\ tail[c][1] = table[c]
  BY <1>1 DEF ItemsOf, IInv, ItemsOK
<1>3. k \in Keys /\ tail[c] = At(c, k) /\ Has(c, k)
  BY <1>2 DEF Item, At, Has
<1>4. DOMAIN Entries[c] # {} /\ Abstract!Has(c, k)
  BY <1>3, HasSame
<1>5. ASSUME NEW x \in DOMAIN Entries[c] \ {k}
      PROVE  <<x, k>> \in KeyOrder[c]
  <2>1. x \in Keys /\ Has(c, x) /\ x # k
    BY <1>5, HasSame
  <2>2. At(c, x) \in ItemsOf(c) \ {tail[c]}
    BY <1>3, <2>1 DEF At, Has, ItemsOf
  <2>3. <<At(c, x), At(c, k)>> \in newer
    BY <1>1, <1>3, <2>2
  <2>4. QED
    BY <1>3, <2>1, <2>3 DEF KeyOrder
<1>6. Abstract!LeastRecent(c, k)
  BY <1>4, <1>5 DEF Abstract!LeastRecent
<1>7. Abstract!Entry(c, k) = <<k, Null, size[tail[c]]>>
  BY <1>3, SizesAre DEF Abstract!Entry
<1>8. QED
  BY <1>3, <1>4, <1>6, <1>7

LEMMA NoTail ==
  ASSUME IInv, NEW c \in Containers, tail[c] = Null
  PROVE  DOMAIN Entries[c] = {}
<1>1. ItemsOf(c) = {}
  BY DEF IInv, ListInv, ListOf, Represents
<1>2. \A k \in Keys : ~Has(c, k)
  BY <1>1 DEF Has, At, ItemsOf
<1>3. QED
  BY <1>2, HasSame

LEMMA PeekMatches ==
  ASSUME IInv, NEW c \in Containers, Peek(c)
  PROVE  Abstract!Peek(c)
<1>1. UNCHANGED <<Entries, KeyOrder>>
  BY EntriesKept DEF Peek
<1>2. CASE tail[c] = Null
  <2>1. Answer' = <<>>
    BY <1>2, Answers DEF Peek
  <2>2. QED
    BY <1>1, <1>2, <2>1, NoTail DEF Abstract!Peek
<1>3. CASE tail[c] # Null
  <2> DEFINE k == tail[c][2]
  <2>1. Answer' = <<k, Null, size[tail[c]]>>
    BY <1>3, Answers DEF Peek
  <2>2. k \in Keys /\ DOMAIN Entries[c] # {} /\ Abstract!LeastRecent(c, k)
        /\ Answer' = Abstract!Entry(c, k)
    BY <1>3, <2>1, TailSeen
  <2> HIDE DEF k
  <2>3. QED
    BY <1>1, <2>2 DEF Abstract!Peek
<1>4. QED
  BY <1>2, <1>3

LEMMA EvictMatches ==
  ASSUME IInv, NEW c \in Containers, EvictObject(c)
  PROVE  Abstract!Evict(c)
<1>1. CASE tail[c] = Null
  <2>1. Answer' = <<>> /\ UNCHANGED <<Entries, KeyOrder>>
    BY <1>1, Answers, EntriesKept DEF EvictObject
  <2>2. QED
    BY <1>1, <2>1, NoTail DEF Abstract!Evict
<1>2. CASE tail[c] # Null
  <2> DEFINE k == tail[c][2]
  <2>1. Answer' = <<k, Null, size[tail[c]]>> /\ Free(c, tail[c])
    BY <1>2, Answers DEF EvictObject
  <2>2. /\ k \in Keys /\ DOMAIN Entries[c] # {} /\ Abstract!LeastRecent(c, k)
        /\ Answer' = Abstract!Entry(c, k) /\ Free(c, At(c, k))
    BY <1>2, <2>1, TailSeen
  <2> HIDE DEF k
  <2>3. Abstract!Remove(c, k) /\ KeyOrder' = [KeyOrder EXCEPT ![c] = Abstract!Others(c, k)]
    BY <2>2, FreeSeen
  <2>4. QED
    BY <2>2, <2>3 DEF Abstract!Evict
<1>3. QED
  BY <1>1, <1>2

LEMMA SwapMatchesCall ==
  ASSUME IInv, NEW c \in Containers, NEW d \in Containers, Swap(c, d)
  PROVE  Abstract!Swap(c, d)
<1>1. Exchange(c, d) /\ Answer' = <<>>
  BY Answers DEF Swap
<1>2. View(table', live', size', Valueless) = [Entries EXCEPT ![c] = Entries[d], ![d] = Entries[c]]
      /\ Pairs(table', newer') = [KeyOrder EXCEPT ![c] = KeyOrder[d], ![d] = KeyOrder[c]]
  BY <1>1, SwapMatches, SeenAs
<1>3. QED
  BY <1>1, <1>2, SeenAs DEF Abstract!Swap

LEMMA InitMatches == Init => Abstract!Init
<1> SUFFICES ASSUME Init PROVE Abstract!Init
  OBVIOUS
<1>1. \A c \in Containers : {k \in Keys : Has(c, k)} = {}
  BY DEF Init, InitItems, Has
<1>2. Entries = [c \in Containers |-> <<>>]
  BY <1>1 DEF Entries, EntriesWith
<1>3. KeyOrder = [c \in Containers |-> {}]
  BY DEF Init, InitItems, KeyOrder
<1>4. Answer = <<>>
  BY DEF Init, Answer
<1>5. QED
  BY <1>2, <1>3, <1>4 DEF Abstract!Init

-----------------------------------------------------------------------------
(* The totals. *)

LEMMA TotalStep == IInv /\ TotalInv /\ [Next]_vars => TotalInv'
<1> SUFFICES ASSUME IInv, TotalInv, [Next]_vars PROVE TotalInv'
  OBVIOUS
<1>1. ASSUME UNCHANGED itemVars PROVE TotalInv'
  BY <1>1 DEF TotalInv, TotalIsSum, ItemsOf, itemVars
<1>2. ASSUME NEW c \in Containers, NEW k \in Keys, NEW s \in Sizes, Insert(c, k, s)
      PROVE  TotalInv'
  <2>1. s \in 0 .. Modulus - 1
    BY ItemAssumption
  <2>2. CASE Has(c, k)
    <3>1. Resize(c, At(c, k), s) /\ table' = table /\ live' = live
      BY <1>2, <2>2 DEF Insert, Renew
    <3>2. At(c, k) \in ItemsOf(c)
      BY <2>2 DEF Has, At, ItemsOf
    <3>3. QED
      BY <2>1, <3>1, <3>2, ResizeTotals
  <2>3. CASE ~Has(c, k)
    <3>1. Add(c, At(c, k), s)
      BY <1>2, <2>3 DEF Insert
    <3>2. QED
      BY <2>1, <2>3, <3>1, AddTotals
  <2>4. QED
    BY <2>2, <2>3
<1>3. ASSUME NEW c \in Containers, NEW k \in Keys, Erase(c, k) PROVE TotalInv'
  <2>1. Has(c, k) => At(c, k) \in ItemsOf(c)
    BY DEF Has, At, ItemsOf
  <2>2. QED
    BY <1>1, <1>3, <2>1, FreeTotals DEF Erase
<1>4. ASSUME NEW c \in Containers, NEW k \in Keys, NEW s \in Sizes, ChangeSize(c, k, s)
      PROVE  TotalInv'
  <2>1. s \in 0 .. Modulus - 1
    BY ItemAssumption
  <2>2. Has(c, k) => At(c, k) \in ItemsOf(c)
    BY DEF Has, At, ItemsOf
  <2>3. QED
    BY <1>1, <1>4, <2>1, <2>2, ResizeTotals DEF ChangeSize
<1>5. ASSUME NEW c \in Containers, NEW k \in Keys, NEW s \in SignedSizes \cup {-1},
             Touch(c, k, s)
      PROVE  TotalInv'
  <2>1. CASE Has(c, k)
    <3> DEFINE z == IF s >= 0 THEN s ELSE size[At(c, k)]
    <3>1. z \in 0 .. Modulus - 1
      BY <2>1, ItemAssumption DEF SignedSizes, Has, At, Item, IInv, ItemsOK
    <3>2. Resize(c, At(c, k), z) /\ table' = table /\ live' = live
      BY <1>5, <2>1 DEF Touch, Renew
    <3>3. At(c, k) \in ItemsOf(c)
      BY <2>1 DEF Has, At, ItemsOf
    <3> HIDE DEF z
    <3>4. QED
      BY <3>1, <3>2, <3>3, ResizeTotals
  <2>2. CASE ~Has(c, k)
    BY <1>1, <1>5, <2>2 DEF Touch
  <2>3. QED
    BY <2>1, <2>2
<1>6. ASSUME NEW c \in Containers, EvictObject(c) PROVE TotalInv'
  BY <1>1, <1>6, TailInside, FreeTotals DEF EvictObject
<1>7. ASSUME NEW c \in Containers, Clear(c) PROVE TotalInv'
  BY <1>7, FreeAllTotals DEF Clear
<1>8. ASSUME NEW c \in Containers, NEW d \in Containers, Swap(c, d) PROVE TotalInv'
  BY <1>8, ExchangeTotals DEF Swap
<1>9. QED
  BY <1>1, <1>2, <1>3, <1>4, <1>5, <1>6, <1>7, <1>8 DEF Next, Peek, vars, itemVars

\* The total of every set is the sum of the sizes of its items modulo 2^w, for
\* sizes that make it wrap around as well (LRUSet-inl.hh 29-199).
THEOREM Totals == Spec => []TotalIsSum
<1>1. Init => TotalInv
  BY InitTotals DEF Init
<1>2. TotalInv => TotalIsSum
  BY DEF TotalInv
<1>3. QED
  BY <1>1, <1>2, TotalStep, Invariance, PTL DEF Spec

-----------------------------------------------------------------------------
(* The refinement. *)

LEMMA CallsAre == IInv => CallsMatch
<1> SUFFICES ASSUME IInv PROVE CallsMatch
  OBVIOUS
<1>1. \A c \in Containers, k \in Keys : Erase(c, k) => Abstract!Erase(c, k)
  BY EraseMatches
<1>2. \A c \in Containers, k \in Keys, s \in SignedSizes \cup {-1} :
        Touch(c, k, s) => Abstract!Update(c, k, s, TRUE)
  BY UpdateMatches
<1>3. \A c \in Containers, k \in Keys, s \in Sizes :
        Insert(c, k, s) => Abstract!Put(c, k, Null, s)
  BY PutMatches
<1>4. \A c \in Containers, k \in Keys, s \in Sizes :
        ChangeSize(c, k, s) => Abstract!Update(c, k, s, FALSE)
  BY ChangeSizeMatches
<1>5. \A c \in Containers : /\ Clear(c) => Abstract!Clear(c)
                            /\ EvictObject(c) => Abstract!Evict(c)
                            /\ Peek(c) => Abstract!Peek(c)
  BY ClearMatchesCall, EvictMatches, PeekMatches
<1>6. \A c, d \in Containers : Swap(c, d) => Abstract!Swap(c, d)
  BY SwapMatchesCall
<1>7. QED
  BY <1>1, <1>2, <1>3, <1>4, <1>5, <1>6 DEF CallsMatch

\* A set refines the container ordered by last use, call by call: what a call
\* does to the linked list, the table and the total is what the container of
\* LRUOrder does, and it returns the same (LRUSet-inl.hh 29-199).
THEOREM Refinement == Spec => ImplementsOrder
<1>1. QED
  BY InitMatches, CallsAre, Invariance, PTL DEF Spec, ImplementsOrder

\* Every step is a step of the container ordered by last use, or leaves it alone.
LEMMA StepMatches == CallsMatch /\ [Next]_vars => [Abstract!Next]_(Abstract!avars)
<1> SUFFICES ASSUME CallsMatch, [Next]_vars PROVE [Abstract!Next]_(Abstract!avars)
  OBVIOUS
<1>1. CASE UNCHANGED vars
  BY <1>1, EntriesKept DEF vars, Answer, Abstract!avars
<1>2. CASE \E c \in Containers, k \in Keys : Erase(c, k)
  BY <1>2 DEF CallsMatch, Abstract!Next
<1>3. CASE \E c \in Containers, k \in Keys, s \in SignedSizes \cup {-1} : Touch(c, k, s)
  <2>1. PICK c \in Containers, k \in Keys, s \in SignedSizes \cup {-1} : Touch(c, k, s)
    BY <1>3
  <2>2. Abstract!Update(c, k, s, TRUE) /\ s \in Sizes \cup {-1}
    BY <2>1 DEF CallsMatch, SignedSizes
  <2>3. QED
    BY <2>2 DEF Abstract!Next
<1>4. CASE \E c \in Containers, k \in Keys, s \in Sizes : Insert(c, k, s)
  <2>1. PICK c \in Containers, k \in Keys, s \in Sizes : Insert(c, k, s)
    BY <1>4
  <2>2. Abstract!Put(c, k, Null, s)
    BY <2>1 DEF CallsMatch
  <2>3. QED
    BY <2>2 DEF Abstract!Next
<1>5. CASE \E c \in Containers, k \in Keys, s \in Sizes : ChangeSize(c, k, s)
  <2>1. PICK c \in Containers, k \in Keys, s \in Sizes : ChangeSize(c, k, s)
    BY <1>5
  <2>2. Abstract!Update(c, k, s, FALSE)
    BY <2>1 DEF CallsMatch
  <2>3. QED
    BY <2>2 DEF Abstract!Next
<1>6. CASE \E c \in Containers : Clear(c) \/ EvictObject(c) \/ Peek(c)
  BY <1>6 DEF CallsMatch, Abstract!Next
<1>7. CASE \E c, d \in Containers : Swap(c, d)
  BY <1>7 DEF CallsMatch, Abstract!Next
<1>8. QED
  BY <1>1, <1>2, <1>3, <1>4, <1>5, <1>6, <1>7 DEF Next

\* The behaviours of the sets are behaviours of that container
\* (LRUSet-inl.hh 29-199).
THEOREM Implements == Spec => Abstract!Spec
<1>1. QED
  BY InitMatches, CallsAre, StepMatches, Invariance, PTL DEF Spec, Abstract!Spec
=============================================================================
