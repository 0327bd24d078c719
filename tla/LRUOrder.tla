------------------------------ MODULE LRUOrder ------------------------------
(***************************************************************************)
(* What LRUSet and LRUMap promise: containers whose entries are ordered by *)
(* last use, with no lists and no pointers.  Evicting takes the entry used *)
(* least recently.                                                         *)
(***************************************************************************)
EXTENDS Integers, FiniteSets

CONSTANTS
  Containers, Keys, Values, Sizes,
  Keeps        \* TRUE when emplace leaves an existing entry as it is (LRUMap)

VARIABLES
  entries,     \* per container: keys to [value, size]
  newer,       \* per container: pairs <<a, b>>, a used more recently than b
  ret          \* what the last operation returned: <<>> if it is void or throws

avars == <<entries, newer, ret>>

Has(c, k) == k \in DOMAIN entries[c]

Bind(c, k, e) ==
  entries' = [entries EXCEPT ![c] =
    [x \in DOMAIN @ \cup {k} |-> IF x = k THEN e ELSE @[x]]]

Remove(c, k) ==
  entries' = [entries EXCEPT ![c] = [x \in DOMAIN @ \ {k} |-> @[x]]]

Others(c, k) == {p \in newer[c] : p[1] # k /\ p[2] # k}

Use(c, k) ==
  newer' = [newer EXCEPT ![c] =
    Others(c, k) \cup {<<k, x>> : x \in DOMAIN entries[c] \ {k}}]

LeastRecent(c, k) == Has(c, k) /\ \A x \in DOMAIN entries[c] \ {k} : <<x, k>> \in newer[c]

Init ==
  /\ entries = [c \in Containers |-> <<>>]
  /\ newer = [c \in Containers |-> {}]
  /\ ret = <<>>

Put(c, k, v, s) ==
  /\ Bind(c, k, [value |-> v, size |-> s])
  /\ Use(c, k)
  /\ ret' = <<~Has(c, k)>>

Emplace(c, k, v, s) ==
  IF Keeps /\ Has(c, k)
  THEN ret' = <<FALSE>> /\ UNCHANGED <<entries, newer>>
  ELSE Put(c, k, v, s)

Erase(c, k) ==
  IF Has(c, k)
  THEN /\ Remove(c, k)
       /\ newer' = [newer EXCEPT ![c] = Others(c, k)]
       /\ ret' = <<TRUE>>
  ELSE ret' = <<FALSE>> /\ UNCHANGED <<entries, newer>>

Clear(c) ==
  /\ entries' = [entries EXCEPT ![c] = <<>>]
  /\ newer' = [newer EXCEPT ![c] = {}]
  /\ ret' = <<>>

\* Change the size, or not (s = -1); make the entry the newest, or not.
Update(c, k, s, use) ==
  IF Has(c, k)
  THEN /\ IF s = -1
          THEN UNCHANGED entries
          ELSE Bind(c, k, [value |-> entries[c][k].value, size |-> s])
       /\ IF use THEN Use(c, k) ELSE UNCHANGED newer
       /\ ret' = <<TRUE>>
  ELSE ret' = <<FALSE>> /\ UNCHANGED <<entries, newer>>

\* Look an entry up: that is a use.
At(c, k) ==
  IF Has(c, k)
  THEN /\ Use(c, k)
       /\ ret' = <<entries[c][k].value>>
       /\ UNCHANGED entries
  ELSE ret' = <<>> /\ UNCHANGED <<entries, newer>>

Entry(c, k) == <<k, entries[c][k].value, entries[c][k].size>>

Peek(c) ==
  /\ IF DOMAIN entries[c] = {}
     THEN ret' = <<>>
     ELSE \E k \in Keys : LeastRecent(c, k) /\ ret' = Entry(c, k)
  /\ UNCHANGED <<entries, newer>>

Evict(c) ==
  IF DOMAIN entries[c] = {}
  THEN ret' = <<>> /\ UNCHANGED <<entries, newer>>
  ELSE \E k \in Keys :
         /\ LeastRecent(c, k)
         /\ Remove(c, k)
         /\ newer' = [newer EXCEPT ![c] = Others(c, k)]
         /\ ret' = Entry(c, k)

Swap(c, d) ==
  /\ entries' = [entries EXCEPT ![c] = entries[d], ![d] = entries[c]]
  /\ newer' = [newer EXCEPT ![c] = newer[d], ![d] = newer[c]]
  /\ ret' = <<>>

Next ==
  \/ \E c \in Containers, k \in Keys :
       \/ Erase(c, k) \/ At(c, k)
       \/ \E v \in Values, s \in Sizes : Put(c, k, v, s) \/ Emplace(c, k, v, s)
       \/ \E s \in Sizes \cup {-1}, use \in BOOLEAN : Update(c, k, s, use)
  \/ \E c \in Containers : Clear(c) \/ Peek(c) \/ Evict(c)
  \/ \E c, d \in Containers : Swap(c, d)

Spec == Init /\ [][Next]_avars
=============================================================================
