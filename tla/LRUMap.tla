------------------------------- MODULE LRUMap -------------------------------
(***************************************************************************)
(* LRUMap of src/src/LRUMap.hh: one action per public operation that can   *)
(* be instantiated.  (The insert that takes lvalues and the const at do    *)
(* not compile when used; nothing uses them.)                              *)
(***************************************************************************)
EXTENDS LRUItems, Sequences

CONSTANT Values  \* ValueT

ASSUME ValueAssumption == Null \notin Values

VARIABLES
  value, \* of each item
  ret    \* what the last operation returned: <<>> if it is void or throws

vars == <<itemVars, value, ret>>

Init ==
  /\ InitItems
  /\ value = [i \in Item |-> Null]
  /\ ret = <<>>

\* The value of a freed item is gone.
SetValue(i, v) == value' = [value EXCEPT ![i] = v]

\* Looking a value up is a use.
Lookup(c, k) ==
  LET i == At(c, k) IN
  IF Has(c, k)
  THEN /\ ret' = <<value[i]>>
       /\ Renew(c, i, MoveToFront(ListOf(c), i), size[i])
       /\ UNCHANGED value
  ELSE ret' = <<>> /\ UNCHANGED <<itemVars, value>>

\* Mutant: the value of an existing key is not replaced.
InsertKeepsValue(c, k, v, s) ==
  LET i == At(c, k) IN
  /\ ret' = <<~Has(c, k)>>
  /\ IF Has(c, k)
     THEN Renew(c, i, MoveToFront(ListOf(c), i), s) /\ UNCHANGED value
     ELSE Add(c, i, s) /\ SetValue(i, v)

Insert(c, k, v, s) ==
  LET i == At(c, k) IN
  /\ ret' = <<~Has(c, k)>>
  /\ SetValue(i, v)
  /\ IF Has(c, k)
     THEN Renew(c, i, MoveToFront(ListOf(c), i), s)
     ELSE Add(c, i, s)

\* Unlike insert, emplace leaves an existing entry as it is and does not even
\* count as a use.
Emplace(c, k, v, s) ==
  /\ ret' = <<~Has(c, k)>>
  /\ IF Has(c, k)
     THEN UNCHANGED <<itemVars, value>>
     ELSE Add(c, At(c, k), s) /\ SetValue(At(c, k), v)

Erase(c, k) ==
  /\ ret' = <<Has(c, k)>>
  /\ IF Has(c, k)
     THEN Free(c, At(c, k)) /\ SetValue(At(c, k), Null)
     ELSE UNCHANGED <<itemVars, value>>

Clear(c) ==
  /\ FreeAll(c)
  /\ value' = [i \in Item |-> IF i \in ItemsOf(c) THEN Null ELSE value[i]]
  /\ ret' = <<>>

\* A use only if the caller asks for it.
ChangeSize(c, k, s, touch) ==
  LET i == At(c, k) IN
  /\ ret' = <<Has(c, k)>>
  /\ IF Has(c, k)
     THEN IF touch
          THEN Renew(c, i, MoveToFront(ListOf(c), i), s)
          ELSE /\ Resize(c, i, s)
               /\ UNCHANGED <<table, live, head, tail, prev, next, newer>>
     ELSE UNCHANGED itemVars
  /\ UNCHANGED value

\* s = -1 leaves the size alone.
Touch(c, k, s) ==
  LET i == At(c, k) IN
  /\ ret' = <<Has(c, k)>>
  /\ IF Has(c, k)
     THEN Renew(c, i, MoveToFront(ListOf(c), i), IF s >= 0 THEN s ELSE size[i])
     ELSE UNCHANGED itemVars
  /\ UNCHANGED value

EvictObject(c) ==
  LET i == tail[c] IN
  IF i = Null
  THEN ret' = <<>> /\ UNCHANGED <<itemVars, value>>
  ELSE /\ ret' = <<i[2], value[i], size[i]>>
       /\ Free(c, i)
       /\ SetValue(i, Null)

Swap(c, d) == Exchange(c, d) /\ ret' = <<>> /\ UNCHANGED value

Next ==
  \/ \E c \in Containers, k \in Keys :
       \/ Lookup(c, k) \/ Erase(c, k)
       \/ \E s \in SignedSizes \cup {-1} : Touch(c, k, s)
       \/ \E v \in Values, s \in Sizes : Insert(c, k, v, s) \/ Emplace(c, k, v, s)
       \/ \E s \in Sizes, touch \in BOOLEAN : ChangeSize(c, k, s, touch)
  \/ \E c \in Containers : Clear(c) \/ EvictObject(c)
  \/ \E c, d \in Containers : Swap(c, d)

Spec == Init /\ [][Next]_vars

-----------------------------------------------------------------------------
(* Properties. *)

TypeOK ==
  /\ ItemsOK
  /\ value \in [Item -> Values \cup {Null}]
  /\ \A i \in Item : value[i] = Null <=> i \notin live

\* The abstract container that a map stands for.
Entries == EntriesWith(value)

Abstract == INSTANCE LRUOrder WITH
  Keeps <- TRUE, entries <- Entries, newer <- KeyOrder

\* Each call does to the abstract container what it is called for.
CallsMatch ==
  /\ \A c \in Containers, k \in Keys :
       /\ Erase(c, k) => Abstract!Erase(c, k)
       /\ Lookup(c, k) => Abstract!At(c, k)
       /\ \A s \in SignedSizes \cup {-1} : Touch(c, k, s) => Abstract!Update(c, k, s, TRUE)
       /\ \A s \in Sizes, touch \in BOOLEAN :
            ChangeSize(c, k, s, touch) => Abstract!Update(c, k, s, touch)
       /\ \A v \in Values, s \in Sizes :
            /\ Insert(c, k, v, s) => Abstract!Put(c, k, v, s)
            /\ Emplace(c, k, v, s) => Abstract!Emplace(c, k, v, s)
  /\ \A c \in Containers : /\ Clear(c) => Abstract!Clear(c)
                           /\ EvictObject(c) => Abstract!Evict(c)
  /\ \A c, d \in Containers : Swap(c, d) => Abstract!Swap(c, d)

\* A map behaves as a container of values ordered by last use: every operation
\* returns what that container returns, at and insert count as uses, emplace of
\* an existing key does not, and evict_object gives the entry used least
\* recently (LRUMap.hh 87-267).
ImplementsOrder == Abstract!Spec /\ [][CallsMatch]_vars
=============================================================================
