------------------------------- MODULE LRUSet -------------------------------
(* LRUSet of src/src/LRUSet-inl.hh: one action per public operation. *)
EXTENDS LRUItems, Sequences

VARIABLE ret \* what the last operation returned: <<>> if it is void or throws

vars == <<itemVars, ret>>

Init == InitItems /\ ret = <<>>

\* The difference of two sizes, which after_emplace takes in ssize_t, fits it.
AsSigned(s) == IF 2 * s < Modulus THEN s ELSE s - Modulus
DeltaFits(s, old) == LET delta == AsSigned(s) - AsSigned(old) IN -Modulus <= 2 * delta /\ 2 * delta < Modulus

\* insert and emplace, which differ in copying or moving the key; both end in
\* after_emplace.  A difference that does not fit is undefined: no such call is made.
Insert(c, k, s) ==
  LET i == At(c, k) IN
  /\ ret' = <<~Has(c, k)>>
  /\ IF Has(c, k)
     THEN DeltaFits(s, size[i]) /\ Renew(c, i, Link(Unlink(ListOf(c), i), i), s)
     ELSE Add(c, i, s)

Erase(c, k) ==
  /\ ret' = <<Has(c, k)>>
  /\ IF Has(c, k) THEN Free(c, At(c, k)) ELSE UNCHANGED itemVars

Clear(c) == FreeAll(c) /\ ret' = <<>>

\* Mutant: changing the size counts as a use in the list's order only.
ChangeSizeMoves(c, k, s) ==
  /\ ret' = <<Has(c, k)>>
  /\ IF Has(c, k)
     THEN /\ Resize(c, At(c, k), s)
          /\ SetList(c, MoveToFront(ListOf(c), At(c, k)))
          /\ UNCHANGED <<table, live, newer>>
     ELSE UNCHANGED itemVars

\* Changing the size is not a use.
ChangeSize(c, k, s) ==
  /\ ret' = <<Has(c, k)>>
  /\ IF Has(c, k)
     THEN /\ Resize(c, At(c, k), s)
          /\ UNCHANGED <<table, live, head, tail, prev, next, newer>>
     ELSE UNCHANGED itemVars

\* s = -1 leaves the size alone.
Touch(c, k, s) ==
  LET i == At(c, k) IN
  /\ ret' = <<Has(c, k)>>
  /\ IF Has(c, k)
     THEN Renew(c, i, MoveToFront(ListOf(c), i), IF s >= 0 THEN s ELSE size[i])
     ELSE UNCHANGED itemVars

EvictObject(c) ==
  IF tail[c] = Null
  THEN ret' = <<>> /\ UNCHANGED itemVars
  ELSE ret' = <<tail[c][2], size[tail[c]]>> /\ Free(c, tail[c])

Peek(c) ==
  /\ ret' = IF tail[c] = Null THEN <<>> ELSE <<tail[c][2], size[tail[c]]>>
  /\ UNCHANGED itemVars

Swap(c, d) == Exchange(c, d) /\ ret' = <<>>

Next ==
  \/ \E c \in Containers, k \in Keys :
       \/ Erase(c, k)
       \/ \E s \in SignedSizes \cup {-1} : Touch(c, k, s)
       \/ \E s \in Sizes : Insert(c, k, s) \/ ChangeSize(c, k, s)
  \/ \E c \in Containers : Clear(c) \/ EvictObject(c) \/ Peek(c)
  \/ \E c, d \in Containers : Swap(c, d)

Spec == Init /\ [][Next]_vars

-----------------------------------------------------------------------------
(* Properties. *)

\* What the callers of a set see: sizes by key, no values, the order of the keys,
\* and what was returned.
Entries == EntriesWith([i \in Item |-> Null])
Answer == IF Len(ret) = 2 THEN <<ret[1], Null, ret[2]>> ELSE ret

\* The abstract container that a set stands for.  Values play no part in a set.
Abstract == INSTANCE LRUOrder WITH
  Values <- {Null}, Keeps <- FALSE,
  entries <- Entries, newer <- KeyOrder, ret <- Answer

\* Each call does to the abstract container what it is called for.
CallsMatch ==
  /\ \A c \in Containers, k \in Keys :
       /\ Erase(c, k) => Abstract!Erase(c, k)
       /\ \A s \in SignedSizes \cup {-1} : Touch(c, k, s) => Abstract!Update(c, k, s, TRUE)
       /\ \A s \in Sizes : /\ Insert(c, k, s) => Abstract!Put(c, k, Null, s)
                           /\ ChangeSize(c, k, s) => Abstract!Update(c, k, s, FALSE)
  /\ \A c \in Containers : /\ Clear(c) => Abstract!Clear(c)
                           /\ EvictObject(c) => Abstract!Evict(c)
                           /\ Peek(c) => Abstract!Peek(c)
  /\ \A c, d \in Containers : Swap(c, d) => Abstract!Swap(c, d)

\* A set behaves as a container ordered by last use: the operations return what
\* that container returns, and evict_object and peek give its least recently
\* used key (LRUSet-inl.hh 29-199).
ImplementsOrder == Abstract!Init /\ [][CallsMatch]_vars
=============================================================================
