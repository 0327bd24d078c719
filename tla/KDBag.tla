------------------------------- MODULE KDBag -------------------------------
(***************************************************************************)
(* What KDTree promises: a bag of points with values, and an iterator that *)
(* goes once through every entry it started with, erasing any of them on   *)
(* the way.  There is no tree.                                             *)
(***************************************************************************)
EXTENDS Naturals

CONSTANTS Points, Values

Entry == Points \X Values

VARIABLES
  entries,   \* how often each entry is in the bag
  remaining, \* how often the iterator still has to give it
  current,   \* what the iterator gives now, <<>> at the end
  ret        \* what the last operation returned, <<>> if nothing

avars == <<entries, remaining, current, ret>>

Empty == [e \in Entry |-> 0]

\* current is one of the entries that are left, if there are any.
Give == IF remaining' = Empty THEN current' = <<>>
                              ELSE \E e \in Entry : remaining'[e] > 0 /\ current' = e

Stop == remaining' = Empty /\ current' = <<>>

Init == entries = Empty /\ remaining = Empty /\ current = <<>> /\ ret = <<>>

Insert(p, v) ==
  LET e == <<p, v>> IN
  /\ entries' = [entries EXCEPT ![e] = @ + 1]
  /\ remaining' = [Empty EXCEPT ![e] = 1]
  /\ current' = e
  /\ ret' = <<>>

Erase(p, v) ==
  LET e == <<p, v>> IN
  /\ ret' = <<entries[e] > 0>>
  /\ entries' = IF entries[e] > 0 THEN [entries EXCEPT ![e] = @ - 1] ELSE entries
  /\ Stop

Begin == remaining' = entries /\ Give /\ ret' = <<>> /\ UNCHANGED entries

Advance ==
  /\ current # <<>>
  /\ remaining' = [remaining EXCEPT ![current] = @ - 1]
  /\ Give
  /\ ret' = <<>>
  /\ UNCHANGED entries

EraseAdvance ==
  /\ current # <<>>
  /\ entries' = [entries EXCEPT ![current] = @ - 1]
  /\ remaining' = [remaining EXCEPT ![current] = @ - 1]
  /\ Give
  /\ ret' = <<>>

Destroy == entries' = Empty /\ Stop /\ ret' = <<>>

Next ==
  \/ \E p \in Points, v \in Values : Insert(p, v) \/ Erase(p, v)
  \/ Begin \/ Advance \/ EraseAdvance \/ Destroy

Spec == Init /\ [][Next]_avars
=============================================================================
