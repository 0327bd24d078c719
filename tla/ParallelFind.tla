---------------------------- MODULE ParallelFind ----------------------------
(***************************************************************************)
(* What the parallel functions of Tools.hh promise their caller, with no   *)
(* threads, no counters and no blocks: the callback is invoked at most     *)
(* once for each value of the range; the answer is a value for which it    *)
(* returned true, or end_value after it has returned false for every value *)
(* of the range.  parallel_blocks_multi instead answers with the set of    *)
(* all values for which it returned true.                                  *)
(***************************************************************************)
EXTENDS Integers

CONSTANTS
  Start, End,  \* the range is Start .. End - 1
  FindAll      \* TRUE for parallel_blocks_multi

VARIABLES
  called,      \* values whose call has returned
  hits,        \* values for which the callback returned true
  answer       \* what the caller gets: a set of values, or Pending

avars == <<called, hits, answer>>

Domain == Start .. End - 1

\* No answer yet.  (An answer is a set; a single value v is answered as {v}.)
Pending == {-1}

Init ==
  /\ called = {}
  /\ hits = {}
  /\ answer = Pending

Call(v) ==
  /\ answer = Pending
  /\ v \in Domain \ called
  /\ called' = called \cup {v}
  /\ hits' \in {hits, hits \cup {v}}
  /\ UNCHANGED answer

Answer ==
  /\ answer = Pending
  /\ IF FindAll
     THEN called = Domain /\ answer' = hits
     ELSE \/ hits = {} /\ called = Domain /\ answer' = {End}
          \/ \E v \in hits : answer' = {v}
  /\ UNCHANGED <<called, hits>>

Next == Answer \/ \E v \in Domain : Call(v)

Spec == Init /\ [][Next]_avars
=============================================================================
