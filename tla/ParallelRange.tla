---------------------------- MODULE ParallelRange ----------------------------
(***************************************************************************)
(* parallel_range of src/src/Tools.hh: the workers share one iterator over *)
(* the range and one result pointer, both guarded by a mutex.  A worker    *)
(* takes the element under the iterator; one whose callback returns true   *)
(* stores the element's address, moves the iterator to the end and stops.  *)
(*                                                                         *)
(* Elements are their positions 0 .. NumItems - 1; NumItems is range.end() *)
(* and stands for the null pointer in the result.                          *)
(***************************************************************************)
EXTENDS Integers

CONSTANTS
  NumItems,    \* size of the range
  NumThreads,  \* num_threads, after 0 was replaced by hardware_concurrency()
  ReturnsBool  \* FALSE when the callback returns void

ASSUME RangeAssumption ==
  /\ NumItems \in Nat
  /\ NumThreads \in Nat
  /\ ReturnsBool \in BOOLEAN

VARIABLES
  lock,        \* the worker that holds the mutex, or Free
  it,          \* the shared iterator
  result,      \* result_value
  spawned,     \* threads.size()
  mainPc,      \* "running" until parallel_range has returned
  pc,          \* where each worker is
  v,           \* the element each worker took
  called,      \* history: the elements whose callback has returned
  hits         \* history: the elements for which it returned true

vars == <<lock, it, result, spawned, mainPc, pc, v, called, hits>>

Threads == 0 .. NumThreads - 1
Items == 0 .. NumItems - 1
Free == -1
Null == NumItems

Init ==
  /\ lock = Free
  /\ it = 0
  /\ result = Null
  /\ spawned = 0
  /\ mainPc = "running"
  /\ pc = [t \in Threads |-> "acquire"]
  /\ v = [t \in Threads |-> Null]
  /\ called = {}
  /\ hits = {}

Goto(t, label) == pc' = [pc EXCEPT ![t] = label]

Spawn ==
  /\ spawned < NumThreads
  /\ spawned' = spawned + 1
  /\ UNCHANGED <<lock, it, result, mainPc, pc, v, called, hits>>

\* Mutant: the caller does not wait for the workers.
JoinEarly ==
  /\ spawned = NumThreads /\ mainPc = "running"
  /\ mainPc' = "returned"
  /\ UNCHANGED <<lock, it, result, spawned, pc, v, called, hits>>

Join ==
  /\ spawned = NumThreads /\ mainPc = "running"
  /\ \A t \in Threads : pc[t] = "done"
  /\ mainPc' = "returned"
  /\ UNCHANGED <<lock, it, result, spawned, pc, v, called, hits>>

\* Mutant: the iterator is read and moved outside the mutex.
AcquireNothing(t) ==
  /\ t < spawned /\ pc[t] = "acquire"
  /\ Goto(t, "test")
  /\ UNCHANGED <<lock, it, result, spawned, mainPc, v, called, hits>>

Acquire(t) ==
  /\ t < spawned /\ pc[t] = "acquire" /\ lock = Free
  /\ lock' = t
  /\ Goto(t, "test")
  /\ UNCHANGED <<it, result, spawned, mainPc, v, called, hits>>

Test(t) ==
  /\ pc[t] = "test"
  /\ IF it = NumItems
     THEN Goto(t, "done") /\ lock' = Free /\ UNCHANGED v
     ELSE Goto(t, "advance") /\ v' = [v EXCEPT ![t] = it] /\ UNCHANGED lock
  /\ UNCHANGED <<it, result, spawned, mainPc, called, hits>>

\* The guard goes out of scope: the mutex is released before the callback runs.
AdvanceIterator(t) ==
  /\ pc[t] = "advance"
  /\ it' = it + 1
  /\ lock' = Free
  /\ Goto(t, "call")
  /\ UNCHANGED <<result, spawned, mainPc, v, called, hits>>

CallReturnsFalse(t) ==
  /\ pc[t] = "call"
  /\ called' = called \cup {v[t]}
  /\ Goto(t, "acquire")
  /\ UNCHANGED <<lock, it, result, spawned, mainPc, v, hits>>

CallReturnsTrue(t) ==
  /\ ReturnsBool /\ pc[t] = "call"
  /\ called' = called \cup {v[t]}
  /\ hits' = hits \cup {v[t]}
  /\ Goto(t, "reacquire")
  /\ UNCHANGED <<lock, it, result, spawned, mainPc, v>>

AcquireAgain(t) ==
  /\ pc[t] = "reacquire" /\ lock = Free
  /\ lock' = t
  /\ Goto(t, "publish")
  /\ UNCHANGED <<it, result, spawned, mainPc, v, called, hits>>

Publish(t) ==
  /\ pc[t] = "publish"
  /\ result' = v[t]
  /\ Goto(t, "stop")
  /\ UNCHANGED <<lock, it, spawned, mainPc, v, called, hits>>

\* Mutant: the guard of the early return is not released.
StopKeepsLock(t) ==
  /\ pc[t] = "stop"
  /\ it' = NumItems
  /\ Goto(t, "done")
  /\ UNCHANGED <<lock, result, spawned, mainPc, v, called, hits>>

\* Mutant: the iterator is left where it is.
StopOnlySelf(t) ==
  /\ pc[t] = "stop"
  /\ lock' = Free
  /\ Goto(t, "done")
  /\ UNCHANGED <<it, result, spawned, mainPc, v, called, hits>>

StopOthers(t) ==
  /\ pc[t] = "stop"
  /\ it' = NumItems
  /\ lock' = Free
  /\ Goto(t, "done")
  /\ UNCHANGED <<result, spawned, mainPc, v, called, hits>>

Worker(t) ==
  \/ Acquire(t) \/ Test(t) \/ AdvanceIterator(t)
  \/ CallReturnsFalse(t) \/ CallReturnsTrue(t)
  \/ AcquireAgain(t) \/ Publish(t) \/ StopOthers(t)

Returned == mainPc = "returned" /\ UNCHANGED vars

Next == Spawn \/ Join \/ Returned \/ \E t \in Threads : Worker(t)

Spec == Init /\ [][Next]_vars

\* The scheduler runs every thread that can run and callbacks return.  The
\* mutex need not be fair: a worker that waits for it may be overtaken only as
\* often as there are elements left.
FairSpec == Spec /\ WF_vars(Spawn \/ Join) /\ \A t \in Threads : WF_vars(Worker(t))

-----------------------------------------------------------------------------
(* Properties. *)

TypeOK ==
  /\ lock \in Threads \cup {Free}
  /\ it \in 0 .. NumItems
  /\ result \in 0 .. NumItems
  /\ spawned \in 0 .. NumThreads
  /\ mainPc \in {"running", "returned"}
  /\ pc \in [Threads -> {"acquire", "test", "advance", "call", "reacquire",
                         "publish", "stop", "done"}]
  /\ v \in [Threads -> 0 .. NumItems]
  /\ called \in SUBSET Items
  /\ hits \in SUBSET Items

\* No element is handed to the callback twice (Tools.hh 284-290).
EachItemOnce ==
  \A t \in Threads : pc[t] = "call" =>
    /\ v[t] \notin called
    /\ \A u \in Threads \ {t} : pc[u] = "call" => v[u] # v[t]

\* After a match has moved the iterator to the end, no worker takes another
\* element (Tools.hh 264-265: "stops iterating early when that happens").
StopsEarly ==
  [][(hits # {} /\ result # Null /\ \A t \in Threads : pc[t] \notin
        {"advance", "reacquire", "publish", "stop"})
     => \A t \in Threads : pc'[t] \in {"advance", "call"} => pc[t] = "call"]_vars

\* The call returns; in particular every way out of a worker's loop releases
\* the mutex (Tools.hh 285-297).
Returns == <>(mainPc = "returned")

\* parallel_range implements the promise of ParallelFind, with the null pointer
\* as the answer when nothing was found (Tools.hh 263-265).
Abstract == INSTANCE ParallelFind WITH
  Start <- 0, End <- NumItems, FindAll <- FALSE,
  answer <- IF mainPc = "returned" THEN {result} ELSE {-1}

ImplementsFind == Abstract!Spec

-----------------------------------------------------------------------------
(* The inductive invariant. *)

InCritical == {"test", "advance", "publish", "stop"}

\* Exactly the holder of the mutex is in a critical section.
LockInv == \A t \in Threads : pc[t] \in InCritical <=> lock = t

StartInv ==
  /\ \A t \in Threads : t >= spawned => pc[t] = "acquire"
  /\ mainPc = "returned" => spawned = NumThreads /\ \A t \in Threads : pc[t] = "done"

\* What was taken lies below the iterator, once each; the worker that is about
\* to advance the iterator took the element under it.
ItemInv ==
  /\ \A i \in called : i < it
  /\ \A t \in Threads :
       /\ pc[t] = "advance" => v[t] = it /\ it < NumItems
       /\ pc[t] = "call" => v[t] < it /\ v[t] \notin called
       /\ pc[t] \in {"reacquire", "publish", "stop"} => v[t] \in hits
  /\ \A t, u \in Threads :
       t # u /\ pc[t] = "call" /\ pc[u] = "call" => v[t] # v[u]

\* Until there is a match, every element below the iterator has been called or
\* is being called, and a worker that is done found the iterator at the end.
CoverInv ==
  hits = {} =>
    /\ \A i \in Items : i < it =>
         i \in called \/ \E t \in Threads : pc[t] = "call" /\ v[t] = i
    /\ \A t \in Threads : pc[t] = "done" => it = NumItems

HitInv ==
  /\ hits \subseteq called
  /\ \/ result \in hits
     \/ result = Null /\ hits = {}
     \/ result = Null /\ \E t \in Threads : pc[t] \in {"reacquire", "publish"}

IInv == TypeOK /\ LockInv /\ StartInv /\ ItemInv /\ CoverInv /\ HitInv
=============================================================================
