----------------------------- MODULE ParallelJob ------------------------------
(***************************************************************************)
(* parallel, parallel_blocks and parallel_blocks_multi of src/src/Tools.hh *)
(* and the worker threads they start.  Every worker takes work with one    *)
(* fetch_add on the shared current_value; a worker whose callback returns  *)
(* true stores result_value, then stores end_value into current_value to   *)
(* stop the others.  IntT is an unsigned type with Modulus = 2^w values.   *)
(*                                                                         *)
(* Each atomic operation is an action of its own, and so is the return of  *)
(* each callback; the callback may return either value each time.          *)
(* parallel is the case of blocks of one value: its loop body is the inner *)
(* loop of parallel_blocks run once.                                       *)
(***************************************************************************)
EXTENDS Integers, FiniteSets

CONSTANTS
  Mode,        \* "parallel", "blocks" or "multi": the function called
  Start, End,  \* start_value and end_value
  BlockSize,   \* block_size (1 for parallel)
  NumThreads,  \* num_threads, after 0 was replaced by hardware_concurrency()
  Modulus,     \* number of values of IntT
  Progress     \* "none" (nullptr), "noop" or "default": the progress function

ASSUME JobAssumption ==
  /\ Mode \in {"parallel", "blocks", "multi"}
  /\ Progress \in {"none", "noop", "default"}
  /\ Modulus \in Nat /\ Start \in Nat /\ End \in Nat
  /\ Start <= End /\ End < Modulus
  /\ BlockSize \in Nat \ {0}
  /\ Mode = "parallel" => BlockSize = 1
  /\ NumThreads \in Nat

VARIABLES
  current,     \* std::atomic<IntT> current_value
  result,      \* std::atomic<IntT> result_value
  mainPc,      \* the calling thread
  spawned,     \* threads.size()
  pc,          \* where each worker is
  z,           \* the value the worker is working on
  blockEnd,    \* block_end of the worker's block
  threadRets,  \* thread_rets of parallel_blocks_multi
  called,      \* history: the values whose callback has returned
  hits         \* history: the values for which it returned true

shared == <<current, result>>
vars == <<current, result, mainPc, spawned, pc, z, blockEnd, threadRets,
          called, hits>>

Threads == 0 .. NumThreads - 1
IntT == 0 .. Modulus - 1
Values == Start .. End - 1

Init ==
  /\ current = Start
  /\ result = End
  /\ mainPc = "entry"
  /\ spawned = 0
  /\ pc = [t \in Threads |-> "fetch"]
  /\ z = [t \in Threads |-> 0]
  /\ blockEnd = [t \in Threads |-> 0]
  /\ threadRets = [t \in Threads |-> {}]
  /\ called = {}
  /\ hits = {}

-----------------------------------------------------------------------------
(* The calling thread. *)

Aligned == (End - Start) % BlockSize = 0

\* parallel_blocks validates its arguments before it starts anything;
\* parallel does not.
Enter ==
  /\ mainPc = "entry"
  /\ mainPc' = IF Mode # "parallel" /\ (~Aligned \/ NumThreads < 1)
               THEN "thrown"
               ELSE "spawn"
  /\ UNCHANGED <<shared, spawned, pc, z, blockEnd, threadRets, called, hits>>

Spawn ==
  /\ mainPc = "spawn"
  /\ IF spawned < NumThreads
     THEN spawned' = spawned + 1 /\ UNCHANGED mainPc
     ELSE /\ mainPc' = IF Progress = "none" THEN "join" ELSE "progress"
          /\ UNCHANGED spawned
  /\ UNCHANGED <<shared, pc, z, blockEnd, threadRets, called, hits>>

\* parallel_default_progress_fn guards its division by
\* current_value - start_value with a test of current_value alone.
DefaultProgressDividesByZero == current # 0 /\ current = Start

Report ==
  /\ mainPc = "progress"
  /\ mainPc' = IF current >= End
               THEN "join"
               ELSE IF Progress = "default" /\ DefaultProgressDividesByZero
                    THEN "crashed"
                    ELSE "sleep"
  /\ UNCHANGED <<shared, spawned, pc, z, blockEnd, threadRets, called, hits>>

\* Mutant: the progress loop does not load the counter again.
WakeStale ==
  /\ mainPc = "sleep"
  /\ UNCHANGED vars

Wake ==
  /\ mainPc = "sleep"
  /\ mainPc' = "progress"
  /\ UNCHANGED <<shared, spawned, pc, z, blockEnd, threadRets, called, hits>>

\* Mutant: the caller does not wait for the workers.
JoinEarly ==
  /\ mainPc = "join"
  /\ mainPc' = "returned"
  /\ UNCHANGED <<shared, spawned, pc, z, blockEnd, threadRets, called, hits>>

Join ==
  /\ mainPc = "join"
  /\ \A t \in Threads : pc[t] = "done"
  /\ mainPc' = "returned"
  /\ UNCHANGED <<shared, spawned, pc, z, blockEnd, threadRets, called, hits>>

-----------------------------------------------------------------------------
(* The workers. *)

Running(t) == t < spawned /\ mainPc # "crashed"

\* Mutant: the counter is read and written back instead of incremented by one
\* atomic operation, so the increment of another worker can be lost.
FetchNotAtomic(t) ==
  /\ Running(t) /\ pc[t] = "fetch"
  /\ current' \in {current, (current + BlockSize) % Modulus}
  /\ IF current < End
     THEN /\ z' = [z EXCEPT ![t] = current]
          /\ blockEnd' = [blockEnd EXCEPT ![t] = current + BlockSize]
          /\ pc' = [pc EXCEPT ![t] = "call"]
     ELSE pc' = [pc EXCEPT ![t] = "done"] /\ UNCHANGED <<z, blockEnd>>
  /\ UNCHANGED <<result, mainPc, spawned, threadRets, called, hits>>

\* Mutant: the loop test lets end_value itself through.
FetchPastEnd(t) ==
  /\ Running(t) /\ pc[t] = "fetch"
  /\ current' = (current + BlockSize) % Modulus
  /\ IF current <= End
     THEN /\ z' = [z EXCEPT ![t] = current]
          /\ blockEnd' = [blockEnd EXCEPT ![t] = (current + BlockSize) % Modulus]
          /\ pc' = [pc EXCEPT ![t] = "call"]
     ELSE pc' = [pc EXCEPT ![t] = "done"] /\ UNCHANGED <<z, blockEnd>>
  /\ UNCHANGED <<result, mainPc, spawned, threadRets, called, hits>>

\* The fetch_add and the two loop tests that follow it.
Fetch(t) ==
  /\ Running(t) /\ pc[t] = "fetch"
  /\ current' = (current + BlockSize) % Modulus
  /\ IF current < End
     THEN LET end == (current + BlockSize) % Modulus
          IN  /\ z' = [z EXCEPT ![t] = current]
              /\ blockEnd' = [blockEnd EXCEPT ![t] = end]
              /\ pc' = [pc EXCEPT ![t] = IF current < end THEN "call"
                                                          ELSE "fetch"]
     ELSE pc' = [pc EXCEPT ![t] = "done"] /\ UNCHANGED <<z, blockEnd>>
  /\ UNCHANGED <<result, mainPc, spawned, threadRets, called, hits>>

\* The end of the loop body when the callback's answer does not stop it.
Advance(t) ==
  /\ z' = [z EXCEPT ![t] = @ + 1]
  /\ pc' = [pc EXCEPT ![t] = IF z[t] + 1 < blockEnd[t] THEN "call" ELSE "fetch"]

CallReturnsFalse(t) ==
  /\ Running(t) /\ pc[t] = "call"
  /\ called' = called \cup {z[t]}
  /\ Advance(t)
  /\ UNCHANGED <<shared, mainPc, spawned, blockEnd, threadRets, hits>>

\* parallel_blocks_multi wraps the callback in one that records the value
\* for its thread and answers false.
CallReturnsTrue(t) ==
  /\ Running(t) /\ pc[t] = "call"
  /\ called' = called \cup {z[t]}
  /\ hits' = hits \cup {z[t]}
  /\ IF Mode = "multi"
     THEN /\ threadRets' = [threadRets EXCEPT ![t] = @ \cup {z[t]}]
          /\ Advance(t)
     ELSE /\ pc' = [pc EXCEPT ![t] = "publish"]
          /\ UNCHANGED <<threadRets, z>>
  /\ UNCHANGED <<shared, mainPc, spawned, blockEnd>>

Publish(t) ==
  /\ Running(t) /\ pc[t] = "publish"
  /\ result' = z[t]
  /\ pc' = [pc EXCEPT ![t] = "stop"]
  /\ UNCHANGED <<current, mainPc, spawned, z, blockEnd, threadRets, called, hits>>

\* Mutant: the other workers are not told to stop.
StopOthersMissing(t) ==
  /\ Running(t) /\ pc[t] = "stop"
  /\ pc' = [pc EXCEPT ![t] = "fetch"]
  /\ UNCHANGED <<shared, mainPc, spawned, z, blockEnd, threadRets, called, hits>>

StopOthers(t) ==
  /\ Running(t) /\ pc[t] = "stop"
  /\ current' = End
  /\ pc' = [pc EXCEPT ![t] = "fetch"]
  /\ UNCHANGED <<result, mainPc, spawned, z, blockEnd, threadRets, called, hits>>

Worker(t) ==
  \/ Fetch(t)
  \/ CallReturnsFalse(t)
  \/ CallReturnsTrue(t)
  \/ Publish(t)
  \/ StopOthers(t)

Main == Enter \/ Spawn \/ Report \/ Wake \/ Join

\* The call is over: a value was returned, an exception was thrown, or the
\* process died.
Over ==
  /\ mainPc \in {"returned", "thrown", "crashed"}
  /\ UNCHANGED vars

Next == Main \/ Over \/ \E t \in Threads : Worker(t)

Spec == Init /\ [][Next]_vars

\* The scheduler runs every thread that can run, and callbacks return.
FairSpec == Spec /\ WF_vars(Main) /\ \A t \in Threads : WF_vars(Worker(t))

-----------------------------------------------------------------------------
(***************************************************************************)
(* What ParallelJob is checked for, and the invariant that its proofs use. *)
(***************************************************************************)

\* The counter passes end_value by at most one block per worker; nothing
\* below holds when that makes it wrap around (see the run parallel_wrap).
NoWrap == End + NumThreads * BlockSize < Modulus

\* Tools.hh 115, 206 and 245-251: what the caller gets.
ReturnValue ==
  IF Mode = "multi"
  THEN UNION {threadRets[t] : t \in Threads}
  ELSE {result}

-----------------------------------------------------------------------------
(* Properties. *)

\* Every variable has its type.
TypeOK ==
  /\ current \in IntT
  /\ result \in IntT
  /\ mainPc \in {"entry", "spawn", "progress", "sleep", "join",
                 "returned", "thrown", "crashed"}
  /\ spawned \in 0 .. NumThreads
  /\ pc \in [Threads -> {"fetch", "call", "publish", "stop", "done"}]
  /\ z \in [Threads -> IntT]
  /\ blockEnd \in [Threads -> IntT]
  /\ threadRets \in [Threads -> SUBSET IntT]
  /\ called \in SUBSET IntT
  /\ hits \in SUBSET IntT

\* The callback is never invoked twice for one value, whether by two workers
\* at once or one after the other (Tools.hh 60 and 137-140).
EachValueOnce ==
  \A t \in Threads : pc[t] = "call" =>
    /\ z[t] \notin called
    /\ \A u \in Threads \ {t} : pc[u] = "call" => z[u] # z[t]

\* Every value handed to the callback is in the input range (Tools.hh 60, 137
\* and 149).
OnlyRangeCalled ==
  \A t \in Threads : pc[t] = "call" => z[t] \in Values

\* A worker's callback has returned true and the worker has stored both the
\* result and end_value.
Stopped == hits # {} /\ \A t \in Threads : pc[t] \notin {"publish", "stop"}

\* Once a match has stopped the job, a worker finishes the call it is in, if
\* any, and begins no other (the comment at Tools.hh 68-70).
StopsPromptly ==
  [][Stopped => \A t \in Threads :
       pc'[t] = "call" => pc[t] = "call" /\ z'[t] = z[t]]_vars

\* The default progress report never divides by zero (Tools.hh 44-45): the
\* comment at 150-153 lists a nonzero start_value as a valid input.
ReportsSafely == mainPc # "crashed"

\* Once a worker has taken a block, the default progress report divides by
\* nonzero: the division of Tools.hh 45 can fail only before the first fetch.
ReportsOnceUnderWay ==
  mainPc = "crashed" => called = {} /\ \A t \in Threads : pc[t] = "fetch"

\* The call returns (or throws): no worker is left waiting and the caller's
\* progress loop sees the end (Tools.hh 102-113 and 193-204).
Returns == <>(mainPc \in {"returned", "thrown"})

\* The threads implement the promise of ParallelFind: at most one call per
\* value; the answer is a value whose callback returned true, or end_value
\* after a call for every value (all matches for parallel_blocks_multi).
Abstract == INSTANCE ParallelFind WITH
  FindAll <- Mode = "multi",
  answer <- IF mainPc = "returned" THEN ReturnValue ELSE {-1}

ImplementsFind == Abstract!Spec

-----------------------------------------------------------------------------
(* The inductive invariant. *)

\* The values of a worker's block that are not done with.
Pending(t) ==
  IF pc[t] \in {"call", "publish", "stop"} THEN z[t] .. blockEnd[t] - 1 ELSE {}

DoneThreads == {t \in Threads : pc[t] = "done"}

\* Workers exist only once the arguments were found valid, and only as far as
\* they were started.
StartInv ==
  /\ mainPc \in {"entry", "thrown"} => spawned = 0
  /\ mainPc \in {"progress", "sleep", "join", "returned"} => spawned = NumThreads
  /\ mainPc \notin {"entry", "thrown"} => Aligned
  /\ \A t \in Threads : t >= spawned => pc[t] = "fetch"
  /\ mainPc = "returned" => \A t \in Threads : pc[t] = "done"

\* The counter is at a block boundary until it passes end_value, and passes it
\* by at most one block for each worker that has seen it do so.
CounterInv ==
  /\ current >= Start
  /\ current < End => (current - Start) % BlockSize = 0
  /\ current <= End + BlockSize * Cardinality(DoneThreads)
  /\ DoneThreads # {} => current >= End

\* Blocks in work lie below the counter and inside the range, and do not overlap
\* with each other or with what was called.
BlockInv ==
  /\ \A v \in called : v \in Values /\ v < current
  /\ \A t \in Threads : pc[t] \in {"call", "publish", "stop"} =>
       /\ Start <= z[t] /\ z[t] < blockEnd[t]
       /\ blockEnd[t] <= current /\ blockEnd[t] <= End
  /\ \A t \in Threads : pc[t] = "call" => Pending(t) \cap called = {}
  /\ \A t, u \in Threads : t # u => Pending(t) \cap Pending(u) = {}

\* A value below the counter has been called or is in some worker's block,
\* as long as no match cuts the work short.
CoverInv ==
  hits = {} \/ Mode = "multi" =>
    \A v \in Values : v < current =>
      v \in called \/ \E t \in Threads : pc[t] = "call" /\ v \in Pending(t)

\* What was found is recorded, or about to be.
HitInv ==
  /\ hits \subseteq called
  /\ IF Mode = "multi"
     THEN /\ hits = UNION {threadRets[t] : t \in Threads}
          /\ \A t \in Threads : pc[t] \notin {"publish", "stop"}
     ELSE /\ \A t \in Threads : pc[t] \in {"publish", "stop"} => z[t] \in hits
          /\ \/ result \in hits
             \/ result = End /\ hits = {}
             \/ result = End /\ \E t \in Threads : pc[t] = "publish"

IInv == TypeOK /\ StartInv /\ CounterInv /\ BlockInv /\ CoverInv /\ HitInv
=============================================================================
