------------------------- MODULE ParallelRangeProof -------------------------
(***************************************************************************)
(* Proofs about ParallelRange, for every size of the range and every       *)
(* number of workers.                                                      *)
(***************************************************************************)
EXTENDS ParallelRange, TLAPS

\* A worker past its first lock was started, and the caller is waiting for it.
LEMMA BusyWorker ==
  ASSUME IInv, NEW t \in Threads, pc[t] # "acquire", pc[t] # "done"
  PROVE  t < spawned /\ mainPc = "running"
BY RangeAssumption DEF IInv, StartInv, TypeOK, Threads

\* The state before the first step.
LEMMA InitInv == Init => IInv
<1> SUFFICES ASSUME Init PROVE IInv
  OBVIOUS
<1> USE RangeAssumption DEF Init, Threads, Null, Free, Items
<1>1. TypeOK
  BY DEF TypeOK
<1>2. LockInv
  BY DEF LockInv, InCritical
<1>3. StartInv
  BY DEF StartInv
<1>4. ItemInv
  BY DEF ItemInv
<1>5. CoverInv
  BY DEF CoverInv
<1>6. HitInv
  BY DEF HitInv
<1>7. QED
  BY <1>1, <1>2, <1>3, <1>4, <1>5, <1>6 DEF IInv

-----------------------------------------------------------------------------
\* Starting a worker and returning change nothing else.
LEMMA MainStep ==
  ASSUME IInv, Spawn \/ Join
  PROVE  IInv'
<1> USE RangeAssumption DEF Spawn, Join
<1>1. TypeOK /\ LockInv /\ StartInv /\ ItemInv /\ CoverInv /\ HitInv
  BY DEF IInv
<1>2. UNCHANGED <<lock, it, result, pc, v, called, hits>>
  OBVIOUS
<1>3. TypeOK'
  BY <1>1 DEF TypeOK
<1>4. LockInv'
  BY <1>1, <1>2 DEF LockInv
<1>5. StartInv'
  BY <1>1 DEF StartInv, TypeOK, Threads
<1>6. ItemInv' /\ CoverInv' /\ HitInv'
  BY <1>1, <1>2 DEF ItemInv, CoverInv, HitInv
<1>7. QED
  BY <1>3, <1>4, <1>5, <1>6 DEF IInv

\* Entering the first critical section.
LEMMA AcquireStep ==
  ASSUME IInv, NEW t \in Threads, Acquire(t)
  PROVE  IInv'
<1> USE RangeAssumption DEF Threads, Free, Null, Items
<1>1. TypeOK /\ LockInv /\ StartInv /\ ItemInv /\ CoverInv /\ HitInv
  BY DEF IInv
<1>2. t < spawned /\ mainPc = "running"
  BY <1>1 DEF Acquire, StartInv, TypeOK
<1>3. \A u \in Threads : pc'[u] = IF u = t THEN "test" ELSE pc[u]
  BY <1>1 DEF Acquire, Goto, TypeOK
<1>4. TypeOK'
  BY <1>1 DEF Acquire, Goto, TypeOK, ItemInv
<1>5. LockInv'
  BY <1>1, <1>3 DEF Acquire, LockInv, InCritical, TypeOK
<1>6. StartInv'
  BY <1>1, <1>2, <1>3 DEF Acquire, StartInv, TypeOK
<1>7. ItemInv'
  BY <1>1, <1>3 DEF Acquire, ItemInv, TypeOK, LockInv, InCritical
<1>8. CoverInv'
  <2>1. \A u \in Threads : pc'[u] = "done" => pc[u] = "done"
    BY <1>3
  <2>2. UNCHANGED <<it, v, hits>>
    BY DEF Acquire
  <2>3. ASSUME hits = {}, NEW i \in Items, i < it
        PROVE  i \in called' \/ \E u \in Threads : pc'[u] = "call" /\ v'[u] = i
    BY <1>1, <1>3, <2>3 DEF CoverInv, Acquire
  <2>4. QED
    BY <1>1, <2>1, <2>2, <2>3 DEF CoverInv
<1>9. HitInv'
  BY <1>1, <1>3 DEF Acquire, HitInv, ItemInv, TypeOK
<1>10. QED
  BY <1>4, <1>5, <1>6, <1>7, <1>8, <1>9 DEF IInv

\* Comparing the iterator with the end: leave, or take the element.
LEMMA TestStep ==
  ASSUME IInv, NEW t \in Threads, Test(t)
  PROVE  IInv'
<1> USE RangeAssumption DEF Threads, Free, Null, Items
<1>1. TypeOK /\ LockInv /\ StartInv /\ ItemInv /\ CoverInv /\ HitInv
  BY DEF IInv
<1>2. t < spawned /\ mainPc = "running"
  BY BusyWorker DEF Test
<1>3. \A u \in Threads : pc'[u] = IF u = t THEN (IF it = NumItems THEN "done" ELSE "advance") ELSE pc[u]
  BY <1>1 DEF Test, Goto, TypeOK
<1>4. TypeOK'
  BY <1>1 DEF Test, Goto, TypeOK, ItemInv
<1>5. LockInv'
  BY <1>1, <1>3 DEF Test, LockInv, InCritical, TypeOK
<1>6. StartInv'
  BY <1>1, <1>2, <1>3 DEF Test, StartInv, TypeOK
<1>7. ItemInv'
  <2>1. \A u \in Threads \ {t} : pc'[u] = pc[u] /\ v'[u] = v[u]
    BY <1>1, <1>3 DEF Test, TypeOK
  <2>2. pc'[t] = "done" \/ (pc'[t] = "advance" /\ v'[t] = it /\ it < NumItems)
    BY <1>1, <1>3 DEF Test, TypeOK
  <2>3. UNCHANGED <<it, called, hits>>
    BY DEF Test
  <2>4. QED
    BY <1>1, <2>1, <2>2, <2>3 DEF ItemInv
<1>8. CoverInv'
  <2>1. UNCHANGED <<it, called, hits>>
    BY DEF Test
  <2>2. pc'[t] = "done" => it = NumItems
    BY <1>3
  <2>3. \A u \in Threads : pc[u] = "call" => u # t /\ pc'[u] = "call" /\ v'[u] = v[u]
    BY <1>1, <1>3 DEF Test, TypeOK
  <2>4. ASSUME hits = {}, NEW i \in Items, i < it
        PROVE  i \in called \/ \E u \in Threads : pc'[u] = "call" /\ v'[u] = i
    BY <1>1, <2>3, <2>4 DEF CoverInv
  <2>5. ASSUME hits = {}, NEW u \in Threads, pc'[u] = "done"
        PROVE  it = NumItems
    BY <1>1, <1>3, <2>2, <2>5 DEF CoverInv
  <2>6. QED
    BY <2>1, <2>4, <2>5 DEF CoverInv
<1>9. HitInv'
  BY <1>1, <1>3 DEF Test, HitInv, ItemInv, TypeOK
<1>10. QED
  BY <1>4, <1>5, <1>6, <1>7, <1>8, <1>9 DEF IInv

\* Moving the iterator past the element taken.
LEMMA AdvanceIteratorStep ==
  ASSUME IInv, NEW t \in Threads, AdvanceIterator(t)
  PROVE  IInv'
<1> USE RangeAssumption DEF Threads, Free, Null, Items
<1>1. TypeOK /\ LockInv /\ StartInv /\ ItemInv /\ CoverInv /\ HitInv
  BY DEF IInv
<1>2. t < spawned /\ mainPc = "running"
  BY BusyWorker DEF AdvanceIterator
<1>3. \A u \in Threads : pc'[u] = IF u = t THEN "call" ELSE pc[u]
  BY <1>1 DEF AdvanceIterator, Goto, TypeOK
<1>4. TypeOK'
  BY <1>1 DEF AdvanceIterator, Goto, TypeOK, ItemInv
<1>5. LockInv'
  BY <1>1, <1>3 DEF AdvanceIterator, LockInv, InCritical, TypeOK
<1>6. StartInv'
  BY <1>1, <1>2, <1>3 DEF AdvanceIterator, StartInv, TypeOK
<1>7. ItemInv'
  BY <1>1, <1>3 DEF AdvanceIterator, ItemInv, TypeOK, LockInv, InCritical
<1>8. CoverInv'
  <2>1. pc[t] = "advance" /\ it < NumItems /\ it' = it + 1 /\ it \in Int
          /\ v[t] = it /\ UNCHANGED <<v, called, hits>>
    BY <1>1 DEF AdvanceIterator, ItemInv, TypeOK
  <2>2. ASSUME hits = {}, NEW i \in Items, i < it + 1
        PROVE  i \in called \/ \E u \in Threads : pc'[u] = "call" /\ v[u] = i
    <3>1. CASE i < it
      BY <1>1, <1>3, <2>1, <2>2, <3>1 DEF CoverInv
    <3>2. CASE ~(i < it)
      BY <1>3, <2>1, <2>2, <3>2
    <3>3. QED
      BY <3>1, <3>2
  <2>3. ASSUME hits = {}, NEW u \in Threads, pc'[u] = "done"
        PROVE  FALSE
    BY <1>1, <1>3, <2>1, <2>3 DEF CoverInv
  <2>4. QED
    BY <2>1, <2>2, <2>3 DEF CoverInv
<1>9. HitInv'
  BY <1>1, <1>3 DEF AdvanceIterator, HitInv, ItemInv, TypeOK
<1>10. QED
  BY <1>4, <1>5, <1>6, <1>7, <1>8, <1>9 DEF IInv

\* The callback answered false.
LEMMA CallReturnsFalseStep ==
  ASSUME IInv, NEW t \in Threads, CallReturnsFalse(t)
  PROVE  IInv'
<1> USE RangeAssumption DEF Threads, Free, Null, Items
<1>1. TypeOK /\ LockInv /\ StartInv /\ ItemInv /\ CoverInv /\ HitInv
  BY DEF IInv
<1>2. t < spawned /\ mainPc = "running"
  BY BusyWorker DEF CallReturnsFalse
<1>3. \A u \in Threads : pc'[u] = IF u = t THEN "acquire" ELSE pc[u]
  BY <1>1 DEF CallReturnsFalse, Goto, TypeOK
<1>4. TypeOK'
  <2>1. v[t] \in Items
    BY <1>1 DEF CallReturnsFalse, TypeOK, ItemInv
  <2>2. called' \in SUBSET Items /\ hits' \in SUBSET Items
    BY <1>1, <2>1 DEF CallReturnsFalse, TypeOK
  <2>3. QED
    BY <1>1, <2>2 DEF CallReturnsFalse, Goto, TypeOK
<1>5. LockInv'
  BY <1>1, <1>3 DEF CallReturnsFalse, LockInv, InCritical, TypeOK
<1>6. StartInv'
  BY <1>1, <1>2, <1>3 DEF CallReturnsFalse, StartInv, TypeOK
<1>7. ItemInv'
  BY <1>1, <1>3 DEF CallReturnsFalse, ItemInv, TypeOK, LockInv, InCritical
<1>8. CoverInv'
  <2>1. \A u \in Threads : pc'[u] = "done" => pc[u] = "done"
    BY <1>3
  <2>2. UNCHANGED <<it, v, hits>>
    BY DEF CallReturnsFalse
  <2>3. ASSUME hits = {}, NEW i \in Items, i < it
        PROVE  i \in called' \/ \E u \in Threads : pc'[u] = "call" /\ v'[u] = i
    BY <1>1, <1>3, <2>3 DEF CoverInv, CallReturnsFalse
  <2>4. QED
    BY <1>1, <2>1, <2>2, <2>3 DEF CoverInv
<1>9. HitInv'
  BY <1>1, <1>3 DEF CallReturnsFalse, HitInv, ItemInv, TypeOK
<1>10. QED
  BY <1>4, <1>5, <1>6, <1>7, <1>8, <1>9 DEF IInv

\* The callback answered true.
LEMMA CallReturnsTrueStep ==
  ASSUME IInv, NEW t \in Threads, CallReturnsTrue(t)
  PROVE  IInv'
<1> USE RangeAssumption DEF Threads, Free, Null, Items
<1>1. TypeOK /\ LockInv /\ StartInv /\ ItemInv /\ CoverInv /\ HitInv
  BY DEF IInv
<1>2. t < spawned /\ mainPc = "running"
  BY BusyWorker DEF CallReturnsTrue
<1>3. \A u \in Threads : pc'[u] = IF u = t THEN "reacquire" ELSE pc[u]
  BY <1>1 DEF CallReturnsTrue, Goto, TypeOK
<1>4. TypeOK'
  <2>1. v[t] \in Items
    BY <1>1 DEF CallReturnsTrue, TypeOK, ItemInv
  <2>2. called' \in SUBSET Items /\ hits' \in SUBSET Items
    BY <1>1, <2>1 DEF CallReturnsTrue, TypeOK
  <2>3. QED
    BY <1>1, <2>2 DEF CallReturnsTrue, Goto, TypeOK
<1>5. LockInv'
  BY <1>1, <1>3 DEF CallReturnsTrue, LockInv, InCritical, TypeOK
<1>6. StartInv'
  BY <1>1, <1>2, <1>3 DEF CallReturnsTrue, StartInv, TypeOK
<1>7. ItemInv'
  BY <1>1, <1>3 DEF CallReturnsTrue, ItemInv, TypeOK, LockInv, InCritical
<1>8. CoverInv'
  BY <1>1, <1>3 DEF CallReturnsTrue, CoverInv, ItemInv, TypeOK
<1>9. HitInv'
  BY <1>1, <1>3 DEF CallReturnsTrue, HitInv, ItemInv, TypeOK
<1>10. QED
  BY <1>4, <1>5, <1>6, <1>7, <1>8, <1>9 DEF IInv

\* Entering the second critical section.
LEMMA AcquireAgainStep ==
  ASSUME IInv, NEW t \in Threads, AcquireAgain(t)
  PROVE  IInv'
<1> USE RangeAssumption DEF Threads, Free, Null, Items
<1>1. TypeOK /\ LockInv /\ StartInv /\ ItemInv /\ CoverInv /\ HitInv
  BY DEF IInv
<1>2. t < spawned /\ mainPc = "running"
  BY BusyWorker DEF AcquireAgain
<1>3. \A u \in Threads : pc'[u] = IF u = t THEN "publish" ELSE pc[u]
  BY <1>1 DEF AcquireAgain, Goto, TypeOK
<1>4. TypeOK'
  BY <1>1 DEF AcquireAgain, Goto, TypeOK, ItemInv
<1>5. LockInv'
  BY <1>1, <1>3 DEF AcquireAgain, LockInv, InCritical, TypeOK
<1>6. StartInv'
  BY <1>1, <1>2, <1>3 DEF AcquireAgain, StartInv, TypeOK
<1>7. ItemInv'
  BY <1>1, <1>3 DEF AcquireAgain, ItemInv, TypeOK, LockInv, InCritical
<1>8. CoverInv'
  BY <1>1, <1>3 DEF AcquireAgain, CoverInv, ItemInv, TypeOK
<1>9. HitInv'
  BY <1>1, <1>3 DEF AcquireAgain, HitInv, ItemInv, TypeOK
<1>10. QED
  BY <1>4, <1>5, <1>6, <1>7, <1>8, <1>9 DEF IInv

\* Storing the match.
LEMMA PublishStep ==
  ASSUME IInv, NEW t \in Threads, Publish(t)
  PROVE  IInv'
<1> USE RangeAssumption DEF Threads, Free, Null, Items
<1>1. TypeOK /\ LockInv /\ StartInv /\ ItemInv /\ CoverInv /\ HitInv
  BY DEF IInv
<1>2. t < spawned /\ mainPc = "running"
  BY BusyWorker DEF Publish
<1>3. \A u \in Threads : pc'[u] = IF u = t THEN "stop" ELSE pc[u]
  BY <1>1 DEF Publish, Goto, TypeOK
<1>4. TypeOK'
  BY <1>1 DEF Publish, Goto, TypeOK, ItemInv
<1>5. LockInv'
  BY <1>1, <1>3 DEF Publish, LockInv, InCritical, TypeOK
<1>6. StartInv'
  BY <1>1, <1>2, <1>3 DEF Publish, StartInv, TypeOK
<1>7. ItemInv'
  BY <1>1, <1>3 DEF Publish, ItemInv, TypeOK, LockInv, InCritical
<1>8. CoverInv'
  BY <1>1, <1>3 DEF Publish, CoverInv, ItemInv, TypeOK
<1>9. HitInv'
  BY <1>1, <1>3 DEF Publish, HitInv, ItemInv, TypeOK
<1>10. QED
  BY <1>4, <1>5, <1>6, <1>7, <1>8, <1>9 DEF IInv

\* Moving the iterator to the end.
LEMMA StopOthersStep ==
  ASSUME IInv, NEW t \in Threads, StopOthers(t)
  PROVE  IInv'
<1> USE RangeAssumption DEF Threads, Free, Null, Items
<1>1. TypeOK /\ LockInv /\ StartInv /\ ItemInv /\ CoverInv /\ HitInv
  BY DEF IInv
<1>2. t < spawned /\ mainPc = "running"
  BY BusyWorker DEF StopOthers
<1>3. \A u \in Threads : pc'[u] = IF u = t THEN "done" ELSE pc[u]
  BY <1>1 DEF StopOthers, Goto, TypeOK
<1>4. TypeOK'
  BY <1>1 DEF StopOthers, Goto, TypeOK, ItemInv
<1>5. LockInv'
  BY <1>1, <1>3 DEF StopOthers, LockInv, InCritical, TypeOK
<1>6. StartInv'
  BY <1>1, <1>2, <1>3 DEF StopOthers, StartInv, TypeOK
<1>7. ItemInv'
  BY <1>1, <1>3 DEF StopOthers, ItemInv, TypeOK, LockInv, InCritical
<1>8. CoverInv'
  BY <1>1, <1>3 DEF StopOthers, CoverInv, ItemInv, TypeOK
<1>9. HitInv'
  BY <1>1, <1>3 DEF StopOthers, HitInv, ItemInv, TypeOK
<1>10. QED
  BY <1>4, <1>5, <1>6, <1>7, <1>8, <1>9 DEF IInv
-----------------------------------------------------------------------------
\* Every step preserves the invariant.
LEMMA NextInv == IInv /\ [Next]_vars => IInv'
<1> SUFFICES ASSUME IInv, [Next]_vars PROVE IInv'
  OBVIOUS
<1>1. CASE Spawn \/ Join
  BY <1>1, MainStep
<1>2. ASSUME NEW t \in Threads, Worker(t) PROVE IInv'
  BY <1>2, AcquireStep, TestStep, AdvanceIteratorStep, CallReturnsFalseStep,
     CallReturnsTrueStep, AcquireAgainStep, PublishStep, StopOthersStep DEF Worker
<1>3. CASE UNCHANGED vars
  BY <1>3 DEF vars, IInv, TypeOK, LockInv, StartInv, ItemInv, CoverInv, HitInv
<1>4. QED
  BY <1>1, <1>2, <1>3 DEF Next, Returned

\* The inductive invariant holds of every behaviour (Tools.hh 272-313).
THEOREM Invariance == Spec => []IInv
BY InitInv, NextInv, PTL DEF Spec

\* No element is handed to the callback twice (Tools.hh 284-290).
THEOREM ItemOnce == Spec => []EachItemOnce
<1>1. IInv => EachItemOnce
  BY DEF IInv, ItemInv, EachItemOnce
<1>2. QED
  BY <1>1, Invariance, PTL

\* The iterator, the result and every element handed out stay in the range.
THEOREM RangeTyping == Spec => []TypeOK
<1>1. IInv => TypeOK
  BY DEF IInv
<1>2. QED
  BY <1>1, Invariance, PTL

-----------------------------------------------------------------------------
\* parallel_range does what ParallelFind promises (Tools.hh 263-265), given at
\* least one worker.
THEOREM Refinement == ASSUME NumThreads > 0 PROVE Spec => ImplementsFind
<1> USE RangeAssumption DEF Abstract!Pending, Abstract!Domain, Abstract!avars
<1>1. Init => Abstract!Init
  BY DEF Init, Abstract!Init
<1>2. IInv /\ [Next]_vars => [Abstract!Next]_(Abstract!avars)
  <2> SUFFICES ASSUME IInv, [Next]_vars
               PROVE  Abstract!Next \/ UNCHANGED Abstract!avars
    OBVIOUS
  <2>1. CASE Join
    <3>1. TypeOK /\ CoverInv /\ HitInv /\ StartInv
      BY DEF IInv
    <3>2. \A t \in Threads : pc[t] = "done"
      BY <2>1 DEF Join
    <3>3. 0 \in Threads
      BY DEF Threads
    <3>4. hits = {} => it = NumItems
      BY <3>1, <3>2, <3>3 DEF CoverInv
    <3>5. hits = {} => called = Items
      <4>1. \A i \in Items : hits = {} => i < it
        BY <3>4 DEF Items
      <4>2. \A i \in Items : hits = {} => i \in called
        BY <3>1, <3>2, <4>1 DEF CoverInv
      <4>3. called \subseteq Items
        BY <3>1 DEF TypeOK
      <4>4. QED
        BY <4>2, <4>3
    <3>6. result \in hits \/ (result = NumItems /\ hits = {})
      BY <3>1, <3>2 DEF HitInv, Null
    <3>7. Abstract!Answer
      BY <2>1, <3>5, <3>6 DEF Join, Abstract!Answer, Items
    <3>8. QED
      BY <3>7 DEF Abstract!Next
  <2>2. ASSUME NEW t \in Threads, CallReturnsFalse(t) \/ CallReturnsTrue(t)
        PROVE  Abstract!Next
    <3>1. pc[t] = "call" /\ mainPc = "running" /\ mainPc' = mainPc
      BY <2>2, BusyWorker DEF CallReturnsFalse, CallReturnsTrue
    <3>2. v[t] \in Items \ called
      BY <3>1 DEF IInv, ItemInv, TypeOK, Items
    <3>3. called' = called \cup {v[t]} /\ hits' \in {hits, hits \cup {v[t]}}
      BY <2>2 DEF CallReturnsFalse, CallReturnsTrue
    <3>4. Abstract!Call(v[t])
      BY <3>1, <3>2, <3>3 DEF Abstract!Call, Items
    <3>5. QED
      BY <3>2, <3>4 DEF Abstract!Next, Items
  <2>4. ASSUME NEW t \in Threads,
               \/ Acquire(t) \/ Test(t) \/ AdvanceIterator(t)
               \/ AcquireAgain(t) \/ Publish(t) \/ StopOthers(t)
        PROVE  UNCHANGED Abstract!avars
    <3>1. UNCHANGED <<mainPc, called, hits>>
      BY <2>4 DEF Acquire, Test, AdvanceIterator, AcquireAgain, Publish, StopOthers
    <3>2. pc[t] # "done" /\ (pc[t] = "acquire" => t < spawned)
      BY <2>4 DEF Acquire, Test, AdvanceIterator, AcquireAgain, Publish, StopOthers
    <3>3. mainPc = "running"
      BY <3>2, BusyWorker DEF IInv, StartInv, TypeOK
    <3>4. QED
      BY <3>1, <3>3
  <2>5. CASE Spawn
    BY <2>5 DEF Spawn, IInv, StartInv, TypeOK
  <2>6. CASE UNCHANGED vars
    BY <2>6 DEF vars
  <2>7. QED
    BY <2>1, <2>2, <2>4, <2>5, <2>6 DEF Next, Returned, Worker
<1>3. QED
  BY <1>1, <1>2, Invariance, PTL DEF Spec, ImplementsFind, Abstract!Spec

-----------------------------------------------------------------------------
\* Once a match has been stored and announced, the iterator is at the end.
StopInv ==
  hits # {} /\ (\A t \in Threads : pc[t] \notin {"reacquire", "publish", "stop"})
    => it = NumItems

LEMMA StopInvStep == IInv /\ StopInv /\ [Next]_vars => StopInv'
<1> SUFFICES ASSUME IInv, StopInv, [Next]_vars PROVE StopInv'
  OBVIOUS
<1>1. TypeOK /\ ItemInv
  BY DEF IInv
<1>2. ASSUME UNCHANGED <<hits, pc, it>> PROVE StopInv'
  BY <1>2 DEF StopInv
<1>3. ASSUME NEW t \in Threads, NEW label, Goto(t, label), hits' = hits, it' = it,
             pc[t] \notin {"reacquire", "publish", "stop"}
      PROVE  StopInv'
  <2>1. \A u \in Threads \ {t} : pc'[u] = pc[u]
    BY <1>1, <1>3 DEF Goto, TypeOK
  <2>2. QED
    BY <1>3, <2>1 DEF StopInv
<1>4. ASSUME NEW t \in Threads, NEW label \in {"reacquire", "publish", "stop"}, Goto(t, label)
      PROVE  StopInv'
  <2>1. pc'[t] = label
    BY <1>1, <1>4 DEF Goto, TypeOK
  <2>2. QED
    BY <2>1 DEF StopInv
<1>5. CASE Spawn \/ Join \/ UNCHANGED vars
  BY <1>2, <1>5 DEF Spawn, Join, vars
<1>6. ASSUME NEW t \in Threads, Acquire(t) \/ Test(t) \/ CallReturnsFalse(t) PROVE StopInv'
  BY <1>3, <1>6 DEF Acquire, Test, CallReturnsFalse
<1>7. ASSUME NEW t \in Threads, AdvanceIterator(t) PROVE StopInv'
  <2>1. it # NumItems /\ pc[t] = "advance" /\ hits' = hits
    BY <1>1, <1>7, RangeAssumption DEF AdvanceIterator, ItemInv, TypeOK
  <2>2. \A u \in Threads \ {t} : pc'[u] = pc[u]
    BY <1>1, <1>7 DEF AdvanceIterator, Goto, TypeOK
  <2>3. QED
    BY <2>1, <2>2 DEF StopInv
<1>8. ASSUME NEW t \in Threads, CallReturnsTrue(t) \/ AcquireAgain(t) \/ Publish(t)
      PROVE  StopInv'
  BY <1>4, <1>8 DEF CallReturnsTrue, AcquireAgain, Publish
<1>9. ASSUME NEW t \in Threads, StopOthers(t) PROVE StopInv'
  BY <1>9 DEF StopOthers, StopInv
<1>10. QED
  BY <1>5, <1>6, <1>7, <1>8, <1>9 DEF Next, Returned, Worker

\* After a match no worker takes another element (Tools.hh 264-265).
THEOREM Stops == Spec => StopsEarly
<1>1. Init => StopInv
  BY DEF Init, StopInv
<1>2. ASSUME IInv, StopInv, [Next]_vars, hits # {},
             \A t \in Threads : pc[t] \notin {"advance", "reacquire", "publish", "stop"},
             NEW t \in Threads, pc'[t] \in {"advance", "call"}
      PROVE  pc[t] = "call"
  <2>1. it = NumItems /\ TypeOK
    BY <1>2 DEF StopInv, IInv
  <2>2. CASE Spawn \/ Join \/ UNCHANGED vars
    BY <1>2, <2>2 DEF Spawn, Join, vars
  <2>3. ASSUME NEW u \in Threads, Worker(u) PROVE pc[t] = "call"
    <3>1. \E label \in {"test", "done", "acquire", "reacquire"} : Goto(u, label)
      BY <1>2, <2>1, <2>3 DEF Worker, Acquire, Test, AdvanceIterator, CallReturnsFalse,
                              CallReturnsTrue, AcquireAgain, Publish, StopOthers
    <3>2. QED
      BY <1>2, <2>1, <3>1 DEF Goto, TypeOK
  <2>4. QED
    BY <1>2, <2>2, <2>3 DEF Next, Returned
<1>3. IInv /\ StopInv /\ [Next]_vars =>
        ((hits # {} /\ result # Null /\ \A t \in Threads : pc[t] \notin
            {"advance", "reacquire", "publish", "stop"})
         => \A t \in Threads : pc'[t] \in {"advance", "call"} => pc[t] = "call")
  BY <1>2
<1>4. QED
  BY <1>1, <1>3, StopInvStep, Invariance, PTL DEF Spec, StopsEarly
=============================================================================
