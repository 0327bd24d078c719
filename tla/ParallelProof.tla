---------------------------- MODULE ParallelProof ----------------------------
(***************************************************************************)
(* Proofs about ParallelJob, for every range, block size and number of     *)
(* threads such that the counter does not wrap around (NoWrap).            *)
(***************************************************************************)
EXTENDS ParallelJob, FiniteSetTheorems, TLAPS

\* The set of workers is finite, and so is every subset of it.
LEMMA ThreadsFinite ==
  /\ IsFiniteSet(Threads) /\ Cardinality(Threads) = NumThreads
  /\ \A S \in SUBSET Threads :
       /\ IsFiniteSet(S) /\ Cardinality(S) \in Nat
       /\ Cardinality(S) <= NumThreads
<1>1. NumThreads \in Nat
  BY JobAssumption
<1>2. IsFiniteSet(Threads) /\ Cardinality(Threads) = NumThreads
  BY <1>1, FS_Interval DEF Threads
<1>3. ASSUME NEW S \in SUBSET Threads
      PROVE  IsFiniteSet(S) /\ Cardinality(S) \in Nat /\ Cardinality(S) <= NumThreads
  BY <1>2, FS_Subset, FS_CardinalityType
<1>4. QED
  BY <1>2, <1>3

\* A multiple of b leaves no remainder.
LEMMA MultipleOfBlock ==
  ASSUME NEW b \in Nat, b > 0, NEW m \in Nat
  PROVE  (b * m) % b = 0
OBVIOUS

\* Blocks start at multiples of BlockSize: one that starts inside an aligned
\* range ends inside it, and the next one is aligned again.
LEMMA BlockFits ==
  ASSUME NEW c \in Nat, Start <= c, c < End, Aligned,
         (c - Start) % BlockSize = 0
  PROVE  /\ c + BlockSize <= End
         /\ (c + BlockSize - Start) % BlockSize = 0
<1> DEFINE k == (c - Start) \div BlockSize
           n == (End - Start) \div BlockSize
<1>1. /\ Start \in Nat /\ End \in Nat /\ BlockSize \in Nat /\ BlockSize > 0
  BY JobAssumption
<1>2. k \in Nat /\ c - Start = BlockSize * k
  BY <1>1
<1>3. n \in Nat /\ End - Start = BlockSize * n
  BY <1>1 DEF Aligned
<1>4. k + 1 <= n
  BY <1>1, <1>2, <1>3
<1>5. BlockSize * (k + 1) <= BlockSize * n
  BY <1>1, <1>2, <1>3, <1>4
<1>6. c + BlockSize - Start = BlockSize * (k + 1)
  BY <1>1, <1>2
<1>7. c + BlockSize <= End
  BY <1>1, <1>3, <1>5, <1>6
<1>8. (BlockSize * (k + 1)) % BlockSize = 0
  BY <1>1, <1>2, MultipleOfBlock
<1>9. QED
  BY <1>6, <1>7, <1>8

-----------------------------------------------------------------------------
\* The state before the first step.
LEMMA InitInv == Init => IInv
<1> SUFFICES ASSUME Init PROVE IInv
  OBVIOUS
<1> USE JobAssumption
<1>1. TypeOK
  BY DEF Init, TypeOK, IntT, Threads
<1>2. StartInv
  BY DEF Init, StartInv, Threads
<1>3. CounterInv
  <2>1. DoneThreads = {}
    BY DEF Init, DoneThreads
  <2>2. Cardinality(DoneThreads) = 0
    BY <2>1, FS_EmptySet
  <2>3. (current - Start) % BlockSize = 0
    BY DEF Init
  <2>4. QED
    BY <2>1, <2>2, <2>3 DEF Init, CounterInv
<1>4. BlockInv
  BY DEF Init, BlockInv, Pending
<1>5. CoverInv
  <2>1. \A v \in Values : ~(v < current)
    BY DEF Init, Values
  <2>2. QED
    BY <2>1 DEF CoverInv
<1>6. HitInv
  BY DEF Init, HitInv, Threads
<1>7. QED
  BY <1>1, <1>2, <1>3, <1>4, <1>5, <1>6 DEF IInv

\* The calling thread changes none of the workers' state.
LEMMA MainStep ==
  ASSUME IInv, Main
  PROVE  IInv'
<1> USE JobAssumption DEF IInv
<1>1. /\ UNCHANGED <<current, result, pc, z, blockEnd, threadRets, called, hits>>
      /\ mainPc # "crashed"
  BY DEF Main, Enter, Spawn, Report, Wake, Join, shared
<1>2. TypeOK'
  BY <1>1 DEF TypeOK, Main, Enter, Spawn, Report, Wake, Join
<1>3. StartInv'
  <2>1. CASE Enter
    <3>1. Mode = "parallel" => Aligned
      BY DEF Aligned
    <3>2. QED
      BY <1>1, <2>1, <3>1 DEF Enter, StartInv, Threads, TypeOK
  <2>2. CASE Spawn
    BY <1>1, <2>2 DEF Spawn, StartInv, Aligned, Threads, TypeOK
  <2>3. CASE Report \/ Wake
    BY <1>1, <2>3 DEF Report, Wake, StartInv, Aligned, TypeOK
  <2>4. CASE Join
    BY <1>1, <2>4 DEF Join, StartInv, Aligned, TypeOK
  <2>5. QED
    BY <2>1, <2>2, <2>3, <2>4 DEF Main
<1>4. CounterInv'
  BY <1>1 DEF CounterInv, DoneThreads
<1>5. BlockInv'
  BY <1>1 DEF BlockInv, Pending
<1>6. CoverInv'
  BY <1>1 DEF CoverInv, Pending
<1>7. HitInv'
  BY <1>1 DEF HitInv
<1>8. QED
  BY <1>2, <1>3, <1>4, <1>5, <1>6, <1>7

-----------------------------------------------------------------------------
\* A worker that is not done can still add a block to the counter without
\* wrapping it: only the workers that are done have pushed it past end_value.
LEMMA AddFits ==
  ASSUME NoWrap, IInv, NEW t \in Threads, pc[t] # "done"
  PROVE  /\ (current + BlockSize) % Modulus = current + BlockSize
         /\ current + BlockSize < Modulus
         /\ current + BlockSize <= End + BlockSize * (Cardinality(DoneThreads) + 1)
<1> USE JobAssumption
<1> DEFINE c == Cardinality(DoneThreads)
<1>1. c \in Nat /\ c + 1 <= NumThreads
  <2>1. DoneThreads \subseteq Threads \ {t}
    BY DEF DoneThreads
  <2>2. IsFiniteSet(Threads) /\ IsFiniteSet(Threads \ {t})
    BY ThreadsFinite
  <2>3. Cardinality(Threads \ {t}) = NumThreads - 1
    BY <2>2, FS_RemoveElement, ThreadsFinite
  <2>4. c <= Cardinality(Threads \ {t})
    BY <2>1, <2>2, FS_Subset
  <2>5. c \in Nat
    BY ThreadsFinite DEF DoneThreads
  <2>6. QED
    BY <2>3, <2>4, <2>5
<1>2. current \in Nat /\ current <= End + BlockSize * c
  BY DEF IInv, TypeOK, IntT, CounterInv
<1>3. BlockSize * (c + 1) = BlockSize * c + BlockSize
  BY <1>1
<1>4. BlockSize * (c + 1) <= BlockSize * NumThreads
  BY <1>1
<1>5. BlockSize * NumThreads = NumThreads * BlockSize
  OBVIOUS
<1> HIDE DEF c
<1>6. current + BlockSize <= End + BlockSize * (c + 1)
  BY <1>1, <1>2, <1>3
<1>7. current + BlockSize < Modulus
  BY <1>1, <1>2, <1>4, <1>5, <1>6 DEF NoWrap
<1>8. QED
  BY <1>2, <1>6, <1>7 DEF c

\* A running worker was started after the arguments were found valid, and the
\* caller has not returned.
LEMMA RunningMeansStarted ==
  ASSUME IInv, NEW t \in Threads, Running(t), pc[t] # "done"
  PROVE  mainPc \notin {"entry", "thrown", "returned", "crashed"} /\ Aligned
<1>1. t \in Nat /\ spawned \in Nat /\ t < spawned /\ mainPc # "crashed"
  BY JobAssumption DEF Running, Threads, IInv, TypeOK
<1>2. mainPc \notin {"entry", "thrown"}
  BY <1>1 DEF IInv, StartInv
<1>3. QED
  BY <1>1, <1>2 DEF IInv, StartInv

\* Taking a block, when the counter is below end_value.
LEMMA FetchBlock ==
  ASSUME NoWrap, IInv, NEW t \in Threads, Fetch(t), current < End
  PROVE  IInv'
<1> USE JobAssumption
<1>1. TypeOK /\ StartInv /\ CounterInv /\ BlockInv /\ CoverInv /\ HitInv
  BY DEF IInv
<1>2. Running(t) /\ pc[t] = "fetch"
  BY DEF Fetch
<1>3. mainPc \notin {"entry", "thrown", "returned", "crashed"} /\ Aligned
  BY <1>2, RunningMeansStarted
<1>4. current \in Nat /\ Start <= current
  BY <1>1 DEF TypeOK, IntT, CounterInv
<1>5. /\ (current + BlockSize) % Modulus = current + BlockSize
      /\ current + BlockSize < Modulus
  BY <1>2, AddFits
<1>6. /\ current + BlockSize <= End
      /\ (current + BlockSize - Start) % BlockSize = 0
  BY <1>1, <1>3, <1>4, BlockFits DEF CounterInv
<1>7. /\ current' = current + BlockSize
      /\ z' = [z EXCEPT ![t] = current]
      /\ blockEnd' = [blockEnd EXCEPT ![t] = current + BlockSize]
      /\ pc' = [pc EXCEPT ![t] = "call"]
      /\ UNCHANGED <<result, mainPc, spawned, threadRets, called, hits>>
  BY <1>4, <1>5 DEF Fetch
<1>8. TypeOK'
  BY <1>1, <1>4, <1>5, <1>7 DEF TypeOK, IntT
<1>9. \A u \in Threads :
         /\ pc'[u] = IF u = t THEN "call" ELSE pc[u]
         /\ z'[u] = IF u = t THEN current ELSE z[u]
         /\ blockEnd'[u] = IF u = t THEN current + BlockSize ELSE blockEnd[u]
  BY <1>1, <1>7 DEF TypeOK
<1>10. StartInv'
  BY <1>1, <1>2, <1>3, <1>7, <1>9 DEF StartInv, Running, Threads, TypeOK, Aligned
<1>11. CounterInv'
  <2>1. DoneThreads = {} /\ DoneThreads' = {}
    BY <1>1, <1>2, <1>4, <1>9 DEF DoneThreads, CounterInv
  <2>2. Cardinality(DoneThreads') = 0
    BY <2>1, FS_EmptySet
  <2>3. QED
    BY <1>4, <1>6, <1>7, <2>1, <2>2 DEF CounterInv
<1>12. Pending(t)' = current .. current + BlockSize - 1
  <2>1. pc'[t] = "call" /\ z'[t] = current /\ blockEnd'[t] = current + BlockSize
    BY <1>9
  <2>2. QED
    BY <1>4, <2>1 DEF Pending
<1>13. \A u \in Threads \ {t} : Pending(u)' = Pending(u)
  BY <1>9 DEF Pending
<1>14. \A u \in Threads : \A v \in Pending(u) : v \in Nat /\ v < current
  BY <1>1, <1>4 DEF Pending, BlockInv, TypeOK, IntT
<1>15. BlockInv'
  <2>1. \A v \in called' : v \in Values /\ v < current'
    BY <1>1, <1>4, <1>7 DEF BlockInv, Values
  <2>2. \A u \in Threads : pc'[u] \in {"call", "publish", "stop"} =>
          /\ Start <= z'[u] /\ z'[u] < blockEnd'[u]
          /\ blockEnd'[u] <= current' /\ blockEnd'[u] <= End
    BY <1>1, <1>4, <1>6, <1>7, <1>9 DEF BlockInv, TypeOK, IntT
  <2>3. Pending(t)' \cap called = {}
    BY <1>1, <1>4, <1>12 DEF BlockInv, Values
  <2>4. \A u \in Threads : pc'[u] = "call" => Pending(u)' \cap called' = {}
    BY <1>1, <1>7, <1>9, <1>13, <2>3 DEF BlockInv
  <2>5. \A u \in Threads \ {t} : Pending(t)' \cap Pending(u)' = {}
    BY <1>4, <1>12, <1>13, <1>14
  <2>6. \A u, w \in Threads : u # w => Pending(u)' \cap Pending(w)' = {}
    BY <1>1, <1>13, <2>5 DEF BlockInv
  <2>7. QED
    BY <2>1, <2>2, <2>4, <2>6 DEF BlockInv
<1>16. CoverInv'
  <2>1. SUFFICES ASSUME hits = {} \/ Mode = "multi",
                        NEW v \in Values, v < current + BlockSize
                 PROVE  v \in called \/ \E u \in Threads :
                          pc'[u] = "call" /\ v \in Pending(u)'
    BY <1>7 DEF CoverInv
  <2>2. CASE v < current
    BY <1>1, <1>2, <1>9, <1>13, <2>1, <2>2 DEF CoverInv
  <2>3. CASE ~(v < current)
    <3>1. v \in Pending(t)'
      BY <1>4, <1>12, <2>1, <2>3 DEF Values
    <3>2. QED
      BY <1>9, <3>1
  <2>4. QED
    BY <2>2, <2>3
<1>17. HitInv'
  BY <1>1, <1>2, <1>7, <1>9 DEF HitInv
<1>18. QED
  BY <1>8, <1>10, <1>11, <1>15, <1>16, <1>17 DEF IInv

\* Finding the counter at or past end_value.
LEMMA FetchNothing ==
  ASSUME NoWrap, IInv, NEW t \in Threads, Fetch(t), ~(current < End)
  PROVE  IInv'
<1> USE JobAssumption
<1>1. TypeOK /\ StartInv /\ CounterInv /\ BlockInv /\ CoverInv /\ HitInv
  BY DEF IInv
<1>2. Running(t) /\ pc[t] = "fetch"
  BY DEF Fetch
<1>3. mainPc \notin {"entry", "thrown", "returned", "crashed"} /\ Aligned
  BY <1>2, RunningMeansStarted
<1>4. current \in Nat /\ End <= current
  BY <1>1 DEF TypeOK, IntT
<1>5. /\ (current + BlockSize) % Modulus = current + BlockSize
      /\ current + BlockSize < Modulus
      /\ current + BlockSize <= End + BlockSize * (Cardinality(DoneThreads) + 1)
  BY <1>2, AddFits
<1>6. /\ current' = current + BlockSize
      /\ pc' = [pc EXCEPT ![t] = "done"]
      /\ UNCHANGED <<result, mainPc, spawned, z, blockEnd, threadRets, called, hits>>
  BY <1>5 DEF Fetch
<1>7. TypeOK'
  BY <1>1, <1>4, <1>5, <1>6 DEF TypeOK, IntT
<1>8. \A u \in Threads : pc'[u] = IF u = t THEN "done" ELSE pc[u]
  BY <1>1, <1>6 DEF TypeOK
<1>9. StartInv'
  BY <1>1, <1>2, <1>3, <1>6, <1>8 DEF StartInv, Running, Threads, TypeOK, Aligned
<1>10. CounterInv'
  <2>1. DoneThreads' = DoneThreads \cup {t} /\ t \notin DoneThreads
    BY <1>2, <1>8 DEF DoneThreads
  <2>2. Cardinality(DoneThreads') = Cardinality(DoneThreads) + 1
    BY <2>1, ThreadsFinite, FS_AddElement DEF DoneThreads
  <2>3. QED
    BY <1>4, <1>5, <1>6, <2>2 DEF CounterInv
<1>11. \A u \in Threads : Pending(u)' = Pending(u)
  BY <1>2, <1>6, <1>8 DEF Pending
<1>12. BlockInv'
  <2>1. \A v \in called' : v \in Values /\ v < current'
    BY <1>1, <1>4, <1>6 DEF BlockInv, Values
  <2>2. \A u \in Threads : pc'[u] \in {"call", "publish", "stop"} =>
          /\ Start <= z'[u] /\ z'[u] < blockEnd'[u]
          /\ blockEnd'[u] <= current' /\ blockEnd'[u] <= End
    BY <1>1, <1>4, <1>6, <1>8 DEF BlockInv, TypeOK, IntT
  <2>3. QED
    BY <1>1, <1>6, <1>8, <1>11, <2>1, <2>2 DEF BlockInv
<1>13. CoverInv'
  <2>1. \A v \in Values : v < current
    BY <1>4 DEF Values
  <2>2. QED
    BY <1>1, <1>2, <1>6, <1>8, <1>11, <2>1 DEF CoverInv
<1>14. HitInv'
  BY <1>1, <1>2, <1>6, <1>8 DEF HitInv
<1>15. QED
  BY <1>7, <1>9, <1>10, <1>12, <1>13, <1>14 DEF IInv

-----------------------------------------------------------------------------
\* A worker that goes on with its block gives up the value it has finished and
\* keeps the rest of the block.
LEMMA AdvanceStep ==
  ASSUME IInv, NEW t \in Threads, Running(t), pc[t] = "call",
         called' = called \cup {z[t]}, Advance(t),
         UNCHANGED <<current, result, mainPc, spawned, blockEnd>>
  PROVE  /\ z' \in [Threads -> IntT] /\ pc' \in [Threads -> {"fetch", "call",
                                                  "publish", "stop", "done"}]
         /\ called' \in SUBSET IntT
         /\ StartInv' /\ CounterInv' /\ BlockInv'
         /\ \A u \in Threads : pc'[u] \in {"publish", "stop"} =>
              pc[u] = pc'[u] /\ z[u] = z'[u]
         /\ (hits = {} \/ Mode = "multi") =>
              \A v \in Values : v < current =>
                v \in called' \/ \E u \in Threads :
                  pc'[u] = "call" /\ v \in Pending(u)'
<1> USE JobAssumption
<1>1. TypeOK /\ StartInv /\ CounterInv /\ BlockInv /\ CoverInv /\ HitInv
  BY DEF IInv
<1>2. mainPc \notin {"entry", "thrown", "returned", "crashed"} /\ Aligned
  BY RunningMeansStarted
<1>3. /\ z[t] \in Nat /\ blockEnd[t] \in Nat /\ current \in Nat
      /\ Start <= z[t] /\ z[t] < blockEnd[t]
      /\ blockEnd[t] <= current /\ blockEnd[t] <= End
  BY <1>1 DEF TypeOK, IntT, BlockInv
<1>4. z[t] \in IntT /\ z[t] + 1 \in IntT
  BY <1>1, <1>3 DEF TypeOK, IntT
<1>5. /\ z' \in [Threads -> IntT]
      /\ pc' \in [Threads -> {"fetch", "call", "publish", "stop", "done"}]
      /\ called' \in SUBSET IntT
  BY <1>1, <1>4 DEF Advance, TypeOK
<1>6. /\ z'[t] = z[t] + 1
      /\ pc'[t] = IF z[t] + 1 < blockEnd[t] THEN "call" ELSE "fetch"
      /\ \A u \in Threads \ {t} : pc'[u] = pc[u] /\ z'[u] = z[u]
  BY <1>1 DEF Advance, TypeOK
<1>7. StartInv'
  BY <1>1, <1>2, <1>6 DEF StartInv, Running, Threads, TypeOK, Aligned
<1>8. DoneThreads' = DoneThreads
  BY <1>6 DEF DoneThreads
<1>9. CounterInv'
  BY <1>1, <1>8 DEF CounterInv
<1>10. Pending(t) = z[t] .. blockEnd[t] - 1
  BY DEF Pending
<1>11. Pending(t)' = Pending(t) \ {z[t]}
  <2>1. CASE z[t] + 1 < blockEnd[t]
    <3>1. Pending(t)' = z[t] + 1 .. blockEnd[t] - 1
      BY <1>3, <1>6, <2>1 DEF Pending
    <3>2. QED
      BY <1>3, <1>10, <3>1
  <2>2. CASE ~(z[t] + 1 < blockEnd[t])
    <3>1. Pending(t)' = {}
      BY <1>6, <2>2 DEF Pending
    <3>2. QED
      BY <1>3, <1>10, <2>2, <3>1
  <2>3. QED
    BY <2>1, <2>2
<1>12. \A u \in Threads \ {t} : Pending(u)' = Pending(u)
  BY <1>6 DEF Pending
<1>13. z[t] \in Pending(t) /\ z[t] \in Values
  BY <1>3, <1>10 DEF Values
<1>14. BlockInv'
  <2>1. \A v \in called' : v \in Values /\ v < current'
    BY <1>1, <1>3, <1>13 DEF BlockInv
  <2>2. \A u \in Threads : pc'[u] \in {"call", "publish", "stop"} =>
          /\ Start <= z'[u] /\ z'[u] < blockEnd'[u]
          /\ blockEnd'[u] <= current' /\ blockEnd'[u] <= End
    BY <1>1, <1>3, <1>6 DEF BlockInv
  <2>3. \A u, w \in Threads : u # w => Pending(u)' \cap Pending(w)' = {}
    BY <1>1, <1>11, <1>12 DEF BlockInv
  <2>4. \A u \in Threads : pc'[u] = "call" => Pending(u)' \cap called' = {}
    <3>1. Pending(t)' \cap called' = {}
      BY <1>1, <1>11 DEF BlockInv
    <3>2. \A u \in Threads \ {t} : z[t] \notin Pending(u)
      BY <1>1, <1>13 DEF BlockInv
    <3>3. QED
      BY <1>1, <1>6, <1>12, <3>1, <3>2 DEF BlockInv
  <2>5. QED
    BY <2>1, <2>2, <2>3, <2>4 DEF BlockInv
<1>15. \A u \in Threads : pc'[u] \in {"publish", "stop"} =>
          pc[u] = pc'[u] /\ z[u] = z'[u]
  BY <1>6
<1>16. ASSUME hits = {} \/ Mode = "multi", NEW v \in Values, v < current
       PROVE  v \in called' \/ \E u \in Threads : pc'[u] = "call" /\ v \in Pending(u)'
  <2>1. CASE v \in called
    BY <2>1
  <2>2. CASE \E u \in Threads : pc[u] = "call" /\ v \in Pending(u)
    <3>1. PICK u \in Threads : pc[u] = "call" /\ v \in Pending(u)
      BY <2>2
    <3>2. CASE u # t
      BY <1>6, <1>12, <3>1, <3>2
    <3>3. CASE u = t /\ v # z[t]
      <4>1. v \in Pending(t)'
        BY <1>11, <3>1, <3>3
      <4>2. pc'[t] = "call"
        BY <1>6, <4>1 DEF Pending
      <4>3. QED
        BY <4>1, <4>2
    <3>4. CASE v = z[t]
      BY <3>4
    <3>5. QED
      BY <3>2, <3>3, <3>4
  <2>3. QED
    BY <1>1, <1>16, <2>1, <2>2 DEF CoverInv
<1>17. QED
  BY <1>5, <1>7, <1>9, <1>14, <1>15, <1>16

\* The callback answered false.
LEMMA FalseStep ==
  ASSUME IInv, NEW t \in Threads, CallReturnsFalse(t)
  PROVE  IInv'
<1>1. TypeOK /\ HitInv
  BY DEF IInv
<1>2. /\ Running(t) /\ pc[t] = "call" /\ called' = called \cup {z[t]} /\ Advance(t)
      /\ UNCHANGED <<current, result, mainPc, spawned, blockEnd, threadRets, hits>>
  BY DEF CallReturnsFalse, shared
<1>3. StartInv' /\ CounterInv' /\ BlockInv'
  BY <1>2, AdvanceStep
<1>4. TypeOK'
  BY <1>1, <1>2, AdvanceStep DEF TypeOK
<1>5. CoverInv'
  BY <1>2, AdvanceStep DEF CoverInv
<1>6. HitInv'
  <2>1. \A u \in Threads : pc'[u] \in {"publish", "stop"} =>
          pc[u] = pc'[u] /\ z[u] = z'[u]
    BY <1>2, AdvanceStep
  <2>2. \A u \in Threads : pc[u] = "publish" => pc'[u] = "publish"
    BY <1>1, <1>2 DEF Advance, TypeOK
  <2>3. QED
    BY <1>1, <1>2, <2>1, <2>2 DEF HitInv
<1>7. QED
  BY <1>3, <1>4, <1>5, <1>6 DEF IInv

\* The callback answered true, to parallel_blocks_multi's wrapper.
LEMMA RecordStep ==
  ASSUME IInv, NEW t \in Threads, CallReturnsTrue(t), Mode = "multi"
  PROVE  IInv'
<1>1. TypeOK /\ HitInv
  BY DEF IInv
<1>2. /\ Running(t) /\ pc[t] = "call" /\ called' = called \cup {z[t]} /\ Advance(t)
      /\ UNCHANGED <<current, result, mainPc, spawned, blockEnd>>
      /\ hits' = hits \cup {z[t]}
      /\ threadRets' = [threadRets EXCEPT ![t] = @ \cup {z[t]}]
  BY DEF CallReturnsTrue, shared
<1>3. StartInv' /\ CounterInv' /\ BlockInv'
  BY <1>2, AdvanceStep
<1>4. z[t] \in IntT
  BY <1>1 DEF TypeOK
<1>5. TypeOK'
  <2>1. threadRets' \in [Threads -> SUBSET IntT] /\ hits' \in SUBSET IntT
    BY <1>1, <1>2, <1>4 DEF TypeOK
  <2>2. QED
    BY <1>1, <1>2, <2>1, AdvanceStep DEF TypeOK
<1>6. CoverInv'
  BY <1>2, AdvanceStep DEF CoverInv
<1>7. HitInv'
  <2>1. \A u \in Threads : pc'[u] \notin {"publish", "stop"}
    BY <1>1, <1>2, AdvanceStep DEF HitInv
  <2>2. \A u \in Threads :
          threadRets'[u] = IF u = t THEN threadRets[t] \cup {z[t]} ELSE threadRets[u]
    BY <1>1, <1>2 DEF TypeOK
  <2>3. hits' = UNION {threadRets'[u] : u \in Threads}
    BY <1>1, <1>2, <2>2 DEF HitInv
  <2>4. hits' \subseteq called'
    BY <1>1, <1>2 DEF HitInv
  <2>5. QED
    BY <2>1, <2>3, <2>4 DEF HitInv
<1>8. QED
  BY <1>3, <1>5, <1>6, <1>7 DEF IInv

\* The callback answered true: the worker is about to publish.
LEMMA MatchStep ==
  ASSUME IInv, NEW t \in Threads, CallReturnsTrue(t), Mode # "multi"
  PROVE  IInv'
<1> USE JobAssumption
<1>1. TypeOK /\ StartInv /\ CounterInv /\ BlockInv /\ HitInv
  BY DEF IInv
<1>2. /\ Running(t) /\ pc[t] = "call" /\ called' = called \cup {z[t]}
      /\ hits' = hits \cup {z[t]} /\ pc' = [pc EXCEPT ![t] = "publish"]
      /\ UNCHANGED <<current, result, mainPc, spawned, z, blockEnd, threadRets>>
  BY DEF CallReturnsTrue, shared
<1>3. mainPc \notin {"entry", "thrown", "returned", "crashed"} /\ Aligned
  BY <1>2, RunningMeansStarted
<1>4. z[t] \in IntT
  BY <1>1 DEF TypeOK
<1>5. TypeOK'
  BY <1>1, <1>2, <1>4 DEF TypeOK
<1>6. \A u \in Threads : pc'[u] = IF u = t THEN "publish" ELSE pc[u]
  BY <1>1, <1>2 DEF TypeOK
<1>7. StartInv'
  BY <1>1, <1>2, <1>3, <1>6 DEF StartInv, Running, Threads, TypeOK, Aligned
<1>8. CounterInv'
  <2>1. DoneThreads' = DoneThreads
    BY <1>2, <1>6 DEF DoneThreads
  <2>2. QED
    BY <1>1, <1>2, <2>1 DEF CounterInv
<1>9. \A u \in Threads : Pending(u)' = Pending(u)
  BY <1>2, <1>6 DEF Pending
<1>10. z[t] \in Pending(t) /\ z[t] \in Values /\ z[t] < current
  BY <1>1, <1>2 DEF TypeOK, IntT, BlockInv, Pending, Values
<1>11. BlockInv'
  <2>1. \A u \in Threads \ {t} : z[t] \notin Pending(u)
    BY <1>1, <1>10 DEF BlockInv
  <2>2. \A u \in Threads : pc'[u] = "call" => Pending(u)' \cap called' = {}
    BY <1>1, <1>2, <1>6, <1>9, <2>1 DEF BlockInv
  <2>3. \A u, w \in Threads : u # w => Pending(u)' \cap Pending(w)' = {}
    BY <1>1, <1>9 DEF BlockInv
  <2>4. QED
    BY <1>1, <1>2, <1>6, <1>10, <2>2, <2>3 DEF BlockInv
<1>12. CoverInv'
  BY <1>2 DEF CoverInv
<1>13. HitInv'
  BY <1>1, <1>2, <1>6 DEF HitInv
<1>14. QED
  BY <1>5, <1>7, <1>8, <1>11, <1>12, <1>13 DEF IInv

\* The first of the two stores.
LEMMA PublishStep ==
  ASSUME IInv, NEW t \in Threads, Publish(t)
  PROVE  IInv'
<1> USE JobAssumption
<1>1. TypeOK /\ StartInv /\ CounterInv /\ BlockInv /\ CoverInv /\ HitInv
  BY DEF IInv
<1>2. /\ Running(t) /\ pc[t] = "publish" /\ result' = z[t]
      /\ pc' = [pc EXCEPT ![t] = "stop"]
      /\ UNCHANGED <<current, mainPc, spawned, z, blockEnd, threadRets, called, hits>>
  BY DEF Publish
<1>3. mainPc \notin {"entry", "thrown", "returned", "crashed"} /\ Aligned
  BY <1>2, RunningMeansStarted
<1>4. TypeOK'
  BY <1>1, <1>2 DEF TypeOK
<1>5. \A u \in Threads : pc'[u] = IF u = t THEN "stop" ELSE pc[u]
  BY <1>1, <1>2 DEF TypeOK
<1>6. StartInv'
  BY <1>1, <1>2, <1>3, <1>5 DEF StartInv, Running, Threads, TypeOK, Aligned
<1>7. CounterInv'
  <2>1. DoneThreads' = DoneThreads
    BY <1>2, <1>5 DEF DoneThreads
  <2>2. QED
    BY <1>1, <1>2, <2>1 DEF CounterInv
<1>8. \A u \in Threads : Pending(u)' = Pending(u)
  BY <1>2, <1>5 DEF Pending
<1>9. BlockInv'
  <2>1. \A u \in Threads : pc'[u] = "call" => Pending(u)' \cap called' = {}
    BY <1>1, <1>2, <1>5, <1>8 DEF BlockInv
  <2>2. \A u, w \in Threads : u # w => Pending(u)' \cap Pending(w)' = {}
    BY <1>1, <1>8 DEF BlockInv
  <2>3. QED
    BY <1>1, <1>2, <1>5, <2>1, <2>2 DEF BlockInv
<1>10. CoverInv'
  BY <1>1, <1>2, <1>5, <1>8 DEF CoverInv
<1>11. HitInv'
  BY <1>1, <1>2, <1>5 DEF HitInv
<1>12. QED
  BY <1>4, <1>6, <1>7, <1>9, <1>10, <1>11 DEF IInv

\* The second: the counter may go back, but not to a value already called, and
\* no longer has to cover the values below it.
LEMMA StopStep ==
  ASSUME IInv, NEW t \in Threads, StopOthers(t)
  PROVE  IInv'
<1> USE JobAssumption
<1>1. TypeOK /\ StartInv /\ CounterInv /\ BlockInv /\ CoverInv /\ HitInv
  BY DEF IInv
<1>2. /\ Running(t) /\ pc[t] = "stop" /\ current' = End
      /\ pc' = [pc EXCEPT ![t] = "fetch"]
      /\ UNCHANGED <<result, mainPc, spawned, z, blockEnd, threadRets, called, hits>>
  BY DEF StopOthers
<1>3. mainPc \notin {"entry", "thrown", "returned", "crashed"} /\ Aligned
  BY <1>2, RunningMeansStarted
<1>4. TypeOK'
  BY <1>1, <1>2 DEF TypeOK, IntT
<1>5. \A u \in Threads : pc'[u] = IF u = t THEN "fetch" ELSE pc[u]
  BY <1>1, <1>2 DEF TypeOK
<1>6. StartInv'
  BY <1>1, <1>2, <1>3, <1>5 DEF StartInv, Running, Threads, TypeOK, Aligned
<1>7. CounterInv'
  <2>1. DoneThreads' = DoneThreads
    BY <1>2, <1>5 DEF DoneThreads
  <2>2. Cardinality(DoneThreads) \in Nat
    BY ThreadsFinite DEF DoneThreads
  <2>3. 0 <= BlockSize * Cardinality(DoneThreads)
    BY <2>2
  <2>4. QED
    BY <1>2, <2>1, <2>2, <2>3 DEF CounterInv
<1>8. /\ Pending(t)' = {}
      /\ \A u \in Threads \ {t} : Pending(u)' = Pending(u)
  BY <1>2, <1>5 DEF Pending
<1>9. BlockInv'
  <2>1. \A v \in called' : v \in Values /\ v < current'
    BY <1>1, <1>2 DEF BlockInv, Values
  <2>2. \A u \in Threads : pc'[u] = "call" => Pending(u)' \cap called' = {}
    BY <1>1, <1>2, <1>5, <1>8 DEF BlockInv
  <2>3. \A u, w \in Threads : u # w => Pending(u)' \cap Pending(w)' = {}
    BY <1>1, <1>8 DEF BlockInv
  <2>4. QED
    BY <1>1, <1>2, <1>5, <2>1, <2>2, <2>3 DEF BlockInv
<1>10. Mode # "multi" /\ z[t] \in hits
  BY <1>1, <1>2 DEF HitInv
<1>11. CoverInv'
  BY <1>2, <1>10 DEF CoverInv
<1>12. HitInv'
  BY <1>1, <1>2, <1>5, <1>10 DEF HitInv
<1>13. QED
  BY <1>4, <1>6, <1>7, <1>9, <1>11, <1>12 DEF IInv

-----------------------------------------------------------------------------
\* Every step preserves the invariant.
LEMMA NextInv == NoWrap /\ IInv /\ [Next]_vars => IInv'
<1> SUFFICES ASSUME NoWrap, IInv, [Next]_vars PROVE IInv'
  OBVIOUS
<1>1. CASE Main
  BY <1>1, MainStep
<1>2. ASSUME NEW t \in Threads, Fetch(t) PROVE IInv'
  BY <1>2, FetchBlock, FetchNothing
<1>3. ASSUME NEW t \in Threads, CallReturnsFalse(t) PROVE IInv'
  BY <1>3, FalseStep
<1>4. ASSUME NEW t \in Threads, CallReturnsTrue(t) PROVE IInv'
  BY <1>4, RecordStep, MatchStep
<1>5. ASSUME NEW t \in Threads, Publish(t) PROVE IInv'
  BY <1>5, PublishStep
<1>6. ASSUME NEW t \in Threads, StopOthers(t) PROVE IInv'
  BY <1>6, StopStep
<1>7. CASE UNCHANGED vars
  BY <1>7 DEF vars, IInv, TypeOK, StartInv, CounterInv, BlockInv, CoverInv,
              HitInv, Pending, DoneThreads
<1>8. QED
  BY <1>1, <1>2, <1>3, <1>4, <1>5, <1>6, <1>7 DEF Next, Over, Worker

\* The inductive invariant holds of every behaviour (Tools.hh 55-206).
THEOREM Invariance == ASSUME NoWrap PROVE Spec => []IInv
<1>1. NoWrap
  OBVIOUS
<1>2. QED
  BY <1>1, InitInv, NextInv, PTL DEF Spec

\* Type correctness: in particular no value ever leaves IntT.
THEOREM Typing == ASSUME NoWrap PROVE Spec => []TypeOK
<1>1. IInv => TypeOK
  BY DEF IInv
<1>2. QED
  BY <1>1, Invariance, PTL

\* No two calls of the callback are for the same value (Tools.hh 60, 137-140).
THEOREM CalledOnce == ASSUME NoWrap PROVE Spec => []EachValueOnce
<1>1. IInv => EachValueOnce
  <2> SUFFICES ASSUME IInv, NEW t \in Threads, pc[t] = "call"
               PROVE  /\ z[t] \notin called
                      /\ \A u \in Threads \ {t} : pc[u] = "call" => z[u] # z[t]
    BY DEF EachValueOnce
  <2>1. \A u \in Threads : pc[u] = "call" => z[u] \in Pending(u)
    BY JobAssumption DEF IInv, TypeOK, IntT, BlockInv, Pending
  <2>2. QED
    BY <2>1 DEF IInv, BlockInv
<1>2. QED
  BY <1>1, Invariance, PTL

\* Only values of the range are handed to the callback (Tools.hh 149).
THEOREM CalledInRange == ASSUME NoWrap PROVE Spec => []OnlyRangeCalled
<1>1. IInv => OnlyRangeCalled
  BY JobAssumption DEF IInv, TypeOK, IntT, BlockInv, OnlyRangeCalled, Values
<1>2. QED
  BY <1>1, Invariance, PTL

-----------------------------------------------------------------------------
(* The refinement.  It needs at least one worker: where                    *)
(* hardware_concurrency() is 0, parallel returns end_value having called   *)
(* nothing.                                                                *)

\* A call of the callback is one step of the abstract specification.
LEMMA CallRefines ==
  ASSUME IInv, NEW t \in Threads, CallReturnsFalse(t) \/ CallReturnsTrue(t)
  PROVE  Abstract!Call(z[t])
<1> USE JobAssumption
<1>1. TypeOK /\ BlockInv
  BY DEF IInv
<1>2. /\ Running(t) /\ pc[t] = "call" /\ called' = called \cup {z[t]}
      /\ mainPc' = mainPc /\ hits' \in {hits, hits \cup {z[t]}}
  BY DEF CallReturnsFalse, CallReturnsTrue
<1>3. mainPc # "returned"
  BY <1>2, RunningMeansStarted
<1>4. z[t] \in Pending(t) /\ z[t] \in Values
  BY <1>1, <1>2 DEF TypeOK, IntT, BlockInv, Pending, Values
<1>5. z[t] \notin called
  BY <1>1, <1>2, <1>4 DEF BlockInv
<1>6. QED
  BY <1>2, <1>3, <1>4, <1>5 DEF Abstract!Call, Abstract!Domain, Abstract!Pending, Values

\* The return of the function gives the abstract answer.
LEMMA JoinRefines ==
  ASSUME NumThreads > 0, IInv, Join
  PROVE  Abstract!Answer
<1> USE JobAssumption
<1>1. TypeOK /\ CounterInv /\ BlockInv /\ CoverInv /\ HitInv
  BY DEF IInv
<1>2. /\ mainPc = "join" /\ mainPc' = "returned"
      /\ \A t \in Threads : pc[t] = "done"
      /\ UNCHANGED <<result, threadRets, called, hits>>
  BY DEF Join, shared
<1>3. ReturnValue' = ReturnValue
  BY <1>2 DEF ReturnValue
<1>4. current >= End /\ current \in Nat
  <2>1. 0 \in Threads
    BY DEF Threads
  <2>2. DoneThreads # {}
    BY <1>2, <2>1 DEF DoneThreads
  <2>3. QED
    BY <1>1, <2>2 DEF CounterInv, TypeOK, IntT
<1>5. \A v \in Values : v < current
  BY <1>4 DEF Values
<1>6. hits = {} \/ Mode = "multi" => called = Values
  BY <1>1, <1>2, <1>5 DEF CoverInv, BlockInv
<1>7. CASE Mode = "multi"
  <2>1. ReturnValue = hits
    BY <1>1, <1>7 DEF HitInv, ReturnValue
  <2>2. QED
    BY <1>2, <1>3, <1>6, <1>7, <2>1
       DEF Abstract!Answer, Abstract!Domain, Abstract!Pending, Values
<1>8. CASE Mode # "multi"
  <2>1. ReturnValue = {result}
    BY <1>8 DEF ReturnValue
  <2>2. result \in hits \/ (result = End /\ hits = {})
    BY <1>1, <1>2, <1>8 DEF HitInv
  <2>3. QED
    BY <1>2, <1>3, <1>6, <1>8, <2>1, <2>2
       DEF Abstract!Answer, Abstract!Domain, Abstract!Pending, Values
<1>9. QED
  BY <1>7, <1>8

\* Every other step leaves the abstract state alone.
LEMMA OthersStutter ==
  ASSUME IInv,
         \/ Enter \/ Spawn \/ Report \/ Wake \/ UNCHANGED vars
         \/ \E t \in Threads : Fetch(t) \/ Publish(t) \/ StopOthers(t)
  PROVE  UNCHANGED Abstract!avars
<1>1. CASE UNCHANGED vars
  BY <1>1 DEF vars, ReturnValue, Abstract!avars
<1>2. CASE Enter \/ Spawn \/ Report \/ Wake
  <2>1. /\ mainPc # "returned" /\ mainPc' # "returned"
        /\ UNCHANGED <<called, hits>>
    BY <1>2 DEF Enter, Spawn, Report, Wake
  <2>2. QED
    BY <2>1 DEF Abstract!avars
<1>3. ASSUME NEW t \in Threads, Fetch(t) \/ Publish(t) \/ StopOthers(t)
      PROVE  UNCHANGED Abstract!avars
  <2>1. /\ Running(t) /\ pc[t] # "done"
        /\ UNCHANGED <<mainPc, called, hits>>
    BY <1>3 DEF Fetch, Publish, StopOthers
  <2>2. mainPc # "returned"
    BY <2>1, RunningMeansStarted
  <2>3. QED
    BY <2>1, <2>2 DEF Abstract!avars
<1>4. QED
  BY <1>1, <1>2, <1>3

\* parallel, parallel_blocks and parallel_blocks_multi do what ParallelFind
\* promises (Tools.hh 68-72 and 208-209), whatever the interleaving.
THEOREM Refinement == ASSUME NoWrap, NumThreads > 0 PROVE Spec => ImplementsFind
<1>1. Init => Abstract!Init
  BY DEF Init, Abstract!Init, Abstract!Pending
<1>2. IInv /\ [Next]_vars => [Abstract!Next]_(Abstract!avars)
  <2> SUFFICES ASSUME IInv, [Next]_vars
               PROVE  Abstract!Next \/ UNCHANGED Abstract!avars
    OBVIOUS
  <2>1. CASE Join
    BY <2>1, JoinRefines DEF Abstract!Next
  <2>2. ASSUME NEW t \in Threads, CallReturnsFalse(t) \/ CallReturnsTrue(t)
        PROVE  Abstract!Next
    <3>1. Abstract!Call(z[t])
      BY <2>2, CallRefines
    <3>2. z[t] \in Abstract!Domain
      BY <3>1 DEF Abstract!Call
    <3>3. QED
      BY <3>1, <3>2 DEF Abstract!Next
  <2>3. QED
    BY <2>1, <2>2, OthersStutter DEF Next, Main, Over, Worker
<1>3. QED
  BY <1>1, <1>2, Invariance, PTL DEF Spec, ImplementsFind, Abstract!Spec

-----------------------------------------------------------------------------
(* What a match stops. *)

\* A match that was published and announced has pushed the counter to end_value,
\* and a block of parallel holds one value.
StopInv ==
  /\ Stopped /\ Mode # "multi" => current >= End
  /\ BlockSize = 1 => \A t \in Threads : pc[t] = "call" => blockEnd[t] = z[t] + 1

LEMMA StopInvStep == NoWrap /\ IInv /\ StopInv /\ [Next]_vars => StopInv'
<1> SUFFICES ASSUME NoWrap, IInv, StopInv, [Next]_vars PROVE StopInv'
  OBVIOUS
<1> USE JobAssumption
<1>1. TypeOK
  BY DEF IInv
<1>2. ASSUME UNCHANGED <<current, pc, z, blockEnd, hits>> PROVE StopInv'
  BY <1>2 DEF StopInv, Stopped
<1>3. CASE Main
  BY <1>2, <1>3 DEF Main, Enter, Spawn, Report, Wake, Join, shared
<1>4. ASSUME NEW t \in Threads, Fetch(t) PROVE StopInv'
  <2>1. /\ pc[t] = "fetch" /\ current' = current + BlockSize /\ hits' = hits
        /\ current \in Nat /\ current' \in Nat
    BY <1>1, <1>4, AddFits DEF Fetch, TypeOK, IntT
  <2>2. \A u \in Threads \ {t} : pc'[u] = pc[u] /\ z'[u] = z[u] /\ blockEnd'[u] = blockEnd[u]
    BY <1>1, <1>4 DEF Fetch, TypeOK
  <2>3. /\ pc'[t] \in {"call", "fetch", "done"}
        /\ pc'[t] = "call" => blockEnd'[t] = current' /\ z'[t] = current
    BY <1>1, <1>4 DEF Fetch, TypeOK
  <2>4. Stopped' => Stopped
    BY <2>1, <2>2 DEF Stopped
  <2>5. QED
    BY <2>1, <2>2, <2>3, <2>4 DEF StopInv
<1>5. ASSUME NEW t \in Threads, pc[t] = "call", Advance(t), UNCHANGED <<current, blockEnd>>,
             hits' = hits \/ Mode = "multi"
      PROVE  StopInv'
  <2>1. \A u \in Threads \ {t} : pc'[u] = pc[u] /\ z'[u] = z[u] /\ blockEnd'[u] = blockEnd[u]
    BY <1>1, <1>5 DEF Advance, TypeOK
  <2>2. /\ pc'[t] = IF z[t] + 1 < blockEnd[t] THEN "call" ELSE "fetch"
        /\ z[t] \in Nat
    BY <1>1, <1>5 DEF Advance, TypeOK, IntT
  <2>3. Stopped' /\ Mode # "multi" => Stopped
    BY <1>5, <2>1 DEF Stopped
  <2>4. BlockSize = 1 => pc'[t] # "call"
    BY <1>5, <2>2 DEF StopInv
  <2>5. QED
    BY <1>5, <2>1, <2>3, <2>4 DEF StopInv
<1>6. ASSUME NEW t \in Threads, CallReturnsFalse(t) PROVE StopInv'
  BY <1>5, <1>6 DEF CallReturnsFalse, shared
<1>7. ASSUME NEW t \in Threads, CallReturnsTrue(t) PROVE StopInv'
  <2>1. CASE Mode = "multi"
    BY <1>5, <1>7, <2>1 DEF CallReturnsTrue, shared
  <2>2. CASE Mode # "multi"
    <3>1. pc' = [pc EXCEPT ![t] = "publish"] /\ z' = z /\ blockEnd' = blockEnd
      BY <1>7, <2>2 DEF CallReturnsTrue
    <3>2. pc'[t] = "publish" /\ \A u \in Threads \ {t} : pc'[u] = pc[u]
      BY <1>1, <3>1 DEF TypeOK
    <3>3. QED
      BY <3>1, <3>2 DEF StopInv, Stopped
  <2>3. QED
    BY <2>1, <2>2
<1>8. ASSUME NEW t \in Threads, Publish(t) PROVE StopInv'
  <2>1. pc'[t] = "stop" /\ \A u \in Threads \ {t} : pc'[u] = pc[u]
    BY <1>1, <1>8 DEF Publish, TypeOK
  <2>2. z' = z /\ blockEnd' = blockEnd
    BY <1>8 DEF Publish
  <2>3. QED
    BY <2>1, <2>2 DEF StopInv, Stopped
<1>9. ASSUME NEW t \in Threads, StopOthers(t) PROVE StopInv'
  <2>1. pc'[t] = "fetch" /\ \A u \in Threads \ {t} : pc'[u] = pc[u]
    BY <1>1, <1>9 DEF StopOthers, TypeOK
  <2>2. z' = z /\ blockEnd' = blockEnd /\ current' = End
    BY <1>9 DEF StopOthers
  <2>3. QED
    BY <2>1, <2>2 DEF StopInv
<1>10. CASE UNCHANGED vars
  BY <1>2, <1>10 DEF vars
<1>11. QED
  BY <1>2, <1>3, <1>4, <1>6, <1>7, <1>8, <1>9, <1>10 DEF Next, Over, Worker, vars

LEMMA StopInvariance == ASSUME NoWrap PROVE Spec => []StopInv
<1>1. NoWrap
  OBVIOUS
<1>2. Init => StopInv
  BY DEF Init, StopInv, Stopped
<1>3. QED
  BY <1>1, <1>2, StopInvStep, Invariance, PTL DEF Spec

\* What a step can still start once a match has stopped the job.
LEMMA AfterStop ==
  ASSUME IInv, StopInv, Mode # "multi", Stopped, [Next]_vars, NEW t \in Threads, pc'[t] = "call"
  PROVE  /\ pc[t] = "call"
         /\ z'[t] = z[t] \/ (BlockSize > 1 /\ z'[t] = z[t] + 1)
         /\ blockEnd'[t] = blockEnd[t]
<1> USE JobAssumption
<1>1. TypeOK /\ current >= End /\ current \in Nat
  BY DEF IInv, StopInv, TypeOK, IntT
<1>2. ASSUME NEW u \in Threads, Fetch(u)
      PROVE  pc' = [pc EXCEPT ![u] = "done"] /\ z' = z /\ blockEnd' = blockEnd
  BY <1>1, <1>2 DEF Fetch
<1>3. ASSUME NEW u \in Threads, CallReturnsFalse(u) \/ CallReturnsTrue(u)
      PROVE  /\ blockEnd' = blockEnd /\ pc[u] = "call"
             /\ \A w \in Threads \ {u} : pc'[w] = pc[w] /\ z'[w] = z[w]
             /\ pc'[u] = "call" => z'[u] = z[u] + 1 /\ z[u] + 1 < blockEnd[u]
  BY <1>1, <1>3 DEF CallReturnsFalse, CallReturnsTrue, Advance, TypeOK
<1>4. ASSUME NEW u \in Threads, Publish(u) \/ StopOthers(u)
      PROVE  FALSE
  BY <1>4 DEF Publish, StopOthers, Stopped
<1>5. CASE Main \/ UNCHANGED vars
  BY <1>5 DEF vars, Main, Enter, Spawn, Report, Wake, Join, shared
<1>6. CASE \E u \in Threads : Fetch(u)
  BY <1>1, <1>2, <1>6 DEF TypeOK
<1>7. CASE \E u \in Threads : CallReturnsFalse(u) \/ CallReturnsTrue(u)
  <2>1. PICK u \in Threads : CallReturnsFalse(u) \/ CallReturnsTrue(u)
    BY <1>7
  <2>2. CASE u # t
    BY <1>3, <2>1, <2>2
  <2>3. CASE u = t
    <3>1. z'[t] = z[t] + 1 /\ z[t] + 1 < blockEnd[t] /\ pc[t] = "call" /\ blockEnd' = blockEnd
      BY <1>3, <2>1, <2>3
    <3>2. BlockSize # 1
      BY <1>1, <3>1 DEF StopInv, TypeOK, IntT
    <3>3. QED
      BY <3>1, <3>2
  <2>4. QED
    BY <2>2, <2>3
<1>8. QED
  BY <1>4, <1>5, <1>6, <1>7 DEF Next, Over, Worker

\* parallel: once a match has stopped the job, no worker begins another call
\* (Tools.hh 68-70).
THEOREM Prompt == ASSUME NoWrap, Mode = "parallel" PROVE Spec => StopsPromptly
<1>1. ASSUME IInv, StopInv, Stopped, [Next]_vars, NEW t \in Threads, pc'[t] = "call"
      PROVE  pc[t] = "call" /\ z'[t] = z[t]
  BY <1>1, AfterStop, JobAssumption
<1>2. IInv /\ StopInv /\ [Next]_vars =>
        (Stopped => \A t \in Threads : pc'[t] = "call" => pc[t] = "call" /\ z'[t] = z[t])
  BY <1>1
<1>3. QED
  BY <1>2, Invariance, StopInvariance, PTL DEF Spec, StopsPromptly

\* parallel_blocks: once a match has stopped the job, a worker may still finish
\* the block it is in and takes no other (Tools.hh 137-147).
NoBlockAfterStop ==
  [][Stopped => \A t \in Threads :
       pc'[t] = "call" => pc[t] = "call" /\ blockEnd'[t] = blockEnd[t]]_vars

THEOREM FinishesItsBlock == ASSUME NoWrap, Mode # "multi" PROVE Spec => NoBlockAfterStop
<1>1. ASSUME IInv, StopInv, Stopped, [Next]_vars, NEW t \in Threads, pc'[t] = "call"
      PROVE  pc[t] = "call" /\ blockEnd'[t] = blockEnd[t]
  BY <1>1, AfterStop
<1>2. IInv /\ StopInv /\ [Next]_vars =>
        (Stopped => \A t \in Threads :
           pc'[t] = "call" => pc[t] = "call" /\ blockEnd'[t] = blockEnd[t])
  BY <1>1
<1>3. QED
  BY <1>2, Invariance, StopInvariance, PTL DEF Spec, NoBlockAfterStop

-----------------------------------------------------------------------------
\* The division of the default progress report (Tools.hh 45), whose divisor is the
\* counter's distance from start_value, fails at most before the first fetch: from
\* then on the counter never shows start_value again.
LEMMA ReportStep ==
  ASSUME IInv, ReportsOnceUnderWay, [Next]_vars
  PROVE  ReportsOnceUnderWay'
<1> USE JobAssumption
<1>1. CASE mainPc = "crashed"
  BY <1>1 DEF Next, Main, Over, Enter, Spawn, Report, Wake, Join, Worker, Fetch, CallReturnsFalse,
              CallReturnsTrue, Publish, StopOthers, Running, vars, ReportsOnceUnderWay
<1>2. CASE mainPc # "crashed" /\ mainPc' = "crashed"
  <2>1. \A t \in Threads : ~Worker(t)
    BY <1>2 DEF Worker, Fetch, CallReturnsFalse, CallReturnsTrue, Publish, StopOthers
  <2>2. /\ current = Start /\ ~(current >= End)
        /\ UNCHANGED <<called, pc>>
    BY <1>2, <2>1 DEF Next, Over, Main, Enter, Spawn, Report, Wake, Join, vars,
                      DefaultProgressDividesByZero
  <2>3. called = {}
    BY <2>2 DEF IInv, BlockInv, Values
  <2>4. ASSUME NEW t \in Threads PROVE pc[t] = "fetch"
    <3>1. pc[t] # "done"
      BY <2>2 DEF IInv, CounterInv, DoneThreads
    <3>2. pc[t] \notin {"call", "publish", "stop"}
      BY <2>2 DEF IInv, BlockInv, TypeOK, IntT
    <3>3. QED
      BY <3>1, <3>2 DEF IInv, TypeOK
  <2>5. QED
    BY <2>2, <2>3, <2>4 DEF ReportsOnceUnderWay
<1>3. CASE mainPc' # "crashed"
  BY <1>3 DEF ReportsOnceUnderWay
<1>4. QED
  BY <1>1, <1>2, <1>3

\* Whatever the range, the report divides by nonzero once a worker is under way.
THEOREM Reports == ASSUME NoWrap PROVE Spec => []ReportsOnceUnderWay
<1>1. Init => ReportsOnceUnderWay
  BY DEF Init, ReportsOnceUnderWay
<1>2. IInv /\ ReportsOnceUnderWay /\ [Next]_vars => ReportsOnceUnderWay'
  BY ReportStep
<1>3. QED
  BY <1>1, <1>2, Invariance, PTL DEF Spec
=============================================================================
