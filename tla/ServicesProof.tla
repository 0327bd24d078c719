---------------------------- MODULE ServicesProof ----------------------------
(***************************************************************************)
(* Proofs about the components of MCServices: cached process ids, sockets  *)
(* being set up, scoped_fd and Poll, the levels of loggers, StringReader,  *)
(* StringWriter and BufferWriter, the random buffer, Arguments, and the    *)
(* bit writer with its readers.                                            *)
(***************************************************************************)
EXTENDS MCServices, FiniteSetTheorems, SequenceTheorems, WellFoundedInduction, TLAPS

\* The first process alone, and nothing cached.
LEMMA PidInitInv == PidInit => PidInv
<1> SUFFICES ASSUME PidInit PROVE PidInv
  OBVIOUS
<1> DEFINE first == CHOOSE p \in Pids : TRUE
<1>1. first \in Pids
  BY PidAssumption
<1>2. /\ procs = [p \in Pids |-> IF p = first THEN [state |-> "running", born |-> 1] ELSE [state |-> "gone", born |-> 0]]
      /\ memory = [p \in Pids |-> NoMemory]
      /\ at = [p \in Pids |-> [t \in Callers |-> IF p = first THEN Idle ELSE Absent]]
      /\ births = 1
      /\ told = [pid |-> first, born |-> 1, want |-> "none", val |-> 0]
  BY DEF PidInit
<1> HIDE DEF first
<1>3. NoMemory \in Globals /\ Idle \in Point /\ Absent \in Point
  BY DEF NoMemory, Globals, Idle, Absent, Point, Pcs, Wants
<1>4. procs \in [Pids -> Proc] /\ told \in Answer
  BY <1>1, <1>2 DEF Proc, Answer, Wants
<1>5. PidTypeOK
  BY <1>2, <1>3, <1>4 DEF PidTypeOK
<1>6. Ended
  BY <1>2 DEF Ended
<1>7. Caches
  BY <1>2 DEF Caches, OwnCache, Midway, NoMemory, Idle, Absent
<1>8. OwnIdentity
  BY <1>2 DEF OwnIdentity
<1>9. QED
  BY <1>5, <1>6, <1>7, <1>8 DEF PidInv

\* A step of one thread of a running process: it takes nothing back that others rely on.
LEMMA ThreadStep ==
  ASSUME PidInv, NEW p \in Pids, NEW t \in Callers,
         at[p][t] # Absent,
         procs' = procs, births' = births, memory' \in [Pids -> Globals],
         \A q \in Pids \ {p} : memory'[q] = memory[q],
         memory[p].added => memory'[p].added,
         memory[p].pid = p => memory'[p].pid = p,
         at' \in [Pids -> [Callers -> Point]],
         \A q \in Pids, u \in Callers : <<q, u>> # <<p, t>> => at'[q][u] = at[q][u],
         OwnCache(p)', Midway(p, t)',
         told' \in Answer, OwnIdentity'
  PROVE  PidInv'
<1>1. PidTypeOK'
  BY DEF PidInv, PidTypeOK
<1>2. procs[p].state = "running"
  BY DEF PidInv, Ended
<1>3. Ended'
  BY <1>2 DEF PidInv, Ended
<1>4. ASSUME NEW q \in Pids PROVE OwnCache(q)'
  BY DEF PidInv, Caches, OwnCache
<1>5. ASSUME NEW q \in Pids, NEW u \in Callers PROVE Midway(q, u)'
  <2>1. CASE <<q, u>> = <<p, t>>
    BY <2>1
  <2>2. CASE <<q, u>> # <<p, t>>
    <3>1. at'[q][u] = at[q][u] /\ Midway(q, u)
      BY <2>2 DEF PidInv, Caches
    <3>2. (memory[q].added => memory'[q].added) /\ (memory[q].pid = q => memory'[q].pid = q)
      OBVIOUS
    <3>3. QED
      BY <3>1, <3>2 DEF Midway
  <2>3. QED
    BY <2>1, <2>2
<1>6. Caches'
  BY <1>4, <1>5 DEF Caches
<1>7. QED
  BY <1>1, <1>3, <1>6 DEF PidInv

\* A thread that goes on to another point keeps what it wants, and no other thread moves.
LEMMA StepsMoves ==
  ASSUME PidInv, NEW p \in Pids, NEW t \in Callers, NEW pc \in Pcs, Steps(p, t, pc)
  PROVE  /\ at' \in [Pids -> [Callers -> Point]]
         /\ at'[p][t] = [pc |-> pc, want |-> at[p][t].want]
         /\ \A q \in Pids, u \in Callers : <<q, u>> # <<p, t>> => at'[q][u] = at[q][u]
<1>1. at \in [Pids -> [Callers -> Point]]
  BY DEF PidInv, PidTypeOK
<1>2. at[p] \in [Callers -> Point] /\ at[p][t] \in Point
  BY <1>1
<1> DEFINE to == [at[p][t] EXCEPT !.pc = pc]
<1>3. to = [pc |-> pc, want |-> at[p][t].want] /\ to \in Point
  BY <1>2 DEF Point
<1>4. at' = [at EXCEPT ![p] = [at[p] EXCEPT ![t] = to]]
  BY DEF Steps
<1> HIDE DEF to
<1>5. QED
  BY <1>1, <1>2, <1>3, <1>4

\* A thread that answers is idle, and no other thread moves.
LEMMA AnswersMoves ==
  ASSUME PidInv, NEW p \in Pids, NEW t \in Callers, NEW val \in Nat, Answers(p, t, val)
  PROVE  /\ at' \in [Pids -> [Callers -> Point]]
         /\ at'[p][t] = Idle
         /\ \A q \in Pids, u \in Callers : <<q, u>> # <<p, t>> => at'[q][u] = at[q][u]
         /\ told' = [pid |-> p, born |-> procs[p].born, want |-> at[p][t].want, val |-> val]
         /\ told' \in Answer
<1>1. Idle \in Point
  BY DEF Idle, Point, Pcs, Wants
<1>2. at \in [Pids -> [Callers -> Point]] /\ at[p] \in [Callers -> Point] /\ at[p][t] \in Point
  BY DEF PidInv, PidTypeOK
<1>3. procs[p].born \in Nat /\ at[p][t].want \in Wants
  BY <1>2 DEF PidInv, PidTypeOK, Proc, Point
<1>4. at' = [at EXCEPT ![p] = [at[p] EXCEPT ![t] = Idle]]
  BY DEF Answers
<1>5. told' = [pid |-> p, born |-> procs[p].born, want |-> at[p][t].want, val |-> val]
  BY DEF Answers
<1>6. told' \in Answer
  BY <1>3, <1>5 DEF Answer
<1>7. QED
  BY <1>1, <1>2, <1>4, <1>5, <1>6

\* What a thread, its process and the last answer may be.
LEMMA Types ==
  ASSUME PidInv, NEW p \in Pids, NEW t \in Callers
  PROVE  /\ at[p][t] \in Point /\ at[p][t].want \in Wants
         /\ memory \in [Pids -> Globals] /\ memory[p] \in Globals
         /\ memory[p].pid \in Nat /\ memory[p].start \in Nat
         /\ procs[p].born \in Nat /\ p \in Nat /\ p # 0
         /\ told \in Answer /\ OwnIdentity /\ OwnCache(p) /\ Midway(p, t)
<1>1. at[p][t] \in Point /\ memory \in [Pids -> Globals] /\ memory[p] \in Globals /\ procs[p] \in Proc /\ told \in Answer
  BY DEF PidInv, PidTypeOK
<1>2. QED
  BY <1>1, PidAssumption DEF PidInv, Caches, Point, Globals, Proc

\* Asking only moves the thread that asks.
LEMMA AskStep ==
  ASSUME PidInv, NEW p \in Pids, NEW t \in Callers, NEW want \in {"pid", "start"}, ask(p, t, want)
  PROVE  PidInv'
<1> DEFINE to == [pc |-> IF want = "pid" THEN "getpid" ELSE "start", want |-> want]
<1>1. to \in Point /\ to.pc \in {"getpid", "start"} /\ to.want # "none" /\ (to.pc = "start" => to.want = "start")
  BY DEF Point, Pcs, Wants
<1>2. at' = [at EXCEPT ![p][t] = to] /\ at[p][t] = Idle /\ UNCHANGED <<procs, memory, births, told>>
  BY DEF ask
<1> HIDE DEF to
<1>3. at \in [Pids -> [Callers -> Point]]
  BY DEF PidInv, PidTypeOK
<1>4. /\ at' \in [Pids -> [Callers -> Point]]
      /\ at'[p][t] = to
      /\ \A q \in Pids, u \in Callers : <<q, u>> # <<p, t>> => at'[q][u] = at[q][u]
  BY <1>1, <1>2, <1>3
<1>5. OwnCache(p)' /\ Midway(p, t)' /\ OwnIdentity'
  BY <1>1, <1>2, <1>4, Types DEF OwnCache, Midway, OwnIdentity
<1>6. at[p][t] # Absent
  BY <1>2 DEF Idle, Absent
<1>7. QED
  BY <1>2, <1>4, <1>5, <1>6, Types, ThreadStep

\* What is cached as the start time is the process's own.
LEMMA LookForStartStep ==
  ASSUME PidInv, NEW p \in Pids, NEW t \in Callers, look_for_start(p, t)
  PROVE  PidInv'
<1>1. at[p][t].pc = "start" /\ at[p][t].want = "start" /\ UNCHANGED <<procs, memory, births>>
  BY Types DEF look_for_start, Midway
<1>2. at[p][t] # Absent
  BY <1>1 DEF Absent
<1>3. CASE memory[p].start = 0
  <2>1. Steps(p, t, "getpid") /\ UNCHANGED told
    BY <1>3 DEF look_for_start
  <2>2. /\ at' \in [Pids -> [Callers -> Point]]
        /\ at'[p][t] = [pc |-> "getpid", want |-> "start"]
        /\ \A q \in Pids, u \in Callers : <<q, u>> # <<p, t>> => at'[q][u] = at[q][u]
    BY <1>1, <2>1, StepsMoves DEF Pcs
  <2>3. OwnCache(p)' /\ Midway(p, t)' /\ OwnIdentity'
    BY <1>1, <2>1, <2>2, Types DEF OwnCache, Midway, OwnIdentity
  <2>4. QED
    BY <1>1, <1>2, <2>1, <2>2, <2>3, Types, ThreadStep
<1>4. CASE memory[p].start # 0
  <2>1. memory[p].start = procs[p].born
    BY <1>4, Types DEF OwnCache
  <2>2. Answers(p, t, memory[p].start)
    BY <1>4 DEF look_for_start
  <2>3. /\ at' \in [Pids -> [Callers -> Point]]
        /\ at'[p][t] = Idle
        /\ \A q \in Pids, u \in Callers : <<q, u>> # <<p, t>> => at'[q][u] = at[q][u]
        /\ told' = [pid |-> p, born |-> procs[p].born, want |-> "start", val |-> procs[p].born]
        /\ told' \in Answer
    BY <1>1, <2>1, <2>2, Types, AnswersMoves
  <2>4. OwnCache(p)' /\ Midway(p, t)' /\ OwnIdentity'
    BY <1>1, <2>3, Types DEF OwnCache, Midway, OwnIdentity, Idle
  <2>5. QED
    BY <1>1, <1>2, <2>3, <2>4, Types, ThreadStep
<1>5. QED
  BY <1>3, <1>4

\* A pid that is cached is the process's own, and its handler is there.
LEMMA LookForPidStep ==
  ASSUME PidInv, NEW p \in Pids, NEW t \in Callers, look_for_pid(p, t)
  PROVE  PidInv'
<1>1. at[p][t].pc = "getpid" /\ at[p][t].want # "none" /\ UNCHANGED <<procs, memory, births, told>>
  BY Types DEF look_for_pid, Midway
<1> DEFINE pc == IF memory[p].pid = 0 THEN "handler" ELSE "return"
<1>2. /\ at' \in [Pids -> [Callers -> Point]]
      /\ at'[p][t] = [pc |-> pc, want |-> at[p][t].want]
      /\ \A q \in Pids, u \in Callers : <<q, u>> # <<p, t>> => at'[q][u] = at[q][u]
  BY StepsMoves DEF look_for_pid, Pcs
<1>3. pc = "return" => memory[p].pid = p /\ memory[p].added
  BY Types DEF OwnCache
<1>4. OwnCache(p)' /\ Midway(p, t)' /\ OwnIdentity'
  BY <1>1, <1>2, <1>3, Types DEF OwnCache, Midway, OwnIdentity
<1>5. at[p][t] # Absent
  BY <1>1 DEF Absent
<1>6. QED
  BY <1>1, <1>2, <1>4, <1>5, Types, ThreadStep

\* The handler is there before anything is cached.
LEMMA HandlerStep ==
  ASSUME PidInv, NEW p \in Pids, NEW t \in Callers, maybe_add_atfork_handler(p, t)
  PROVE  PidInv'
<1>1. at[p][t].pc = "handler" /\ at[p][t].want # "none" /\ UNCHANGED <<procs, births, told>>
  BY Types DEF maybe_add_atfork_handler, Midway
<1>2. /\ at' \in [Pids -> [Callers -> Point]]
      /\ at'[p][t] = [pc |-> "assign", want |-> at[p][t].want]
      /\ \A q \in Pids, u \in Callers : <<q, u>> # <<p, t>> => at'[q][u] = at[q][u]
  BY StepsMoves DEF maybe_add_atfork_handler, Pcs
<1> DEFINE new == [memory[p] EXCEPT !.added = TRUE]
<1>3. new \in Globals /\ new.added /\ new.pid = memory[p].pid /\ new.start = memory[p].start
  BY Types DEF Globals
<1>4. memory' = [memory EXCEPT ![p] = new]
  BY DEF maybe_add_atfork_handler
<1> HIDE DEF new
<1>5. memory' \in [Pids -> Globals] /\ memory'[p] = new /\ \A q \in Pids \ {p} : memory'[q] = memory[q]
  BY <1>3, <1>4, Types
<1>6. OwnCache(p)' /\ Midway(p, t)' /\ OwnIdentity'
  BY <1>1, <1>2, <1>3, <1>5, Types DEF OwnCache, Midway, OwnIdentity
<1>7. at[p][t] # Absent
  BY <1>1 DEF Absent
<1>8. QED
  BY <1>1, <1>2, <1>3, <1>5, <1>6, <1>7, Types, ThreadStep

\* Only a process's own threads write its globals.
LEMMA CachePidStep ==
  ASSUME PidInv, NEW p \in Pids, NEW t \in Callers, cache_pid(p, t)
  PROVE  PidInv'
<1>1. /\ at[p][t].pc = "assign" /\ at[p][t].want # "none" /\ memory[p].added
      /\ UNCHANGED <<procs, births, told>>
  BY Types DEF cache_pid, Midway
<1>2. /\ at' \in [Pids -> [Callers -> Point]]
      /\ at'[p][t] = [pc |-> "return", want |-> at[p][t].want]
      /\ \A q \in Pids, u \in Callers : <<q, u>> # <<p, t>> => at'[q][u] = at[q][u]
  BY StepsMoves DEF cache_pid, Pcs
<1> DEFINE new == [memory[p] EXCEPT !.pid = p]
<1>3. new \in Globals /\ new.pid = p /\ new.added /\ new.start = memory[p].start
  BY <1>1, Types DEF Globals
<1>4. memory' = [memory EXCEPT ![p] = new]
  BY DEF cache_pid
<1> HIDE DEF new
<1>5. memory' \in [Pids -> Globals] /\ memory'[p] = new /\ \A q \in Pids \ {p} : memory'[q] = memory[q]
  BY <1>3, <1>4, Types
<1>6. OwnCache(p)' /\ Midway(p, t)' /\ OwnIdentity'
  BY <1>1, <1>2, <1>3, <1>5, Types DEF OwnCache, Midway, OwnIdentity
<1>7. at[p][t] # Absent
  BY <1>1 DEF Absent
<1>8. QED
  BY <1>1, <1>2, <1>3, <1>5, <1>6, <1>7, Types, ThreadStep

\* Two threads may both look up the time: both find the same, or none.
LEMMA ReturnPidStep ==
  ASSUME PidInv, NEW p \in Pids, NEW t \in Callers, return_pid(p, t)
  PROVE  PidInv'
<1>1. at[p][t].pc = "return" /\ memory[p].pid = p /\ memory[p].added /\ UNCHANGED <<procs, births>>
  BY Types DEF return_pid, Midway
<1>2. at[p][t].want \in {"pid", "start"}
  BY <1>1, Types DEF Midway, Wants
<1>3. at[p][t] # Absent
  BY <1>1 DEF Absent
<1>4. CASE at[p][t].want = "pid"
  <2>1. Answers(p, t, p) /\ UNCHANGED memory
    BY <1>1, <1>4 DEF return_pid
  <2>2. /\ at' \in [Pids -> [Callers -> Point]]
        /\ at'[p][t] = Idle
        /\ \A q \in Pids, u \in Callers : <<q, u>> # <<p, t>> => at'[q][u] = at[q][u]
        /\ told' = [pid |-> p, born |-> procs[p].born, want |-> "pid", val |-> p]
        /\ told' \in Answer
    BY <1>4, <2>1, Types, AnswersMoves
  <2>3. OwnCache(p)' /\ Midway(p, t)' /\ OwnIdentity'
    BY <1>1, <2>1, <2>2, Types DEF OwnCache, Midway, OwnIdentity, Idle
  <2>4. QED
    BY <1>1, <1>3, <2>1, <2>2, <2>3, Types, ThreadStep
<1>5. CASE at[p][t].want = "start"
  <2>1. PICK time \in {0, procs[p].born} : memory' = [memory EXCEPT ![p].start = time] /\ Answers(p, t, time)
    BY <1>1, <1>5 DEF return_pid, start_time_for_pid
  <2>2. time \in Nat
    BY Types
  <2>3. /\ at' \in [Pids -> [Callers -> Point]]
        /\ at'[p][t] = Idle
        /\ \A q \in Pids, u \in Callers : <<q, u>> # <<p, t>> => at'[q][u] = at[q][u]
        /\ told' = [pid |-> p, born |-> procs[p].born, want |-> "start", val |-> time]
        /\ told' \in Answer
    BY <1>5, <2>1, <2>2, AnswersMoves
  <2> DEFINE new == [memory[p] EXCEPT !.start = time]
  <2>4. new \in Globals /\ new.start = time /\ new.added /\ new.pid = p
    BY <1>1, <2>2, Types DEF Globals
  <2>5. memory' = [memory EXCEPT ![p] = new]
    BY <2>1
  <2> HIDE DEF new
  <2>6. memory' \in [Pids -> Globals] /\ memory'[p] = new /\ \A q \in Pids \ {p} : memory'[q] = memory[q]
    BY <2>4, <2>5, Types
  <2>7. OwnCache(p)' /\ Midway(p, t)' /\ OwnIdentity'
    BY <1>1, <2>3, <2>4, <2>6, Types DEF OwnCache, Midway, OwnIdentity, Idle
  <2>8. QED
    BY <1>1, <1>3, <2>3, <2>4, <2>6, <2>7, Types, ThreadStep
<1>6. QED
  BY <1>2, <1>4, <1>5

\* A process that starts or ends: the others keep what they have.
LEMMA ProcessStep ==
  ASSUME PidInv, NEW p \in Pids,
         procs' \in [Pids -> Proc], memory' \in [Pids -> Globals], at' \in [Pids -> [Callers -> Point]],
         births' \in Nat, told' = told,
         \A q \in Pids \ {p} : procs'[q] = procs[q] /\ memory'[q] = memory[q] /\ at'[q] = at[q],
         memory'[p].pid = 0, memory'[p].start = 0,
         \A t \in Callers : at'[p][t] \in {Idle, Absent},
         procs'[p].state # "running" => memory'[p] = NoMemory /\ \A t \in Callers : at'[p][t] = Absent
  PROVE  PidInv'
<1>1. PidTypeOK'
  BY DEF PidInv, PidTypeOK
<1>2. Ended'
  BY DEF PidInv, Ended
<1>3. ASSUME NEW q \in Pids PROVE OwnCache(q)'
  BY DEF PidInv, Caches, OwnCache
<1>4. ASSUME NEW q \in Pids, NEW t \in Callers PROVE Midway(q, t)'
  BY DEF PidInv, Caches, Midway, Idle, Absent
<1>5. Caches'
  BY <1>3, <1>4 DEF Caches
<1>6. OwnIdentity'
  BY DEF PidInv, OwnIdentity
<1>7. QED
  BY <1>1, <1>2, <1>5, <1>6 DEF PidInv

\* The child has nothing cached: the handler clears it, or nothing was there.
LEMMA ForkStep ==
  ASSUME PidInv, NEW p \in Pids, NEW t \in Callers, NEW child \in Pids, fork(p, t, child)
  PROVE  PidInv'
<1>1. PidTypeOK /\ memory[p] \in Globals /\ OwnCache(p)
  BY Types DEF PidInv
<1> DEFINE new == [state |-> "running", born |-> births + 1]
           copied == IF memory[p].added THEN Cleared(memory[p]) ELSE memory[p]
           threads == [u \in Callers |-> IF u = t THEN Idle ELSE Absent]
<1>2. new \in Proc /\ new.state = "running" /\ births + 1 \in Nat
  BY <1>1 DEF PidTypeOK, Proc
<1>3. copied \in Globals /\ copied.pid = 0 /\ copied.start = 0
  <2>1. CASE memory[p].added
    BY <1>1, <2>1 DEF Globals, Cleared
  <2>2. CASE ~memory[p].added
    BY <1>1, <2>2 DEF OwnCache
  <2>3. QED
    BY <2>1, <2>2
<1>4. threads \in [Callers -> Point] /\ \A u \in Callers : threads[u] \in {Idle, Absent}
  BY DEF Idle, Absent, Point, Pcs, Wants
<1>5. /\ births' = births + 1 /\ told' = told
      /\ procs' = [procs EXCEPT ![child] = new]
      /\ memory' = [memory EXCEPT ![child] = copied]
      /\ at' = [at EXCEPT ![child] = threads]
  BY DEF fork
<1> HIDE DEF new, copied, threads
<1>6. procs' \in [Pids -> Proc] /\ memory' \in [Pids -> Globals] /\ at' \in [Pids -> [Callers -> Point]]
  BY <1>1, <1>2, <1>3, <1>4, <1>5 DEF PidTypeOK
<1>7. /\ \A q \in Pids \ {child} : procs'[q] = procs[q] /\ memory'[q] = memory[q] /\ at'[q] = at[q]
      /\ procs'[child] = new /\ memory'[child] = copied /\ at'[child] = threads
  BY <1>1, <1>5 DEF PidTypeOK
<1>8. QED
  BY <1>2, <1>3, <1>4, <1>5, <1>6, <1>7, ProcessStep

\* The end of a process takes its globals and threads with it.
LEMMA ExitStep ==
  ASSUME PidInv, NEW p \in Pids, exit(p)
  PROVE  PidInv'
<1>1. PidTypeOK
  BY DEF PidInv
<1> DEFINE new == [procs[p] EXCEPT !.state = "zombie"]
           threads == [t \in Callers |-> Absent]
<1>2. new \in Proc /\ new.state = "zombie"
  BY <1>1 DEF PidTypeOK, Proc
<1>3. threads \in [Callers -> Point] /\ \A t \in Callers : threads[t] = Absent
  BY DEF Absent, Point, Pcs, Wants
<1>4. NoMemory \in Globals /\ NoMemory.pid = 0 /\ NoMemory.start = 0
  BY DEF NoMemory, Globals
<1>5. /\ births' = births /\ told' = told
      /\ procs' = [procs EXCEPT ![p] = new]
      /\ memory' = [memory EXCEPT ![p] = NoMemory]
      /\ at' = [at EXCEPT ![p] = threads]
  BY DEF exit
<1> HIDE DEF new, threads
<1>6. /\ procs' \in [Pids -> Proc] /\ memory' \in [Pids -> Globals] /\ at' \in [Pids -> [Callers -> Point]]
      /\ births' \in Nat
  BY <1>1, <1>2, <1>3, <1>4, <1>5 DEF PidTypeOK
<1>7. /\ \A q \in Pids \ {p} : procs'[q] = procs[q] /\ memory'[q] = memory[q] /\ at'[q] = at[q]
      /\ memory'[p] = NoMemory /\ at'[p] = threads
  BY <1>1, <1>5 DEF PidTypeOK
<1>8. QED
  BY <1>3, <1>4, <1>5, <1>6, <1>7, ProcessStep

\* A pid that is free again has no globals.
LEMMA ReapStep ==
  ASSUME PidInv, NEW p \in Pids, reap(p)
  PROVE  PidInv'
<1>1. PidTypeOK /\ procs[p].state = "zombie"
  BY DEF PidInv, reap
<1>2. memory[p] = NoMemory /\ \A t \in Callers : at[p][t] = Absent
  BY <1>1 DEF PidInv, Ended
<1> DEFINE new == [state |-> "gone", born |-> 0]
<1>3. new \in Proc
  BY DEF Proc
<1>4. procs' = [procs EXCEPT ![p] = new] /\ UNCHANGED <<memory, at, births, told>>
  BY DEF reap
<1> HIDE DEF new
<1>5. procs' \in [Pids -> Proc] /\ \A q \in Pids \ {p} : procs'[q] = procs[q]
  BY <1>1, <1>3, <1>4 DEF PidTypeOK
<1>6. NoMemory.pid = 0 /\ NoMemory.start = 0
  BY DEF NoMemory
<1>7. memory' \in [Pids -> Globals] /\ at' \in [Pids -> [Callers -> Point]] /\ births' \in Nat
  BY <1>1, <1>4 DEF PidTypeOK
<1>8. QED
  BY <1>2, <1>4, <1>5, <1>6, <1>7, ProcessStep

\* Every step preserves the invariant.
LEMMA PidNextInv == PidInv /\ [PidNext]_pidVars => PidInv'
<1> SUFFICES ASSUME PidInv, [PidNext]_pidVars PROVE PidInv'
  OBVIOUS
<1>1. CASE UNCHANGED pidVars
  BY <1>1 DEF pidVars, PidInv, PidTypeOK, Ended, Caches, OwnCache, Midway, OwnIdentity
<1>2. ASSUME NEW p \in Pids, NEW t \in Callers,
             \/ \E want \in {"pid", "start"} : ask(p, t, want)
             \/ look_for_start(p, t) \/ look_for_pid(p, t) \/ maybe_add_atfork_handler(p, t)
             \/ cache_pid(p, t) \/ return_pid(p, t)
             \/ \E child \in Pids : fork(p, t, child)
      PROVE  PidInv'
  BY <1>2, AskStep, LookForStartStep, LookForPidStep, HandlerStep, CachePidStep, ReturnPidStep, ForkStep
<1>3. ASSUME NEW p \in Pids, exit(p) \/ reap(p)
      PROVE  PidInv'
  BY <1>3, ExitStep, ReapStep
<1>4. QED
  BY <1>1, <1>2, <1>3 DEF PidNext

\* Whatever is cached at any moment of any interleaving is the process's own.
THEOREM CacheInvariance == PidSpec => []PidInv
BY PidInitInv, PidNextInv, PTL DEF PidSpec

\* getpid_cached and this_process_start_time answer with the caller's own pid and start time (or
\* zero), for any number of threads, forks and pids used again (Process.cc 40-87).
THEOREM Identity == PidSpec => []OwnIdentity
<1>1. PidInv => OwnIdentity
  BY DEF PidInv
<1>2. QED
  BY <1>1, CacheInvariance, PTL

-----------------------------------------------------------------------------
\* A call starts with no descriptor.
LEMMA SocketInitInv == SocketInit => SocketInv
BY DEF SocketInit, SocketInv, Calls, Places, Before, Setup, DescriptorInv, ModesInv, ClosedOnError, ReadyToUse

\* An address that cannot be made leaves nothing behind.
LEMMA AddressStep == SocketInv /\ address => SocketInv' /\ PathChanges
<1> SUFFICES ASSUME SocketInv, address PROVE SocketInv' /\ PathChanges
  OBVIOUS
<1> USE DEF address, Call, Goes, Throws
<1>1. sock' \in Calls
  BY DEF SocketInv, Calls, Places, Before, Setup
<1>2. DescriptorInv'
  BY DEF SocketInv, Calls, DescriptorInv, Before, Setup
<1>3. ModesInv'
  BY ZenonT(30) DEF SocketInv, Calls, ModesInv, Before, Setup
<1>4. ClosedOnError'
  BY DEF SocketInv, Calls, DescriptorInv, Before, ClosedOnError
<1>5. ReadyToUse'
  BY Zenon DEF SocketInv, Calls, DescriptorInv, ModesInv, Before, Setup, ReadyToUse
<1>6. PathChanges
  BY DEF SocketInv, Calls, ModesInv, Setup, PathChanges
<1>7. QED
  BY <1>1, <1>2, <1>3, <1>4, <1>5, <1>6 DEF SocketInv

\* The descriptor is made, or nothing is.
LEMMA SocketStep == SocketInv /\ socket => SocketInv' /\ PathChanges
<1> SUFFICES ASSUME SocketInv, socket PROVE SocketInv' /\ PathChanges
  OBVIOUS
<1> USE DEF socket, Goes, Throws
<1>1. sock' \in Calls
  BY DEF SocketInv, Calls, Places, Before, Setup
<1>2. DescriptorInv'
  BY DEF SocketInv, Calls, DescriptorInv, Before, Setup
<1>3. ModesInv'
  BY ZenonT(30) DEF SocketInv, Calls, ModesInv, Before, Setup
<1>4. ClosedOnError'
  BY DEF SocketInv, Calls, DescriptorInv, Before, ClosedOnError
<1>5. ReadyToUse'
  BY Zenon DEF SocketInv, Calls, DescriptorInv, ModesInv, Before, Setup, ReadyToUse
<1>6. PathChanges
  BY DEF SocketInv, Calls, ModesInv, Setup, PathChanges
<1>7. QED
  BY <1>1, <1>2, <1>3, <1>4, <1>5, <1>6 DEF SocketInv

\* A socket that cannot be set up is closed.
LEMMA OptionStep == SocketInv /\ setsockopt => SocketInv' /\ PathChanges
<1> SUFFICES ASSUME SocketInv, setsockopt PROVE SocketInv' /\ PathChanges
  OBVIOUS
<1> USE DEF setsockopt, Call, Goes, Throws
<1>1. sock' \in Calls
  BY DEF SocketInv, Calls, Places, Before, Setup
<1>2. DescriptorInv'
  BY DEF SocketInv, Calls, DescriptorInv, Before, Setup
<1>3. ModesInv'
  BY Zenon DEF SocketInv, Calls, ModesInv, Before, Setup
<1>4. ClosedOnError'
  BY DEF SocketInv, Calls, DescriptorInv, Before, ClosedOnError
<1>5. ReadyToUse'
  BY Zenon DEF SocketInv, Calls, DescriptorInv, ModesInv, Before, Setup, ReadyToUse
<1>6. PathChanges
  BY DEF SocketInv, Calls, ModesInv, Setup, PathChanges
<1>7. QED
  BY <1>1, <1>2, <1>3, <1>4, <1>5, <1>6 DEF SocketInv

\* What the path names is gone, or the descriptor is left open.
LEMMA RemoveStep == SocketInv /\ remove => SocketInv' /\ PathChanges
<1> SUFFICES ASSUME SocketInv, remove PROVE SocketInv' /\ PathChanges
  OBVIOUS
<1> USE DEF remove, Goes, Throws
<1>1. sock' \in Calls
  BY DEF SocketInv, Calls, Places, Before, Setup
<1>2. DescriptorInv'
  BY DEF SocketInv, Calls, DescriptorInv, Before, Setup
<1>3. ModesInv'
  BY Zenon DEF SocketInv, Calls, ModesInv, Before, Setup
<1>4. ClosedOnError'
  BY DEF SocketInv, Calls, DescriptorInv, Before, ClosedOnError
<1>5. ReadyToUse'
  <2>1. sock'.pc # "returned"
    BY DEF SocketInv, Calls
  <2>2. QED
    BY <2>1, Zenon DEF ReadyToUse
<1>6. PathChanges
  BY DEF SocketInv, Calls, ModesInv, Setup, PathChanges
<1>7. QED
  BY <1>1, <1>2, <1>3, <1>4, <1>5, <1>6 DEF SocketInv

\* A bound socket is there, or closed.
LEMMA BindStep == SocketInv /\ bind => SocketInv' /\ PathChanges
<1> SUFFICES ASSUME SocketInv, bind PROVE SocketInv' /\ PathChanges
  OBVIOUS
<1> USE DEF bind, Goes, Throws
<1>1. sock' \in Calls
  BY DEF SocketInv, Calls, Places, Before, Setup
<1>2. DescriptorInv'
  BY DEF SocketInv, Calls, DescriptorInv, Before, Setup
<1>3. ModesInv'
  BY Zenon DEF SocketInv, Calls, ModesInv, Before, Setup
<1>4. ClosedOnError'
  BY DEF SocketInv, Calls, DescriptorInv, Before, ClosedOnError
<1>5. ReadyToUse'
  <2>1. CASE sock'.pc = "returned"
    <3>1. sock \in Calls /\ sock.pc = "bind" /\ sock.op = "listen" /\ modes = {}
      BY DEF SocketInv, ModesInv, Setup
    <3>2. /\ sock.backlog = 0 /\ ~sock.nonblocking
          /\ sock' = [sock EXCEPT !.pc = "returned"] /\ fd' = fd
          /\ modes' = modes \cup {"bound"} \cup (IF sock.port = 0 THEN {"0777"} ELSE {})
      BY <2>1, <3>1 DEF Calls
    <3>3. fd = "open"
      BY <3>1 DEF SocketInv, DescriptorInv, Before
    <3>4. sock'.backlog = 0 /\ ~sock'.nonblocking
      BY <3>1, <3>2 DEF Calls
    <3>5. "bound" \in modes' /\ {"nonblocking", "listening", "in progress"} \cap modes' = {}
      BY <3>1, <3>2, Zenon
    <3>6. QED
      BY <3>2, <3>3, <3>4, <3>5, Zenon DEF ReadyToUse
  <2>2. CASE sock'.pc # "returned"
    BY <2>2, Zenon DEF ReadyToUse
  <2>3. QED
    BY <2>1, <2>2
<1>6. PathChanges
  BY DEF SocketInv, Calls, ModesInv, Setup, PathChanges
<1>7. QED
  BY <1>1, <1>2, <1>3, <1>4, <1>5, <1>6 DEF SocketInv

\* Only a call with a backlog listens.
LEMMA ListenStep == SocketInv /\ listen => SocketInv' /\ PathChanges
<1> SUFFICES ASSUME SocketInv, listen PROVE SocketInv' /\ PathChanges
  OBVIOUS
<1> USE DEF listen, Call, Goes, Throws
<1>1. sock' \in Calls
  BY DEF SocketInv, Calls, Places, Before, Setup
<1>2. DescriptorInv'
  BY DEF SocketInv, Calls, DescriptorInv, Before, Setup
<1>3. ModesInv'
  BY Zenon DEF SocketInv, Calls, ModesInv, Before, Setup
<1>4. ClosedOnError'
  BY DEF SocketInv, Calls, DescriptorInv, Before, ClosedOnError
<1>5. ReadyToUse'
  BY Zenon DEF SocketInv, Calls, DescriptorInv, ModesInv, Before, Setup, ReadyToUse
<1>6. PathChanges
  BY Zenon DEF SocketInv, Calls, ModesInv, Setup, PathChanges
<1>7. QED
  BY <1>1, <1>2, <1>3, <1>4, <1>5, <1>6 DEF SocketInv

\* fcntl fails: the descriptor is left open.
LEMMA NonblockingStep == SocketInv /\ make_fd_nonblocking => SocketInv' /\ PathChanges
<1> SUFFICES ASSUME SocketInv, make_fd_nonblocking PROVE SocketInv' /\ PathChanges
  OBVIOUS
<1> USE DEF make_fd_nonblocking, Call, Goes, Throws
<1>1. sock' \in Calls
  BY DEF SocketInv, Calls, Places, Before, Setup
<1>2. DescriptorInv'
  BY DEF SocketInv, Calls, DescriptorInv, Before, Setup
<1>3. ModesInv'
  BY Zenon DEF SocketInv, Calls, ModesInv, Before, Setup
<1>4. ClosedOnError'
  BY DEF SocketInv, Calls, DescriptorInv, Before, ClosedOnError
<1>5. ReadyToUse'
  BY Zenon DEF SocketInv, Calls, DescriptorInv, ModesInv, Before, Setup, ReadyToUse
<1>6. PathChanges
  BY Zenon DEF SocketInv, Calls, ModesInv, Setup, PathChanges
<1>7. QED
  BY <1>1, <1>2, <1>3, <1>4, <1>5, <1>6 DEF SocketInv

\* What is handed out may be under way on a nonblocking socket only.
LEMMA ConnectStep == SocketInv /\ connect => SocketInv' /\ PathChanges
<1> SUFFICES ASSUME SocketInv, connect PROVE SocketInv' /\ PathChanges
  OBVIOUS
<1>1. /\ sock \in Calls /\ sock.pc = "connect" /\ sock.op = "connect" /\ fd = "open"
      /\ "in progress" \notin modes /\ (sock.nonblocking <=> "nonblocking" \in modes)
  BY Zenon DEF connect, SocketInv, DescriptorInv, ModesInv, Before
<1>2. PathChanges
  BY Zenon DEF connect, PathChanges
<1>3. CASE Throws("connect", TRUE)
  <2>1. sock' = [sock EXCEPT !.pc = "thrown", !.cause = "connect"] /\ fd' = "closed"
    BY <1>3 DEF Throws
  <2>2. "thrown" \in Places /\ "connect" \in Places
    BY DEF Places
  <2>3. sock' \in Calls /\ sock'.pc = "thrown" /\ sock'.cause = "connect"
    BY <1>1, <2>1, <2>2, Zenon DEF Calls
  <2>4. QED
    BY <1>2, <2>1, <2>3, Zenon DEF SocketInv, DescriptorInv, ModesInv, ClosedOnError, ReadyToUse, Before, Setup
<1>4. CASE \E outcome \in {"connected", "in progress"} :
             /\ outcome = "in progress" => "nonblocking" \in modes
             /\ Goes("returned") /\ modes' = modes \cup {outcome} /\ UNCHANGED fd
  <2>1. PICK outcome \in {"connected", "in progress"} :
          /\ outcome = "in progress" => "nonblocking" \in modes
          /\ Goes("returned") /\ modes' = modes \cup {outcome} /\ UNCHANGED fd
    BY <1>4, Zenon
  <2>2. sock' = [sock EXCEPT !.pc = "returned"] /\ fd' = "open"
    BY <1>1, <2>1, Zenon DEF Goes
  <2>3. sock' \in Calls /\ sock'.pc = "returned" /\ sock'.op = "connect"
    BY <1>1, <2>2, Zenon DEF Calls, Places, Before, Setup
  <2>4. sock'.nonblocking <=> sock.nonblocking
    BY <1>1, <2>2, Zenon DEF Calls
  <2>5. "nonblocking" \in modes' <=> "nonblocking" \in modes
    BY <2>1, Zenon
  <2>6. "in progress" \in modes' => "nonblocking" \in modes
    BY <1>1, <2>1, Zenon
  <2>7. ReadyToUse'
    BY <1>1, <2>2, <2>3, <2>4, <2>5, <2>6, Zenon DEF ReadyToUse
  <2>8. QED
    BY <1>2, <2>2, <2>3, <2>7, Zenon DEF SocketInv, DescriptorInv, ModesInv, ClosedOnError, Before, Setup
<1>5. QED
  BY <1>3, <1>4, Zenon DEF connect

\* Every step keeps the invariant and changes the path only as it may.
LEMMA SocketNextInv == SocketInv /\ [SocketNext]_socketVars => SocketInv' /\ (UNCHANGED socketVars \/ PathChanges)
<1> SUFFICES ASSUME SocketInv, [SocketNext]_socketVars PROVE SocketInv' /\ (UNCHANGED socketVars \/ PathChanges)
  OBVIOUS
<1>1. CASE UNCHANGED socketVars
  BY <1>1, Zenon DEF socketVars, SocketInv, DescriptorInv, ModesInv, ClosedOnError, ReadyToUse
<1>2. CASE SocketNext
  BY <1>2, AddressStep, SocketStep, OptionStep, RemoveStep, BindStep, ListenStep, NonblockingStep, ConnectStep DEF SocketNext
<1>3. QED
  BY <1>1, <1>2

\* At every point of listen and connect the descriptor and its modes are what the calls so far made them.
THEOREM SocketInvariance == SocketSpec => []SocketInv
<1>1. SocketInv /\ [SocketNext]_socketVars => SocketInv'
  BY SocketNextInv
<1>2. QED
  BY <1>1, SocketInitInv, PTL DEF SocketSpec

\* Whichever calls fail: the descriptor is closed except after the two that throw by themselves, what is
\* returned is as it was asked for, and the path is changed by a listen on it only (Network.cc 158-223).
THEOREM Settled == SocketSpec => SocketsAreSettled
<1>1. SocketInv /\ SocketInv' /\ [SocketNext]_socketVars => [ClosedOnError' /\ ReadyToUse' /\ PathChanges]_socketVars
  BY SocketNextInv DEF SocketInv
<1>2. QED
  BY <1>1, SocketInvariance, PTL DEF SocketSpec, SocketsAreSettled
-----------------------------------------------------------------------------
\* scoped_fd and Poll.

Entry == [fd : Fds, events : Events, file : Nat]

\* Held numbers, the program's numbers and the entries of Poll mean open files, and no number is both held and the program's.
FdTypeOK ==
  /\ table \in [Fds -> Nat]
  /\ held \in [Objects -> [fd : Fds \cup {-1}, file : Nat]]
  /\ raw \subseteq Fds
  /\ poll_fds \in Seq(Entry)
  /\ opened \in Nat
  /\ careless \in BOOLEAN

Owned ==
  /\ \A o \in Objects : held[o].fd # -1 =>
       held[o].file # 0 /\ table[held[o].fd] = held[o].file /\ held[o].fd \notin raw
  /\ \A o, p \in Objects : o # p /\ held[o].fd # -1 => held[o].fd # held[p].fd
  /\ \A n \in raw : table[n] # 0

Watched ==
  /\ \A i, j \in DOMAIN poll_fds : i < j =>
       poll_fds[i].fd < poll_fds[j].fd \/ (poll_fds[i].fd = poll_fds[j].fd /\ poll_fds[i].fd \in again)
  /\ \A i \in DOMAIN poll_fds : poll_fds[i].file # 0 /\ table[poll_fds[i].fd] = poll_fds[i].file

FdInv == FdTypeOK /\ Files!NothingLost /\ (~careless => Owned /\ Watched)

\* A set of naturals has a least one.
LEMMA HasLeast ==
  ASSUME NEW S, S \subseteq Nat, S # {}
  PROVE  \E x \in S : \A y \in S : x <= y
<1> DEFINE R == OpToRel(<, Nat)
<1>1. IsWellFoundedOn(R, Nat)
  BY NatLessThanWellFounded, Zenon
<1> HIDE DEF R
<1>2. \E x \in S : \A y \in S : ~ (<<y, x>> \in R)
  BY <1>1, WFMin
<1>3. \A x, y \in Nat : <<y, x>> \in R <=> y < x
  BY DEF R, OpToRel
<1>4. PICK x \in S : \A y \in S : ~ (<<y, x>> \in R)
  BY <1>2
<1>5. \A y \in S : ~(y < x)
  BY <1>3, <1>4
<1>6. QED
  BY <1>5

\* Min picks it.
LEMMA LeastOf ==
  ASSUME NEW S, S \subseteq Nat, S # {}
  PROVE  Files!Min(S) \in S /\ \A y \in S : Files!Min(S) <= y
BY HasLeast DEF Files!Min

\* open takes a number that is not in use.
LEMMA LowestIsFree ==
  ASSUME NEW tab \in [Fds -> Nat], Files!Free(tab) # {}
  PROVE  Files!Lowest(tab) \in Fds /\ tab[Files!Lowest(tab)] = 0
<1>1. Files!Free(tab) \subseteq Nat
  BY FdsAssumption DEF Files!Free
<1>2. Files!Lowest(tab) \in Files!Free(tab)
  BY <1>1, LeastOf DEF Files!Lowest
<1>3. QED
  BY <1>2 DEF Files!Free

\* The table without an object's descriptor.
LEMMA Shut ==
  ASSUME FdInv, ~careless, NEW o \in Objects, NEW tab, tab = Files!Without(table, held[o].fd)
  PROVE  /\ tab \in [Fds -> Nat]
         /\ \A n \in Fds : tab[n] = IF n = held[o].fd THEN 0 ELSE table[n]
BY FdsAssumption DEF FdInv, FdTypeOK, Files!Without

\* An entry's events may change; its descriptor and its file do not.
LEMMA Entries ==
  ASSUME FdTypeOK
  PROVE  /\ Len(poll_fds) \in Nat /\ DOMAIN poll_fds = 1..Len(poll_fds)
         /\ \A i \in DOMAIN poll_fds : poll_fds[i].fd \in Fds /\ poll_fds[i].file \in Nat
<1>1. poll_fds \in Seq(Entry)
  BY DEF FdTypeOK
<1>2. /\ Len(poll_fds) \in Nat /\ DOMAIN poll_fds = 1..Len(poll_fds)
      /\ \A i \in DOMAIN poll_fds : poll_fds[i] \in Entry
  BY <1>1
<1>3. \A e \in Entry : e.fd \in Fds /\ e.file \in Nat
  BY DEF Entry
<1>4. QED
  BY <1>2, <1>3

\* Poll's entries, when the table keeps the files it watches.
LEMMA WatchedStep ==
  ASSUME FdInv, ~careless, table' \in [Fds -> Nat], poll_fds' = poll_fds /\ again' = again,
         \A n \in Files!Polled : table'[n] = table[n]
  PROVE  Watched'
BY DEF FdInv, FdTypeOK, Watched, Files!Polled

\* What holds of the objects and of the program's numbers, one by one.
LEMMA Holders ==
  ASSUME FdInv, ~careless
  PROVE  /\ \A p \in Objects : held[p] \in [fd : Fds \cup {-1}, file : Nat]
         /\ \A p \in Objects : held[p].fd # -1 =>
              /\ held[p].fd \in Fds /\ held[p].fd \notin raw
              /\ held[p].file # 0 /\ table[held[p].fd] = held[p].file
         /\ \A p, q \in Objects : p # q /\ held[p].fd # -1 => held[p].fd # held[q].fd
         /\ \A n \in raw : n \in Fds /\ n # -1 /\ table[n] # 0 /\ (\A p \in Objects : held[p].fd # n)
<1>1. Owned /\ FdTypeOK
  BY DEF FdInv
<1>2. \A p \in Objects : held[p] \in [fd : Fds \cup {-1}, file : Nat]
  BY <1>1 DEF FdTypeOK
<1>3. \A p \in Objects : held[p].fd \in Fds \cup {-1}
  BY <1>2
<1>4. \A n \in raw : n \in Fds /\ n # -1 /\ table[n] # 0
  BY <1>1, FdsAssumption DEF FdTypeOK, Owned
<1>5. \A n \in raw, p \in Objects : held[p].fd # n
  BY <1>1, <1>4 DEF Owned
<1>6. QED
  BY <1>1, <1>2, <1>3, <1>4, <1>5 DEF Owned

\* When all that the objects hold afterwards they held before, and the table keeps it.
LEMMA HeldBefore ==
  ASSUME FdInv, ~careless,
         \A p \in Objects : held'[p].fd # -1 =>
           \E q \in Objects : held'[p] = held[q] /\ table'[held[q].fd] = table[held[q].fd],
         \A p, q \in Objects : p # q /\ held'[p].fd # -1 => held'[p].fd # held'[q].fd,
         \A n \in raw' : n \in raw /\ table'[n] = table[n]
  PROVE  Owned'
<1>1. ASSUME NEW p \in Objects, held'[p].fd # -1
      PROVE  held'[p].file # 0 /\ table'[held'[p].fd] = held'[p].file /\ held'[p].fd \notin raw'
  <2>1. PICK q \in Objects : held'[p] = held[q] /\ table'[held[q].fd] = table[held[q].fd]
    BY <1>1
  <2>2. QED
    BY <1>1, <2>1, Holders
<1>2. \A n \in raw' : table'[n] # 0
  BY Holders
<1>3. QED
  BY <1>1, <1>2 DEF Owned

\* Poll goes on watching what it was given when only an unpolled descriptor's place in the table has changed.
LEMMA WatchedBut ==
  ASSUME FdInv, ~careless, NEW n, n \notin Files!Polled,
         poll_fds' = poll_fds /\ again' = again, \A m \in Fds \ {n} : table'[m] = table[m]
  PROVE  Watched'
<1>1. Watched /\ FdTypeOK
  BY DEF FdInv
<1>2. \A i \in DOMAIN poll_fds : poll_fds[i].fd \in Fds /\ poll_fds[i].fd # n
  BY <1>1, Entries DEF Files!Polled
<1>3. QED
  BY <1>1, <1>2 DEF Watched

\* Poll watches exactly the descriptors of its entries.
LEMMA Polls ==
  ASSUME FdInv, ~careless, NEW n \in Fds, table[n] = 0
  PROVE  n \notin Files!Polled
BY DEF FdInv, Watched, Files!Polled

\* close: the object lets go of its number, and the table of that number alone.
LEMMA CloseStep ==
  ASSUME FdInv, ~careless, NEW o \in Objects,
         table' = Files!Without(table, held[o].fd),
         held' = [held EXCEPT ![o] = Files!Closed],
         Files!Breaks(held[o].fd \in Files!Polled),
         raw' = raw, poll_fds' = poll_fds /\ again' = again, opened' = opened
  PROVE  FdInv'
<1>1. /\ table' \in [Fds -> Nat]
      /\ \A n \in Fds : table'[n] = IF n = held[o].fd THEN 0 ELSE table[n]
  BY Shut
<1>2. Files!Closed \in [fd : Fds \cup {-1}, file : Nat]
  BY DEF Files!Closed
<1>3. FdTypeOK'
  BY <1>1, <1>2 DEF FdInv, FdTypeOK, Files!Breaks
<1>4. /\ \A p \in Objects : held'[p] = IF p = o THEN Files!Closed ELSE held[p]
      /\ Files!Closed.fd = -1
  BY DEF FdInv, FdTypeOK, Files!Closed
<1>5. Files!NothingLost'
  BY <1>1, <1>4 DEF FdInv, FdTypeOK, Files!NothingLost, Files!HeldFds, Owned
<1>6. Owned'
  <2>1. \A p \in Objects : held'[p].fd # -1 => p # o /\ held'[p] = held[p] /\ held[p].fd # held[o].fd /\ held[p].fd \in Fds
    BY <1>4, Holders
  <2>2. \A p \in Objects : held'[p].fd # -1 =>
          \E q \in Objects : held'[p] = held[q] /\ table'[held[q].fd] = table[held[q].fd]
    BY <1>1, <2>1
  <2>3. \A p, q \in Objects : p # q /\ held'[p].fd # -1 => held'[p].fd # held'[q].fd
    BY <1>4, <2>1, Holders
  <2>4. \A n \in raw' : n \in raw /\ table'[n] = table[n]
    BY <1>1, Holders
  <2>5. QED
    BY <2>2, <2>3, <2>4, HeldBefore
<1>7. ASSUME ~careless' PROVE Watched'
  BY <1>1, <1>7, WatchedBut DEF Files!Breaks
<1>8. QED
  BY <1>3, <1>5, <1>6, <1>7 DEF FdInv

\* open that succeeds takes the lowest free number, perhaps the one the object has just closed.
LEMMA OpenStep ==
  ASSUME FdInv, ~careless, NEW o \in Objects, NEW tab, tab = Files!Without(table, held[o].fd),
         Files!Free(tab) # {},
         opened' = opened + 1,
         table' = [tab EXCEPT ![Files!Lowest(tab)] = opened + 1],
         held' = [held EXCEPT ![o] = [fd |-> Files!Lowest(tab), file |-> opened + 1]],
         Files!Breaks(held[o].fd \in Files!Polled),
         raw' = raw, poll_fds' = poll_fds /\ again' = again
  PROVE  FdInv'
<1> DEFINE k == Files!Lowest(tab)
<1> DEFINE new == [fd |-> k, file |-> opened + 1]
<1>1. /\ tab \in [Fds -> Nat]
      /\ \A n \in Fds : tab[n] = IF n = held[o].fd THEN 0 ELSE table[n]
  BY Shut
<1>2. k \in Fds /\ tab[k] = 0
  BY <1>1, LowestIsFree
<1> HIDE DEF k
<1>3. opened \in Nat /\ opened + 1 \in Nat /\ opened + 1 # 0 /\ k # -1
  BY <1>2, FdsAssumption DEF FdInv, FdTypeOK
<1>4. new \in [fd : Fds \cup {-1}, file : Nat] /\ new.fd = k /\ new.file = opened + 1
  BY <1>2, <1>3
<1>5. /\ table' \in [Fds -> Nat]
      /\ \A n \in Fds : table'[n] = IF n = k THEN opened + 1 ELSE tab[n]
  BY <1>1, <1>2, <1>3 DEF k
<1>6. held' = [held EXCEPT ![o] = new]
  BY DEF k
<1> HIDE DEF new
<1>7. \A p \in Objects : held'[p] = IF p = o THEN new ELSE held[p]
  BY <1>6 DEF FdInv, FdTypeOK
<1>8. FdTypeOK'
  BY <1>3, <1>4, <1>5, <1>6 DEF FdInv, FdTypeOK, Files!Breaks
<1>9. Files!NothingLost'
  BY <1>1, <1>3, <1>4, <1>5, <1>7 DEF FdInv, FdTypeOK, Files!NothingLost, Files!HeldFds
<1>10. \A p \in Objects : p # o /\ held[p].fd # -1 =>
         /\ held[p].fd \in Fds /\ held[p].fd # held[o].fd /\ held[p].fd # k
         /\ table'[held[p].fd] = table[held[p].fd]
  BY <1>1, <1>2, <1>5, Holders
<1>11. \A n \in raw : n # k /\ table'[n] = table[n]
  BY <1>1, <1>2, <1>5, Holders
<1>12. Owned'
  <2>1. \A p \in Objects : held'[p].fd # -1 =>
          held'[p].file # 0 /\ table'[held'[p].fd] = held'[p].file /\ held'[p].fd \notin raw'
    BY <1>2, <1>3, <1>4, <1>5, <1>7, <1>10, <1>11, Holders
  <2>2. \A p, q \in Objects : p # q /\ held'[p].fd # -1 => held'[p].fd # held'[q].fd
    BY <1>4, <1>7, <1>10, Holders
  <2>3. \A n \in raw' : table'[n] # 0
    BY <1>11, Holders
  <2>4. QED
    BY <2>1, <2>2, <2>3 DEF Owned
<1>13. ASSUME ~careless' PROVE Watched'
  <2>1. held[o].fd \notin Files!Polled
    BY <1>13 DEF Files!Breaks
  <2>2. k \notin Files!Polled
    BY <1>1, <1>2, <2>1, Polls
  <2>3. \A m \in Files!Polled : m \in Fds /\ table'[m] = table[m]
    BY <1>1, <1>5, <2>1, <2>2, Entries DEF FdInv, Files!Polled
  <2>4. QED
    BY <1>5, <2>3, WatchedStep
<1>14. QED
  BY <1>8, <1>9, <1>12, <1>13 DEF FdInv

\* Move construction: the number changes hands.
LEMMA MoveStep ==
  ASSUME FdInv, ~careless, NEW o \in Objects, NEW other \in Objects, Files!move(o, other)
  PROVE  FdInv'
<1> DEFINE shut == [held EXCEPT ![o] = Files!Closed]
<1>1. /\ table' = Files!Without(table, held[o].fd)
      /\ held' = [[held EXCEPT ![o] = shut[other]] EXCEPT ![other] = Files!Closed]
      /\ Files!Breaks(held[o].fd \in Files!Polled)
      /\ raw' = raw /\ poll_fds' = poll_fds /\ again' = again /\ opened' = opened
  BY DEF Files!move
<1>2. held \in [Objects -> [fd : Fds \cup {-1}, file : Nat]]
  BY DEF FdInv, FdTypeOK
<1>3. Files!Closed \in [fd : Fds \cup {-1}, file : Nat] /\ Files!Closed.fd = -1
  BY DEF Files!Closed
<1>4. CASE o = other
  <2>1. held' = [held EXCEPT ![o] = Files!Closed]
    BY <1>1, <1>2, <1>3, <1>4
  <2>2. QED
    BY <1>1, <2>1, CloseStep
<1>5. CASE o # other
  <2>1. \A p \in Objects : held'[p] = IF p = other THEN Files!Closed ELSE IF p = o THEN held[other] ELSE held[p]
    BY <1>1, <1>2, <1>5
  <2>2. held' \in [Objects -> [fd : Fds \cup {-1}, file : Nat]]
    BY <1>1, <1>2, <1>3, <1>5
  <2>3. /\ table' \in [Fds -> Nat]
        /\ \A n \in Fds : table'[n] = IF n = held[o].fd THEN 0 ELSE table[n]
    BY <1>1, Shut
  <2>4. FdTypeOK'
    BY <1>1, <2>2, <2>3 DEF FdInv, FdTypeOK, Files!Breaks
  <2>5. Files!NothingLost'
    <3>1. ASSUME NEW n \in Fds, table'[n] # 0, n \notin raw PROVE n \in Files!HeldFds'
      <4>1. n # held[o].fd /\ table[n] # 0
        BY <2>3, <3>1
      <4>2. PICK q \in Objects : held[q].fd = n /\ n # -1
        BY <3>1, <4>1 DEF FdInv, Files!NothingLost, Files!HeldFds
      <4>3. held'[IF q = other THEN o ELSE q] = held[q]
        BY <1>5, <2>1, <4>1, <4>2
      <4>4. QED
        BY <4>2, <4>3 DEF Files!HeldFds
    <3>2. QED
      BY <1>1, <3>1 DEF Files!NothingLost
  <2>6. Owned'
    <3>1. \A p \in Objects : p # o /\ held[p].fd # -1 => held[p].fd \in Fds /\ table'[held[p].fd] = table[held[p].fd]
      BY <2>3, Holders
    <3>2. \A p \in Objects : held'[p].fd # -1 =>
            \E q \in Objects : held'[p] = held[q] /\ table'[held[q].fd] = table[held[q].fd]
      BY <1>3, <1>5, <2>1, <3>1
    <3>3. \A p, q \in Objects : p # q /\ held'[p].fd # -1 => held'[p].fd # held'[q].fd
      BY <1>3, <1>5, <2>1, Holders
    <3>4. \A n \in raw' : n \in raw /\ table'[n] = table[n]
      BY <1>1, <2>3, Holders
    <3>5. QED
      BY <3>2, <3>3, <3>4, HeldBefore
  <2>7. ASSUME ~careless' PROVE Watched'
    BY <1>1, <2>3, <2>7, WatchedBut DEF Files!Breaks
  <2>8. QED
    BY <2>4, <2>5, <2>6, <2>7 DEF FdInv
<1>6. QED
  BY <1>4, <1>5

\* Move assignment closes what the object held first.
LEMMA AssignStep ==
  ASSUME FdInv, ~careless, NEW o \in Objects, NEW k \in Fds, Files!assign(o, k)
  PROVE  FdInv'
<1> DEFINE new == [fd |-> k, file |-> table[k]]
<1>1. /\ table[k] # 0 /\ table' = Files!Without(table, held[o].fd)
      /\ held' = [held EXCEPT ![o] = new]
      /\ Files!Breaks(k \in Files!HeldFds \/ held[o].fd \in Files!Polled)
      /\ raw' = raw \ {k} /\ poll_fds' = poll_fds /\ again' = again /\ opened' = opened
  BY DEF Files!assign
<1>2. /\ table' \in [Fds -> Nat]
      /\ \A n \in Fds : table'[n] = IF n = held[o].fd THEN 0 ELSE table[n]
  BY <1>1, Shut
<1>3. table[k] \in Nat /\ k # -1
  BY FdsAssumption DEF FdInv, FdTypeOK
<1>4. new \in [fd : Fds \cup {-1}, file : Nat] /\ new.fd = k /\ new.file = table[k]
  BY <1>3
<1> HIDE DEF new
<1>5. \A p \in Objects : held'[p] = IF p = o THEN new ELSE held[p]
  BY <1>1 DEF FdInv, FdTypeOK
<1>6. FdTypeOK'
  BY <1>1, <1>2, <1>4 DEF FdInv, FdTypeOK, Files!Breaks
<1>7. Files!NothingLost'
  <2>1. ASSUME NEW n \in Fds, table'[n] # 0, n \notin raw' PROVE n \in Files!HeldFds'
    <3>1. CASE n = k
      BY <1>3, <1>4, <1>5, <3>1 DEF Files!HeldFds
    <3>2. CASE n # k
      <4>1. n # held[o].fd /\ table[n] # 0 /\ n \notin raw
        BY <1>1, <1>2, <2>1, <3>2
      <4>2. PICK q \in Objects : held[q].fd = n /\ n # -1
        BY <4>1 DEF FdInv, Files!NothingLost, Files!HeldFds
      <4>3. held'[q] = held[q]
        BY <1>5, <4>1, <4>2
      <4>4. QED
        BY <4>2, <4>3 DEF Files!HeldFds
    <3>3. QED
      BY <3>1, <3>2
  <2>2. QED
    BY <2>1 DEF Files!NothingLost
<1>8. ASSUME ~careless' PROVE Owned' /\ Watched'
  <2>1. k \notin Files!HeldFds /\ held[o].fd \notin Files!Polled
    BY <1>1, <1>8 DEF Files!Breaks
  <2>2. \A p \in Objects : held[p].fd # k
    BY <1>3, <2>1 DEF Files!HeldFds
  <2>3. \A p \in Objects : p # o /\ held[p].fd # -1 =>
          held[p].fd \in Fds /\ held[p].fd # held[o].fd /\ table'[held[p].fd] = table[held[p].fd]
    BY <1>2, Holders
  <2>4. \A p \in Objects : held'[p].fd # -1 =>
          held'[p].file # 0 /\ table'[held'[p].fd] = held'[p].file /\ held'[p].fd \notin raw'
    BY <1>1, <1>2, <1>4, <1>5, <2>2, <2>3, Holders
  <2>5. \A p, q \in Objects : p # q /\ held'[p].fd # -1 => held'[p].fd # held'[q].fd
    BY <1>4, <1>5, <2>2, <2>3, Holders
  <2>6. \A n \in raw' : table'[n] # 0
    BY <1>1, <1>2, Holders
  <2>7. Watched'
    BY <1>1, <1>2, <2>1, WatchedBut
  <2>8. QED
    BY <2>4, <2>5, <2>6, <2>7 DEF Owned
<1>9. QED
  BY <1>6, <1>7, <1>8 DEF FdInv

\* pipe makes two descriptors that the program knows.
LEMMA PipeStep ==
  ASSUME FdInv, ~careless, Files!pipe
  PROVE  FdInv'
<1> DEFINE a == Files!Lowest(table)
<1> DEFINE b == Files!Min(Files!Free(table) \ {a})
<1> DEFINE ends == {a, b}
<1>1. table \in [Fds -> Nat] /\ opened \in Nat
  BY DEF FdInv, FdTypeOK
<1>2. /\ \E n \in Files!Free(table) : Files!Free(table) # {n}
      /\ opened' = opened + 1
      /\ table' = [n \in Fds |-> IF n \in ends THEN opened + 1 ELSE table[n]]
      /\ raw' = raw \cup ends
      /\ held' = held /\ poll_fds' = poll_fds /\ again' = again /\ careless' = careless
  BY DEF Files!pipe
<1>3. a \in Fds /\ table[a] = 0
  BY <1>1, <1>2, LowestIsFree
<1>4. b \in Fds /\ table[b] = 0
  <2> HIDE DEF a
  <2>1. Files!Free(table) \ {a} # {}
    BY <1>2
  <2>2. Files!Free(table) \ {a} \subseteq Nat
    BY <1>1, FdsAssumption DEF Files!Free
  <2>3. b \in Files!Free(table)
    BY <2>1, <2>2, LeastOf
  <2> HIDE DEF b
  <2>4. QED
    BY <1>1, <2>3 DEF Files!Free
<1> HIDE DEF a, b
<1>5. ends \subseteq Fds /\ (\A n \in ends : table[n] = 0)
  BY <1>3, <1>4
<1> HIDE DEF ends
<1>6. /\ table' \in [Fds -> Nat] /\ opened + 1 # 0
      /\ \A n \in Fds : table'[n] = IF n \in ends THEN opened + 1 ELSE table[n]
  BY <1>1, <1>2
<1>7. FdTypeOK'
  BY <1>1, <1>2, <1>5, <1>6 DEF FdInv, FdTypeOK
<1>8. Files!NothingLost'
  BY <1>2, <1>5, <1>6 DEF FdInv, Files!NothingLost, Files!HeldFds
<1>9. Owned'
  <2>1. \A p \in Objects : held[p].fd # -1 =>
          held[p].fd \in Fds /\ held[p].fd \notin ends /\ table'[held[p].fd] = table[held[p].fd]
    BY <1>5, <1>6, Holders
  <2>2. \A n \in raw' : table'[n] # 0
    BY <1>2, <1>5, <1>6, Holders
  <2>3. \A p \in Objects : held'[p].fd # -1 =>
          held'[p].file # 0 /\ table'[held'[p].fd] = held'[p].file /\ held'[p].fd \notin raw'
    BY <1>2, <2>1, Holders
  <2>4. \A p, q \in Objects : p # q /\ held'[p].fd # -1 => held'[p].fd # held'[q].fd
    BY <1>2, Holders
  <2>5. QED
    BY <2>2, <2>3, <2>4 DEF Owned
<1>10. Watched'
  <2>1. \A n \in Files!Polled : n \in Fds /\ n \notin ends
    BY <1>5, Polls, Entries DEF FdInv, Files!Polled
  <2>2. QED
    BY <1>2, <1>6, <2>1, WatchedStep
<1>11. QED
  BY <1>7, <1>8, <1>9, <1>10 DEF FdInv

\* The program closes a number it knows.
LEMMA RawCloseStep ==
  ASSUME FdInv, ~careless, NEW k \in Fds, Files!raw_close(k)
  PROVE  FdInv'
<1>1. /\ k \in raw /\ table' = Files!Without(table, k) /\ raw' = raw \ {k}
      /\ Files!Breaks(k \in Files!Polled)
      /\ held' = held /\ poll_fds' = poll_fds /\ again' = again /\ opened' = opened
  BY DEF Files!raw_close
<1>2. /\ table' \in [Fds -> Nat]
      /\ \A n \in Fds : table'[n] = IF n = k THEN 0 ELSE table[n]
  BY <1>1 DEF FdInv, FdTypeOK, Files!Without
<1>3. FdTypeOK'
  BY <1>1, <1>2 DEF FdInv, FdTypeOK, Files!Breaks
<1>4. Files!NothingLost'
  BY <1>1, <1>2 DEF FdInv, Files!NothingLost, Files!HeldFds
<1>5. Owned'
  <2>1. \A p \in Objects : held'[p].fd # -1 =>
          \E q \in Objects : held'[p] = held[q] /\ table'[held[q].fd] = table[held[q].fd]
    BY <1>1, <1>2, Holders
  <2>2. \A p, q \in Objects : p # q /\ held'[p].fd # -1 => held'[p].fd # held'[q].fd
    BY <1>1, Holders
  <2>3. \A n \in raw' : n \in raw /\ table'[n] = table[n]
    BY <1>1, <1>2, Holders
  <2>4. QED
    BY <2>1, <2>2, <2>3, HeldBefore
<1>6. ASSUME ~careless' PROVE Watched'
  BY <1>1, <1>2, <1>6, WatchedBut DEF Files!Breaks
<1>7. QED
  BY <1>3, <1>4, <1>5, <1>6 DEF FdInv

\* What the two searches of Poll find: the first entry past, or not before, a descriptor.
LEMMA Searches ==
  ASSUME FdInv, ~careless, NEW k \in Fds
  PROVE  /\ Files!UpperBound(k) \in 1..(Len(poll_fds) + 1)
         /\ \A i \in DOMAIN poll_fds : i < Files!UpperBound(k) <=> poll_fds[i].fd <= k
         /\ Files!LowerBound(k) \in 1..(Len(poll_fds) + 1)
         /\ \A i \in DOMAIN poll_fds : i < Files!LowerBound(k) <=> poll_fds[i].fd < k
<1> DEFINE n == Len(poll_fds)
<1> DEFINE U == {i \in 1..(n + 1) : i > n \/ poll_fds[i].fd > k}
<1> DEFINE L == {i \in 1..(n + 1) : i > n \/ poll_fds[i].fd >= k}
<1>1. Watched /\ FdTypeOK
  BY DEF FdInv
<1>2. n \in Nat /\ DOMAIN poll_fds = 1..n /\ (\A i \in 1..n : poll_fds[i].fd \in Nat) /\ k \in Nat
  BY <1>1, Entries, FdsAssumption
<1>3. \A i, j \in 1..n : i < j => poll_fds[i].fd <= poll_fds[j].fd
  BY <1>1, <1>2 DEF Watched
<1>4. Files!UpperBound(k) = Files!Min(U) /\ Files!LowerBound(k) = Files!Min(L)
  BY DEF Files!UpperBound, Files!LowerBound
<1>5. U \subseteq Nat /\ L \subseteq Nat /\ n + 1 \in U /\ n + 1 \in L
  BY <1>2
<1>6. Files!Min(U) \in U /\ \A i \in U : Files!Min(U) <= i
  <2> HIDE DEF U
  <2>1. QED
    BY <1>5, LeastOf
<1>7. Files!Min(L) \in L /\ \A i \in L : Files!Min(L) <= i
  <2> HIDE DEF L
  <2>1. QED
    BY <1>5, LeastOf
<1>8. ASSUME NEW u, u \in U, \A i \in U : u <= i
      PROVE  u \in 1..(n + 1) /\ \A i \in 1..n : i < u <=> poll_fds[i].fd <= k
  BY <1>2, <1>3, <1>8
<1>9. ASSUME NEW u, u \in L, \A i \in L : u <= i
      PROVE  u \in 1..(n + 1) /\ \A i \in 1..n : i < u <=> poll_fds[i].fd < k
  BY <1>2, <1>3, <1>9
<1> HIDE DEF U, L, n
<1>10. QED
  BY <1>2, <1>4, <1>6, <1>7, <1>8, <1>9 DEF n

\* InsertAt and RemoveAt, entry by entry.
LEMMA Joined ==
  ASSUME NEW T, NEW a \in Seq(T), NEW b \in Seq(T)
  PROVE  /\ a \o b \in Seq(T) /\ Len(a \o b) = Len(a) + Len(b)
         /\ \A j \in 1..(Len(a) + Len(b)) : (a \o b)[j] = IF j <= Len(a) THEN a[j] ELSE b[j - Len(a)]
OBVIOUS

\* Where an entry is inserted before one that comes after it, the entries stay in order.
LEMMA Inserted ==
  ASSUME NEW T, NEW s \in Seq(T), NEW e \in T, NEW i \in 1..(Len(s) + 1)
  PROVE  /\ Files!InsertAt(s, i, e) \in Seq(T)
         /\ Len(Files!InsertAt(s, i, e)) = Len(s) + 1
         /\ \A j \in 1..(Len(s) + 1) :
              Files!InsertAt(s, i, e)[j] = IF j < i THEN s[j] ELSE IF j = i THEN e ELSE s[j - 1]
<1> DEFINE n == Len(s)
<1> DEFINE a == SubSeq(s, 1, i - 1)
<1> DEFINE b == SubSeq(s, i, Len(s))
<1> DEFINE c == a \o <<e>>
<1>1. a \in Seq(T) /\ Len(a) = i - 1 /\ (\A j \in 1..(i - 1) : a[j] = s[j])
  OBVIOUS
<1>2. b \in Seq(T) /\ Len(b) = n + 1 - i /\ (\A j \in 1..(n + 1 - i) : b[j] = s[i + j - 1])
  OBVIOUS
<1>3. Files!InsertAt(s, i, e) = c \o b
  BY DEF Files!InsertAt
<1>4. n \in Nat /\ i \in Int /\ i >= 1 /\ i <= n + 1
  OBVIOUS
<1> HIDE DEF a, b
<1>5. c \in Seq(T) /\ Len(c) = i /\ (\A j \in 1..i : c[j] = IF j < i THEN s[j] ELSE e)
  BY <1>1
<1> HIDE DEF c, n
<1> DEFINE d == c \o b
<1>6. d \in Seq(T) /\ Len(d) = i + (n + 1 - i) /\ (\A j \in 1..(i + (n + 1 - i)) : d[j] = IF j <= i THEN c[j] ELSE b[j - i])
  <2>1. /\ c \o b \in Seq(T) /\ Len(c \o b) = Len(c) + Len(b)
        /\ \A j \in 1..(Len(c) + Len(b)) : (c \o b)[j] = IF j <= Len(c) THEN c[j] ELSE b[j - Len(c)]
    BY <1>2, <1>5, Joined
  <2>2. QED
    BY <1>2, <1>5, <2>1
<1> HIDE DEF d
<1>7. i + (n + 1 - i) = n + 1
  BY <1>4
<1>8. \A j \in 1..(n + 1) : d[j] = IF j < i THEN s[j] ELSE IF j = i THEN e ELSE s[j - 1]
  <2> SUFFICES ASSUME NEW j \in 1..(n + 1)
               PROVE  d[j] = IF j < i THEN s[j] ELSE IF j = i THEN e ELSE s[j - 1]
    OBVIOUS
  <2>1. CASE j <= i
    BY <1>4, <1>5, <1>6, <1>7, <2>1
  <2>2. CASE j > i
    <3>1. j - i \in 1..(n + 1 - i) /\ i + (j - i) - 1 = j - 1
      BY <1>4, <2>2
    <3>2. d[j] = b[j - i] /\ b[j - i] = s[i + (j - i) - 1]
      BY <1>2, <1>4, <1>6, <1>7, <2>2, <3>1
    <3>3. QED
      BY <1>4, <2>2, <3>1, <3>2
  <2>3. QED
    BY <1>4, <2>1, <2>2
<1>9. QED
  BY <1>3, <1>6, <1>7, <1>8 DEF d, n

\* Without one of them the entries stay in order.
LEMMA Removed ==
  ASSUME NEW T, NEW s \in Seq(T), NEW i \in 1..Len(s)
  PROVE  /\ Files!RemoveAt(s, i) \in Seq(T)
         /\ Len(Files!RemoveAt(s, i)) = Len(s) - 1
         /\ \A j \in 1..(Len(s) - 1) : Files!RemoveAt(s, i)[j] = IF j < i THEN s[j] ELSE s[j + 1]
<1> DEFINE n == Len(s)
<1> DEFINE a == SubSeq(s, 1, i - 1)
<1> DEFINE b == SubSeq(s, i + 1, Len(s))
<1>1. a \in Seq(T) /\ Len(a) = i - 1 /\ (\A j \in 1..(i - 1) : a[j] = s[j])
  OBVIOUS
<1>2. b \in Seq(T) /\ Len(b) = n - i /\ (\A j \in 1..(n - i) : b[j] = s[i + j])
  OBVIOUS
<1>3. Files!RemoveAt(s, i) = a \o b
  BY DEF Files!RemoveAt
<1>4. n \in Nat /\ i \in Int /\ i >= 1 /\ i <= n
  OBVIOUS
<1> HIDE DEF a, b, n
<1> DEFINE d == a \o b
<1>5. d \in Seq(T) /\ Len(d) = (i - 1) + (n - i) /\ (\A j \in 1..((i - 1) + (n - i)) : d[j] = IF j <= i - 1 THEN a[j] ELSE b[j - (i - 1)])
  <2>1. /\ a \o b \in Seq(T) /\ Len(a \o b) = Len(a) + Len(b)
        /\ \A j \in 1..(Len(a) + Len(b)) : (a \o b)[j] = IF j <= Len(a) THEN a[j] ELSE b[j - Len(a)]
    BY <1>1, <1>2, Joined
  <2>2. QED
    BY <1>1, <1>2, <2>1
<1> HIDE DEF d
<1>6. (i - 1) + (n - i) = n - 1
  BY <1>4
<1>7. \A j \in 1..(n - 1) : d[j] = IF j < i THEN s[j] ELSE s[j + 1]
  <2> SUFFICES ASSUME NEW j \in 1..(n - 1)
               PROVE  d[j] = IF j < i THEN s[j] ELSE s[j + 1]
    OBVIOUS
  <2>1. CASE j < i
    BY <1>1, <1>4, <1>5, <1>6, <2>1
  <2>2. CASE j >= i
    <3>1. j - (i - 1) \in 1..(n - i) /\ i + (j - (i - 1)) = j + 1
      BY <1>4, <2>2
    <3>2. d[j] = b[j - (i - 1)] /\ b[j - (i - 1)] = s[i + (j - (i - 1))]
      BY <1>2, <1>4, <1>5, <1>6, <2>2, <3>1
    <3>3. QED
      BY <1>4, <2>2, <3>1, <3>2
  <2>3. QED
    BY <1>4, <2>1, <2>2
<1>8. QED
  BY <1>3, <1>5, <1>6, <1>7 DEF d, n

\* Poll::add changes the entry of the descriptor, or inserts one where the search stopped.
LEMMA PollAddStep ==
  ASSUME FdInv, ~careless, NEW k \in Fds, NEW e \in Events, Files!add(k, e)
  PROVE  FdInv'
<1> DEFINE u == Files!UpperBound(k)
<1> DEFINE n == Len(poll_fds)
<1> DEFINE new == [fd |-> k, events |-> e, file |-> table[k]]
<1>1. /\ table[k] # 0
      /\ poll_fds' = IF u <= n /\ poll_fds[u].fd = k
                     THEN [poll_fds EXCEPT ![u].events = e] ELSE Files!InsertAt(poll_fds, u, new)
      /\ again' = IF k \in Files!Polled THEN again \cup {k} ELSE again \ {k}
      /\ table' = table /\ held' = held /\ raw' = raw /\ opened' = opened /\ careless' = careless
  BY DEF Files!add
<1>2. /\ poll_fds \in Seq(Entry) /\ n \in Nat /\ DOMAIN poll_fds = 1..n /\ k \in Nat
      /\ \A i \in 1..n : poll_fds[i].fd \in Nat
  BY Entries, FdsAssumption DEF FdInv, FdTypeOK
<1>3. new \in Entry /\ new.fd = k /\ new.file = table[k]
  BY DEF FdInv, FdTypeOK, Entry
<1>4. u \in 1..(n + 1) /\ \A i \in 1..n : i < u <=> poll_fds[i].fd <= k
  BY <1>2, Searches
<1> HIDE DEF u, new
<1>5. ~(u <= n /\ poll_fds[u].fd = k)
  BY <1>2, <1>4
<1>6. poll_fds' = Files!InsertAt(poll_fds, u, new)
  BY <1>1, <1>5
<1>7. /\ poll_fds' \in Seq(Entry) /\ Len(poll_fds') = n + 1
      /\ \A j \in 1..(n + 1) : poll_fds'[j] = IF j < u THEN poll_fds[j] ELSE IF j = u THEN new ELSE poll_fds[j - 1]
  <2>1. u \in 1..(Len(poll_fds) + 1)
    BY <1>4
  <2>2. /\ Files!InsertAt(poll_fds, u, new) \in Seq(Entry)
        /\ Len(Files!InsertAt(poll_fds, u, new)) = Len(poll_fds) + 1
        /\ \A j \in 1..(Len(poll_fds) + 1) : Files!InsertAt(poll_fds, u, new)[j]
             = IF j < u THEN poll_fds[j] ELSE IF j = u THEN new ELSE poll_fds[j - 1]
    BY <1>2, <1>3, <2>1, Inserted
  <2>3. QED
    BY <1>6, <2>2
<1> HIDE DEF n
<1>8. FdTypeOK'
  BY <1>1, <1>7 DEF FdInv, FdTypeOK
<1>9. Files!NothingLost'
  BY <1>1 DEF FdInv, Files!NothingLost, Files!HeldFds
<1>10. Owned'
  BY <1>1 DEF FdInv, Owned
<1>11. Watched'
  <2> DEFINE Order(x, y) == x < y \/ (x = y /\ x \in again)
  <2> DEFINE NewOrder(x, y) == x < y \/ (x = y /\ x \in again')
  <2>1. \A i \in 1..n : poll_fds[i].fd \in Nat /\ (poll_fds[i].fd = k => k \in again')
    <3>1. ASSUME NEW i \in 1..n, poll_fds[i].fd = k PROVE k \in Files!Polled
      BY <1>2, <3>1 DEF Files!Polled
    <3>2. QED
      BY <1>1, <1>2, <3>1
  <2>2. \A m : m # k /\ m \in again => m \in again'
    BY <1>1
  <2>3. /\ \A i, j \in 1..n : i < j => Order(poll_fds[i].fd, poll_fds[j].fd)
        /\ \A i \in 1..n : poll_fds[i].file # 0 /\ table[poll_fds[i].fd] = poll_fds[i].file
    BY <1>2 DEF FdInv, Watched
  <2>4. DOMAIN poll_fds' = 1..(n + 1)
    BY <1>7
  <2>5. \A j \in 1..(n + 1) :
          \/ j < u /\ poll_fds'[j] = poll_fds[j] /\ j \in 1..n /\ poll_fds[j].fd <= k
          \/ j = u /\ poll_fds'[j] = new
          \/ j > u /\ poll_fds'[j] = poll_fds[j - 1] /\ j - 1 \in 1..n /\ poll_fds[j - 1].fd > k
    BY <1>2, <1>4, <1>7
  <2>6. \A i, j \in 1..n : i < j => NewOrder(poll_fds[i].fd, poll_fds[j].fd)
    BY <2>1, <2>2, <2>3
  <2> HIDE DEF Order
  <2>7. \A i, j \in 1..(n + 1) : i < j => NewOrder(poll_fds'[i].fd, poll_fds'[j].fd)
    <3> SUFFICES ASSUME NEW i \in 1..(n + 1), NEW j \in 1..(n + 1), i < j
                 PROVE  NewOrder(poll_fds'[i].fd, poll_fds'[j].fd)
      OBVIOUS
    <3>1. CASE i < u /\ j < u
      <4>1. /\ poll_fds'[i] = poll_fds[i] /\ poll_fds'[j] = poll_fds[j]
            /\ i \in 1..n /\ j \in 1..n
        BY <1>2, <1>4, <2>5, <3>1
      <4>2. QED
        BY <2>6, <4>1
    <3>2. CASE i < u /\ j = u
      <4>1. poll_fds'[i] = poll_fds[i] /\ i \in 1..n /\ poll_fds[i].fd <= k /\ poll_fds'[j].fd = k
        BY <1>3, <2>5, <3>2
      <4>2. QED
        BY <1>2, <2>1, <4>1
    <3>3. CASE i < u /\ j > u
      <4>1. poll_fds'[i] = poll_fds[i] /\ poll_fds'[j] = poll_fds[j - 1]
        BY <1>2, <1>4, <2>5, <3>3
      <4>2. poll_fds[i].fd <= k /\ k < poll_fds[j - 1].fd /\ i \in 1..n /\ j - 1 \in 1..n
        BY <1>2, <1>4, <2>5, <3>3
      <4>3. poll_fds[i].fd < poll_fds[j - 1].fd
        BY <1>2, <4>2
      <4>4. QED
        BY <4>1, <4>3
    <3>4. CASE i = u
      <4>1. poll_fds'[i].fd = k /\ poll_fds'[j] = poll_fds[j - 1] /\ j - 1 \in 1..n /\ poll_fds[j - 1].fd > k
        BY <1>3, <1>4, <2>5, <3>4
      <4>2. QED
        BY <1>2, <4>1
    <3>5. CASE i > u
      <4>1. /\ poll_fds'[i] = poll_fds[i - 1] /\ poll_fds'[j] = poll_fds[j - 1]
            /\ i - 1 \in 1..n /\ j - 1 \in 1..n /\ i - 1 < j - 1
        BY <1>4, <2>5, <3>5
      <4>2. QED
        BY <2>6, <4>1
    <3>6. QED
      BY <1>4, <3>1, <3>2, <3>3, <3>4, <3>5
  <2>8. \A i \in 1..(n + 1) : poll_fds'[i].file # 0 /\ table'[poll_fds'[i].fd] = poll_fds'[i].file
    BY <1>1, <1>3, <2>3, <2>5
  <2>9. QED
    BY <2>4, <2>7, <2>8 DEF Watched
<1>12. QED
  BY <1>8, <1>9, <1>10, <1>11 DEF FdInv

\* Poll::remove takes out the entry of the descriptor, and closes it when asked.
LEMMA PollRemoveStep ==
  ASSUME FdInv, ~careless, NEW k \in Fds, NEW c \in BOOLEAN, Files!remove(k, c)
  PROVE  FdInv'
<1> DEFINE l == Files!LowerBound(k)
<1> DEFINE n == Len(poll_fds)
<1> DEFINE found == l <= n /\ poll_fds[l].fd = k
<1>1. /\ poll_fds' = IF found THEN Files!RemoveAt(poll_fds, l) ELSE poll_fds
      /\ table' = IF found /\ c THEN Files!Without(table, k) ELSE table
      /\ raw' = IF found /\ c THEN raw \ {k} ELSE raw
      /\ careless' = (careless \/ (found /\ c /\
           (k \in Files!HeldFds \/ \E i \in DOMAIN poll_fds' : poll_fds'[i].fd = k)))
      /\ held' = held /\ opened' = opened /\ again' = again
  BY DEF Files!remove, Files!Breaks
<1>2. /\ poll_fds \in Seq(Entry) /\ n \in Nat /\ DOMAIN poll_fds = 1..n /\ k \in Nat
      /\ \A i \in 1..n : poll_fds[i].fd \in Nat /\ poll_fds[i].fd \in Fds
  BY Entries, FdsAssumption DEF FdInv, FdTypeOK
<1>3. l \in 1..(n + 1)
  BY <1>2, Searches
<1> DEFINE Order(x, y) == x < y \/ (x = y /\ x \in again)
<1>4. /\ \A i, j \in 1..n : i < j => Order(poll_fds[i].fd, poll_fds[j].fd)
      /\ \A i \in 1..n : poll_fds[i].file # 0 /\ table[poll_fds[i].fd] = poll_fds[i].file
  BY <1>2 DEF FdInv, Watched
<1> HIDE DEF l, Order
<1>5. CASE ~found
  <2>1. table' = table /\ held' = held /\ raw' = raw /\ poll_fds' = poll_fds /\ again' = again /\ opened' = opened
    BY <1>1, <1>5
  <2>2. careless' = FALSE
    BY <1>1, <1>5
  <2>3. FdTypeOK'
    BY <2>1, <2>2 DEF FdInv, FdTypeOK
  <2>4. Files!NothingLost'
    BY <2>1 DEF FdInv, Files!NothingLost, Files!HeldFds
  <2>5. Owned' /\ Watched'
    BY <2>1 DEF FdInv, Owned, Watched
  <2>6. QED
    BY <2>3, <2>4, <2>5 DEF FdInv
<1>6. CASE found
  <2>1. l \in 1..n /\ poll_fds[l].fd = k
    BY <1>2, <1>3, <1>6
  <2>2. poll_fds' = Files!RemoveAt(poll_fds, l)
    BY <1>1, <1>6, SMTT(30)
  <2>3. /\ poll_fds' \in Seq(Entry) /\ Len(poll_fds') = n - 1
        /\ \A j \in 1..(n - 1) : poll_fds'[j] = IF j < l THEN poll_fds[j] ELSE poll_fds[j + 1]
    BY <1>2, <2>1, <2>2, Removed, Zenon
  <2>4. /\ table' = IF c THEN Files!Without(table, k) ELSE table
        /\ raw' = IF c THEN raw \ {k} ELSE raw
        /\ careless' = (careless \/ (c /\
             (k \in Files!HeldFds \/ \E i \in DOMAIN poll_fds' : poll_fds'[i].fd = k)))
    BY <1>1, <1>6
  <2> HIDE DEF found
  <2>5. /\ table' \in [Fds -> Nat]
        /\ \A m \in Fds : table'[m] = IF c /\ m = k THEN 0 ELSE table[m]
        /\ \A m \in raw' : m \in raw /\ ~(c /\ m = k)
    BY <2>4 DEF FdInv, FdTypeOK, Files!Without
  <2>6. FdTypeOK'
    BY <1>1, <2>3, <2>4, <2>5 DEF FdInv, FdTypeOK
  <2>7. Files!NothingLost'
    <3>1. ASSUME NEW m \in Fds, table'[m] # 0 PROVE m \in raw' \cup Files!HeldFds
      <4>1. table[m] # 0 /\ ~(c /\ m = k)
        BY <2>5, <3>1
      <4>2. m \in raw \cup Files!HeldFds
        BY <4>1 DEF FdInv, Files!NothingLost
      <4>3. QED
        BY <2>4, <4>1, <4>2
    <3>2. QED
      BY <1>1, <3>1 DEF Files!NothingLost, Files!HeldFds
  <2>8. ASSUME ~careless' PROVE Owned'
    <3>1. ~(c /\ k \in Files!HeldFds)
      BY <2>4, <2>8
    <3>2. \A p \in Objects : held[p].fd # -1 => held[p].fd \in Fds /\ table'[held[p].fd] = table[held[p].fd]
      BY <2>5, <3>1, Holders DEF Files!HeldFds
    <3>3. \A p \in Objects : held'[p].fd # -1 =>
            \E q \in Objects : held'[p] = held[q] /\ table'[held[q].fd] = table[held[q].fd]
      BY <1>1, <3>2
    <3>4. \A p, q \in Objects : p # q /\ held'[p].fd # -1 => held'[p].fd # held'[q].fd
      BY <1>1, Holders
    <3>5. \A m \in raw' : m \in raw /\ table'[m] = table[m]
      BY <2>5, Holders
    <3>6. QED
      BY <3>3, <3>4, <3>5, HeldBefore
  <2>9. ASSUME ~careless' PROVE Watched'
    <3>1. DOMAIN poll_fds' = 1..(n - 1)
      BY <2>3
    <3>2. \A j \in 1..(n - 1) :
            \/ j < l /\ j \in 1..n /\ poll_fds'[j] = poll_fds[j]
            \/ j >= l /\ j + 1 \in 1..n /\ poll_fds'[j] = poll_fds[j + 1]
      BY <1>2, <2>1, <2>3
    <3>3. \A i, j \in 1..(n - 1) : i < j => Order(poll_fds'[i].fd, poll_fds'[j].fd)
      <4> SUFFICES ASSUME NEW i \in 1..(n - 1), NEW j \in 1..(n - 1), i < j PROVE Order(poll_fds'[i].fd, poll_fds'[j].fd)
        OBVIOUS
      <4>1. CASE j < l
        <5>1. /\ poll_fds'[i] = poll_fds[i] /\ poll_fds'[j] = poll_fds[j]
              /\ i \in 1..n /\ j \in 1..n
          BY <1>2, <1>3, <2>3, <4>1
        <5>2. QED
          BY <1>4, <5>1
      <4>2. CASE i < l /\ j >= l
        <5>1. /\ poll_fds'[i] = poll_fds[i] /\ poll_fds'[j] = poll_fds[j + 1]
              /\ i \in 1..n /\ j + 1 \in 1..n /\ i < j + 1
          BY <1>2, <1>3, <2>3, <4>2
        <5>2. QED
          BY <1>4, <5>1
      <4>3. CASE i >= l
        <5>1. /\ poll_fds'[i] = poll_fds[i + 1] /\ poll_fds'[j] = poll_fds[j + 1]
              /\ i + 1 \in 1..n /\ j + 1 \in 1..n /\ i + 1 < j + 1
          BY <1>2, <1>3, <2>3, <4>3
        <5>2. QED
          BY <1>4, <5>1
      <4>4. QED
        BY <1>3, <4>1, <4>2, <4>3
    <3>4. \A i \in 1..(n - 1) : poll_fds'[i].file # 0 /\ table'[poll_fds'[i].fd] = poll_fds'[i].file
      <4>1. \A i \in 1..(n - 1) : c => poll_fds'[i].fd # k
        BY <2>4, <2>9, <3>1
      <4>2. ASSUME NEW i \in 1..(n - 1)
            PROVE  poll_fds'[i].file # 0 /\ table'[poll_fds'[i].fd] = poll_fds'[i].file
        <5>1. PICK m \in 1..n : poll_fds'[i] = poll_fds[m]
          BY <3>2
        <5>2. poll_fds[m].fd \in Fds /\ poll_fds[m].file # 0 /\ table[poll_fds[m].fd] = poll_fds[m].file
          BY <1>2, <1>4
        <5>3. table'[poll_fds[m].fd] = table[poll_fds[m].fd]
          BY <2>5, <4>1, <5>1, <5>2
        <5>4. QED
          BY <5>1, <5>2, <5>3
      <4>3. QED
        BY <4>2
    <3>5. QED
      BY <1>1, <3>1, <3>3, <3>4 DEF Watched, Order
  <2>10. QED
    BY <2>6, <2>7, <2>8, <2>9 DEF FdInv
<1>7. QED
  BY <1>5, <1>6

\* One step of the program, an object, pipe or Poll.
LEMMA FdNextInv ==
  ASSUME FdInv, [Files!FdNext]_fdVars
  PROVE  FdInv'
<1>1. CASE UNCHANGED fdVars
  BY <1>1 DEF FdInv, FdTypeOK, Files!NothingLost, Files!HeldFds, Owned, Watched, fdVars
<1>2. CASE Files!FdNext
  <2>1. ~careless
    BY <1>2 DEF Files!FdNext
  <2>2. ASSUME NEW o \in Objects, Files!open(o) PROVE FdInv'
    <3> DEFINE tab == Files!Without(table, held[o].fd)
    <3>1. Files!Breaks(held[o].fd \in Files!Polled) /\ raw' = raw /\ poll_fds' = poll_fds /\ again' = again
      BY <2>2 DEF Files!open
    <3>2. CASE table' = tab /\ held' = [held EXCEPT ![o] = Files!Closed] /\ opened' = opened
      BY <2>1, <3>1, <3>2, CloseStep
    <3>3. CASE /\ Files!Free(tab) # {} /\ opened' = opened + 1
               /\ table' = [tab EXCEPT ![Files!Lowest(tab)] = opened + 1]
               /\ held' = [held EXCEPT ![o] = [fd |-> Files!Lowest(tab), file |-> opened + 1]]
      BY <2>1, <3>1, <3>3, OpenStep
    <3>4. QED
      BY <2>2, <3>2, <3>3 DEF Files!open
  <2>3. ASSUME NEW o \in Objects, Files!close(o) PROVE FdInv'
    BY <2>1, <2>3, CloseStep DEF Files!close
  <2>4. QED
    BY <1>2, <2>1, <2>2, <2>3, MoveStep, AssignStep, PipeStep, RawCloseStep, PollAddStep, PollRemoveStep DEF Files!FdNext
<1>3. QED
  BY <1>1, <1>2

\* Nothing is open but what the program started with.
LEMMA FdInitInv == Files!FdInit => FdInv
<1> SUFFICES ASSUME Files!FdInit PROVE FdInv
  OBVIOUS
<1>1. /\ table = [n \in Fds |-> 0] /\ held = [o \in Objects |-> Files!Closed]
      /\ raw = {} /\ poll_fds = <<>> /\ opened = 0 /\ careless = FALSE
  BY DEF Files!FdInit
<1>2. Files!Closed \in [fd : Fds \cup {-1}, file : Nat] /\ Files!Closed.fd = -1
  BY DEF Files!Closed
<1>3. FdTypeOK
  <2>1. table \in [Fds -> Nat] /\ held \in [Objects -> [fd : Fds \cup {-1}, file : Nat]]
    BY <1>1, <1>2
  <2>2. poll_fds \in Seq(Entry)
    BY <1>1
  <2>3. QED
    BY <1>1, <2>1, <2>2 DEF FdTypeOK
<1>4. QED
  BY <1>1, <1>2, <1>3 DEF FdInv, Files!NothingLost, Owned, Watched

(* Of a program that is careful, however it opens, moves, assigns, closes and polls: each scoped_fd    *)
(* holds the file it was opened on and no other object its number; Poll's entries are in order, watch *)
(* the files that were added, and are one for each descriptor that was not added again meanwhile; and *)
(* every open descriptor is held or known (Filesystem-Unix.cc).                                       *)
THEOREM Descriptors == Files!FdSpec => []DescriptorsAreOwned
<1>1. FdInv => DescriptorsAreOwned
  <2> SUFFICES ASSUME FdInv PROVE DescriptorsAreOwned
    OBVIOUS
  <2>1. ASSUME ~careless PROVE Files!OwnsItsFile /\ Files!WatchesWhatWasAdded
    <3>1. Owned /\ Watched /\ \A i \in DOMAIN poll_fds : poll_fds[i].fd \in Nat
      BY <2>1, Entries, FdsAssumption DEF FdInv
    <3>2. Files!WatchesWhatWasAdded
      BY <3>1 DEF Watched, Files!WatchesWhatWasAdded
    <3>3. QED
      BY <3>1, <3>2 DEF Owned, Files!OwnsItsFile
  <2>2. QED
    BY <2>1 DEF FdInv, DescriptorsAreOwned, Files!OwnsItsFile, Files!WatchesWhatWasAdded
<1>2. QED
  BY FdInitInv, FdNextInv, <1>1, PTL DEF Files!FdSpec, Files!fdVars, fdVars
-----------------------------------------------------------------------------
\* Loggers.

\* The loggers there can be.
Loggers == [prefix : Seq({"a", "b"}), min_level : Levels, parent : Nat, own : Levels]

\* The loggers from one up to the first that has no parent, or has a level of its own: the one's level.
Leads(way, n, logger) ==
  /\ way[1] = logger
  /\ \A i \in 1..(n - 1) : loggers[way[i]].own = -1 /\ loggers[way[i]].parent = way[i + 1]
  /\ loggers[way[n]].own # -1 \/ loggers[way[n]].parent = 0
  /\ loggers[way[n]].own = loggers[logger].min_level

\* There is such a path.
Inherits(logger) == \E n \in 1..Len(loggers) : \E way \in [1..n -> DOMAIN loggers] : Leads(way, n, logger)

\* A logger's level is that of the end of its path.
LogInv ==
  /\ loggers \in Seq(Loggers)
  /\ current_log_level \in Levels \cup {1}
  /\ \A logger \in DOMAIN loggers : Inherits(logger)

\* What is made after the others has a path of its own, or its parent's after it; theirs stay.
LEMMA MadeStep ==
  ASSUME LogInv, NEW made \in Loggers, loggers' = Append(loggers, made), current_log_level' = current_log_level,
         \/ made.own = made.min_level /\ (made.own # -1 \/ made.parent = 0)
         \/ /\ made.own = -1 /\ made.parent \in DOMAIN loggers
            /\ made.min_level = loggers[made.parent].min_level
  PROVE  LogInv'
<1>0. PICK k \in Nat : k = Len(loggers)
  BY DEF LogInv
<1>1. k = Len(loggers) /\ DOMAIN loggers = 1..k
  BY <1>0 DEF LogInv
<1>2. /\ loggers' \in Seq(Loggers) /\ Len(loggers') = k + 1 /\ DOMAIN loggers' = 1..(k + 1)
      /\ loggers'[k + 1] = made /\ \A i \in 1..k : loggers'[i] = loggers[i]
  BY <1>0 DEF LogInv
<1>3. ASSUME NEW logger \in 1..k PROVE Inherits(logger)'
  <2>1. PICK n \in 1..Len(loggers) : \E way \in [1..n -> DOMAIN loggers] : Leads(way, n, logger)
    BY <1>1 DEF LogInv, Inherits
  <2>2. PICK way \in [1..n -> DOMAIN loggers] : Leads(way, n, logger)
    BY <2>1
  <2>3. n \in 1..Len(loggers') /\ n \in 1..n /\ \A i \in 1..(n - 1) : i \in 1..n
    BY <1>1, <1>2
  <2>4. \A i \in 1..n : way[i] \in 1..k
    BY <1>1
  <2>5. way \in [1..n -> DOMAIN loggers']
    BY <1>1, <1>2, <2>4
  <2>6. \A i \in 1..n : loggers'[way[i]] = loggers[way[i]]
    BY <1>2, <2>4
  <2>7. loggers'[logger] = loggers[logger]
    BY <1>2
  <2>8. /\ way[1] = logger
        /\ \A i \in 1..(n - 1) : loggers'[way[i]].own = -1 /\ loggers'[way[i]].parent = way[i + 1]
        /\ loggers'[way[n]].own # -1 \/ loggers'[way[n]].parent = 0
        /\ loggers'[way[n]].own = loggers'[logger].min_level
    BY <2>2, <2>3, <2>6, <2>7 DEF Leads
  <2>9. QED
    BY <2>3, <2>5, <2>8 DEF Inherits, Leads
<1>4. Inherits(k + 1)'
  <2>1. CASE made.own = made.min_level /\ (made.own # -1 \/ made.parent = 0)
    <3>0. PICK way : way = [i \in 1..1 |-> k + 1]
      OBVIOUS
    <3>1. /\ 1 \in 1..Len(loggers') /\ way \in [1..1 -> DOMAIN loggers'] /\ way[1] = k + 1
          /\ \A i \in 1..(1 - 1) : FALSE
      BY <1>1, <1>2, <3>0
    <3>2. /\ way[1] = k + 1
          /\ \A i \in 1..(1 - 1) : loggers'[way[i]].own = -1 /\ loggers'[way[i]].parent = way[i + 1]
          /\ loggers'[way[1]].own # -1 \/ loggers'[way[1]].parent = 0
          /\ loggers'[way[1]].own = loggers'[k + 1].min_level
      BY <1>2, <2>1, <3>1
    <3>3. QED
      BY <3>1, <3>2 DEF Inherits, Leads
  <2>2. CASE /\ made.own = -1 /\ made.parent \in DOMAIN loggers
             /\ made.min_level = loggers[made.parent].min_level
    <3>0. PICK p : p = made.parent
      OBVIOUS
    <3>1. PICK n \in 1..Len(loggers) : \E way \in [1..n -> DOMAIN loggers] : Leads(way, n, p)
      BY <2>2, <3>0 DEF LogInv, Inherits
    <3>2. PICK way \in [1..n -> DOMAIN loggers] : Leads(way, n, p)
      BY <3>1
    <3>3. n \in Nat /\ n >= 1 /\ n <= k /\ n + 1 \in 1..Len(loggers')
      BY <1>1, <1>2
    <3>4. \A i \in 1..n : way[i] \in 1..k /\ loggers'[way[i]] = loggers[way[i]]
      BY <1>1, <1>2
    <3>12. PICK longer : longer = [i \in 1..(n + 1) |-> IF i = 1 THEN k + 1 ELSE way[i - 1]]
      OBVIOUS
    <3>5. /\ longer[1] = k + 1
          /\ \A i \in 2..(n + 1) : i - 1 \in 1..n /\ longer[i] = way[i - 1]
      BY <3>3, <3>12
    <3>6. longer \in [1..(n + 1) -> DOMAIN loggers']
      <4>1. \A i \in 1..(n + 1) : (IF i = 1 THEN k + 1 ELSE way[i - 1]) \in 1..(k + 1)
        <5>1. SUFFICES ASSUME NEW i \in 1..(n + 1), i # 1 PROVE way[i - 1] \in 1..(k + 1)
          BY <1>1
        <5>2. i - 1 \in 1..n
          BY <3>3, <5>1
        <5>3. way[i - 1] \in 1..k
          BY <3>4, <5>2
        <5>4. QED
          BY <1>1, <5>3
      <4>2. QED
        BY <1>2, <3>12, <4>1
    <3>7. longer[n + 1] = way[n]
      BY <3>3, <3>5
    <3>8. ASSUME NEW i \in 1..((n + 1) - 1)
          PROVE  loggers'[longer[i]].own = -1 /\ loggers'[longer[i]].parent = longer[i + 1]
      <4>1. CASE i = 1
        <5>0. 2 \in 2..(n + 1) /\ 2 - 1 = 1
          BY <3>3
        <5>1. longer[2] = way[1]
          BY <3>5, <5>0
        <5>2. QED
          BY <1>2, <2>2, <3>0, <3>2, <3>5, <4>1, <5>1 DEF Leads
      <4>2. CASE i # 1
        <5>1. i \in 2..(n + 1) /\ i + 1 \in 2..(n + 1) /\ i - 1 \in 1..(n - 1) /\ i - 1 \in 1..n /\ (i + 1) - 1 = i /\ (i - 1) + 1 = i
          BY <3>3, <4>2, SMTT(30)
        <5>2. longer[i] = way[i - 1] /\ longer[i + 1] = way[i]
          BY <3>5, <5>1
        <5>3. loggers[way[i - 1]].own = -1 /\ loggers[way[i - 1]].parent = way[i]
          BY <3>2, <5>1 DEF Leads
        <5>4. QED
          BY <3>4, <5>1, <5>2, <5>3
      <4>3. QED
        BY <4>1, <4>2
    <3>9. n \in 1..n
      BY <3>3
    <3>10. /\ loggers'[longer[n + 1]].own # -1 \/ loggers'[longer[n + 1]].parent = 0
           /\ loggers'[longer[n + 1]].own = loggers'[k + 1].min_level
      BY <1>2, <2>2, <3>0, <3>2, <3>4, <3>7, <3>9 DEF Leads
    <3>11. QED
      BY <3>3, <3>5, <3>6, <3>8, <3>10 DEF Inherits, Leads
  <2>3. QED
    BY <2>1, <2>2
<1>5. \A logger \in DOMAIN loggers' : logger \in 1..k \/ logger = k + 1
  BY <1>1, <1>2
<1>6. QED
  <2>1. \A logger \in DOMAIN loggers' : Inherits(logger)'
    BY <1>3, <1>4, <1>5
  <2>2. QED
    BY <1>2, <2>1 DEF LogInv

\* No logger, and the level INFO.
LEMMA LogInitInv == Log!LogInit => LogInv
<1> SUFFICES ASSUME Log!LogInit PROVE LogInv
  OBVIOUS
<1>1. loggers = <<>> /\ current_log_level = 1
  BY DEF Log!LogInit, Log!LogLevel
<1>2. loggers \in Seq(Loggers) /\ DOMAIN loggers = {}
  BY <1>1
<1>3. QED
  BY <1>1, <1>2 DEF LogInv

\* What is printed is what the path of the logger gives.
LEMMA PrintStep ==
  ASSUME LogInv, NEW level \in Levels, NEW logger \in 0..Len(loggers), Log!log_f(logger, level)
  PROVE  Log!PrintsAtItsLevel
<1> DEFINE min == IF logger = 0 THEN current_log_level ELSE Log!effective_level(logger)
<1>1. /\ logged' = [logger |-> logger, level |-> level, outcome |-> Log!Outcome(level, min)]
  BY DEF Log!log_f
<1>2. Len(loggers) \in Nat /\ DOMAIN loggers = 1..Len(loggers)
  BY DEF LogInv
<1>3. Log!LogLevel.USE_DEFAULT = -1 /\ Log!LogLevel.INFO = 1 /\ Log!LogLevel.DISABLED = 4
  BY DEF Log!LogLevel
<1>4. Log!Wants(logger, min) /\ min \in Levels \cup {1}
  <2>1. CASE logger = 0
    BY <2>1 DEF Log!Wants, LogInv
  <2>2. CASE logger # 0
    <3>1. logger \in DOMAIN loggers
      BY <1>2, <2>2
    <3>2. min = IF loggers[logger].min_level = -1 THEN current_log_level ELSE loggers[logger].min_level
      BY <1>3, <2>2 DEF Log!effective_level
    <3>3. loggers[logger] \in Loggers /\ loggers[logger].min_level \in Levels
      <4>1. loggers[logger] \in Loggers
        BY <3>1 DEF LogInv
      <4>2. QED
        BY <4>1 DEF Loggers
    <3>4. min \in Levels \cup {1}
      BY <3>2, <3>3 DEF LogInv
    <3>5. PICK n \in 1..Len(loggers) : \E way \in [1..n -> DOMAIN loggers] : Leads(way, n, logger)
      BY <3>1 DEF LogInv, Inherits
    <3>6. PICK way \in [1..n -> DOMAIN loggers] : Leads(way, n, logger)
      BY <3>5
    <3>7. Len(way) = n
      BY <1>2
    <3>8. way \in Log!Paths
      BY DEF Log!Paths
    <3>9. Log!IsPath(way, logger)
      BY <1>3, <3>6, <3>7 DEF Log!IsPath, Leads
    <3>10. Log!LevelOf(way) = min
      BY <1>3, <3>2, <3>6, <3>7 DEF Log!LevelOf, Leads
    <3> HIDE DEF min
    <3>11. QED
      BY <2>2, <3>4, <3>8, <3>9, <3>10 DEF Log!Wants
  <2>3. QED
    BY <2>1, <2>2
<1> HIDE DEF min
<1>5. level \in -1..4 /\ min \in -1..4
  BY <1>4, LevelsAssumption
<1>6. DOMAIN Log!log_level_chars = 1..4
  BY DEF Log!log_level_chars
<1>7. Log!Outcome(level, min) = IF level < min THEN "dropped" ELSE IF level + 1 \in 1..4 THEN "printed" ELSE "thrown"
  BY <1>6 DEF Log!Outcome
<1>8. /\ (Log!Outcome(level, min) = "dropped" <=> level < min)
      /\ (level = 4 => Log!Outcome(level, min) = "thrown")
      /\ (Log!Outcome(level, min) = "printed" => level \in 0..3)
  BY <1>5, <1>7
<1>9. logged'.logger = logger /\ logged'.level = level /\ logged'.outcome = Log!Outcome(level, min)
  BY <1>1
<1>10. QED
  BY <1>3, <1>4, <1>8, <1>9 DEF Log!PrintsAtItsLevel

\* One call, or none.
LEMMA LogNextInv ==
  ASSUME LogInv, [Log!LogNext]_logVars
  PROVE  LogInv' /\ [Log!PrintsAtItsLevel]_logVars
<1>7. ASSUME loggers' = loggers, current_log_level' \in Levels \cup {1} PROVE LogInv'
  <2>1. ASSUME NEW logger \in DOMAIN loggers' PROVE Inherits(logger)'
    <3>1. Inherits(logger)
      BY <1>7 DEF LogInv
    <3>2. QED
      BY <1>7, <3>1 DEF Inherits, Leads
  <2>2. loggers' \in Seq(Loggers)
    BY <1>7 DEF LogInv
  <2>3. QED
    BY <1>7, <2>1, <2>2 DEF LogInv
<1>8. current_log_level \in Levels \cup {1}
  BY DEF LogInv
<1>1. CASE UNCHANGED logVars
  BY <1>1, <1>7, <1>8 DEF logVars
<1>2. ASSUME NEW level \in Levels, Log!set_log_level(level) PROVE LogInv' /\ Log!PrintsAtItsLevel
  <2>1. loggers' = loggers /\ current_log_level' = level /\ logged' = logged
    BY <1>2 DEF Log!set_log_level
  <2>2. QED
    BY <1>7, <2>1 DEF Log!PrintsAtItsLevel
<1>3. ASSUME NEW level \in Levels, Log!PrefixedLogger("a", level) PROVE LogInv' /\ Log!PrintsAtItsLevel
  <2> DEFINE made == [prefix |-> <<"a">>, min_level |-> level, parent |-> 0, own |-> level]
  <2>1. <<"a">> \in Seq({"a", "b"}) /\ 0 \in Nat
    OBVIOUS
  <2>2. made \in Loggers /\ made.own = made.min_level /\ made.parent = 0
    BY <2>1 DEF Loggers
  <2>3. loggers' = Append(loggers, made) /\ current_log_level' = current_log_level /\ logged' = logged
    BY <1>3 DEF Log!PrefixedLogger
  <2> HIDE DEF made
  <2>4. QED
    BY <2>2, <2>3, MadeStep DEF Log!PrintsAtItsLevel
<1>4. ASSUME NEW level \in Levels, NEW logger \in DOMAIN loggers, Log!sub(logger, "b", level)
      PROVE  LogInv' /\ Log!PrintsAtItsLevel
  <2> DEFINE prefix == Append(loggers[logger].prefix, "b")
  <2> DEFINE min == IF level = -1 THEN loggers[logger].min_level ELSE level
  <2> DEFINE made == [prefix |-> prefix, min_level |-> min, parent |-> logger, own |-> level]
  <2>1. Log!LogLevel.USE_DEFAULT = -1
    BY DEF Log!LogLevel
  <2>2. loggers[logger] \in Loggers /\ logger \in Nat
    BY DEF LogInv
  <2>3. loggers[logger].prefix \in Seq({"a", "b"}) /\ loggers[logger].min_level \in Levels
    BY <2>2 DEF Loggers
  <2>4. prefix \in Seq({"a", "b"}) /\ min \in Levels
    BY <2>3
  <2>5. loggers' = Append(loggers, made) /\ current_log_level' = current_log_level /\ logged' = logged
    BY <1>4, <2>1 DEF Log!sub
  <2> HIDE DEF prefix
  <2>6. made \in Loggers
    BY <2>2, <2>4 DEF Loggers
  <2>7. \/ made.own = made.min_level /\ made.own # -1
        \/ made.own = -1 /\ made.parent \in DOMAIN loggers /\ made.min_level = loggers[made.parent].min_level
    OBVIOUS
  <2> HIDE DEF made
  <2>8. QED
    BY <2>5, <2>6, <2>7, MadeStep DEF Log!PrintsAtItsLevel
<1>5. ASSUME NEW level \in Levels, NEW logger \in 0..Len(loggers), Log!log_f(logger, level)
      PROVE  LogInv' /\ Log!PrintsAtItsLevel
  <2>1. LogInv'
    BY <1>5, <1>7, <1>8 DEF Log!log_f
  <2>2. QED
    BY <1>5, <2>1, PrintStep
<1>6. QED
  BY <1>1, <1>2, <1>3, <1>4, <1>5 DEF Log!LogNext

(* However loggers are made from each other and the program's level is set: a message gets through    *)
(* exactly when it has the level of the nearest ancestor with one of its own (Strings.cc, Strings.hh). *)
THEOREM LogLevels == Log!LogSpec => FollowsItsParents
<1>1. FollowsItsParents <=> [][Log!PrintsAtItsLevel]_logVars
  BY DEF FollowsItsParents, Log!FollowsItsParents, Log!logVars, logVars
<1>2. LogInv /\ [Log!LogNext]_logVars => LogInv' /\ [Log!PrintsAtItsLevel]_logVars
  BY LogNextInv
<1>3. QED
  BY LogInitInv, <1>1, <1>2, PTL DEF Log!LogSpec, Log!logVars, logVars

\* StringReader.

\* A reader is a part of memory and a place in it; the place is a size_t.
StringReaders == {r \in [base : Nat, length : Nat, offset : Nat] : r.offset < SizeLimit}

\* Until a sum has wrapped, the reader is a part of the data.
ReaderInv ==
  /\ reader \in StringReaders
  /\ wrapped \in BOOLEAN
  /\ ~wrapped => reader.base + reader.length <= Len(Data)
  /\ Reading!Bounds

\* The calls that hand out no bytes of the reader, and those that hand them out and may move it.
Quiet == {"go", "truncate", "skip", "sub", "subx", "sub_bits", "subx_bits"}
Handing == {"read", "readx", "readx_buffer", "get"}
\* What each call has to show.
Good == ReaderInv' /\ Reading!MovesPastThem /\ Reading!ThrowsPastTheEnd

\* One addition or subtraction of size_t values wraps once.
LEMMA Modulo ==
  ASSUME NEW x \in Nat, NEW y \in Nat, NEW m \in Nat, x < m, y < m
  PROVE  /\ x % m = x
         /\ (x + y) % m = IF x + y < m THEN x + y ELSE x + y - m
         /\ (x - y) % m = IF x >= y THEN x - y ELSE x - y + m
OBVIOUS

\* A value that fits is its own remainder.
LEMMA ModuloLess ==
  ASSUME NEW x \in Nat, NEW y \in Nat, NEW m \in Nat, x < m, y <= x
  PROVE  (x - y) % m = x - y
OBVIOUS

\* Subtracting what was added gives back the value.
LEMMA ModuloBack ==
  ASSUME NEW x \in Nat, NEW y \in Nat, NEW m \in Nat, x < m, y < m
  PROVE  (((x + y) % m) - x) % m = y
<1>1. CASE x + y < m
  <2>1. (x + y) % m = x + y
    BY <1>1, Modulo
  <2>2. (x + y) - x = y /\ y % m = y
    BY Modulo
  <2>3. QED
    BY <2>1, <2>2
<1>2. CASE x + y >= m
  <2>1. (x + y) % m = x + y - m /\ x + y - m \in Nat /\ x + y - m < m
    BY <1>2, Modulo
  <2> DEFINE z == x + y - m
  <2>2. z \in Nat /\ z < m /\ z < x /\ z - x + m = y
    BY <1>2, <2>1
  <2> HIDE DEF z
  <2>3. (z - x) % m = z - x + m
    BY <2>2, Modulo
  <2>4. QED
    BY <2>1, <2>2, <2>3 DEF z
<1>3. QED
  BY <1>1, <1>2

\* Plus is the sum, or the sum less the limit.
LEMMA Sums ==
  ASSUME NEW x \in Nat, NEW y \in Nat
  PROVE  /\ Reading!Plus(x, y) \in 0..(SizeLimit - 1)
         /\ x + y < SizeLimit => Reading!Plus(x, y) = x + y
BY DataAssumption DEF Reading!Plus

\* The bytes of a window are bytes of the data, and Outside where it leaves the data.
LEMMA Windows ==
  ASSUME reader \in StringReaders, NEW from \in Nat, NEW size \in Nat
  PROVE  /\ Len(Reading!Window(from, size)) = size
         /\ DOMAIN Reading!Window(from, size) = 1..size
         /\ reader.base + from + size <= Len(Data) => \A i \in 1..size : Reading!Window(from, size)[i] \in Byte
<1> DEFINE w == [i \in 1..size |-> LET p == reader.base + from + i IN IF p <= Len(Data) THEN Data[p] ELSE Outside]
<1>1. Reading!Window(from, size) = w
  BY DEF Reading!Window
<1>2. reader.base \in Nat /\ Len(Data) \in Nat /\ \A p \in 1..Len(Data) : Data[p] \in Byte
  BY DataAssumption DEF StringReaders
<1>3. Len(w) = size /\ DOMAIN w = 1..size
  OBVIOUS
<1>4. ASSUME reader.base + from + size <= Len(Data), NEW i \in 1..size PROVE w[i] \in Byte
  <2>1. reader.base + from + i \in 1..Len(Data)
    BY <1>2, <1>4
  <2>2. w[i] = Data[reader.base + from + i]
    BY <2>1
  <2>3. QED
    BY <1>2, <2>1, <2>2
<1> HIDE DEF w
<1>5. QED
  BY <1>1, <1>3, <1>4

\* The end of a call: the next reader stays inside the data, and nothing from outside is handed out, if no sum has wrapped.
LEMMA CallStep ==
  ASSUME ReaderInv, ~wrapped,
         NEW op, NEW from \in Nat, NEW size \in Nat, NEW ok \in BOOLEAN, NEW val, NEW next \in StringReaders,
         call' = [op |-> op, at |-> from, size |-> size, ok |-> ok, val |-> val],
         reader' = next,
         wrapped' = (wrapped \/ from + size >= SizeLimit),
         from + size < SizeLimit => next.base + next.length <= Len(Data),
         from + size < SizeLimit => \A i \in DOMAIN val : val[i] \in Byte
  PROVE  ReaderInv'
<1>1. ~wrapped' => from + size < SizeLimit
  <2>1. ~wrapped' => ~(from + size >= SizeLimit)
    OBVIOUS
  <2>2. SizeLimit \in Nat
    BY DataAssumption
  <2>3. QED
    BY <2>1, <2>2
<1>2. wrapped' \in BOOLEAN
  OBVIOUS
<1>3. call'.val = val
  OBVIOUS
<1>4. (~wrapped => \A i \in DOMAIN call.val : call.val[i] # Outside)'
  BY <1>1, <1>3, DataAssumption
<1>5. Reading!Bounds'
  BY <1>4 DEF Reading!Bounds
<1>6. QED
  BY <1>1, <1>2, <1>5 DEF ReaderInv

\* What is known of the reader before a call.
LEMMA Starts ==
  ASSUME ReaderInv, ~wrapped
  PROVE  /\ reader \in StringReaders
         /\ reader.base \in Nat /\ reader.length \in Nat /\ reader.offset \in Nat
         /\ reader.offset < SizeLimit /\ SizeLimit \in Nat
         /\ reader.base + reader.length <= Len(Data) /\ Len(Data) \in Nat /\ Len(Data) + 1 < SizeLimit
<1>1. reader \in [base : Nat, length : Nat, offset : Nat] /\ reader.offset < SizeLimit
  BY DEF ReaderInv, StringReaders
<1>2. reader.base \in Nat /\ reader.length \in Nat /\ reader.offset \in Nat
  BY <1>1
<1>3. SizeLimit \in Nat /\ Len(Data) \in Nat /\ Len(Data) + 1 < SizeLimit
  BY DataAssumption
<1>4. QED
  BY <1>1, <1>2, <1>3 DEF ReaderInv

\* What a call that hands out bytes has to show.
LEMMA Moves ==
  ASSUME ReaderInv, ~wrapped, NEW n \in Nat
  PROVE  /\ Reading!Moved(n) \in StringReaders
         /\ Reading!Moved(n).base = reader.base /\ Reading!Moved(n).length = reader.length
         /\ Reading!Moved(n).offset = Reading!Plus(reader.offset, n)
<1>1. Reading!Plus(reader.offset, n) \in 0..(SizeLimit - 1)
  BY Starts, Sums
<1>2. reader = [base |-> reader.base, length |-> reader.length, offset |-> reader.offset]
  BY DEF ReaderInv, StringReaders
<1>3. Reading!Moved(n) = [base |-> reader.base, length |-> reader.length, offset |-> Reading!Plus(reader.offset, n)]
  BY <1>2 DEF Reading!Moved
<1>4. QED
  BY <1>1, <1>3, Starts DEF StringReaders

\* A call that neither hands out bytes of the reader and moves it, nor is skip_if.
LEMMA QuietStep ==
  ASSUME call'.op \in Quiet, ReaderInv'
  PROVE  Good
BY DEF Good, Quiet, Reading!MovesPastThem, Reading!ThrowsPastTheEnd

\* A call that throws leaves the reader alone.
LEMMA ThrowStep ==
  ASSUME ReaderInv, ~wrapped, NEW op, op # "skip_if", NEW from \in Nat, NEW size \in Nat, Reading!Throw(op, from, size, reader)
  PROVE  Good
<1>1. /\ call' = [op |-> op, at |-> from, size |-> size, ok |-> FALSE, val |-> <<>>]
      /\ reader' = reader
      /\ wrapped' = (wrapped \/ from + size >= SizeLimit)
  BY DEF Reading!Throw
<1>2. \A i \in DOMAIN <<>> : <<>>[i] \in Byte
  OBVIOUS
<1>3. ReaderInv'
  BY <1>1, <1>2, Starts, CallStep
<1>4. QED
  BY <1>1, <1>3 DEF Good, Reading!MovesPastThem, Reading!ThrowsPastTheEnd

\* The reader is somewhere else, or another: nothing is handed out.
LEMMA ElsewhereStep ==
  ASSUME ReaderInv, ~wrapped, NEW op \in Quiet, NEW from \in Nat, NEW size \in Nat, NEW next \in StringReaders,
         Reading!Return(op, from, size, <<>>, next) \/ Reading!Throw(op, from, size, next),
         from + size < SizeLimit => next.base + next.length <= Len(Data)
  PROVE  Good
<1>1. PICK ok \in BOOLEAN :
        /\ call' = [op |-> op, at |-> from, size |-> size, ok |-> ok, val |-> <<>>]
        /\ reader' = next
        /\ wrapped' = (wrapped \/ from + size >= SizeLimit)
  BY DEF Reading!Throw, Reading!Return
<1>2. \A i \in DOMAIN <<>> : <<>>[i] \in Byte
  OBVIOUS
<1>3. ReaderInv'
  BY <1>1, <1>2, CallStep
<1>4. call'.op \in Quiet
  BY <1>1
<1>5. QED
  BY <1>3, <1>4, QuietStep

\* A call that hands out the bytes val from the reader's place, and may move the reader past them.
LEMMA HandStep ==
  ASSUME ReaderInv, ~wrapped, NEW op \in Handing, NEW n \in Nat, NEW val, NEW advance \in BOOLEAN,
         Len(val) \in Nat, Len(val) < SizeLimit,
         Reading!Return(op, reader.offset, n, val, IF advance THEN Reading!Moved(Len(val)) ELSE reader),
         reader.offset + n < SizeLimit => \A i \in DOMAIN val : val[i] \in Byte,
         reader.offset + n < SizeLimit /\ Len(val) # 0 => reader.offset + Len(val) <= reader.length
  PROVE  Good
<1> DEFINE next == IF advance THEN Reading!Moved(Len(val)) ELSE reader
<1>1. /\ call' = [op |-> op, at |-> reader.offset, size |-> n, ok |-> TRUE, val |-> val]
      /\ reader' = next
      /\ wrapped' = (wrapped \/ reader.offset + n >= SizeLimit)
  BY DEF Reading!Return
<1>2. next \in StringReaders /\ next.base = reader.base /\ next.length = reader.length
  BY Starts, Moves
<1>3. next.base + next.length <= Len(Data)
  BY <1>2, Starts
<1> HIDE DEF next
<1>4. ReaderInv'
  BY <1>1, <1>2, <1>3, Starts, CallStep
<1>5. call'.op = op /\ call'.val = val
  BY <1>1
<1>6. ASSUME reader' # reader
      PROVE  /\ (reader'.offset - reader.offset) % SizeLimit = Len(val)
             /\ ~wrapped' => reader'.offset <= reader.length
  <2>1. reader'.offset = (reader.offset + Len(val)) % SizeLimit
    BY <1>1, <1>6, Moves DEF next, Reading!Plus
  <2>2. reader' = [reader EXCEPT !.offset = (reader.offset + Len(val)) % SizeLimit]
    BY <1>1, <1>6 DEF next, Reading!Moved, Reading!Plus
  <2>3. Len(val) # 0
    BY <1>6, <2>2, Starts, Modulo DEF StringReaders
  <2>4. (reader'.offset - reader.offset) % SizeLimit = Len(val)
    <3>1. (((reader.offset + Len(val)) % SizeLimit) - reader.offset) % SizeLimit = Len(val)
      BY Starts, ModuloBack
    <3>2. QED
      BY <2>1, <3>1
  <2>5. ASSUME ~wrapped' PROVE reader'.offset <= reader.length
    <3>1. ~(reader.offset + n >= SizeLimit)
      BY <1>1, <2>5
    <3>2. reader.offset + Len(val) <= reader.length
      BY <2>3, <3>1, Starts
    <3>3. reader.offset + Len(val) < SizeLimit
      BY <3>2, Starts
    <3>4. reader'.offset = reader.offset + Len(val)
      BY <2>1, <3>3, Starts, Modulo
    <3>5. QED
      BY <3>2, <3>4, Starts
  <2>6. QED
    BY <2>4, <2>5
<1>7. call'.op \notin {"get_line", "get_cstr", "skip_if"}
  BY <1>5 DEF Handing
<1>8. Reading!MovesPastThem
  BY <1>5, <1>6, <1>7, Starts DEF Reading!MovesPastThem
<1>9. Reading!ThrowsPastTheEnd
  BY <1>7 DEF Reading!ThrowsPastTheEnd
<1>10. QED
  BY <1>4, <1>8, <1>9 DEF Good

\* get_line and get_cstr: the reader goes past the text and the byte that ends it.
LEMMA TextStep ==
  ASSUME ReaderInv, ~wrapped, NEW op \in {"get_line", "get_cstr"}, NEW n \in Nat, NEW val, NEW advance \in BOOLEAN,
         Reading!Return(op, reader.offset, n, val, IF advance THEN Reading!Moved(n + 1) ELSE reader),
         \A i \in DOMAIN val : val[i] \in Byte,
         reader.offset + n <= reader.length,
         op = "get_cstr" => reader.offset + n < reader.length
  PROVE  Good
<1> DEFINE next == IF advance THEN Reading!Moved(n + 1) ELSE reader
<1>1. /\ call' = [op |-> op, at |-> reader.offset, size |-> n, ok |-> TRUE, val |-> val]
      /\ reader' = next
      /\ wrapped' = (wrapped \/ reader.offset + n >= SizeLimit)
  BY DEF Reading!Return
<1>2. next \in StringReaders /\ next.base = reader.base /\ next.length = reader.length
  BY Starts, Moves
<1>3. next.base + next.length <= Len(Data)
  BY <1>2, Starts
<1> HIDE DEF next
<1>4. ReaderInv'
  BY <1>1, <1>2, <1>3, Starts, CallStep
<1>5. call'.op = op /\ call'.size = n
  BY <1>1
<1>6. n + 1 \in Nat /\ n + 1 < SizeLimit /\ reader.offset + (n + 1) < SizeLimit
  BY Starts
<1>7. ASSUME reader' # reader
      PROVE  /\ (reader'.offset - reader.offset) % SizeLimit = n + 1
             /\ reader'.offset <= reader.length + (IF op = "get_line" THEN 1 ELSE 0)
  <2>1. reader'.offset = (reader.offset + (n + 1)) % SizeLimit
    BY <1>1, <1>6, <1>7, Moves DEF next, Reading!Plus
  <2>2. reader'.offset = reader.offset + (n + 1)
    BY <1>6, <2>1, Starts, Modulo
  <2>3. (reader'.offset - reader.offset) % SizeLimit = n + 1
    <3>1. (((reader.offset + (n + 1)) % SizeLimit) - reader.offset) % SizeLimit = n + 1
      BY <1>6, Starts, ModuloBack
    <3>2. QED
      BY <2>1, <3>1
  <2>4. reader'.offset <= reader.length + (IF op = "get_line" THEN 1 ELSE 0)
    BY <2>2, Starts
  <2>5. QED
    BY <2>3, <2>4
<1>8. Reading!MovesPastThem
  BY <1>5, <1>7 DEF Reading!MovesPastThem
<1>9. Reading!ThrowsPastTheEnd
  BY <1>5 DEF Reading!ThrowsPastTheEnd
<1>10. QED
  BY <1>4, <1>8, <1>9 DEF Good

\* What a call may ask for is a size_t.
LEMMA Arguments == \A n \in Sizes : n \in Nat /\ n < SizeLimit
BY DataAssumption

\* The bytes of a window that ends inside the reader.
LEMMA Inside ==
  ASSUME ReaderInv, ~wrapped, NEW from \in Nat, NEW size \in Nat, from + size <= reader.length
  PROVE  /\ Len(Reading!Window(from, size)) = size
         /\ \A i \in DOMAIN Reading!Window(from, size) : Reading!Window(from, size)[i] \in Byte
<1>1. reader.base + from + size <= Len(Data)
  BY Starts
<1>2. QED
  BY <1>1, Starts, Windows

\* --- the calls that move the reader or replace it ---

LEMMA Skips ==
  ASSUME ReaderInv, ~wrapped, NEW n \in Sizes,
         Reading!go(n) \/ Reading!truncate(n) \/ Reading!skip(n)
  PROVE  Good
<1>1. n \in Nat /\ n < SizeLimit
  BY Arguments
<1>2. reader = [base |-> reader.base, length |-> reader.length, offset |-> reader.offset]
  BY Starts DEF StringReaders
<1>3. ASSUME Reading!go(n) PROVE Good
  <2> DEFINE next == [reader EXCEPT !.offset = n]
  <2>1. next = [base |-> reader.base, length |-> reader.length, offset |-> n]
    BY <1>2
  <2>2. next \in StringReaders /\ next.base + next.length <= Len(Data)
    BY <1>1, <2>1, Starts DEF StringReaders
  <2>3. Reading!Return("go", n, 0, <<>>, next)
    BY <1>3 DEF Reading!go
  <2> HIDE DEF next
  <2>4. QED
    BY <1>1, <2>2, <2>3, ElsewhereStep DEF Quiet
<1>4. ASSUME Reading!truncate(n) PROVE Good
  <2>1. CASE Reading!Throw("truncate", 0, n, reader)
    BY <1>1, <2>1, ThrowStep
  <2>2. CASE reader.length >= n /\ Reading!Return("truncate", 0, n, <<>>, [reader EXCEPT !.length = n])
    <3> DEFINE next == [reader EXCEPT !.length = n]
    <3>1. next = [base |-> reader.base, length |-> n, offset |-> reader.offset]
      BY <1>2
    <3>2. next \in StringReaders /\ next.base + next.length <= Len(Data)
      BY <1>1, <2>2, <3>1, Starts DEF StringReaders
    <3> HIDE DEF next
    <3>3. Reading!Return("truncate", 0, n, <<>>, next)
      BY <2>2 DEF next
    <3>4. QED
      BY <1>1, <3>2, <3>3, ElsewhereStep DEF Quiet
  <2>3. QED
    BY <1>4, <2>1, <2>2 DEF Reading!truncate
<1>5. ASSUME Reading!skip(n) PROVE Good
  <2> DEFINE past == [reader EXCEPT !.offset = reader.length]
  <2>1. past = [base |-> reader.base, length |-> reader.length, offset |-> reader.length]
    BY <1>2
  <2>2. past \in StringReaders /\ past.base + past.length <= Len(Data)
    BY <2>1, Starts DEF StringReaders
  <2>3. Reading!Moved(n) \in StringReaders /\ Reading!Moved(n).base + Reading!Moved(n).length <= Len(Data)
    BY <1>1, Starts, Moves
  <2>4. \/ Reading!Throw("skip", reader.offset, n, past)
        \/ Reading!Return("skip", reader.offset, n, <<>>, Reading!Moved(n))
    BY <1>5 DEF Reading!skip
  <2> HIDE DEF past
  <2>5. QED
    BY <1>1, <2>2, <2>3, <2>4, Starts, ElsewhereStep DEF Quiet
<1>6. QED
  BY <1>3, <1>4, <1>5

\* A reader of a part of the window, or an empty one.
LEMMA SubStep ==
  ASSUME ReaderInv, ~wrapped, NEW op \in Quiet, NEW from \in Nat, NEW size \in Nat, from < SizeLimit, size < SizeLimit,
         \/ Reading!Sub(op, from, size) /\ (from + size < SizeLimit => from + size <= reader.length)
         \/ Reading!Empty(op, from, size)
  PROVE  Good
<1>1. /\ Reading!StringReader(0, 0) \in StringReaders
      /\ Reading!StringReader(0, 0).base + Reading!StringReader(0, 0).length <= Len(Data)
  BY Starts DEF Reading!StringReader, StringReaders
<1>2. CASE Reading!Empty(op, from, size)
  BY <1>1, <1>2, ElsewhereStep DEF Reading!Empty
<1>3. CASE Reading!Sub(op, from, size) /\ (from + size < SizeLimit => from + size <= reader.length)
  <2> DEFINE next == Reading!StringReader(reader.base + from, size)
  <2> DEFINE base == Reading!Plus(reader.base, from)
  <2>1. base \in 0..(SizeLimit - 1) /\ (reader.base + from < SizeLimit => base = reader.base + from)
    BY Starts, Sums
  <2>2. size % SizeLimit = size
    BY Starts, Modulo
  <2>3. next = [base |-> base, length |-> size, offset |-> 0]
    BY <2>2 DEF Reading!StringReader, Reading!Plus
  <2> HIDE DEF base
  <2>4. next \in StringReaders /\ next.base = base /\ next.length = size
    <3>1. base \in Nat /\ 0 < SizeLimit
      BY <2>1, Starts
    <3>2. [base |-> base, length |-> size, offset |-> 0] \in StringReaders
      BY <3>1 DEF StringReaders
    <3>3. QED
      BY <2>3, <3>2
  <2>5. ASSUME from + size < SizeLimit PROVE next.base + next.length <= Len(Data)
    <3>1. reader.base + from + size <= Len(Data)
      BY <1>3, <2>5, Starts
    <3>2. base = reader.base + from
      BY <2>1, <3>1, Starts
    <3>3. QED
      BY <2>4, <3>1, <3>2
  <2>6. Reading!Return(op, from, size, <<>>, next)
    BY <1>3 DEF Reading!Sub
  <2> HIDE DEF next
  <2>7. QED
    BY <2>4, <2>5, <2>6, ElsewhereStep
<1>4. QED
  BY <1>2, <1>3

\* What an offset and a size add up to, when they do.
LEMMA Added ==
  ASSUME NEW from \in Nat, NEW size \in Nat
  PROVE  from + size < SizeLimit => Reading!Plus(from, size) = from + size
BY Sums

\* sub and subx to the end.
LEMMA Subs ==
  ASSUME ReaderInv, ~wrapped, NEW from \in Sizes,
         Reading!sub(from) \/ Reading!subx(from)
  PROVE  Good
<1>1. from \in Nat /\ from < SizeLimit /\ 0 \in Nat /\ 0 < SizeLimit
  BY Arguments, Starts
<1>2. from <= reader.length => reader.length - from \in Nat /\ reader.length - from < SizeLimit /\ from + (reader.length - from) <= reader.length
  BY <1>1, Starts, SMTT(30)
<1>3. ASSUME Reading!sub(from) PROVE Good
  BY <1>1, <1>2, <1>3, SubStep DEF Reading!sub, Quiet
<1>4. ASSUME Reading!subx(from) PROVE Good
  BY <1>1, <1>2, <1>4, SubStep, ThrowStep DEF Reading!subx, Quiet
<1>5. QED
  BY <1>3, <1>4

\* sub and subx of a size.
LEMMA SizedSubs ==
  ASSUME ReaderInv, ~wrapped, NEW from \in Sizes, NEW size \in Sizes,
         Reading!sub_sized(from, size) \/ Reading!subx_sized(from, size)
  PROVE  Good
<1>1. /\ from \in Nat /\ from < SizeLimit /\ 0 \in Nat /\ 0 < SizeLimit
      /\ size \in Nat /\ size < SizeLimit
  BY Arguments, Starts
<1>2. from < reader.length => reader.length - from \in Nat /\ reader.length - from < SizeLimit /\ from + (reader.length - from) <= reader.length
  BY <1>1, Starts
<1>3. Reading!Plus(from, size) <= reader.length => (from + size < SizeLimit => from + size <= reader.length)
  BY <1>1, Added
<1>4. ASSUME Reading!sub_sized(from, size) PROVE Good
  BY <1>1, <1>2, <1>3, <1>4, SubStep DEF Reading!sub_sized, Quiet
<1>5. ASSUME Reading!subx_sized(from, size) PROVE Good
  BY <1>1, <1>3, <1>5, SubStep, ThrowStep DEF Reading!subx_sized, Quiet
<1>6. QED
  BY <1>4, <1>5

\* --- the calls that hand out bytes ---

\* sub_bits and its relatives, which make a BitReader.
LEMMA BitsStep ==
  ASSUME ReaderInv, ~wrapped, NEW op \in {"sub_bits", "subx_bits"}, NEW from \in Nat, NEW size \in Nat, NEW n \in Nat,
         Reading!Return(op, from, size, Reading!Window(from, n), reader),
         from + size < SizeLimit => n = 0 \/ from + n <= reader.length
  PROVE  Good
<1> DEFINE val == Reading!Window(from, n)
<1>1. /\ call' = [op |-> op, at |-> from, size |-> size, ok |-> TRUE, val |-> val]
      /\ reader' = reader
      /\ wrapped' = (wrapped \/ from + size >= SizeLimit)
  BY DEF Reading!Return
<1>2. n = 0 => \A i \in DOMAIN val : val[i] \in Byte
  BY Starts, Windows
<1>3. from + n <= reader.length => \A i \in DOMAIN val : val[i] \in Byte
  BY Inside
<1> HIDE DEF val
<1>4. ReaderInv'
  BY <1>1, <1>2, <1>3, Starts, CallStep
<1>5. call'.op \in Quiet
  BY <1>1 DEF Quiet
<1>6. QED
  BY <1>4, <1>5, QuietStep

\* sub_bits and subx_bits, with a size or without.
LEMMA SubBits ==
  ASSUME ReaderInv, ~wrapped, NEW from \in Sizes, NEW size \in Sizes,
         \/ Reading!sub_bits(from) \/ Reading!subx_bits(from)
         \/ Reading!sub_bits_sized(from, size) \/ Reading!subx_bits_sized(from, size)
  PROVE  Good
<1>1. from \in Nat /\ size \in Nat /\ 0 \in Nat
  BY Arguments
<1>2. from <= reader.length => reader.length - from \in Nat /\ from + (reader.length - from) <= reader.length
  BY <1>1, Starts
<1>3. Reading!Plus(from, size) <= reader.length => (from + size < SizeLimit => from + size <= reader.length)
  BY <1>1, Added
<1>4. ASSUME Reading!sub_bits(from) PROVE Good
  <2> DEFINE n == IF from > reader.length THEN 0 ELSE reader.length - from
  <2>1. Reading!Return("sub_bits", from, n, Reading!Window(from, n), reader)
    BY <1>4 DEF Reading!sub_bits
  <2>2. n \in Nat /\ (n = 0 \/ from + n <= reader.length)
    BY <1>1, <1>2, Starts
  <2> HIDE DEF n
  <2>3. QED
    BY <1>1, <2>1, <2>2, BitsStep
<1>5. ASSUME Reading!subx_bits(from) PROVE Good
  <2>1. CASE from > reader.length /\ Reading!Throw("subx_bits", from, 0, reader)
    BY <1>1, <2>1, ThrowStep
  <2>2. CASE from <= reader.length /\ Reading!Return("subx_bits", from, reader.length - from, Reading!Window(from, reader.length - from), reader)
    BY <1>1, <1>2, <2>2, BitsStep
  <2>3. QED
    BY <1>5, <2>1, <2>2 DEF Reading!subx_bits
<1>6. ASSUME Reading!sub_bits_sized(from, size) PROVE Good
  <2> DEFINE n == IF from >= reader.length THEN 0 ELSE IF Reading!Plus(from, size) > reader.length THEN reader.length - from ELSE size
  <2>1. Reading!Return("sub_bits", from, size, Reading!Window(from, n), reader)
    BY <1>6 DEF Reading!sub_bits_sized
  <2>2. n \in Nat /\ (from + size < SizeLimit => n = 0 \/ from + n <= reader.length)
    <3>1. Reading!Plus(from, size) \in 0..(SizeLimit - 1) /\ (from + size < SizeLimit => Reading!Plus(from, size) = from + size)
      BY <1>1, Sums
    <3>2. QED
      BY <1>1, <3>1, Starts, SMTT(30)
  <2> HIDE DEF n
  <2>3. QED
    BY <1>1, <2>1, <2>2, BitsStep
<1>7. ASSUME Reading!subx_bits_sized(from, size) PROVE Good
  <2>1. CASE Reading!Throw("subx_bits", from, size, reader)
    BY <1>1, <2>1, ThrowStep
  <2>2. CASE Reading!Plus(from, size) <= reader.length /\ Reading!Return("subx_bits", from, size, Reading!Window(from, size), reader)
    BY <1>1, <1>3, <2>2, BitsStep
  <2>3. QED
    BY <1>7, <2>1, <2>2 DEF Reading!subx_bits_sized
<1>8. QED
  BY <1>4, <1>5, <1>6, <1>7

\* pread gives as many bytes as there are.
LEMMA Preads ==
  ASSUME ReaderInv, ~wrapped, NEW from \in Nat, NEW n \in Nat, n < SizeLimit
  PROVE  /\ Len(Reading!pread(from, n)) \in Nat /\ Len(Reading!pread(from, n)) < SizeLimit
         /\ from + n < SizeLimit => \A i \in DOMAIN Reading!pread(from, n) : Reading!pread(from, n)[i] \in Byte
         /\ from + n < SizeLimit /\ Len(Reading!pread(from, n)) # 0 => from + Len(Reading!pread(from, n)) <= reader.length
<1> DEFINE m == IF Reading!Plus(from, n) > reader.length THEN reader.length - from ELSE n
<1>1. CASE from >= reader.length
  <2>1. Reading!pread(from, n) = <<>>
    BY <1>1 DEF Reading!pread
  <2>2. Len(<<>>) = 0 /\ \A i \in DOMAIN <<>> : <<>>[i] \in Byte
    OBVIOUS
  <2>3. QED
    BY <2>1, <2>2, Starts
<1>2. CASE from < reader.length
  <2>1. Reading!pread(from, n) = Reading!Window(from, m)
    BY <1>2, Starts DEF Reading!pread
  <2>2. m \in Nat /\ m < SizeLimit /\ (from + n < SizeLimit => from + m <= reader.length)
    <3>1. Reading!Plus(from, n) \in 0..(SizeLimit - 1) /\ (from + n < SizeLimit => Reading!Plus(from, n) = from + n)
      BY Sums
    <3>2. QED
      BY <1>2, <3>1, Starts, SMTT(30)
  <2> HIDE DEF m
  <2>3. Len(Reading!Window(from, m)) = m
    BY <2>2, Starts, Windows
  <2>4. QED
    BY <2>1, <2>2, <2>3, Inside
<1>3. QED
  BY <1>1, <1>2, Starts

\* read and readx.
LEMMA Reads ==
  ASSUME ReaderInv, ~wrapped, NEW n \in Sizes, NEW advance \in BOOLEAN,
         \/ Reading!read(n, advance) \/ Reading!readx(n, advance)
         \/ Reading!readx_buffer(n, advance) \/ Reading!get(n, advance)
  PROVE  Good
<1> DEFINE from == reader.offset
<1> DEFINE w == Reading!Window(from, n)
<1>1. n \in Nat /\ n < SizeLimit /\ from \in Nat /\ from < SizeLimit
  BY Arguments, Starts
<1>2. Reading!Plus(from, n) <= reader.length => (from + n < SizeLimit => from + n <= reader.length)
  BY <1>1, Added
<1>3. Len(w) = n
  BY <1>1, Starts, Windows
<1>4. ASSUME Reading!read(n, advance) PROVE Good
  <2> DEFINE val == Reading!pread(from, n)
  <2>1. Reading!Return("read", from, n, val, IF advance THEN Reading!Moved(Len(val)) ELSE reader)
    BY <1>4 DEF Reading!read
  <2>2. /\ Len(val) \in Nat /\ Len(val) < SizeLimit
        /\ from + n < SizeLimit => \A i \in DOMAIN val : val[i] \in Byte
        /\ from + n < SizeLimit /\ Len(val) # 0 => from + Len(val) <= reader.length
    BY <1>1, Preads
  <2> HIDE DEF val
  <2>3. QED
    BY <1>1, <2>1, <2>2, HandStep DEF Handing
<1>5. ASSUME NEW op \in Handing, Reading!Plus(from, n) <= reader.length,
             Reading!Return(op, from, n, w, IF advance THEN Reading!Moved(n) ELSE reader)
      PROVE  Good
  <2>1. from + n < SizeLimit => \A i \in DOMAIN w : w[i] \in Byte
    BY <1>1, <1>2, <1>5, Inside
  <2>2. Reading!Return(op, from, n, w, IF advance THEN Reading!Moved(Len(w)) ELSE reader)
    BY <1>3, <1>5
  <2> HIDE DEF w
  <2>3. QED
    BY <1>1, <1>2, <1>3, <1>5, <2>1, <2>2, HandStep
<1>6. ASSUME Reading!readx(n, advance) PROVE Good
  BY <1>1, <1>5, <1>6, ThrowStep DEF Reading!readx, Handing
<1>7. ASSUME Reading!readx_buffer(n, advance) PROVE Good
  <2>1. Reading!Plus(from, n) \in 0..(SizeLimit - 1)
    BY <1>1, Sums
  <2>2. Reading!Plus(from, n) > reader.length \/ Reading!Plus(from, n) <= reader.length
    BY <2>1, Starts
  <2>3. \/ Reading!Throw("readx_buffer", from, n, reader)
        \/ /\ Reading!Plus(from, n) <= reader.length
           /\ Reading!Return("readx_buffer", from, n, w, IF advance THEN Reading!Moved(n) ELSE reader)
    BY <1>7, <2>2 DEF Reading!readx_buffer
  <2>4. QED
    BY <1>1, <1>5, <2>3, ThrowStep DEF Handing
<1>8. ASSUME Reading!get(n, advance) PROVE Good
  BY <1>1, <1>5, <1>8, ThrowStep DEF Reading!get, Handing
<1>9. QED
  BY <1>4, <1>6, <1>7, <1>8

\* skip_if compares, and then skips.
LEMMA SkipIf ==
  ASSUME ReaderInv, ~wrapped, NEW n \in Sizes, n > 0, n <= Len(Data), Reading!skip_if(SubSeq(Data, 1, n))
  PROVE  Good
<1> DEFINE from == reader.offset
<1> DEFINE bytes == SubSeq(Data, 1, n)
<1> DEFINE w == Reading!Window(from, n)
<1> DEFINE fits == Reading!Plus(from, n) <= reader.length
<1>1. n \in Nat /\ n < SizeLimit /\ from \in Nat /\ from < SizeLimit
  BY Arguments, Starts
<1>2. Len(bytes) = n
  BY <1>1, DataAssumption
<1>3. \/ Reading!Return("skip_if", from, n, <<>>, reader)
      \/ Reading!remaining >= n /\ ~fits /\ Reading!Throw("skip_if", from, n, reader)
      \/ /\ fits
         /\ \E next \in {Reading!Moved(n), reader} : Reading!Return("skip_if", from, n, w, next)
  BY <1>2 DEF Reading!skip_if
<1>4. /\ Reading!Plus(from, n) \in 0..(SizeLimit - 1)
      /\ from + n < SizeLimit => Reading!Plus(from, n) = from + n
  BY <1>1, Sums
<1>5. \A next \in {Reading!Moved(n), reader} : next \in StringReaders /\ next.base + next.length <= Len(Data)
  BY <1>1, Starts, Moves
<1>6. ASSUME fits, from + n < SizeLimit PROVE \A i \in DOMAIN w : w[i] \in Byte
  BY <1>1, <1>4, <1>6, Inside
<1>7. \A i \in DOMAIN <<>> : <<>>[i] \in Byte
  OBVIOUS
<1>8. ASSUME NEW ok \in BOOLEAN, NEW val, NEW next \in {Reading!Moved(n), reader},
             call' = [op |-> "skip_if", at |-> from, size |-> n, ok |-> ok, val |-> val],
             reader' = next, wrapped' = (wrapped \/ from + n >= SizeLimit),
             from + n < SizeLimit => \A i \in DOMAIN val : val[i] \in Byte
      PROVE  ReaderInv' /\ Reading!MovesPastThem
  <2> HIDE DEF from
  <2>1. ReaderInv'
    BY <1>1, <1>5, <1>8, CallStep
  <2>2. Reading!MovesPastThem
    BY <1>8 DEF Reading!MovesPastThem
  <2>3. QED
    BY <2>1, <2>2
<1> HIDE DEF fits, w, bytes
<1>9. CASE Reading!Return("skip_if", from, n, <<>>, reader)
  <2>1. ReaderInv' /\ Reading!MovesPastThem
    BY <1>7, <1>8, <1>9 DEF Reading!Return
  <2>2. Reading!ThrowsPastTheEnd
    BY <1>9 DEF Reading!Return, Reading!ThrowsPastTheEnd
  <2>3. QED
    BY <2>1, <2>2 DEF Good
<1>10. CASE Reading!remaining >= n /\ ~fits /\ Reading!Throw("skip_if", from, n, reader)
  <2>1. ReaderInv' /\ Reading!MovesPastThem
    BY <1>7, <1>8, <1>10 DEF Reading!Throw
  <2>2. ASSUME ~wrapped', from <= reader.length PROVE FALSE
    <3>1. ~(from + n >= SizeLimit)
      BY <1>10, <2>2 DEF Reading!Throw
    <3>2. Reading!Plus(from, n) = from + n
      BY <1>1, <1>4, <3>1, Starts
    <3>3. from + n > reader.length
      BY <1>1, <1>10, <3>2, Starts DEF fits
    <3>4. Reading!remaining = reader.length - from
      <4>1. reader.length \in Nat /\ reader.length < SizeLimit /\ SizeLimit \in Nat
        BY Starts
      <4>2. (reader.length - from) % SizeLimit = reader.length - from
        BY <1>1, <2>2, <4>1, ModuloLess
      <4>3. QED
        BY <4>2 DEF Reading!remaining
    <3>5. QED
      BY <1>1, <1>10, <3>3, <3>4, Starts
  <2>3. Reading!ThrowsPastTheEnd
    BY <1>1, <2>2, Starts DEF Reading!ThrowsPastTheEnd
  <2>4. QED
    BY <2>1, <2>3 DEF Good
<1>11. ASSUME fits, NEW next \in {Reading!Moved(n), reader}, Reading!Return("skip_if", from, n, w, next) PROVE Good
  <2>1. ReaderInv' /\ Reading!MovesPastThem
    BY <1>6, <1>8, <1>11 DEF Reading!Return
  <2>2. Reading!ThrowsPastTheEnd
    BY <1>11 DEF Reading!Return, Reading!ThrowsPastTheEnd
  <2>3. QED
    BY <2>1, <2>2 DEF Good
<1>12. QED
  BY <1>3, <1>9, <1>10, <1>11

\* The loops of get_line and get_cstr stop between where they start and the end.
LEMMA Stops ==
  ASSUME NEW from \in Nat, NEW end \in Nat, from <= end, NEW b
  PROVE  Reading!StopAt(from, b, end) \in from..end
<1> DEFINE S == {i \in from..end : i = end \/ Reading!Window(i, 1)[1] = b}
<1>1. S \subseteq Nat /\ end \in S /\ S \subseteq from..end
  OBVIOUS
<1>2. Reading!StopAt(from, b, end) = Reading!Min(S)
  BY DEF Reading!StopAt
<1> HIDE DEF S
<1>3. Reading!Min(S) \in S
  BY <1>1, HasLeast DEF Reading!Min
<1>4. QED
  BY <1>1, <1>2, <1>3

\* get_line and get_cstr.
LEMMA Texts ==
  ASSUME ReaderInv, ~wrapped, NEW advance \in BOOLEAN, Reading!get_line(advance) \/ Reading!get_cstr(advance)
  PROVE  Good
<1> DEFINE from == reader.offset
<1>1. from \in Nat /\ reader.length \in Nat /\ 0 \in Nat
  BY Starts
<1>2. ASSUME Reading!get_line(advance) PROVE Good
  <2> DEFINE size == Reading!StopAt(from, 10, reader.length) - from
  <2> DEFINE text == Reading!Window(from, size)
  <2> DEFINE line == IF size > 0 /\ text[size] = 13 THEN SubSeq(text, 1, size - 1) ELSE text
  <2>1. CASE Reading!Throw("get_line", from, 0, reader)
    BY <1>1, <2>1, ThrowStep
  <2>2. CASE from < reader.length /\ Reading!Return("get_line", from, size, line, IF advance THEN Reading!Moved(size + 1) ELSE reader)
    <3>1. Reading!StopAt(from, 10, reader.length) \in from..reader.length
      BY <1>1, <2>2, Stops
    <3>2. size \in Nat /\ from + size <= reader.length
      BY <1>1, <3>1
    <3> HIDE DEF size
    <3>3. Len(text) = size /\ DOMAIN text = 1..size /\ \A i \in 1..size : text[i] \in Byte
      BY <1>1, <3>2, Starts, Windows, Inside
    <3>4. text \in Seq(Byte)
      <4>1. text = [i \in 1..size |-> text[i]]
        BY <3>3 DEF Reading!Window
      <4> HIDE DEF text
      <4>2. [i \in 1..size |-> text[i]] \in [1..size -> Byte]
        BY <3>3
      <4>3. QED
        BY <3>2, <4>1, <4>2
    <3> HIDE DEF text
    <3>5. line \in Seq(Byte)
      BY <3>2, <3>3, <3>4
    <3>6. \A i \in DOMAIN line : line[i] \in Byte
      <4> HIDE DEF line
      <4>1. QED
        BY <3>5
    <3>7. Reading!Return("get_line", from, size, line, IF advance THEN Reading!Moved(size + 1) ELSE reader)
      BY <2>2
    <3> HIDE DEF line
    <3>8. QED
      BY <3>2, <3>6, <3>7, TextStep
  <2>3. QED
    BY <1>1, <1>2, <2>1, <2>2 DEF Reading!get_line, Reading!eof
<1>3. ASSUME Reading!get_cstr(advance) PROVE Good
  <2> DEFINE stop == IF Reading!eof THEN from ELSE Reading!StopAt(from, 0, reader.length)
  <2> DEFINE size == stop - from
  <2>1. CASE Reading!Throw("get_cstr", from, 0, reader)
    BY <1>1, <2>1, ThrowStep
  <2>2. CASE stop < reader.length /\ Reading!Return("get_cstr", from, size, Reading!Window(from, size), IF advance THEN Reading!Moved(size + 1) ELSE reader)
    <3>1. from < reader.length /\ stop = Reading!StopAt(from, 0, reader.length)
      BY <1>1, <2>2 DEF Reading!eof
    <3>2. Reading!StopAt(from, 0, reader.length) \in from..reader.length
      BY <1>1, <3>1, Stops
    <3>3. size \in Nat /\ from + size < reader.length
      BY <1>1, <2>2, <3>1, <3>2
    <3> HIDE DEF size
    <3>4. \A i \in DOMAIN Reading!Window(from, size) : Reading!Window(from, size)[i] \in Byte
      BY <1>1, <3>3, Inside
    <3> DEFINE val == Reading!Window(from, size)
    <3>5. Reading!Return("get_cstr", from, size, val, IF advance THEN Reading!Moved(size + 1) ELSE reader)
      BY <2>2 DEF size
    <3>6. from + size <= reader.length
      BY <1>1, <3>3
    <3> HIDE DEF val
    <3>7. \A i \in DOMAIN val : val[i] \in Byte
      BY <3>4 DEF val
    <3>8. QED
      BY <3>3, <3>5, <3>6, <3>7, TextStep
  <2>3. QED
    BY <1>3, <2>1, <2>2 DEF Reading!get_cstr
<1>4. QED
  BY <1>2, <1>3

\* One call, or none.
LEMMA ReaderNextInv ==
  ASSUME ReaderInv, [Reading!ReaderNext]_readerVars
  PROVE  ReaderInv' /\ [Reading!MovesPastThem]_readerVars /\ [Reading!ThrowsPastTheEnd]_readerVars
<1>1. CASE UNCHANGED readerVars
  BY <1>1 DEF ReaderInv, Reading!Bounds, readerVars
<1>2. ASSUME Reading!ReaderNext PROVE Good
  <2>1. ~wrapped
    BY <1>2 DEF Reading!ReaderNext
  <2>2. CASE \E n \in Sizes : Reading!go(n) \/ Reading!truncate(n) \/ Reading!skip(n) \/ Reading!sub(n) \/ Reading!subx(n) \/ Reading!sub_bits(n) \/ Reading!subx_bits(n)
    BY <2>1, <2>2, Skips, Subs, SubBits
  <2>3. CASE \E n \in Sizes : n > 0 /\ n <= Len(Data) /\ Reading!skip_if(SubSeq(Data, 1, n))
    BY <2>1, <2>3, SkipIf
  <2>4. CASE \E n \in Sizes, advance \in BOOLEAN :
               Reading!read(n, advance) \/ Reading!readx(n, advance) \/ Reading!readx_buffer(n, advance) \/ Reading!get(n, advance)
    BY <2>1, <2>4, Reads
  <2>5. CASE \E advance \in BOOLEAN : Reading!get_line(advance) \/ Reading!get_cstr(advance)
    BY <2>1, <2>5, Texts
  <2>6. CASE \E from, size \in Sizes :
               \/ Reading!sub_sized(from, size) \/ Reading!subx_sized(from, size)
               \/ Reading!sub_bits_sized(from, size) \/ Reading!subx_bits_sized(from, size)
    BY <2>1, <2>6, SizedSubs, SubBits
  <2>7. QED
    BY <1>2, <2>2, <2>3, <2>4, <2>5, <2>6 DEF Reading!ReaderNext
<1>3. QED
  BY <1>1, <1>2 DEF Good

\* A reader of the whole data.
LEMMA ReaderInitInv == Reading!ReaderInit => ReaderInv
<1> SUFFICES ASSUME Reading!ReaderInit PROVE ReaderInv
  OBVIOUS
<1>1. /\ reader = [base |-> 0 % SizeLimit, length |-> Len(Data) % SizeLimit, offset |-> 0]
      /\ call = [op |-> "none", at |-> 0, size |-> 0, ok |-> TRUE, val |-> <<>>] /\ wrapped = FALSE
  BY DEF Reading!ReaderInit, Reading!StringReader
<1>2. 0 % SizeLimit = 0 /\ Len(Data) % SizeLimit = Len(Data) /\ Len(Data) \in Nat /\ SizeLimit \in Nat /\ 0 < SizeLimit
  BY DataAssumption
<1>3. reader = [base |-> 0, length |-> Len(Data), offset |-> 0]
  BY <1>1, <1>2
<1>4. reader \in StringReaders /\ reader.base + reader.length <= Len(Data)
  BY <1>2, <1>3 DEF StringReaders
<1>5. DOMAIN call.val = {}
  BY <1>1
<1>6. QED
  BY <1>1, <1>4, <1>5 DEF ReaderInv, Reading!Bounds

(* A StringReader never reads outside the data before an offset and a size wrap; a call that moves it  *)
(* moves it past exactly what it handed out, and a read past what remaining says throws (Strings.cc).   *)
THEOREM Readers == Reading!ReaderSpec => ReadersAreExact
<1>1. ReaderInv => Reading!Bounds
  BY DEF ReaderInv
<1>2. QED
  BY ReaderInitInv, ReaderNextInv, <1>1, PTL
  DEF Reading!ReaderSpec, Reading!readerVars, readerVars, ReadersAreExact, Reading!Consumes, Reading!Remaining
-----------------------------------------------------------------------------
\* StringWriter and BufferWriter.

\* The two writers have bytes, and the buffer its size.
WritersTypeOK ==
  /\ contents \in Seq(Byte) /\ Len(contents) <= MaxContents
  /\ buffer \in [cells : Seq(Byte), offset : Nat]
  /\ Len(buffer.cells) = BufSize /\ buffer.offset <= BufSize
  /\ stray \in BOOLEAN /\ writers_wrapped \in BOOLEAN /\ same \in BOOLEAN

WritersInv == WritersTypeOK /\ Writing!NoStrayWrite /\ Writing!WritersAgree

\* memcpy changes the bytes from the offset on, as many as the word has.
LEMMA MemcpyTyped ==
  ASSUME NEW s \in Seq(Byte), NEW offset \in Nat, NEW word \in Seq(Byte)
  PROVE  /\ Writing!memcpy(s, offset, word) \in Seq(Byte)
         /\ Len(Writing!memcpy(s, offset, word)) = Len(s)
         /\ \A i \in 1..Len(s) : Writing!memcpy(s, offset, word)[i] =
              IF offset < i /\ i <= offset + Len(word) THEN word[i - offset] ELSE s[i]
<1> DEFINE f == [i \in 1..Len(s) |-> IF i - offset \in 1..Len(word) THEN word[i - offset] ELSE s[i]]
<1>1. Writing!memcpy(s, offset, word) = f
  BY DEF Writing!memcpy
<1>2. Len(s) \in Nat /\ Len(word) \in Nat
  OBVIOUS
<1>3. \A i \in 1..Len(s) : (IF i - offset \in 1..Len(word) THEN word[i - offset] ELSE s[i]) \in Byte
  OBVIOUS
<1>4. f \in Seq(Byte) /\ Len(f) = Len(s)
  BY <1>2, <1>3
<1>5. \A i \in 1..Len(s) : f[i] = IF offset < i /\ i <= offset + Len(word) THEN word[i - offset] ELSE s[i]
  BY <1>2
<1> HIDE DEF f
<1>6. QED
  BY <1>1, <1>4, <1>5

\* resize keeps what there is room for and fills up the rest.
LEMMA ResizeTyped ==
  ASSUME NEW s \in Seq(Byte), NEW n \in Nat, NEW v \in Byte
  PROVE  /\ Writing!resize(s, n, v) \in Seq(Byte) /\ Len(Writing!resize(s, n, v)) = n
         /\ \A i \in 1..n : Writing!resize(s, n, v)[i] = IF i <= Len(s) THEN s[i] ELSE v
<1> DEFINE f == [i \in 1..n |-> IF i <= Len(s) THEN s[i] ELSE v]
<1>1. Writing!resize(s, n, v) = f
  BY DEF Writing!resize
<1>2. \A i \in 1..n : (IF i <= Len(s) THEN s[i] ELSE v) \in Byte
  OBVIOUS
<1>3. f \in Seq(Byte) /\ Len(f) = n
  BY <1>2
<1>4. \A i \in 1..n : f[i] = IF i <= Len(s) THEN s[i] ELSE v
  OBVIOUS
<1> HIDE DEF f
<1>5. QED
  BY <1>1, <1>3, <1>4

\* A sum that a size_t holds is what + gives.
LEMMA NoWrap ==
  ASSUME NEW x \in Nat, NEW y \in Nat, x + y < SizeLimit
  PROVE  Writing!Plus(x, y) = x + y
BY DataAssumption DEF Writing!Plus

\* put: the string grows by the word; the buffer takes it at its offset, or refuses it.
LEMMA PutStep ==
  ASSUME WritersInv, ~writers_wrapped, NEW word \in Words, Writing!put(word)
  PROVE  WritersInv'
<1> DEFINE off == buffer.offset
<1> DEFINE cells == buffer.cells
<1> DEFINE refused == Writing!Refused(off, word)
<1>1. /\ contents \in Seq(Byte) /\ cells \in Seq(Byte) /\ off \in Nat /\ buffer = [cells |-> cells, offset |-> off]
      /\ Len(cells) = BufSize /\ off <= BufSize /\ BufSize \in Nat
      /\ word \in Seq(Byte) /\ Len(word) \in Nat /\ off + Len(word) < SizeLimit
  BY DataAssumption, WordsAssumption DEF WritersInv, WritersTypeOK
<1>2. /\ Len(contents) + Len(word) <= MaxContents
      /\ contents' = contents \o word /\ buffer' = Writing!Write(word)
      /\ stray' = (stray \/ Writing!StrayWrite(off, word))
      /\ writers_wrapped' = (writers_wrapped \/ off + Len(word) >= SizeLimit)
      /\ same' = (same /\ ~refused)
  BY DEF Writing!put, Writing!Put
<1>3. refused <=> off + Len(word) > BufSize
  BY <1>1, NoWrap DEF Writing!Refused
<1>4. Writing!Plus(off, Len(word)) = off + Len(word)
  BY <1>1, NoWrap
<1> DEFINE copied == Writing!memcpy(cells, off, word)
<1>5. /\ copied \in Seq(Byte) /\ Len(copied) = BufSize
      /\ \A i \in 1..BufSize : copied[i] = IF off < i /\ i <= off + Len(word) THEN word[i - off] ELSE cells[i]
  <2>1. cells \in Seq(Byte) /\ word \in Seq(Byte) /\ off \in Nat /\ Len(cells) = BufSize
    BY <1>1
  <2>2. /\ copied \in Seq(Byte) /\ Len(copied) = Len(cells)
        /\ \A i \in 1..Len(cells) : copied[i] = IF off < i /\ i <= off + Len(word) THEN word[i - off] ELSE cells[i]
    BY <2>1, MemcpyTyped, Zenon
  <2>3. QED
    BY <2>1, <2>2, Zenon
<1>6. ~Writing!StrayWrite(off, word)
  BY <1>1, <1>3 DEF Writing!StrayWrite, Writing!Lands
<1>7. contents' \in Seq(Byte) /\ Len(contents') = Len(contents) + Len(word)
  BY <1>1, <1>2
<1>8. buffer' = IF refused THEN buffer ELSE [cells |-> copied, offset |-> off + Len(word)]
  <2>1. CASE refused
    BY <1>2, <2>1 DEF Writing!Write
  <2>2. CASE ~refused
    <3>1. Writing!pwrite(off, word) = [buffer EXCEPT !.cells = copied]
      BY <2>2 DEF Writing!pwrite
    <3>2. [buffer EXCEPT !.cells = copied] = [cells |-> copied, offset |-> off]
      BY <1>1, SMTT(30)
    <3>3. buffer' = [Writing!pwrite(off, word) EXCEPT !.offset = Writing!Plus(Writing!pwrite(off, word).offset, Len(word))]
      BY <1>2, <2>2 DEF Writing!Write
    <3> HIDE DEF copied, off, cells, refused
    <3>4. Writing!pwrite(off, word) = [cells |-> copied, offset |-> off]
      BY <3>1, <3>2
    <3>5. Writing!pwrite(off, word).offset = off
      BY <3>4
    <3>6. buffer' = [Writing!pwrite(off, word) EXCEPT !.offset = off + Len(word)]
      BY <1>4, <3>3, <3>5
    <3>7. QED
      BY <2>2, <3>4, <3>6
  <2>3. QED
    BY <2>1, <2>2
<1>9. stray' = FALSE /\ writers_wrapped' = FALSE /\ same' \in BOOLEAN
  BY <1>1, <1>2, <1>6, DataAssumption, WordsAssumption DEF WritersInv, Writing!NoStrayWrite, WritersTypeOK
<1> HIDE DEF copied, refused
<1>10. WritersTypeOK'
  BY <1>1, <1>2, <1>3, <1>5, <1>7, <1>8, <1>9 DEF WritersTypeOK
<1>11. ASSUME same' PROVE contents' = SubSeq(buffer'.cells, 1, buffer'.offset)
  <2>1. same /\ ~refused
    BY <1>2, <1>11
  <2>2. contents = SubSeq(cells, 1, off)
    BY <2>1 DEF WritersInv, Writing!WritersAgree
  <2>3. Len(contents) = off /\ \A i \in 1..off : contents[i] = cells[i]
    BY <1>1, <2>2
  <2>4. buffer'.cells = copied /\ buffer'.offset = off + Len(word) /\ off + Len(word) <= BufSize
    BY <1>1, <1>3, <1>8, <2>1
  <2> DEFINE after == SubSeq(copied, 1, off + Len(word))
  <2>5. /\ after \in Seq(Byte) /\ Len(after) = off + Len(word)
        /\ \A i \in 1..(off + Len(word)) : after[i] = copied[i]
    BY <1>1, <1>5, <2>4
  <2> DEFINE joined == contents \o word
  <2>6. \A i \in 1..(off + Len(word)) : joined[i] = IF i <= off THEN cells[i] ELSE word[i - off]
    BY <1>1, <2>3
  <2> HIDE DEF joined, off, cells
  <2>7. \A i \in 1..(off + Len(word)) : joined[i] = after[i]
    <3> SUFFICES ASSUME NEW i \in 1..(off + Len(word)) PROVE joined[i] = after[i]
      OBVIOUS
    <3> HIDE DEF after
    <3>1. i \in 1..BufSize /\ after[i] = copied[i]
      BY <1>1, <2>4, <2>5
    <3>2. copied[i] = IF off < i THEN word[i - off] ELSE cells[i]
      BY <1>1, <1>5, <3>1
    <3>3. QED
      BY <1>1, <2>6, <3>1, <3>2
  <2> HIDE DEF after
  <2>8. joined \in Seq(Byte) /\ Len(joined) = off + Len(word)
    BY <1>2, <1>7, <2>3 DEF joined
  <2>9. joined = after
    BY <2>5, <2>7, <2>8, SeqEqual
  <2>10. QED
    BY <1>2, <2>4, <2>9 DEF after, joined
<1>12. QED
  BY <1>9, <1>10, <1>11 DEF WritersInv, Writing!NoStrayWrite, Writing!WritersAgree

\* pput: both write the word at the offset; the string grows to hold it.
LEMMA PputStep ==
  ASSUME WritersInv, ~writers_wrapped, NEW word \in Words, NEW offset \in Nat, Writing!pput(offset, word)
  PROVE  WritersInv'
<1> DEFINE off == buffer.offset
<1> DEFINE cells == buffer.cells
<1> DEFINE end == Writing!Plus(offset, Len(word))
<1> DEFINE room == IF end > Len(contents) THEN Writing!resize(contents, end, 0) ELSE contents
<1> DEFINE refused == Writing!Refused(offset, word)
<1> DEFINE copied == Writing!memcpy(cells, offset, word)
<1> DEFINE grown == Writing!memcpy(room, offset, word)
<1>1. /\ contents \in Seq(Byte) /\ cells \in Seq(Byte) /\ off \in Nat /\ buffer = [cells |-> cells, offset |-> off]
      /\ Len(contents) \in Nat /\ Len(contents) <= MaxContents
      /\ Len(cells) = BufSize /\ off <= BufSize /\ BufSize \in Nat
      /\ word \in Seq(Byte) /\ Len(word) \in Nat
  BY DataAssumption, WordsAssumption DEF WritersInv, WritersTypeOK
<1>2. /\ end <= MaxContents
      /\ contents' = grown /\ buffer' = Writing!pwrite(offset, word)
      /\ stray' = (stray \/ Writing!StrayWrite(offset, word) \/ ~Writing!Lands(room, offset, word))
      /\ writers_wrapped' = (writers_wrapped \/ offset + Len(word) >= SizeLimit)
      /\ same' = (same /\ offset + Len(word) <= Len(contents))
  BY DEF Writing!pput, Writing!Pput
<1>3. end \in Nat /\ (offset + Len(word) < SizeLimit => end = offset + Len(word))
  BY <1>1, NoWrap, DataAssumption, WordsAssumption DEF Writing!Plus
<1>4. buffer' = IF refused THEN buffer ELSE [cells |-> copied, offset |-> off]
  <2>1. [buffer EXCEPT !.cells = copied] = [cells |-> copied, offset |-> off]
    BY <1>1
  <2>2. QED
    BY <1>2, <2>1 DEF Writing!pwrite
<1>5. refused <=> end > BufSize
  BY DEF Writing!Refused
<1>6. /\ copied \in Seq(Byte) /\ Len(copied) = BufSize
      /\ \A i \in 1..BufSize : copied[i] = IF offset < i /\ i <= offset + Len(word) THEN word[i - offset] ELSE cells[i]
  <2>1. cells \in Seq(Byte) /\ word \in Seq(Byte) /\ offset \in Nat /\ Len(cells) = BufSize
    BY <1>1
  <2>2. /\ copied \in Seq(Byte) /\ Len(copied) = Len(cells)
        /\ \A i \in 1..Len(cells) : copied[i] = IF offset < i /\ i <= offset + Len(word) THEN word[i - offset] ELSE cells[i]
    BY <2>1, MemcpyTyped, Zenon
  <2>3. QED
    BY <2>1, <2>2, Zenon
<1>7. room \in Seq(Byte) /\ Len(room) = IF end > Len(contents) THEN end ELSE Len(contents)
  <2>1. 0 \in Byte
    BY DEF Byte
  <2>2. QED
    BY <1>1, <1>3, <2>1, ResizeTyped
<1>8. end > BufSize \/ offset + Len(word) <= BufSize => ~Writing!StrayWrite(offset, word)
  <2>1. Len(buffer.cells) = BufSize
    BY <1>1
  <2> HIDE DEF end
  <2>2. QED
    BY <1>5, <2>1 DEF Writing!StrayWrite, Writing!Lands
<1>9. Writing!Lands(room, offset, word) <=> offset + Len(word) <= Len(room)
  BY DEF Writing!Lands
<1> HIDE DEF copied, refused, room, end
<1>10. /\ grown \in Seq(Byte) /\ Len(grown) = Len(room)
       /\ \A i \in 1..Len(room) : grown[i] = IF offset < i /\ i <= offset + Len(word) THEN word[i - offset] ELSE room[i]
  <2>1. room \in Seq(Byte) /\ word \in Seq(Byte) /\ offset \in Nat
    BY <1>1, <1>7
  <2>2. QED
    BY <2>1, MemcpyTyped, Zenon
<1> HIDE DEF grown
<1>11. WritersTypeOK'
  <2>1. contents' \in Seq(Byte) /\ Len(contents') <= MaxContents
    BY <1>1, <1>2, <1>3, <1>7, <1>10
  <2>2. buffer' \in [cells : Seq(Byte), offset : Nat] /\ Len(buffer'.cells) = BufSize /\ buffer'.offset <= BufSize
    BY <1>1, <1>4, <1>6
  <2>3. stray' \in BOOLEAN /\ writers_wrapped' \in BOOLEAN /\ same' \in BOOLEAN
    BY <1>2
  <2>4. QED
    BY <2>1, <2>2, <2>3 DEF WritersTypeOK
<1>12. ASSUME ~writers_wrapped' PROVE ~stray'
  <2>1. offset + Len(word) < SizeLimit /\ end = offset + Len(word)
    <3>1. ~(offset + Len(word) >= SizeLimit)
      BY <1>2, <1>12
    <3>2. offset + Len(word) \in Nat /\ SizeLimit \in Nat
      BY <1>1, DataAssumption, WordsAssumption
    <3>3. QED
      BY <1>3, <3>1, <3>2
  <2>2. ~stray
    BY DEF WritersInv, Writing!NoStrayWrite
  <2>3. ~Writing!StrayWrite(offset, word)
    BY <1>1, <1>3, <1>8, <2>1
  <2>4. Writing!Lands(room, offset, word)
    BY <1>1, <1>3, <1>7, <1>9, <2>1
  <2>5. QED
    BY <1>2, <2>2, <2>3, <2>4
<1>13. ASSUME same' PROVE contents' = SubSeq(buffer'.cells, 1, buffer'.offset)
  <2>1. same /\ offset + Len(word) <= Len(contents)
    BY <1>2, <1>13
  <2>2. contents = SubSeq(cells, 1, off)
    BY <2>1 DEF WritersInv, Writing!WritersAgree
  <2>3. Len(contents) = off /\ \A i \in 1..off : contents[i] = cells[i]
    BY <1>1, <2>2
  <2>4. end = offset + Len(word) /\ end <= off
    BY <1>1, <1>3, <2>1, <2>3, DataAssumption, WordsAssumption
  <2>5. room = contents
    BY <1>1, <1>3, <2>3, <2>4 DEF room
  <2>6. buffer'.cells = copied /\ buffer'.offset = off
    BY <1>1, <1>3, <1>4, <1>5, <2>4
  <2> DEFINE after == SubSeq(copied, 1, off)
  <2>7. after \in Seq(Byte) /\ Len(after) = off /\ \A i \in 1..off : after[i] = copied[i]
    BY <1>1, <1>6
  <2> HIDE DEF after, off, cells
  <2>8. \A i \in 1..off : grown[i] = after[i]
    <3> SUFFICES ASSUME NEW i \in 1..off PROVE grown[i] = after[i]
      OBVIOUS
    <3>1. i \in 1..BufSize /\ i \in 1..Len(room)
      BY <1>1, <2>3, <2>5
    <3>2. grown[i] = IF offset < i /\ i <= offset + Len(word) THEN word[i - offset] ELSE contents[i]
      BY <1>10, <2>5, <3>1
    <3>3. copied[i] = IF offset < i /\ i <= offset + Len(word) THEN word[i - offset] ELSE cells[i]
      BY <1>6, <3>1
    <3>4. QED
      BY <2>3, <2>7, <3>2, <3>3
  <2>9. Len(grown) = off
    BY <1>10, <2>3, <2>5
  <2>10. grown = after
    BY <1>10, <2>7, <2>8, <2>9, SeqEqual
  <2>11. QED
    BY <1>2, <2>6, <2>10 DEF after
<1>14. QED
  BY <1>11, <1>12, <1>13 DEF WritersInv, Writing!NoStrayWrite, Writing!WritersAgree

\* The string alone, which no longer follows the buffer.
LEMMA StringStep ==
  ASSUME WritersInv, ~writers_wrapped, contents' \in Seq(Byte), Len(contents') <= MaxContents, same' = FALSE,
         buffer' = buffer, stray' = stray, writers_wrapped' = writers_wrapped
  PROVE  WritersInv'
<1>1. WritersTypeOK'
  BY DEF WritersInv, WritersTypeOK
<1>2. QED
  BY <1>1 DEF WritersInv, Writing!NoStrayWrite, Writing!WritersAgree

\* One call, or none.
LEMMA WritersNextInv ==
  ASSUME WritersInv, [Writing!WritersNext]_writerVars
  PROVE  WritersInv'
<1>1. CASE UNCHANGED writerVars
  <2>1. /\ contents' = contents /\ buffer' = buffer /\ stray' = stray
        /\ writers_wrapped' = writers_wrapped /\ same' = same
    BY <1>1 DEF writerVars
  <2>2. QED
    BY <2>1 DEF WritersInv, WritersTypeOK, Writing!NoStrayWrite, Writing!WritersAgree
<1>2. CASE Writing!WritersNext
  <2>1. ~writers_wrapped
    BY <1>2 DEF Writing!WritersNext
  <2>2. contents \in Seq(Byte) /\ Len(contents) \in Nat /\ MaxContents \in Nat /\ {0, 9} \subseteq Byte
    BY DataAssumption, WordsAssumption DEF WritersInv, WritersTypeOK, Byte
  <2>3. ASSUME NEW n \in 0..MaxContents, NEW v \in {0, 9}, Writing!extend_to(n, v) PROVE WritersInv'
    <3>1. n \in Nat /\ v \in Byte /\ n <= MaxContents
      BY <2>2
    <3>2. Writing!resize(contents, n, v) \in Seq(Byte) /\ Len(Writing!resize(contents, n, v)) = n
      BY <2>2, <3>1, ResizeTyped
    <3>3. /\ contents' = Writing!resize(contents, n, v) /\ same' = FALSE
          /\ buffer' = buffer /\ stray' = stray /\ writers_wrapped' = writers_wrapped
      BY <2>3 DEF Writing!extend_to
    <3>4. contents' \in Seq(Byte) /\ Len(contents') <= MaxContents
      BY <3>1, <3>2, <3>3
    <3>5. QED
      BY <2>1, <3>3, <3>4, StringStep
  <2>4. ASSUME NEW n \in 0..MaxContents, NEW v \in {0, 9}, Writing!extend_by(n, v) PROVE WritersInv'
    <3> DEFINE m == Len(contents) + n
    <3>1. m \in Nat /\ v \in Byte
      BY <2>2
    <3>2. /\ m <= MaxContents /\ contents' = Writing!resize(contents, m, v) /\ same' = FALSE
          /\ buffer' = buffer /\ stray' = stray /\ writers_wrapped' = writers_wrapped
      BY <2>4 DEF Writing!extend_by
    <3> HIDE DEF m
    <3>3. Writing!resize(contents, m, v) \in Seq(Byte) /\ Len(Writing!resize(contents, m, v)) = m
      BY <2>2, <3>1, ResizeTyped
    <3>4. contents' \in Seq(Byte) /\ Len(contents') <= MaxContents
      BY <3>2, <3>3
    <3>5. QED
      BY <2>1, <3>2, <3>4, StringStep
  <2>5. ASSUME Writing!reset PROVE WritersInv'
    <3>1. /\ contents' = <<>> /\ same' = FALSE
          /\ buffer' = buffer /\ stray' = stray /\ writers_wrapped' = writers_wrapped
      BY <2>5 DEF Writing!reset
    <3>2. <<>> \in Seq(Byte) /\ Len(<<>>) <= MaxContents
      BY <2>2
    <3>3. contents' \in Seq(Byte) /\ Len(contents') <= MaxContents
      BY <3>1, <3>2
    <3>4. QED
      BY <2>1, <3>1, <3>3, StringStep
  <2>6. 0..(SizeLimit - 1) \subseteq Nat
    OBVIOUS
  <2>7. QED
    BY <1>2, <2>1, <2>3, <2>4, <2>5, <2>6, PutStep, PputStep DEF Writing!WritersNext
<1>3. QED
  BY <1>1, <1>2

\* An empty string, and a buffer of zeroes.
LEMMA WritersInitInv == Writing!WritersInit => WritersInv
<1> SUFFICES ASSUME Writing!WritersInit PROVE WritersInv
  OBVIOUS
<1> DEFINE zeroes == [i \in 1..BufSize |-> 0]
<1>1. /\ contents = <<>> /\ buffer = [cells |-> zeroes, offset |-> 0]
      /\ stray = FALSE /\ writers_wrapped = FALSE /\ same = TRUE
  BY DEF Writing!WritersInit
<1>2. BufSize \in Nat /\ MaxContents \in Nat
  BY DataAssumption, WordsAssumption
<1>3. zeroes \in Seq(Byte) /\ Len(zeroes) = BufSize
  BY <1>2 DEF Byte
<1> HIDE DEF zeroes
<1>4. contents \in Seq(Byte) /\ Len(contents) = 0
  BY <1>1
<1>5. WritersTypeOK
  <2>1. buffer \in [cells : Seq(Byte), offset : Nat] /\ Len(buffer.cells) = BufSize /\ buffer.offset <= BufSize
    BY <1>1, <1>2, <1>3
  <2>2. contents \in Seq(Byte) /\ Len(contents) <= MaxContents
    BY <1>2, <1>4
  <2>3. QED
    BY <1>1, <2>1, <2>2 DEF WritersTypeOK
<1>6. contents = SubSeq(buffer.cells, 1, buffer.offset)
  BY <1>1, <1>3
<1>7. QED
  BY <1>1, <1>5, <1>6 DEF WritersInv, Writing!NoStrayWrite, Writing!WritersAgree

(* BufferWriter never writes outside its buffer before an offset and a size wrap, and StringWriter and *)
(* BufferWriter hold the same bytes for as long as they are given the same calls (Strings.hh).         *)
THEOREM Writers == Writing!WritersSpec => []WritersAreExact
<1>1. WritersInv => WritersAreExact
  BY DEF WritersInv, WritersAreExact
<1>2. QED
  BY WritersInitInv, WritersNextInv, <1>1, PTL DEF Writing!WritersSpec, Writing!writerVars, writerVars
-----------------------------------------------------------------------------
\* The random buffer.

\* The bytes in a sequence, and whether each is there once.
Bytes(s) == {s[i] : i \in 1..Len(s)}
Distinct(s) == \A i, j \in 1..Len(s) : s[i] = s[j] => i = j

\* What is handed out or kept was drawn.
RandomTypeOK ==
  /\ buffers \in [Users -> Seq(Nat)] /\ drawn \in Nat /\ handed \subseteq 1..drawn
  /\ \A u \in Users : Bytes(buffers[u]) \subseteq 1..drawn
  /\ repeated \in BOOLEAN

\* Every byte that was drawn is with a caller or in a buffer.
Dropless == \A x \in 1..drawn : x \in handed \/ \E u \in Users : x \in Bytes(buffers[u])

\* No byte is in two buffers, twice in one, or in one and with a caller.
Apart ==
  /\ \A u \in Users : Distinct(buffers[u]) /\ Bytes(buffers[u]) \cap handed = {}
  /\ \A u, v \in Users : u # v => Bytes(buffers[u]) \cap Bytes(buffers[v]) = {}

\* Until a fork has copied bytes or a failure has kept them, each byte is in one place.
RandomInv == RandomTypeOK /\ Dropless /\ (upset = {} => ~repeated /\ Apart)

\* A sequence without repetitions has as many bytes as places.
LEMMA DistinctCount ==
  ASSUME NEW s \in Seq(Nat), Distinct(s)
  PROVE  Cardinality(Bytes(s)) = Len(s)
<1>1. Len(s) \in Nat /\ s \in [1..Len(s) -> Nat]
  OBVIOUS
<1>2. s \in [1..Len(s) -> Bytes(s)]
  BY <1>1 DEF Bytes
<1>3. s \in Injection(1..Len(s), Bytes(s))
  BY <1>2 DEF Injection, IsInjective, Distinct
<1>4. s \in Surjection(1..Len(s), Bytes(s))
  BY <1>2 DEF Surjection, Bytes
<1>5. ExistsBijection(1..Len(s), Bytes(s))
  BY <1>3, <1>4 DEF ExistsBijection, Bijection
<1>6. QED
  BY <1>1, <1>5, FS_CountingElements

\* Cardinality is the same in every module.
LEMMA SameCount == \A S : Random!Cardinality(S) = Cardinality(S)
BY DEF Random!Cardinality, Cardinality

\* ToSet is the bytes of a sequence.
LEMMA ToSetBytes ==
  ASSUME NEW s \in Seq(Nat)
  PROVE  Random!ToSet(s) = Bytes(s)
<1>1. DOMAIN s = 1..Len(s)
  OBVIOUS
<1>2. QED
  BY <1>1 DEF Random!ToSet, Bytes

\* A call hands out some bytes of the user's buffer and of the device, and keeps the others.
LEMMA DrawStep ==
  ASSUME RandomInv, NEW u \in Users, NEW out \in Seq(Nat), NEW left \in Seq(Nat), NEW d \in Nat, drawn <= d,
         drawn' = d, handed' = handed \cup Bytes(out), buffers' = [buffers EXCEPT ![u] = left],
         repeated' \in BOOLEAN,
         Bytes(out) \cup Bytes(left) = Bytes(buffers[u]) \cup ((drawn + 1)..d),
         upset' = {} => /\ upset = {}
                        /\ repeated' => repeated \/ Bytes(out) \cap handed # {} \/ Cardinality(Bytes(out)) # Len(out)
                        /\ Distinct(buffers[u]) => Distinct(out) /\ Distinct(left) /\ Bytes(out) \cap Bytes(left) = {}
  PROVE  RandomInv'
<1> DEFINE new == (drawn + 1)..d
<1>1. /\ buffers \in [Users -> Seq(Nat)] /\ drawn \in Nat /\ handed \subseteq 1..drawn
      /\ \A v \in Users : Bytes(buffers[v]) \subseteq 1..drawn
  BY DEF RandomInv, RandomTypeOK
<1>2. buffers'[u] = left /\ \A v \in Users : v # u => buffers'[v] = buffers[v]
  BY <1>1
<1>3. 1..d = (1..drawn) \cup new /\ (1..drawn) \cap new = {}
  BY <1>1
<1> HIDE DEF new
<1>4. Bytes(out) \subseteq 1..d /\ Bytes(left) \subseteq 1..d
  BY <1>1, <1>3 DEF new
<1>5. RandomTypeOK'
  <2>1. buffers' \in [Users -> Seq(Nat)]
    BY <1>1
  <2>2. handed' \subseteq 1..drawn'
    BY <1>1, <1>3, <1>4
  <2>3. \A v \in Users : Bytes(buffers'[v]) \subseteq 1..drawn'
    BY <1>1, <1>2, <1>3, <1>4
  <2>4. RandomTypeOK' <=> /\ buffers' \in [Users -> Seq(Nat)] /\ drawn' \in Nat /\ handed' \subseteq 1..drawn'
                          /\ \A v \in Users : Bytes(buffers'[v]) \subseteq 1..drawn'
                          /\ repeated' \in BOOLEAN
    BY DEF RandomTypeOK, Bytes
  <2>5. QED
    BY <2>1, <2>2, <2>3, <2>4
<1>6. Dropless'
  <2>1. SUFFICES ASSUME NEW x \in 1..d PROVE x \in handed' \/ \E v \in Users : x \in Bytes(buffers'[v])
    BY DEF Dropless, Bytes
  <2>2. CASE x \in new
    BY <1>2, <2>2 DEF new
  <2>3. CASE x \in 1..drawn
    <3>1. x \in handed \/ \E v \in Users : x \in Bytes(buffers[v])
      BY <2>3 DEF RandomInv, Dropless
    <3>2. ASSUME NEW v \in Users, x \in Bytes(buffers[v]) PROVE x \in handed' \/ \E w \in Users : x \in Bytes(buffers'[w])
      <4>1. CASE v = u
        BY <1>2, <3>2, <4>1
      <4>2. CASE v # u
        BY <1>2, <3>2, <4>2
      <4>3. QED
        BY <4>1, <4>2
    <3>3. QED
      BY <3>1, <3>2
  <2>4. QED
    BY <1>3, <2>2, <2>3
<1>7. ASSUME upset' = {} PROVE ~repeated' /\ Apart'
  <2>1. /\ ~repeated
        /\ \A v \in Users : Distinct(buffers[v]) /\ Bytes(buffers[v]) \cap handed = {}
        /\ \A v, w \in Users : v # w => Bytes(buffers[v]) \cap Bytes(buffers[w]) = {}
    BY <1>7 DEF RandomInv, Apart
  <2>2. Distinct(out) /\ Distinct(left) /\ Bytes(out) \cap Bytes(left) = {}
    BY <1>7, <2>1
  <2>3. Bytes(out) \cap handed = {} /\ Bytes(left) \cap handed = {}
    BY <1>1, <1>3, <2>1 DEF new
  <2>4. ~repeated'
    <3>1. Cardinality(Bytes(out)) = Len(out)
      BY <2>2, DistinctCount
    <3>2. QED
      BY <1>7, <2>1, <2>3, <3>1
  <2>5. ASSUME NEW v \in Users PROVE Distinct(buffers'[v]) /\ Bytes(buffers'[v]) \cap handed' = {}
    <3>1. CASE v = u
      BY <1>2, <2>2, <2>3, <3>1
    <3>2. CASE v # u
      <4>1. Bytes(buffers[v]) \cap Bytes(buffers[u]) = {} /\ Bytes(buffers[v]) \cap new = {}
        BY <1>1, <1>3, <2>1, <3>2
      <4>2. Bytes(buffers[v]) \cap Bytes(out) = {}
        BY <4>1 DEF new
      <4>3. QED
        BY <1>2, <2>1, <3>2, <4>2
    <3>3. QED
      BY <3>1, <3>2
  <2>6. ASSUME NEW v \in Users, v # u PROVE Bytes(buffers[v]) \cap Bytes(left) = {}
    BY <1>1, <1>3, <2>1, <2>6 DEF new
  <2>7. ASSUME NEW v \in Users, NEW w \in Users, v # w PROVE Bytes(buffers'[v]) \cap Bytes(buffers'[w]) = {}
    <3>1. CASE v = u
      BY <1>2, <2>6, <2>7, <3>1
    <3>2. CASE w = u
      BY <1>2, <2>6, <2>7, <3>2
    <3>3. CASE v # u /\ w # u
      BY <1>2, <2>1, <2>7, <3>3
    <3>4. QED
      BY <3>1, <3>2, <3>3
  <2>8. Apart' <=> /\ \A v \in Users : Distinct(buffers'[v]) /\ Bytes(buffers'[v]) \cap handed' = {}
                   /\ \A v, w \in Users : v # w => Bytes(buffers'[v]) \cap Bytes(buffers'[w]) = {}
    BY DEF Apart, Distinct, Bytes
  <2>9. QED
    BY <2>4, <2>5, <2>7, <2>8
<1>8. QED
  BY <1>5, <1>6, <1>7 DEF RandomInv

\* The n bytes after D.
Run(f, D, n) == f \in Seq(Nat) /\ Len(f) = n /\ \A i \in 1..n : f[i] = D + i

\* A sequence and the bytes after it, place by place.
LEMMA Appended ==
  ASSUME NEW s \in Seq(Nat), NEW m \in Nat, NEW D \in Nat, NEW f, Run(f, D, m)
  PROVE  /\ s \o f \in Seq(Nat) /\ Len(s \o f) = Len(s) + m
         /\ \A i \in 1..(Len(s) + m) : (s \o f)[i] = IF i <= Len(s) THEN s[i] ELSE D + (i - Len(s))
<1> DEFINE g == s \o f
<1>0. f \in Seq(Nat) /\ Len(f) = m /\ \A i \in 1..m : f[i] = D + i
  BY DEF Run
<1>1. g \in Seq(Nat) /\ Len(g) = Len(s) + m /\ Len(s) \in Nat
  <2>1. f \in Seq(Nat) /\ Len(f) = m
    BY <1>0
  <2>2. QED
    BY <2>1
<1>2. \A i \in 1..(Len(s) + m) : g[i] = IF i <= Len(s) THEN s[i] ELSE f[i - Len(s)]
  <2>1. f \in Seq(Nat) /\ Len(f) = m
    BY <1>0
  <2>2. \A i \in 1..(Len(s) + Len(f)) : (s \o f)[i] = IF i <= Len(s) THEN s[i] ELSE f[i - Len(s)]
    BY <2>1
  <2>3. QED
    BY <2>1, <2>2
<1> HIDE DEF g
<1>3. ASSUME NEW i \in 1..(Len(s) + m), ~(i <= Len(s)) PROVE f[i - Len(s)] = D + (i - Len(s))
  <2>1. i - Len(s) \in 1..m
    BY <1>1, <1>3
  <2>2. QED
    BY <1>0, <2>1
<1>4. \A i \in 1..(Len(s) + m) : g[i] = IF i <= Len(s) THEN s[i] ELSE D + (i - Len(s))
  BY <1>2, <1>3
<1>5. QED
  BY <1>1, <1>4 DEF g

\* What a quotient is.
LEMMA Division ==
  ASSUME NEW a \in Nat, NEW b \in Nat, b > 0
  PROVE  a \div b \in Nat /\ b * (a \div b) <= a /\ a < b * (a \div b) + b
OBVIOUS

\* The fillings before the last hold less than what is missing, and the last one the rest.
LEMMA RefillsFit ==
  ASSUME NEW s \in Seq(Nat), NEW bytes \in Nat, Len(s) < bytes
  PROVE  LET n == Random!Refills(s, bytes)
         IN  /\ n \in Nat /\ n >= 1
             /\ (n - 1) * BufferSize \in Nat
             /\ n * BufferSize = (n - 1) * BufferSize + BufferSize
             /\ (n - 1) * BufferSize < bytes - Len(s)
             /\ bytes - Len(s) <= n * BufferSize
<1> DEFINE a == bytes - Len(s) + BufferSize - 1
<1> DEFINE n == a \div BufferSize
<1>1. Len(s) \in Nat /\ BufferSize \in Nat /\ BufferSize > 0
  BY RandomAssumption
<1>2. a \in Nat /\ a >= BufferSize
  BY <1>1
<1>3. Random!Refills(s, bytes) = n
  BY <1>1 DEF Random!Refills
<1> HIDE DEF a
<1>4. n \in Nat /\ BufferSize * n <= a /\ a < BufferSize * n + BufferSize
  BY <1>1, <1>2, Division
<1> HIDE DEF n
<1>5. n # 0
  <2>1. n = 0 => BufferSize * n = 0
    BY <1>1
  <2>2. QED
    BY <1>1, <1>2, <1>4, <2>1
<1>6. (n - 1) * BufferSize \in Nat /\ n * BufferSize = (n - 1) * BufferSize + BufferSize /\ n * BufferSize = BufferSize * n
  BY <1>1, <1>4, <1>5
<1>7. n >= 1
  BY <1>4, <1>5
<1> DEFINE m == (n - 1) * BufferSize
<1> DEFINE t == n * BufferSize
<1>8. m \in Nat /\ t = m + BufferSize /\ t <= a /\ a < t + BufferSize
  BY <1>4, <1>6
<1> HIDE DEF m, t
<1>9. m < bytes - Len(s) /\ bytes - Len(s) <= t
  BY <1>1, <1>8 DEF a
<1>10. QED
  BY <1>3, <1>4, <1>6, <1>7, <1>9 DEF m, t

\* What is handed out of s and of the m + b bytes after D: s, m bytes, and, after those that are kept, the rest.
HandsOut(out, s, D, m, kept, bytes) ==
  /\ out \in Seq(Nat) /\ Len(out) = bytes
  /\ \A i \in 1..bytes : out[i] = IF i <= Len(s) THEN s[i]
                                  ELSE IF i <= Len(s) + m THEN D + (i - Len(s)) ELSE D + kept + (i - Len(s))
Splits(s, D, m, b, bytes, kept, out, left) ==
  /\ s \in Seq(Nat) /\ D \in Nat /\ Bytes(s) \subseteq 1..D
  /\ m \in Nat /\ b \in Nat /\ bytes \in Nat /\ kept \in Nat
  /\ m < bytes - Len(s) /\ kept = m + b + Len(s) - bytes
  /\ HandsOut(out, s, D, m, kept, bytes) /\ Run(left, D + m, kept)

\* Handing out the one and keeping the other splits the bytes of both.
LEMMA Filled ==
  ASSUME NEW s, NEW D, NEW m, NEW b, NEW bytes, NEW kept, NEW out, NEW left,
         Splits(s, D, m, b, bytes, kept, out, left)
  PROVE  /\ Bytes(out) \cup Bytes(left) = Bytes(s) \cup ((D + 1)..(D + m + b))
         /\ Distinct(s) => Distinct(out) /\ Distinct(left) /\ Bytes(out) \cap Bytes(left) = {}
<1> /\ s \in Seq(Nat) /\ D \in Nat /\ Bytes(s) \subseteq 1..D
    /\ m \in Nat /\ b \in Nat /\ bytes \in Nat /\ kept \in Nat
    /\ m < bytes - Len(s) /\ kept = m + b + Len(s) - bytes
    /\ HandsOut(out, s, D, m, kept, bytes) /\ Run(left, D + m, kept)
  BY DEF Splits
<1> DEFINE l == Len(s)
<1>0. l \in Nat /\ l + m < bytes /\ kept + bytes = l + m + b
  OBVIOUS
<1>1. ASSUME NEW i \in 1..l PROVE s[i] \in Nat /\ 1 <= s[i] /\ s[i] <= D /\ s[i] \in Bytes(s)
  <2>1. s[i] \in Bytes(s)
    BY DEF Bytes
  <2>2. QED
    BY <2>1, SMTT(30)
<1>2. out \in Seq(Nat) /\ Len(out) = bytes /\ left \in Seq(Nat) /\ Len(left) = kept
  BY DEF HandsOut, Run
<1> HIDE DEF l
<1>3. ASSUME NEW i \in 1..l PROVE i \in 1..bytes /\ out[i] = s[i]
  <2>1. i \in 1..bytes /\ i <= Len(s)
    BY <1>0 DEF l
  <2>2. QED
    BY <2>1 DEF HandsOut
<1>4. ASSUME NEW i \in (l + 1)..(l + m) PROVE i \in 1..bytes /\ out[i] = D + (i - l)
  <2>1. i \in 1..bytes /\ ~(i <= Len(s)) /\ i <= Len(s) + m
    BY <1>0 DEF l
  <2>2. QED
    BY <2>1 DEF HandsOut, l
<1>5. ASSUME NEW i \in (l + m + 1)..bytes PROVE i \in 1..bytes /\ out[i] = D + kept + (i - l)
  <2>1. i \in 1..bytes /\ ~(i <= Len(s)) /\ ~(i <= Len(s) + m)
    BY <1>0 DEF l
  <2>2. QED
    BY <2>1 DEF HandsOut, l
<1>6. 1..bytes = (1..l) \cup ((l + 1)..(l + m)) \cup ((l + m + 1)..bytes)
  BY <1>0
<1>7. ASSUME NEW i \in 1..kept PROVE left[i] = D + m + i
  BY DEF Run
<1>8. ASSUME NEW x \in Bytes(out) PROVE x \in Bytes(s) \/ x \in (D + 1)..(D + m) \/ x \in (D + m + kept + 1)..(D + m + b)
  <2>1. PICK i \in 1..bytes : x = out[i]
    BY <1>2 DEF Bytes
  <2>2. CASE i \in 1..l
    BY <1>1, <1>3, <2>1, <2>2
  <2>3. CASE i \in (l + 1)..(l + m)
    <3>1. x = D + (i - l)
      BY <1>4, <2>1, <2>3
    <3>2. QED
      BY <1>0, <2>3, <3>1
  <2>4. CASE i \in (l + m + 1)..bytes
    <3>1. x = D + kept + (i - l)
      BY <1>5, <2>1, <2>4
    <3>2. QED
      BY <1>0, <2>4, <3>1
  <2>5. QED
    BY <1>6, <2>1, <2>2, <2>3, <2>4
<1>9. ASSUME NEW x \in Bytes(left) PROVE x \in (D + m + 1)..(D + m + kept)
  <2>1. PICK i \in 1..kept : x = left[i]
    BY <1>2 DEF Bytes
  <2>2. QED
    BY <1>7, <2>1
<1>10. Bytes(s) \subseteq Bytes(out)
  <2>1. ASSUME NEW x \in Bytes(s) PROVE x \in Bytes(out)
    <3>1. PICK i \in 1..l : x = s[i]
      BY DEF Bytes, l
    <3>2. i \in 1..bytes /\ out[i] = x
      BY <1>3, <3>1
    <3>3. QED
      BY <1>2, <3>2 DEF Bytes
  <2>2. QED
    BY <2>1
<1>11. ASSUME NEW x \in (D + 1)..(D + m + b) PROVE x \in Bytes(out) \cup Bytes(left)
  <2>1. CASE x <= D + m
    <3> DEFINE i == x - D + l
    <3>1. i \in (l + 1)..(l + m) /\ D + (i - l) = x
      BY <1>0, <2>1
    <3> HIDE DEF i
    <3>2. i \in 1..bytes /\ out[i] = x
      BY <1>4, <3>1
    <3>3. QED
      BY <1>2, <3>2 DEF Bytes
  <2>2. CASE D + m < x /\ x <= D + m + kept
    <3> DEFINE i == x - D - m
    <3>1. i \in 1..kept /\ D + m + i = x
      BY <2>2
    <3> HIDE DEF i
    <3>2. left[i] = x
      BY <1>7, <3>1
    <3>3. QED
      BY <1>2, <3>1, <3>2 DEF Bytes
  <2>3. CASE D + m + kept < x
    <3> DEFINE i == x - D - kept + l
    <3>1. i \in (l + m + 1)..bytes /\ D + kept + (i - l) = x
      BY <1>0, <2>3
    <3> HIDE DEF i
    <3>2. i \in 1..bytes /\ out[i] = x
      BY <1>5, <3>1
    <3>3. QED
      BY <1>2, <3>2 DEF Bytes
  <2>4. QED
    BY <2>1, <2>2, <2>3
<1>12. kept <= b /\ (D + 1)..(D + m) \subseteq (D + 1)..(D + m + b)
       /\ (D + m + kept + 1)..(D + m + b) \subseteq (D + 1)..(D + m + b)
       /\ (D + m + 1)..(D + m + kept) \subseteq (D + 1)..(D + m + b)
  BY <1>0
<1>13. Bytes(out) \cup Bytes(left) = Bytes(s) \cup ((D + 1)..(D + m + b))
  BY <1>8, <1>9, <1>10, <1>11, <1>12
<1>14. Bytes(out) \cap Bytes(left) = {}
  <2>1. ASSUME NEW x \in Bytes(out), x \in Bytes(left) PROVE FALSE
    <3>1. x \in (D + m + 1)..(D + m + kept)
      BY <1>9, <2>1
    <3>2. ~(x \in 1..D) /\ ~(x \in (D + 1)..(D + m)) /\ ~(x \in (D + m + kept + 1)..(D + m + b))
      BY <3>1
    <3>3. QED
      BY <1>8, <3>2
  <2>2. QED
    BY <2>1
<1>15. Distinct(left)
  <2>1. ASSUME NEW i \in 1..kept, NEW j \in 1..kept, left[i] = left[j] PROVE i = j
    <3>1. D + m + i = D + m + j
      BY <1>7, <2>1
    <3>2. QED
      BY <3>1
  <2>2. QED
    BY <1>2, <2>1 DEF Distinct
<1>16. ASSUME Distinct(s) PROVE Distinct(out)
  <2>1. SUFFICES ASSUME NEW i \in 1..bytes, NEW j \in 1..bytes, out[i] = out[j], i < j PROVE FALSE
    <3>1. ASSUME NEW i \in 1..bytes, NEW j \in 1..bytes, out[i] = out[j] PROVE ~(i < j) /\ ~(j < i)
      BY <2>1, <3>1
    <3>2. ASSUME NEW i \in 1..bytes, NEW j \in 1..bytes, ~(i < j), ~(j < i) PROVE i = j
      BY <3>2
    <3>3. QED
      BY <1>2, <3>1, <3>2 DEF Distinct
  <2>2. CASE j \in 1..l
    <3>1. i \in 1..l
      BY <1>0, <2>1, <2>2
    <3>2. s[i] = s[j]
      BY <1>3, <2>1, <2>2, <3>1
    <3>3. i = j
      BY <1>16, <2>2, <3>1, <3>2 DEF Distinct, l
    <3>4. QED
      BY <2>1, <3>3
  <2>3. CASE j \in (l + 1)..(l + m)
    <3>1. out[j] = D + (j - l)
      BY <1>4, <2>3
    <3>2. CASE i \in 1..l
      <4>1. out[i] = s[i] /\ s[i] \in Nat /\ s[i] <= D
        BY <1>1, <1>3, <3>2
      <4>2. QED
        BY <1>0, <2>1, <2>3, <3>1, <4>1
    <3>3. CASE i \in (l + 1)..(l + m)
      <4>1. out[i] = D + (i - l)
        BY <1>4, <3>3
      <4>2. QED
        BY <1>0, <2>1, <2>3, <3>1, <4>1
    <3>4. QED
      BY <1>0, <2>1, <2>3, <3>2, <3>3
  <2>4. CASE j \in (l + m + 1)..bytes
    <3>1. out[j] = D + kept + (j - l)
      BY <1>5, <2>4
    <3>2. CASE i \in 1..l
      <4>1. out[i] = s[i] /\ s[i] \in Nat /\ s[i] <= D
        BY <1>1, <1>3, <3>2
      <4>2. QED
        BY <1>0, <2>1, <2>4, <3>1, <4>1
    <3>3. CASE i \in (l + 1)..(l + m)
      <4>1. out[i] = D + (i - l)
        BY <1>4, <3>3
      <4>2. QED
        BY <1>0, <2>1, <2>4, <3>1, <4>1
    <3>4. CASE i \in (l + m + 1)..bytes
      <4>1. out[i] = D + kept + (i - l)
        BY <1>5, <3>4
      <4>2. QED
        BY <1>0, <2>1, <2>4, <3>1, <4>1
    <3>5. QED
      BY <1>6, <3>2, <3>3, <3>4
  <2>5. QED
    BY <1>6, <2>2, <2>3, <2>4
<1>17. QED
  BY <1>13, <1>14, <1>15, <1>16

\* What a call does, whichever way it goes.
Takes(u, bytes, head, last, kept, fresh) ==
  /\ drawn' = drawn + fresh
  /\ buffers' = [buffers EXCEPT ![u] = SubSeq(last, 1, kept)]
  /\ handed' = handed \cup Random!ToSet(head \o SubSeq(last, kept + 1, Len(last)))
  /\ upset' = upset
  /\ repeated' = (repeated \/ Random!ToSet(head \o SubSeq(last, kept + 1, Len(last))) \cap handed # {}
                   \/ Random!Cardinality(Random!ToSet(head \o SubSeq(last, kept + 1, Len(last)))) # bytes)

\* random_data in those words.
LEMMA CallTakes ==
  ASSUME NEW u, NEW bytes, Random!random_data(u, bytes)
  PROVE  LET s == buffers[u]
             n == Random!Refills(s, bytes)
             head == Random!Copied(s, n)
             last == Random!Source(s, n)
         IN  Takes(u, bytes, head, last, Len(last) - (bytes - Len(head)), n * BufferSize)
BY Zenon DEF Takes, Random!random_data, Random!Left

\* A call of random_data that its buffer serves.
LEMMA ServedStep ==
  ASSUME RandomInv, NEW u \in Users, NEW bytes \in Nat, Random!random_data(u, bytes), Len(buffers[u]) >= bytes
  PROVE  RandomInv'
<1> DEFINE s == buffers[u]
<1> DEFINE kept == Len(s) - bytes
<1> DEFINE out == SubSeq(s, kept + 1, Len(s))
<1> DEFINE left == SubSeq(s, 1, kept)
<1>1. buffers \in [Users -> Seq(Nat)] /\ s \in Seq(Nat) /\ Len(s) \in Nat /\ kept \in Nat /\ drawn \in Nat /\ repeated \in BOOLEAN /\ BufferSize \in Nat
  BY RandomAssumption DEF RandomInv, RandomTypeOK
<1>2. Random!Refills(s, bytes) = 0
  BY DEF Random!Refills
<1>3. Random!Copied(s, 0) = <<>> /\ Random!Source(s, 0) = s
  BY DEF Random!Copied, Random!Source
<1>4. Len(<<>>) = 0 /\ <<>> \o SubSeq(s, kept + 1, Len(s)) = SubSeq(s, kept + 1, Len(s)) /\ 0 * BufferSize = 0
  BY <1>1
<1>5. /\ out \in Seq(Nat) /\ Len(out) = bytes /\ \A i \in 1..bytes : out[i] = s[kept + i]
      /\ left \in Seq(Nat) /\ Len(left) = kept /\ \A i \in 1..kept : left[i] = s[i]
  <2>1. Len(s) - kept = bytes /\ kept <= Len(s) /\ \A i \in 1..bytes : kept + 1 + i - 1 = kept + i
    BY <1>1
  <2> HIDE DEF s, kept
  <2>2. out \in Seq(Nat) /\ Len(out) = bytes /\ \A i \in 1..bytes : out[i] = s[kept + i]
    BY <1>1, <2>1
  <2>3. s \in Seq(Nat) /\ kept \in Nat /\ kept <= Len(s)
    BY <1>1, <2>1
  <2>4. left \in Seq(Nat) /\ Len(left) = kept /\ \A i \in 1..kept : left[i] = s[i]
    BY <2>3
  <2>5. QED
    BY <2>2, <2>4
<1>6. Random!ToSet(out) = Bytes(out)
  BY <1>5, ToSetBytes
<1>7. /\ buffers' = [buffers EXCEPT ![u] = left]
      /\ drawn' = drawn /\ handed' = handed \cup Bytes(out)
      /\ repeated' = (repeated \/ Bytes(out) \cap handed # {} \/ Cardinality(Bytes(out)) # bytes)
      /\ upset' = upset
  <2>1. Len(s) - (bytes - Len(<<>>)) = kept
    BY <1>1, <1>4
  <2> HIDE DEF kept
  <2>2. Takes(u, bytes, <<>>, s, kept, 0 * BufferSize)
    BY <1>2, <1>3, <2>1, CallTakes
  <2> HIDE DEF s
  <2>3. Takes(u, bytes, <<>>, s, kept, 0)
    BY <1>4, <2>2
  <2>4. /\ buffers' = [buffers EXCEPT ![u] = left] /\ drawn' = drawn /\ upset' = upset
    BY <1>1, <2>3 DEF Takes
  <2>5. handed' = handed \cup Random!ToSet(out)
    BY <1>4, <2>3 DEF Takes
  <2>6. repeated' = (repeated \/ Random!ToSet(out) \cap handed # {} \/ Random!Cardinality(Random!ToSet(out)) # bytes)
    BY <1>4, <2>3, Zenon DEF Takes
  <2> HIDE DEF out, left
  <2>7. QED
    BY <1>6, <2>4, <2>5, <2>6, SameCount
<1> HIDE DEF out, left
<1>8. Bytes(out) \cup Bytes(left) = Bytes(s) \cup ((drawn + 1)..drawn)
  <2>1. (drawn + 1)..drawn = {}
    BY <1>1
  <2>2. ASSUME NEW i \in 1..Len(s) PROVE s[i] \in Bytes(out) \cup Bytes(left)
    <3>1. CASE i <= kept
      <4>1. i \in 1..kept /\ left[i] = s[i]
        BY <1>1, <1>5, <3>1
      <4>2. QED
        BY <1>5, <4>1 DEF Bytes
    <3>2. CASE i > kept
      <4>1. i - kept \in 1..bytes /\ kept + (i - kept) = i
        BY <1>1, <3>2
      <4> HIDE DEF kept
      <4>2. out[i - kept] = s[i]
        BY <1>5, <4>1
      <4>3. QED
        BY <1>5, <4>1, <4>2 DEF Bytes
    <3>3. QED
      BY <1>1, <3>1, <3>2
  <2>3. ASSUME NEW x \in Bytes(out) PROVE x \in Bytes(s)
    <3>1. PICK i \in 1..bytes : x = out[i]
      BY <1>5 DEF Bytes
    <3>2. kept + i \in 1..Len(s)
      BY <1>1
    <3>3. x = s[kept + i]
      BY <1>5, <3>1
    <3> HIDE DEF kept, s
    <3>4. QED
      BY <3>2, <3>3 DEF Bytes
  <2>4. ASSUME NEW x \in Bytes(left) PROVE x \in Bytes(s)
    <3>1. PICK i \in 1..kept : x = left[i]
      BY <1>5 DEF Bytes
    <3>2. i \in 1..Len(s)
      BY <1>1
    <3>4. x = s[i]
      BY <1>5, <3>1
    <3> HIDE DEF s
    <3>3. QED
      BY <3>2, <3>4 DEF Bytes
  <2>5. Bytes(s) \subseteq Bytes(out) \cup Bytes(left)
    BY <2>2 DEF Bytes
  <2>6. QED
    BY <2>1, <2>3, <2>4, <2>5
<1>9. ASSUME Distinct(s) PROVE Distinct(out) /\ Distinct(left) /\ Bytes(out) \cap Bytes(left) = {}
  <2>1. \A i, j \in 1..Len(s) : s[i] = s[j] => i = j
    BY <1>9 DEF Distinct
  <2>2. kept \in Nat /\ \A i \in 1..bytes : kept + i \in 1..Len(s) /\ kept + i > kept
    BY <1>1
  <2>3. \A i \in 1..kept : i \in 1..Len(s) /\ ~(i > kept)
    BY <1>1
  <2> HIDE DEF s, kept
  <2>4. ASSUME NEW i \in 1..bytes, NEW j \in 1..bytes, out[i] = out[j] PROVE i = j
    <3>1. s[kept + i] = s[kept + j]
      BY <1>5, <2>4
    <3>2. kept + i = kept + j
      BY <2>1, <2>2, <3>1
    <3>3. QED
      BY <2>2, <3>2
  <2>5. ASSUME NEW i \in 1..kept, NEW j \in 1..kept, left[i] = left[j] PROVE i = j
    BY <1>5, <2>1, <2>3, <2>5
  <2>6. ASSUME NEW i \in 1..bytes, NEW j \in 1..kept, out[i] = left[j] PROVE FALSE
    <3>1. s[kept + i] = s[j]
      BY <1>5, <2>6
    <3>2. kept + i = j
      BY <2>1, <2>2, <2>3, <3>1
    <3>3. QED
      BY <2>2, <2>3, <3>2
  <2>7. Bytes(out) \cap Bytes(left) = {}
    BY <1>5, <2>6 DEF Bytes
  <2>8. QED
    BY <1>5, <2>4, <2>5, <2>7 DEF Distinct
<1>10. repeated' \in BOOLEAN
  BY <1>7
<1>11. repeated' => repeated \/ Bytes(out) \cap handed # {} \/ Cardinality(Bytes(out)) # Len(out)
  BY <1>5, <1>7
<1>12. drawn <= drawn
  BY <1>1
<1>13. QED
  BY <1>1, <1>5, <1>7, <1>8, <1>9, <1>10, <1>11, <1>12, DrawStep

\* A call that fills the buffer.
LEMMA FilledStep ==
  ASSUME RandomInv, NEW u \in Users, NEW bytes \in Nat, Random!random_data(u, bytes), Len(buffers[u]) < bytes
  PROVE  RandomInv'
<1> DEFINE s == buffers[u]
<1> DEFINE n == Random!Refills(s, bytes)
<1> DEFINE m == (n - 1) * BufferSize
<1> DEFINE kept == m + BufferSize + Len(s) - bytes
<1> DEFINE head == Random!Copied(s, n)
<1> DEFINE last == Random!Source(s, n)
<1> DEFINE out == head \o SubSeq(last, kept + 1, BufferSize)
<1> DEFINE left == SubSeq(last, 1, kept)
<1>1. /\ buffers \in [Users -> Seq(Nat)] /\ s \in Seq(Nat) /\ Len(s) \in Nat /\ drawn \in Nat /\ repeated \in BOOLEAN
      /\ BufferSize \in Nat /\ Bytes(s) \subseteq 1..drawn
  BY RandomAssumption DEF RandomInv, RandomTypeOK
<1>2. /\ n \in Nat /\ n >= 1 /\ m \in Nat /\ n * BufferSize = m + BufferSize
      /\ m < bytes - Len(s) /\ bytes - Len(s) <= m + BufferSize
  BY <1>1, RefillsFit
<1>3. kept \in Nat /\ kept < BufferSize
  <2> HIDE DEF m
  <2>1. QED
    BY <1>1, <1>2
<1>4. /\ head = s \o [i \in 1..m |-> drawn + i]
      /\ last = [i \in 1..BufferSize |-> drawn + m + i]
  <2>1. n # 0
    BY <1>2
  <2>2. QED
    BY <2>1 DEF Random!Copied, Random!Source, Random!Fresh
<1>5. n * BufferSize \in Nat
  BY <1>1, <1>2
<1>6. Takes(u, bytes, head, last, Len(last) - (bytes - Len(head)), n * BufferSize)
  BY CallTakes
<1> HIDE DEF s, n, m, head, last
<1>7. /\ head \in Seq(Nat) /\ Len(head) = Len(s) + m
      /\ \A i \in 1..(Len(s) + m) : head[i] = IF i <= Len(s) THEN s[i] ELSE drawn + (i - Len(s))
  <2> DEFINE f == [i \in 1..m |-> drawn + i]
  <2>1. Run(f, drawn, m)
    BY <1>1, <1>2 DEF Run
  <2>2. head = s \o f
    BY <1>4
  <2> HIDE DEF f
  <2>3. m \in Nat /\ s \in Seq(Nat) /\ drawn \in Nat
    BY <1>1, <1>2, <1>3
  <2>4. /\ s \o f \in Seq(Nat) /\ Len(s \o f) = Len(s) + m
        /\ \A i \in 1..(Len(s) + m) : (s \o f)[i] = IF i <= Len(s) THEN s[i] ELSE drawn + (i - Len(s))
    BY <2>1, <2>3, Appended
  <2>5. QED
    BY <2>2, <2>4
<1>8. last \in Seq(Nat) /\ Len(last) = BufferSize /\ \A i \in 1..BufferSize : last[i] = drawn + m + i
  BY <1>1, <1>2, <1>4
<1>9. Len(last) - (bytes - Len(head)) = kept
  BY <1>1, <1>2, <1>7, <1>8
<1>10. left \in Seq(Nat) /\ Len(left) = kept /\ \A i \in 1..kept : left[i] = drawn + m + i
  <2> HIDE DEF kept
  <2>1. QED
    BY <1>1, <1>3, <1>8
<1>11. /\ out \in Seq(Nat) /\ Len(out) = bytes
       /\ \A i \in 1..bytes : out[i] = IF i <= Len(s) THEN s[i]
                                       ELSE IF i <= Len(s) + m THEN drawn + (i - Len(s)) ELSE drawn + kept + (i - Len(s))
  <2> DEFINE rest == SubSeq(last, kept + 1, BufferSize)
  <2>1. rest \in Seq(Nat) /\ Len(rest) = BufferSize - kept /\ \A i \in 1..(BufferSize - kept) : rest[i] = drawn + m + (kept + i)
    <3> HIDE DEF kept
    <3>1. QED
      BY <1>1, <1>2, <1>3, <1>8
  <2>2. out = head \o rest
    OBVIOUS
  <2> HIDE DEF rest, out
  <2>3. Len(head) + Len(rest) = bytes
    BY <1>1, <1>2, <1>7, <2>1
  <2>4. /\ out \in Seq(Nat) /\ Len(out) = bytes
        /\ \A i \in 1..bytes : out[i] = IF i <= Len(s) + m THEN head[i] ELSE rest[i - (Len(s) + m)]
    BY <1>7, <2>1, <2>2, <2>3
  <2>5. ASSUME NEW i \in 1..bytes, Len(s) + m < i PROVE out[i] = drawn + kept + (i - Len(s))
    <3>1. i - (Len(s) + m) \in 1..(BufferSize - kept)
      BY <1>1, <1>2, <2>5
    <3>2. out[i] = rest[i - (Len(s) + m)]
      BY <1>1, <1>2, <2>4, <2>5
    <3>3. rest[i - (Len(s) + m)] = drawn + m + (kept + (i - (Len(s) + m)))
      BY <2>1, <3>1
    <3> HIDE DEF kept
    <3>4. QED
      BY <1>1, <1>2, <1>3, <3>2, <3>3
  <2>6. ASSUME NEW i \in 1..bytes, i <= Len(s) + m PROVE out[i] = IF i <= Len(s) THEN s[i] ELSE drawn + (i - Len(s))
    BY <1>1, <1>2, <1>7, <2>4, <2>6, SMTT(30)
  <2>7. QED
    BY <1>1, <1>2, <2>4, <2>5, <2>6
<1>12. Random!ToSet(out) = Bytes(out)
  BY <1>11, ToSetBytes
<1>13. /\ drawn' = drawn + m + BufferSize
       /\ buffers' = [buffers EXCEPT ![u] = left]
       /\ handed' = handed \cup Bytes(out)
       /\ repeated' = (repeated \/ Bytes(out) \cap handed # {} \/ Cardinality(Bytes(out)) # Len(out))
       /\ upset' = upset
  <2> HIDE DEF kept
  <2>1. Takes(u, bytes, head, last, kept, m + BufferSize)
    BY <1>2, <1>6, <1>9
  <2>2. SubSeq(last, kept + 1, Len(last)) = SubSeq(last, kept + 1, BufferSize)
    BY <1>8
  <2>3. /\ buffers' = [buffers EXCEPT ![u] = left] /\ drawn' = drawn + (m + BufferSize) /\ upset' = upset
    BY <2>1 DEF Takes
  <2>4. handed' = handed \cup Random!ToSet(out)
    BY <2>1, <2>2 DEF Takes
  <2>5. repeated' = (repeated \/ Random!ToSet(out) \cap handed # {} \/ Random!Cardinality(Random!ToSet(out)) # bytes)
    BY <2>1, <2>2, Zenon DEF Takes
  <2> HIDE DEF out, left
  <2>6. drawn' = drawn + m + BufferSize
    BY <1>1, <1>2, <2>3
  <2>7. repeated' = (repeated \/ Bytes(out) \cap handed # {} \/ Cardinality(Bytes(out)) # Len(out))
    BY <1>11, <1>12, <2>5, SameCount
  <2>8. QED
    BY <1>12, <2>3, <2>4, <2>6, <2>7
<1>14. kept = m + BufferSize + Len(s) - bytes
  OBVIOUS
<1> HIDE DEF out, left, kept
<1>15. /\ Bytes(out) \cup Bytes(left) = Bytes(s) \cup ((drawn + 1)..(drawn + m + BufferSize))
       /\ Distinct(s) => Distinct(out) /\ Distinct(left) /\ Bytes(out) \cap Bytes(left) = {}
  <2>1. HandsOut(out, s, drawn, m, kept, bytes)
    BY <1>11 DEF HandsOut
  <2>2. Run(left, drawn + m, kept)
    BY <1>10 DEF Run
  <2>3. Splits(s, drawn, m, BufferSize, bytes, kept, out, left)
    BY <1>1, <1>2, <1>3, <1>14, <2>1, <2>2 DEF Splits
  <2>4. QED
    BY <2>3, Filled
<1> DEFINE d == drawn + m + BufferSize
<1>16. d \in Nat /\ drawn <= d /\ drawn' = d
  BY <1>1, <1>2, <1>13
<1> HIDE DEF d
<1>17. /\ Bytes(out) \cup Bytes(left) = Bytes(buffers[u]) \cup ((drawn + 1)..d)
       /\ Distinct(buffers[u]) => Distinct(out) /\ Distinct(left) /\ Bytes(out) \cap Bytes(left) = {}
  BY <1>15 DEF d, s
<1>18. repeated' \in BOOLEAN
  BY <1>13
<1>19. QED
  BY <1>10, <1>11, <1>13, <1>16, <1>17, <1>18, DrawStep

\* The device fails: what was copied is handed out, and what is kept is a filling of it or the buffer.
LEMMA ThrowingStep ==
  ASSUME RandomInv, NEW u \in Users, NEW bytes \in Nat, NEW k \in Nat, Random!random_data_throws(u, bytes, k)
  PROVE  RandomInv'
<1> DEFINE s == buffers[u]
<1> DEFINE m == (k - 1) * BufferSize
<1> DEFINE out == Random!Copied(s, k)
<1> DEFINE left == IF k = 1 THEN s ELSE Random!Fresh(k - 2)
<1>1. /\ buffers \in [Users -> Seq(Nat)] /\ s \in Seq(Nat) /\ Len(s) \in Nat /\ drawn \in Nat /\ repeated \in BOOLEAN
      /\ BufferSize \in Nat /\ BufferSize > 0 /\ Bytes(s) \subseteq 1..drawn
  BY RandomAssumption DEF RandomInv, RandomTypeOK
<1>2. /\ k \in 1..Random!Refills(s, bytes) /\ drawn' = drawn + m
      /\ buffers' = [buffers EXCEPT ![u] = left] /\ handed' = handed \cup Random!ToSet(out)
      /\ repeated' = (repeated \/ Random!ToSet(out) \cap handed # {})
      /\ upset' = IF out = <<>> THEN upset ELSE upset \cup {"failure"}
  BY DEF Random!random_data_throws
<1>3. k >= 1 /\ m \in Nat /\ (k = 1 => m = 0) /\ (k # 1 => (k - 2) * BufferSize \in Nat /\ m = (k - 2) * BufferSize + BufferSize)
  <2>1. k >= 1
    BY <1>2
  <2>2. k = 1 => m = 0
    BY <1>1
  <2>3. k # 1 => (k - 2) * BufferSize \in Nat /\ m = (k - 2) * BufferSize + BufferSize
    BY <1>1, <2>1
  <2>4. QED
    BY <1>1, <2>1, <2>2, <2>3
<1>4. out = s \o [i \in 1..m |-> drawn + i]
  BY <1>3 DEF Random!Copied
<1>5. left = IF k = 1 THEN s ELSE [i \in 1..BufferSize |-> drawn + (k - 2) * BufferSize + i]
  BY DEF Random!Fresh
<1> HIDE DEF s, out, left, m
<1>6. /\ out \in Seq(Nat) /\ Len(out) = Len(s) + m
      /\ \A i \in 1..(Len(s) + m) : out[i] = IF i <= Len(s) THEN s[i] ELSE drawn + (i - Len(s))
  <2> DEFINE f == [i \in 1..m |-> drawn + i]
  <2>1. Run(f, drawn, m)
    BY <1>1, <1>3 DEF Run
  <2>2. out = s \o f
    BY <1>4
  <2> HIDE DEF f
  <2>3. m \in Nat /\ s \in Seq(Nat) /\ drawn \in Nat
    BY <1>1, <1>2, <1>3
  <2>4. /\ s \o f \in Seq(Nat) /\ Len(s \o f) = Len(s) + m
        /\ \A i \in 1..(Len(s) + m) : (s \o f)[i] = IF i <= Len(s) THEN s[i] ELSE drawn + (i - Len(s))
    BY <2>1, <2>3, Appended
  <2>5. QED
    BY <2>2, <2>4
<1>7. Bytes(out) = Bytes(s) \cup ((drawn + 1)..(drawn + m))
  <2>1. ASSUME NEW i \in 1..Len(s) PROVE i \in 1..Len(out) /\ out[i] = s[i]
    <3>1. i \in 1..(Len(s) + m) /\ i <= Len(s)
      BY <1>1, <1>3
    <3>2. QED
      BY <1>6, <3>1
  <2>2. ASSUME NEW x \in (drawn + 1)..(drawn + m) PROVE x \in Bytes(out)
    <3> DEFINE i == x - drawn + Len(s)
    <3>1. i \in 1..(Len(s) + m) /\ i > Len(s) /\ drawn + (i - Len(s)) = x
      BY <1>1, <1>3
    <3> HIDE DEF i
    <3>2. out[i] = x
      BY <1>1, <1>6, <3>1
    <3>3. QED
      BY <1>6, <3>1, <3>2 DEF Bytes
  <2>3. ASSUME NEW i \in 1..(Len(s) + m) PROVE out[i] \in Bytes(s) \cup ((drawn + 1)..(drawn + m))
    <3>1. CASE i <= Len(s)
      BY <1>1, <1>6, <3>1 DEF Bytes
    <3>2. CASE i > Len(s)
      BY <1>1, <1>3, <1>6, <3>2
    <3>3. QED
      BY <1>1, <1>3, <3>1, <3>2
  <2>4. Bytes(s) \subseteq Bytes(out)
    BY <2>1 DEF Bytes
  <2>5. Bytes(out) \subseteq Bytes(s) \cup ((drawn + 1)..(drawn + m))
    BY <1>6, <2>3 DEF Bytes
  <2>6. QED
    BY <2>2, <2>4, <2>5
<1>8. left \in Seq(Nat) /\ Bytes(left) \subseteq Bytes(s) \cup ((drawn + 1)..(drawn + m))
  <2>1. CASE k = 1
    BY <1>1, <1>5, <2>1
  <2>2. CASE k # 1
    <3> DEFINE t == (k - 2) * BufferSize
    <3>1. t \in Nat /\ m = t + BufferSize /\ left = [i \in 1..BufferSize |-> drawn + t + i]
      BY <1>3, <1>5, <2>2
    <3> HIDE DEF t
    <3>2. left \in Seq(Nat) /\ Len(left) = BufferSize /\ \A i \in 1..BufferSize : left[i] \in (drawn + 1)..(drawn + m)
      BY <1>1, <3>1
    <3>3. QED
      BY <3>2 DEF Bytes
  <2>3. QED
    BY <2>1, <2>2
<1>9. Random!ToSet(out) = Bytes(out)
  BY <1>6, ToSetBytes
<1>10. ASSUME upset' = {} PROVE out = <<>> /\ upset = {}
  BY <1>2, <1>10
<1>11. ASSUME out = <<>> PROVE left = out /\ Bytes(out) = {} /\ Distinct(out)
  <2>1. Len(s) + m = 0
    BY <1>6, <1>11
  <2>2. Len(s) = 0 /\ m = 0
    BY <1>1, <1>3, <2>1
  <2>3. k = 1
    BY <1>1, <1>3, <2>2
  <2>4. s = <<>>
    BY <1>1, <2>2
  <2>5. QED
    BY <1>5, <1>11, <2>3, <2>4 DEF Bytes, Distinct
<1>12. repeated' = (repeated \/ Bytes(out) \cap handed # {})
  BY <1>2, <1>9
<1>13. repeated' \in BOOLEAN
  BY <1>12
<1> DEFINE d == drawn + m
<1>14. d \in Nat /\ drawn <= d /\ drawn' = d
  BY <1>1, <1>2, <1>3
<1> HIDE DEF d
<1>15. Bytes(out) \cup Bytes(left) = Bytes(buffers[u]) \cup ((drawn + 1)..d)
  BY <1>7, <1>8 DEF d, s
<1>16. upset' = {} => /\ upset = {}
                      /\ repeated' => repeated \/ Bytes(out) \cap handed # {} \/ Cardinality(Bytes(out)) # Len(out)
                      /\ Distinct(buffers[u]) => Distinct(out) /\ Distinct(left) /\ Bytes(out) \cap Bytes(left) = {}
  BY <1>10, <1>11, <1>12
<1>17. QED
  BY <1>2, <1>6, <1>8, <1>9, <1>13, <1>14, <1>15, <1>16, DrawStep

\* The copy of a buffer with bytes breaks what holds while nothing has happened, but no byte is lost.
LEMMA BufferForkStep ==
  ASSUME RandomInv, NEW u \in Users, NEW child \in Users, Random!fork(u, child)
  PROVE  RandomInv'
<1>1. /\ buffers[child] = <<>> /\ buffers' = [buffers EXCEPT ![child] = buffers[u]]
      /\ upset' = upset \cup {"fork"} /\ drawn' = drawn /\ handed' = handed /\ repeated' = repeated
  BY DEF Random!fork
<1>2. /\ buffers \in [Users -> Seq(Nat)] /\ drawn \in Nat /\ handed \subseteq 1..drawn /\ repeated \in BOOLEAN
      /\ \A v \in Users : Bytes(buffers[v]) \subseteq 1..drawn
  BY DEF RandomInv, RandomTypeOK
<1>3. \A v \in Users : buffers'[v] = IF v = child THEN buffers[u] ELSE buffers[v]
  BY <1>1, <1>2
<1>4. RandomTypeOK'
  <2>1. buffers' \in [Users -> Seq(Nat)]
    BY <1>1, <1>2
  <2>2. \A v \in Users : Bytes(buffers'[v]) \subseteq 1..drawn'
    BY <1>1, <1>2, <1>3
  <2>3. RandomTypeOK' <=> /\ buffers' \in [Users -> Seq(Nat)] /\ drawn' \in Nat /\ handed' \subseteq 1..drawn'
                          /\ \A v \in Users : Bytes(buffers'[v]) \subseteq 1..drawn'
                          /\ repeated' \in BOOLEAN
    BY DEF RandomTypeOK, Bytes
  <2>4. QED
    BY <1>1, <1>2, <2>1, <2>2, <2>3
<1>5. Dropless'
  <2>1. Bytes(buffers[child]) = {}
    BY <1>1 DEF Bytes
  <2>2. ASSUME NEW x \in 1..drawn PROVE x \in handed' \/ \E v \in Users : x \in Bytes(buffers'[v])
    <3>1. x \in handed \/ \E v \in Users : x \in Bytes(buffers[v])
      BY DEF RandomInv, Dropless
    <3>2. QED
      BY <1>1, <1>3, <2>1, <3>1
  <2>3. QED
    BY <1>1, <2>2 DEF Dropless, Bytes
<1>6. QED
  BY <1>1, <1>4, <1>5 DEF RandomInv

\* Nothing has been drawn.
LEMMA RandomInitInv == Random!RandomInit => RandomInv
<1> SUFFICES ASSUME Random!RandomInit PROVE RandomInv
  OBVIOUS
<1>1. /\ buffers = [v \in Users |-> <<>>] /\ drawn = 0 /\ handed = {} /\ repeated = FALSE
  BY DEF Random!RandomInit
<1>2. \A v \in Users : buffers[v] = <<>> /\ Bytes(buffers[v]) = {} /\ Distinct(buffers[v])
  BY <1>1 DEF Bytes, Distinct
<1>3. RandomTypeOK
  <2>1. buffers \in [Users -> Seq(Nat)] /\ handed \subseteq 1..drawn /\ drawn \in Nat
    BY <1>1
  <2>2. QED
    BY <1>1, <1>2, <2>1 DEF RandomTypeOK
<1>4. Dropless
  BY <1>1 DEF Dropless
<1>5. Apart
  BY <1>2 DEF Apart
<1>6. QED
  BY <1>1, <1>3, <1>4, <1>5 DEF RandomInv

\* One call, a fork, or the end of the device.
LEMMA RandomNextInv ==
  ASSUME RandomInv, [Random!RandomNext]_randomVars
  PROVE  RandomInv'
<1>1. ASSUME buffers' = buffers, drawn' = drawn, handed' = handed, repeated' = repeated, upset' = upset PROVE RandomInv'
  <2>1. RandomTypeOK'
    BY <1>1 DEF RandomInv, RandomTypeOK, Bytes
  <2>2. Dropless'
    BY <1>1 DEF RandomInv, Dropless, Bytes
  <2>3. ASSUME Apart PROVE Apart'
    <3>1. /\ \A v \in Users : Distinct(buffers'[v]) /\ Bytes(buffers'[v]) \cap handed' = {}
          /\ \A v, w \in Users : v # w => Bytes(buffers'[v]) \cap Bytes(buffers'[w]) = {}
      BY <1>1, <2>3 DEF Apart
    <3>2. QED
      BY <3>1 DEF Apart, Bytes, Distinct
  <2>4. QED
    BY <1>1, <2>1, <2>2, <2>3 DEF RandomInv
<1>2. CASE UNCHANGED randomVars
  BY <1>1, <1>2 DEF randomVars
<1>3. ASSUME NEW u \in Users, NEW bytes \in Requests, Random!random_data(u, bytes) PROVE RandomInv'
  <2>1. bytes \in Nat /\ Len(buffers[u]) \in Nat
    BY RandomAssumption DEF RandomInv, RandomTypeOK
  <2>2. QED
    BY <1>3, <2>1, ServedStep, FilledStep
<1>4. ASSUME NEW u \in Users, NEW bytes \in Requests, NEW k \in 1..2, Random!random_data_throws(u, bytes, k) PROVE RandomInv'
  <2>1. bytes \in Nat /\ k \in Nat
    BY RandomAssumption
  <2>2. QED
    BY <1>4, <2>1, ThrowingStep
<1>5. CASE Random!close_random_device
  BY <1>1, <1>5 DEF Random!close_random_device
<1>6. QED
  BY <1>2, <1>3, <1>4, <1>5, BufferForkStep DEF Random!RandomNext

(* Of all the bytes of the device, whatever the sizes asked for: none is handed out twice unless a    *)
(* process forked with bytes in its buffer or the device failed in the middle of a call, and none is  *)
(* dropped (random_data, Random.cc).                                                                 *)
THEOREM RandomBytes == Random!RandomSpec => []EachByteCounts
<1>1. RandomInv => EachByteCounts
  <2> SUFFICES ASSUME RandomInv PROVE EachByteCounts
    OBVIOUS
  <2>1. Random!EachByteOnce
    BY DEF RandomInv, Random!EachByteOnce
  <2>2. \A v \in Users : Random!ToSet(buffers[v]) = Bytes(buffers[v])
    BY ToSetBytes DEF RandomInv, RandomTypeOK
  <2>3. Random!NoByteDropped
    BY <2>2 DEF RandomInv, Dropless, Random!NoByteDropped
  <2>4. QED
    BY <2>1, <2>3 DEF EachByteCounts
<1>2. QED
  BY RandomInitInv, RandomNextInv, <1>1, PTL DEF Random!RandomSpec, Random!randomVars, randomVars
-----------------------------------------------------------------------------
\* Recursive functions.

\* A set of numbers from 0 to top that has 0 and each number's successor has them all.
LEMMA Upward ==
  ASSUME NEW top \in Nat, NEW S, 0 \in S, \A k \in 0..top : k \in S /\ k < top => k + 1 \in S
  PROVE  \A k \in 0..top : k \in S
<1> SUFFICES ASSUME NEW j \in 0..top, j \notin S PROVE FALSE
  OBVIOUS
<1> DEFINE Out == {k \in 0..top : k \notin S}
<1>1. Out \subseteq Nat /\ Out # {}
  OBVIOUS
<1> HIDE DEF Out
<1>2. PICK k \in Out : \A i \in Out : k <= i
  BY <1>1, HasLeast
<1>3. k \in 0..top /\ k \notin S /\ k # 0
  BY <1>2 DEF Out
<1>4. k - 1 \in 0..top /\ k - 1 < top /\ ~(k <= k - 1)
  BY <1>3
<1>5. k - 1 \in S
  BY <1>2, <1>4 DEF Out
<1>6. (k - 1) + 1 \in S
  BY <1>4, <1>5
<1>7. QED
  BY <1>3, <1>6

\* f is the recursion over 0..top that starts with b and goes on with step.
Solves(f, S, b, step, top) ==
  f \in [0..top -> S] /\ f[0] = b /\ \A k \in 1..top : f[k] = step[<<k, f[k - 1]>>]

\* There is one when the step is a function.
LEMMA Recursion ==
  ASSUME NEW S, NEW b \in S, NEW top \in Nat, NEW step \in [(1..top) \X S -> S]
  PROVE  \E f : Solves(f, S, b, step, top)
<1> DEFINE Sound == {k \in 0..top : \E f \in [0..k -> S] :
                      f[0] = b /\ \A i \in 1..k : f[i] = step[<<i, f[i - 1]>>]}
<1>1. 0 \in Sound
  <2>1. PICK f \in [0..0 -> S] : f[0] = b
    <3>1. [i \in 0..0 |-> b] \in [0..0 -> S] /\ [i \in 0..0 |-> b][0] = b
      OBVIOUS
    <3>2. QED
      BY <3>1
  <2>2. 1..0 = {} /\ 0 \in 0..top
    OBVIOUS
  <2>3. QED
    BY <2>1, <2>2
<1>2. \A k \in 0..top : k \in Sound /\ k < top => k + 1 \in Sound
  <2> SUFFICES ASSUME NEW k \in 0..top, k \in Sound, k < top PROVE k + 1 \in Sound
    OBVIOUS
  <2>1. PICK f \in [0..k -> S] : f[0] = b /\ \A i \in 1..k : f[i] = step[<<i, f[i - 1]>>]
    OBVIOUS
  <2>2. f[k] \in S /\ <<k + 1, f[k]>> \in (1..top) \X S
    BY <2>1
  <2>3. PICK s \in S : s = step[<<k + 1, f[k]>>]
    BY <2>2
  <2> DEFINE g == [i \in 0..(k + 1) |-> IF i = k + 1 THEN s ELSE f[i]]
  <2>4. g \in [0..(k + 1) -> S]
    BY <2>1, <2>3
  <2>5. g[0] = b
    BY <2>1
  <2>6. \A i \in 1..(k + 1) : g[i] = step[<<i, g[i - 1]>>]
    <3> SUFFICES ASSUME NEW i \in 1..(k + 1) PROVE g[i] = step[<<i, g[i - 1]>>]
      OBVIOUS
    <3>1. CASE i = k + 1
      <4>1. g[i] = s /\ g[i - 1] = f[k]
        BY <3>1
      <4>2. QED
        BY <2>3, <3>1, <4>1
    <3>2. CASE i # k + 1
      <4>1. i \in 1..k /\ g[i] = f[i] /\ g[i - 1] = f[i - 1]
        BY <3>2
      <4>2. QED
        BY <2>1, <4>1
    <3>3. QED
      BY <3>1, <3>2
  <2>7. k + 1 \in 0..top
    OBVIOUS
  <2> HIDE DEF g
  <2>8. QED
    BY <2>4, <2>5, <2>6, <2>7
<1> HIDE DEF Sound
<1>3. top \in Sound
  BY <1>1, <1>2, Upward
<1>4. QED
  BY <1>3 DEF Sound, Solves

\* What follows the steps as long as it stays in S is that one.
LEMMA Follows ==
  ASSUME NEW S, NEW b \in S, NEW top \in Nat, NEW step \in [(1..top) \X S -> S], NEW f, DOMAIN f = 0..top, f = [k \in 0..top |-> f[k]],
         f[0] = b, \A k \in 1..top : f[k - 1] \in S => f[k] = step[<<k, f[k - 1]>>]
  PROVE  Solves(f, S, b, step, top)
<1> DEFINE Sound == {k \in 0..top : f[k] \in S}
<1>1. 0 \in Sound
  OBVIOUS
<1>2. \A k \in 0..top : k \in Sound /\ k < top => k + 1 \in Sound
  <2> SUFFICES ASSUME NEW k \in 0..top, k \in Sound, k < top PROVE k + 1 \in Sound
    OBVIOUS
  <2>1. k + 1 \in 1..top /\ (k + 1) - 1 = k /\ k + 1 \in 0..top
    OBVIOUS
  <2>2. f[k] \in S /\ <<k + 1, f[k]>> \in (1..top) \X S
    BY <2>1
  <2>3. f[k + 1] = step[<<k + 1, f[k]>>]
    BY <2>1, <2>2
  <2>4. QED
    BY <2>1, <2>2, <2>3
<1> HIDE DEF Sound
<1>3. \A k \in 0..top : k \in Sound
  BY <1>1, <1>2, Upward
<1>4. \A k \in 0..top : f[k] \in S
  BY <1>3 DEF Sound
<1>5. f \in [0..top -> S]
  BY <1>4
<1>6. \A k \in 1..top : f[k - 1] \in S
  BY <1>4
<1>7. QED
  BY <1>5, <1>6 DEF Solves
-----------------------------------------------------------------------------
\* Arguments.  What the parser has found is counted argument by argument.

Text == Seq(STRING)

\* The value of a digit.
LEMMA DigitsAreNumbers == \A d \in DOMAIN Args!Digits : Args!Digits[d] \in Nat
<1> DEFINE names == <<"0", "1", "2", "3", "4", "5", "6", "7", "8", "9">>
           D == {"0", "1", "2", "3", "4", "5", "6", "7", "8", "9"}
           place(d) == CHOOSE i \in 1..10 : names[i] = d
<1>1. Args!Digits = [d \in D |-> place(d) - 1]
  BY DEF Args!Digits
<1>2. \A d \in D : \E i \in 1..10 : names[i] = d
  <2>1. /\ names[1] = "0" /\ names[2] = "1" /\ names[3] = "2" /\ names[4] = "3" /\ names[5] = "4"
        /\ names[6] = "5" /\ names[7] = "6" /\ names[8] = "7" /\ names[9] = "8" /\ names[10] = "9"
    OBVIOUS
  <2>2. 1 \in 1..10 /\ 2 \in 1..10 /\ 3 \in 1..10 /\ 4 \in 1..10 /\ 5 \in 1..10
        /\ 6 \in 1..10 /\ 7 \in 1..10 /\ 8 \in 1..10 /\ 9 \in 1..10 /\ 10 \in 1..10
    OBVIOUS
  <2> HIDE DEF names
  <2>3. QED
    BY <2>1, <2>2, Zenon
<1> HIDE DEF names, D
<1>3. \A d \in D : place(d) \in 1..10
  BY <1>2
<1> HIDE DEF place
<1>4. \A d \in D : place(d) - 1 \in Nat
  BY <1>3
<1>5. QED
  BY <1>1, <1>4

\* A text of digits spells a natural number.
LEMMA MagnitudeIsNat ==
  ASSUME NEW text \in Seq(DOMAIN Args!Digits)
  PROVE  Args!Magnitude(text) \in Nat
<1> DEFINE top == Len(text)
           Step(k, n) == 10 * n + Args!Digits[text[k]]
           step == [w \in (1..top) \X Nat |-> Step(w[1], w[2])]
           body(f) == [k \in 0..top |-> IF k = 0 THEN 0 ELSE Step(k, f[k - 1])]
           g == CHOOSE f : f = body(f)
<1>1. Args!Magnitude(text) = g[top]
  BY DEF Args!Magnitude
<1>2. top \in Nat
  OBVIOUS
<1>3. \A k \in 1..top, n \in Nat : Step(k, n) \in Nat
  <2> SUFFICES ASSUME NEW k \in 1..top, NEW n \in Nat PROVE Step(k, n) \in Nat
    OBVIOUS
  <2>1. text[k] \in DOMAIN Args!Digits
    OBVIOUS
  <2>2. Args!Digits[text[k]] \in Nat
    BY <2>1, DigitsAreNumbers
  <2>3. QED
    BY <2>2
<1>4. step \in [(1..top) \X Nat -> Nat] /\ \A k \in 1..top, n \in Nat : step[<<k, n>>] = Step(k, n)
  BY <1>3
<1>5. \A f : body(f) = [k \in 0..top |-> IF k = 0 THEN 0 ELSE Step(k, f[k - 1])]
  OBVIOUS
<1> HIDE DEF top, Step, step, body
<1>6. PICK f : Solves(f, Nat, 0, step, top)
  BY <1>2, <1>4, Recursion
<1>7. f = body(f)
  <2>1. f \in [0..top -> Nat] /\ f[0] = 0
    BY <1>6 DEF Solves
  <2>2. \A k \in 0..top : f[k] = IF k = 0 THEN 0 ELSE Step(k, f[k - 1])
    <3> SUFFICES ASSUME NEW k \in 0..top, k # 0 PROVE f[k] = Step(k, f[k - 1])
      BY <2>1
    <3>1. k \in 1..top /\ k - 1 \in 0..top
      BY <1>2
    <3>2. f[k] = step[<<k, f[k - 1]>>] /\ f[k - 1] \in Nat
      BY <1>6, <2>1, <3>1 DEF Solves
    <3>3. QED
      BY <1>4, <3>1, <3>2
  <2>3. QED
    BY <1>5, <2>1, <2>2
<1>8. g = body(g)
  BY <1>7
<1> HIDE DEF g
<1>9. g = [k \in 0..top |-> IF k = 0 THEN 0 ELSE Step(k, g[k - 1])]
  BY <1>5, <1>8
<1>10. /\ DOMAIN g = 0..top /\ g = [k \in 0..top |-> g[k]] /\ g[0] = 0
       /\ \A k \in 1..top : g[k] = Step(k, g[k - 1])
  <2>1. 0 \in 0..top /\ \A k \in 1..top : k \in 0..top /\ k # 0
    BY <1>2
  <2>2. DOMAIN g = 0..top /\ \A k \in 0..top : g[k] = IF k = 0 THEN 0 ELSE Step(k, g[k - 1])
    BY <1>9
  <2>3. g = [k \in 0..top |-> g[k]]
    BY <1>9, <2>2
  <2>4. QED
    BY <2>1, <2>2, <2>3
<1>11. \A k \in 1..top : g[k - 1] \in Nat => g[k] = step[<<k, g[k - 1]>>]
  BY <1>4, <1>10
<1>12. Solves(g, Nat, 0, step, top)
  BY <1>2, <1>4, <1>10, <1>11, Follows
<1>13. QED
  BY <1>1, <1>2, <1>12 DEF Solves

Fresh == [text : Text, used : {FALSE}]
Unread == Seq(Fresh)
Parsed == [positional : Unread, named : UNION {[D -> Unread] : D \in SUBSET Text}]

\* So many arguments have been found.
Found(st, n) == st \in Parsed /\ IsFiniteSet(Args!Places(st)) /\ Cardinality(Args!Places(st)) = n

LEMMA PositionalFound ==
  ASSUME NEW st, NEW n \in Nat, Found(st, n), NEW arg \in Text
  PROVE  Found(Args!Positional(st, arg), n + 1)
<1> DEFINE st2 == Args!Positional(st, arg)
           m == Len(st.positional) + 1
<1>1. st \in Parsed /\ IsFiniteSet(Args!Places(st)) /\ Cardinality(Args!Places(st)) = n
  BY DEF Found
<1>2. PICK D \in SUBSET Text : st.named \in [D -> Unread] /\ st.positional \in Unread
  BY <1>1 DEF Parsed
<1>3. Args!Arg(arg) \in Fresh
  BY DEF Args!Arg, Fresh
<1>4. /\ st2.named = st.named /\ st2.positional = Append(st.positional, Args!Arg(arg))
      /\ st2 = [positional |-> st2.positional, named |-> st2.named]
  BY <1>1 DEF Args!Positional, Parsed
<1>5. st2.positional \in Unread /\ DOMAIN st2.positional = DOMAIN st.positional \cup {m} /\ m \notin DOMAIN st.positional
  BY <1>2, <1>3, <1>4 DEF Unread
<1> HIDE DEF st2, m
<1>6. st2 \in Parsed
  BY <1>2, <1>4, <1>5 DEF Parsed
<1>7. Args!Places(st2) = Args!Places(st) \cup {Args!At(m)}
  BY <1>4, <1>5 DEF Args!Places
<1>8. Args!At(m) \notin Args!Places(st)
  BY <1>5 DEF Args!Places, Args!At, Args!Of
<1>9. IsFiniteSet(Args!Places(st2)) /\ Cardinality(Args!Places(st2)) = n + 1
  BY <1>1, <1>7, <1>8, FS_AddElement
<1>10. QED
  BY <1>6, <1>9 DEF Found, st2

LEMMA NamedFound ==
  ASSUME NEW st, NEW n \in Nat, Found(st, n), NEW name \in Text, NEW text \in Text
  PROVE  Found(Args!Named(st, name, text), n + 1)
<1> DEFINE st2 == Args!Named(st, name, text)
           had == IF name \in DOMAIN st.named THEN st.named[name] ELSE <<>>
           m == Len(had) + 1
<1>1. st \in Parsed /\ IsFiniteSet(Args!Places(st)) /\ Cardinality(Args!Places(st)) = n
  BY DEF Found
<1>2. PICK D \in SUBSET Text : st.named \in [D -> Unread] /\ st.positional \in Unread
  BY <1>1 DEF Parsed
<1>3. Args!Arg(text) \in Fresh
  BY DEF Args!Arg, Fresh
<1>4. had \in Unread /\ m \in Nat /\ DOMAIN st.named = D
  <2>1. DOMAIN st.named = D
    BY <1>2
  <2>2. name \in D => st.named[name] \in Unread
    BY <1>2
  <2>3. <<>> \in Unread
    BY DEF Unread
  <2>4. had \in Unread
    BY <2>1, <2>2, <2>3
  <2> HIDE DEF had
  <2>5. QED
    BY <2>1, <2>4 DEF Unread
<1> DEFINE ns == [k \in DOMAIN st.named \cup {name} |->
                    (IF k \in DOMAIN st.named THEN st.named[k] ELSE <<>>) \o (IF k = name THEN <<Args!Arg(text)>> ELSE <<>>)]
<1>5. st2.named = ns /\ st2.positional = st.positional /\ st2 = [positional |-> st2.positional, named |-> st2.named]
  <2>1. st2 = [st EXCEPT !.named = ns]
    BY Zenon DEF Args!Named
  <2> HIDE DEF ns, st2
  <2>2. QED
    BY <1>1, <2>1 DEF Parsed
<1>6. DOMAIN ns = D \cup {name} /\ ns[name] = had \o <<Args!Arg(text)>> /\ \A k \in D : k # name => ns[k] = st.named[k] \o <<>>
  BY <1>4
<1> HIDE DEF ns, had, m, st2
<1>7. /\ ns[name] \in Unread /\ DOMAIN ns[name] = 1..m
      /\ DOMAIN had = 1..(m - 1) /\ m \notin 1..(m - 1) /\ 1..m = (1..(m - 1)) \cup {m}
  BY <1>3, <1>4, <1>6 DEF Unread, m
<1>8. \A k \in D : k # name => ns[k] = st.named[k]
  BY <1>2, <1>6 DEF Unread
<1>9. st2 \in Parsed
  <2>1. ns \in [D \cup {name} -> Unread]
    <3>1. \A k \in D \cup {name} : ns[k] \in Unread
      BY <1>2, <1>7, <1>8
    <3>2. ns = [k \in DOMAIN ns |-> ns[k]]
      BY DEF ns
    <3>3. QED
      BY <1>6, <3>1, <3>2
  <2>2. D \cup {name} \in SUBSET Text
    OBVIOUS
  <2>3. QED
    BY <1>2, <1>5, <2>1, <2>2 DEF Parsed
<1> DEFINE Ps == {Args!At(p) : p \in DOMAIN st.positional}
           Ns(f) == UNION {{Args!Of(k, i) : i \in DOMAIN f[k]} : k \in DOMAIN f}
<1>10. Args!Places(st2) = Ps \cup Ns(ns) /\ Args!Places(st) = Ps \cup Ns(st.named)
  BY <1>5 DEF Args!Places
<1>11. \A p : p \in Ns(ns) <=> p \in Ns(st.named) \/ p = Args!Of(name, m)
  <2> SUFFICES ASSUME NEW p PROVE p \in Ns(ns) <=> p \in Ns(st.named) \/ p = Args!Of(name, m)
    OBVIOUS
  <2>1. p \in Ns(ns) <=> \/ \E i \in 1..m : p = Args!Of(name, i)
                         \/ \E k \in D : k # name /\ \E i \in DOMAIN st.named[k] : p = Args!Of(k, i)
    BY <1>6, <1>7, <1>8
  <2>2. p \in Ns(st.named) <=> \/ \E i \in 1..(m - 1) : p = Args!Of(name, i)
                               \/ \E k \in D : k # name /\ \E i \in DOMAIN st.named[k] : p = Args!Of(k, i)
    <3>1. CASE name \in D
      BY <1>4, <1>7, <3>1 DEF had
    <3>2. CASE name \notin D
      <4>1. 1..(m - 1) = {}
        BY <1>4, <1>7, <3>2 DEF had
      <4>2. QED
        BY <1>4, <3>2, <4>1
    <3>3. QED
      BY <3>1, <3>2
  <2>3. QED
    BY <1>7, <2>1, <2>2
<1>12. Args!Of(name, m) \notin Ns(st.named)
  <2>1. name \in D => DOMAIN st.named[name] = 1..(m - 1)
    BY <1>4, <1>7 DEF had
  <2>2. QED
    BY <1>4, <1>7, <2>1 DEF Args!Of
<1>13. Args!Of(name, m) \notin Ps
  BY DEF Args!At, Args!Of
<1> HIDE DEF Ps, Ns
<1>14. Args!Places(st2) = Args!Places(st) \cup {Args!Of(name, m)} /\ Args!Of(name, m) \notin Args!Places(st)
  BY <1>10, <1>11, <1>12, <1>13
<1>15. IsFiniteSet(Args!Places(st2)) /\ Cardinality(Args!Places(st2)) = n + 1
  BY <1>1, <1>14, FS_AddElement
<1>16. QED
  BY <1>9, <1>15 DEF Found, st2

\* Every character of a group is a flag.
LEMMA GroupFound ==
  ASSUME NEW st, NEW n \in Nat, Found(st, n), NEW arg \in Text, Len(arg) >= 1
  PROVE  Found(Args!Group(st, arg), n + Len(arg) - 1)
<1> DEFINE top == Len(arg) - 1
           Step(z, s) == Args!Named(s, <<arg[z + 1]>>, <<>>)
           step == [w \in (1..top) \X Parsed |-> IF Step(w[1], w[2]) \in Parsed THEN Step(w[1], w[2]) ELSE st]
           body(f) == [z \in 0..top |-> IF z = 0 THEN st ELSE Step(z, f[z - 1])]
           g == CHOOSE f : f = body(f)
<1>1. Args!Group(st, arg) = g[top]
  BY DEF Args!Group
<1>2. top \in Nat /\ top = Len(arg) - 1 /\ st \in Parsed
  BY DEF Text, Found
<1>3. \A z \in 1..top, k \in Nat : \A s : Found(s, k) => Found(Step(z, s), k + 1)
  <2> SUFFICES ASSUME NEW z \in 1..top, NEW s, NEW k \in Nat, Found(s, k) PROVE Found(Step(z, s), k + 1)
    OBVIOUS
  <2>1. z + 1 \in 1..Len(arg)
    BY <1>2 DEF Text
  <2>2. arg[z + 1] \in STRING
    BY <2>1 DEF Text
  <2>3. <<arg[z + 1]>> \in Text /\ <<>> \in Text
    BY <2>2 DEF Text
  <2>4. QED
    BY <2>3, NamedFound
<1>4. step \in [(1..top) \X Parsed -> Parsed]
  BY <1>2
<1>5. \A z \in 1..top, s \in Parsed : Step(z, s) \in Parsed => step[<<z, s>>] = Step(z, s)
  OBVIOUS
<1>6. \A f : body(f) = [z \in 0..top |-> IF z = 0 THEN st ELSE Step(z, f[z - 1])]
  OBVIOUS
<1> HIDE DEF top, Step, step, body
<1>7. PICK f : Solves(f, Parsed, st, step, top)
  BY <1>2, <1>4, Recursion
<1> DEFINE Sound == {z \in 0..top : Found(f[z], n + z)}
<1>8. 0 \in Sound
  BY <1>2, <1>7 DEF Solves
<1>9. ASSUME NEW z \in 1..top, z - 1 \in Sound PROVE f[z] = Step(z, f[z - 1]) /\ z \in Sound
  <2>1. Found(f[z - 1], n + (z - 1)) /\ n + (z - 1) \in Nat /\ z - 1 \in 0..top /\ z \in 0..top
    BY <1>2, <1>9
  <2>2. Found(Step(z, f[z - 1]), (n + (z - 1)) + 1)
    BY <1>3, <2>1
  <2>3. f[z - 1] \in Parsed /\ Step(z, f[z - 1]) \in Parsed
    BY <2>1, <2>2 DEF Found
  <2>4. f[z] = Step(z, f[z - 1])
    BY <1>5, <1>7, <2>3 DEF Solves
  <2>5. (n + (z - 1)) + 1 = n + z
    BY <1>2
  <2>6. QED
    BY <2>1, <2>2, <2>4, <2>5
<1>10. \A k \in 0..top : k \in Sound /\ k < top => k + 1 \in Sound
  <2> SUFFICES ASSUME NEW k \in 0..top, k \in Sound, k < top PROVE k + 1 \in Sound
    OBVIOUS
  <2>1. k + 1 \in 1..top /\ (k + 1) - 1 = k
    BY <1>2
  <2>2. QED
    BY <1>9, <2>1
<1> HIDE DEF Sound
<1>11. \A k \in 0..top : k \in Sound
  BY <1>2, <1>8, <1>10, Upward
<1>12. f = body(f)
  <2>1. f \in [0..top -> Parsed] /\ f[0] = st
    BY <1>7 DEF Solves
  <2>2. \A z \in 0..top : f[z] = IF z = 0 THEN st ELSE Step(z, f[z - 1])
    <3> SUFFICES ASSUME NEW z \in 0..top, z # 0 PROVE f[z] = Step(z, f[z - 1])
      BY <2>1
    <3>1. z \in 1..top /\ z - 1 \in 0..top
      BY <1>2
    <3>2. QED
      BY <1>9, <1>11, <3>1
  <2>3. QED
    BY <1>6, <2>1, <2>2
<1>13. g = body(g)
  BY <1>12
<1> HIDE DEF g
<1>14. g = [z \in 0..top |-> IF z = 0 THEN st ELSE Step(z, g[z - 1])]
  BY <1>6, <1>13
<1> DEFINE Same == {z \in 0..top : g[z] = f[z]}
<1>15. 0 \in Same
  BY <1>2, <1>7, <1>14 DEF Solves
<1>16. \A k \in 0..top : k \in Same /\ k < top => k + 1 \in Same
  <2> SUFFICES ASSUME NEW k \in 0..top, k \in Same, k < top PROVE k + 1 \in Same
    OBVIOUS
  <2>1. k + 1 \in 1..top /\ k + 1 \in 0..top /\ k + 1 # 0 /\ (k + 1) - 1 = k
    BY <1>2
  <2>2. g[k + 1] = Step(k + 1, g[k])
    BY <1>14, <2>1
  <2>3. f[k + 1] = Step(k + 1, f[k])
    BY <1>9, <1>11, <2>1
  <2>4. QED
    BY <2>1, <2>2, <2>3
<1> HIDE DEF Same
<1>17. top \in Same /\ top \in Sound
  <2>1. \A k \in 0..top : k \in Same
    BY <1>2, <1>15, <1>16, Upward
  <2>2. top \in 0..top
    BY <1>2
  <2>3. QED
    BY <1>11, <2>1, <2>2
<1>18. Found(g[top], n + top)
  BY <1>17 DEF Same, Sound
<1>19. n + top = n + Len(arg) - 1
  BY <1>2 DEF Text
<1>20. QED
  BY <1>1, <1>18, <1>19

\* The first of some places is one of them, and a text up to it and after it is a text.
LEMMA FirstPlace ==
  ASSUME NEW S, S \subseteq Nat, S # {}
  PROVE  Args!First(S) \in S /\ \A j \in S : Args!First(S) <= j
BY HasLeast DEF Args!First

LEMMA PartsOfTexts ==
  ASSUME NEW arg \in Text, NEW i \in 1..(Len(arg) + 1), NEW j \in 0..Len(arg)
  PROVE  SubSeq(arg, i, j) \in Text
BY SubSeqProperties DEF Text

\* An argument is as many as its syntax says.
LEMMA ArgFound ==
  ASSUME NEW st, NEW n \in Nat, Found(st, n), NEW arg \in Text
  PROVE  Found(Args!ParseArg(st, arg), n + Args!Flags(arg)) /\ Args!Flags(arg) \in Nat
<1> DEFINE equals == {i \in 3..Len(arg) : arg[i] = "="}
           e == Args!First(equals)
<1>1. Len(arg) \in Nat /\ equals \subseteq Nat /\ <<>> \in Text
  BY DEF Text
<1>2. CASE Len(arg) < 2 \/ arg[1] # "-" \/ arg = <<"-", "-">>
  <2>1. Args!ParseArg(st, arg) = Args!Positional(st, arg)
    BY <1>2 DEF Args!ParseArg
  <2>2. Args!Flags(arg) = 1
    BY <1>1, <1>2 DEF Args!Flags
  <2>3. QED
    BY <2>1, <2>2, PositionalFound
<1>3. CASE ~(Len(arg) < 2 \/ arg[1] # "-" \/ arg = <<"-", "-">>)
  <2>1. Len(arg) >= 2 /\ arg[1] = "-"
    BY <1>1, <1>3
  <2>2. CASE arg[2] # "-"
    <3>1. Args!ParseArg(st, arg) = Args!Group(st, arg)
      BY <1>3, <2>2 DEF Args!ParseArg
    <3>2. Args!Flags(arg) = Len(arg) - 1 /\ n + (Len(arg) - 1) = n + Len(arg) - 1 /\ Len(arg) >= 1
      BY <1>1, <2>1, <2>2 DEF Args!Flags
    <3>3. QED
      BY <1>1, <3>1, <3>2, GroupFound
  <2>3. CASE arg[2] = "-"
    <3>1. Args!Flags(arg) = 1
      BY <2>3 DEF Args!Flags
    <3>2. Len(arg) >= 3
      <4>1. ASSUME Len(arg) = 2 PROVE FALSE
        <5>1. arg = <<"-", "-">>
          BY <2>1, <2>3, <4>1 DEF Text
        <5>2. QED
          BY <1>3, <5>1
      <4> DEFINE length == Len(arg)
      <4>2. length \in Nat /\ length >= 2 /\ length # 2
        BY <1>1, <2>1, <4>1
      <4> HIDE DEF length
      <4>3. length >= 3
        BY <4>2
      <4>4. QED
        BY <4>3 DEF length
    <3>3. CASE equals = {}
      <4>1. Args!ParseArg(st, arg) = Args!Named(st, SubSeq(arg, 3, Len(arg)), <<>>)
        BY <1>3, <2>3, <3>3 DEF Args!ParseArg
      <4>2. SubSeq(arg, 3, Len(arg)) \in Text
        BY <1>1, <3>2, PartsOfTexts
      <4>3. QED
        BY <1>1, <3>1, <4>1, <4>2, NamedFound
    <3>4. CASE equals # {}
      <4>1. Args!ParseArg(st, arg) = Args!Named(st, SubSeq(arg, 3, e - 1), SubSeq(arg, e + 1, Len(arg)))
        BY <1>3, <2>3, <3>4 DEF Args!ParseArg
      <4>2. e \in 3..Len(arg)
        BY <1>1, <3>4, FirstPlace
      <4> HIDE DEF e, equals
      <4>3. 3 \in 1..(Len(arg) + 1) /\ e - 1 \in 0..Len(arg) /\ e + 1 \in 1..(Len(arg) + 1) /\ Len(arg) \in 0..Len(arg)
        BY <1>1, <3>2, <4>2
      <4>4. SubSeq(arg, 3, e - 1) \in Text /\ SubSeq(arg, e + 1, Len(arg)) \in Text
        BY <4>3, PartsOfTexts
      <4>5. QED
        BY <3>1, <4>1, <4>4, NamedFound
    <3>5. QED
      BY <3>3, <3>4
  <2>4. QED
    BY <2>2, <2>3
<1>4. QED
  BY <1>2, <1>3

\* Nothing is found before the first argument.
LEMMA EmptyFound == Found(Args!Empty, 0)
<1>1. Args!Empty \in Parsed
  <2>1. <<>> \in Unread /\ [n \in {} |-> <<>>] \in [{} -> Unread] /\ {} \in SUBSET Text
    BY DEF Unread
  <2>2. QED
    BY <2>1 DEF Args!Empty, Parsed
<1>2. Args!Places(Args!Empty) = {}
  BY DEF Args!Empty, Args!Places
<1>3. QED
  BY <1>1, <1>2, FS_EmptySet DEF Found

\* The parser finds as many arguments as the command line says.
LEMMA AllFound ==
  ASSUME args \in Seq(Text)
  PROVE  Found(Args!parse(args), Args!Said)
<1> DEFINE top == Len(args)
           Step(k, s) == Args!ParseArg(s, args[k])
           step == [w \in (1..top) \X Parsed |-> IF Step(w[1], w[2]) \in Parsed THEN Step(w[1], w[2]) ELSE Args!Empty]
           body(f) == [k \in 0..top |-> IF k = 0 THEN Args!Empty ELSE Step(k, f[k - 1])]
           g == CHOOSE f : f = body(f)
           Add(k, n) == n + Args!Flags(args[k])
           add == [w \in (1..top) \X Nat |-> Add(w[1], w[2])]
           sum(f) == [k \in 0..top |-> IF k = 0 THEN 0 ELSE Add(k, f[k - 1])]
           h == CHOOSE f : f = sum(f)
<1>1. Args!parse(args) = g[top] /\ Args!Said = h[top]
  BY DEF Args!parse, Args!Said
<1>2. top \in Nat /\ Args!Empty \in Parsed /\ \A k \in 1..top : args[k] \in Text
  BY EmptyFound DEF Found
<1>3. /\ \A k \in 1..top, n \in Nat : \A s : Found(s, n) => Found(Step(k, s), Add(k, n))
      /\ \A k \in 1..top, n \in Nat : Add(k, n) \in Nat
  <2>1. ASSUME NEW k \in 1..top PROVE Args!Flags(args[k]) \in Nat
    BY <1>2, EmptyFound, ArgFound
  <2>2. ASSUME NEW k \in 1..top, NEW s, NEW n \in Nat, Found(s, n) PROVE Found(Step(k, s), Add(k, n))
    BY <1>2, <2>2, ArgFound
  <2>3. ASSUME NEW k \in 1..top, NEW n \in Nat PROVE Add(k, n) \in Nat
    BY <2>1
  <2>4. QED
    BY <2>2, <2>3
<1>4. step \in [(1..top) \X Parsed -> Parsed] /\ add \in [(1..top) \X Nat -> Nat]
  BY <1>2, <1>3
<1>5. /\ \A k \in 1..top, s \in Parsed : Step(k, s) \in Parsed => step[<<k, s>>] = Step(k, s)
      /\ \A k \in 1..top, n \in Nat : add[<<k, n>>] = Add(k, n)
  OBVIOUS
<1>6. /\ \A f : body(f) = [k \in 0..top |-> IF k = 0 THEN Args!Empty ELSE Step(k, f[k - 1])]
      /\ \A f : sum(f) = [k \in 0..top |-> IF k = 0 THEN 0 ELSE Add(k, f[k - 1])]
  OBVIOUS
<1> HIDE DEF top, Step, step, body, Add, add, sum
<1>7. (\E f : Solves(f, Parsed, Args!Empty, step, top)) /\ (\E f : Solves(f, Nat, 0, add, top))
  BY <1>2, <1>4, Recursion
<1>8. PICK f : Solves(f, Parsed, Args!Empty, step, top)
  BY <1>7
<1>9. PICK t : Solves(t, Nat, 0, add, top)
  BY <1>7
<1>10. /\ f[0] = Args!Empty /\ f \in [0..top -> Parsed] /\ t[0] = 0 /\ t \in [0..top -> Nat]
       /\ \A k \in 1..top : f[k] = step[<<k, f[k - 1]>>] /\ t[k] = add[<<k, t[k - 1]>>]
  BY <1>8, <1>9 DEF Solves
<1> DEFINE Sound == {k \in 0..top : Found(f[k], t[k])}
<1>11. 0 \in Sound
  BY <1>2, <1>10, EmptyFound
<1>12. ASSUME NEW k \in 1..top PROVE t[k] = Add(k, t[k - 1])
  <2>1. t[k - 1] \in Nat
    BY <1>2, <1>10
  <2>2. QED
    BY <1>5, <1>10, <2>1
<1>13. ASSUME NEW k \in 1..top, k - 1 \in Sound PROVE f[k] = Step(k, f[k - 1]) /\ k \in Sound
  <2>1. Found(f[k - 1], t[k - 1]) /\ t[k - 1] \in Nat /\ k \in 0..top
    BY <1>2, <1>10, <1>13
  <2>2. Found(Step(k, f[k - 1]), Add(k, t[k - 1]))
    BY <1>3, <2>1
  <2>3. f[k - 1] \in Parsed /\ Step(k, f[k - 1]) \in Parsed
    BY <2>1, <2>2 DEF Found
  <2>4. f[k] = Step(k, f[k - 1])
    BY <1>5, <1>10, <2>3
  <2>5. QED
    BY <1>12, <2>1, <2>2, <2>4
<1>14. \A k \in 0..top : k \in Sound /\ k < top => k + 1 \in Sound
  <2> SUFFICES ASSUME NEW k \in 0..top, k \in Sound, k < top PROVE k + 1 \in Sound
    OBVIOUS
  <2>1. k + 1 \in 1..top /\ (k + 1) - 1 = k
    BY <1>2
  <2>2. QED
    BY <1>13, <2>1
<1> HIDE DEF Sound
<1>15. \A k \in 0..top : k \in Sound
  BY <1>2, <1>11, <1>14, Upward
<1>16. \A k \in 1..top : k \in 0..top /\ k - 1 \in 0..top /\ k # 0
  BY <1>2
<1>17. f = body(f)
  <2>1. \A k \in 0..top : f[k] = IF k = 0 THEN Args!Empty ELSE Step(k, f[k - 1])
    <3> SUFFICES ASSUME NEW k \in 0..top, k # 0 PROVE f[k] = Step(k, f[k - 1])
      BY <1>10
    <3>1. k \in 1..top
      BY <1>2
    <3>2. QED
      BY <1>13, <1>15, <1>16, <3>1
  <2>2. QED
    BY <1>6, <1>10, <2>1
<1>18. t = sum(t)
  <2>1. \A k \in 0..top : t[k] = IF k = 0 THEN 0 ELSE Add(k, t[k - 1])
    <3> SUFFICES ASSUME NEW k \in 0..top, k # 0 PROVE t[k] = Add(k, t[k - 1])
      BY <1>10
    <3>1. k \in 1..top
      BY <1>2
    <3>2. QED
      BY <1>12, <3>1
  <2>2. QED
    BY <1>6, <1>10, <2>1
<1>19. g = body(g) /\ h = sum(h)
  BY <1>17, <1>18
<1> HIDE DEF g, h
<1>20. /\ g = [k \in 0..top |-> IF k = 0 THEN Args!Empty ELSE Step(k, g[k - 1])]
       /\ h = [k \in 0..top |-> IF k = 0 THEN 0 ELSE Add(k, h[k - 1])]
  BY <1>6, <1>19
<1>21. /\ g[0] = Args!Empty /\ h[0] = 0
       /\ \A k \in 1..top : g[k] = Step(k, g[k - 1]) /\ h[k] = Add(k, h[k - 1])
  <2>1. 0 \in 0..top
    BY <1>2
  <2>2. \A k \in 0..top : g[k] = (IF k = 0 THEN Args!Empty ELSE Step(k, g[k - 1])) /\ h[k] = (IF k = 0 THEN 0 ELSE Add(k, h[k - 1]))
    BY <1>20
  <2>3. QED
    BY <1>16, <2>1, <2>2
<1> DEFINE Same == {k \in 0..top : g[k] = f[k] /\ h[k] = t[k]}
<1>22. 0 \in Same
  BY <1>2, <1>10, <1>21
<1>23. \A k \in 0..top : k \in Same /\ k < top => k + 1 \in Same
  <2> SUFFICES ASSUME NEW k \in 0..top, k \in Same, k < top PROVE k + 1 \in Same
    OBVIOUS
  <2>1. k + 1 \in 1..top /\ k + 1 \in 0..top /\ (k + 1) - 1 = k
    BY <1>2
  <2>2. g[k + 1] = Step(k + 1, g[k]) /\ h[k + 1] = Add(k + 1, h[k])
    BY <1>21, <2>1
  <2>3. f[k + 1] = Step(k + 1, f[k]) /\ t[k + 1] = Add(k + 1, t[k])
    BY <1>12, <1>13, <1>15, <2>1
  <2>4. QED
    BY <2>1, <2>2, <2>3
<1> HIDE DEF Same
<1>24. \A k \in 0..top : k \in Same
  BY <1>2, <1>22, <1>23, Upward
<1>25. top \in Same /\ top \in Sound
  BY <1>2, <1>15, <1>24
<1>26. QED
  BY <1>1, <1>25 DEF Same, Sound

\* A product is at least each greater factor's.
LEMMA Factors ==
  ASSUME NEW m \in Nat, NEW q \in Nat, NEW b \in Nat, b * m < b * q + b
  PROVE  m <= q
<1> SUFFICES ASSUME m >= q + 1 PROVE FALSE
  OBVIOUS
<1>1. PICK d \in Nat : m = q + 1 + d
  <2>1. m - q - 1 \in Nat /\ m = q + 1 + (m - q - 1)
    OBVIOUS
  <2>2. QED
    BY <2>1
<1>2. b * m = b * q + b + b * d /\ b * d \in Nat
  BY <1>1
<1>3. b * q \in Nat
  OBVIOUS
<1>4. QED
  BY <1>2, <1>3

\* Quotients by half a type: the first is that of the numbers below it, the last that of the greatest numbers.
Halved(limit, half, m, uv) ==
  /\ limit \div half = m
  /\ uv \div half = 0 => uv < half
  /\ uv \div half = m - 1 => uv >= limit - half
  /\ uv = limit - 1 => uv \div half = m - 1

LEMMA Halves ==
  ASSUME NEW half \in Nat \ {0}, NEW m \in Nat \ {0}, NEW limit, limit = m * half, NEW uv \in 0..(limit - 1)
  PROVE  Halved(limit, half, m, uv)
<1> DEFINE q == limit \div half
           r == uv \div half
<1>1. limit \in Nat /\ uv \in Nat /\ limit = half * m /\ half > 0
  OBVIOUS
<1>2. q \in Nat /\ half * q <= limit /\ limit < half * q + half
  BY <1>1, Division
<1>3. r \in Nat /\ half * r <= uv /\ uv < half * r + half
  BY <1>1, Division
<1> HIDE DEF q, r
<1>4. half * q < half * m + half
  <2>1. half * q \in Nat
    BY <1>2
  <2>2. QED
    BY <1>1, <1>2, <2>1
<1>5. q = m
  <2>1. q <= m
    BY <1>2, <1>4, Factors
  <2>2. m <= q
    BY <1>1, <1>2, Factors
  <2>3. QED
    BY <1>2, <2>1, <2>2
<1>6. r = 0 => uv < half
  BY <1>3
<1>7. half * (m - 1) = limit - half
  BY <1>1
<1>8. r = m - 1 => uv >= limit - half
  BY <1>1, <1>3, <1>7
<1>9. ASSUME uv = limit - 1 PROVE r = m - 1
  <2>1. half * m < half * (r + 1) + half
    <3>1. half * (r + 1) = half * r + half
      BY <1>3
    <3>2. half * r \in Nat
      BY <1>3
    <3>3. QED
      BY <1>1, <1>3, <1>9, <3>1, <3>2
  <2>2. half * r < half * (m - 1) + half
    <3>1. half * r \in Nat
      BY <1>3
    <3>2. QED
      BY <1>1, <1>3, <1>7, <1>9, <3>1
  <2>3. m - 1 \in Nat /\ r + 1 \in Nat
    BY <1>3
  <2>4. m <= r + 1 /\ r <= m - 1
    BY <1>3, <2>1, <2>2, <2>3, Factors
  <2>5. r # m
    BY <2>4
  <2>6. r = m - 1 \/ r = m
    BY <1>3, <2>4
  <2>7. QED
    BY <2>5, <2>6
<1>10. QED
  BY <1>1, <1>5, <1>6, <1>8, <1>9 DEF q, r, Halved

\* The remainder of a number less than the limit, its opposite, and multiples next to it.
LEMMA Opposites ==
  ASSUME NEW limit \in Nat, NEW n \in Nat, n < limit
  PROVE  /\ (-n) % limit = IF n = 0 THEN 0 ELSE limit - n
         /\ 0 % limit = 0 /\ limit % limit = 0 /\ (-limit) % limit = 0
<1>1. (0 - n) % limit = IF 0 >= n THEN 0 - n ELSE 0 - n + limit
  BY Modulo
<1>2. -n = 0 - n
  OBVIOUS
<1>3. (-n) % limit = IF n = 0 THEN 0 ELSE limit - n
  BY <1>1, <1>2
<1>4. 0 % limit = 0
  BY Modulo
<1>5. limit % limit = 0 /\ (-limit) % limit = 0
  OBVIOUS
<1>6. QED
  BY <1>3, <1>4, <1>5

\* What parse_int accepts is a number of the type, and the one that the text spells modulo LongLimit.
LEMMA IntegersSpelled ==
  ASSUME NEW text \in Text, NEW signed \in BOOLEAN, Args!parse_int(text, signed).ok
  PROVE  Args!Spells(text, signed, Args!parse_int(text, signed).val)
<1> DEFINE minus == text[1] = "-"
           digits == IF text # <<>> /\ text[1] = "-" THEN Tail(text) ELSE text
           n == Args!Magnitude(IF minus THEN Tail(text) ELSE text)
           uv == Args!strtoull(text)
           high == uv \div (IntLimit \div 2)
           val == Args!parse_int(text, signed).val
           D == DOMAIN Args!Digits
<1>1. PICK half \in 1..IntLimit, times \in 1..LongLimit : IntLimit = 2 * half /\ LongLimit = times * IntLimit
  BY ArgumentsAssumption
<1>2. /\ half \in Nat \ {0} /\ times \in Nat \ {0} /\ IntLimit \in Nat /\ LongLimit \in Nat
      /\ 2 * times \in Nat \ {0} /\ LongLimit = (2 * times) * half /\ IntLimit \div 2 = half /\ half <= IntLimit
      /\ IntLimit <= LongLimit
  BY <1>1, ArgumentsAssumption
<1>3. Args!IsNumber(text)
  BY DEF Args!parse_int
<1>4. digits # <<>> /\ \A i \in 1..Len(digits) : digits[i] \in DOMAIN Args!Digits
  BY <1>3, Zenon DEF Args!IsNumber
<1>5. text # <<>>
  BY <1>4
<1>6. digits = (IF minus THEN Tail(text) ELSE text) /\ digits \in Seq(DOMAIN Args!Digits)
  <2>1. digits = IF minus THEN Tail(text) ELSE text
    BY <1>5
  <2>2. Tail(text) \in Seq(STRING) /\ text \in Seq(STRING)
    BY <1>5 DEF Text
  <2>3. digits \in Seq(STRING)
    BY <2>2
  <2>4. \A i \in 1..Len(digits) : digits[i] \in D
    BY <1>4
  <2> HIDE DEF digits, D
  <2>5. digits \in Seq(D)
    BY <2>3, <2>4
  <2>6. QED
    BY <2>1, <2>5 DEF D
<1> HIDE DEF digits
<1>7. n \in Nat
  BY <1>6, MagnitudeIsNat
<1>8. uv = IF n >= LongLimit THEN LongLimit - 1 ELSE IF minus THEN (-n) % LongLimit ELSE n
  BY DEF Args!strtoull
<1>9. /\ signed => high \in {0, LongLimit \div half - 1} /\ val = IF high = 0 THEN uv ELSE uv - LongLimit
      /\ ~signed => uv < IntLimit /\ val = uv
  BY <1>2, <1>3 DEF Args!parse_int
<1>10. Args!Spells(text, signed, val) <=>
         /\ val \in IF signed THEN -half..(half - 1) ELSE 0..(IntLimit - 1)
         /\ IF n >= LongLimit THEN val = (IF signed THEN -1 ELSE LongLimit - 1)
            ELSE (val - (IF minus THEN -n ELSE n)) % LongLimit = 0
  BY <1>2 DEF Args!Spells
<1> HIDE DEF n, uv, val, minus
<1>11. uv \in 0..(LongLimit - 1)
  <2>1. CASE n >= LongLimit
    BY <1>2, <1>8, <2>1
  <2>2. CASE n < LongLimit
    BY <1>2, <1>7, <1>8, <2>2, Opposites
  <2>3. QED
    BY <1>2, <1>7, <2>1, <2>2
<1>12. high = uv \div half
  BY <1>2
<1> HIDE DEF high
<1> DEFINE m == 2 * times
<1>13. /\ LongLimit \div half = m /\ m # 1 /\ m \in Nat \ {0}
       /\ high = 0 => uv < half
       /\ high = m - 1 => uv >= LongLimit - half
       /\ uv = LongLimit - 1 => high = m - 1
  <2>1. m \in Nat \ {0} /\ LongLimit = m * half /\ m # 1 /\ half \in Nat \ {0}
    BY <1>2
  <2> HIDE DEF m
  <2>2. Halved(LongLimit, half, m, uv)
    BY <1>11, <2>1, Halves
  <2>3. QED
    BY <1>12, <2>1, <2>2, Zenon DEF Halved
<1> HIDE DEF m
<1>14. signed => /\ high = 0 => val = uv /\ uv < half
                 /\ high # 0 => val = uv - LongLimit /\ uv >= LongLimit - half
  BY <1>9, <1>13
<1>15. val \in IF signed THEN -half..(half - 1) ELSE 0..(IntLimit - 1)
  BY <1>2, <1>9, <1>11, <1>14
<1>16. ASSUME n >= LongLimit PROVE Args!Spells(text, signed, val)
  <2>1. uv = LongLimit - 1
    BY <1>8, <1>16
  <2>2. signed => high # 0
    BY <1>2, <1>13, <2>1
  <2>3. val = IF signed THEN -1 ELSE LongLimit - 1
    BY <1>2, <1>9, <1>14, <2>1, <2>2
  <2>4. QED
    BY <1>10, <1>15, <1>16, <2>3
<1>17. ASSUME n < LongLimit PROVE Args!Spells(text, signed, val)
  <2>1. val = uv \/ val = uv - LongLimit
    BY <1>9, <1>14
  <2>2. uv = IF minus THEN IF n = 0 THEN 0 ELSE LongLimit - n ELSE n
    <3>1. (-n) % LongLimit = IF n = 0 THEN 0 ELSE LongLimit - n
      BY <1>2, <1>7, <1>17, Opposites
    <3>2. ~(n >= LongLimit)
      BY <1>2, <1>7, <1>17
    <3>3. QED
      BY <1>8, <3>1, <3>2, Zenon
  <2> DEFINE diff == val - (IF minus THEN -n ELSE n)
  <2>3. diff \in {0, LongLimit, -LongLimit}
    BY <1>2, <1>7, <1>17, <2>1, <2>2
  <2> HIDE DEF diff
  <2>4. diff % LongLimit = 0
    <3>1. 0 % LongLimit = 0 /\ LongLimit % LongLimit = 0 /\ (-LongLimit) % LongLimit = 0
      BY <1>2, <1>7, <1>17, Opposites
    <3>2. QED
      BY <2>3, <3>1
  <2>5. ~(n >= LongLimit)
    BY <1>2, <1>7, <1>17
  <2>6. QED
    BY <1>10, <1>15, <2>4, <2>5 DEF diff
<1>18. Args!Spells(text, signed, val)
  BY <1>2, <1>7, <1>16, <1>17
<1>19. QED
  BY <1>18 DEF val

\* The same once the program has asked for some of them.
ArgTexts == Seq([text : Text, used : BOOLEAN])
Kept == [positional : ArgTexts, named : UNION {[D -> ArgTexts] : D \in SUBSET Text}]
Held(st, n) == st \in Kept /\ IsFiniteSet(Args!Places(st)) /\ Cardinality(Args!Places(st)) = n

\* What was found stays; an argument is marked exactly if it was given to the program.
ArgInv ==
  /\ args \in Seq(Text)
  /\ Held([positional |-> positional, named |-> named], Args!Said)
  /\ given \subseteq Args!All
  /\ \A p \in DOMAIN positional : positional[p].used <=> Args!At(p) \in given
  /\ \A name \in DOMAIN named : \A i \in DOMAIN named[name] : named[name][i].used <=> Args!Of(name, i) \in given
  /\ result.op = "assert_none_unused" => (result.outcome = "ok" <=> given = Args!All)
  /\ Args!IntegersAsSpelled

\* What is in the tables, and where.
LEMMA Tables ==
  ASSUME ArgInv
  PROVE  /\ positional \in ArgTexts /\ DOMAIN positional \subseteq Nat
         /\ \E D \in SUBSET Text : named \in [D -> ArgTexts]
         /\ \A name \in DOMAIN named : DOMAIN named[name] \subseteq Nat /\ named[name] \in ArgTexts
         /\ Args!All = {Args!At(p) : p \in DOMAIN positional} \cup UNION {{Args!Of(name, i) : i \in DOMAIN named[name]} : name \in DOMAIN named}
<1>1. [positional |-> positional, named |-> named] \in Kept
  BY DEF ArgInv, Held
<1>2. positional \in ArgTexts /\ \E D \in SUBSET Text : named \in [D -> ArgTexts]
  BY <1>1 DEF Kept
<1>3. \A name \in DOMAIN named : named[name] \in ArgTexts
  BY <1>2
<1>4. \A s \in ArgTexts : DOMAIN s \subseteq Nat
  BY DEF ArgTexts
<1>5. QED
  BY <1>2, <1>3, <1>4 DEF Args!All, Args!Places

\* A call marks some arguments and gives them to the program.
LEMMA MarkStep ==
  ASSUME ArgInv, args' = args, NEW P, P \subseteq Args!All, given' = given \cup P,
         positional' \in ArgTexts, DOMAIN positional' = DOMAIN positional,
         named' \in [DOMAIN named -> ArgTexts], \A name \in DOMAIN named : DOMAIN named'[name] = DOMAIN named[name],
         \A p \in DOMAIN positional : positional'[p].used <=> positional[p].used \/ Args!At(p) \in P,
         \A name \in DOMAIN named : \A i \in DOMAIN named[name] :
           named'[name][i].used <=> named[name][i].used \/ Args!Of(name, i) \in P,
         result'.op # "assert_none_unused", Args!IntegersAsSpelled'
  PROVE  ArgInv'
<1> DEFINE st == [positional |-> positional, named |-> named]
           st2 == [positional |-> positional', named |-> named']
<1>1. Args!All' = Args!All /\ Args!Places(st2) = Args!Places(st)
  <2>1. DOMAIN named' = DOMAIN named
    OBVIOUS
  <2>2. \A name \in DOMAIN named : {Args!Of(name, i) : i \in DOMAIN named'[name]} = {Args!Of(name, i) : i \in DOMAIN named[name]}
    OBVIOUS
  <2>3. UNION {{Args!Of(name, i) : i \in DOMAIN named'[name]} : name \in DOMAIN named'}
        = UNION {{Args!Of(name, i) : i \in DOMAIN named[name]} : name \in DOMAIN named}
    BY <2>1, <2>2
  <2>4. Args!Places(st2) = Args!Places(st)
    BY <2>3 DEF Args!Places
  <2>5. QED
    BY <2>4 DEF Args!All
<1>2. Args!Said' = Args!Said
  BY DEF Args!Said, Args!Flags
<1>3. Held(st2, Args!Said)
  <2>1. st \in Kept /\ IsFiniteSet(Args!Places(st)) /\ Cardinality(Args!Places(st)) = Args!Said
    BY DEF ArgInv, Held
  <2>2. DOMAIN named \subseteq Text
    BY Tables
  <2>3. st2 \in Kept
    BY <2>2 DEF Kept
  <2> HIDE DEF st, st2
  <2>4. QED
    BY <1>1, <2>1, <2>3 DEF Held
<1>4. Held([positional |-> positional, named |-> named], Args!Said)'
  BY <1>2, <1>3 DEF Held, Kept, ArgTexts, Text
<1>5. args' \in Seq(Text) /\ given' \subseteq Args!All'
  BY <1>1 DEF ArgInv
<1>6. \A p \in DOMAIN positional' : positional'[p].used <=> Args!At(p) \in given'
  BY DEF ArgInv
<1>7. \A name \in DOMAIN named' : \A i \in DOMAIN named'[name] : named'[name][i].used <=> Args!Of(name, i) \in given'
  BY DEF ArgInv
<1>8. (\A p \in DOMAIN positional : positional[p].used <=> Args!At(p) \in given)'
  BY <1>6 DEF Args!At
<1>9. (\A name \in DOMAIN named : \A i \in DOMAIN named[name] : named[name][i].used <=> Args!Of(name, i) \in given)'
  BY <1>7 DEF Args!Of
<1>10. QED
  BY <1>4, <1>5, <1>8, <1>9 DEF ArgInv, Text

\* A sequence of arguments, read as a function.
LEMMA ArgTextsAre ==
  ASSUME NEW s \in ArgTexts
  PROVE  /\ Len(s) \in Nat /\ DOMAIN s = 1..Len(s) /\ s = [i \in DOMAIN s |-> s[i]]
         /\ \A i \in DOMAIN s : s[i] \in [text : Text, used : BOOLEAN]
<1> DEFINE X == [text : Text, used : BOOLEAN]
<1>1. s \in Seq(X)
  BY DEF ArgTexts
<1> HIDE DEF X
<1>2. Len(s) \in Nat /\ DOMAIN s = 1..Len(s) /\ s = [i \in DOMAIN s |-> s[i]] /\ \A i \in DOMAIN s : s[i] \in X
  BY <1>1
<1>3. QED
  BY <1>2 DEF X

\* The values of a name, some of them marked.
Marked(name, good) ==
  [n \in DOMAIN named |->
     [i \in DOMAIN named[n] |-> IF n = name /\ i \in good THEN [named[n][i] EXCEPT !.used = TRUE] ELSE named[n][i]]]

LEMMA MarkedStep ==
  ASSUME ArgInv, NEW name, NEW good, good \subseteq DOMAIN Args!Values(name), named' = Marked(name, good),
         args' = args, positional' = positional, given' = given \cup {Args!Of(name, i) : i \in good},
         result'.op # "assert_none_unused", Args!IntegersAsSpelled'
  PROVE  ArgInv'
<1> DEFINE P == {Args!Of(name, i) : i \in good}
<1>1. name \notin DOMAIN named => good = {}
  BY DEF Args!Values
<1>2. name \in DOMAIN named => good \subseteq DOMAIN named[name]
  BY DEF Args!Values
<1>3. P \subseteq Args!All
  BY <1>1, <1>2, Tables
<1>4. /\ positional' \in ArgTexts /\ DOMAIN positional' = DOMAIN positional
      /\ \A p \in DOMAIN positional : positional'[p].used <=> positional[p].used \/ Args!At(p) \in P
  BY Tables DEF Args!At, Args!Of
<1>5. ASSUME NEW n \in DOMAIN named
      PROVE  /\ named'[n] \in ArgTexts /\ DOMAIN named'[n] = DOMAIN named[n]
             /\ \A i \in DOMAIN named[n] : named'[n][i].used <=> named[n][i].used \/ Args!Of(n, i) \in P
  <2> DEFINE s == named[n]
             t == [i \in DOMAIN s |-> IF n = name /\ i \in good THEN [s[i] EXCEPT !.used = TRUE] ELSE s[i]]
  <2>1. named'[n] = t /\ s \in ArgTexts
    BY <1>5, Tables DEF Marked
  <2>2. \A i \in DOMAIN s : s[i] \in [text : Text, used : BOOLEAN]
    BY <2>1, ArgTextsAre
  <2>3. \A i \in DOMAIN s : Args!Of(n, i) \in P <=> n = name /\ i \in good
    BY DEF Args!Of
  <2>4. \A i \in DOMAIN s : t[i] \in [text : Text, used : BOOLEAN] /\ (t[i].used <=> s[i].used \/ Args!Of(n, i) \in P)
    <3> SUFFICES ASSUME NEW i \in DOMAIN s PROVE t[i] \in [text : Text, used : BOOLEAN] /\ (t[i].used <=> s[i].used \/ Args!Of(n, i) \in P)
      OBVIOUS
    <3>1. PICK e \in [text : Text, used : BOOLEAN] : e = s[i]
      BY <2>2
    <3>2. t[i] = IF n = name /\ i \in good THEN [e EXCEPT !.used = TRUE] ELSE e
      BY <3>1
    <3> HIDE DEF t, s
    <3>3. QED
      BY <2>3, <3>1, <3>2
  <2>5. t \in ArgTexts /\ DOMAIN t = DOMAIN s
    <3>1. DOMAIN s = 1..Len(s) /\ Len(s) \in Nat
      BY <2>1 DEF ArgTexts
    <3>2. DOMAIN t = DOMAIN s
      OBVIOUS
    <3>3. t = [i \in 1..Len(s) |-> t[i]]
      BY <3>1
    <3> HIDE DEF t
    <3>4. QED
      BY <2>4, <3>1, <3>2, <3>3 DEF ArgTexts
  <2>6. QED
    BY <2>1, <2>4, <2>5
<1>6. named' \in [DOMAIN named -> ArgTexts]
  <2>1. DOMAIN named' = DOMAIN named /\ named' = [n \in DOMAIN named |-> named'[n]]
    BY DEF Marked
  <2>2. \A n \in DOMAIN named : named'[n] \in ArgTexts
    BY <1>5
  <2>3. QED
    BY <2>1, <2>2
<1> HIDE DEF P
<1>7. given' = given \cup P
  BY DEF P
<1>8. QED
  BY <1>3, <1>4, <1>5, <1>6, <1>7, MarkStep

\* Nothing is marked.
LEMMA SameMarks ==
  ASSUME ArgInv, NEW name
  PROVE  /\ Marked(name, {}) = named
         /\ \A i \in DOMAIN Args!Values(name) :
              name \in DOMAIN named /\ [named EXCEPT ![name][i].used = TRUE] = Marked(name, {i})
<1>1. \A n \in DOMAIN named : named[n] = [i \in DOMAIN named[n] |-> named[n][i]]
  BY Tables, ArgTextsAre
<1>2. named = [n \in DOMAIN named |-> named[n]]
  BY Tables
<1>3. Marked(name, {}) = named
  BY <1>1, <1>2 DEF Marked
<1>4. ASSUME NEW i \in DOMAIN Args!Values(name)
      PROVE  name \in DOMAIN named /\ [named EXCEPT ![name][i].used = TRUE] = Marked(name, {i})
  <2>1. name \in DOMAIN named /\ i \in DOMAIN named[name]
    BY DEF Args!Values
  <2> DEFINE u == [named EXCEPT ![name][i].used = TRUE]
  <2>2. DOMAIN u = DOMAIN named /\ u = [n \in DOMAIN named |-> u[n]]
    OBVIOUS
  <2>3. u[name] = [named[name] EXCEPT ![i].used = TRUE] /\ \A n \in DOMAIN named : n # name => u[n] = named[n]
    BY <2>1
  <2> HIDE DEF u
  <2>4. u[name] = [j \in DOMAIN named[name] |-> IF j = i THEN [named[name][j] EXCEPT !.used = TRUE] ELSE named[name][j]]
    BY <1>1, <2>1, <2>3
  <2>5. \A n \in DOMAIN named : u[n] = [j \in DOMAIN named[n] |-> IF n = name /\ j \in {i} THEN [named[n][j] EXCEPT !.used = TRUE] ELSE named[n][j]]
    <3> SUFFICES ASSUME NEW n \in DOMAIN named
                 PROVE  u[n] = [j \in DOMAIN named[n] |-> IF n = name /\ j \in {i} THEN [named[n][j] EXCEPT !.used = TRUE] ELSE named[n][j]]
      OBVIOUS
    <3>1. CASE n = name
      BY <2>4, <3>1
    <3>2. CASE n # name
      BY <1>1, <2>3, <3>2
    <3>3. QED
      BY <3>1, <3>2
  <2>6. u = Marked(name, {i})
    BY <2>2, <2>5 DEF Marked
  <2>7. QED
    BY <2>1, <2>6 DEF u
<1>5. QED
  BY <1>3, <1>4

\* The values of a name are arguments; a name with one has it at 1.
LEMMA OneValue ==
  ASSUME ArgInv, NEW name
  PROVE  /\ Args!Values(name) \in ArgTexts
         /\ Len(Args!Values(name)) = 1 => 1 \in DOMAIN Args!Values(name) /\ Args!Values(name)[1].text \in Text
<1>1. Args!Values(name) \in ArgTexts
  <2>1. <<>> \in ArgTexts
    BY DEF ArgTexts
  <2>2. QED
    BY <2>1, Tables DEF Args!Values
<1>2. PICK s \in ArgTexts : s = Args!Values(name)
  BY <1>1
<1>3. Len(s) = 1 => 1 \in DOMAIN s /\ s[1] \in [text : Text, used : BOOLEAN]
  BY ArgTextsAre
<1>4. QED
  BY <1>2, <1>3

\* Marking some values of a name is leaving those of the others.
LEMMA OnlyOf ==
  ASSUME ArgInv, NEW name, NEW good
  PROVE  Marked(name, good) =
           [n \in DOMAIN named |->
              IF n = name THEN [i \in DOMAIN named[n] |-> IF i \in good THEN [named[n][i] EXCEPT !.used = TRUE] ELSE named[n][i]]
              ELSE named[n]]
<1>1. \A n \in DOMAIN named : named[n] = [i \in DOMAIN named[n] |-> named[n][i]]
  BY Tables, ArgTextsAre
<1>2. QED
  BY <1>1 DEF Marked

\* What a call answers when it says no number.
LEMMA Saying ==
  ASSUME NEW op, NEW outcome, Args!Says(op, outcome), op # "get_int" \/ outcome # "ok"
  PROVE  args' = args /\ result'.op = op /\ result'.outcome = outcome /\ Args!IntegersAsSpelled'
BY DEF Args!Says, Args!IntegersAsSpelled

\* A call that finds no argument leaves them as they are.
LEMMA MissingStep ==
  ASSUME ArgInv, NEW op, NEW outcome, Args!Says(op, outcome), op # "get_int" \/ outcome # "ok", op # "assert_none_unused",
         named' = named, given' = given, positional' = positional
  PROVE  ArgInv'
<1>1. named' = Marked(<<>>, {}) /\ {} \subseteq DOMAIN Args!Values(<<>>) /\ given' = given \cup {Args!Of(<<>>, i) : i \in {}}
  BY SameMarks
<1>2. QED
  BY <1>1, Saying, MarkedStep

LEMMA GetStep ==
  ASSUME ArgInv, NEW name, Args!get(name)
  PROVE  ArgInv'
<1>1. positional' = positional
  BY DEF Args!get
<1>2. CASE Len(Args!Values(name)) = 1
  <2>1. Args!Use(name, 1) /\ given' = given \cup {Args!Of(name, 1)} /\ Args!Says("get", "ok")
    BY <1>2 DEF Args!get
  <2>2. 1 \in DOMAIN Args!Values(name)
    BY <1>2, OneValue
  <2>3. named' = Marked(name, {1}) /\ {1} \subseteq DOMAIN Args!Values(name) /\ given' = given \cup {Args!Of(name, i) : i \in {1}}
    BY <2>1, <2>2, SameMarks DEF Args!Use
  <2>4. QED
    BY <1>1, <2>1, <2>3, Saying, MarkedStep
<1>3. CASE Len(Args!Values(name)) # 1
  <2>1. Args!Says("get", "missing") /\ named' = named /\ given' = given
    BY <1>3 DEF Args!get
  <2>2. QED
    BY <1>1, <2>1, MissingStep
<1>4. QED
  BY <1>2, <1>3

\* By position.
LEMMA GetPositionStep ==
  ASSUME ArgInv, NEW p \in Nat, Args!get_position(p)
  PROVE  ArgInv'
<1>1. named' = named
  BY DEF Args!get_position
<1>2. CASE p \notin DOMAIN positional
  <2>1. Args!Says("get", "missing") /\ positional' = positional /\ given' = given
    BY <1>2 DEF Args!get_position
  <2>2. QED
    BY <1>1, <2>1, MissingStep
<1>3. CASE p \in DOMAIN positional
  <2>1. /\ positional' = [positional EXCEPT ![p].used = TRUE]
        /\ given' = given \cup {Args!At(p)} /\ Args!Says("get", "ok")
    BY <1>3 DEF Args!get_position
  <2>2. positional \in ArgTexts
    BY Tables
  <2>3. positional[p] \in [text : Text, used : BOOLEAN]
    BY <1>3, <2>2, ArgTextsAre
  <2>4. PICK e \in [text : Text, used : BOOLEAN] : e = [positional[p] EXCEPT !.used = TRUE]
    BY <2>3
  <2>5. e.used /\ positional' = [positional EXCEPT ![p] = e]
    BY <2>1, <2>3, <2>4
  <2>6. positional' \in ArgTexts /\ DOMAIN positional' = DOMAIN positional
    BY <1>3, <2>2, <2>5 DEF ArgTexts
  <2>7. {Args!At(p)} \subseteq Args!All
    BY <1>3, Tables
  <2>8. \A q \in DOMAIN positional : positional'[q].used <=> positional[q].used \/ Args!At(q) \in {Args!At(p)}
    <3> SUFFICES ASSUME NEW q \in DOMAIN positional
                 PROVE  positional'[q].used <=> positional[q].used \/ Args!At(q) \in {Args!At(p)}
      OBVIOUS
    <3>1. CASE q = p
      BY <1>3, <2>5, <3>1
    <3>2. CASE q # p
      BY <2>5, <3>2 DEF Args!At
    <3>3. QED
      BY <3>1, <3>2
  <2>9. /\ named' \in [DOMAIN named -> ArgTexts]
        /\ \A name \in DOMAIN named : DOMAIN named'[name] = DOMAIN named[name]
        /\ \A name \in DOMAIN named : \A i \in DOMAIN named[name] :
             named'[name][i].used <=> named[name][i].used \/ Args!Of(name, i) \in {Args!At(p)}
    BY <1>1, Tables DEF Args!At, Args!Of
  <2>10. args' = args /\ result'.op # "assert_none_unused" /\ Args!IntegersAsSpelled'
    BY <2>1, Saying
  <2>11. PICK P : P = {Args!At(p)}
    OBVIOUS
  <2>12. P \subseteq Args!All /\ given' = given \cup P
    BY <2>1, <2>7, <2>11
  <2>13. \A q \in DOMAIN positional : positional'[q].used <=> positional[q].used \/ Args!At(q) \in P
    BY <2>8, <2>11
  <2>14. /\ named' \in [DOMAIN named -> ArgTexts]
         /\ \A name \in DOMAIN named : DOMAIN named'[name] = DOMAIN named[name]
         /\ \A name \in DOMAIN named : \A i \in DOMAIN named[name] :
              named'[name][i].used <=> named[name][i].used \/ Args!Of(name, i) \in P
    BY <2>9, <2>11
  <2>15. QED
    BY <2>6, <2>10, <2>12, <2>13, <2>14, MarkStep
<1>4. QED
  BY <1>2, <1>3

LEMMA GetIntStep ==
  ASSUME ArgInv, NEW name, NEW signed \in BOOLEAN, NEW default \in BOOLEAN, Args!get_int(name, signed, default)
  PROVE  ArgInv'
<1> DEFINE text == Args!Values(name)[1].text
           r == Args!parse_int(text, signed)
<1>1. positional' = positional
  BY DEF Args!get_int
<1>2. CASE Len(Args!Values(name)) = 1
  <2>1. /\ Args!Use(name, 1) /\ given' = given \cup {Args!Of(name, 1)} /\ args' = args
        /\ result' = [op |-> "get_int", outcome |-> IF r.ok THEN "ok" ELSE "invalid",
                       text |-> text, signed |-> signed, number |-> r.val]
    BY <1>2 DEF Args!get_int
  <2>2. 1 \in DOMAIN Args!Values(name) /\ text \in Text
    BY <1>2, OneValue
  <2>3. named' = Marked(name, {1}) /\ {1} \subseteq DOMAIN Args!Values(name) /\ given' = given \cup {Args!Of(name, i) : i \in {1}}
    BY <2>1, <2>2, SameMarks DEF Args!Use
  <2> HIDE DEF text
  <2>4. r.ok => Args!Spells(text, signed, r.val)
    BY <2>2, IntegersSpelled
  <2> HIDE DEF r
  <2>5. Args!IntegersAsSpelled' /\ result'.op # "assert_none_unused"
    BY <2>1, <2>4 DEF Args!IntegersAsSpelled
  <2>6. QED
    BY <1>1, <2>1, <2>3, <2>5, MarkedStep
<1>3. CASE Len(Args!Values(name)) # 1
  <2>1. PICK outcome \in {"default", "missing"} : outcome = IF default THEN "default" ELSE "missing"
    OBVIOUS
  <2>2. Args!Says("get_int", outcome) /\ named' = named /\ given' = given
    BY <1>3, <2>1 DEF Args!get_int
  <2>3. QED
    BY <1>1, <2>1, <2>2, MissingStep
<1>4. QED
  BY <1>2, <1>3

LEMMA GetMultiStep ==
  ASSUME ArgInv, NEW name, Args!get_multi(name)
  PROVE  ArgInv'
<1> DEFINE good == DOMAIN Args!Values(name)
<1>1. /\ Args!UseAll(name) /\ given' = given \cup {Args!Of(name, i) : i \in good}
      /\ Args!Says("get_multi", "ok") /\ positional' = positional
  BY DEF Args!get_multi
<1>2. named' = [n \in DOMAIN named |-> IF n = name THEN [i \in DOMAIN named[n] |-> IF i \in good THEN [named[n][i] EXCEPT !.used = TRUE] ELSE named[n][i]]
                                       ELSE named[n]]
  <2>1. name \in DOMAIN named => good = DOMAIN named[name]
    BY DEF Args!Values
  <2>2. QED
    BY <1>1, <2>1 DEF Args!UseAll
<1>3. good \subseteq DOMAIN Args!Values(name)
  OBVIOUS
<1> HIDE DEF good
<1>4. named' = Marked(name, good)
  BY <1>2, OnlyOf
<1>5. QED
  BY <1>1, <1>3, <1>4, Saying, MarkedStep

\* The values before the first bad one.
LEMMA GetMultiIntStep ==
  ASSUME ArgInv, NEW name, NEW signed \in BOOLEAN, Args!get_multi_int(name, signed)
  PROVE  ArgInv'
<1> DEFINE bad == {i \in DOMAIN Args!Values(name) : ~Args!parse_int(Args!Values(name)[i].text, signed).ok}
           good == IF bad = {} THEN DOMAIN Args!Values(name) ELSE 1..(Args!First(bad) - 1)
<1>1. PICK outcome : outcome = IF bad = {} THEN "ok" ELSE "invalid"
  OBVIOUS
<1>2. /\ named' = [n \in DOMAIN named |->
                     IF n = name THEN [i \in DOMAIN named[n] |-> IF i \in good THEN [named[n][i] EXCEPT !.used = TRUE] ELSE named[n][i]]
                     ELSE named[n]]
      /\ given' = given \cup {Args!Of(name, i) : i \in good}
      /\ Args!Says("get_multi", outcome)
      /\ positional' = positional
  BY <1>1 DEF Args!get_multi_int
<1>3. good \subseteq DOMAIN Args!Values(name)
  <2>1. PICK s \in ArgTexts : s = Args!Values(name)
    BY OneValue
  <2>2. DOMAIN s = 1..Len(s) /\ Len(s) \in Nat
    BY ArgTextsAre
  <2>3. ASSUME bad # {} PROVE Args!First(bad) \in 1..Len(s)
    <3>1. bad \subseteq Nat /\ bad \subseteq 1..Len(s)
      BY <2>1, <2>2
    <3>2. QED
      BY <2>3, <3>1, FirstPlace
  <2> HIDE DEF bad
  <2>4. QED
    BY <2>1, <2>2, <2>3
<1> HIDE DEF good
<1>4. named' = Marked(name, good)
  BY <1>2, OnlyOf
<1>5. QED
  BY <1>2, <1>3, <1>4, Saying, MarkedStep

\* assert_none_unused finds nothing exactly when every argument is marked.
LEMMA AssertStep ==
  ASSUME ArgInv, Args!assert_none_unused
  PROVE  ArgInv'
<1> DEFINE unused == \/ \E p \in DOMAIN positional : ~positional[p].used
                     \/ \E name \in DOMAIN named : \E i \in DOMAIN named[name] : ~named[name][i].used
<1>1. PICK outcome : outcome = IF unused THEN "invalid" ELSE "ok"
  OBVIOUS
<1>2. Args!Says("assert_none_unused", outcome) /\ positional' = positional /\ named' = named /\ given' = given
  BY <1>1 DEF Args!assert_none_unused
<1>3. args' = args /\ result'.op = "assert_none_unused" /\ result'.outcome = outcome /\ Args!IntegersAsSpelled'
  BY <1>2, Saying
<1>4. unused <=> given # Args!All
  <2>1. unused => given # Args!All
    <3>1. ASSUME NEW p \in DOMAIN positional, ~positional[p].used PROVE Args!At(p) \in Args!All /\ Args!At(p) \notin given
      BY <3>1, Tables DEF ArgInv
    <3>2. ASSUME NEW name \in DOMAIN named, NEW i \in DOMAIN named[name], ~named[name][i].used
          PROVE  Args!Of(name, i) \in Args!All /\ Args!Of(name, i) \notin given
      BY <3>2, Tables DEF ArgInv
    <3>3. QED
      BY <3>1, <3>2
  <2>2. ~unused => given = Args!All
    <3> SUFFICES ASSUME ~unused PROVE Args!All \subseteq given
      BY DEF ArgInv
    <3>1. \A p \in DOMAIN positional : Args!At(p) \in given
      BY DEF ArgInv
    <3>2. \A name \in DOMAIN named : \A i \in DOMAIN named[name] : Args!Of(name, i) \in given
      BY DEF ArgInv
    <3>3. QED
      BY <3>1, <3>2, Tables
  <2>3. QED
    BY <2>1, <2>2
<1> HIDE DEF unused
<1>5. Args!All' = Args!All
  BY <1>2 DEF Args!All, Args!Places, Args!At, Args!Of
<1>6. (result.op = "assert_none_unused" => (result.outcome = "ok" <=> given = Args!All))'
  BY <1>1, <1>2, <1>3, <1>4, <1>5
<1>7. Held([positional |-> positional, named |-> named], Args!Said)'
  <2>1. Held([positional |-> positional, named |-> named], Args!Said)
    BY DEF ArgInv
  <2>2. Args!Said' = Args!Said
    BY <1>3 DEF Args!Said, Args!Flags
  <2>3. Held([positional |-> positional', named |-> named'], Args!Said)
    BY <1>2, <2>1
  <2>4. QED
    BY <2>2, <2>3 DEF Held, Kept, ArgTexts, Text
<1>8. /\ (args \in Seq(Text))' /\ (given \subseteq Args!All)'
      /\ (\A p \in DOMAIN positional : positional[p].used <=> Args!At(p) \in given)'
      /\ (\A name \in DOMAIN named : \A i \in DOMAIN named[name] : named[name][i].used <=> Args!Of(name, i) \in given)'
  BY <1>2, <1>3, <1>5 DEF ArgInv, Args!At, Args!Of
<1>9. QED
  BY <1>3, <1>6, <1>7, <1>8 DEF ArgInv, Text

LEMMA ArgNextInv ==
  ASSUME ArgInv, [Args!ArgNext]_(Args!argVars)
  PROVE  ArgInv'
<1>1. CASE Args!ArgNext
  <2>1. ASSUME NEW name \in Names, Args!get(name) PROVE ArgInv'
    BY <2>1, GetStep
  <2>2. ASSUME NEW name \in Names, Args!get_multi(name) PROVE ArgInv'
    BY <2>2, GetMultiStep
  <2>3. ASSUME NEW name \in Names, NEW signed \in BOOLEAN, NEW default \in BOOLEAN, Args!get_int(name, signed, default) PROVE ArgInv'
    BY <2>3, GetIntStep
  <2>4. ASSUME NEW name \in Names, NEW signed \in BOOLEAN, Args!get_multi_int(name, signed) PROVE ArgInv'
    BY <2>4, GetMultiIntStep
  <2>5. ASSUME NEW p \in 1..3, Args!get_position(p) PROVE ArgInv'
    BY <2>5, GetPositionStep
  <2>6. CASE Args!assert_none_unused
    BY <2>6, AssertStep
  <2>7. QED
    BY <1>1, <2>1, <2>2, <2>3, <2>4, <2>5, <2>6 DEF Args!ArgNext
<1>2. CASE UNCHANGED Args!argVars
  BY <1>2 DEF Args!argVars, ArgInv, Held, Kept, ArgTexts, Text, Args!Said, Args!Flags, Args!All, Args!Places, Args!At, Args!Of,
     Args!IntegersAsSpelled
<1>3. QED
  BY <1>1, <1>2

LEMMA ArgInitInv ==
  ASSUME Args!ArgInit
  PROVE  ArgInv
<1>1. args \in Seq(Text)
  BY ArgumentsAssumption DEF Args!ArgInit, Text
<1>2. Found(Args!parse(args), Args!Said)
  BY <1>1, AllFound
<1>3. PICK st : st = Args!parse(args)
  OBVIOUS
<1>4. positional = st.positional /\ named = st.named /\ given = {} /\ result.op = "none"
  BY <1>3 DEF Args!ArgInit
<1>5. st \in Parsed /\ st = [positional |-> positional, named |-> named]
  BY <1>2, <1>3, <1>4 DEF Found, Parsed
<1>6. PICK D \in SUBSET Text : named \in [D -> Unread] /\ positional \in Unread
  BY <1>4, <1>5 DEF Parsed
<1>7. \A s \in Unread : s \in ArgTexts /\ \A i \in DOMAIN s : s[i].used = FALSE
  <2> SUFFICES ASSUME NEW s \in Unread PROVE s \in ArgTexts /\ \A i \in DOMAIN s : s[i].used = FALSE
    OBVIOUS
  <2>1. Len(s) \in Nat /\ DOMAIN s = 1..Len(s) /\ s = [i \in 1..Len(s) |-> s[i]] /\ \A i \in 1..Len(s) : s[i] \in Fresh
    BY DEF Unread
  <2>2. \A i \in 1..Len(s) : s[i] \in [text : Text, used : BOOLEAN] /\ s[i].used = FALSE
    BY <2>1 DEF Fresh
  <2> DEFINE X == [text : Text, used : BOOLEAN]
  <2>3. ArgTexts = Seq(X) /\ \A i \in 1..Len(s) : s[i] \in X
    BY <2>2 DEF ArgTexts
  <2> HIDE DEF X
  <2>4. s \in Seq(X)
    BY <2>1, <2>3
  <2>5. QED
    BY <2>1, <2>2, <2>3, <2>4
<1>8. st \in Kept
  <2>1. positional \in ArgTexts /\ named \in [D -> ArgTexts]
    BY <1>6, <1>7
  <2>2. QED
    BY <1>5, <2>1 DEF Kept
<1>9. Held([positional |-> positional, named |-> named], Args!Said)
  BY <1>2, <1>3, <1>5, <1>8 DEF Found, Held
<1>10. /\ \A p \in DOMAIN positional : positional[p].used <=> Args!At(p) \in given
       /\ \A name \in DOMAIN named : \A i \in DOMAIN named[name] : named[name][i].used <=> Args!Of(name, i) \in given
  BY <1>4, <1>6, <1>7
<1>11. QED
  BY <1>1, <1>4, <1>9, <1>10 DEF ArgInv, Args!IntegersAsSpelled

(* The program is told of every argument it was started with and has not asked for, however often    *)
(* it is given and in whatever group, and of none it was answered; and the integers it reads are the *)
(* ones their texts spell (Arguments::assert_none_unused and Arguments::parse_int, Arguments.cc and  *)
(* Arguments.hh).                                                                                    *)
THEOREM UsedArguments == Args!ArgSpec => []ArgumentsAreUsed
<1>1. ArgInv => ArgumentsAreUsed
  <2> SUFFICES ASSUME ArgInv PROVE ArgumentsAreUsed
    OBVIOUS
  <2>1. Cardinality(Args!All) = Args!Said
    BY DEF ArgInv, Held, Args!All
  <2>2. Args!Cardinality(Args!All) = Cardinality(Args!All)
    BY DEF Args!Cardinality, Cardinality
  <2>3. QED
    BY <2>1, <2>2 DEF ArgumentsAreUsed, Args!NothingUnnoticed, ArgInv
<1>2. Args!ArgInit => ArgInv
  BY ArgInitInv
<1>3. ArgInv /\ [Args!ArgNext]_(Args!argVars) => ArgInv'
  BY ArgNextInv
<1>4. QED
  BY <1>1, <1>2, <1>3, PTL DEF Args!ArgSpec
-----------------------------------------------------------------------------
\* BitWriter and BitReader.  A bit has a byte, its row, and a place in it, its column.

\* The bits of a byte.
Octet == [0..(ByteBits - 1) -> 0..1]

\* The byte and the place of a bit, the bits being counted from 1.
Row(i) == (i - 1) \div ByteBits + 1
Col(i) == ByteBits - 1 - ((i - 1) % ByteBits)

\* A row more is ByteBits more.
LEMMA Rows ==
  ASSUME NEW k \in Nat, NEW n \in Nat
  PROVE  k * ByteBits \in Nat /\ (k < n => k * ByteBits + ByteBits <= n * ByteBits) /\ (k + 1) * ByteBits = k * ByteBits + ByteBits
<1>1. ByteBits \in Nat
  BY BitsAssumption
<1>2. k * ByteBits \in Nat /\ (k + 1) * ByteBits = k * ByteBits + ByteBits
  BY <1>1
<1>3. ASSUME k < n PROVE k * ByteBits + ByteBits <= n * ByteBits
  <2>1. PICK d \in Nat : n = k + 1 + d
    <3>1. n - k - 1 \in Nat /\ n = k + 1 + (n - k - 1)
      BY <1>3
    <3>2. QED
      BY <3>1
  <2>2. n * ByteBits = k * ByteBits + ByteBits + d * ByteBits /\ d * ByteBits \in Nat
    BY <1>1, <2>1
  <2>3. QED
    BY <1>1, <1>2, <2>2
<1>4. QED
  BY <1>2, <1>3

\* There is one way to cut a number into rows.
LEMMA OneWay ==
  ASSUME NEW k \in Nat, NEW n \in Nat, NEW y \in 0..(ByteBits - 1), NEW z \in 0..(ByteBits - 1),
         k * ByteBits - y = n * ByteBits - z
  PROVE  k = n /\ y = z
<1>1. ByteBits \in Nat
  BY BitsAssumption
<1>2. k * ByteBits \in Nat /\ n * ByteBits \in Nat
  BY Rows
<1>3. (k < n => k * ByteBits + ByteBits <= n * ByteBits) /\ (n < k => n * ByteBits + ByteBits <= k * ByteBits)
  BY Rows
<1> DEFINE kb == k * ByteBits
           nb == n * ByteBits
<1>4. kb \in Nat /\ nb \in Nat /\ (k < n => kb + ByteBits <= nb) /\ (n < k => nb + ByteBits <= kb) /\ kb - y = nb - z
      /\ (k = n => kb = nb)
  BY <1>2, <1>3
<1> HIDE DEF kb, nb
<1>5. ~(k < n) /\ ~(n < k)
  BY <1>1, <1>4
<1>6. k = n
  BY <1>5
<1>7. QED
  BY <1>4, <1>6

LEMMA RowCol ==
  ASSUME NEW i \in Nat \ {0}
  PROVE  Row(i) \in Nat \ {0} /\ Col(i) \in 0..(ByteBits - 1) /\ i = Row(i) * ByteBits - Col(i)
<1>1. ByteBits \in Nat /\ ByteBits > 0 /\ i - 1 \in Nat
  BY BitsAssumption
<1> DEFINE q == (i - 1) \div ByteBits
           r == (i - 1) % ByteBits
<1>2. q \in Nat /\ r \in 0..(ByteBits - 1) /\ i - 1 = ByteBits * q + r
  BY <1>1
<1>3. Row(i) = q + 1 /\ Col(i) = ByteBits - 1 - r
  BY DEF Row, Col
<1> HIDE DEF q, r
<1>4. (q + 1) * ByteBits = q * ByteBits + ByteBits /\ q * ByteBits = ByteBits * q /\ q * ByteBits \in Nat
  BY <1>1, <1>2
<1>5. Row(i) * ByteBits = ByteBits * q + ByteBits
  BY <1>3, <1>4
<1>6. i = Row(i) * ByteBits - Col(i)
  <2> DEFINE b == ByteBits * q
             c == Row(i) * ByteBits
  <2>1. b \in Nat /\ c = b + ByteBits /\ i - 1 = b + r
    BY <1>2, <1>4, <1>5
  <2> HIDE DEF b, c
  <2>2. i = c - Col(i)
    BY <1>1, <1>2, <1>3, <2>1
  <2>3. QED
    BY <2>2 DEF c
<1>7. QED
  BY <1>1, <1>2, <1>3, <1>6

\* A bit in one of the first rows is before their end.
LEMMA Within ==
  ASSUME NEW i \in Nat \ {0}, NEW n \in Nat
  PROVE  i <= n * ByteBits <=> Row(i) <= n
<1>1. ByteBits \in Nat
  BY BitsAssumption
<1> DEFINE k == Row(i)
           z == Col(i)
           kb == k * ByteBits
           nb == n * ByteBits
<1>2. k \in Nat /\ z \in 0..(ByteBits - 1) /\ i = kb - z
  BY RowCol
<1> HIDE DEF k, z
<1>3. kb \in Nat /\ nb \in Nat /\ (k < n => kb + ByteBits <= nb) /\ (n < k => nb + ByteBits <= kb) /\ (k = n => kb = nb)
  BY <1>2, Rows
<1> HIDE DEF kb, nb
<1>4. ASSUME n < k PROVE i <= nb <=> k <= n
  BY <1>1, <1>2, <1>3, <1>4
<1>5. ASSUME k < n PROVE i <= nb <=> k <= n
  BY <1>1, <1>2, <1>3, <1>5
<1>6. ASSUME k = n PROVE i <= nb <=> k <= n
  BY <1>1, <1>2, <1>3, <1>6
<1>7. i <= nb <=> k <= n
  <2>1. n < k \/ k < n \/ k = n
    BY <1>2
  <2>2. QED
    BY <1>4, <1>5, <1>6, <2>1
<1>8. QED
  BY <1>7 DEF nb, k

\* The bits of some bytes.
LEMMA AllBits ==
  ASSUME NEW d \in Seq(Octet)
  PROVE  /\ Len(d) * ByteBits \in Nat
         /\ Bits!BitsOf(d) = [i \in 1..(Len(d) * ByteBits) |-> d[Row(i)][Col(i)]]
         /\ \A i \in 1..(Len(d) * ByteBits) : Row(i) \in 1..Len(d) /\ Col(i) \in 0..(ByteBits - 1) /\ d[Row(i)][Col(i)] \in 0..1
<1>1. Len(d) \in Nat
  OBVIOUS
<1>2. Len(d) * ByteBits \in Nat
  BY <1>1, Rows
<1>3. Bits!BitsOf(d) = [i \in 1..(Len(d) * ByteBits) |-> d[Row(i)][Col(i)]]
  BY DEF Bits!BitsOf, Bits!BitOf, Row, Col
<1>4. ASSUME NEW i \in 1..(Len(d) * ByteBits)
      PROVE  Row(i) \in 1..Len(d) /\ Col(i) \in 0..(ByteBits - 1) /\ d[Row(i)][Col(i)] \in 0..1
  <2>1. i \in Nat \ {0} /\ i <= Len(d) * ByteBits
    BY <1>2
  <2>2. Row(i) \in Nat \ {0} /\ Col(i) \in 0..(ByteBits - 1)
    BY <2>1, RowCol
  <2>3. Row(i) <= Len(d)
    BY <1>1, <2>1, Within
  <2>4. d[Row(i)] \in Octet
    BY <1>1, <2>2, <2>3
  <2>5. d[Row(i)][Col(i)] \in 0..1
    BY <2>2, <2>4 DEF Octet
  <2>6. Row(i) \in 1..Len(d)
    BY <1>1, <2>2, <2>3
  <2>7. QED
    BY <2>2, <2>5, <2>6
<1>5. QED
  BY <1>2, <1>3, <1>4

\* Bytes whose last u bits are not used, and zero.
Stored(d, u) ==
  /\ d \in Seq(Octet)
  /\ u \in 0..(ByteBits - 1)
  /\ u > 0 => Len(d) > 0 /\ \A z \in 0..(u - 1) : d[Len(d)][z] = 0

\* The bits that are used.
Written(d, u) == [i \in 1..(Len(d) * ByteBits - u) |-> d[Row(i)][Col(i)]]

LEMMA WrittenBits ==
  ASSUME NEW d, NEW u, Stored(d, u)
  PROVE  /\ Len(d) \in Nat /\ Len(d) * ByteBits \in Nat /\ Len(d) * ByteBits - u \in Nat
         /\ Written(d, u) \in Seq(0..1) /\ Len(Written(d, u)) = Len(d) * ByteBits - u
         /\ SubSeq(Bits!BitsOf(d), 1, Len(d) * ByteBits - u) = Written(d, u)
<1> DEFINE n == Len(d) * ByteBits
           size == n - u
<1>1. d \in Seq(Octet) /\ u \in 0..(ByteBits - 1) /\ ByteBits \in Nat /\ Len(d) \in Nat
  BY BitsAssumption DEF Stored
<1>2. n \in Nat /\ \A i \in 1..n : d[Row(i)][Col(i)] \in 0..1
  BY <1>1, AllBits
<1>3. size \in Nat /\ size <= n
  <2>1. u > 0 => ByteBits <= n
    <3>1. u > 0 => 0 < Len(d) /\ 0 \in Nat
      BY DEF Stored
    <3>2. 0 < Len(d) => 0 * ByteBits + ByteBits <= n
      BY <1>1, Rows
    <3>3. 0 * ByteBits = 0
      BY <1>1
    <3> HIDE DEF n
    <3>4. QED
      BY <1>1, <3>1, <3>2, <3>3
  <2> HIDE DEF n
  <2>2. QED
    BY <1>1, <1>2, <2>1
<1>4. Bits!BitsOf(d) = [i \in 1..n |-> d[Row(i)][Col(i)]]
  BY <1>1, AllBits
<1>5. Written(d, u) = [i \in 1..size |-> d[Row(i)][Col(i)]]
  BY DEF Written
<1> HIDE DEF n, size
<1>6. Written(d, u) \in Seq(0..1) /\ Len(Written(d, u)) = size
  BY <1>2, <1>3, <1>5
<1>7. SubSeq(Bits!BitsOf(d), 1, size) = Written(d, u)
  <2>1. SubSeq(Bits!BitsOf(d), 1, size) = [i \in 1..size |-> Bits!BitsOf(d)[i]]
    BY <1>2, <1>3, <1>4
  <2>2. \A i \in 1..size : Bits!BitsOf(d)[i] = d[Row(i)][Col(i)]
    BY <1>2, <1>3, <1>4
  <2>3. QED
    BY <1>5, <2>1, <2>2
<1>8. QED
  BY <1>1, <1>2, <1>3, <1>6, <1>7 DEF n, size

\* A bit more.
LEMMA Lengthened ==
  ASSUME NEW d, NEW u, Stored(d, u), NEW e, NEW w, Stored(e, w), NEW v \in 0..1,
         Len(e) * ByteBits - w = Len(d) * ByteBits - u + 1,
         \A i \in 1..(Len(d) * ByteBits - u) : e[Row(i)][Col(i)] = d[Row(i)][Col(i)],
         e[Row(Len(e) * ByteBits - w)][Col(Len(e) * ByteBits - w)] = v
  PROVE  Written(e, w) = Append(Written(d, u), v)
<1> DEFINE size == Len(d) * ByteBits - u
           more == Len(e) * ByteBits - w
<1>1. size \in Nat /\ more = size + 1 /\ Written(d, u) \in Seq(0..1) /\ Len(Written(d, u)) = size
  BY WrittenBits
<1>2. /\ Written(e, w) = [i \in 1..more |-> e[Row(i)][Col(i)]]
      /\ Written(d, u) = [i \in 1..size |-> d[Row(i)][Col(i)]]
  BY DEF Written
<1>3. \A i \in 1..size : e[Row(i)][Col(i)] = d[Row(i)][Col(i)]
  OBVIOUS
<1>4. e[Row(more)][Col(more)] = v
  OBVIOUS
<1> HIDE DEF size, more
<1> DEFINE s == Written(d, u)
           t == Append(s, v)
<1>5. t = [i \in 1..more |-> IF i = more THEN v ELSE s[i]]
  <2>1. s \in Seq(0..1) /\ Len(s) = size /\ v \in 0..1
    BY <1>1
  <2> HIDE DEF s
  <2>2. t \in Seq(0..1) /\ Len(t) = more /\ t[more] = v /\ \A i \in 1..more : i # more => t[i] = s[i]
    BY <1>1, <2>1
  <2>3. DOMAIN t = 1..more /\ \A i \in 1..more : t[i] = IF i = more THEN v ELSE s[i]
    BY <1>1, <2>2
  <2> HIDE DEF t
  <2>4. t = [i \in DOMAIN t |-> t[i]]
    BY <2>2
  <2>5. QED
    BY <2>3, <2>4
<1>6. \A i \in 1..more : e[Row(i)][Col(i)] = IF i = more THEN v ELSE s[i]
  <2> SUFFICES ASSUME NEW i \in 1..more PROVE e[Row(i)][Col(i)] = IF i = more THEN v ELSE s[i]
    OBVIOUS
  <2>1. CASE i = more
    BY <1>4, <2>1
  <2>2. CASE i # more
    <3>1. i \in 1..size
      BY <1>1, <2>2
    <3>2. QED
      BY <1>2, <1>3, <2>2, <3>1
  <2>3. QED
    BY <2>1, <2>2
<1> HIDE DEF s, t
<1>7. QED
  BY <1>2, <1>5, <1>6 DEF s, t

LEMMA WriteBit ==
  ASSUME NEW d, NEW u, Stored(d, u), NEW v \in 0..1, NEW e, NEW w,
         IF u > 0 THEN e = [d EXCEPT ![Len(d)] = IF v = 1 THEN [@ EXCEPT ![u - 1] = 1] ELSE @] /\ w = u - 1
         ELSE e = Append(d, [z \in 0..(ByteBits - 1) |-> IF z = ByteBits - 1 THEN v ELSE 0]) /\ w = ByteBits - 1
  PROVE  Stored(e, w) /\ Written(e, w) = Append(Written(d, u), v)
<1> DEFINE k == Len(d)
           n == k * ByteBits
           size == n - u
<1>1. d \in Seq(Octet) /\ u \in 0..(ByteBits - 1) /\ ByteBits \in Nat \ {0} /\ k \in Nat /\ n \in Nat /\ size \in Nat
  BY WrittenBits, BitsAssumption DEF Stored
<1>2. \A i \in 1..size : Row(i) \in 1..k /\ Col(i) \in 0..(ByteBits - 1) /\ i = Row(i) * ByteBits - Col(i)
  <2> SUFFICES ASSUME NEW i \in 1..size PROVE Row(i) \in 1..k /\ Col(i) \in 0..(ByteBits - 1) /\ i = Row(i) * ByteBits - Col(i)
    OBVIOUS
  <2>1. i \in Nat \ {0} /\ i \in 1..n
    <3> HIDE DEF n
    <3>1. QED
      BY <1>1
  <2>2. QED
    BY <1>1, <2>1, AllBits, RowCol
<1>3. CASE u > 0
  <2> DEFINE last == d[k]
             next == IF v = 1 THEN [last EXCEPT ![u - 1] = 1] ELSE last
  <2>1. e = [d EXCEPT ![k] = next] /\ w = u - 1
    BY <1>3
  <2>2. k \in 1..k /\ last \in Octet /\ last[u - 1] = 0 /\ u - 1 \in 0..(ByteBits - 1) /\ \A z \in 0..(u - 1) : last[z] = 0
    <3>1. k \in 1..k /\ u - 1 \in 0..(ByteBits - 1)
      BY <1>1, <1>3 DEF Stored
    <3>2. last \in Octet
      BY <1>1, <3>1
    <3>3. \A z \in 0..(u - 1) : last[z] = 0
      BY <1>3 DEF Stored
    <3>4. u - 1 \in 0..(u - 1)
      BY <1>1, <1>3
    <3>5. QED
      BY <3>1, <3>2, <3>3, <3>4
  <2>3. next \in Octet /\ next[u - 1] = v /\ \A z \in 0..(ByteBits - 1) : z # u - 1 => next[z] = last[z]
    <3> HIDE DEF last
    <3>1. CASE v = 1
      BY <2>2, <3>1 DEF Octet
    <3>2. CASE v # 1
      BY <2>2, <3>2 DEF Octet
    <3>3. QED
      BY <3>1, <3>2
  <2> HIDE DEF next
  <2>4. e \in Seq(Octet) /\ Len(e) = k /\ e[k] = next /\ \A j \in 1..k : j # k => e[j] = d[j]
    BY <1>1, <2>1, <2>2, <2>3
  <2>5. \A z \in 0..(w - 1) : e[k][z] = 0
    <3> SUFFICES ASSUME NEW z \in 0..(w - 1) PROVE e[k][z] = 0
      OBVIOUS
    <3> HIDE DEF last
    <3>1. z \in 0..(u - 1) /\ z \in 0..(ByteBits - 1) /\ z # u - 1
      BY <1>1, <2>1
    <3>2. QED
      BY <2>2, <2>3, <2>4, <3>1
  <2>6. Stored(e, w)
    BY <1>1, <1>3, <2>1, <2>2, <2>4, <2>5 DEF Stored
  <2>7. Len(e) * ByteBits - w = size + 1
    <3>1. Len(e) * ByteBits = n
      BY <2>4
    <3> HIDE DEF n
    <3>2. QED
      BY <1>1, <2>1, <3>1
  <2>8. ASSUME NEW i \in Nat \ {0}, i = k * ByteBits - (u - 1) PROVE Row(i) = k /\ Col(i) = u - 1
    <3>1. Row(i) \in Nat /\ Col(i) \in 0..(ByteBits - 1) /\ i = Row(i) * ByteBits - Col(i)
      BY RowCol
    <3>2. Row(i) * ByteBits - Col(i) = k * ByteBits - (u - 1)
      BY <2>8, <3>1
    <3>3. k \in Nat /\ u - 1 \in 0..(ByteBits - 1)
      BY <1>1, <2>2
    <3> HIDE DEF k
    <3>4. QED
      BY <3>1, <3>2, <3>3, OneWay
  <2>9. \A i \in 1..size : e[Row(i)][Col(i)] = d[Row(i)][Col(i)]
    <3> SUFFICES ASSUME NEW i \in 1..size PROVE e[Row(i)][Col(i)] = d[Row(i)][Col(i)]
      OBVIOUS
    <3>1. Row(i) \in 1..k /\ Col(i) \in 0..(ByteBits - 1) /\ i = Row(i) * ByteBits - Col(i)
      BY <1>2
    <3>2. CASE Row(i) # k
      BY <2>4, <3>1, <3>2
    <3>3. CASE Row(i) = k
      <4>1. i = n - Col(i)
        BY <3>1, <3>3
      <4>2. Col(i) # u - 1
        <5> HIDE DEF n
        <5>1. QED
          BY <1>1, <3>1, <4>1
      <4>3. QED
        BY <2>3, <2>4, <3>1, <3>3, <4>2
    <3>4. QED
      BY <3>2, <3>3
  <2>10. e[Row(Len(e) * ByteBits - w)][Col(Len(e) * ByteBits - w)] = v
    <3>1. PICK i \in Nat \ {0} : i = Len(e) * ByteBits - w
      <4> HIDE DEF size
      <4>1. QED
        BY <1>1, <2>7
    <3>2. i = k * ByteBits - (u - 1)
      BY <2>1, <2>4, <3>1
    <3>3. Row(i) = k /\ Col(i) = u - 1
      BY <2>8, <3>2
    <3>4. QED
      BY <2>3, <2>4, <3>1, <3>3
  <2>11. QED
    BY <2>6, <2>7, <2>9, <2>10, Lengthened
<1>4. CASE u = 0
  <2> DEFINE new == [z \in 0..(ByteBits - 1) |-> IF z = ByteBits - 1 THEN v ELSE 0]
  <2>1. e = Append(d, new) /\ w = ByteBits - 1
    BY <1>4
  <2>2. new \in Octet /\ new[ByteBits - 1] = v /\ \A z \in 0..(w - 1) : new[z] = 0
    BY <1>1, <2>1 DEF Octet
  <2> HIDE DEF new
  <2>3. e \in Seq(Octet) /\ Len(e) = k + 1 /\ e[k + 1] = new /\ \A j \in 1..k : e[j] = d[j]
    BY <1>1, <2>1, <2>2
  <2>4. Stored(e, w)
    BY <1>1, <2>1, <2>2, <2>3 DEF Stored
  <2>5. Len(e) * ByteBits - w = size + 1
    <3>1. Len(e) * ByteBits = n + ByteBits
      BY <1>1, <2>3, Rows
    <3> HIDE DEF n
    <3>2. QED
      BY <1>1, <1>4, <2>1, <3>1
  <2>6. \A i \in 1..size : e[Row(i)][Col(i)] = d[Row(i)][Col(i)]
    BY <1>2, <2>3
  <2>7. e[Row(Len(e) * ByteBits - w)][Col(Len(e) * ByteBits - w)] = v
    <3>1. PICK i \in Nat \ {0} : i = Len(e) * ByteBits - w
      <4> HIDE DEF size
      <4>1. QED
        BY <1>1, <2>5
    <3>2. Row(i) \in Nat /\ Col(i) \in 0..(ByteBits - 1) /\ i = Row(i) * ByteBits - Col(i)
      BY <3>1, RowCol
    <3>3. i = (k + 1) * ByteBits - (ByteBits - 1) /\ k + 1 \in Nat /\ ByteBits - 1 \in 0..(ByteBits - 1)
      BY <1>1, <2>1, <2>3, <3>1
    <3>4. Row(i) = k + 1 /\ Col(i) = ByteBits - 1
      BY <3>2, <3>3, OneWay
    <3>5. QED
      BY <2>2, <2>3, <3>1, <3>4
  <2>8. QED
    BY <2>4, <2>5, <2>6, <2>7, Lengthened
<1>5. QED
  BY <1>1, <1>3, <1>4

\* How many bytes some bits need, and how many bits of the last one are not used.
LEMMA Rounded ==
  ASSUME NEW size \in Nat
  PROVE  LET w == (ByteBits - (size % ByteBits)) % ByteBits
             m == (size + ByteBits - 1) \div ByteBits
         IN  w \in 0..(ByteBits - 1) /\ m \in Nat /\ size = m * ByteBits - w
<1> DEFINE q == size \div ByteBits
           r == size % ByteBits
           x == size + ByteBits - 1
           m == x \div ByteBits
           p == x % ByteBits
           w == (ByteBits - r) % ByteBits
<1>1. ByteBits \in Nat /\ ByteBits > 0
  BY BitsAssumption
<1>2. q \in Nat /\ r \in 0..(ByteBits - 1) /\ size = ByteBits * q + r
  BY <1>1
<1>3. x \in Nat
  BY <1>1
<1> HIDE DEF x
<1>4. m \in Nat /\ p \in 0..(ByteBits - 1) /\ x = ByteBits * m + p
  BY <1>1, <1>3
<1>5. w = IF r = 0 THEN 0 ELSE ByteBits - r
  <2>1. PICK y \in 1..ByteBits : y = ByteBits - r
    BY <1>1, <1>2
  <2>2. y % ByteBits = IF y = ByteBits THEN 0 ELSE y
    BY <1>1
  <2> HIDE DEF r
  <2>3. QED
    BY <1>1, <1>2, <2>1, <2>2
<1> HIDE DEF q, r, m, p, w
<1> DEFINE k == IF r = 0 THEN q ELSE q + 1
           mb == m * ByteBits
           kb == k * ByteBits
           qb == q * ByteBits
<1>6. k \in Nat /\ w \in 0..(ByteBits - 1)
  BY <1>1, <1>2, <1>5
<1>7. kb = (IF r = 0 THEN qb ELSE qb + ByteBits) /\ qb \in Nat /\ qb = ByteBits * q
  BY <1>1, <1>2
<1>8. mb \in Nat /\ mb = ByteBits * m
  BY <1>1, <1>4
<1> HIDE DEF mb, kb, qb
<1>9. kb - w = size
  BY <1>1, <1>2, <1>5, <1>7
<1>10. mb - (ByteBits - 1 - p) = kb - w
  BY <1>1, <1>2, <1>4, <1>8, <1>9 DEF x
<1>11. m = k
  <2>1. PICK y \in 0..(ByteBits - 1) : y = ByteBits - 1 - p
    BY <1>1, <1>4
  <2>2. m * ByteBits - y = k * ByteBits - w
    BY <1>10, <2>1 DEF mb, kb
  <2> HIDE DEF k
  <2>3. QED
    BY <1>4, <1>6, <2>2, OneWay
<1>12. size = m * ByteBits - w
  BY <1>9, <1>11 DEF kb
<1>13. QED
  BY <1>4, <1>6, <1>12 DEF w, m, r, x

\* Some bits in m bytes, the last w of which are not used.
Fills(size, m, w) == w \in 0..(ByteBits - 1) /\ m \in Nat /\ size = m * ByteBits - w
Cut(d, m, w, e) ==
  LET kept == SubSeq(d, 1, m)
  IN  e = IF w > 0 THEN [kept EXCEPT ![Len(kept)] = [z \in DOMAIN @ |-> IF z < w THEN 0 ELSE @[z]]] ELSE kept
UpTo(size, d, u) == size \in Nat /\ size <= Len(d) * ByteBits - u

\* The first size bits.
LEMMA TruncateBits ==
  ASSUME NEW d, NEW u, Stored(d, u), NEW size, UpTo(size, d, u), NEW m, NEW w, Fills(size, m, w), NEW e, Cut(d, m, w, e)
  PROVE  Stored(e, w) /\ Written(e, w) = SubSeq(Written(d, u), 1, size)
<1> DEFINE n == Len(d) * ByteBits
           mb == m * ByteBits
<1>1. m \in Nat /\ size = m * ByteBits - w
  BY DEF Fills
<1>2. d \in Seq(Octet) /\ u \in 0..(ByteBits - 1) /\ ByteBits \in Nat \ {0} /\ Len(d) \in Nat /\ n \in Nat /\ n - u \in Nat
      /\ w \in 0..(ByteBits - 1) /\ mb \in Nat /\ size = mb - w /\ size <= n - u /\ m \in Nat /\ size \in Nat
  BY WrittenBits, BitsAssumption, Rows DEF Stored, Fills, UpTo
<1>3. m <= Len(d) /\ (w > 0 => m > 0)
  <2>1. Len(d) < m => n + ByteBits <= mb
    <3>1. PICK k \in Nat : k = Len(d)
      BY <1>2
    <3>2. k < m => k * ByteBits + ByteBits <= m * ByteBits
      BY <1>2, Rows
    <3>3. QED
      BY <3>1, <3>2
  <2>2. m = 0 => mb = 0
    BY <1>2
  <2> HIDE DEF n, mb
  <2>3. ~(Len(d) < m)
    BY <1>2, <2>1
  <2>4. w > 0 => m # 0
    BY <1>2, <2>2
  <2>5. QED
    BY <1>2, <2>3, <2>4
<1> DEFINE kept == SubSeq(d, 1, m)
<1>4. kept \in Seq(Octet) /\ Len(kept) = m /\ \A j \in 1..m : kept[j] = d[j]
  <2>1. d \in Seq(Octet) /\ m \in Nat /\ m <= Len(d) /\ Len(d) \in Nat
    BY <1>2, <1>3
  <2>2. kept \in Seq(Octet) /\ Len(kept) = m /\ \A j \in 1..m : kept[j] = d[j]
    BY <2>1
  <2>3. QED
    BY <2>2
<1>5. /\ e \in Seq(Octet) /\ Len(e) = m
      /\ \A j \in 1..m, z \in 0..(ByteBits - 1) : e[j][z] = IF j = m /\ z < w THEN 0 ELSE d[j][z]
  <2>1. CASE w = 0
    <3>1. e = kept
      BY <2>1 DEF Cut
    <3>2. QED
      BY <1>4, <2>1, <3>1
  <2>2. CASE w > 0
    <3> DEFINE last == kept[m]
               next == [z \in DOMAIN last |-> IF z < w THEN 0 ELSE last[z]]
    <3>1. m \in 1..m /\ e = [kept EXCEPT ![m] = next]
      <4>1. e = [kept EXCEPT ![Len(kept)] = [z \in DOMAIN @ |-> IF z < w THEN 0 ELSE @[z]]]
        BY <2>2 DEF Cut
      <4>2. m \in 1..m /\ Len(kept) = m
        BY <1>2, <1>3, <1>4, <2>2
      <4>3. QED
        BY <4>1, <4>2
    <3> HIDE DEF kept
    <3>2. last \in Octet /\ last = d[m]
      BY <1>4, <3>1
    <3>3. next \in Octet /\ \A z \in 0..(ByteBits - 1) : next[z] = IF z < w THEN 0 ELSE last[z]
      <4> HIDE DEF last
      <4>1. DOMAIN last = 0..(ByteBits - 1) /\ \A z \in 0..(ByteBits - 1) : last[z] \in 0..1
        BY <3>2 DEF Octet
      <4>2. \A z \in 0..(ByteBits - 1) : next[z] = IF z < w THEN 0 ELSE last[z]
        BY <4>1
      <4>3. next = [z \in 0..(ByteBits - 1) |-> next[z]]
        BY <4>1
      <4>4. \A z \in 0..(ByteBits - 1) : next[z] \in 0..1
        BY <4>1, <4>2
      <4> HIDE DEF next
      <4>5. next \in Octet
        BY <4>3, <4>4 DEF Octet
      <4>6. QED
        BY <4>2, <4>5
    <3> HIDE DEF next
    <3>4. e \in Seq(Octet) /\ Len(e) = m /\ e[m] = next /\ \A j \in 1..m : j # m => e[j] = kept[j]
      BY <1>4, <3>1, <3>3
    <3>5. \A j \in 1..m, z \in 0..(ByteBits - 1) : e[j][z] = IF j = m /\ z < w THEN 0 ELSE d[j][z]
      <4> SUFFICES ASSUME NEW j \in 1..m, NEW z \in 0..(ByteBits - 1) PROVE e[j][z] = IF j = m /\ z < w THEN 0 ELSE d[j][z]
        OBVIOUS
      <4>1. CASE j = m
        BY <3>2, <3>3, <3>4, <4>1
      <4>2. CASE j # m
        BY <1>4, <3>4, <4>2
      <4>3. QED
        BY <4>1, <4>2
    <3>6. QED
      BY <3>4, <3>5
  <2>3. QED
    BY <1>2, <2>1, <2>2
<1>6. Stored(e, w)
  <2>1. ASSUME w > 0, NEW z \in 0..(w - 1) PROVE e[Len(e)][z] = 0
    <3>1. z \in 0..(ByteBits - 1) /\ z < w /\ m \in 1..m
      <4> HIDE DEF n, mb, kept
      <4>1. QED
        BY <1>2, <1>3, <2>1
    <3>2. QED
      BY <1>5, <3>1
  <2>2. QED
    BY <1>2, <1>3, <1>5, <2>1 DEF Stored
<1>7. Written(e, w) = [i \in 1..size |-> e[Row(i)][Col(i)]]
  BY <1>1, <1>5 DEF Written
<1>8. \A i \in 1..size : e[Row(i)][Col(i)] = d[Row(i)][Col(i)]
  <2> SUFFICES ASSUME NEW i \in 1..size PROVE e[Row(i)][Col(i)] = d[Row(i)][Col(i)]
    OBVIOUS
  <2>1. i \in Nat \ {0} /\ i <= mb
    <3> HIDE DEF mb, n
    <3>1. i \in Nat \ {0} /\ i <= size /\ size <= mb
      BY <1>2
    <3>2. QED
      BY <1>2, <3>1
  <2>2. Row(i) \in 1..m /\ Col(i) \in 0..(ByteBits - 1) /\ i = Row(i) * ByteBits - Col(i)
    <3>1. Row(i) \in Nat \ {0} /\ Col(i) \in 0..(ByteBits - 1) /\ i = Row(i) * ByteBits - Col(i)
      BY <2>1, RowCol
    <3>2. Row(i) <= m
      BY <1>2, <2>1, Within
    <3>3. Row(i) \in 1..m
      BY <1>2, <3>1, <3>2
    <3>4. QED
      BY <3>1, <3>3
  <2>3. ~(Row(i) = m /\ Col(i) < w)
    <3>1. Row(i) = m => i = mb - Col(i)
      BY <2>2
    <3> HIDE DEF mb, n
    <3>2. i <= mb - w /\ i \in Nat /\ mb \in Nat /\ w \in Nat /\ Col(i) \in Nat
      BY <1>2, <2>1, <2>2
    <3>3. QED
      BY <3>1, <3>2
  <2>4. QED
    BY <1>5, <2>2, <2>3
<1>9. SubSeq(Written(d, u), 1, size) = [i \in 1..size |-> d[Row(i)][Col(i)]]
  <2> DEFINE s == Written(d, u)
  <2>1. s \in Seq(0..1) /\ Len(s) = n - u
    BY WrittenBits
  <2>2. \A i \in 1..(n - u) : s[i] = d[Row(i)][Col(i)]
    BY DEF Written
  <2> HIDE DEF s, n
  <2>3. SubSeq(s, 1, size) = [i \in 1..size |-> s[i]]
    BY <1>2, <2>1
  <2>4. \A i \in 1..size : s[i] = d[Row(i)][Col(i)]
    BY <1>2, <2>2
  <2>5. QED
    BY <2>3, <2>4 DEF s
<1>10. QED
  BY <1>6, <1>7, <1>8, <1>9

\* Behind the bits that are used there are zeroes to the end of the last byte.
LEMMA PaddedBits ==
  ASSUME NEW d, NEW u, Stored(d, u)
  PROVE  Written(d, u) \o [i \in 1..u |-> 0] = Bits!BitsOf(d) /\ Bits!BitsOf(d) \in Seq(0..1) /\ Len(Bits!BitsOf(d)) = Len(d) * ByteBits
<1> DEFINE n == Len(d) * ByteBits
           size == n - u
           s == Written(d, u)
           zeroes == [i \in 1..u |-> 0]
           t == Bits!BitsOf(d)
<1>1. d \in Seq(Octet) /\ u \in 0..(ByteBits - 1) /\ ByteBits \in Nat \ {0} /\ Len(d) \in Nat /\ n \in Nat /\ size \in Nat
      /\ s \in Seq(0..1) /\ Len(s) = size
  BY WrittenBits, BitsAssumption DEF Stored
<1>2. t = [i \in 1..n |-> d[Row(i)][Col(i)]] /\ \A i \in 1..n : d[Row(i)][Col(i)] \in 0..1
  BY <1>1, AllBits
<1>3. t \in Seq(0..1) /\ Len(t) = n
  <2> HIDE DEF n, t
  <2>1. QED
    BY <1>1, <1>2
<1>4. zeroes \in Seq(0..1) /\ Len(zeroes) = u /\ \A i \in 1..u : zeroes[i] = 0
  BY <1>1
<1>5. \A i \in 1..size : s[i] = d[Row(i)][Col(i)]
  BY DEF Written
<1>6. \A i \in 1..n : i > size => d[Row(i)][Col(i)] = 0
  <2> SUFFICES ASSUME NEW i \in 1..n, i > size PROVE d[Row(i)][Col(i)] = 0
    OBVIOUS
  <2>1. i \in Nat \ {0} /\ i <= n /\ u > 0
    <3> HIDE DEF n
    <3>1. QED
      BY <1>1
  <2>2. Row(i) \in Nat /\ Row(i) <= Len(d) /\ Col(i) \in 0..(ByteBits - 1) /\ i = Row(i) * ByteBits - Col(i)
    BY <1>1, <2>1, RowCol, Within
  <2>3. Row(i) < Len(d) => Row(i) * ByteBits + ByteBits <= n
    BY <1>1, <2>2, Rows
  <2>4. Row(i) = Len(d) => i = n - Col(i)
    BY <2>2
  <2> DEFINE row == Row(i) * ByteBits
  <2>5. row \in Nat
    BY <2>2, Rows
  <2> HIDE DEF n, row
  <2>6. ~(Row(i) < Len(d))
    BY <1>1, <2>1, <2>2, <2>3, <2>5 DEF row
  <2>7. Row(i) = Len(d) /\ Col(i) \in 0..(u - 1)
    BY <1>1, <2>1, <2>2, <2>4, <2>6
  <2>8. QED
    BY <2>1, <2>7 DEF Stored
<1> HIDE DEF n, s, t, zeroes
<1>7. s \o zeroes = [i \in 1..n |-> IF i <= size THEN s[i] ELSE 0]
  <2>1. size + u = n
    BY <1>1
  <2> HIDE DEF size
  <2>2. s \o zeroes = [i \in 1..(size + u) |-> IF i <= size THEN s[i] ELSE zeroes[i - size]]
    <3> DEFINE both == s \o zeroes
    <3>1. u \in Nat
      BY <1>1
    <3>2. both \in Seq(0..1) /\ Len(both) = size + u /\ \A i \in 1..(size + u) : both[i] = IF i <= size THEN s[i] ELSE zeroes[i - size]
      BY <1>1, <1>4, <3>1, ConcatProperties
    <3> HIDE DEF both
    <3>3. both = [i \in DOMAIN both |-> both[i]] /\ DOMAIN both = 1..(size + u)
      BY <3>2
    <3>4. both = [i \in 1..(size + u) |-> IF i <= size THEN s[i] ELSE zeroes[i - size]]
      BY <3>2, <3>3
    <3>5. QED
      BY <3>4 DEF both
  <2>3. \A i \in 1..n : ~(i <= size) => zeroes[i - size] = 0
    BY <1>1, <1>4, <2>1
  <2>4. QED
    BY <2>1, <2>2, <2>3
<1>8. \A i \in 1..n : (IF i <= size THEN s[i] ELSE 0) = d[Row(i)][Col(i)]
  BY <1>1, <1>5, <1>6
<1>9. s \o zeroes = t
  BY <1>2, <1>7, <1>8
<1>10. QED
  BY <1>3, <1>9 DEF s, zeroes, t, n

\* The number that a read of size bits ends with is the one that these bits spell.
LEMMA ReadsNumber ==
  ASSUME NEW p \in Nat, NEW size \in Nat, NEW t \in Seq(0..1), p + size <= Len(t),
         \A j \in 1..Len(t) : Bits!BitAt(j - 1) = {t[j]}
  PROVE  Bits!pread(p, size) = {Bits!Abstract!Number(SubSeq(t, p + 1, p + size))}
<1> DEFINE b == SubSeq(t, p + 1, p + size)
           Spell(k, n) == 2 * n + b[k]
           spell == [w \in (1..size) \X Nat |-> Spell(w[1], w[2])]
           number(f) == [k \in 0..size |-> IF k = 0 THEN 0 ELSE Spell(k, f[k - 1])]
           g == CHOOSE f : f = number(f)
           More(k, vs) == {2 * v + c : v \in vs, c \in Bits!BitAt(p + k - 1)}
           vals(f) == [k \in 0..size |-> IF k = 0 THEN {0} ELSE More(k, f[k - 1])]
           h == CHOOSE f : f = vals(f)
<1>1. b \in Seq(0..1) /\ Len(b) = size /\ \A k \in 1..size : b[k] = t[p + k] /\ b[k] \in 0..1
  <2>1. p + 1 \in Nat /\ p + size \in Nat /\ p + 1 \in 1..(Len(t) + 1) /\ p + size \in 0..Len(t) /\ Len(t) \in Nat
    OBVIOUS
  <2>2. b \in Seq(0..1) /\ Len(b) = (p + size) - (p + 1) + 1 /\ \A k \in 1..((p + size) - (p + 1) + 1) : b[k] = t[(p + 1) + k - 1]
    BY <2>1
  <2> HIDE DEF b
  <2>3. \A k \in 1..size : (p + 1) + k - 1 = p + k
    OBVIOUS
  <2>4. Len(b) = size
    BY <2>1, <2>2
  <2>5. \A k \in 1..size : b[k] = t[p + k]
    BY <2>1, <2>2, <2>3
  <2>6. QED
    BY <2>2, <2>4, <2>5
<1>2. Bits!Abstract!Number(b) = g[size]
  <2>1. Len(b) = size
    BY <1>1
  <2>2. Bits!Abstract!Number(b) = LET n[k \in 0..Len(b)] == IF k = 0 THEN 0 ELSE 2 * n[k - 1] + b[k] IN n[Len(b)]
    BY DEF Bits!Abstract!Number
  <2> HIDE DEF b
  <2>3. QED
    BY <2>1, <2>2
<1>3. Bits!pread(p, size) = h[size]
  BY DEF Bits!pread
<1>4. ASSUME NEW k \in 1..size, NEW n \in Nat PROVE Spell(k, n) \in Nat /\ More(k, {n}) = {Spell(k, n)}
  <2>1. Bits!BitAt(p + k - 1) = {b[k]} /\ b[k] \in 0..1
    <3>1. p + k \in 1..Len(t) /\ (p + k) - 1 = p + k - 1
      OBVIOUS
    <3>2. QED
      BY <1>1, <3>1
  <2> HIDE DEF b
  <2>2. QED
    BY <2>1
<1>5. spell \in [(1..size) \X Nat -> Nat] /\ \A k \in 1..size, n \in Nat : spell[<<k, n>>] = Spell(k, n)
  <2>1. \A k \in 1..size, n \in Nat : Spell(k, n) \in Nat
    BY <1>4
  <2> HIDE DEF Spell
  <2>2. QED
    BY <2>1
<1>6. /\ \A f : number(f) = [k \in 0..size |-> IF k = 0 THEN 0 ELSE Spell(k, f[k - 1])]
      /\ \A f : vals(f) = [k \in 0..size |-> IF k = 0 THEN {0} ELSE More(k, f[k - 1])]
  OBVIOUS
<1> HIDE DEF b, Spell, spell, number, More, vals
<1>7. PICK f : Solves(f, Nat, 0, spell, size)
  BY <1>5, Recursion
<1>8. f \in [0..size -> Nat] /\ f[0] = 0 /\ \A k \in 1..size : f[k] = spell[<<k, f[k - 1]>>]
  BY <1>7 DEF Solves
<1>9. \A k \in 1..size : k \in 0..size /\ k - 1 \in 0..size /\ k # 0 /\ f[k - 1] \in Nat /\ f[k] = Spell(k, f[k - 1])
  <2> SUFFICES ASSUME NEW k \in 1..size
               PROVE  k \in 0..size /\ k - 1 \in 0..size /\ k # 0 /\ f[k - 1] \in Nat /\ f[k] = Spell(k, f[k - 1])
    OBVIOUS
  <2>1. k \in 0..size /\ k - 1 \in 0..size /\ k # 0
    OBVIOUS
  <2>2. f[k - 1] \in Nat
    BY <1>8, <2>1
  <2>3. QED
    BY <1>5, <1>8, <2>1, <2>2
<1>10. f = number(f)
  <2>1. \A k \in 0..size : f[k] = IF k = 0 THEN 0 ELSE Spell(k, f[k - 1])
    <3> SUFFICES ASSUME NEW k \in 0..size, k # 0 PROVE f[k] = Spell(k, f[k - 1])
      BY <1>8
    <3>1. k \in 1..size
      OBVIOUS
    <3>2. QED
      BY <1>9, <3>1
  <2>2. QED
    BY <1>6, <1>8, <2>1
<1> DEFINE sets == [k \in 0..size |-> {f[k]}]
<1>11. sets = vals(sets)
  <2>1. \A k \in 0..size : sets[k] = IF k = 0 THEN {0} ELSE More(k, sets[k - 1])
    <3> SUFFICES ASSUME NEW k \in 0..size, k # 0 PROVE sets[k] = More(k, sets[k - 1])
      BY <1>8
    <3>1. k \in 1..size
      OBVIOUS
    <3>2. f[k - 1] \in Nat /\ f[k] = Spell(k, f[k - 1]) /\ k - 1 \in 0..size
      BY <1>9, <3>1
    <3>3. More(k, {f[k - 1]}) = {f[k]}
      BY <1>4, <3>1, <3>2
    <3>4. QED
      BY <3>2, <3>3
  <2>2. sets = [k \in 0..size |-> sets[k]]
    OBVIOUS
  <2> HIDE DEF sets
  <2>3. QED
    BY <1>6, <2>1, <2>2
<1> HIDE DEF sets
<1>12. g = number(g) /\ h = vals(h)
  BY <1>10, <1>11
<1> HIDE DEF g, h
<1>13. /\ g = [k \in 0..size |-> IF k = 0 THEN 0 ELSE Spell(k, g[k - 1])]
       /\ h = [k \in 0..size |-> IF k = 0 THEN {0} ELSE More(k, h[k - 1])]
  BY <1>6, <1>12
<1>14. g[0] = 0 /\ h[0] = {0} /\ \A k \in 1..size : g[k] = Spell(k, g[k - 1]) /\ h[k] = More(k, h[k - 1])
  <2>1. \A k \in 0..size : g[k] = (IF k = 0 THEN 0 ELSE Spell(k, g[k - 1])) /\ h[k] = (IF k = 0 THEN {0} ELSE More(k, h[k - 1]))
    BY <1>13
  <2>2. 0 \in 0..size
    OBVIOUS
  <2>3. QED
    BY <1>9, <2>1, <2>2
<1> DEFINE Same == {k \in 0..size : g[k] = f[k] /\ h[k] = {f[k]}}
<1>15. 0 \in Same
  BY <1>8, <1>14
<1>16. \A k \in 0..size : k \in Same /\ k < size => k + 1 \in Same
  <2> SUFFICES ASSUME NEW k \in 0..size, k \in Same, k < size PROVE k + 1 \in Same
    OBVIOUS
  <2>1. k + 1 \in 1..size /\ k + 1 \in 0..size /\ (k + 1) - 1 = k
    OBVIOUS
  <2>2. g[k] = f[k] /\ h[k] = {f[k]} /\ f[k] \in Nat
    BY <1>8
  <2>3. g[k + 1] = Spell(k + 1, f[k]) /\ h[k + 1] = More(k + 1, {f[k]})
    BY <1>14, <2>1, <2>2
  <2>4. f[k + 1] = Spell(k + 1, f[k]) /\ More(k + 1, {f[k]}) = {Spell(k + 1, f[k])}
    BY <1>4, <1>9, <2>1, <2>2
  <2>5. QED
    BY <2>1, <2>3, <2>4
<1> HIDE DEF Same
<1>17. size \in Same
  <2>1. \A k \in 0..size : k \in Same
    BY <1>15, <1>16, Upward
  <2>2. QED
    BY <2>1
<1>18. QED
  BY <1>2, <1>3, <1>17 DEF Same, b

\* The unused bits of the last byte are zero, and the reader does not go far.
BitInv ==
  /\ Stored(data, last_byte_unset_bits)
  /\ bit_reader \in [open : BOOLEAN, length : Nat, offset : 0..(MaxBits + 1)]

\* The bits of the writer, as the abstraction sees them.
LEMMA AbstractBits ==
  ASSUME BitInv
  PROVE  SubSeq(Bits!BitsOf(data), 1, Bits!bit_size) = Written(data, last_byte_unset_bits)
BY WrittenBits DEF BitInv, Bits!bit_size

\* The bytes hold the bits and as many zeroes as fill the last one.
LEMMA FilledBytes ==
  ASSUME BitInv
  PROVE  /\ last_byte_unset_bits \in 0..(ByteBits - 1)
         /\ Len(Written(data, last_byte_unset_bits)) + last_byte_unset_bits = Len(data) * ByteBits
         /\ Bits!Abstract!Fills(last_byte_unset_bits)
<1> DEFINE u == last_byte_unset_bits
           w == Len(Written(data, u))
<1>1. Len(data) \in Nat /\ ByteBits \in Nat \ {0} /\ u \in 0..(ByteBits - 1)
  BY WrittenBits, BitsAssumption DEF BitInv, Stored
<1>2. w = Len(data) * ByteBits - u
  BY WrittenBits DEF BitInv
<1> DEFINE n == Len(data) * ByteBits
<1>3. n \in Nat /\ n % ByteBits = 0
  <2>1. \A b \in Nat \ {0}, m \in Nat : b * m = m * b /\ (b * m) % b = 0
    OBVIOUS
  <2>2. n \in Nat
    BY WrittenBits DEF BitInv
  <2>3. QED
    BY <1>1, <2>1, <2>2
<1>4. w + u = n
  <2> HIDE DEF n, w
  <2>1. w = n - u
    BY <1>2 DEF n
  <2>2. QED
    BY <1>1, <1>3, <2>1
<1>5. (w + u) % ByteBits = 0
  BY <1>3, <1>4
<1>6. QED
  BY <1>1, <1>4, <1>5, AbstractBits DEF Bits!Abstract!Fills

\* A step of the writer, on its bytes and on its bits.
LEMMA WriterStep ==
  ASSUME BitInv, Bits!Writing, Stored(data', last_byte_unset_bits')
  PROVE  BitInv' /\ Bits!Abstract!Writing
         /\ SubSeq(Bits!BitsOf(data), 1, Bits!bit_size)' = Written(data', last_byte_unset_bits')
<1>1. bit_reader' = bit_reader /\ Bits!Abstract!Writing
  BY DEF Bits!Writing, Bits!Abstract!Writing
<1>2. BitInv'
  BY <1>1 DEF BitInv, Stored, Octet
<1>3. QED
  BY <1>1, <1>2, WrittenBits DEF Bits!bit_size, Bits!BitsOf, Bits!BitOf

LEMMA WriteStep ==
  ASSUME BitInv, NEW v \in 0..1, Bits!write(v)
  PROVE  BitInv' /\ Bits!Abstract!Write(v)
<1> DEFINE u == last_byte_unset_bits
<1>1. /\ Bits!Writing
      /\ IF u > 0
         THEN data' = [data EXCEPT ![Len(data)] = IF v = 1 THEN [@ EXCEPT ![u - 1] = 1] ELSE @] /\ last_byte_unset_bits' = u - 1
         ELSE /\ data' = Append(data, [z \in 0..(ByteBits - 1) |-> IF z = ByteBits - 1 THEN v ELSE 0])
              /\ last_byte_unset_bits' = ByteBits - 1
  BY DEF Bits!write
<1>2. Stored(data, u)
  BY DEF BitInv
<1> DEFINE Stores(e, w) ==
       IF u > 0 THEN e = [data EXCEPT ![Len(data)] = IF v = 1 THEN [@ EXCEPT ![u - 1] = 1] ELSE @] /\ w = u - 1
       ELSE e = Append(data, [z \in 0..(ByteBits - 1) |-> IF z = ByteBits - 1 THEN v ELSE 0]) /\ w = ByteBits - 1
<1>3. \A e, w : Stores(e, w) => Stored(e, w) /\ Written(e, w) = Append(Written(data, u), v)
  BY <1>2, WriteBit
<1>4. Stores(data', last_byte_unset_bits')
  BY <1>1
<1> HIDE DEF Stores
<1>5. Stored(data', last_byte_unset_bits') /\ Written(data', last_byte_unset_bits') = Append(Written(data, u), v)
  BY <1>3, <1>4
<1>6. QED
  BY <1>1, <1>5, AbstractBits, WriterStep DEF Bits!Abstract!Write

\* Cutting off bits.
LEMMA TruncateStep ==
  ASSUME BitInv, NEW size \in Nat, Bits!truncate(size)
  PROVE  BitInv' /\ Bits!Abstract!Truncate(size)
<1> DEFINE u == last_byte_unset_bits
           w == (ByteBits - (size % ByteBits)) % ByteBits
           m == (size + ByteBits - 1) \div ByteBits
<1>1. /\ Bits!Writing /\ last_byte_unset_bits' = w
      /\ UpTo(size, data, u) /\ Cut(data, m, w, data')
  BY DEF Bits!truncate, Bits!bit_size, UpTo, Cut
<1>2. Fills(size, m, w)
  BY Rounded DEF Fills
<1>3. Stored(data, u)
  BY DEF BitInv
<1> HIDE DEF w, m
<1>4. Stored(data', w) /\ Written(data', w) = SubSeq(Written(data, u), 1, size)
  BY <1>1, <1>2, <1>3, TruncateBits
<1>5. size <= Len(Written(data, u))
  <2>1. PICK n \in Nat : n = Len(data) * ByteBits - u /\ Len(Written(data, u)) = n
    BY <1>3, WrittenBits
  <2>2. size <= n
    BY <1>1, <2>1 DEF UpTo
  <2>3. QED
    BY <2>1, <2>2
<1>6. BitInv' /\ Bits!Abstract!Writing /\ SubSeq(Bits!BitsOf(data), 1, Bits!bit_size)' = SubSeq(Written(data, u), 1, size)
  BY <1>1, <1>4, WriterStep
<1>7. QED
  BY <1>5, <1>6, AbstractBits DEF Bits!Abstract!Truncate

LEMMA ResetStep ==
  ASSUME BitInv, Bits!reset
  PROVE  BitInv' /\ Bits!Abstract!Truncate(0)
<1>1. Bits!Writing /\ data' = <<>> /\ last_byte_unset_bits' = 0
  BY DEF Bits!reset
<1>2. ByteBits \in Nat /\ ByteBits > 0
  BY BitsAssumption
<1>3. Stored(<<>>, 0)
  BY <1>2 DEF Stored
<1>4. Written(<<>>, 0) = <<>>
  <2>1. Len(<<>>) * ByteBits - 0 = 0
    BY <1>2
  <2>2. QED
    BY <2>1 DEF Written
<1>5. BitInv' /\ Bits!Abstract!Writing /\ SubSeq(Bits!BitsOf(data), 1, Bits!bit_size)' = <<>>
  BY <1>1, <1>3, <1>4, WriterStep
<1>6. PICK s \in Seq(0..1) : s = Written(data, last_byte_unset_bits)
  BY WrittenBits DEF BitInv
<1>7. SubSeq(s, 1, 0) = <<>> /\ 0 <= Len(s)
  OBVIOUS
<1>8. QED
  BY <1>5, <1>6, <1>7, AbstractBits DEF Bits!Abstract!Truncate

\* A step that leaves the bits alone.
LEMMA SameBits ==
  ASSUME data' = data, last_byte_unset_bits' = last_byte_unset_bits
  PROVE  SubSeq(Bits!BitsOf(data), 1, Bits!bit_size)' = SubSeq(Bits!BitsOf(data), 1, Bits!bit_size)
BY DEF Bits!BitsOf, Bits!BitOf, Bits!bit_size

LEMMA ReaderStep ==
  ASSUME BitInv, data' = data, last_byte_unset_bits' = last_byte_unset_bits,
         bit_reader' \in [open : BOOLEAN, length : Nat, offset : 0..(MaxBits + 1)]
  PROVE  BitInv'
BY DEF BitInv, Stored, Octet

\* The bits that a read meets are those that were written, and zeroes behind them.
LEMMA ReadStep ==
  ASSUME BitInv, NEW size \in Widths, NEW advance \in BOOLEAN, Bits!read(size, advance)
  PROVE  BitInv' /\ Bits!Abstract!Read(size, advance)
<1> DEFINE u == last_byte_unset_bits
           t == Bits!BitsOf(data)
           p == bit_reader.offset
           read == SubSeq(Bits!BitsOf(data), 1, Bits!bit_size) \o [i \in 1..u |-> 0]
<1>1. size \in Nat /\ MaxBits \in Nat /\ ByteBits \in Nat \ {0} /\ Stored(data, u) /\ u \in 0..(ByteBits - 1)
      /\ data \in Seq(Octet) /\ bit_reader \in [open : BOOLEAN, length : Nat, offset : 0..(MaxBits + 1)]
  BY BitsAssumption DEF BitInv, Stored
<1>2. p \in 0..(MaxBits + 1)
  BY <1>1
<1>3. /\ bit_reader.open /\ data' = data /\ last_byte_unset_bits' = u /\ p + size <= MaxBits + 1
      /\ bit_reader' = IF advance THEN [bit_reader EXCEPT !.offset = @ + size] ELSE bit_reader
  BY DEF Bits!read, Bits!Reading
<1>4. PICK val \in Bits!pread(p, size) : answer' = [val |-> val, inside |-> p + size <= Len(data) * ByteBits]
  BY DEF Bits!read
<1>5. read = t /\ t \in Seq(0..1) /\ Len(t) = Len(data) * ByteBits
  BY <1>1, AbstractBits, PaddedBits
<1>6. \A j \in 1..Len(t) : Bits!BitAt(j - 1) = {t[j]}
  <2>1. Len(t) = Len(data) * ByteBits /\ t = [i \in 1..(Len(data) * ByteBits) |-> data[Row(i)][Col(i)]]
    BY <1>1, <1>5, AllBits
  <2>2. ASSUME NEW j \in 1..(Len(data) * ByteBits) PROVE Bits!BitAt(j - 1) = {data[Row(j)][Col(j)]}
    <3>1. Row(j) \in 1..Len(data) /\ Len(data) \in Nat
      BY <1>1, AllBits
    <3>2. (j - 1) \div ByteBits \in Int
      <4>1. j \in Int /\ j - 1 \in Int
        <5>1. Len(data) * ByteBits \in Nat
          BY <1>1, AllBits
        <5>2. QED
          BY <5>1
      <4>2. QED
        BY <1>1, <4>1
    <3>3. (j - 1) \div ByteBits < Len(data)
      <4> DEFINE k == (j - 1) \div ByteBits
      <4>1. k + 1 \in 1..Len(data) /\ k \in Int
        BY <3>1, <3>2 DEF Row
      <4> HIDE DEF k
      <4>2. k < Len(data)
        BY <3>1, <4>1
      <4>3. QED
        BY <4>2 DEF k
    <3>4. QED
      BY <3>3 DEF Bits!BitAt, Bits!BitOf, Row, Col
  <2> HIDE DEF t
  <2>3. QED
    BY <2>1, <2>2
<1>7. p + size <= Len(t) => val = Bits!Abstract!Number(SubSeq(t, p + 1, p + size))
  <2> HIDE DEF t
  <2>1. ASSUME p + size <= Len(t) PROVE Bits!pread(p, size) = {Bits!Abstract!Number(SubSeq(t, p + 1, p + size))}
    <3>1. p \in Nat
      BY <1>1, <1>2
    <3> HIDE DEF p
    <3>2. QED
      BY <1>1, <1>5, <1>6, <2>1, <3>1, ReadsNumber
  <2>2. QED
    BY <1>4, <2>1
<1>8. Bits!Abstract!Read(size, advance)
  <2>1. u \in 0..(ByteBits - 1) /\ Bits!Abstract!Fills(u)
    BY FilledBytes
  <2>2. UNCHANGED SubSeq(Bits!BitsOf(data), 1, Bits!bit_size)
    BY <1>3, SameBits
  <2>3. answer'.inside = (p + size <= Len(read)) /\ (answer'.inside => answer'.val = Bits!Abstract!Number(SubSeq(read, p + 1, p + size)))
    <3> HIDE DEF read, t, p
    <3>1. answer'.val = val /\ answer'.inside = (p + size <= Len(t))
      BY <1>4, <1>5
    <3>2. QED
      BY <1>5, <1>7, <3>1
  <2>4. QED
    BY <1>3, <2>1, <2>2, <2>3 DEF Bits!Abstract!Read
<1>9. BitInv'
  <2>1. bit_reader' \in [open : BOOLEAN, length : Nat, offset : 0..(MaxBits + 1)]
    <3>1. p + size \in 0..(MaxBits + 1)
      BY <1>1, <1>2, <1>3
    <3>2. QED
      BY <1>1, <1>3, <3>1
  <2>2. QED
    BY <1>3, <2>1, ReaderStep
<1>10. QED
  BY <1>8, <1>9

\* One step of the program: the bytes stay as the reads expect them.
LEMMA BitNextInv ==
  ASSUME BitInv, [Bits!BitNext]_(Bits!bitVars)
  PROVE  BitInv'
<1> DEFINE Still == data' = data /\ last_byte_unset_bits' = last_byte_unset_bits
                    /\ bit_reader' \in [open : BOOLEAN, length : Nat, offset : 0..(MaxBits + 1)]
<1>1. bit_reader \in [open : BOOLEAN, length : Nat, offset : 0..(MaxBits + 1)] /\ MaxBits \in Nat
  BY BitsAssumption DEF BitInv
<1>2. ASSUME Still PROVE BitInv'
  BY <1>2, ReaderStep
<1>3. ASSUME NEW v \in 0..1, Bits!write(v) PROVE BitInv'
  BY <1>3, WriteStep
<1>4. ASSUME NEW n \in 0..MaxBits, Bits!truncate(n) PROVE BitInv'
  BY <1>1, <1>4, TruncateStep
<1>5. ASSUME Bits!reset PROVE BitInv'
  BY <1>5, ResetStep
<1>6. ASSUME NEW n \in Widths, NEW advance \in BOOLEAN, Bits!read(n, advance) PROVE BitInv'
  BY <1>6, ReadStep
<1>7. ASSUME NEW n \in 0..MaxBits, Bits!reader_truncate(n) \/ Bits!go(n) PROVE Still
  BY <1>1, <1>7 DEF Bits!reader_truncate, Bits!go, Bits!Reading
<1>8. ASSUME Bits!close PROVE Still
  BY <1>1, <1>8 DEF Bits!close, Bits!Reading
<1>9. ASSUME Bits!open PROVE Still
  <2>1. Len(data) * ByteBits \in Nat
    BY WrittenBits DEF BitInv
  <2>2. bit_reader' = [open |-> TRUE, length |-> Len(data) * ByteBits, offset |-> 0] /\ UNCHANGED <<data, last_byte_unset_bits, answer>>
    BY <1>9 DEF Bits!open
  <2>3. QED
    BY <1>1, <2>1, <2>2
<1>10. ASSUME NEW n \in Widths, Bits!skip(n) PROVE Still
  <2>1. n \in Nat
    BY BitsAssumption
  <2>2. QED
    BY <1>1, <1>10, <2>1 DEF Bits!skip, Bits!Reading
<1>11. CASE UNCHANGED Bits!bitVars
  <2>1. Still
    BY <1>1, <1>11 DEF Bits!bitVars
  <2>2. QED
    BY <1>2, <2>1
<1> HIDE DEF Still
<1>12. CASE Bits!BitNext
  BY <1>2, <1>3, <1>4, <1>5, <1>6, <1>7, <1>8, <1>9, <1>10, <1>12 DEF Bits!BitNext
<1>13. QED
  BY <1>11, <1>12

\* Opening a reader, and what else it does without reading, as the abstraction sees it.
LEMMA ReaderCalls ==
  ASSUME BitInv
  PROVE  /\ Bits!open => Bits!Abstract!Open
         /\ Bits!close => Bits!Abstract!Close
         /\ \A n \in 0..MaxBits :
              (Bits!reader_truncate(n) => Bits!Abstract!Limit(n)) /\ (Bits!go(n) => Bits!Abstract!Go(n))
         /\ \A n \in Widths : Bits!skip(n) => Bits!Abstract!Skip(n)
<1>1. ASSUME Bits!open PROVE Bits!Abstract!Open
  <2>1. /\ ~bit_reader.open /\ data' = data /\ last_byte_unset_bits' = last_byte_unset_bits /\ answer' = answer
        /\ bit_reader' = [open |-> TRUE, length |-> Len(data) * ByteBits, offset |-> 0]
    BY <1>1 DEF Bits!open
  <2>2. UNCHANGED SubSeq(Bits!BitsOf(data), 1, Bits!bit_size)
    BY <2>1, SameBits
  <2>3. /\ last_byte_unset_bits \in 0..(ByteBits - 1) /\ Bits!Abstract!Fills(last_byte_unset_bits)
        /\ Len(SubSeq(Bits!BitsOf(data), 1, Bits!bit_size)) + last_byte_unset_bits = Len(data) * ByteBits
    BY AbstractBits, FilledBytes
  <2>4. QED
    BY <2>1, <2>2, <2>3 DEF Bits!Abstract!Open
<1>2. ASSUME Bits!Reading /\ UNCHANGED answer PROVE Bits!Abstract!Reading
  BY <1>2, SameBits DEF Bits!Reading, Bits!Abstract!Reading
<1>3. Bits!close => Bits!Abstract!Close
  BY <1>2 DEF Bits!close, Bits!Abstract!Close, Bits!Abstract!Shut
<1>4. ASSUME NEW n \in 0..MaxBits
      PROVE  (Bits!reader_truncate(n) => Bits!Abstract!Limit(n)) /\ (Bits!go(n) => Bits!Abstract!Go(n))
  BY <1>2 DEF Bits!reader_truncate, Bits!go, Bits!Abstract!Limit, Bits!Abstract!Go
<1>5. ASSUME NEW n \in Widths, Bits!skip(n) PROVE Bits!Abstract!Skip(n)
  BY <1>2, <1>5 DEF Bits!skip, Bits!Abstract!Skip
<1>6. QED
  BY <1>1, <1>3, <1>4, <1>5

\* Every call of the writer and of the reader is the one of the abstraction.
LEMMA BitCalls == BitInv => Bits!CallsMatch
<1> SUFFICES ASSUME BitInv PROVE Bits!CallsMatch
  OBVIOUS
<1>1. \A v \in 0..1 : Bits!write(v) => Bits!Abstract!Write(v)
  BY WriteStep
<1>2. \A n \in 0..MaxBits : Bits!truncate(n) => Bits!Abstract!Truncate(n)
  BY TruncateStep, BitsAssumption
<1>3. Bits!reset => Bits!Abstract!Truncate(0)
  BY ResetStep
<1>4. \A n \in Widths, advance \in BOOLEAN : Bits!read(n, advance) => Bits!Abstract!Read(n, advance)
  BY ReadStep
<1>5. QED
  BY <1>1, <1>2, <1>3, <1>4, ReaderCalls DEF Bits!CallsMatch

LEMMA BitInitInv ==
  ASSUME Bits!BitInit
  PROVE  BitInv /\ Bits!Abstract!Init
<1>1. data = <<>> /\ last_byte_unset_bits = 0 /\ bit_reader = [open |-> FALSE, length |-> 0, offset |-> 0] /\ answer = [val |-> 0, inside |-> TRUE]
  BY DEF Bits!BitInit
<1>2. ByteBits \in Nat \ {0} /\ MaxBits \in Nat
  BY BitsAssumption
<1>3. BitInv
  BY <1>1, <1>2 DEF BitInv, Stored
<1>4. Written(<<>>, 0) = <<>>
  <2>1. Len(<<>>) * ByteBits - 0 = 0
    BY <1>2
  <2>2. QED
    BY <2>1 DEF Written
<1>5. QED
  BY <1>1, <1>3, <1>4, AbstractBits DEF Bits!Abstract!Init, Bits!Abstract!Shut

(* BitWriter and BitReader implement a sequence of bits for bytes of any size, call by call: what is *)
(* written is appended or cut off; a read answers with the number that the next bits spell, as many   *)
(* as it asks for from the reader's place, zeroes being behind the last one to the end of its byte,   *)
(* and moves the reader past them when it should (Strings.cc, Strings.hh).                            *)
THEOREM BitsRefinement == Bits!BitSpec => BitsAreASequence
<1>1. Bits!BitInit => BitInv /\ Bits!Abstract!Init
  BY BitInitInv
<1>2. BitInv /\ [Bits!BitNext]_(Bits!bitVars) => BitInv'
  BY BitNextInv
<1>3. QED
  BY <1>1, <1>2, BitCalls, PTL DEF Bits!BitSpec, BitsAreASequence, Bits!ImplementsBits
==============================================================================
