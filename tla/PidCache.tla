------------------------------ MODULE PidCache ------------------------------
(***************************************************************************)
(* getpid_cached and this_process_start_time (Process.cc): two plain       *)
(* globals, shared by a process's threads and copied by fork, and the      *)
(* atfork handler that clears them in the child.  A pid is used again when *)
(* its process has been reaped.                                            *)
(***************************************************************************)
EXTENDS Integers

CONSTANTS
  Pids,                   \* process identifiers, numbers above zero
  Callers,
  MaxBirths               \* bound: how many processes are started

ASSUME PidAssumption == Pids \subseteq Nat \ {0} /\ Pids # {} /\ MaxBirths \in Nat

VARIABLES
  procs,                  \* [Pids -> [state, born]]: what the kernel knows of each pid
  memory,                 \* [Pids -> [pid, start, added]]: each process's globals
  at,                     \* [Pids -> [Callers -> [pc, want]]]
  births,
  told                    \* the last answer: [pid, born] of the process that asked, what it wanted, and val

pidVars == <<procs, memory, at, births, told>>

Idle == [pc |-> "idle", want |-> "none"]
Absent == [pc |-> "absent", want |-> "none"]

NoMemory == [pid |-> 0, start |-> 0, added |-> FALSE]

PidInit ==
  LET first == CHOOSE p \in Pids : TRUE
  IN  /\ procs = [p \in Pids |-> IF p = first THEN [state |-> "running", born |-> 1] ELSE [state |-> "gone", born |-> 0]]
      /\ memory = [p \in Pids |-> NoMemory]
      /\ at = [p \in Pids |-> [t \in Callers |-> IF p = first THEN Idle ELSE Absent]]
      /\ births = 1
      /\ told = [pid |-> first, born |-> 1, want |-> "none", val |-> 0]

\* Mutant: the pid is not cleared in the child.
ClearedStart(m) == [m EXCEPT !.start = 0]

\* clear_cached_pid_vars
Cleared(m) == [m EXCEPT !.pid = 0, !.start = 0]

\* /proc may not be there, and then every time is 0.
start_time_for_pid(p, allow_zombie) ==
  IF procs[p].state = "running" \/ (allow_zombie /\ procs[p].state = "zombie") THEN {0, procs[p].born} ELSE {0}

Steps(p, t, pc) == at' = [at EXCEPT ![p][t].pc = pc]
Answers(p, t, val) ==
  /\ told' = [pid |-> p, born |-> procs[p].born, want |-> at[p][t].want, val |-> val]
  /\ at' = [at EXCEPT ![p][t] = Idle]
-----------------------------------------------------------------------------
ask(p, t, want) ==
  /\ at[p][t] = Idle
  /\ at' = [at EXCEPT ![p][t] = [pc |-> IF want = "pid" THEN "getpid" ELSE "start", want |-> want]]
  /\ UNCHANGED <<procs, memory, births, told>>

\* this_process_start_time looks for a cached time before it asks for the pid.
look_for_start(p, t) ==
  /\ at[p][t].pc = "start"
  /\ IF memory[p].start = 0 THEN Steps(p, t, "getpid") /\ UNCHANGED told ELSE Answers(p, t, memory[p].start)
  /\ UNCHANGED <<procs, memory, births>>

\* getpid_cached: the test, the handler, the assignment.
look_for_pid(p, t) ==
  /\ at[p][t].pc = "getpid"
  /\ Steps(p, t, IF memory[p].pid = 0 THEN "handler" ELSE "return")
  /\ UNCHANGED <<procs, memory, births, told>>

maybe_add_atfork_handler(p, t) ==
  /\ at[p][t].pc = "handler"
  /\ memory' = [memory EXCEPT ![p].added = TRUE]
  /\ Steps(p, t, "assign")
  /\ UNCHANGED <<procs, births, told>>

cache_pid(p, t) ==
  /\ at[p][t].pc = "assign"
  /\ memory' = [memory EXCEPT ![p].pid = p]
  /\ Steps(p, t, "return")
  /\ UNCHANGED <<procs, births, told>>

\* getpid_cached returns; this_process_start_time goes on with the pid it got.
return_pid(p, t) ==
  /\ at[p][t].pc = "return"
  /\ IF at[p][t].want = "pid"
     THEN Answers(p, t, memory[p].pid) /\ UNCHANGED memory
     ELSE \E time \in start_time_for_pid(memory[p].pid, FALSE) :
            memory' = [memory EXCEPT ![p].start = time] /\ Answers(p, t, time)
  /\ UNCHANGED <<procs, births>>

\* The child has the forking thread only; its globals are the parent's, cleared when the handler is there.
fork(p, t, child) ==
  /\ at[p][t] = Idle
  /\ procs[child].state = "gone"
  /\ births < MaxBirths
  /\ births' = births + 1
  /\ procs' = [procs EXCEPT ![child] = [state |-> "running", born |-> births + 1]]
  /\ memory' = [memory EXCEPT ![child] = IF memory[p].added THEN Cleared(memory[p]) ELSE memory[p]]
  /\ at' = [at EXCEPT ![child] = [u \in Callers |-> IF u = t THEN Idle ELSE Absent]]
  /\ UNCHANGED told

exit(p) ==
  /\ procs[p].state = "running"
  /\ procs' = [procs EXCEPT ![p].state = "zombie"]
  /\ at' = [at EXCEPT ![p] = [t \in Callers |-> Absent]]
  /\ memory' = [memory EXCEPT ![p] = NoMemory]
  /\ UNCHANGED <<births, told>>

reap(p) ==
  /\ procs[p].state = "zombie"
  /\ procs' = [procs EXCEPT ![p] = [state |-> "gone", born |-> 0]]
  /\ UNCHANGED <<memory, at, births, told>>
-----------------------------------------------------------------------------
PidNext ==
  \/ \E p \in Pids, t \in Callers :
       \/ \E want \in {"pid", "start"} : ask(p, t, want)
       \/ look_for_start(p, t) \/ look_for_pid(p, t) \/ maybe_add_atfork_handler(p, t)
       \/ cache_pid(p, t) \/ return_pid(p, t)
       \/ \E child \in Pids : fork(p, t, child)
  \/ \E p \in Pids : exit(p) \/ reap(p)

PidSpec == PidInit /\ [][PidNext]_pidVars
-----------------------------------------------------------------------------
(* However threads and forks interleave, and whichever pids are used again, a process is told its   *)
(* own pid, and as its start time its own or zero: never its parent's out of the copied globals.    *)
OwnIdentity ==
  /\ told.want = "pid" => told.val = told.pid
  /\ told.want = "start" => told.val \in {0, told.born}
-----------------------------------------------------------------------------
(* The inductive invariant. *)

Wants == {"none", "pid", "start"}
Pcs == {"absent", "idle", "start", "getpid", "handler", "assign", "return"}
Proc == [state : {"running", "zombie", "gone"}, born : Nat]
Globals == [pid : Nat, start : Nat, added : BOOLEAN]
Point == [pc : Pcs, want : Wants]
Answer == [pid : Pids, born : Nat, want : Wants, val : Nat]

PidTypeOK ==
  /\ procs \in [Pids -> Proc]
  /\ memory \in [Pids -> Globals]
  /\ at \in [Pids -> [Callers -> Point]]
  /\ births \in Nat
  /\ told \in Answer

\* A process that has ended has no threads and no globals.
Ended == \A p \in Pids : procs[p].state # "running" => memory[p] = NoMemory /\ \A t \in Callers : at[p][t] = Absent

\* What is cached is the process's own, and nothing is before the handler is there.
OwnCache(p) ==
  /\ memory[p].pid \in {0, p}
  /\ memory[p].start \in {0, procs[p].born}
  /\ ~memory[p].added => memory[p].pid = 0 /\ memory[p].start = 0

\* A thread past the handler relies on it, and one that returns on the pid, which no thread clears.
Midway(p, t) ==
  /\ at[p][t].pc \in {"assign", "return"} => memory[p].added
  /\ at[p][t].pc = "return" => memory[p].pid = p
  /\ at[p][t].pc = "start" => at[p][t].want = "start"
  /\ at[p][t].pc \in {"getpid", "handler", "assign", "return"} => at[p][t].want # "none"

Caches == \A p \in Pids : OwnCache(p) /\ \A t \in Callers : Midway(p, t)

PidInv == PidTypeOK /\ Ended /\ Caches /\ OwnIdentity
=============================================================================
