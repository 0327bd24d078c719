------------------------------ MODULE RunProcess ------------------------------
(***************************************************************************)
(* run_process (src/src/Process.cc): starts a child, feeds it its input    *)
(* and collects both outputs through nonblocking pipes while the child     *)
(* runs, then drains what is left in the pipes.  The child and the clock   *)
(* move between any two system calls of the parent.                        *)
(*                                                                         *)
(* Polling returns every descriptor that is ready; one whose other end is  *)
(* closed may be reported with or without POLLIN / POLLOUT (pipes of Linux *)
(* report an end of file with POLLHUP alone, other systems add POLLIN).    *)
(* No signal interrupts a system call of the parent (EINTR).               *)
(***************************************************************************)
EXTENDS ChildProcess

CONSTANTS
  Sizes,    \* sizes of the input to try; NoInput stands for no stdin_data
  NoInput,
  Timeouts  \* may the call have a timeout?

ASSUME RunAssumption ==
  /\ NoInput \notin Nat
  /\ Sizes \subseteq Nat \cup {NoInput}
  /\ Timeouts \subseteq BOOLEAN

VARIABLES
  pc,          \* the parent's next step
  size,        \* stdin_data->size(), or NoInput
  sent,        \* Buffer::offset
  got,         \* sizes of ret.stdout_contents and ret.stderr_contents
  polled,      \* the descriptors in p; as well the keys of both fd_to_buffer maps
  todo,        \* what is left of the pass over the events, or of the drain
  timed,       \* timeout_usecs # 0
  late,        \* start_time < now() - timeout_usecs
  terminated,
  outcome      \* "none" until the call decides, then "returns" or "throws"

callerVars == <<pc, size, sent, got, polled, todo, timed, late, terminated, outcome>>
vars == <<childVars, callerVars>>

Total == IF size = NoInput THEN 0 ELSE size

Init ==
  /\ size \in Sizes /\ timed \in Timeouts
  /\ polled = IF size = NoInput THEN Outputs ELSE Streams
  /\ Fork(polled)
  /\ sent = 0 /\ got = [s \in Outputs |-> 0]
  /\ pc = "wait" /\ todo = {}
  /\ late = FALSE /\ terminated = FALSE
  /\ outcome = "none"

-----------------------------------------------------------------------------
(* The loop: wait(true), poll, one pass over the events, the timeout. *)

SeeEnded ==
  /\ pc = "wait"
  /\ Reap
  /\ pc' = "drain"
  /\ todo' = polled \cap Outputs
  /\ UNCHANGED <<size, sent, got, polled, timed, late, terminated, outcome>>

SeeRunning ==
  /\ pc = "wait" /\ child = "running"
  /\ pc' = "poll"
  /\ UNCHANGED <<childVars, size, sent, got, polled, todo, timed, late, terminated, outcome>>

Ready == {s \in polled : IF s = "in" THEN bytes[s] < Capacity ELSE Readable(s)}

PollAll ==
  /\ pc = "poll"
  /\ \E hung \in SUBSET {s \in polled : HungUp(s)} : todo' = Ready \cup hung
  /\ pc' = "handle"
  /\ UNCHANGED <<childVars, size, sent, got, polled, timed, late, terminated, outcome>>

\* The rest of an event's handler: on to the next event.
Handled(s) ==
  /\ todo' = todo \ {s}
  /\ UNCHANGED <<pc, size, timed, late, terminated, outcome>>

\* Mutant: a read that counts one byte only.
ReadOutputOne(s) ==
  /\ pc = "handle" /\ s \in todo \cap Outputs
  /\ bytes[s] > 0
  /\ Take(s, bytes[s])
  /\ got' = [got EXCEPT ![s] = @ + 1]
  /\ UNCHANGED <<sent, polled>>
  /\ Handled(s)

ReadOutput(s) ==
  /\ pc = "handle" /\ s \in todo \cap Outputs
  /\ bytes[s] > 0
  /\ Take(s, bytes[s])
  /\ got' = [got EXCEPT ![s] = @ + bytes[s]]
  /\ UNCHANGED <<sent, polled>>
  /\ Handled(s)

\* read returns 0: p.remove closes the descriptor.
SeeEndOfOutput(s) ==
  /\ pc = "handle" /\ s \in todo \cap Outputs
  /\ bytes[s] = 0
  /\ CloseEnd(s)
  /\ polled' = polled \ {s}
  /\ UNCHANGED <<sent, got>>
  /\ Handled(s)

\* write takes some of the rest; after the last byte the pipe is closed.
WriteInput ==
  /\ pc = "handle" /\ "in" \in todo
  /\ sent < Total /\ ~HungUp("in")
  /\ \E n \in 1 .. (Capacity - bytes["in"]) :
       /\ sent + n <= Total
       /\ sent' = sent + n
       /\ bytes' = [bytes EXCEPT !["in"] = @ + n]
       /\ polled' = IF sent' = Total THEN polled \ {"in"} ELSE polled
       /\ parentEnd' = IF sent' = Total THEN parentEnd \ {"in"} ELSE parentEnd
  /\ UNCHANGED <<child, status, doing, childEnd, wrote, taken, got>>
  /\ Handled("in")

\* An empty input: write returns 0.
WriteNothing ==
  /\ pc = "handle" /\ "in" \in todo
  /\ Total = 0
  /\ CloseEnd("in")
  /\ polled' = polled \ {"in"}
  /\ UNCHANGED <<sent, got>>
  /\ Handled("in")

\* Mutant: EAGAIN is an error.
WriteAgainThrows ==
  /\ pc = "handle" /\ "in" \in todo
  /\ sent < Total /\ ~HungUp("in")
  /\ bytes["in"] > 0 /\ Total - sent > Capacity - bytes["in"]
  /\ pc' = "destroy" /\ todo' = {} /\ outcome' = "throws"
  /\ UNCHANGED <<childVars, size, sent, got, polled, timed, late, terminated>>

\* EAGAIN: a short rest is written whole or not at all.
WriteAgain ==
  /\ pc = "handle" /\ "in" \in todo
  /\ sent < Total /\ ~HungUp("in")
  /\ bytes["in"] > 0 /\ Total - sent > Capacity - bytes["in"]
  /\ UNCHANGED <<childVars, sent, got, polled>>
  /\ Handled("in")

\* EPIPE: the child has closed its input; the exception runs ~Subprocess.
WriteFails ==
  /\ pc = "handle" /\ "in" \in todo
  /\ sent < Total /\ HungUp("in")
  /\ pc' = "destroy"
  /\ todo' = {}
  /\ outcome' = "throws"
  /\ UNCHANGED <<childVars, size, sent, got, polled, timed, late, terminated>>

AllHandled ==
  /\ pc = "handle" /\ todo = {}
  /\ pc' = "timer"
  /\ UNCHANGED <<childVars, size, sent, got, polled, todo, timed, late, terminated, outcome>>

InTime ==
  /\ pc = "timer" /\ ~late
  /\ pc' = "wait"
  /\ UNCHANGED <<childVars, size, sent, got, polled, todo, timed, late, terminated, outcome>>

\* Mutant: terminated is never set.
SendTermAgain ==
  /\ pc = "timer" /\ late /\ ~terminated
  /\ Terminate
  /\ late' = FALSE
  /\ pc' = "wait"
  /\ UNCHANGED <<size, sent, got, polled, todo, timed, terminated, outcome>>

\* SIGTERM, and five more seconds.
SendTerm ==
  /\ pc = "timer" /\ late /\ ~terminated
  /\ Terminate
  /\ terminated' = TRUE /\ late' = FALSE
  /\ pc' = "wait"
  /\ UNCHANGED <<size, sent, got, polled, todo, timed, outcome>>

SendKill ==
  /\ pc = "timer" /\ late /\ terminated
  /\ KillNow
  /\ pc' = "wait"
  /\ UNCHANGED <<size, sent, got, polled, todo, timed, late, terminated, outcome>>

-----------------------------------------------------------------------------
(* After the loop. *)

\* Reads until the pipe is empty.
Drain(s) ==
  /\ pc = "drain" /\ s \in todo
  /\ Take(s, bytes[s])
  /\ got' = [got EXCEPT ![s] = @ + bytes[s]]
  /\ todo' = todo \ {s}
  /\ UNCHANGED <<pc, size, sent, polled, timed, late, terminated, outcome>>

\* Mutant: no drain.
ConcludeAtOnce ==
  /\ pc = "drain"
  /\ \E check \in BOOLEAN :
       outcome' = IF check /\ status # 0 THEN "throws" ELSE "returns"
  /\ pc' = "destroy"
  /\ todo' = {}
  /\ UNCHANGED <<childVars, size, sent, got, polled, timed, late, terminated>>

\* check is read here only, so its value is chosen here.
Conclude ==
  /\ pc = "drain" /\ todo = {}
  /\ \E check \in BOOLEAN :
       outcome' = IF check /\ status # 0 THEN "throws" ELSE "returns"
  /\ pc' = "destroy"
  /\ UNCHANGED <<childVars, size, sent, got, polled, todo, timed, late, terminated>>

\* ~Subprocess: a cached exit status, or waitpid, says whether to kill.
DestroyEnded ==
  /\ pc = "destroy"
  /\ \/ child = "reaped" /\ UNCHANGED childVars
     \/ Reap
  /\ pc' = "over"
  /\ UNCHANGED <<size, sent, got, polled, todo, timed, late, terminated, outcome>>

DestroyRunning ==
  /\ pc = "destroy" /\ child = "running"
  /\ pc' = "kill"
  /\ UNCHANGED <<childVars, size, sent, got, polled, todo, timed, late, terminated, outcome>>

DestroyKill ==
  /\ pc = "kill"
  /\ KillNow
  /\ pc' = "bury"
  /\ UNCHANGED <<size, sent, got, polled, todo, timed, late, terminated, outcome>>

DestroyWait ==
  /\ pc = "bury"
  /\ Reap
  /\ pc' = "over"
  /\ UNCHANGED <<size, sent, got, polled, todo, timed, late, terminated, outcome>>

-----------------------------------------------------------------------------
Parent ==
  \/ SeeEnded \/ SeeRunning \/ PollAll
  \/ \E s \in Outputs : ReadOutput(s) \/ SeeEndOfOutput(s) \/ Drain(s)
  \/ WriteInput \/ WriteNothing \/ WriteAgain \/ WriteFails
  \/ AllHandled \/ InTime \/ SendTerm \/ SendKill
  \/ Conclude \/ DestroyEnded \/ DestroyRunning \/ DestroyKill \/ DestroyWait

ChildStep == ChildNext /\ UNCHANGED callerVars

Expire ==
  /\ timed /\ ~late /\ pc # "over"
  /\ late' = TRUE
  /\ UNCHANGED <<childVars, pc, size, sent, got, polled, todo, timed, terminated, outcome>>

Over == pc = "over" /\ UNCHANGED vars

Next == Parent \/ ChildStep \/ Expire \/ Over

(***************************************************************************)
(* The parent's thread is scheduled and time passes.  Of the child only a  *)
(* call without a timeout may expect anything: that it goes on running     *)
(* whenever no call blocks it.                                             *)
(***************************************************************************)
Fairness ==
  /\ WF_vars(Parent)
  /\ WF_vars(Expire)
  /\ ~timed => WF_vars(ChildStep)

Spec == Init /\ [][Next]_vars
FairSpec == Spec /\ Fairness

-----------------------------------------------------------------------------
(***************************************************************************)
(* Properties of run_process.                                              *)
(***************************************************************************)

Flags == timed \in BOOLEAN /\ late \in BOOLEAN /\ terminated \in BOOLEAN

\* Types of the parent's and the child's state.
TypeOK ==
  /\ child \in {"running", "zombie", "reaped"}
  /\ status \in {-1, 0, 1}
  /\ doing \in {"free"} \cup Streams
  /\ bytes \in [Streams -> Nat]
  /\ childEnd \subseteq Streams /\ parentEnd \subseteq Streams
  /\ wrote \in [Outputs -> Nat] /\ got \in [Outputs -> Nat]
  /\ taken \in Nat /\ sent \in Nat
  /\ size \in Nat \cup {NoInput}
  /\ polled \subseteq Streams /\ todo \subseteq polled
  /\ pc \in {"wait", "poll", "handle", "timer", "drain",
             "destroy", "kill", "bury", "over"}
  /\ outcome \in {"none", "returns", "throws"}
  /\ Flags

\* What the child wrote is what the parent has and what is in the pipes.
Conserved == \A s \in Outputs : wrote[s] = got[s] + bytes[s]

\* The parent stops reading an output, in the loop or in the drain, only
\* when nothing is or will be in it.
Emptied ==
  \A s \in Outputs :
    /\ s \notin polled => bytes[s] = 0 /\ s \notin childEnd
    /\ pc = "drain" /\ s \notin todo => bytes[s] = 0
    /\ pc = "handle" /\ s \in todo => bytes[s] > 0 \/ s \notin childEnd

\* The child is waited for once, and the drain comes after that.
Attended ==
  /\ child # "running" => childEnd = {}
  /\ child = "running" <=> status = -1
  /\ doing # "free" => doing \in childEnd
  /\ pc \in {"drain", "over"} \/ outcome = "returns" => child = "reaped"
  /\ pc = "bury" => child # "running"
  /\ outcome = "none" <=> pc \notin {"destroy", "kill", "bury", "over"}

\* The call returns only after the child has ended, and with every byte that
\* the child wrote before it ended, whatever the order of its exit, the
\* polls and the closing of its ends of the pipes.
AllOutput == outcome = "returns" => child = "reaped" /\ got = wrote

\* No signal is sent to, and nobody waits for, a pid that was waited for:
\* the system may have given it to another process.
NoStalePid == pc \in {"wait", "poll", "handle", "timer", "kill", "bury"} => child # "reaped"

\* The input arrives whole: the parent closes its end of the child's input
\* only when every byte is in the pipe, so that a child which reads up to the
\* end of its input has read all of it.
WholeInput ==
  /\ sent = taken + bytes["in"]
  /\ "in" \notin parentEnd => sent = Total

\* Whatever the order of the child's exit, the polls and the closing of the pipes:
\* nothing is lost of its output or of its input, and no pid is used that may by
\* then be another process's (Process.cc 495-640).
CallIsSafe == AllOutput /\ NoStalePid /\ WholeInput

\* The inductive invariant.
IInv ==
  /\ TypeOK /\ Conserved /\ Emptied /\ Attended
  /\ AllOutput /\ NoStalePid /\ WholeInput
  /\ sent <= Total

\* The call ends: with a timeout, whatever the child does (it may block for
\* ever or ignore SIGTERM); without one, if the child itself gets on.
Returns == <>(pc = "over")

\* run_process does what a call promises (see ProcessCall): everything the
\* child wrote is returned, and an exception means that the child failed or
\* did not read its input.
Promise == INSTANCE ProcessCall WITH
  output <- wrote,
  ended <- child # "running",
  failed <- status \notin {-1, 0},
  refused <- "in" \notin childEnd /\ taken < Total,
  answer <- IF outcome = "returns" THEN got ELSE [s \in Outputs |-> 0],
  over <- pc = "over"

ImplementsCall == Promise!Spec
=============================================================================
