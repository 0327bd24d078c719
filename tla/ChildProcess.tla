---------------------------- MODULE ChildProcess ----------------------------
(***************************************************************************)
(* A child process and the three pipes to its parent, as the parent's code *)
(* in src/src/Process.cc uses them.  The child may do anything a program   *)
(* can: read its input, write up to MaxOut bytes to each output, close any *)
(* of them, exit at any time it is not blocked in a call.  Bytes have no   *)
(* content; a pipe holds up to Capacity of them.  A signal that the parent *)
(* ignores (SIGPIPE) turns a write to a closed pipe into an error.         *)
(***************************************************************************)
EXTENDS Integers

CONSTANTS
  Capacity,  \* bytes that a pipe holds
  MaxOut     \* bound: bytes that the child writes to each output

Outputs == {"out", "err"}

ASSUME ChildAssumption == Capacity \in Nat \ {0} /\ MaxOut \in [Outputs -> Nat]

Streams == {"in"} \cup Outputs

VARIABLES
  child,     \* "running", "zombie" (ended, not waited for) or "reaped"
  status,    \* exit status: 0, 1 for any other, -1 before the end
  doing,     \* the stream of the call the child is blocked in, or "free"
  bytes,     \* bytes in each pipe
  childEnd,  \* the pipes whose child's end is open
  parentEnd, \* the pipes whose parent's end is open
  wrote,     \* history: bytes that the child has written to each output
  taken      \* history: bytes that the child has read

childVars == <<child, status, doing, bytes, childEnd, parentEnd, wrote, taken>>

\* The constructor of Subprocess: a child, pipes, and the parent's ends kept.
Fork(ends) ==
  /\ child = "running" /\ status = -1 /\ doing = "free"
  /\ bytes = [s \in Streams |-> 0]
  /\ childEnd = Streams
  /\ parentEnd = ends
  /\ wrote = [s \in Outputs |-> 0]
  /\ taken = 0

-----------------------------------------------------------------------------
(* The child. *)

Free == child = "running" /\ doing = "free"

\* A call that may block.
Call(s) ==
  /\ Free
  /\ s \in childEnd
  /\ s \in Outputs => wrote[s] < MaxOut[s]
  /\ doing' = s
  /\ UNCHANGED <<child, status, bytes, childEnd, parentEnd, wrote, taken>>

Write(s) ==
  /\ child = "running" /\ doing = s /\ bytes[s] < Capacity
  /\ bytes' = [bytes EXCEPT ![s] = @ + 1]
  /\ wrote' = [wrote EXCEPT ![s] = @ + 1]
  /\ doing' = "free"
  /\ UNCHANGED <<child, status, childEnd, parentEnd, taken>>

Read ==
  /\ child = "running" /\ doing = "in" /\ bytes["in"] > 0
  /\ \E n \in 1 .. bytes["in"] :
       /\ bytes' = [bytes EXCEPT !["in"] = @ - n]
       /\ taken' = taken + n
  /\ doing' = "free"
  /\ UNCHANGED <<child, status, childEnd, parentEnd, wrote>>

\* At the end of its input a program reads no more.
ReadEnd ==
  /\ child = "running" /\ doing = "in" /\ bytes["in"] = 0 /\ "in" \notin parentEnd
  /\ childEnd' = childEnd \ {"in"}
  /\ doing' = "free"
  /\ UNCHANGED <<child, status, bytes, parentEnd, wrote, taken>>

Close(s) ==
  /\ Free
  /\ s \in childEnd
  /\ childEnd' = childEnd \ {s}
  /\ UNCHANGED <<child, status, doing, bytes, parentEnd, wrote, taken>>

\* The process ends, by itself or by a signal.
End(code) ==
  /\ child' = "zombie"
  /\ status' = code
  /\ doing' = "free"
  /\ childEnd' = {}
  /\ UNCHANGED <<bytes, parentEnd, wrote, taken>>

ChildNext ==
  \/ \E s \in Streams : Call(s) \/ Close(s)
  \/ \E s \in Outputs : Write(s)
  \/ Read \/ ReadEnd
  \/ Free /\ \E code \in {0, 1} : End(code)

-----------------------------------------------------------------------------
(* What the parent can do to the child; each leaves the pipes alone. *)

\* waitpid of a child that has ended.
Reap ==
  /\ child = "zombie"
  /\ child' = "reaped"
  /\ UNCHANGED <<status, doing, bytes, childEnd, parentEnd, wrote, taken>>

\* kill: an ended child does not notice, and a program may ignore SIGTERM.
Terminate == UNCHANGED childVars \/ (child = "running" /\ End(1))
KillNow == IF child = "running" THEN End(1) ELSE UNCHANGED childVars

\* The parent reads n bytes of s.
Take(s, n) ==
  /\ bytes' = [bytes EXCEPT ![s] = @ - n]
  /\ UNCHANGED <<child, status, doing, childEnd, parentEnd, wrote, taken>>

CloseEnd(s) ==
  /\ parentEnd' = parentEnd \ {s}
  /\ UNCHANGED <<child, status, doing, bytes, childEnd, wrote, taken>>

\* What poll reports at once.
Readable(s) == bytes[s] > 0
HungUp(s) == s \notin childEnd
=============================================================================
