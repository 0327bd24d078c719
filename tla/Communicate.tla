----------------------------- MODULE Communicate -----------------------------
(***************************************************************************)
(* Subprocess::communicate (src/src/Process.cc) on a child whose three     *)
(* streams are pipes.  The descriptors block: a write waits until the pipe *)
(* has taken the whole rest of the input.  Nobody reads the child's errors.*)
(***************************************************************************)
EXTENDS ChildProcess

CONSTANTS
  Sizes,    \* sizes of the input to try
  Timeouts  \* may timeout_usecs be 0, not be 0?

VARIABLES
  pc,       \* the parent's next step
  size,     \* stdin_size
  sent,     \* stdin_offset
  got,      \* stdout_bytes
  polled,   \* the descriptors in p
  todo,     \* the reported descriptors that are not handled yet
  timed,    \* timeout_usecs # 0; if not, deadline_usecs is 0
  expired,  \* has the time of the timeout passed?
  outcome   \* "none", "returns", "throws" or "kill failed"

callerVars == <<pc, size, sent, got, polled, todo, timed, expired, outcome>>
vars == <<childVars, callerVars>>

\* now() >= deadline_usecs
Late == ~timed \/ expired

Init ==
  /\ size \in Sizes /\ timed \in Timeouts
  /\ polled = IF size = 0 THEN {"out"} ELSE {"in", "out"}
  /\ Fork(polled \cup {"err"})
  /\ sent = 0 /\ got = 0
  /\ pc = "wait" /\ todo = {} /\ expired = FALSE /\ outcome = "none"

\* The condition of the loop.
SeeEnded ==
  /\ pc = "wait"
  /\ Reap
  /\ pc' = "judge"
  /\ UNCHANGED <<size, sent, got, polled, todo, timed, expired, outcome>>

SeeRunning ==
  /\ pc = "wait" /\ child = "running"
  /\ pc' = CASE Late -> "judge" [] ~Late /\ polled = {} -> "join" [] OTHER -> "poll"
  /\ UNCHANGED <<childVars, size, sent, got, polled, todo, timed, expired, outcome>>

\* Both pipes are closed: wait() until the child ends.
Join ==
  /\ pc = "join"
  /\ Reap
  /\ pc' = "judge"
  /\ UNCHANGED <<size, sent, got, polled, todo, timed, expired, outcome>>

Ready ==
  {s \in polled : HungUp(s) \/ IF s = "in" THEN bytes[s] < Capacity ELSE Readable(s)}

\* poll returns what is ready; nothing if its timeout, rounded down to whole
\* milliseconds, ends first.
PollAll ==
  /\ pc = "poll"
  /\ todo' = Ready
  /\ pc' = "read"
  /\ UNCHANGED <<childVars, size, sent, got, polled, timed, expired, outcome>>

ReadOutput ==
  /\ pc = "read"
  /\ IF "out" \notin todo
     THEN UNCHANGED <<childVars, got, polled>>
     ELSE IF bytes["out"] = 0
     THEN CloseEnd("out") /\ polled' = polled \ {"out"} /\ UNCHANGED got
     ELSE /\ \E n \in 1 .. bytes["out"] : Take("out", n) /\ got' = got + n
          /\ UNCHANGED polled
  /\ pc' = IF "in" \in todo THEN "write" ELSE "wait"
  /\ todo' = {}
  /\ UNCHANGED <<size, sent, timed, expired, outcome>>

\* The blocking write, as the pipe takes it; "writing" once it took a byte.
WriteSome ==
  /\ pc \in {"write", "writing"} /\ ~HungUp("in") /\ bytes["in"] < Capacity
  /\ bytes' = [bytes EXCEPT !["in"] = @ + 1]
  /\ sent' = sent + 1
  /\ pc' = IF sent' = size THEN "wait" ELSE "writing"
  /\ polled' = IF sent' = size THEN polled \ {"in"} ELSE polled
  /\ parentEnd' = IF sent' = size THEN parentEnd \ {"in"} ELSE parentEnd
  /\ UNCHANGED <<child, status, doing, childEnd, wrote, taken,
                 size, got, todo, timed, expired, outcome>>

\* EPIPE: an error (the descriptor is closed) or the end of a partial write.
WriteBroken ==
  /\ pc \in {"write", "writing"} /\ HungUp("in")
  /\ IF pc = "write" THEN CloseEnd("in") /\ polled' = polled \ {"in"}
                     ELSE UNCHANGED <<childVars, polled>>
  /\ pc' = "wait"
  /\ UNCHANGED <<size, sent, got, todo, timed, expired, outcome>>

\* After the loop: now() >= deadline_usecs, whether or not there is one.
Return ==
  /\ pc = "judge" /\ ~Late
  /\ outcome' = "returns"
  /\ pc' = "over"
  /\ UNCHANGED <<childVars, size, sent, got, polled, todo, timed, expired>>

TimeOut ==
  /\ pc = "judge" /\ Late
  /\ KillNow
  /\ outcome' = IF child = "reaped" THEN "kill failed" ELSE "throws"
  /\ pc' = "over"
  /\ UNCHANGED <<size, sent, got, polled, todo, timed, expired>>

Parent ==
  \/ SeeEnded \/ SeeRunning \/ Join \/ PollAll \/ ReadOutput
  \/ WriteSome \/ WriteBroken \/ Return \/ TimeOut

ChildStep == ChildNext /\ UNCHANGED callerVars

Expire ==
  /\ timed /\ ~expired
  /\ expired' = TRUE
  /\ UNCHANGED <<childVars, pc, size, sent, got, polled, todo, timed, outcome>>

Next == Parent \/ ChildStep \/ Expire

Spec == Init /\ [][Next]_vars

\* "Subprocess::communicate timed out" is thrown, and the child killed, only
\* if a timeout was asked for and has passed.
TimedOutOnlyLate == outcome = "throws" => timed /\ expired
=============================================================================
