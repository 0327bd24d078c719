--------------------------- MODULE RunProcessProof ---------------------------
(***************************************************************************)
(* Proof of the inductive invariant of run_process, for every capacity of  *)
(* the pipes, every amount of output and every size of the input.          *)
(***************************************************************************)
EXTENDS RunProcess, TLAPS

USE ChildAssumption, RunAssumption DEF Streams, Outputs

\* The call starts in a state of the invariant.
LEMMA InitInv == Init => IInv
<1> SUFFICES ASSUME Init PROVE IInv
  OBVIOUS
<1>0. Flags
  BY Zenon DEF Init, Flags
<1>1. TypeOK
  BY <1>0 DEF Init, Fork, TypeOK
<1>2. Conserved /\ Emptied /\ Attended
  BY DEF Init, Fork, Conserved, Emptied, Attended
<1>3. AllOutput /\ NoStalePid /\ WholeInput /\ sent <= Total
  BY DEF Init, Fork, AllOutput, NoStalePid, WholeInput, Total
<1> QED
  BY <1>1, <1>2, <1>3 DEF IInv

\* Every step of the child keeps the invariant.
LEMMA ChildKeeps == IInv /\ ChildStep => IInv'
<1> SUFFICES ASSUME IInv, ChildStep PROVE IInv'
  OBVIOUS
<1> USE DEF IInv, TypeOK, ChildStep, ChildNext, Free, Call, Close, Write, Read, ReadEnd, End, childVars, callerVars
<1>0. Flags'
  BY Zenon DEF Flags
<1>1. TypeOK'
  <2>1. bytes' \in [Streams -> Nat] /\ taken' \in Nat
    <3>1. CASE Read
      BY <3>1, SMTT(30)
    <3>2. CASE ~Read
      BY <3>2, SMTT(30)
    <3> QED
      BY <3>1, <3>2
  <2>2. wrote' \in [Outputs -> Nat]
    BY SMTT(30)
  <2>3. child' \in {"running", "zombie", "reaped"} /\ status' \in {-1, 0, 1}
    OBVIOUS
  <2>4. doing' \in {"free"} \cup Streams
    OBVIOUS
  <2>5. childEnd' \subseteq Streams /\ UNCHANGED <<parentEnd, callerVars>>
    OBVIOUS
  <2> QED
    BY <1>0, <2>1, <2>2, <2>3, <2>4, <2>5 DEF TypeOK
<1>2. Conserved'
  BY DEF Conserved
<1>3. Emptied'
  BY DEF Emptied, Conserved, Attended
<1>4. Attended'
  BY DEF Attended, NoStalePid
<1>5. AllOutput'
  BY DEF AllOutput, Conserved, Attended, Emptied
<1>6. NoStalePid'
  BY DEF NoStalePid, Attended
<1>7. WholeInput'
  BY DEF WholeInput, Total
<1>8. (sent <= Total)'
  BY DEF Total
<1> QED
  BY <1>1, <1>2, <1>3, <1>4, <1>5, <1>6, <1>7, <1>8

\* The loop's tests and polls.
LEMMA LoopKeeps == IInv /\ (SeeEnded \/ SeeRunning \/ PollAll) => IInv'
<1> SUFFICES ASSUME IInv, SeeEnded \/ SeeRunning \/ PollAll PROVE IInv'
  OBVIOUS
<1> USE DEF IInv, TypeOK, SeeEnded, SeeRunning, PollAll, Ready, Readable, HungUp, Reap, childVars, callerVars
<1>0. Flags'
  BY Zenon DEF Flags
<1>1. TypeOK'
  BY <1>0 DEF TypeOK
<1>2. Conserved'
  BY DEF Conserved
<1>3. Emptied'
  BY DEF Emptied, Conserved, Attended
<1>4. Attended'
  BY DEF Attended, NoStalePid
<1>5. AllOutput'
  BY DEF AllOutput, Conserved, Attended, Emptied
<1>6. NoStalePid'
  BY DEF NoStalePid, Attended
<1>7. WholeInput'
  BY DEF WholeInput, Total
<1>8. (sent <= Total)'
  BY DEF Total
<1> QED
  BY <1>1, <1>2, <1>3, <1>4, <1>5, <1>6, <1>7, <1>8

\* Reading an output, in the loop or in the drain.
LEMMA OutputsKeeps == IInv /\ (\E s \in Outputs : ReadOutput(s) \/ SeeEndOfOutput(s) \/ Drain(s)) => IInv'
<1> SUFFICES ASSUME IInv, \E s \in Outputs : ReadOutput(s) \/ SeeEndOfOutput(s) \/ Drain(s) PROVE IInv'
  OBVIOUS
<1> USE DEF IInv, TypeOK, ReadOutput, SeeEndOfOutput, Drain, Handled, Take, CloseEnd, childVars, callerVars
<1>0. Flags'
  BY Zenon DEF Flags
<1>1. TypeOK'
  <2> PICK s \in Outputs : ReadOutput(s) \/ SeeEndOfOutput(s) \/ Drain(s)
    OBVIOUS
  <2>1. CASE SeeEndOfOutput(s)
    BY <2>1, <1>0 DEF TypeOK
  <2>2. CASE ReadOutput(s) \/ Drain(s)
    <3>1. bytes' = [bytes EXCEPT ![s] = bytes[s] - bytes[s]] /\ got' = [got EXCEPT ![s] = got[s] + bytes[s]]
      BY <2>2
    <3>2. s \in Streams /\ bytes[s] \in Nat /\ got[s] \in Nat
      OBVIOUS
    <3>3. bytes' \in [Streams -> Nat] /\ got' \in [Outputs -> Nat]
      BY <3>1, <3>2
    <3>4. todo' \subseteq polled' /\ polled' \subseteq Streams
      BY <2>2
    <3>5. UNCHANGED <<child, status, doing, childEnd, parentEnd, wrote, taken, sent, size, pc, outcome>>
      BY <2>2
    <3> QED
      BY <1>0, <3>3, <3>4, <3>5 DEF TypeOK
  <2> QED
    BY <2>1, <2>2
<1>2. Conserved'
  BY DEF Conserved
<1>3. Emptied'
  BY DEF Emptied, Conserved, Attended
<1>4. Attended'
  BY DEF Attended, NoStalePid
<1>5. AllOutput'
  BY DEF AllOutput, Conserved, Attended, Emptied
<1>6. NoStalePid'
  BY DEF NoStalePid, Attended
<1>7. WholeInput'
  BY DEF WholeInput, Total
<1>8. (sent <= Total)'
  BY DEF Total
<1> QED
  BY <1>1, <1>2, <1>3, <1>4, <1>5, <1>6, <1>7, <1>8

\* Writing the input.
LEMMA InputKeeps == IInv /\ (WriteInput \/ WriteNothing \/ WriteAgain \/ WriteFails) => IInv'
<1> SUFFICES ASSUME IInv, WriteInput \/ WriteNothing \/ WriteAgain \/ WriteFails PROVE IInv'
  OBVIOUS
<1> USE DEF IInv, TypeOK, WriteInput, WriteNothing, WriteAgain, WriteFails, Handled, CloseEnd, HungUp, childVars, callerVars
<1>0. Flags'
  BY Zenon DEF Flags
<1>1. TypeOK'
  <2>1. CASE WriteInput
    <3>1. bytes' \in [Streams -> Nat] /\ sent' \in Nat
      <4> PICK n \in 1 .. (Capacity - bytes["in"]) :
                 sent' = sent + n /\ bytes' = [bytes EXCEPT !["in"] = bytes["in"] + n]
        BY <2>1
      <4>1. n \in Nat /\ bytes["in"] \in Nat
        OBVIOUS
      <4> QED
        BY <4>1
    <3>2. todo' \subseteq polled' /\ polled' \subseteq Streams /\ parentEnd' \subseteq Streams
      BY <2>1
    <3>3. UNCHANGED <<child, status, doing, childEnd, wrote, taken, got, size, pc, outcome>>
      BY <2>1
    <3> QED
      BY <1>0, <3>1, <3>2, <3>3 DEF TypeOK
  <2>2. CASE WriteNothing \/ WriteAgain
    BY <2>2, <1>0 DEF TypeOK
  <2>3. CASE WriteFails
    BY <2>3, <1>0 DEF TypeOK
  <2> QED
    BY <2>1, <2>2, <2>3
<1>2. Conserved'
  BY DEF Conserved
<1>3. Emptied'
  BY DEF Emptied, Conserved, Attended
<1>4. Attended'
  BY DEF Attended, NoStalePid
<1>5. AllOutput'
  BY DEF AllOutput, Conserved, Attended, Emptied
<1>6. NoStalePid'
  BY DEF NoStalePid, Attended
<1>7. WholeInput'
  BY DEF WholeInput, Total
<1>8. (sent <= Total)'
  BY DEF Total
<1> QED
  BY <1>1, <1>2, <1>3, <1>4, <1>5, <1>6, <1>7, <1>8

\* The timeout and the signals.
LEMMA TimerKeeps == IInv /\ (AllHandled \/ InTime \/ SendTerm \/ SendKill) => IInv'
<1> SUFFICES ASSUME IInv, AllHandled \/ InTime \/ SendTerm \/ SendKill PROVE IInv'
  OBVIOUS
<1> USE DEF IInv, TypeOK, AllHandled, InTime, SendTerm, SendKill, Terminate, KillNow, End, childVars, callerVars
<1>0. Flags'
  BY Zenon DEF Flags
<1>1. TypeOK'
  BY <1>0 DEF TypeOK
<1>2. Conserved'
  BY DEF Conserved
<1>3. Emptied'
  BY DEF Emptied, Conserved, Attended
<1>4. Attended'
  <2>1. CASE AllHandled \/ InTime
    BY <2>1 DEF Attended, NoStalePid
  <2>2. CASE SendTerm
    <3>1. CASE child = "running" /\ End(1)
      BY <2>2, <3>1 DEF Attended, NoStalePid
    <3>2. CASE UNCHANGED childVars
      BY <2>2, <3>2 DEF Attended, NoStalePid
    <3> QED
      BY <2>2, <3>1, <3>2
  <2>3. CASE SendKill
    <3>1. CASE child = "running" /\ End(1)
      BY <2>3, <3>1 DEF Attended, NoStalePid
    <3>2. CASE UNCHANGED childVars
      BY <2>3, <3>2 DEF Attended, NoStalePid
    <3> QED
      BY <2>3, <3>1, <3>2
  <2> QED
    BY <2>1, <2>2, <2>3
<1>5. AllOutput'
  BY DEF AllOutput, Conserved, Attended, Emptied
<1>6. NoStalePid'
  BY DEF NoStalePid, Attended
<1>7. WholeInput'
  BY DEF WholeInput, Total
<1>8. (sent <= Total)'
  BY DEF Total
<1> QED
  BY <1>1, <1>2, <1>3, <1>4, <1>5, <1>6, <1>7, <1>8

\* The verdict and the destructor.
LEMMA DestroyKeeps == IInv /\ (Conclude \/ DestroyEnded \/ DestroyRunning \/ DestroyKill \/ DestroyWait) => IInv'
<1> SUFFICES ASSUME IInv, Conclude \/ DestroyEnded \/ DestroyRunning \/ DestroyKill \/ DestroyWait PROVE IInv'
  OBVIOUS
<1> USE DEF IInv, TypeOK, Conclude, DestroyEnded, DestroyRunning, DestroyKill, DestroyWait, Reap, KillNow, End, childVars, callerVars
<1>0. Flags'
  BY Zenon DEF Flags
<1>1. TypeOK'
  BY <1>0 DEF TypeOK
<1>2. Conserved'
  BY DEF Conserved
<1>3. Emptied'
  BY DEF Emptied, Conserved, Attended
<1>4. Attended'
  <2>1. CASE Conclude
    BY <2>1 DEF Attended, NoStalePid
  <2>2. CASE DestroyEnded
    BY <2>2 DEF Attended, NoStalePid
  <2>3. CASE DestroyRunning
    BY <2>3 DEF Attended, NoStalePid
  <2>4. CASE DestroyKill
    <3>1. CASE child = "running" /\ End(1)
      BY <2>4, <3>1 DEF Attended, NoStalePid
    <3>2. CASE UNCHANGED childVars
      BY <2>4, <3>2 DEF Attended, NoStalePid
    <3> QED
      BY <2>4, <3>1, <3>2
  <2>5. CASE DestroyWait
    BY <2>5 DEF Attended, NoStalePid
  <2> QED
    BY <2>1, <2>2, <2>3, <2>4, <2>5
<1>5. AllOutput'
  BY DEF AllOutput, Conserved, Attended, Emptied
<1>6. NoStalePid'
  BY DEF NoStalePid, Attended
<1>7. WholeInput'
  BY DEF WholeInput, Total
<1>8. (sent <= Total)'
  BY DEF Total
<1> QED
  BY <1>1, <1>2, <1>3, <1>4, <1>5, <1>6, <1>7, <1>8

\* Every step keeps the invariant.
LEMMA NextKeeps == IInv /\ [Next]_vars => IInv'
<1> SUFFICES ASSUME IInv, [Next]_vars PROVE IInv'
  OBVIOUS
<1>1. CASE Expire
  <2>1. Flags'
    BY <1>1, Zenon DEF IInv, TypeOK, Flags, Expire
  <2> QED
    BY <1>1, <2>1 DEF IInv, TypeOK, Conserved, Emptied, Attended, AllOutput, NoStalePid,
       WholeInput, Total, Expire, childVars
<1>2. CASE Over \/ UNCHANGED vars
  <2>1. Flags'
    BY <1>2, Zenon DEF IInv, TypeOK, Flags, Over, vars, callerVars
  <2> QED
    BY <1>2, <2>1 DEF IInv, TypeOK, Conserved, Emptied, Attended, AllOutput, NoStalePid,
       WholeInput, Total, Over, vars, childVars, callerVars
<1>3. CASE Parent
  BY <1>3, LoopKeeps, OutputsKeeps, InputKeeps, TimerKeeps, DestroyKeeps DEF Parent
<1> QED
  BY <1>1, <1>2, <1>3, ChildKeeps DEF Next

\* run_process returns all that the child wrote, hands over its input whole,
\* and uses the child's pid only until it has waited for it.
THEOREM Invariance == Spec => []IInv
<1> QED
  BY InitInv, NextKeeps, PTL DEF Spec

\* In every reachable state: the output and the input are whole, and the pid is used
\* only until it was waited for (Process.cc 495-640).
COROLLARY Safety == Spec => []CallIsSafe
<1>1. IInv => CallIsSafe
  BY DEF IInv, CallIsSafe
<1> QED
  BY <1>1, Invariance, PTL

-----------------------------------------------------------------------------
(* run_process implements the promise of ProcessCall. *)

\* The call starts as the promise does.
LEMMA InitPromised == Init => Promise!Init
  BY DEF Init, Fork, Promise!Init

\* A step that leaves the child's state and the verdict alone.
LEMMA Unnoticed ==
  ASSUME UNCHANGED <<child, status, wrote, taken, size, outcome>>,
         ("in" \in childEnd') <=> ("in" \in childEnd),
         outcome = "returns" => got' = got,
         pc # "over", pc' # "over"
  PROVE  UNCHANGED Promise!callVars
BY DEF Promise!callVars, Total

\* The end of the child, by itself or by a signal.
LEMMA ChildEndPromised ==
  ASSUME IInv, NEW code \in {0, 1}, child = "running", End(code),
         UNCHANGED <<size, got, outcome>>, pc # "over", pc' # "over"
  PROVE  Promise!End
<1>1. "in" \notin childEnd'
  BY DEF End
<1> QED
  BY <1>1 DEF End, Promise!End, Total

\* Every step of the child is a step of the promise or none.
LEMMA ChildPromised ==
  ASSUME IInv, ChildStep
  PROVE  Promise!Next \/ UNCHANGED Promise!callVars
<1>1. /\ pc # "over" /\ pc' # "over" /\ child = "running"
      /\ UNCHANGED <<size, got, outcome>>
  BY DEF ChildStep, callerVars, ChildNext, Free, Call, Close, Write, Read, ReadEnd, IInv, Attended
<1>2. ASSUME NEW s \in Streams, Call(s)
      PROVE  UNCHANGED Promise!callVars
  BY <1>1, <1>2, Unnoticed DEF Call
<1>3. CASE (\E s \in Streams : Close(s)) \/ ReadEnd
  <2>1. UNCHANGED <<child, status, wrote, taken>>
    BY <1>3 DEF Close, ReadEnd
  <2>2. CASE ("in" \in childEnd') <=> ("in" \in childEnd)
    BY <1>1, <2>1, <2>2, Unnoticed
  <2>3. CASE "in" \in childEnd /\ "in" \notin childEnd' /\ taken < Total
    BY <1>1, <2>1, <2>3 DEF Promise!Next, Promise!Refuse, Total
  <2>4. CASE "in" \in childEnd /\ "in" \notin childEnd' /\ ~(taken < Total)
    BY <1>1, <2>1, <2>4 DEF Promise!callVars, Total
  <2>5. childEnd' \subseteq childEnd
    BY <1>3 DEF Close, ReadEnd
  <2> QED
    BY <2>2, <2>3, <2>4, <2>5
<1>4. ASSUME NEW s \in Outputs, Write(s)
      PROVE  Promise!Produce
  BY <1>1, <1>4 DEF Write, Promise!Produce, Total
<1>5. CASE Read
  <2>1. "in" \in childEnd /\ childEnd' = childEnd
    BY <1>5 DEF Read, IInv, Attended
  <2> QED
    BY <1>1, <1>5, <2>1 DEF Read, Promise!callVars
<1>6. ASSUME NEW code \in {0, 1}, Free, End(code)
      PROVE  Promise!End
  BY <1>1, <1>6, ChildEndPromised
<1> QED
  BY <1>2, <1>3, <1>4, <1>5, <1>6 DEF ChildStep, ChildNext, Promise!Next

\* The verdict after the drain: everything, or an exception for a failure.
LEMMA ConcludePromised ==
  ASSUME IInv, IInv', Conclude
  PROVE  Promise!Return \/ Promise!Throw
<1>1. child = "reaped" /\ status # -1 /\ outcome = "none" /\ pc' # "over" /\ pc # "over"
  BY DEF Conclude, IInv, Attended
<1>2. UNCHANGED <<child, wrote, status, childEnd, taken, size, got>>
  BY DEF Conclude, childVars
<1>3. CASE outcome' = "returns"
  <2>1. got' = wrote
    BY <1>2, <1>3 DEF IInv, AllOutput
  <2> QED
    BY <1>1, <1>2, <1>3, <2>1 DEF Promise!Return, Total
<1>4. CASE outcome' = "throws" /\ status # 0
  BY <1>1, <1>2, <1>4 DEF Promise!Throw, Total
<1> QED
  BY <1>3, <1>4 DEF Conclude

\* A failed write: the child has closed its input and not read all of it.
LEMMA WriteFailsPromised ==
  ASSUME IInv, WriteFails
  PROVE  Promise!Throw
<1>1. "in" \notin childEnd /\ taken < Total
  <2>1. taken <= sent /\ sent < Total
    BY DEF WriteFails, IInv, TypeOK, WholeInput, Total
  <2>2. Total \in Nat /\ taken \in Nat /\ sent \in Nat
    BY DEF IInv, TypeOK, Total
  <2> QED
    BY <2>1, <2>2 DEF WriteFails, HungUp
<1>2. outcome = "none"
  BY DEF WriteFails, IInv, Attended
<1> QED
  BY <1>1, <1>2 DEF WriteFails, childVars, Promise!Throw, Total

\* The end of the call: the verdict is there and the child has ended.
LEMMA EndPromised ==
  ASSUME IInv, DestroyEnded \/ DestroyWait
  PROVE  Promise!Finish
<1>1. child # "running" /\ child' # "running" /\ pc # "over" /\ pc' = "over"
  BY DEF DestroyEnded, DestroyWait, Reap, childVars, IInv, Attended
<1>2. UNCHANGED <<wrote, status, childEnd, taken, size, got, outcome>>
  BY DEF DestroyEnded, DestroyWait, Reap, childVars
<1>3. outcome # "none"
  BY DEF DestroyEnded, DestroyWait, IInv, Attended
<1> QED
  BY <1>1, <1>2, <1>3 DEF Promise!Finish, Total

\* Every step is a step of the promise or none.
LEMMA NextPromised ==
  ASSUME IInv, IInv', [Next]_vars
  PROVE  [Promise!Next]_Promise!callVars
<1>1. CASE DestroyEnded \/ DestroyWait \/ Conclude \/ WriteFails
  BY <1>1, EndPromised, ConcludePromised, WriteFailsPromised DEF Promise!Next
<1>2. CASE SendTerm \/ SendKill \/ DestroyKill
  <2>1. pc # "over" /\ pc' # "over" /\ UNCHANGED <<size, got, outcome>>
    BY <1>2 DEF SendTerm, SendKill, DestroyKill
  <2>2. CASE child = "running" /\ End(1)
    BY <2>1, <2>2, ChildEndPromised DEF Promise!Next
  <2>3. CASE UNCHANGED childVars
    BY <2>1, <2>3, Unnoticed DEF childVars
  <2> QED
    BY <1>2, <2>2, <2>3 DEF SendTerm, SendKill, DestroyKill, Terminate, KillNow
<1>3. CASE SeeEnded
  BY <1>3 DEF SeeEnded, Reap, Promise!callVars, Total
<1>4. CASE \/ SeeRunning \/ PollAll
           \/ \E s \in Outputs : ReadOutput(s) \/ SeeEndOfOutput(s) \/ Drain(s)
           \/ WriteInput \/ WriteNothing \/ WriteAgain
           \/ AllHandled \/ InTime
  <2>1. /\ UNCHANGED <<child, status, wrote, taken, size, childEnd, outcome>>
        /\ pc # "over" /\ pc' # "over"
    BY <1>4 DEF SeeRunning, PollAll, ReadOutput, SeeEndOfOutput, Drain, WriteInput, WriteNothing,
       WriteAgain, AllHandled, InTime, Handled, Take, CloseEnd, childVars
  <2>2. outcome = "none"
    BY <1>4 DEF SeeRunning, PollAll, ReadOutput, SeeEndOfOutput, Drain, WriteInput, WriteNothing,
       WriteAgain, AllHandled, InTime, IInv, Attended
  <2> QED
    BY <2>1, <2>2, Unnoticed
<1>5. CASE DestroyRunning \/ Expire
  BY <1>5, Unnoticed DEF DestroyRunning, Expire, childVars
<1>6. CASE Over \/ UNCHANGED vars
  BY <1>6 DEF Over, vars, childVars, callerVars, Promise!callVars, Total
<1> QED
  BY <1>1, <1>2, <1>3, <1>4, <1>5, <1>6, ChildPromised DEF Next, Parent

\* run_process returns only after the child has ended, with all of its output,
\* and throws only for a child that failed or refused its input.
THEOREM Refinement == Spec => ImplementsCall
<1>1. Init => Promise!Init
  BY InitPromised
<1>2. IInv /\ IInv' /\ [Next]_vars => [Promise!Next]_Promise!callVars
  BY NextPromised
<1> QED
  BY <1>1, <1>2, Invariance, PTL DEF Spec, ImplementsCall, Promise!Spec

=============================================================================
