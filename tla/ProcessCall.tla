----------------------------- MODULE ProcessCall -----------------------------
(***************************************************************************)
(* What a call of run_process promises: it decides to return only after    *)
(* the child has ended, and then returns everything the child ever wrote;  *)
(* it decides to throw only if the child has failed or has left some of    *)
(* its input unread; and when the call is over, so is the child.  There    *)
(* are no pipes, polls, clocks or signals.                                 *)
(***************************************************************************)
EXTENDS Naturals

CONSTANT Outputs

VARIABLES
  output,   \* what the child has written to each output
  ended,    \* has the child ended?
  failed,   \* did it end with a status other than 0?
  refused,  \* has it closed its input without reading all of it?
  outcome,  \* "none", "returns" or "throws"
  answer,   \* the output that is returned
  over      \* is the call over?

callVars == <<output, ended, failed, refused, outcome, answer, over>>

Init ==
  /\ output = [s \in Outputs |-> 0]
  /\ ended = FALSE /\ failed = FALSE /\ refused = FALSE
  /\ outcome = "none"
  /\ answer = output
  /\ over = FALSE

Produce ==
  /\ ~ended
  /\ \E s \in Outputs : output' = [output EXCEPT ![s] = @ + 1]
  /\ UNCHANGED <<ended, failed, refused, outcome, answer, over>>

Refuse ==
  /\ ~ended
  /\ refused' = TRUE
  /\ UNCHANGED <<output, ended, failed, outcome, answer, over>>

End ==
  /\ ~ended
  /\ ended' = TRUE
  /\ failed' \in BOOLEAN
  /\ refused' \in BOOLEAN /\ (refused => refused')
  /\ UNCHANGED <<output, outcome, answer, over>>

Return ==
  /\ ended /\ outcome = "none"
  /\ outcome' = "returns"
  /\ answer' = output
  /\ UNCHANGED <<output, ended, failed, refused, over>>

Throw ==
  /\ failed \/ refused
  /\ outcome = "none"
  /\ outcome' = "throws"
  /\ UNCHANGED <<output, ended, failed, refused, answer, over>>

Finish ==
  /\ ended /\ outcome # "none" /\ ~over
  /\ over' = TRUE
  /\ UNCHANGED <<output, ended, failed, refused, outcome, answer>>

Next == Produce \/ Refuse \/ End \/ Return \/ Throw \/ Finish

Spec == Init /\ [][Next]_callVars
=============================================================================
