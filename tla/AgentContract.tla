---------------------------- MODULE AgentContract ----------------------------
(***************************************************************************)
(* What every Agent promises whoever drives its event stream (core's        *)
(* Agent::run, FailureSlot and RunResultStreaming::collect): RunStarted     *)
(* first, then any events, one terminal event, then the end of the stream.  *)
(* By that end, and not necessarily before, the failure slot holds an error *)
(* exactly when the terminal event was RunFailed.  The consumer may drop    *)
(* the stream at any point.                                                 *)
(***************************************************************************)
VARIABLES
  status,    \* "fresh", "streaming", "completed", "failed", "ended", "dropped"
  failure    \* the failure slot holds an error

contractVars == <<status, failure>>

Init == status = "fresh" /\ failure = FALSE

Start == status = "fresh" /\ status' = "streaming" /\ UNCHANGED failure

\* The terminal event and the end of the stream may be one step.
Complete ==
  /\ status = "streaming" /\ ~failure
  /\ status' \in {"completed", "ended"} /\ UNCHANGED failure

\* RunFailed is yielded before or after the error is recorded.
Fail ==
  /\ status = "streaming"
  /\ \/ status' = "failed" /\ failure' \in {failure, TRUE}
     \/ status' = "ended" /\ failure' = TRUE

Record ==
  /\ status \in {"streaming", "failed"} /\ ~failure
  /\ failure' = TRUE /\ UNCHANGED status

End ==
  /\ \/ status = "completed" /\ UNCHANGED failure
     \/ status = "failed" /\ failure' = TRUE
  /\ status' = "ended"

Drop ==
  /\ status \notin {"ended", "dropped"} /\ status' = "dropped"
  /\ UNCHANGED failure

Progress == Start \/ Complete \/ Fail \/ Record \/ End

Next == Progress \/ Drop

Safety == Init /\ [][Next]_contractVars

\* A stream that is polled to its end has one.
Spec == Safety /\ WF_contractVars(Progress)
=============================================================================
