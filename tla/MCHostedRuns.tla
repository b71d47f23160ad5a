---------------------------- MODULE MCHostedRuns ----------------------------
(***************************************************************************)
(* The two ways a run is served over HTTP: behind an event log that any      *)
(* number of transports read (RunStream, the axum and actix servers), and    *)
(* behind a channel to the one response of its request (Invocations, the     *)
(* AgentCore runtime, with the session pool that all of them use).  Nothing  *)
(* is shared between them, so each is explored by itself: `part` says which. *)
(*                                                                          *)
(* The instance: a run with one creating request, one observer and a ring of *)
(* two; and three invocations, two of one key and one of another, on a pool  *)
(* of one session, of which the first gets to run.                           *)
(***************************************************************************)
EXTENDS RunStream, Invocations

VARIABLE part

allVars == <<vars, invocationVars, part>>

RunIdle == Init /\ mode = "async"

HostedInit ==
  \/ part = "run" /\ Init /\ InvocationInit
  \/ part = "invocations" /\ InvocationInit /\ RunIdle

RunSteps == part = "run" /\ Next /\ UNCHANGED <<invocationVars, part>>

InvocationSteps == part = "invocations" /\ InvocationNext /\ UNCHANGED <<vars, part>>

\* The fairness of each part.
HostedSpec ==
  /\ HostedInit /\ [][RunSteps \/ InvocationSteps]_allVars
  /\ WF_allVars(part = "run" /\ Bookkeeping /\ UNCHANGED <<invocationVars, part>>)
  /\ WF_allVars(part = "run" /\ cancelled /\ RunnerStep /\ UNCHANGED <<invocationVars, part>>)
  /\ \A s \in Subs :
       WF_allVars(part = "run" /\ TransportStep(s) /\ UNCHANGED <<invocationVars, part>>)
  /\ \A c \in Clients :
       WF_allVars(part = "invocations" /\ TaskStep(c) /\ UNCHANGED <<vars, part>>)

-----------------------------------------------------------------------------
CONSTANTS c1, c2, c3, k1, k2

MCKeyOf == [c \in {c1, c2, c3} |-> IF c = c3 THEN k2 ELSE k1]
=============================================================================
