------------------------------ MODULE ServedRuns ------------------------------
(***************************************************************************)
(* A conversation over a WebSocket (Conversation) and a run of the default   *)
(* runner (TokioRunner), which every message of a conversation starts.  The  *)
(* conversation sees of a run only its load, its events and its persistence, *)
(* so the two are explored one at a time: `part` says which, the other rests.*)
(***************************************************************************)
EXTENDS Conversation, TokioRunner

VARIABLE part

allVars == <<chatVars, vars, part>>

RunnerIdle ==
  /\ agent = CHOOSE p \in Profiles : TRUE
  /\ Init
  /\ mode = "run" /\ phase = "abandoned" /\ cancel = FALSE /\ elapsed = FALSE
  /\ interrupt = "none" /\ recorder = <<>> /\ session = <<>> /\ appends = 0
  /\ delivered = <<>> /\ result = "none"

ConversationIdle == protocol = (CHOOSE p \in Protocols : TRUE) /\ ChatInit

ServedInit ==
  \/ part = "conversation" /\ ChatInit /\ RunnerIdle
  \/ part = "runner" /\ RunnerInit /\ ConversationIdle

ConversationSteps == part = "conversation" /\ ChatNext /\ UNCHANGED <<vars, part>>

RunnerSteps == part = "runner" /\ Next /\ UNCHANGED <<chatVars, part>>

RunOver == part = "runner" /\ Over /\ UNCHANGED allVars

\* The fairness of each part.
ServedSpec ==
  /\ ServedInit
  /\ [][ConversationSteps \/ RunnerSteps \/ RunOver]_allVars
  /\ WF_allVars(part = "conversation" /\ ServerStep /\ UNCHANGED <<vars, part>>)
  /\ WF_allVars(part = "runner" /\ RunnerStep /\ UNCHANGED <<chatVars, part>>)

===============================================================================
