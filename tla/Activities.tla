------------------------------ MODULE Activities ------------------------------
(***************************************************************************)
(* A durable run and the work of its activities, next to each other:         *)
(* call_model sends a request (Requests), invoke_tool takes a call through   *)
(* the tool pipeline, as the agent loop does with hooks (ToolPipeline), and  *)
(* the tools of the tools crate run a shell command (Exec) or a command in a *)
(* microVM (Sandboxes), or fetch from the web (WebAccess).                   *)
(*                                                                          *)
(* An activity hands the workflow its result and nothing else, so each part  *)
(* is explored by itself: `part` says which, and the others rest.            *)
(***************************************************************************)
EXTENDS DurableRun, ToolPipeline, Exec, Sandboxes, WebAccess, Requests

VARIABLE part

allVars == <<vars, toolVars, execVars, vmVars, webVars, requestVars, part>>

WorkflowIdle ==
  plan = (CHOOSE p \in Plans : TRUE) /\ registered = FALSE /\ deadline = FALSE /\ Unstarted

ActivitiesInit ==
  \/ part = "workflow" /\ Init /\ ToolIdle /\ ExecIdle /\ VmIdle /\ WebIdle /\ RequestIdle
  \/ part = "tool" /\ ToolInit /\ WorkflowIdle /\ ExecIdle /\ VmIdle /\ WebIdle /\ RequestIdle
  \/ part = "exec" /\ ExecInit /\ WorkflowIdle /\ ToolIdle /\ VmIdle /\ WebIdle /\ RequestIdle
  \/ part = "vm" /\ VmInit /\ WorkflowIdle /\ ToolIdle /\ ExecIdle /\ WebIdle /\ RequestIdle
  \/ part = "web" /\ WebInit /\ WorkflowIdle /\ ToolIdle /\ ExecIdle /\ VmIdle /\ RequestIdle
  \/ part = "request" /\ RequestInit /\ WorkflowIdle /\ ToolIdle /\ ExecIdle /\ VmIdle /\ WebIdle

WorkflowSteps ==
  part = "workflow" /\ Next
    /\ UNCHANGED <<toolVars, execVars, vmVars, webVars, requestVars, part>>

ToolSteps ==
  part = "tool" /\ ToolNext /\ UNCHANGED <<vars, execVars, vmVars, webVars, requestVars, part>>

ExecSteps ==
  part = "exec" /\ ExecNext /\ UNCHANGED <<vars, toolVars, vmVars, webVars, requestVars, part>>

VmSteps ==
  part = "vm" /\ VmNext /\ UNCHANGED <<vars, toolVars, execVars, webVars, requestVars, part>>

WebSteps ==
  part = "web" /\ WebNext /\ UNCHANGED <<vars, toolVars, execVars, vmVars, requestVars, part>>

RequestSteps ==
  part = "request" /\ RequestNext /\ UNCHANGED <<vars, toolVars, execVars, vmVars, webVars, part>>

PartOver ==
  /\ \/ part = "tool" /\ stage = "done"
     \/ part = "exec" /\ step \in {"done", "failed", "dropped"}
     \/ /\ part = "web"
        /\ \A f \in Fetches : fetch[f].at \in {"over", "denied", "error", "done"}
        /\ \A t \in Tunnels : tunnel[t] \notin {"new", "open"}
  /\ UNCHANGED allVars

ActivitiesNext ==
  \/ WorkflowSteps \/ ToolSteps \/ ExecSteps \/ VmSteps \/ WebSteps \/ RequestSteps
  \/ PartOver

ActivitiesSpec == ActivitiesInit /\ [][ActivitiesNext]_allVars
===============================================================================
