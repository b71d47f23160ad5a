----------------------------- MODULE DurableRun ------------------------------
(***************************************************************************)
(* A durable run: TemporalRunner (runtime-temporal/src/runner.rs), the       *)
(* workflow (DurableDriver), its activities (activities.rs), and, modelled   *)
(* from their use, the Temporal server that records the history and the      *)
(* worker process, which may crash and then replays it.                      *)
(*                                                                          *)
(* The server records one result for each activity, however many attempts    *)
(* it takes: a retried attempt shows nowhere.  A workflow task is atomic: a  *)
(* worker that dies in the middle of one leaves no trace.                    *)
(***************************************************************************)
EXTENDS DurableDriver

CONSTANTS
  Plans,          \* agents the worker may have registered: [output, tools, handoffs]
  Replies,        \* what the model may answer: [text, calls]
  MaxCrashes      \* bound on crashes of the worker

ASSUME DurableRunAssumption ==
  /\ Plans \subseteq [output : BOOLEAN, tools : BOOLEAN, handoffs : {FALSE}]
  /\ MaxCrashes \in Nat

VARIABLES
  plan,                   \* the agent's plan
  registered,             \* the worker knows the agent
  deadline,               \* RunConfig.timeout is set
  history, tasks,         \* the server's events; how many each workflow task had seen
  activity,               \* scheduled activities: their kinds, and whether they are open
  outcome,                \* DurableRunOutcome, once the workflow is closed
  worker,                 \* the workflow as the worker has cached it
  crashes,
  requested,              \* requested_cancel: the caller's token has fired
  phase, result,          \* of the runner
  events, slot, session   \* the stream it returns, its FailureSlot; what it appended

serverVars == <<history, tasks, activity, outcome>>
runnerVars == <<phase, result, events, slot, session>>
vars == <<plan, registered, deadline, serverVars, worker, crashes, requested,
          runnerVars>>

NoReply == [text |-> "none", calls |-> <<>>]
\* No instance of the workflow in the cache.
Evicted == [NewRun EXCEPT !.awaiting = <<0>>]
Terminated == "terminated"
Open == [status |-> None, events |-> <<>>, usage |-> 0]

Unstarted ==
  /\ history = <<>> /\ tasks = <<>> /\ activity = <<>> /\ outcome = Open
  /\ worker = Evicted /\ crashes = 0
  /\ requested = FALSE
  /\ phase = "loading" /\ result = None /\ events = <<>> /\ slot = FALSE /\ session = <<>>

Init == plan \in Plans /\ registered \in BOOLEAN /\ deadline \in BOOLEAN /\ Unstarted

-----------------------------------------------------------------------------
(* The workflow on its worker.                                              *)

Running == phase # "loading" /\ phase # "starting" /\ outcome = Open
InHistory(kind) == \E i \in DOMAIN history : history[i].kind = kind

\* A crash loses the cache: the worker feeds a new instance the history, task by
\* task.
Replayed ==
  FoldLeft(LAMBDA w, i : Activate(plan, w, SubSeq(history, IF i = 1 THEN 1 ELSE tasks[i - 1] + 1, tasks[i])),
           NewRun, [i \in DOMAIN tasks |-> i])

Cached == IF worker = Evicted THEN Replayed ELSE worker

OutcomeOf(d) == [status |-> d.status, events |-> d.events, usage |-> d.usage]

\* unknown_agent_outcome, without any activity.
UnknownAgent ==
  /\ phase = "awaiting" /\ Running /\ ~registered
  /\ outcome' = [Open EXCEPT !.status = "agent_failed"]
  /\ UNCHANGED <<plan, registered, deadline, history, tasks, activity, worker, crashes, requested, runnerVars>>

\* The workflow task is done: the worker has w, and the server what is new in it.
TaskCompletes(w) ==
  /\ worker' = w /\ tasks' = Append(tasks, Len(history))
  /\ activity' = [i \in 1 .. Len(w.commands) |->
                   IF i <= Len(activity) THEN activity[i]
                   ELSE [kind |-> w.commands[i].kind, open |-> TRUE]]
  /\ outcome' = IF w.driver.phase = "done" THEN OutcomeOf(w.driver) ELSE outcome

Seen == IF tasks = <<>> THEN 0 ELSE Last(tasks)

\* The activation sees all that was recorded since the last task.
WorkflowTask ==
  /\ Running /\ registered /\ (tasks = <<>> \/ Len(history) > Seen)
  /\ TaskCompletes(Activate(plan, Cached, SubSeq(history, Seen + 1, Len(history))))
  /\ UNCHANGED <<plan, registered, deadline, history, crashes, requested, runnerVars>>

WorkerCrashes ==
  /\ crashes < MaxCrashes /\ crashes' = crashes + 1 /\ Running
  /\ worker' = Evicted
  /\ UNCHANGED <<plan, registered, deadline, serverVars, requested, runnerVars>>

-----------------------------------------------------------------------------
(* Activities.                                                              *)

Records(i, ok, reply) ==
  /\ Running /\ activity[i].open
  /\ activity' = [activity EXCEPT ![i].open = FALSE]
  /\ history' = Append(history, [kind |-> "activity", id |-> i, ok |-> ok, reply |-> reply])
  /\ UNCHANGED <<plan, registered, deadline, tasks, outcome, worker, crashes, requested,
                 runnerVars>>

\* A seed the worker rejects is not retried.
RenderInstructions(i) ==
  /\ activity[i].kind = "render_instructions"
  /\ \E ok \in BOOLEAN : Records(i, ok, NoReply)

\* The model's stream is drained into one turn; an error of the model is not
\* retried, and neither is an attempt that timed out for the last time.
CallModel(i) ==
  /\ activity[i].kind = "call_model"
  /\ Records(i, FALSE, NoReply) \/ \E reply \in Replies : Records(i, TRUE, reply)

\* A tool that fails or is denied has a result like any other, and so has one
\* whose attempts are used up.
InvokeTool(i) == activity[i].kind = "invoke_tool" /\ Records(i, TRUE, NoReply)

-----------------------------------------------------------------------------
(* The server's timer, its cancel request and its backstop.                  *)

TimerFires ==
  /\ Running /\ deadline /\ tasks # <<>> /\ ~InHistory("timer")
  /\ history' = Append(history, [kind |-> "timer"])
  /\ UNCHANGED <<plan, registered, deadline, tasks, activity, outcome, worker, crashes, requested, runnerVars>>

\* The execution timeout lies a margin after the run's deadline, but runs from the
\* start of the workflow: a worker that comes late may find the run terminated.
ExecutionTimesOut ==
  /\ Running /\ deadline
  /\ outcome' = [Open EXCEPT !.status = Terminated]
  /\ UNCHANGED <<plan, registered, deadline, history, tasks, activity, worker, crashes, requested, runnerVars>>

\* The runner asks once; whether the request arrives is not looked at.
RequestCancel ==
  /\ phase = "awaiting" /\ ~requested /\ requested' = TRUE
  /\ \/ Running /\ history' = Append(history, [kind |-> "cancel"])
     \/ UNCHANGED history
  /\ UNCHANGED <<plan, registered, deadline, tasks, activity, outcome, worker, crashes,
                 runnerVars>>

-----------------------------------------------------------------------------
(* The runner.                                                              *)

\* A session that cannot be read is an error of its own, with no stream.
Load ==
  /\ phase = "loading"
  /\ \/ phase' = "starting" /\ UNCHANGED result
     \/ phase' = "returned" /\ result' = "load_error"
  /\ UNCHANGED <<plan, registered, deadline, serverVars, worker, crashes, requested,
                 events, slot, session>>

\* outcome_to_run_result.
ResultOfStatus(status) ==
  CASE status = "completed" -> "ok"
    [] status = "agent_failed" -> "agent"
    [] status = Terminated -> "infra"
    [] OTHER -> status

\* into_streaming: a failed run whose log has no terminal event gets one.
Streamed(evs, res) ==
  IF res = "ok" \/ (evs # <<>> /\ IsTerminal(Last(evs))) THEN evs
  ELSE Append(evs, Ev("failed", res))

\* The record is appended, best effort, before the stream exists.
Returns(evs, res) ==
  /\ phase' = "returned" /\ result' = res
  /\ events' = Streamed(evs, res) /\ slot' = (res = "agent")
  /\ session' \in {<<>>, Drain(FoldLeft(Observe, RecordInput, evs))}
  /\ UNCHANGED <<plan, registered, deadline, serverVars, worker, crashes, requested>>

StartWorkflow ==
  /\ phase = "starting"
  /\ \/ /\ phase' = "awaiting"
        /\ UNCHANGED <<plan, registered, deadline, serverVars, worker, crashes,
                       requested, result, events, slot, session>>
     \/ Returns(<<>>, "infra")

GetResult ==
  /\ phase = "awaiting" /\ outcome # Open
  /\ Returns(outcome.events, ResultOfStatus(outcome.status))

\* The connection to the server breaks while the workflow goes on.
GetResultFails == phase = "awaiting" /\ Returns(<<>>, "infra")

Done == phase = "returned" /\ UNCHANGED vars

Next ==
  \/ UnknownAgent \/ WorkflowTask \/ Load \/ StartWorkflow \/ GetResult \/ GetResultFails
  \/ Done
  \/ WorkerCrashes \/ TimerFires \/ ExecutionTimesOut \/ RequestCancel
  \/ \E i \in DOMAIN activity : RenderInstructions(i) \/ CallModel(i) \/ InvokeTool(i)

Spec == Init /\ [][Next]_vars

-----------------------------------------------------------------------------
(* Properties.                                                              *)

\* Whatever the order in which activities finish, are retried or are replayed, a
\* model request holds one result per call, in the order of the calls, and the
\* session a run leaves answers every call it holds (apply_tools, execute_tools;
\* session.rs 515-518).  The repair request may follow an unanswered call.
CallsAnswered ==
  /\ LET d == Cached.driver
     IN d.effect = "call_model" /\ d.loop_state.kind # "repairing" =>
          Ids(d.conversation, "call") = Ids(d.conversation, "result")
  /\ Range(Ids(session, "called")) = Range(Ids(session, "returned"))
  /\ Len(Ids(session, "called")) = Len(Ids(session, "returned"))

Turns ==
  Len(SelectSeq(history, LAMBDA ev :
        ev.kind = "activity" /\ activity[ev.id].kind = "call_model" /\ ev.ok))

\* The caller is told what happened: the stream ends with its only terminal event,
\* RunCompleted exactly for a successful run, whose usage counts every model turn;
\* the slot holds an agent's failure and nothing else; and an interrupt is reported
\* only if there was one (outcome_to_run_result, into_streaming).
OutcomeTruthful ==
  phase = "returned" /\ result # "load_error" =>
    LET terminal == {i \in DOMAIN events : IsTerminal(events[i])}
    IN /\ terminal = {Len(events)}
       /\ result = "ok" <=> Last(events).kind = "completed"
       /\ result = "ok" => Last(events).val = outcome.usage /\ outcome.usage = Turns
       /\ slot <=> result = "agent"
       /\ result = "cancelled" => requested
       /\ result = "timed_out" => deadline

\* An interrupt the server has recorded ends the run at the next workflow task,
\* whatever its tools and models still do and however often its worker crashed: no
\* task that has seen one leaves the workflow open (workflow.rs drive).
InterruptHonoured ==
  \A i \in DOMAIN history :
    history[i].kind \in {"timer", "cancel"} /\ tasks # <<>> /\ i <= Last(tasks) =>
      outcome # Open

\* What a durable run reports is what happened to it, interrupts included.
DurableVerdict == OutcomeTruthful /\ InterruptHonoured
=============================================================================
