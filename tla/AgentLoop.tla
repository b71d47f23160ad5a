----------------------------- MODULE AgentLoop ------------------------------
(***************************************************************************)
(* The in-process agent loop: the driver of core/src/agent.rs               *)
(* (LlmAgent::run, run_tools_concurrent) around the state machine LoopState: *)
(* hooks, guardrails, model calls, concurrent tool calls and handoffs along *)
(* a chain of agents.                                                       *)
(*                                                                          *)
(* Texts, arguments, spans, injected system messages and token deltas are   *)
(* left out.  Of the conversation only the tool traffic is kept, because    *)
(* only its pairing is constrained by the providers; the transcript that a  *)
(* handoff threads to its target drops all of it.                           *)
(***************************************************************************)
EXTENDS LoopState

CONSTANTS
  MaxAgentDepth,             \* RunConfig.max_agent_depth
  ToolLimit,                 \* RunConfig.parallel_tool_call_limit; 0 is None
  Profiles,                  \* kinds of agents: [output, tools, handoffs : BOOLEAN]
  Replies,                   \* what a model may answer: [text, calls]
  ReuseIds                   \* the provider numbers calls afresh on every turn

ASSUME AgentLoopAssumption ==
  /\ MaxAgentDepth \in Nat /\ ToolLimit \in Nat
  /\ Profiles \subseteq [output : BOOLEAN, tools : BOOLEAN, handoffs : BOOLEAN]
  /\ Replies \subseteq [text : {"none", "prose", "valid"},
                        calls : Seq({"tool", "transfer"})]
  /\ ReuseIds \in BOOLEAN

VARIABLES
  agent,          \* profile of the agent whose loop is running
  pc,             \* where its driver is
  loop_state,     \* LoopState
  tx_input,       \* TransitionInput
  conversation,   \* tool calls and results in the conversation
  queue,          \* events of the transition not yet yielded
  action,         \* NextAction of the transition
  outcome,        \* progress of each tool call of the turn
  failure,        \* FailureSlot, shared along the handoff chain
  parents,        \* of each agent that handed off, the usage up to the handoff: its
                  \* parent_usage and those of the agents above it
  stream,         \* events the run has yielded
  issued,         \* call ids the provider has handed out
  spent,          \* tokens all model calls of the run reported
  model_calls     \* model calls of the running agent

loopVars == <<agent, pc, loop_state, tx_input, conversation, queue, action, outcome,
              failure, parents, stream, issued, spent, model_calls>>

-----------------------------------------------------------------------------
(* The driver.                                                              *)

\* What the parents together add to a total that passes through them.
ParentUsage == IF parents = <<>> THEN 0 ELSE parents[Len(parents)]

\* A parent that forwards its target's totals as they are.
Forwarded_Unfolded(ev) == ev

\* What the parents do to the events of the agent they handed off to.
Forwarded(ev) ==
  IF ev.kind = "completed" THEN Ev("completed", ev.val + ParentUsage) ELSE ev

Yield(ev) ==
  stream' = IF ev.kind = "run_started" /\ parents # <<>>
              THEN stream ELSE Append(stream, Forwarded(ev))

\* The running agent's stream ends: at the root the run is over, below it the
\* parent that forwarded it goes on.
Return == IF parents = <<>> THEN "ended" ELSE "on_subagent_stop"

\* failure.set, then RunFailed, then return.
FailsDirectly(error) ==
  /\ failure' = error /\ Yield(Ev("failed", error)) /\ pc' = Return
  /\ queue' = <<>>

Init ==
  /\ agent \in Profiles /\ pc = "run_start"
  /\ loop_state = State("calling", 0, 0, None) /\ tx_input = Start
  /\ conversation = <<>> /\ queue = <<>> /\ action = "terminate" /\ outcome = <<>>
  /\ failure = None /\ parents = <<>> /\ stream = <<>>
  /\ issued = 0 /\ spent = 0 /\ model_calls = 0

RunStarted ==
  /\ pc = "run_start" /\ pc' = "check_names" /\ Yield(Ev("run_started", 0))
  /\ UNCHANGED <<agent, loop_state, tx_input, conversation, queue, action, outcome,
                 failure, parents, issued, spent, model_calls>>

\* Two transfer tools of one name, or one named like a tool, fail the run.
ChecksNames ==
  /\ pc = "check_names"
  /\ \/ /\ pc' = "on_run_start" /\ UNCHANGED <<queue, failure, stream>>
     \/ agent.handoffs /\ FailsDirectly("other")
  /\ UNCHANGED <<agent, loop_state, tx_input, conversation, action, outcome, parents,
                 issued, spent, model_calls>>

OnRunStart ==
  /\ pc = "on_run_start"
  /\ \/ /\ pc' = "input_guardrail" /\ UNCHANGED <<queue, failure, stream>>
     \/ FailsDirectly("hook_denied")
  /\ UNCHANGED <<agent, loop_state, tx_input, conversation, action, outcome, parents,
                 issued, spent, model_calls>>

InputGuardrail ==
  /\ pc = "input_guardrail"
  /\ \/ /\ pc' = "transition" /\ UNCHANGED stream
     \/ /\ pc' = "tripped" /\ Yield(Ev("guardrail", 0))
  /\ UNCHANGED <<agent, loop_state, tx_input, conversation, queue, action, outcome,
                 failure, parents, issued, spent, model_calls>>

InputTripped ==
  /\ pc = "tripped" /\ FailsDirectly("guardrail")
  /\ UNCHANGED <<agent, loop_state, tx_input, conversation, action, outcome, parents,
                 issued, spent, model_calls>>

Transitions ==
  /\ pc = "transition"
  /\ LET o == Transition(agent, loop_state, tx_input)
     IN /\ loop_state' = o.state /\ queue' = o.events /\ action' = o.action
        /\ pc' = IF o.state.kind = "done" THEN "output_guardrail" ELSE "emit"
  /\ UNCHANGED <<agent, tx_input, conversation, outcome, failure, parents, stream,
                 issued, spent, model_calls>>

\* A tripwire whose events come on top of the transition's.
OutputGuardrail_Appends ==
  /\ pc = "output_guardrail" /\ pc' = "emit"
  /\ \/ UNCHANGED <<queue, failure>>
     \/ /\ failure' = "guardrail"
        /\ queue' = queue \o <<Ev("guardrail", 0), Ev("failed", "guardrail")>>
  /\ UNCHANGED <<agent, loop_state, tx_input, conversation, action, outcome, parents,
                 stream, issued, spent, model_calls>>

\* A tripwire replaces the transition's events; the state stays Done.
OutputGuardrail ==
  /\ pc = "output_guardrail" /\ pc' = "emit"
  /\ \/ UNCHANGED <<queue, failure>>
     \/ /\ failure' = "guardrail"
        /\ queue' = <<Ev("guardrail", 0), Ev("failed", "guardrail")>>
  /\ UNCHANGED <<agent, loop_state, tx_input, conversation, action, outcome, parents,
                 stream, issued, spent, model_calls>>

\* One yield of the event loop; a TurnStarted first waits for its hook.
Emit ==
  /\ pc = "emit" /\ queue # <<>>
  /\ IF Head(queue).kind = "turn_started"
       THEN pc' = "on_turn_start" /\ UNCHANGED <<queue, stream>>
       ELSE Yield(Head(queue)) /\ queue' = Tail(queue) /\ UNCHANGED pc
  /\ UNCHANGED <<agent, loop_state, tx_input, conversation, action, outcome, failure,
                 parents, issued, spent, model_calls>>

OnTurnStart ==
  /\ pc = "on_turn_start"
  /\ \/ /\ pc' = "emit" /\ Yield(Head(queue)) /\ queue' = Tail(queue)
        /\ UNCHANGED failure
     \/ FailsDirectly("hook_denied")
  /\ UNCHANGED <<agent, loop_state, tx_input, conversation, action, outcome, parents,
                 issued, spent, model_calls>>

\* The events are out: act on NextAction.
Acts ==
  /\ pc = "emit" /\ queue = <<>>
  /\ CASE action = "call_model" ->
            /\ pc' = "model" /\ model_calls' = model_calls + 1 /\ UNCHANGED outcome
       [] action = "execute_tools" ->
            /\ pc' = "tools" /\ UNCHANGED model_calls
            /\ outcome' = [i \in 1 .. Len(tx_input.calls) |-> "queued"]
       [] action = "terminate" ->
            pc' = "on_run_complete" /\ UNCHANGED <<model_calls, outcome>>
       [] action = "handoff" ->
            pc' = "handoff" /\ UNCHANGED <<model_calls, outcome>>
  /\ UNCHANGED <<agent, loop_state, tx_input, conversation, queue, action, failure,
                 parents, stream, issued, spent>>

-----------------------------------------------------------------------------
(* The model call.                                                          *)

\* ModelTurnAccumulator: the calls of a turn come out ordered by call id.
ModelResponds(reply) ==
  LET n == Len(reply.calls)
      calls == [i \in 1 .. n |-> [id |-> (IF ReuseIds THEN 0 ELSE issued) + i,
                                  name |-> reply.calls[i]]]
  IN /\ pc = "model" /\ pc' = "transition"
     /\ tx_input' = [kind |-> "response", text |-> reply.text, calls |-> calls,
                     usage |-> 1]
     /\ conversation' = conversation \o [i \in 1 .. n |-> Item("call", calls[i].id)]
     /\ issued' = issued + n /\ spent' = spent + 1
     /\ UNCHANGED <<agent, loop_state, queue, action, outcome, failure, parents,
                    stream, model_calls>>

\* invoke fails, its stream yields an error, or the tool arguments are not JSON.
ModelFails ==
  /\ pc = "model"
  /\ \E error \in {"model", "other"} : FailsDirectly(error)
  /\ UNCHANGED <<agent, loop_state, tx_input, conversation, action, outcome, parents,
                 issued, spent, model_calls>>

-----------------------------------------------------------------------------
(* Tool calls.  With a limit they go through an ordered buffer: a finished   *)
(* call keeps its place until every earlier call has finished.               *)

Finished(i) == outcome[i] \in {"ok", "error", "denied"}

InBuffer(i) ==
  \/ ToolLimit = 0
  \/ \E front \in 1 .. i : /\ i < front + ToolLimit
                           /\ \A j \in 1 .. front - 1 : Finished(j)

\* PreToolUse and the permission decision: a denied call is not invoked.
ToolStarts(i) ==
  /\ pc = "tools" /\ i \in DOMAIN outcome /\ outcome[i] = "queued" /\ InBuffer(i)
  /\ \/ outcome' = [outcome EXCEPT ![i] = "running"] /\ UNCHANGED queue
     \/ outcome' = [outcome EXCEPT ![i] = "error"] /\ UNCHANGED queue
     \/ /\ outcome' = [outcome EXCEPT ![i] = "denied"]
        /\ queue' = Append(queue, Ev("denied", tx_input.calls[i].id))
  /\ UNCHANGED <<agent, pc, loop_state, tx_input, conversation, action, failure,
                 parents, stream, issued, spent, model_calls>>

\* The invocation (an unknown tool is an error) and PostToolUse.
ToolFinishes(i) ==
  /\ pc = "tools" /\ i \in DOMAIN outcome /\ outcome[i] = "running"
  /\ \E r \in {"ok", "error"} : outcome' = [outcome EXCEPT ![i] = r]
  /\ UNCHANGED <<agent, pc, loop_state, tx_input, conversation, queue, action, failure,
                 parents, stream, issued, spent, model_calls>>

ToolsFinish ==
  /\ pc = "tools" /\ \A i \in DOMAIN outcome : Finished(i)
  /\ pc' = "emit_denied" /\ outcome' = <<>>
  /\ UNCHANGED <<agent, loop_state, tx_input, conversation, queue, action, failure,
                 parents, stream, issued, spent, model_calls>>

EmitDenied ==
  /\ pc = "emit_denied" /\ queue # <<>>
  /\ Yield(Head(queue)) /\ queue' = Tail(queue)
  /\ UNCHANGED <<agent, pc, loop_state, tx_input, conversation, action, outcome,
                 failure, parents, issued, spent, model_calls>>

\* A driver that reports the outcomes without entering them in the conversation.
ToolsAnswer_NoPush ==
  /\ pc = "emit_denied" /\ queue = <<>> /\ pc' = "transition"
  /\ tx_input' = ToolResults(tx_input.calls)
  /\ UNCHANGED <<agent, loop_state, conversation, queue, action, outcome, failure,
                 parents, stream, issued, spent, model_calls>>

ToolsAnswer ==
  /\ pc = "emit_denied" /\ queue = <<>> /\ pc' = "transition"
  /\ conversation' = conversation \o
       [i \in 1 .. Len(tx_input.calls) |-> Item("result", tx_input.calls[i].id)]
  /\ tx_input' = ToolResults(tx_input.calls)
  /\ UNCHANGED <<agent, loop_state, queue, action, outcome, failure, parents, stream,
                 issued, spent, model_calls>>

-----------------------------------------------------------------------------
(* Termination and handoff.                                                 *)

\* The slot is filled after the hook, hence after RunFailed was yielded.
OnRunComplete ==
  /\ pc = "on_run_complete" /\ pc' = Return
  /\ failure' = IF loop_state.kind = "failed" THEN loop_state.error ELSE failure
  /\ UNCHANGED <<agent, loop_state, tx_input, conversation, queue, action, outcome,
                 parents, stream, issued, spent, model_calls>>

\* A depth check that lets one agent too many in.
HandoffDepth_OffByOne ==
  /\ pc = "handoff"
  /\ IF Len(parents) > MaxAgentDepth
       THEN FailsDirectly("max_agent_depth")
       ELSE pc' = "on_handoff" /\ UNCHANGED <<queue, failure, stream>>
  /\ UNCHANGED <<agent, loop_state, tx_input, conversation, action, outcome, parents,
                 issued, spent, model_calls>>

\* The transfer tools are built from the handoffs, so the target is known.
HandoffDepth ==
  /\ pc = "handoff"
  /\ IF Len(parents) + 1 > MaxAgentDepth
       THEN FailsDirectly("max_agent_depth")
       ELSE pc' = "on_handoff" /\ UNCHANGED <<queue, failure, stream>>
  /\ UNCHANGED <<agent, loop_state, tx_input, conversation, action, outcome, parents,
                 issued, spent, model_calls>>

OnHandoff ==
  /\ pc = "on_handoff"
  /\ \/ /\ pc' = "emit_handoff" /\ UNCHANGED <<failure, stream>>
        /\ queue' = <<Ev("handoff", 0), Ev("agent_updated", 0)>>
     \/ FailsDirectly("hook_denied")
  /\ UNCHANGED <<agent, loop_state, tx_input, conversation, action, outcome, parents,
                 issued, spent, model_calls>>

EmitHandoff ==
  /\ pc = "emit_handoff" /\ queue # <<>>
  /\ Yield(Head(queue)) /\ queue' = Tail(queue)
  /\ pc' = IF Tail(queue) = <<>> THEN "target_run" ELSE pc
  /\ UNCHANGED <<agent, loop_state, tx_input, conversation, action, outcome, failure,
                 parents, issued, spent, model_calls>>

\* The target's loop starts on the threaded transcript, one level deeper.
TargetRuns ==
  /\ pc = "target_run"
  /\ \/ /\ agent' \in Profiles /\ pc' = "run_start"
        /\ parents' = Append(parents, ParentUsage + loop_state.usage)
        /\ loop_state' = State("calling", 0, 0, None) /\ tx_input' = Start
        /\ conversation' = <<>> /\ model_calls' = 0
        /\ UNCHANGED <<queue, failure, stream>>
     \/ /\ FailsDirectly("other")
        /\ UNCHANGED <<agent, parents, loop_state, tx_input, conversation, model_calls>>
  /\ UNCHANGED <<action, outcome, issued, spent>>

\* The target's stream has ended; the parent fires the hook and ends its own.
OnSubagentStop ==
  /\ pc = "on_subagent_stop"
  /\ parents' = SubSeq(parents, 1, Len(parents) - 1)
  /\ pc' = IF Len(parents) = 1 THEN "ended" ELSE pc
  /\ UNCHANGED <<agent, loop_state, tx_input, conversation, queue, action, outcome,
                 failure, stream, issued, spent, model_calls>>

-----------------------------------------------------------------------------
(* Steps the driver takes on its own, and steps that end an await.           *)

DriverStep ==
  \/ RunStarted \/ ChecksNames \/ InputTripped \/ Transitions \/ Emit \/ Acts
  \/ ToolsFinish \/ EmitDenied \/ ToolsAnswer \/ HandoffDepth \/ EmitHandoff

Awaiting == pc \in {"on_run_start", "input_guardrail", "output_guardrail",
                    "on_turn_start", "model", "tools", "on_run_complete",
                    "on_handoff", "target_run", "on_subagent_stop"}

AwaitEnds ==
  \/ OnRunStart \/ InputGuardrail \/ OutputGuardrail \/ OnTurnStart
  \/ (\E reply \in Replies : ModelResponds(reply)) \/ ModelFails
  \/ (\E i \in DOMAIN outcome : ToolStarts(i) \/ ToolFinishes(i))
  \/ OnRunComplete \/ OnHandoff \/ TargetRuns \/ OnSubagentStop

LoopNext == DriverStep \/ AwaitEnds

Spec == Init /\ [][LoopNext]_loopVars /\ WF_loopVars(LoopNext)

-----------------------------------------------------------------------------
(* Properties.                                                              *)

SawTerminal == \E i \in DOMAIN stream : IsTerminal(stream[i])

StreamStatus ==
  CASE pc = "ended" -> "ended"
    [] pc # "ended" /\ SawTerminal ->
         IF IsTerminal(stream[Len(stream)]) THEN stream[Len(stream)].kind ELSE "late"
    [] pc # "ended" /\ ~SawTerminal -> IF stream = <<>> THEN "fresh" ELSE "streaming"

Agent == INSTANCE AgentContract WITH status <- StreamStatus, failure <- failure # None

\* An LlmAgent, however long its handoff chain, keeps the contract every consumer
\* of an agent stream relies on: RunStarted first, one terminal event and nothing
\* after it, an error in the slot by the end exactly if the run failed, and an end
\* if its hooks, models and tools return (agent.rs: every path returns right after
\* RunFailed or through Terminate).
ImplementsAgent == Agent!Spec

\* RunCompleted reports what every model call of every agent of the chain cost
\* (loop_state.rs accumulate, agent.rs Handoff arm).
UsageConserved ==
  \A i \in DOMAIN stream : stream[i].kind = "completed" => stream[i].val = spent

\* A model request holds a result for every tool call, in the order of the
\* calls; only the repair request, which may follow a tool call made on the
\* finalizing turn, is exempt (agent.rs ExecuteTools arm).
CallsAnsweredBeforeModel ==
  pc = "model" /\ loop_state.kind # "repairing" =>
    Ids(conversation, "call") = Ids(conversation, "result")

\* By the time the terminal event is out, the consumer has seen an output for
\* every tool call it was shown, in order; only transfer calls have none
\* (loop_state.rs: a handoff announces only its transfers, max_turns reports
\* the outputs before it fails).
OutputsMatchCalls == SawTerminal => Vals(stream, "call") = Vals(stream, "output")

\* Calls and results stay paired, in the conversation the model is sent and in the
\* stream the consumer sees (agent.rs run_tools_concurrent).
CallsPaired == CallsAnsweredBeforeModel /\ OutputsMatchCalls

\* One agent calls its model at most max_turns times, plus one finalizing and one
\* repair turn, and a chain has at most max_agent_depth handoffs.
WorkBounded ==
  model_calls <= MaxTurns + 2 /\ Len(parents) <= MaxAgentDepth
=============================================================================
