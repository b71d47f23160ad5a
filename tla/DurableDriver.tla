---------------------------- MODULE DurableDriver ----------------------------
(***************************************************************************)
(* The durable agent loop as its workflow runs it                            *)
(* (runtime-temporal/src/driver.rs and workflow.rs): DurableDriver asks for  *)
(* effects and is fed their results, and the workflow turns each effect into *)
(* activities.  Everything here is a function of the events Temporal         *)
(* delivers, which is what makes a replay possible.                          *)
(***************************************************************************)
EXTENDS SessionRecorder, SequencesExt

CONSTANT ToolLimit      \* DriverConfig.parallel_tool_call_limit; 0 is None

ASSUME ToolLimitAssumption == ToolLimit \in Nat

-----------------------------------------------------------------------------
(* DurableDriver.                                                           *)

NewDriver ==
  [phase |-> "instructions", status |-> None, loop_state |-> State("calling", 0, 0, None),
   input |-> Start, conversation |-> <<>>, events |-> <<>>, usage |-> 0, effect |-> None]

Finish(d, status) == [d EXCEPT !.phase = "done", !.status = status, !.effect = "finished"]

\* Failed carries no usage.
StateUsage(d, s) == IF s.kind = "failed" THEN d.usage ELSE s.usage

\* What next_effect takes over from the outcome o of a transition.
Takes(d, o) ==
  [d EXCEPT !.events = @ \o o.events, !.usage = StateUsage(d, o.state),
            !.loop_state = o.state, !.effect = o.action]

Follows(d, o) ==
  IF o.action = "terminate"
  THEN Finish(Takes(d, o), IF o.state.kind = "done" THEN "completed" ELSE "agent_failed")
  ELSE Takes(d, o)

NextEffect(plan, d) ==
  CASE d.phase = "driving" -> Follows(d, Transition(plan, d.loop_state, d.input))
    [] d.phase = "done" -> [d EXCEPT !.effect = "finished"]
    [] OTHER -> [d EXCEPT !.effect = "render_instructions"]

ApplyInstructions(d) ==
  [d EXCEPT !.events = Append(@, Ev("run_started", 0)), !.input = Start, !.phase = "driving"]

\* The provider's call ids are fresh.
ApplyModel(d, reply) ==
  LET made == Len(Ids(d.conversation, "call"))
      calls == [i \in 1 .. Len(reply.calls) |-> [id |-> made + i, name |-> reply.calls[i]]]
  IN [d EXCEPT !.conversation = @ \o [i \in 1 .. Len(calls) |-> Item("call", calls[i].id)],
               !.input = [kind |-> "response", text |-> reply.text, calls |-> calls,
                          usage |-> 1]]

ApplyModelFailure(d) == Finish([d EXCEPT !.events = Append(@, Ev("failed", "model"))], "agent_failed")

\* Outcomes are fed back in the order given.
ApplyTools(d, outcomes) ==
  [d EXCEPT !.conversation = @ \o [i \in 1 .. Len(outcomes) |-> Item("result", outcomes[i].id)],
            !.input = ToolResults(outcomes)]

\* A finished run is not interrupted in retrospect.
Interrupt(d, kind) == IF d.phase = "done" THEN d ELSE [d EXCEPT !.phase = "done", !.status = kind]

-----------------------------------------------------------------------------
(* The workflow: what its future holds between two activations.              *)

NewRun ==
  [driver |-> NewDriver,
   commands |-> <<>>,       \* activities it has asked for, in order
   awaiting |-> <<>>,       \* those it awaits now
   results |-> <<>>,        \* and their results, as delivered
   rest |-> <<>>,           \* tool calls of the turn in later chunks
   outcomes |-> <<>>,       \* outcomes of earlier chunks
   timer |-> FALSE, cancelled |-> FALSE]

Command(kind, call) == [kind |-> kind, call |-> call]

Requests(w, cmds) ==
  [w EXCEPT !.commands = @ \o cmds, !.results = <<>>,
            !.awaiting = [i \in 1 .. Len(cmds) |-> Len(w.commands) + i]]

\* execute_tools starts a turn's calls chunk by chunk.
StartChunk(w, calls) ==
  LET n == IF ToolLimit = 0 \/ ToolLimit > Len(calls) THEN Len(calls) ELSE ToolLimit
  IN [Requests(w, [i \in 1 .. n |-> Command("invoke_tool", calls[i].id)])
        EXCEPT !.rest = SubSeq(calls, n + 1, Len(calls))]

\* The activities of the driver's effect.
Awaits(w) ==
  CASE w.driver.effect \in {"render_instructions", "call_model"} ->
         Requests(w, <<Command(w.driver.effect, 0)>>)
    [] w.driver.effect = "execute_tools" -> StartChunk(w, w.driver.input.calls)
    [] OTHER -> [w EXCEPT !.awaiting = <<>>]

\* run_effects: the next effect, until it has to be awaited.
Perform(plan, w) == Awaits([w EXCEPT !.driver = NextEffect(plan, @)])

Kind(w) == w.commands[w.awaiting[1]].kind

\* A mutant: the outcomes of a chunk are collected as they come in.
ChunkOutcomes_AsCompleted(w) ==
  [i \in 1 .. Len(w.results) |-> [id |-> w.commands[w.results[i].id].call]]
\* join_all keeps the order of the calls; a failed activity is a failed call.
ChunkOutcomes(w) ==
  [i \in 1 .. Len(w.awaiting) |-> [id |-> w.commands[w.awaiting[i]].call]]

AllOutcomes(w) == w.outcomes \o ChunkOutcomes(w)

\* The driver is fed the result of what was awaited.
Fed(w) ==
  CASE Kind(w) = "invoke_tool" -> ApplyTools(w.driver, AllOutcomes(w))
    [] Kind(w) # "invoke_tool" /\ ~w.results[1].ok -> ApplyModelFailure(w.driver)
    [] Kind(w) = "call_model" /\ w.results[1].ok -> ApplyModel(w.driver, w.results[1].reply)
    [] OTHER -> ApplyInstructions(w.driver)

\* What was awaited is there: start the next chunk, or feed the driver and go on.
Resume(plan, w) ==
  IF Kind(w) = "invoke_tool" /\ w.rest # <<>>
  THEN StartChunk([w EXCEPT !.outcomes = AllOutcomes(w)], w.rest)
  ELSE Perform(plan, [w EXCEPT !.outcomes = <<>>, !.driver = Fed(w)])

\* One history event; a late answer to what is no longer awaited is ignored.
Deliver(w, ev) ==
  CASE ev.kind = "timer" -> [w EXCEPT !.timer = TRUE]
    [] ev.kind = "cancel" -> [w EXCEPT !.cancelled = TRUE]
    [] OTHER -> IF Contains(w.awaiting, ev.id) THEN [w EXCEPT !.results = Append(@, ev)] ELSE w

\* A mutant: the effect loop is not raced against cancellation.
Race_EffectsOnly(w) ==
  IF w.timer THEN [w EXCEPT !.driver = Interrupt(@, "timed_out")] ELSE w
\* drive's select: the effects first, then the deadline, then cancellation.
Race(w) ==
  IF w.timer THEN [w EXCEPT !.driver = Interrupt(@, "timed_out")]
  ELSE IF w.cancelled THEN [w EXCEPT !.driver = Interrupt(@, "cancelled")]
  ELSE w

Advance(plan, w) ==
  CASE w.commands = <<>> -> Perform(plan, w)
    [] w.commands # <<>> /\ Len(w.results) = Len(w.awaiting) -> Resume(plan, w)
    [] OTHER -> w

\* An activation delivers the new events of one workflow task.
Activate(plan, w, evs) == Race(Advance(plan, FoldLeft(Deliver, w, evs)))
=============================================================================
