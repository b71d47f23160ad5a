----------------------------- MODULE LoopState -------------------------------
(***************************************************************************)
(* The pure state machine of the agent loop (core/src/loop_state.rs,         *)
(* transition), shared by the in-process driver (AgentLoop) and the durable  *)
(* one (DurableRun).  A plan is what the machine knows of its agent: whether *)
(* it has a structured output, tools and handoffs.                           *)
(***************************************************************************)
EXTENDS Integers, Sequences, FiniteSets

CONSTANT MaxTurns            \* RunConfig.max_turns

ASSUME MaxTurnsAssumption == MaxTurns \in Nat

None == "none"
Ev(kind, val) == [kind |-> kind, val |-> val]
IsTerminal(ev) == ev.kind \in {"completed", "failed"}
Item(kind, id) == [kind |-> kind, id |-> id]
State(kind, turn, usage, error) ==
  [kind |-> kind, turn |-> turn, usage |-> usage, error |-> error]
Start == [kind |-> "start", text |-> "none", calls |-> <<>>, usage |-> 0]

ToolResults(calls) == [kind |-> "results", text |-> "none", calls |-> calls, usage |-> 0]

-----------------------------------------------------------------------------
(* The elements of s at the given positions, in their order; the values of   *)
(* the events and the ids of the items of one kind.                          *)

Grown(kept, s, positions, n) == IF n \in positions THEN Append(kept, s[n]) ELSE kept

Kept(s, positions) ==
  LET upto[n \in 0 .. Len(s)] ==
        IF n = 0 THEN <<>> ELSE Grown(upto[n - 1], s, positions, n)
  IN  upto

ElementsAt(s, positions) == Kept(s, positions)[Len(s)]

Fields(s, kind, field) ==
  ElementsAt([i \in DOMAIN s |-> s[i][field]], {i \in DOMAIN s : s[i].kind = kind})

Vals(evs, kind) == Fields(evs, kind, "val")
Ids(items, kind) == Fields(items, kind, "id")

-----------------------------------------------------------------------------
(* The state machine.                                                       *)

Outcome(state, events, act) == [state |-> state, events |-> events, action |-> act]

Fails(s, error, events) ==
  Outcome(State("failed", s.turn, s.usage, error),
          Append(events, Ev("failed", error)), "terminate")

Completes(s, usage, events) ==
  Outcome(State("done", s.turn, usage, None),
          Append(events, Ev("completed", usage)), "terminate")

AsksModel(kind, turn, usage, events) ==
  Outcome(State(kind, turn, usage, None), events, "call_model")

MessageOutput(in) == IF in.text = "none" THEN <<>> ELSE <<Ev("message", 0)>>

\* ToolCallItem, told apart by whether it names a transfer tool.
IsTransfer(plan, call) == plan.handoffs /\ call.name = "transfer"
CallEvents(plan, calls) ==
  [i \in 1 .. Len(calls) |-> Ev(IF IsTransfer(plan, calls[i]) THEN "transfer" ELSE "call",
                                calls[i].id)]

\* CallingModel with the first input.
OnStart(plan, s) ==
  AsksModel(IF plan.output /\ ~plan.tools THEN "finalizing" ELSE "calling",
            s.turn, s.usage, <<Ev("turn_started", s.turn)>>)

\* CallingModel with a response that holds tool calls: a handoff takes
\* precedence and announces only the transfer calls.
OnToolCalls(plan, s, in) ==
  LET total == s.usage + in.usage
      transfers == {i \in DOMAIN in.calls : IsTransfer(plan, in.calls[i])}
  IN IF transfers # {}
       THEN Outcome(State("handoff", s.turn, total, None),
                    MessageOutput(in) \o CallEvents(plan, ElementsAt(in.calls, transfers)), "handoff")
       ELSE Outcome(State("executing", s.turn, total, None),
                    MessageOutput(in) \o CallEvents(plan, in.calls), "execute_tools")

\* CallingModel with a plain answer: the run is over, or a structured output
\* asks for one constrained finalizing turn.
OnAnswer(plan, s, in) ==
  LET total == s.usage + in.usage
  IN IF plan.output
       THEN AsksModel("finalizing", s.turn + 1, total,
                      Append(MessageOutput(in), Ev("turn_started", s.turn + 1)))
       ELSE Completes(s, total, MessageOutput(in))

OnToolResults(s, in) ==
  LET outputs == [i \in 1 .. Len(in.calls) |-> Ev("output", in.calls[i].id)]
  IN IF s.turn + 1 >= MaxTurns
       THEN Fails(s, "max_turns", outputs)
       ELSE AsksModel("calling", s.turn + 1, s.usage,
                      Append(outputs, Ev("turn_started", s.turn + 1)))

\* validate_terminal: the last assistant text must parse and match the schema.
Validates(in) == in.calls = <<>> /\ in.text = "valid"

OnFinalAnswer(s, in) ==
  LET total == s.usage + in.usage
  IN IF Validates(in)
       THEN Completes(s, total, MessageOutput(in))
       ELSE AsksModel("repairing", s.turn, total,
                      Append(MessageOutput(in), Ev("repair_started", 1)))

OnRepair(s, in) ==
  IF Validates(in)
    THEN Completes(s, s.usage + in.usage, MessageOutput(in))
    ELSE Fails(s, "structured_output",
               Append(MessageOutput(in), Ev("structured_output_failed", 0)))

Transition(plan, s, in) ==
  CASE s.kind = "calling" /\ s.turn >= MaxTurns -> Fails(s, "max_turns", <<>>)
    [] s.kind = "calling" /\ s.turn < MaxTurns /\ in.kind = "start" -> OnStart(plan, s)
    [] s.kind = "calling" /\ s.turn < MaxTurns /\ in.kind = "response" ->
         IF in.calls # <<>> THEN OnToolCalls(plan, s, in) ELSE OnAnswer(plan, s, in)
    [] s.kind = "executing" /\ in.kind = "results" -> OnToolResults(s, in)
    [] s.kind = "finalizing" /\ in.kind = "response" -> OnFinalAnswer(s, in)
    [] s.kind = "repairing" /\ in.kind = "response" -> OnRepair(s, in)
    [] OTHER -> Fails(s, "invalid_transition", <<>>)
=============================================================================
