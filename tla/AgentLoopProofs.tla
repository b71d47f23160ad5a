--------------------------- MODULE AgentLoopProofs ---------------------------
(***************************************************************************)
(* The agent loop and the runner around it, for every turn limit, depth,     *)
(* tool limit and set of replies: what a run costs, how much it does, and    *)
(* that a stream of LlmAgent keeps the contract of an agent.                 *)
(***************************************************************************)
EXTENDS TokioRunner, LoopStateProofs

-----------------------------------------------------------------------------
(* The inductive invariant of the loop.                                      *)

Beginning == {"run_start", "check_names", "on_run_start", "input_guardrail", "tripped"}
Emitting == {"output_guardrail", "emit", "on_turn_start"}
Tooling == {"tools", "emit_denied"}
Handing == {"handoff", "on_handoff", "emit_handoff", "target_run"}
Returned == {"on_subagent_stop", "ended"}

LoopTypes ==
  /\ pc \in Beginning \union Emitting \union Tooling \union Handing \union Returned
            \union {"transition", "model", "on_run_complete"}
  /\ loop_state.turn \in Nat /\ loop_state.usage \in Nat
  /\ tx_input.usage \in Nat /\ IsSeq(tx_input.calls)
  /\ parents \in Seq(Nat) /\ spent \in Nat /\ model_calls \in Nat
  /\ IsSeq(queue) /\ IsSeq(stream)

\* What the running agent and its parents have spent.
Total == ParentUsage + loop_state.usage

\* No terminal event is out and the slot is empty.
Running == NoTerminal(stream) /\ failure = None

\* A terminal event that is about to be yielded, or has been, and the slot that goes with
\* it: a completed run reports everything that was spent; a failed one has its error in
\* the slot or in the state that will fill it.
Verdict(ev, added) ==
  \/ /\ ev.kind = "completed" /\ loop_state.kind = "done" /\ failure = None
     /\ ev.val \in Nat /\ ev.val + added = spent
  \/ /\ ev.kind = "failed"
     /\ \/ loop_state.kind = "failed" /\ loop_state.error # None
        \/ loop_state.kind = "done" /\ failure # None

AtBeginning ==
  /\ Running /\ queue = <<>> /\ loop_state = State("calling", 0, 0, None) /\ tx_input = Start
  /\ model_calls = 0 /\ spent = ParentUsage

AtTransition ==
  /\ Running /\ queue = <<>> /\ Expects(loop_state, tx_input)
  /\ Made(loop_state, tx_input, model_calls) /\ spent = Total + tx_input.usage

AtEmit ==
  /\ \/ /\ action # "terminate" /\ pc # "output_guardrail" /\ Running /\ NoTerminal(queue)
        /\ spent = Total /\ Asks([state |-> loop_state, action |-> action], model_calls)
     \/ /\ action = "terminate" /\ queue # <<>> /\ NoTerminal(stream) /\ OnlyLast(queue)
        /\ Verdict(queue[Len(queue)], ParentUsage)
     \/ /\ action = "terminate" /\ queue = <<>> /\ pc = "emit" /\ OnlyLast(stream)
        /\ Verdict(stream[Len(stream)], 0)
  /\ loop_state.kind = "failed" => failure = None
  /\ pc = "output_guardrail" => failure = None /\ loop_state.kind = "done"
  /\ pc = "on_turn_start" => queue # <<>> /\ Head(queue).kind = "turn_started"

AtModel ==
  /\ Running /\ queue = <<>> /\ spent = Total
  /\ loop_state.kind \in {"calling", "finalizing", "repairing"} /\ loop_state.turn <= MaxTurns
  /\ loop_state.kind = "calling" => loop_state.turn < MaxTurns
  /\ model_calls <= loop_state.turn + 1 + Spare(loop_state)

AtTools ==
  /\ Running /\ NoTerminal(queue) /\ spent = Total /\ loop_state.kind = "executing"
  /\ loop_state.turn < MaxTurns /\ model_calls <= loop_state.turn + 1

AtHandoff ==
  /\ Running /\ NoTerminal(queue) /\ spent = Total
  /\ pc # "emit_handoff" => queue = <<>>
  /\ pc # "handoff" => Len(parents) + 1 <= MaxAgentDepth

AtReturn ==
  /\ OnlyLast(stream)
  /\ stream[Len(stream)].kind = "failed" <=> failure # None
  /\ stream[Len(stream)].kind = "completed" => stream[Len(stream)].val = spent
  /\ pc = "on_subagent_stop" => parents # <<>>

LoopInv ==
  /\ LoopTypes
  /\ pc \in Beginning => AtBeginning
  /\ pc = "transition" => AtTransition
  /\ pc \in Emitting => AtEmit
  /\ pc = "model" => AtModel
  /\ pc \in Tooling => AtTools
  /\ pc \in Handing => AtHandoff
  /\ pc = "on_run_complete" => OnlyLast(stream) /\ Verdict(stream[Len(stream)], 0)
  /\ pc = "on_run_complete" /\ loop_state.kind = "failed" => failure = None
  /\ pc \in Returned => AtReturn
  /\ stream = <<>> <=> pc = "run_start" /\ parents = <<>>
  /\ model_calls <= MaxTurns + 2 /\ Len(parents) <= MaxAgentDepth

\* An event that is not terminal goes out.
LEMMA YieldOpen ==
  ASSUME IsSeq(stream), NoTerminal(stream), NEW ev, ~ IsTerminal(ev), Yield(ev)
  PROVE  /\ IsSeq(stream') /\ NoTerminal(stream')
         /\ stream # <<>> \/ ev.kind # "run_started" \/ parents = <<>> => stream' # <<>>
<1>1. Forwarded(ev) = ev
  BY Zenon DEF Forwarded, IsTerminal
<1> QED
  BY <1>1, AppendIsSeq, StaysOpen, Zenon DEF Yield

\* The terminal event goes out, with the parents' share added to a total.
LEMMA YieldTerminal ==
  ASSUME IsSeq(stream), NoTerminal(stream), NEW ev, IsTerminal(ev), Yield(ev)
  PROVE  /\ IsSeq(stream') /\ OnlyLast(stream') /\ stream' # <<>>
         /\ stream'[Len(stream')] = Forwarded(ev) /\ Forwarded(ev).kind = ev.kind
         /\ ev.kind = "completed" => Forwarded(ev).val = ev.val + ParentUsage
<1>1. IsTerminal(Forwarded(ev)) /\ Forwarded(ev).kind = ev.kind
  BY Zenon DEF Forwarded, IsTerminal, Ev
<1>2. stream' = Append(stream, Forwarded(ev))
  BY Zenon DEF Yield, IsTerminal
<1>3. ev.kind = "completed" => Forwarded(ev).val = ev.val + ParentUsage
  BY Zenon DEF Forwarded, Ev
<1> QED
  BY <1>1, <1>2, <1>3, AppendIsSeq, ClosedBy

\* What the parents add is a number.
LEMMA ParentUsageNat == ASSUME LoopTypes PROVE ParentUsage \in Nat
<1>1. parents \in Seq(Nat)
  BY Zenon DEF LoopTypes
<1>2. CASE parents # <<>>
  <2>1. Len(parents) \in Nat \ {0}
    BY <1>1, <1>2
  <2>2. parents[Len(parents)] \in Nat
    BY <1>1, <2>1
  <2> QED
    BY <1>2, <2>2, Zenon DEF ParentUsage
<1> QED
  BY <1>2, Zenon DEF ParentUsage

\* An await that fails: the slot, the terminal event and the end of the stream.
LEMMA FailsStep ==
  ASSUME LoopInv, NoTerminal(stream), NEW error, error # None, FailsDirectly(error),
         UNCHANGED <<loop_state, tx_input, parents, spent, model_calls>>
  PROVE  LoopInv'
<1>1. LoopTypes /\ IsSeq(stream) /\ NoTerminal(stream)
      /\ model_calls <= MaxTurns + 2 /\ Len(parents) <= MaxAgentDepth
  BY Zenon DEF LoopInv, LoopTypes
<1> DEFINE ev == Ev("failed", error)
<1>2. IsTerminal(ev) /\ ev.kind = "failed" /\ Yield(ev)
      /\ failure' = error /\ pc' = Return /\ queue' = <<>>
  BY Zenon DEF IsTerminal, Ev, FailsDirectly
<1> HIDE DEF ev
<1>3. /\ IsSeq(stream') /\ OnlyLast(stream') /\ stream' # <<>>
      /\ stream'[Len(stream')].kind = "failed"
  BY <1>1, <1>2, YieldTerminal, Zenon
<1>4. pc' \in Returned /\ (pc' = "on_subagent_stop" => parents # <<>>)
  BY <1>2, Zenon DEF Return, Returned
<1>5. AtReturn'
  BY <1>2, <1>3, <1>4, Zenon DEF AtReturn
<1>6. LoopTypes'
  <2>1. IsSeq(queue')
    BY <1>2 DEF IsSeq
  <2> QED
    BY <1>1, <1>3, <1>4, <2>1, Zenon DEF LoopTypes
<1> QED
  BY <1>1, <1>3, <1>4, <1>5, <1>6, Zenon
     DEF LoopInv, Returned, Beginning, Emitting, Tooling, Handing

\* The invariant holds at the start of a run.
LEMMA LoopStarts == Init => LoopInv
<1> SUFFICES ASSUME Init PROVE LoopInv
  BY Zenon
<1>1. /\ pc = "run_start" /\ loop_state = State("calling", 0, 0, None) /\ tx_input = Start
      /\ queue = <<>> /\ failure = None /\ parents = <<>> /\ stream = <<>> /\ spent = 0
      /\ model_calls = 0
  BY Zenon DEF Init
<1>2. IsSeq(<<>>) /\ NoTerminal(<<>>)
  BY DEF IsSeq, NoTerminal
<1>3. LoopTypes
  BY <1>1, <1>2 DEF LoopTypes, State, Start, Beginning
<1>4. AtBeginning
  BY <1>1, <1>2, Zenon DEF AtBeginning, Running, ParentUsage
<1> QED
  BY <1>1, <1>3, <1>4, MaxTurnsAssumption, AgentLoopAssumption
     DEF LoopInv, Returned, Beginning, Emitting, Tooling, Handing

\* Before the first turn: RunStarted, the names, the hook and the input guardrails.
LEMMA BeginningSteps ==
  ASSUME LoopInv, RunStarted \/ ChecksNames \/ OnRunStart \/ InputGuardrail \/ InputTripped
  PROVE  LoopInv'
<1>0. /\ LoopTypes /\ AtBeginning /\ Running /\ IsSeq(stream) /\ NoTerminal(stream) /\ queue = <<>>
      /\ model_calls <= MaxTurns + 2 /\ Len(parents) <= MaxAgentDepth
      /\ stream = <<>> <=> pc = "run_start" /\ parents = <<>>
      /\ pc \in Beginning
      /\ UNCHANGED <<loop_state, tx_input, parents, spent, model_calls>>
  BY Zenon DEF LoopInv, LoopTypes, AtBeginning, Running, RunStarted, ChecksNames, OnRunStart,
         InputGuardrail, InputTripped, Beginning
<1>1. CASE \E error \in {"other", "hook_denied", "guardrail"} : FailsDirectly(error)
  BY <1>0, <1>1, FailsStep, Zenon DEF None
<1>2. CASE RunStarted \/ (InputGuardrail /\ Yield(Ev("guardrail", 0)) /\ pc' = "tripped")
  <2>1. PICK kind \in {"run_started", "guardrail"} :
          Yield(Ev(kind, 0)) /\ (kind = "run_started" => pc = "run_start")
    BY <1>2, Zenon DEF RunStarted
  <2>2. ~ IsTerminal(Ev(kind, 0)) /\ Ev(kind, 0).kind = kind
    BY Zenon DEF IsTerminal, Ev
  <2>3. /\ UNCHANGED <<queue, failure>> /\ pc' \in {"check_names", "tripped"}
        /\ stream # <<>> \/ parents = <<>>
    BY <1>0, <1>2, Zenon DEF RunStarted, InputGuardrail
  <2>4. IsSeq(stream') /\ NoTerminal(stream') /\ stream' # <<>>
    BY <1>0, <2>1, <2>2, <2>3, YieldOpen, Zenon
  <2>5. AtBeginning'
    BY <1>0, <2>3, <2>4, Zenon DEF AtBeginning, Running, ParentUsage
  <2>6. LoopTypes'
    BY <1>0, <2>3, <2>4, Zenon DEF LoopTypes, Beginning
  <2> QED
    BY <1>0, <2>3, <2>4, <2>5, <2>6, Zenon DEF LoopInv, Returned, Beginning, Emitting, Tooling, Handing
<1>3. CASE UNCHANGED <<queue, failure, stream>> /\ pc' \in {"on_run_start", "input_guardrail"}
           /\ pc # "run_start"
  <2>1. AtBeginning' /\ LoopTypes'
    BY <1>0, <1>3, Zenon DEF AtBeginning, Running, NoTerminal, ParentUsage, LoopTypes, Beginning
  <2> QED
    BY <1>0, <1>3, <2>1, Zenon DEF LoopInv, Returned, Beginning, Emitting, Tooling, Handing
<1>4. CASE UNCHANGED <<queue, failure, stream>> /\ pc' = "transition" /\ pc # "run_start"
  <2>1. AtTransition'
    BY <1>0, <1>4 DEF AtBeginning, AtTransition, Running, NoTerminal, ParentUsage, LoopTypes, Expects,
                      Made, State, Start, Total
  <2>2. LoopTypes'
    BY <1>0, <1>4, Zenon DEF LoopTypes
  <2> QED
    BY <1>0, <1>4, <2>1, <2>2, Zenon DEF LoopInv, Returned, Beginning, Emitting, Tooling, Handing
<1> QED
  BY <1>1, <1>2, <1>3, <1>4, SMTT(30)
     DEF RunStarted, ChecksNames, OnRunStart, InputGuardrail, InputTripped

\* The output guardrail passes the events on or replaces them.
LEMMA OutputGuardrailStep ==
  ASSUME LoopInv, OutputGuardrail PROVE LoopInv'
<1>0. /\ pc = "output_guardrail" /\ pc' = "emit" /\ LoopTypes /\ AtEmit /\ IsSeq(stream) /\ stream # <<>>
      /\ model_calls <= MaxTurns + 2 /\ Len(parents) <= MaxAgentDepth
      /\ UNCHANGED <<loop_state, action, tx_input, parents, stream, spent, model_calls>>
  BY Zenon DEF LoopInv, LoopTypes, OutputGuardrail, Emitting
<1>1. /\ action = "terminate" /\ queue # <<>> /\ NoTerminal(stream) /\ OnlyLast(queue)
      /\ Verdict(queue[Len(queue)], ParentUsage) /\ failure = None /\ loop_state.kind = "done"
  BY <1>0, Zenon DEF AtEmit
<1>2. CASE UNCHANGED <<queue, failure>>
  <2>1. AtEmit'
    BY <1>0, <1>1, <1>2, Zenon DEF AtEmit, Verdict, ParentUsage, NoTerminal, OnlyLast
  <2>2. LoopTypes'
    BY <1>0, <1>2, Zenon DEF LoopTypes, Emitting
  <2> QED
    BY <1>0, <2>1, <2>2, SMTT(30) DEF LoopInv, Returned, Beginning, Emitting, Tooling, Handing
<1>3. CASE failure' = "guardrail" /\ queue' = <<Ev("guardrail", 0), Ev("failed", "guardrail")>>
  <2>1. /\ IsSeq(queue') /\ Len(queue') = 2 /\ queue' # <<>>
        /\ queue'[1].kind = "guardrail" /\ queue'[2].kind = "failed"
    BY <1>3 DEF IsSeq, Ev
  <2>2. OnlyLast(queue')
    BY <2>1 DEF OnlyLast, IsTerminal
  <2>3. Verdict(queue[Len(queue)], ParentUsage)'
    BY <1>0, <1>1, <1>3, <2>1, Zenon DEF Verdict, None
  <2>4. AtEmit'
    BY <1>0, <1>1, <2>1, <2>2, <2>3, Zenon DEF AtEmit, NoTerminal
  <2>5. LoopTypes'
    BY <1>0, <2>1, Zenon DEF LoopTypes, Emitting
  <2> QED
    BY <1>0, <2>4, <2>5, Zenon DEF LoopInv, Returned, Beginning, Emitting, Tooling, Handing
<1> QED
  BY <1>2, <1>3, Zenon DEF OutputGuardrail

\* The head of the queue goes out.
LEMMA TakeHead ==
  ASSUME LoopInv, pc \in {"emit", "on_turn_start"}, pc' = "emit", queue # <<>>,
         Yield(Head(queue)), queue' = Tail(queue),
         UNCHANGED <<loop_state, action, tx_input, failure, parents, spent, model_calls>>
  PROVE  LoopInv'
<1>0. /\ LoopTypes /\ AtEmit /\ IsSeq(stream) /\ IsSeq(queue) /\ stream # <<>>
      /\ model_calls <= MaxTurns + 2 /\ Len(parents) <= MaxAgentDepth
  BY Zenon DEF LoopInv, LoopTypes, Emitting
<1>1. /\ Len(queue) >= 1 /\ Len(queue) \in Nat /\ IsSeq(queue') /\ Len(queue') = Len(queue) - 1
      /\ Head(queue) = queue[1] /\ \A i \in 1 .. Len(queue) - 1 : queue'[i] = queue[i + 1]
      /\ queue' = <<>> <=> Len(queue) = 1
  BY <1>0, TailIsSeq, Zenon DEF IsSeq
<1>2. ParentUsage' = ParentUsage /\ ParentUsage \in Nat
  BY <1>0, ParentUsageNat, Zenon DEF ParentUsage
<1>3. CASE ~ IsTerminal(queue[1])
  <2>1. NoTerminal(stream)
    BY <1>0, Zenon DEF AtEmit, Running
  <2>2. IsSeq(stream') /\ NoTerminal(stream') /\ stream' # <<>>
    BY <1>0, <1>1, <1>3, <2>1, YieldOpen, Zenon
  <2>3. LoopTypes'
    BY <1>0, <1>1, <2>2, SMTT(30) DEF LoopTypes, Emitting
  <2>4. AtEmit'
    <3>1. CASE action # "terminate" /\ Running /\ NoTerminal(queue) /\ spent = Total
               /\ Asks([state |-> loop_state, action |-> action], model_calls)
      <4>1. NoTerminal(queue')
        BY <1>1, <3>1 DEF NoTerminal
      <4>2. Running' /\ (spent = Total)' /\ Asks([state |-> loop_state, action |-> action], model_calls)'
        BY <1>2, <2>2, <3>1, Zenon DEF Running, Total
      <4> QED
        BY <1>0, <3>1, <4>1, <4>2, Zenon DEF AtEmit
    <3>2. CASE action = "terminate" /\ OnlyLast(queue) /\ Verdict(queue[Len(queue)], ParentUsage)
      <4>1. Len(queue) # 1 /\ queue' # <<>> /\ Len(queue') >= 1
        BY <1>1, <1>3, <3>2 DEF OnlyLast
      <4>2. queue'[Len(queue')] = queue[Len(queue)]
        BY <1>1, <4>1
      <4>3. \A i \in 1 .. Len(queue') - 1 : ~ IsTerminal(queue'[i])
        <5>1. \A i \in 1 .. Len(queue) - 1 : ~ IsTerminal(queue[i])
          BY <3>2, Zenon DEF OnlyLast
        <5>2. \A i \in 1 .. Len(queue') - 1 : i + 1 \in 1 .. Len(queue) - 1 /\ queue'[i] = queue[i + 1]
          BY <1>1
        <5> QED
          BY <5>1, <5>2, Zenon
      <4>4. OnlyLast(queue')
        BY <3>2, <4>1, <4>2, <4>3, Zenon DEF OnlyLast
      <4>5. Verdict(queue[Len(queue)], ParentUsage)'
        BY <1>2, <3>2, <4>2, Zenon DEF Verdict
      <4> QED
        BY <1>0, <2>2, <3>2, <4>1, <4>4, <4>5, Zenon DEF AtEmit
    <3> QED
      BY <1>0, <3>1, <3>2, Zenon DEF AtEmit
  <2> QED
    BY <1>0, <2>2, <2>3, <2>4, Zenon DEF LoopInv, Returned, Beginning, Emitting, Tooling, Handing
<1>4. CASE IsTerminal(queue[1])
  <2>1. /\ action = "terminate" /\ NoTerminal(stream) /\ OnlyLast(queue)
        /\ Verdict(queue[Len(queue)], ParentUsage)
    BY <1>0, <1>1, <1>4 DEF AtEmit, NoTerminal
  <2>2. Len(queue) = 1 /\ queue' = <<>>
    BY <1>1, <1>4, <2>1 DEF OnlyLast
  <2>3. /\ IsSeq(stream') /\ OnlyLast(stream') /\ stream' # <<>>
        /\ stream'[Len(stream')] = Forwarded(queue[1]) /\ Forwarded(queue[1]).kind = queue[1].kind
        /\ queue[1].kind = "completed" => Forwarded(queue[1]).val = queue[1].val + ParentUsage
    BY <1>0, <1>1, <1>4, <2>1, YieldTerminal, Zenon
  <2>4. Verdict(stream[Len(stream)], 0)'
    <3>1. CASE queue[1].kind = "completed"
      <4>1. queue[1].val \in Nat /\ queue[1].val + ParentUsage = spent /\ loop_state.kind = "done" /\ failure = None
        BY <2>1, <2>2, <3>1, Zenon DEF Verdict
      <4>2. stream'[Len(stream')].val \in Nat /\ stream'[Len(stream')].val + 0 = spent
        BY <1>2, <2>3, <3>1, <4>1
      <4> QED
        BY <2>3, <3>1, <4>1, <4>2, Zenon DEF Verdict
    <3>2. CASE queue[1].kind = "failed"
      BY <2>1, <2>2, <2>3, <3>2, SMTT(30) DEF Verdict
    <3> QED
      BY <1>4, <3>1, <3>2, Zenon DEF IsTerminal
  <2>5. AtEmit'
    BY <1>0, <2>1, <2>2, <2>3, <2>4, SMTT(30) DEF AtEmit
  <2>6. LoopTypes'
    BY <1>0, <1>1, <2>3, Zenon DEF LoopTypes, Emitting
  <2> QED
    BY <1>0, <2>3, <2>5, <2>6, Zenon DEF LoopInv, Returned, Beginning, Emitting, Tooling, Handing
<1> QED
  BY <1>3, <1>4, Zenon

\* The event loop, and the hook a TurnStarted waits for.
LEMMA EmitSteps ==
  ASSUME LoopInv, Emit \/ OnTurnStart PROVE LoopInv'
<1>0. /\ pc \in {"emit", "on_turn_start"} /\ LoopTypes /\ AtEmit /\ IsSeq(stream) /\ stream # <<>>
      /\ IsSeq(queue) /\ queue # <<>>
      /\ model_calls <= MaxTurns + 2 /\ Len(parents) <= MaxAgentDepth
      /\ UNCHANGED <<loop_state, action, tx_input, parents, spent, model_calls>>
  BY Zenon DEF LoopInv, LoopTypes, Emit, OnTurnStart, Emitting, AtEmit
<1>1. CASE pc = "emit" /\ Head(queue).kind = "turn_started" /\ pc' = "on_turn_start"
           /\ UNCHANGED <<queue, stream, failure>>
  <2>1. AtEmit'
    BY <1>0, <1>1, Zenon DEF AtEmit, Running, NoTerminal, OnlyLast, Verdict, Total, ParentUsage
  <2>2. LoopTypes'
    BY <1>0, <1>1, Zenon DEF LoopTypes, Emitting
  <2> QED
    BY <1>0, <1>1, <2>1, <2>2, Zenon DEF LoopInv, Returned, Beginning, Emitting, Tooling, Handing
<1>2. CASE Yield(Head(queue)) /\ queue' = Tail(queue) /\ pc' = "emit" /\ UNCHANGED failure
  BY <1>0, <1>2, TakeHead, Zenon
<1>3. CASE FailsDirectly("hook_denied") /\ pc = "on_turn_start"
  <2>1. NoTerminal(stream)
    BY <1>0, Zenon DEF AtEmit, Running
  <2> QED
    BY <1>0, <1>3, <2>1, FailsStep, Zenon DEF None
<1> QED
  BY <1>1, <1>2, <1>3, Zenon DEF Emit, OnTurnStart

\* The driver acts on what the machine asked for.
LEMMA ActsStep ==
  ASSUME LoopInv, Acts PROVE LoopInv'
<1>0. /\ pc = "emit" /\ queue = <<>> /\ LoopTypes /\ AtEmit /\ IsSeq(stream) /\ stream # <<>>
      /\ model_calls <= MaxTurns + 2 /\ Len(parents) <= MaxAgentDepth
      /\ MaxTurns \in Nat /\ model_calls \in Nat /\ loop_state.turn \in Nat
      /\ UNCHANGED <<loop_state, action, tx_input, queue, failure, parents, stream, spent>>
  BY MaxTurnsAssumption, Zenon DEF LoopInv, LoopTypes, Acts, Emitting
<1>1. CASE action # "terminate"
  <2>1. /\ Running /\ spent = Total /\ Asks([state |-> loop_state, action |-> action], model_calls)
    BY <1>0, <1>1, Zenon DEF AtEmit
  <2>2. Running' /\ (spent = Total)'
    BY <1>0, <2>1, Zenon DEF Running, NoTerminal, Total, ParentUsage
  <2>3. CASE action = "call_model"
    <3>1. pc' = "model" /\ model_calls' = model_calls + 1
      BY <2>3, Zenon DEF Acts
    <3>2. /\ loop_state.kind \in {"calling", "finalizing", "repairing"}
          /\ loop_state.turn <= MaxTurns /\ model_calls <= loop_state.turn + Spare(loop_state)
          /\ loop_state.kind = "calling" => loop_state.turn < MaxTurns
      BY <2>1, <2>3, Zenon DEF Asks
    <3>3. Spare(loop_state) \in {0, 1}
      BY Zenon DEF Spare
    <3>4. AtModel'
      BY <1>0, <2>2, <3>1, <3>2, <3>3 DEF AtModel, Spare
    <3>5. LoopTypes' /\ model_calls' <= MaxTurns + 2
      BY <1>0, <3>1, <3>2, <3>3 DEF LoopTypes
    <3> QED
      BY <1>0, <3>1, <3>4, <3>5, Zenon DEF LoopInv, Returned, Beginning, Emitting, Tooling, Handing
  <2>4. CASE action = "execute_tools"
    <3>1. pc' = "tools" /\ UNCHANGED model_calls
      BY <2>4, Zenon DEF Acts
    <3>2. loop_state.kind = "executing" /\ loop_state.turn < MaxTurns /\ model_calls <= loop_state.turn + 1
      BY <2>1, <2>4, Zenon DEF Asks
    <3>3. AtTools'
      BY <1>0, <2>2, <3>1, <3>2, SMTT(30) DEF AtTools, NoTerminal
    <3>4. LoopTypes'
      BY <1>0, <3>1, Zenon DEF LoopTypes, Tooling
    <3> QED
      BY <1>0, <3>1, <3>3, <3>4, Zenon DEF LoopInv, Returned, Beginning, Emitting, Tooling, Handing
  <2>5. CASE action = "handoff"
    <3>1. pc' = "handoff" /\ UNCHANGED model_calls
      BY <2>5, Zenon DEF Acts
    <3>2. AtHandoff'
      BY <1>0, <2>2, <3>1 DEF AtHandoff, NoTerminal
    <3>3. LoopTypes'
      BY <1>0, <3>1, Zenon DEF LoopTypes, Handing
    <3> QED
      BY <1>0, <3>1, <3>2, <3>3, Zenon DEF LoopInv, Returned, Beginning, Emitting, Tooling, Handing
  <2> QED
    BY <2>1, <2>3, <2>4, <2>5, Zenon DEF Asks
<1>2. CASE action = "terminate"
  <2>1. pc' = "on_run_complete" /\ UNCHANGED model_calls
    BY <1>2, Zenon DEF Acts
  <2>2. OnlyLast(stream) /\ Verdict(stream[Len(stream)], 0)
        /\ (loop_state.kind = "failed" => failure = None)
    BY <1>0, <1>2, Zenon DEF AtEmit
  <2>3. OnlyLast(stream') /\ Verdict(stream[Len(stream)], 0)'
    BY <1>0, <2>2, Zenon DEF Verdict
  <2>4. LoopTypes'
    BY <1>0, <2>1, Zenon DEF LoopTypes
  <2> QED
    BY <1>0, <2>1, <2>2, <2>3, <2>4, Zenon DEF LoopInv, Returned, Beginning, Emitting, Tooling, Handing
<1> QED
  BY <1>1, <1>2, Zenon

\* The model answers or fails.
LEMMA ModelSteps ==
  ASSUME LoopInv, ModelFails \/ \E reply \in Replies : ModelResponds(reply) PROVE LoopInv'
<1>0. /\ pc = "model" /\ LoopTypes /\ AtModel /\ IsSeq(stream) /\ stream # <<>> /\ NoTerminal(stream)
      /\ model_calls <= MaxTurns + 2 /\ Len(parents) <= MaxAgentDepth
      /\ UNCHANGED <<loop_state, parents, model_calls>>
  BY Zenon DEF LoopInv, LoopTypes, ModelFails, ModelResponds, AtModel, Running
<1>1. CASE ModelFails
  <2>1. PICK error \in {"model", "other"} : FailsDirectly(error)
    BY <1>1, Zenon DEF ModelFails
  <2>2. UNCHANGED <<tx_input, spent>> /\ error # None
    BY <1>1, Zenon DEF ModelFails, None
  <2> QED
    BY <1>0, <2>1, <2>2, FailsStep, Zenon
<1>2. ASSUME NEW reply \in Replies, ModelResponds(reply) PROVE LoopInv'
  <2> DEFINE n == Len(reply.calls)
             calls == [i \in 1 .. n |-> [id |-> (IF ReuseIds THEN 0 ELSE issued) + i,
                                         name |-> reply.calls[i]]]
  <2>1. n \in Nat
    BY AgentLoopAssumption
  <2>2. /\ pc' = "transition" /\ spent' = spent + 1 /\ UNCHANGED <<queue, failure, stream>>
        /\ tx_input' = [kind |-> "response", text |-> reply.text, calls |-> calls, usage |-> 1]
    BY <1>2, Zenon DEF ModelResponds
  <2>3. calls = [i \in 1 .. n |-> calls[i]]
    BY Zenon
  <2> HIDE DEF calls, n
  <2>4. IsSeq(calls)
    BY <2>1, <2>3, ListIsSeq, Zenon
  <2>5. /\ tx_input'.kind = "response" /\ tx_input'.usage = 1 /\ tx_input'.calls = calls
    BY <2>2, SMTT(30)
  <2>6. Expects(loop_state, tx_input)' /\ Made(loop_state, tx_input, model_calls)'
    BY <1>0, <2>4, <2>5 DEF AtModel, Expects, Made, LoopTypes
  <2>7. Running' /\ queue' = <<>>
    BY <1>0, <2>2, Zenon DEF AtModel, Running, NoTerminal
  <2>8. (spent = Total + tx_input.usage)'
    <3>1. spent = Total /\ Total \in Nat /\ Total' = Total
      BY <1>0, ParentUsageNat, Zenon DEF AtModel, Total, LoopTypes, ParentUsage
    <3> QED
      BY <2>2, <2>5, <3>1, SMTT(30)
  <2>9. AtTransition'
    BY <2>6, <2>7, <2>8, SMTT(30) DEF AtTransition
  <2>10. LoopTypes'
    BY <1>0, <2>2, <2>4, <2>5 DEF LoopTypes
  <2> QED
    BY <1>0, <2>2, <2>9, <2>10, Zenon DEF LoopInv, Returned, Beginning, Emitting, Tooling, Handing
<1> QED
  BY <1>1, <1>2, Zenon

\* Tool calls start, finish, are denied and are answered.
LEMMA ToolSteps ==
  ASSUME LoopInv,
         \/ \E i \in DOMAIN outcome : ToolStarts(i) \/ ToolFinishes(i)
         \/ ToolsFinish \/ EmitDenied \/ ToolsAnswer
  PROVE  LoopInv'
<1>0. /\ pc \in Tooling /\ LoopTypes /\ AtTools /\ IsSeq(stream) /\ stream # <<>> /\ NoTerminal(stream)
      /\ IsSeq(queue) /\ NoTerminal(queue)
      /\ model_calls <= MaxTurns + 2 /\ Len(parents) <= MaxAgentDepth
      /\ UNCHANGED <<loop_state, failure, parents, spent, model_calls>>
  BY Zenon
     DEF LoopInv, LoopTypes, ToolStarts, ToolFinishes, ToolsFinish, EmitDenied, ToolsAnswer, AtTools,
         Running, Tooling
<1>1. CASE /\ IsSeq(queue') /\ NoTerminal(queue') /\ IsSeq(stream') /\ NoTerminal(stream') /\ stream' # <<>>
           /\ pc' \in Tooling /\ UNCHANGED tx_input
  <2>1. AtTools'
    BY <1>0, <1>1, SMTT(30) DEF AtTools, Running, Total, ParentUsage
  <2>2. LoopTypes'
    BY <1>0, <1>1, SMTT(30) DEF LoopTypes
  <2> QED
    BY <1>0, <1>1, <2>1, <2>2, SMTT(30) DEF LoopInv, Returned, Beginning, Emitting, Tooling, Handing
<1>2. ASSUME NEW i \in DOMAIN outcome, ToolStarts(i) \/ ToolFinishes(i) PROVE LoopInv'
  <2>1. UNCHANGED <<pc, stream, tx_input>> /\ pc' \in Tooling
    BY <1>0, <1>2, Zenon DEF ToolStarts, ToolFinishes
  <2>2. CASE UNCHANGED queue
    BY <1>0, <1>1, <2>1, <2>2, Zenon
  <2>3. CASE queue' = Append(queue, Ev("denied", tx_input.calls[i].id))
    <3>1. ~ IsTerminal(Ev("denied", tx_input.calls[i].id))
      BY SMTT(30) DEF IsTerminal, Ev
    <3>2. IsSeq(queue') /\ NoTerminal(queue')
      BY <1>0, <2>3, <3>1, AppendIsSeq, StaysOpen, Zenon
    <3> QED
      BY <1>0, <1>1, <2>1, <3>2, Zenon
  <2> QED
    BY <1>2, <2>2, <2>3, SMTT(30) DEF ToolStarts, ToolFinishes
<1>3. CASE ToolsFinish
  BY <1>0, <1>1, <1>3, Zenon DEF ToolsFinish, Tooling
<1>4. CASE EmitDenied
  <2>1. /\ queue # <<>> /\ Yield(Head(queue)) /\ queue' = Tail(queue) /\ UNCHANGED <<pc, tx_input>>
    BY <1>4, Zenon DEF EmitDenied
  <2>2. /\ Len(queue) >= 1 /\ Len(queue) \in Nat /\ IsSeq(queue') /\ Len(queue') = Len(queue) - 1
        /\ Head(queue) = queue[1] /\ \A i \in 1 .. Len(queue) - 1 : queue'[i] = queue[i + 1]
    BY <1>0, <2>1, TailIsSeq, Zenon DEF IsSeq
  <2>3. ~ IsTerminal(Head(queue)) /\ NoTerminal(queue')
    BY <1>0, <2>2 DEF NoTerminal
  <2>4. IsSeq(stream') /\ NoTerminal(stream') /\ stream' # <<>>
    BY <1>0, <2>1, <2>3, YieldOpen, Zenon
  <2> QED
    BY <1>0, <1>1, <2>1, <2>2, <2>3, <2>4, Zenon
<1>5. CASE ToolsAnswer
  <2>1. /\ pc' = "transition" /\ queue = <<>> /\ UNCHANGED <<queue, stream>>
        /\ tx_input' = [kind |-> "results", text |-> "none", calls |-> tx_input.calls, usage |-> 0]
    BY <1>5, Zenon DEF ToolsAnswer, ToolResults
  <2>2. tx_input'.kind = "results" /\ tx_input'.calls = tx_input.calls /\ tx_input'.usage = 0
    BY <2>1, Zenon
  <2>3. Spare(loop_state) = 0
    BY <1>0, SMTT(30) DEF AtTools, Spare
  <2>4. Expects(loop_state, tx_input)'
    BY <1>0, <2>2, SMTT(30) DEF AtTools, LoopTypes, Expects
  <2>5. Made(loop_state, tx_input, model_calls)'
    BY <1>0, <2>2, <2>3 DEF AtTools, LoopTypes, Made
  <2>6. (spent = Total + tx_input.usage)'
    <3>1. spent = Total /\ Total \in Nat /\ Total' = Total
      BY <1>0, ParentUsageNat, SMTT(30) DEF AtTools, Total, LoopTypes, ParentUsage
    <3> QED
      BY <1>0, <2>2, <3>1, SMTT(30)
  <2>7. AtTransition'
    BY <1>0, <2>1, <2>4, <2>5, <2>6, SMTT(30) DEF AtTransition, AtTools, Running, NoTerminal
  <2>8. LoopTypes'
    BY <1>0, <2>1, <2>2, Zenon DEF LoopTypes
  <2> QED
    BY <1>0, <2>1, <2>7, <2>8, Zenon DEF LoopInv, Returned, Beginning, Emitting, Tooling, Handing
<1> QED
  BY <1>2, <1>3, <1>4, <1>5, Zenon

\* A handoff, up to the start of the target's loop.
LEMMA HandoffSteps ==
  ASSUME LoopInv, HandoffDepth \/ OnHandoff \/ EmitHandoff \/ TargetRuns
  PROVE  LoopInv'
<1>0. /\ pc \in Handing /\ LoopTypes /\ AtHandoff /\ IsSeq(stream) /\ stream # <<>> /\ NoTerminal(stream)
      /\ IsSeq(queue) /\ NoTerminal(queue) /\ failure = None /\ spent = Total
      /\ model_calls <= MaxTurns + 2 /\ Len(parents) <= MaxAgentDepth
      /\ parents \in Seq(Nat) /\ ParentUsage \in Nat /\ loop_state.usage \in Nat
      /\ MaxAgentDepth \in Nat /\ MaxTurns \in Nat
      /\ UNCHANGED spent
  BY ParentUsageNat, AgentLoopAssumption, MaxTurnsAssumption, Zenon
    
     DEF LoopInv, LoopTypes, HandoffDepth, OnHandoff, EmitHandoff, TargetRuns, AtHandoff, Running, Handing
<1>1. CASE /\ \E error \in {"max_agent_depth", "hook_denied", "other"} : FailsDirectly(error)
           /\ UNCHANGED <<loop_state, tx_input, parents, model_calls>>
  BY <1>0, <1>1, FailsStep, SMTT(30) DEF None
<1>2. CASE /\ IsSeq(queue') /\ NoTerminal(queue') /\ IsSeq(stream') /\ NoTerminal(stream') /\ stream' # <<>>
           /\ pc' \in Handing /\ pc' # "handoff" /\ Len(parents) + 1 <= MaxAgentDepth
           /\ pc' # "emit_handoff" => queue' = <<>>
           /\ UNCHANGED <<loop_state, tx_input, failure, parents, model_calls>>
  <2>1. AtHandoff'
    BY <1>0, <1>2, Zenon DEF AtHandoff, Running, Total, ParentUsage
  <2>2. LoopTypes'
    BY <1>0, <1>2, Zenon DEF LoopTypes
  <2> QED
    BY <1>0, <1>2, <2>1, <2>2, Zenon DEF LoopInv, Returned, Beginning, Emitting, Tooling, Handing
<1>3. CASE HandoffDepth
  <2>1. CASE Len(parents) + 1 > MaxAgentDepth
    BY <1>1, <1>3, <2>1, Zenon DEF HandoffDepth
  <2>2. CASE ~ (Len(parents) + 1 > MaxAgentDepth)
    <3>1. /\ pc = "handoff" /\ pc' = "on_handoff" /\ queue = <<>>
          /\ UNCHANGED <<queue, failure, stream, loop_state, tx_input, parents, model_calls>>
      BY <1>0, <1>3, <2>2, Zenon DEF HandoffDepth, AtHandoff
    <3>2. Len(parents) + 1 <= MaxAgentDepth
      BY <1>0, <2>2
    <3> QED
      BY <1>0, <1>2, <3>1, <3>2, Zenon DEF Handing
  <2> QED
    BY <2>1, <2>2, Zenon
<1>4. CASE OnHandoff
  <2>1. CASE FailsDirectly("hook_denied")
    BY <1>1, <1>4, <2>1, Zenon DEF OnHandoff
  <2>2. CASE pc' = "emit_handoff" /\ UNCHANGED <<failure, stream>>
             /\ queue' = <<Ev("handoff", 0), Ev("agent_updated", 0)>>
    <3>1. IsSeq(queue') /\ NoTerminal(queue')
      BY <2>2 DEF IsSeq, NoTerminal, IsTerminal, Ev
    <3>2. Len(parents) + 1 <= MaxAgentDepth /\ UNCHANGED <<loop_state, tx_input, parents, model_calls>>
      BY <1>0, <1>4, Zenon DEF OnHandoff, AtHandoff
    <3> QED
      BY <1>0, <1>2, <2>2, <3>1, <3>2, Zenon DEF Handing
  <2> QED
    BY <1>4, <2>1, <2>2, Zenon DEF OnHandoff
<1>5. CASE EmitHandoff
  <2>1. /\ pc = "emit_handoff" /\ queue # <<>> /\ Yield(Head(queue)) /\ queue' = Tail(queue)
        /\ pc' = IF queue' = <<>> THEN "target_run" ELSE pc
        /\ UNCHANGED <<loop_state, tx_input, failure, parents, model_calls>>
    BY <1>5, Zenon DEF EmitHandoff
  <2>2. /\ Len(queue) >= 1 /\ Len(queue) \in Nat /\ IsSeq(queue') /\ Len(queue') = Len(queue) - 1
        /\ Head(queue) = queue[1] /\ \A i \in 1 .. Len(queue) - 1 : queue'[i] = queue[i + 1]
    BY <1>0, <2>1, TailIsSeq, Zenon DEF IsSeq
  <2>3. ~ IsTerminal(Head(queue)) /\ NoTerminal(queue')
    BY <1>0, <2>2 DEF NoTerminal
  <2>4. IsSeq(stream') /\ NoTerminal(stream') /\ stream' # <<>>
    BY <1>0, <2>1, <2>3, YieldOpen, Zenon
  <2>5. /\ pc' \in Handing /\ pc' # "handoff" /\ Len(parents) + 1 <= MaxAgentDepth
        /\ pc' # "emit_handoff" => queue' = <<>>
    BY <1>0, <2>1, Zenon DEF Handing, AtHandoff
  <2> QED
    BY <1>2, <2>1, <2>2, <2>3, <2>4, <2>5, Zenon
<1>6. CASE TargetRuns
  <2>1. CASE FailsDirectly("other")
             /\ UNCHANGED <<agent, parents, loop_state, tx_input, conversation, model_calls>>
    BY <1>1, <2>1, SMTT(30)
  <2>2. CASE /\ pc' = "run_start" /\ parents' = Append(parents, ParentUsage + loop_state.usage)
             /\ loop_state' = State("calling", 0, 0, None) /\ tx_input' = Start
             /\ model_calls' = 0 /\ UNCHANGED <<queue, failure, stream>>
    <3> DEFINE u == ParentUsage + loop_state.usage
    <3>1. u \in Nat /\ spent = u /\ parents' = Append(parents, u)
      BY <1>0, <2>2 DEF Total
    <3> HIDE DEF u
    <3>2. /\ parents' \in Seq(Nat) /\ Len(parents') = Len(parents) + 1 /\ parents'[Len(parents) + 1] = u
          /\ parents' # <<>> /\ Len(parents) \in Nat
      BY <1>0, <3>1
    <3>3. ParentUsage' = u
      BY <3>2, Zenon DEF ParentUsage
    <3>4. queue = <<>> /\ Len(parents) + 1 <= MaxAgentDepth
      BY <1>0, <1>6, Zenon DEF TargetRuns, AtHandoff
    <3>5. AtBeginning'
      BY <1>0, <2>2, <3>1, <3>3, <3>4, Zenon DEF AtBeginning, Running, NoTerminal
    <3>6. LoopTypes'
      <4>1. loop_state'.turn \in Nat /\ loop_state'.usage \in Nat
        BY <2>2, Zenon DEF State
      <4>2. tx_input'.usage \in Nat /\ IsSeq(tx_input'.calls)
        BY <2>2 DEF Start, IsSeq
      <4> QED
        BY <1>0, <2>2, <3>2, <4>1, <4>2, Zenon DEF LoopTypes, Beginning
    <3> QED
      BY <1>0, <2>2, <3>2, <3>4, <3>5, <3>6 DEF LoopInv, Returned, Beginning, Emitting, Tooling, Handing
  <2> QED
    BY <1>6, <2>1, <2>2, Zenon DEF TargetRuns
<1> QED
  BY <1>3, <1>4, <1>5, <1>6, Zenon

\* The end of a loop, and of the parents that forwarded it.
LEMMA ReturnSteps ==
  ASSUME LoopInv, OnRunComplete \/ OnSubagentStop PROVE LoopInv'
<1>0. /\ LoopTypes /\ IsSeq(stream) /\ stream # <<>> /\ parents \in Seq(Nat)
      /\ model_calls <= MaxTurns + 2 /\ Len(parents) <= MaxAgentDepth
      /\ UNCHANGED <<loop_state, tx_input, queue, stream, spent, model_calls>>
  BY SMTT(30) DEF LoopInv, LoopTypes, OnRunComplete, OnSubagentStop
<1>1. CASE OnRunComplete
  <2>1. /\ pc' = Return /\ UNCHANGED parents
        /\ failure' = IF loop_state.kind = "failed" THEN loop_state.error ELSE failure
        /\ OnlyLast(stream) /\ Verdict(stream[Len(stream)], 0)
        /\ loop_state.kind = "failed" => failure = None
    BY <1>1, Zenon DEF OnRunComplete, LoopInv
  <2>2. pc' \in Returned /\ (pc' = "on_subagent_stop" => parents # <<>>)
    BY <2>1, SMTT(30) DEF Return, Returned
  <2>3. AtReturn'
    <3> DEFINE ev == stream[Len(stream)]
    <3>1. CASE ev.kind = "completed"
      <4>1. failure' = None /\ ev.val = spent
        <5>1. loop_state.kind = "done" /\ failure = None /\ ev.val \in Nat /\ ev.val + 0 = spent
          BY <2>1, <3>1, Zenon DEF Verdict
        <5> QED
          BY <2>1, <5>1
      <4> QED
        BY <1>0, <2>1, <2>2, <3>1, <4>1, Zenon DEF AtReturn
    <3>2. CASE ev.kind = "failed"
      <4>1. failure' # None
        BY <2>1, <3>2, Zenon DEF Verdict
      <4> QED
        BY <1>0, <2>1, <2>2, <3>2, <4>1, Zenon DEF AtReturn
    <3> QED
      BY <2>1, <3>1, <3>2, Zenon DEF Verdict
  <2>4. LoopTypes'
    BY <1>0, <2>1, <2>2, Zenon DEF LoopTypes
  <2> QED
    BY <1>0, <2>1, <2>2, <2>3, <2>4, SMTT(30)
       DEF LoopInv, Returned, Beginning, Emitting, Tooling, Handing
<1>2. CASE OnSubagentStop
  <2>1. /\ pc = "on_subagent_stop" /\ parents' = SubSeq(parents, 1, Len(parents) - 1)
        /\ UNCHANGED failure
        /\ pc' = IF Len(parents) = 1 THEN "ended" ELSE pc
        /\ AtReturn
    BY <1>2, Zenon DEF OnSubagentStop, LoopInv, Returned
  <2>2. Len(parents) \in Nat /\ Len(parents) # 0
    BY <1>0, <2>1 DEF AtReturn
  <2>3. parents' \in Seq(Nat) /\ Len(parents') = Len(parents) - 1
    <3> DEFINE n == Len(parents) - 1
    <3> HIDE DEF n
    <3>1. n \in 0 .. Len(parents)
      BY <2>2 DEF n
    <3>2. SubSeq(parents, 1, n) \in Seq(Nat) /\ Len(SubSeq(parents, 1, n)) = n
      BY <1>0, <3>1
    <3> QED
      BY <2>1, <3>2, Zenon DEF n
  <2>4. pc' = "on_subagent_stop" => parents' # <<>>
    <3>1. pc' = "on_subagent_stop" => Len(parents') # 0
      BY <2>1, <2>2, <2>3
    <3> QED
      BY <3>1, Zenon
  <2>5. AtReturn'
    BY <1>0, <2>1, <2>4, Zenon DEF AtReturn
  <2>6. LoopTypes'
    BY <1>0, <2>1, <2>3, Zenon DEF LoopTypes, Returned
  <2>7. Len(parents') <= MaxAgentDepth
    BY <1>0, <2>2, <2>3, AgentLoopAssumption
  <2> QED
    BY <1>0, <2>1, <2>5, <2>6, <2>7, Zenon DEF LoopInv, Returned, Beginning, Emitting, Tooling, Handing
<1> QED
  BY <1>1, <1>2, SMTT(30)

-----------------------------------------------------------------------------
(* What the invariant gives.                                                 *)

\* The stream has no terminal event, or one, the last.
LEMMA OneTerminal == LoopInv => NoTerminal(stream) \/ OnlyLast(stream)
  BY Zenon
     DEF LoopInv, LoopTypes, AtBeginning, AtTransition, AtEmit, AtModel, AtTools, AtHandoff, AtReturn, Running

\* A completed run has an empty slot and reports all that was spent.
LEMMA CompletedIsExact ==
  LoopInv /\ OnlyLast(stream) /\ stream[Len(stream)].kind = "completed"
    => failure = None /\ stream[Len(stream)].val = spent
<1> SUFFICES ASSUME LoopInv, OnlyLast(stream), stream[Len(stream)].kind = "completed"
             PROVE  failure = None /\ stream[Len(stream)].val = spent
  BY Zenon
<1> DEFINE ev == stream[Len(stream)]
<1>1. ~ NoTerminal(stream)
  <2>1. Len(stream) \in 1 .. Len(stream) /\ IsTerminal(stream[Len(stream)])
    BY DEF LoopInv, LoopTypes, IsSeq, OnlyLast
  <2> QED
    BY <2>1, Zenon DEF NoTerminal
<1>2. Verdict(ev, 0) \/ (AtReturn /\ ev.kind = "completed")
  BY <1>1, Zenon
     DEF LoopInv, LoopTypes, AtBeginning, AtTransition, AtEmit, AtModel, AtTools, AtHandoff, Running
<1>3. CASE Verdict(ev, 0)
  <2>1. failure = None /\ ev.val \in Nat /\ ev.val + 0 = spent
    BY <1>3, Zenon DEF Verdict
  <2> QED
    BY <2>1
<1>4. CASE AtReturn /\ ev.kind = "completed"
  BY <1>4, Zenon DEF AtReturn
<1> QED
  BY <1>2, <1>3, <1>4, Zenon

-----------------------------------------------------------------------------
(* A stream of LlmAgent is a stream of an agent.                             *)

\* What one step does to the stream and to the slot.
LEMMA StepShape ==
  ASSUME LoopInv, LoopNext
  PROVE  /\ pc # "ended"
         /\ stream' = stream \/ (NoTerminal(stream) /\ \E e : stream' = Append(stream, e))
         /\ failure' = failure \/ failure' # None
         /\ pc = "run_start" => failure' = failure /\ stream' # <<>> /\ NoTerminal(stream')
<1>1. ASSUME NEW ev, Yield(ev), NoTerminal(stream)
      PROVE  stream' = stream \/ (NoTerminal(stream) /\ \E e : stream' = Append(stream, e))
  BY <1>1, Zenon DEF Yield
<1>2. \A error : FailsDirectly(error) => Yield(Ev("failed", error)) /\ failure' = error
  BY Zenon DEF FailsDirectly
<1>3. CASE RunStarted
  <2>1. pc = "run_start" /\ Yield(Ev("run_started", 0)) /\ UNCHANGED failure
    BY <1>3, Zenon DEF RunStarted
  <2>2. NoTerminal(stream) /\ IsSeq(stream) /\ (stream = <<>> <=> parents = <<>>)
    BY <2>1, Zenon DEF LoopInv, LoopTypes, Beginning, AtBeginning, Running
  <2>3. ~ IsTerminal(Ev("run_started", 0))
    BY Zenon DEF IsTerminal, Ev
  <2>4. stream' # <<>> /\ NoTerminal(stream')
    BY <2>1, <2>2, <2>3, YieldOpen, Zenon
  <2> QED
    BY <1>1, <2>1, <2>2, <2>4, Zenon
<1>4. CASE ChecksNames \/ OnRunStart \/ InputGuardrail \/ InputTripped
  <2>1. NoTerminal(stream) /\ pc # "ended" /\ pc # "run_start"
    BY <1>4, Zenon DEF ChecksNames, OnRunStart, InputGuardrail, InputTripped, LoopInv, Beginning, AtBeginning, Running
  <2>2. \/ UNCHANGED <<stream, failure>>
        \/ UNCHANGED failure /\ Yield(Ev("guardrail", 0))
        \/ \E error \in {"other", "hook_denied", "guardrail"} : FailsDirectly(error)
    BY <1>4, Zenon DEF ChecksNames, OnRunStart, InputGuardrail, InputTripped
  <2>3. stream' = stream \/ (NoTerminal(stream) /\ \E e : stream' = Append(stream, e))
    BY <1>1, <1>2, <2>1, <2>2, Zenon
  <2>4. failure' = failure \/ failure' # None
    BY <1>2, <2>2, Zenon DEF None
  <2> QED
    BY <2>1, <2>3, <2>4, Zenon
<1>5. CASE Transitions \/ OutputGuardrail \/ Acts
  BY <1>5, Zenon DEF Transitions, OutputGuardrail, Acts, None
<1>6. CASE Emit \/ OnTurnStart
  <2>1. NoTerminal(stream) /\ pc \in {"emit", "on_turn_start"}
    BY <1>6, Zenon DEF Emit, OnTurnStart, LoopInv, Emitting, AtEmit, Running
  <2>2. \/ UNCHANGED <<stream, failure>>
        \/ UNCHANGED failure /\ Yield(Head(queue))
        \/ FailsDirectly("hook_denied")
    BY <1>6, Zenon DEF Emit, OnTurnStart
  <2>3. stream' = stream \/ (NoTerminal(stream) /\ \E e : stream' = Append(stream, e))
    BY <1>1, <1>2, <2>1, <2>2, Zenon
  <2>4. failure' = failure \/ failure' # None
    BY <1>2, <2>2 DEF None
  <2> QED
    BY <2>1, <2>3, <2>4, Zenon
<1>7. CASE ModelFails \/ \E reply \in Replies : ModelResponds(reply)
  <2>1. NoTerminal(stream) /\ pc = "model"
    BY <1>7, Zenon DEF ModelFails, ModelResponds, LoopInv, AtModel, Running
  <2>2. \/ UNCHANGED <<stream, failure>>
        \/ \E error \in {"model", "other"} : FailsDirectly(error)
    BY <1>7, Zenon DEF ModelFails, ModelResponds
  <2> QED
    BY <1>1, <1>2, <2>1, <2>2, Zenon DEF None
<1>8. CASE \/ \E i \in DOMAIN outcome : ToolStarts(i) \/ ToolFinishes(i)
           \/ ToolsFinish \/ EmitDenied \/ ToolsAnswer
  <2>1. NoTerminal(stream) /\ pc \in {"tools", "emit_denied"} /\ UNCHANGED failure
    BY <1>8, Zenon
       DEF ToolStarts, ToolFinishes, ToolsFinish, EmitDenied, ToolsAnswer, LoopInv, Tooling, AtTools, Running
  <2>2. UNCHANGED stream \/ Yield(Head(queue))
    BY <1>8, SMTT(30) DEF ToolStarts, ToolFinishes, ToolsFinish, EmitDenied, ToolsAnswer
  <2> QED
    BY <1>1, <2>1, <2>2, Zenon
<1>9. CASE HandoffDepth \/ OnHandoff \/ EmitHandoff \/ TargetRuns
  <2>1. NoTerminal(stream) /\ pc \in Handing
    BY <1>9, Zenon
       DEF HandoffDepth, OnHandoff, EmitHandoff, TargetRuns, LoopInv, Handing, AtHandoff, Running
  <2>2. \/ UNCHANGED <<stream, failure>>
        \/ UNCHANGED failure /\ Yield(Head(queue))
        \/ \E error \in {"max_agent_depth", "hook_denied", "other"} : FailsDirectly(error)
    BY <1>9, Zenon DEF HandoffDepth, OnHandoff, EmitHandoff, TargetRuns
  <2> QED
    BY <1>1, <1>2, <2>1, <2>2, Zenon DEF None, Handing
<1>10. CASE OnRunComplete
  <2>1. /\ pc = "on_run_complete" /\ UNCHANGED stream /\ Verdict(stream[Len(stream)], 0)
        /\ failure' = IF loop_state.kind = "failed" THEN loop_state.error ELSE failure
    BY <1>10, Zenon DEF OnRunComplete, LoopInv
  <2> QED
    BY <2>1, Zenon DEF Verdict
<1>11. CASE OnSubagentStop
  BY <1>11, Zenon DEF OnSubagentStop
<1> QED
  BY <1>3, <1>4, <1>5, <1>6, <1>7, <1>8, <1>9, <1>10, <1>11, Zenon DEF LoopNext, DriverStep, AwaitEnds

\* How far a stream has come, at a place of its driver.
StatusOf(p, s) ==
  CASE p = "ended" -> "ended"
    [] p # "ended" /\ (\E i \in DOMAIN s : IsTerminal(s[i])) ->
         IF IsTerminal(s[Len(s)]) THEN s[Len(s)].kind ELSE "late"
    [] p # "ended" /\ ~(\E i \in DOMAIN s : IsTerminal(s[i])) ->
         IF s = <<>> THEN "fresh" ELSE "streaming"

\* The three ways a stream can stand.
LEMMA StatusIs ==
  ASSUME NEW p, NEW s, IsSeq(s)
  PROVE  /\ p = "ended" => StatusOf(p, s) = "ended"
         /\ p # "ended" /\ NoTerminal(s) => StatusOf(p, s) = IF s = <<>> THEN "fresh" ELSE "streaming"
         /\ p # "ended" /\ OnlyLast(s) => StatusOf(p, s) = s[Len(s)].kind
         /\ OnlyLast(s) => s[Len(s)].kind \in {"completed", "failed"} /\ s # <<>> /\ ~ NoTerminal(s)
<1>1. DOMAIN s = 1 .. Len(s) /\ Len(s) \in Nat
  BY Zenon DEF IsSeq
<1>2. p = "ended" => StatusOf(p, s) = "ended"
  BY Zenon DEF StatusOf
<1>3. CASE p # "ended" /\ NoTerminal(s)
  <2>1. ~(\E i \in DOMAIN s : IsTerminal(s[i]))
    BY <1>1, <1>3, Zenon DEF NoTerminal
  <2> QED
    BY <1>3, <2>1 DEF StatusOf, OnlyLast, IsSeq, NoTerminal
<1>4. OnlyLast(s) => /\ Len(s) \in DOMAIN s /\ IsTerminal(s[Len(s)]) /\ s[Len(s)] = s[Len(s)]
                     /\ s[Len(s)].kind \in {"completed", "failed"} /\ s # <<>>
  BY <1>1 DEF OnlyLast, IsTerminal
<1>5. OnlyLast(s) => ~ NoTerminal(s)
  BY <1>1, <1>4, Zenon DEF NoTerminal
<1>6. ASSUME p # "ended", OnlyLast(s) PROVE StatusOf(p, s) = s[Len(s)].kind
  BY <1>4, <1>6, Zenon DEF StatusOf
<1> QED
  BY <1>2, <1>3, <1>4, <1>5, <1>6, Zenon

\* What the stream and the slot show of an agent, without its liveness.
AgentSafety == Agent!Safety

\* A step of the loop is a step of the contract, or none.
LEMMA ContractStep ==
  LoopInv /\ LoopInv' /\ [LoopNext]_loopVars => [Agent!Next]_(Agent!contractVars)
<1> SUFFICES ASSUME LoopInv, LoopInv', LoopNext PROVE [Agent!Next]_(Agent!contractVars)
  BY Zenon DEF loopVars, Agent!contractVars, StreamStatus, SawTerminal
<1> DEFINE before == StatusOf(pc, stream)
           after == StatusOf(pc', stream')
           set == failure # None
           set2 == failure' # None
<1>0. StreamStatus = before /\ StreamStatus' = after
  BY Zenon DEF StreamStatus, StatusOf, SawTerminal
<1>1. /\ pc # "ended"
      /\ stream' = stream \/ (NoTerminal(stream) /\ \E e : stream' = Append(stream, e))
      /\ set => set2
      /\ pc = "run_start" => failure' = failure /\ stream' # <<>>
  BY StepShape, Zenon
<1>2. IsSeq(stream) /\ IsSeq(stream') /\ (stream = <<>> => pc = "run_start")
  BY Zenon DEF LoopInv, LoopTypes
<1>3. /\ NoTerminal(stream) \/ OnlyLast(stream)
      /\ NoTerminal(stream') \/ OnlyLast(stream')
      /\ OnlyLast(stream) /\ stream[Len(stream)].kind = "completed" => ~ set
      /\ OnlyLast(stream') /\ stream'[Len(stream')].kind = "completed" => ~ set2
      /\ pc' = "ended" => OnlyLast(stream') /\ (stream'[Len(stream')].kind = "failed" <=> set2)
  <2>1. NoTerminal(stream) \/ OnlyLast(stream)
    BY OneTerminal, Zenon
  <2>2. (LoopInv => NoTerminal(stream) \/ OnlyLast(stream))'
    BY OneTerminal, PTL
  <2>3. OnlyLast(stream) /\ stream[Len(stream)].kind = "completed" => ~ set
    BY CompletedIsExact, Zenon
  <2>4. (LoopInv /\ OnlyLast(stream) /\ stream[Len(stream)].kind = "completed"
           => failure = None /\ stream[Len(stream)].val = spent)'
    BY CompletedIsExact, PTL
  <2>5. pc' = "ended" => OnlyLast(stream') /\ (stream'[Len(stream')].kind = "failed" <=> set2)
    BY SMTT(30) DEF LoopInv, Returned, AtReturn
  <2> QED
    BY <2>1, <2>2, <2>3, <2>4, <2>5, Zenon
<1> HIDE DEF before, after, set, set2
<1>4. [Agent!Next]_(Agent!contractVars)
      <=> \/ before = after /\ set = set2
          \/ before = "fresh" /\ after = "streaming" /\ set = set2
          \/ before = "streaming" /\ ~ set /\ after \in {"completed", "ended"} /\ set = set2
          \/ before = "streaming" /\ after = "failed" /\ set2 \in {set, TRUE}
          \/ before = "streaming" /\ after = "ended" /\ set2 = TRUE
          \/ before \in {"streaming", "failed"} /\ ~ set /\ set2 = TRUE /\ before = after
          \/ before = "completed" /\ set = set2 /\ after = "ended"
          \/ before = "failed" /\ set2 = TRUE /\ after = "ended"
          \/ before \notin {"ended", "dropped"} /\ after = "dropped" /\ set = set2
  <2>1. set = (failure # None) /\ set2 = (failure # None)'
    BY Zenon DEF set, set2
  <2> QED
    BY <1>0, <2>1, Zenon
       DEF Agent!Next, Agent!Progress, Agent!Start, Agent!Complete, Agent!Fail, Agent!Record,
                      Agent!End, Agent!Drop, Agent!contractVars
<1>5. set \in BOOLEAN /\ set2 \in BOOLEAN
  BY Zenon DEF set, set2
<1>6. pc = "run_start" => set = set2 /\ stream' # <<>> /\ NoTerminal(stream')
  BY StepShape, Zenon DEF set, set2
<1>7. CASE NoTerminal(stream')
  <2>1. NoTerminal(stream) /\ pc' # "ended"
    <3>1. pc' # "ended"
      BY <1>2, <1>3, <1>7, StatusIs, Zenon
    <3>2. CASE stream' = stream
      BY <1>7, <3>1, <3>2, Zenon
    <3> QED
      BY <1>1, <3>1, <3>2, Zenon
  <2>2. stream' # <<>>
    <3>1. CASE stream' = stream
      BY <1>2, <1>6, <3>1, Zenon
    <3>2. CASE stream' # stream
      BY <1>1, <1>2, <3>2, AppendIsSeq, Zenon
    <3> QED
      BY <3>1, <3>2, Zenon
  <2>3. before = (IF stream = <<>> THEN "fresh" ELSE "streaming") /\ after = "streaming"
    BY <1>1, <1>2, <1>7, <2>1, <2>2, StatusIs DEF before, after
  <2>4. CASE stream = <<>>
    BY <1>2, <1>6, <1>4, <2>3, <2>4, Zenon
  <2>5. CASE stream # <<>>
    BY <1>1, <1>4, <1>5, <2>3, <2>5, Zenon
  <2> QED
    BY <2>4, <2>5, Zenon
<1>8. CASE OnlyLast(stream') /\ stream' # stream
  <2> DEFINE kind == stream'[Len(stream')].kind
  <2>1. ~ NoTerminal(stream') /\ kind \in {"completed", "failed"} /\ NoTerminal(stream)
    BY <1>1, <1>2, <1>8, StatusIs, Zenon
  <2>2. stream # <<>> /\ before = "streaming"
    <3>1. stream # <<>>
      BY <1>2, <1>6, <2>1, Zenon
    <3> QED
      BY <1>1, <1>2, <2>1, <3>1, StatusIs DEF before
  <2>3. /\ pc' = "ended" => after = "ended"
        /\ pc' # "ended" => after = kind
    BY <1>2, <1>8, StatusIs, Zenon DEF after
  <2>4. kind = "completed" => ~ set2 /\ ~ set
    BY <1>1, <1>3, <1>8, SMTT(30)
  <2>5. pc' = "ended" /\ kind = "failed" => set2
    BY <1>3, Zenon
  <2> HIDE DEF kind
  <2>6. CASE kind = "completed"
    BY <1>4, <1>5, <2>2, <2>3, <2>4, <2>6, Zenon
  <2>7. CASE kind = "failed"
    BY <1>1, <1>4, <1>5, <2>2, <2>3, <2>5, <2>7, Zenon
  <2> QED
    BY <2>1, <2>6, <2>7, Zenon
<1>9. CASE OnlyLast(stream') /\ stream' = stream
  <2> DEFINE kind == stream[Len(stream)].kind
  <2>1. kind \in {"completed", "failed"} /\ before = kind
    BY <1>1, <1>2, <1>9, StatusIs, Zenon DEF before
  <2>2. /\ pc' = "ended" => after = "ended"
        /\ pc' # "ended" => after = kind
    BY <1>2, <1>9, StatusIs, Zenon DEF after
  <2>3. /\ kind = "completed" => ~ set2 /\ ~ set
        /\ pc' = "ended" /\ kind = "failed" => set2
    BY <1>3, <1>9, Zenon
  <2> HIDE DEF kind
  <2>4. CASE kind = "completed"
    BY <1>4, <1>5, <2>1, <2>2, <2>3, <2>4, Zenon
  <2>5. CASE kind = "failed"
    BY <1>1, <1>4, <1>5, <2>1, <2>2, <2>3, <2>5, Zenon
  <2> QED
    BY <2>1, <2>4, <2>5, Zenon
<1> QED
  BY <1>3, <1>7, <1>8, <1>9, Zenon

-----------------------------------------------------------------------------
(* The runner around the loop.                                               *)

RunnerTypes ==
  /\ phase \in {"load", "driving", "finalizing", "drained", "done", "abandoned"}
  /\ mode \in {"run", "streamed"} /\ interrupt \in {None, "cancelled", "timed_out"}
  /\ appends \in Nat /\ IsSeq(delivered)

\* Before the terminal event is shown nothing has been appended; from then on the one
\* append has been issued.
Told == OnlyLast(delivered) /\ appends = 1
Untold == NoTerminal(delivered) /\ appends = 0

\* run: the caller learns nothing before the result, which follows the stream.
RunRight ==
  /\ delivered = <<>> /\ phase # "finalizing"
  /\ phase \in {"driving", "drained"} => appends = 0
  /\ phase = "done" =>
       /\ result # "start_error" => appends = 1
       /\ result \in {"cancelled", "timed_out"} => ~SawTerminal /\ result = interrupt
       /\ result = "ok" => stream[Len(stream)].kind = "completed"
       /\ result \in {"agent", "other"} => stream[Len(stream)].kind = "failed"

\* run_streamed: the caller has been told exactly if the agent's stream has its terminal
\* event, except while that event is held back.
StreamedRight ==
  /\ phase \in {"driving", "drained"} =>
       (Untold /\ NoTerminal(stream)) \/ (Told /\ OnlyLast(stream))
  /\ phase = "finalizing" => Untold /\ OnlyLast(stream)
  /\ phase = "done" => IF result = "start_error" THEN delivered = <<>> ELSE Told
  /\ phase = "abandoned" => NoTerminal(delivered) \/ Told

RunnerInv ==
  /\ LoopInv /\ RunnerTypes
  /\ phase = "load" => stream = <<>> /\ delivered = <<>> /\ appends = 0
  /\ phase \in {"load", "driving", "finalizing"} => interrupt = None
  /\ phase = "drained" /\ interrupt = None => pc = "ended"
  /\ mode = "run" => RunRight
  /\ mode = "streamed" => StreamedRight

\* Every step of the runner is a step of the loop or leaves the loop alone.
LEMMA RunnerDrives == [Next]_vars => [LoopNext]_loopVars
<1> SUFFICES ASSUME [Next]_vars PROVE [LoopNext]_loopVars
  BY Zenon
<1>1. PollRuns \/ PollResumes => LoopNext
  BY SMTT(30) DEF PollRuns, PollResumes, LoopNext
<1>2. \/ Load \/ ExposeTerminal \/ StreamEnds \/ RunReturns \/ StreamedEnds
      \/ (\E i \in {"cancelled", "timed_out"} : Interrupted(i))
      \/ Abandon \/ Cancel \/ DeadlinePasses \/ UNCHANGED vars
      => UNCHANGED loopVars
  BY Zenon DEF Load, ExposeTerminal, StreamEnds, RunReturns, StreamedEnds, Interrupted, Abandon, Cancel,
         DeadlinePasses, vars
<1> QED
  BY <1>1, <1>2, Zenon DEF Next, RunnerStep

\* A terminal event is in the stream exactly if the stream has ended by it.
LEMMA SawTerminalIs == LoopInv => IF SawTerminal THEN OnlyLast(stream) ELSE NoTerminal(stream)
<1> SUFFICES ASSUME LoopInv PROVE IF SawTerminal THEN OnlyLast(stream) ELSE NoTerminal(stream)
  BY Zenon
<1>1. DOMAIN stream = 1 .. Len(stream)
  BY Zenon DEF LoopInv, LoopTypes, IsSeq
<1> QED
  BY <1>1, OneTerminal, Zenon DEF SawTerminal, NoTerminal

\* A stream whose driver has returned has its terminal event.
LEMMA EndedSaw == LoopInv /\ pc = "ended" => SawTerminal /\ OnlyLast(stream)
<1> SUFFICES ASSUME LoopInv, pc = "ended" PROVE SawTerminal /\ OnlyLast(stream)
  BY Zenon
<1>1. OnlyLast(stream) /\ IsSeq(stream)
  BY Zenon DEF LoopInv, LoopTypes, Returned, AtReturn
<1>2. ~ NoTerminal(stream)
  BY <1>1, StatusIs, Zenon
<1> QED
  BY <1>1, <1>2, SawTerminalIs, Zenon

\* A poll relays what the agent yields.
LEMMA PollStep ==
  ASSUME RunnerInv, LoopInv', PollRuns \/ PollResumes PROVE RunnerInv'
<1>0. /\ phase = "driving" /\ LoopInv /\ LoopNext /\ Relay /\ RunnerTypes
      /\ interrupt = None /\ IsSeq(delivered)
      /\ UNCHANGED <<mode, interrupt, appends, result>>
  BY Zenon DEF PollRuns, PollResumes, LoopNext, RunnerInv, RunnerTypes
<1> DEFINE ev == stream'[Len(stream')]
           held == stream' # stream /\ mode = "streamed" /\ IsTerminal(ev) /\ appends = 0
<1>1. /\ delivered' = IF stream' # stream /\ mode = "streamed" /\ ~held
                        THEN Append(delivered, ev) ELSE delivered
      /\ phase' = IF held THEN "finalizing" ELSE phase
  BY <1>0, Zenon DEF Relay
<1>2. CASE mode = "run"
  <2>1. RunRight /\ ~ held /\ delivered' = delivered /\ phase' = "driving"
    BY <1>0, <1>1, <1>2, Zenon DEF RunnerInv
  <2>2. RunRight' /\ RunnerTypes'
    BY <1>0, <1>2, <2>1, Zenon DEF RunRight, RunnerTypes
  <2> QED
    BY <1>0, <1>2, <2>1, <2>2, Zenon DEF RunnerInv
<1>3. CASE mode = "streamed" /\ stream' = stream
  <2>1. StreamedRight /\ ~ held /\ delivered' = delivered /\ phase' = "driving"
    BY <1>0, <1>1, <1>3, SMTT(30) DEF RunnerInv
  <2>2. StreamedRight' /\ RunnerTypes'
    BY <1>0, <1>3, <2>1, Zenon DEF StreamedRight, RunnerTypes, Told, Untold
  <2> QED
    BY <1>0, <1>3, <2>1, <2>2, Zenon DEF RunnerInv
<1>4. CASE mode = "streamed" /\ stream' # stream
  <2>1. /\ NoTerminal(stream) /\ \E e : stream' = Append(stream, e)
    BY <1>0, <1>4, StepShape, Zenon
  <2>2. IsSeq(stream) /\ IsSeq(stream') /\ stream' # <<>> /\ Len(stream') >= 1
    <3>1. IsSeq(stream) /\ IsSeq(stream')
      BY <1>0, Zenon DEF LoopInv, LoopTypes
    <3> QED
      BY <2>1, <3>1, AppendIsSeq DEF IsSeq
  <2>3. Untold
    <3>1. (Untold /\ NoTerminal(stream)) \/ (Told /\ OnlyLast(stream))
      BY <1>0, <1>4, Zenon DEF RunnerInv, StreamedRight
    <3> QED
      BY <2>1, <2>2, <3>1, StatusIs, Zenon
  <2>4. (LoopInv => NoTerminal(stream) \/ OnlyLast(stream))'
    BY OneTerminal, PTL
  <2>5. ev = stream'[Len(stream')]
    BY Zenon
  <2>6. CASE OnlyLast(stream')
    <3>1. held
      BY <1>4, <2>3, <2>5, <2>6, Zenon DEF OnlyLast, Untold
    <3>2. delivered' = delivered /\ phase' = "finalizing"
      BY <1>1, <3>1, Zenon
    <3>3. StreamedRight' /\ RunnerTypes'
      BY <1>0, <2>3, <2>6, <3>2, Zenon DEF StreamedRight, RunnerTypes, Untold
    <3> QED
      BY <1>0, <1>4, <3>2, <3>3, Zenon DEF RunnerInv
  <2>7. CASE NoTerminal(stream')
    <3>1. ~ IsTerminal(ev) /\ ~ held
      BY <2>2, <2>5, <2>7 DEF NoTerminal, IsSeq
    <3>2. delivered' = Append(delivered, ev) /\ phase' = "driving"
      BY <1>0, <1>1, <1>4, <3>1, SMTT(30)
    <3> HIDE DEF ev
    <3>3. IsSeq(delivered') /\ NoTerminal(delivered')
      BY <1>0, <2>3, <3>1, <3>2, AppendIsSeq, StaysOpen, Zenon DEF Untold
    <3>4. StreamedRight' /\ RunnerTypes'
      BY <1>0, <2>3, <2>7, <3>2, <3>3, Zenon DEF StreamedRight, RunnerTypes, Untold
    <3> QED
      BY <1>0, <1>4, <3>2, <3>4, Zenon DEF RunnerInv
  <2> QED
    BY <2>4, <2>6, <2>7, Zenon
<1> QED
  BY <1>0, <1>2, <1>3, <1>4, Zenon DEF RunnerTypes

\* The terminal event that was held back is shown once the run is persisted.
LEMMA ExposeStep ==
  ASSUME RunnerInv, LoopInv', ExposeTerminal PROVE RunnerInv'
<1>0. /\ phase = "finalizing" /\ phase' = "driving" /\ appends' = appends + 1 /\ LoopInv /\ RunnerTypes
      /\ delivered' = Append(delivered, stream[Len(stream)]) /\ interrupt = None /\ IsSeq(delivered)
      /\ mode = "streamed" /\ StreamedRight
      /\ UNCHANGED <<loopVars, mode, interrupt, result>> /\ UNCHANGED <<stream, pc>>
  BY Zenon DEF ExposeTerminal, Finalize, RunnerInv, RunnerTypes, RunRight, loopVars
<1>1. Untold /\ OnlyLast(stream)
  BY <1>0, Zenon DEF StreamedRight
<1>2. IsTerminal(stream[Len(stream)])
  BY <1>1, Zenon DEF OnlyLast
<1>3. IsSeq(delivered') /\ OnlyLast(delivered') /\ appends' = 1
  <2>1. IsSeq(delivered') /\ OnlyLast(delivered')
    BY <1>0, <1>1, <1>2, AppendIsSeq, ClosedBy, Zenon DEF Untold
  <2>2. appends' = 1
    BY <1>0, <1>1 DEF Untold
  <2> QED
    BY <2>1, <2>2, Zenon
<1>4. StreamedRight' /\ RunnerTypes'
  BY <1>0, <1>1, <1>3 DEF StreamedRight, RunnerTypes, Told
<1> QED
  BY <1>0, <1>4, SMTT(30) DEF RunnerInv

\* What collecting events gives.
LEMMA CollectedIs ==
  ASSUME NEW events, IsSeq(events), OnlyLast(events)
  PROVE  /\ Collected(events) \in {"ok", "agent", "other"}
         /\ Collected(events) = "ok" => events[Len(events)].kind = "completed"
         /\ Collected(events) \in {"agent", "other"} => events[Len(events)].kind = "failed"
<1>1. DOMAIN events = 1 .. Len(events) /\ Len(events) \in Nat /\ Len(events) >= 1
  BY Zenon DEF IsSeq, OnlyLast
<1>2. events[Len(events)] = events[Len(events)] /\ IsTerminal(events[Len(events)])
  BY Zenon DEF OnlyLast
<1>3. (\E i \in DOMAIN events : events[i].kind = "failed") <=> events[Len(events)].kind = "failed"
  BY <1>1, <1>2 DEF OnlyLast, IsTerminal
<1>4. events[Len(events)].kind \in {"completed", "failed"}
  BY <1>2, Zenon DEF IsTerminal
<1>5. CASE events[Len(events)].kind = "failed"
  BY <1>3, <1>5, Zenon DEF Collected
<1>6. CASE events[Len(events)].kind = "completed"
  <2>1. ~ \E i \in DOMAIN events : events[i].kind = "failed"
    BY <1>3, <1>6, Zenon
  <2> QED
    BY <1>6, <2>1, Zenon DEF Collected
<1> QED
  BY <1>4, <1>5, <1>6, Zenon

\* run returns.
LEMMA ReturnsStep ==
  ASSUME RunnerInv, LoopInv', RunReturns PROVE RunnerInv'
<1>0. /\ phase = "drained" /\ phase' = "done" /\ appends' = appends + 1 /\ LoopInv /\ RunnerTypes
      /\ mode = "run" /\ RunRight /\ UNCHANGED <<mode, interrupt, delivered, stream, pc>>
      /\ result' = IF EffectiveInterrupt = None THEN Collected(stream) ELSE EffectiveInterrupt
      /\ interrupt = None => pc = "ended"
  BY Zenon DEF RunReturns, Finalize, RunnerInv, loopVars
<1>1. appends = 0 /\ appends' = 1 /\ appends' \in Nat
  BY <1>0 DEF RunRight
<1>2. SawTerminal' <=> SawTerminal
  BY <1>0, Zenon DEF SawTerminal
<1>3. IsSeq(stream)
  BY <1>0, Zenon DEF LoopInv, LoopTypes
<1>4. CASE SawTerminal
  <2>1. OnlyLast(stream) /\ EffectiveInterrupt = None
    BY <1>0, <1>4, SawTerminalIs, Zenon DEF EffectiveInterrupt
  <2>2. /\ result' \in {"ok", "agent", "other"}
        /\ result' = "ok" => stream[Len(stream)].kind = "completed"
        /\ result' \in {"agent", "other"} => stream[Len(stream)].kind = "failed"
    BY <1>0, <1>3, <2>1, CollectedIs, Zenon
  <2>3. RunRight' /\ RunnerTypes'
    BY <1>0, <1>1, <2>2, Zenon DEF RunRight, RunnerTypes
  <2> QED
    BY <1>0, <2>3, Zenon DEF RunnerInv
<1>5. CASE ~ SawTerminal
  <2>1. interrupt # None /\ EffectiveInterrupt = interrupt
    BY <1>0, <1>5, EndedSaw, Zenon DEF EffectiveInterrupt
  <2>2. result' = interrupt /\ result' \in {"cancelled", "timed_out"}
    BY <1>0, <2>1, Zenon DEF RunnerTypes
  <2>3. RunRight' /\ RunnerTypes'
    BY <1>0, <1>1, <1>2, <1>5, <2>2, Zenon DEF RunRight, RunnerTypes
  <2> QED
    BY <1>0, <2>3, Zenon DEF RunnerInv
<1> QED
  BY <1>4, <1>5, Zenon

\* run_streamed ends.
LEMMA StreamedStep ==
  ASSUME RunnerInv, LoopInv', StreamedEnds PROVE RunnerInv'
<1>0. /\ phase = "drained" /\ phase' = "done" /\ LoopInv /\ RunnerTypes /\ IsSeq(delivered)
      /\ mode = "streamed" /\ StreamedRight /\ UNCHANGED <<mode, interrupt, stream, pc>>
      /\ interrupt = None => pc = "ended"
      /\ result' = Collected(delivered')
  BY Zenon DEF StreamedEnds, RunnerInv, RunnerTypes, loopVars
<1>1. IsSeq(stream) /\ ((Untold /\ NoTerminal(stream)) \/ (Told /\ OnlyLast(stream)))
  BY <1>0, Zenon DEF StreamedRight, LoopInv, LoopTypes
<1>2. Told' /\ IsSeq(delivered')
  <2>1. CASE SawTerminal
    <3>1. Told /\ EffectiveInterrupt = None
      BY <1>0, <1>1, <2>1, SawTerminalIs, StatusIs, Zenon DEF EffectiveInterrupt
    <3>2. UNCHANGED <<appends, delivered>>
      BY <3>1, Zenon DEF StreamedEnds
    <3> QED
      BY <1>0, <3>1, <3>2, SMTT(30) DEF Told
  <2>2. CASE ~ SawTerminal
    <3>1. Untold /\ EffectiveInterrupt # None
      BY <1>0, <1>1, <2>2, SawTerminalIs, StatusIs, EndedSaw, Zenon DEF EffectiveInterrupt
    <3> DEFINE ev == Ev("failed", EffectiveInterrupt)
    <3>2. appends' = appends + 1 /\ delivered' = Append(delivered, ev) /\ IsTerminal(ev)
      BY <3>1, Zenon DEF StreamedEnds, Finalize, IsTerminal, Ev
    <3> HIDE DEF ev
    <3>3. IsSeq(delivered') /\ OnlyLast(delivered') /\ appends' = 1
      BY <1>0, <3>1, <3>2, AppendIsSeq, ClosedBy, SMTT(30) DEF Untold
    <3> QED
      BY <3>3, Zenon DEF Told
  <2> QED
    BY <2>1, <2>2, Zenon
<1>3. appends' \in Nat
  BY <1>2, Zenon DEF Told
<1>4. result' # "start_error"
  BY <1>0, Zenon DEF Collected
<1>5. StreamedRight' /\ RunnerTypes'
  BY <1>0, <1>2, <1>3, <1>4, SMTT(30) DEF StreamedRight, RunnerTypes
<1> QED
  BY <1>0, <1>5, SMTT(30) DEF RunnerInv

\* The steps that show the caller nothing.
LEMMA SilentSteps ==
  ASSUME RunnerInv, LoopInv',
         \/ Load \/ StreamEnds \/ (\E i \in {"cancelled", "timed_out"} : Interrupted(i))
         \/ Abandon \/ Cancel \/ DeadlinePasses \/ UNCHANGED vars
  PROVE  RunnerInv'
<1>0. LoopInv /\ RunnerTypes /\ UNCHANGED <<stream, pc, mode, appends, delivered>>
  BY Zenon
     DEF Load, StreamEnds, Interrupted, Abandon, Cancel, DeadlinePasses, vars, loopVars, runnerVars, RunnerInv
<1>1. CASE Load
  <2>1. /\ phase = "load" /\ delivered = <<>> /\ stream = <<>> /\ appends = 0 /\ interrupt = None
        /\ \/ phase' = "driving" /\ UNCHANGED result
           \/ phase' = "done" /\ result' = "start_error"
        /\ UNCHANGED interrupt
    BY <1>1, Zenon DEF Load, RunnerInv
  <2>2. NoTerminal(delivered) /\ NoTerminal(stream)
    BY <2>1, SMTT(30) DEF NoTerminal
  <2>3. RunnerTypes' /\ (mode = "run" => RunRight') /\ (mode = "streamed" => StreamedRight')
    BY <1>0, <2>1, <2>2, Zenon DEF RunnerTypes, RunRight, StreamedRight, Untold, NoTerminal
  <2> QED
    BY <1>0, <2>1, <2>3, Zenon DEF RunnerInv
<1>2. CASE StreamEnds \/ \E i \in {"cancelled", "timed_out"} : Interrupted(i)
  <2>1. /\ phase = "driving" /\ phase' = "drained" /\ UNCHANGED result
        /\ interrupt' \in {"cancelled", "timed_out"} \/ (pc = "ended" /\ UNCHANGED interrupt)
    BY <1>2, Zenon DEF StreamEnds, Interrupted
  <2>2. RunnerTypes' /\ (interrupt' = None => pc = "ended")
    BY <1>0, <2>1, SMTT(30) DEF RunnerTypes, None
  <2>3. (mode = "run" => RunRight') /\ (mode = "streamed" => StreamedRight')
    BY <1>0, <2>1, Zenon DEF RunnerInv, RunRight, StreamedRight, Told, Untold
  <2> QED
    BY <1>0, <2>1, <2>2, <2>3, Zenon DEF RunnerInv
<1>3. CASE Abandon
  <2>1. phase \notin {"done", "abandoned"} /\ phase' = "abandoned" /\ UNCHANGED <<result, interrupt>>
    BY <1>3, Zenon DEF Abandon, Over
  <2>2. NoTerminal(<<>>)
    BY SMTT(30) DEF NoTerminal
  <2>3. RunnerTypes' /\ (mode = "run" => RunRight')
    BY <1>0, <2>1, Zenon DEF RunnerTypes, RunnerInv, RunRight
  <2>4. mode = "streamed" => NoTerminal(delivered) \/ Told
    BY <1>0, <2>1, <2>2, Zenon DEF RunnerTypes, RunnerInv, StreamedRight, Untold
  <2>5. mode = "streamed" => StreamedRight'
    BY <1>0, <2>1, <2>4, Zenon DEF StreamedRight, Told
  <2> QED
    BY <1>0, <2>1, <2>3, <2>5, Zenon DEF RunnerInv
<1>4. CASE Cancel \/ DeadlinePasses \/ UNCHANGED vars
  <2>1. UNCHANGED <<phase, result, interrupt>>
    BY <1>4, Zenon DEF Cancel, DeadlinePasses, vars, runnerVars
  <2>2. SawTerminal' <=> SawTerminal
    BY <1>0, Zenon DEF SawTerminal
  <2>3. RunnerTypes' /\ (mode = "run" => RunRight') /\ (mode = "streamed" => StreamedRight')
    BY <1>0, <2>1, <2>2, Zenon DEF RunnerInv, RunnerTypes, RunRight, StreamedRight, Told, Untold
  <2> QED
    BY <1>0, <2>1, <2>3, SMTT(30) DEF RunnerInv
<1> QED
  BY <1>1, <1>2, <1>3, <1>4, Zenon

\* The caller knows how the run ended.
Known ==
  \/ \E i \in DOMAIN delivered : IsTerminal(delivered[i])
  \/ phase = "done" /\ result # "start_error"

-----------------------------------------------------------------------------
(* The transitions, and what the loop and the runner promise.                 *)

\* A transition: its events are queued and its action is kept.
LEMMA TransitionStep ==
  ASSUME LoopInv, Transitions PROVE LoopInv'
<1>0. /\ pc = "transition" /\ LoopTypes /\ AtTransition /\ NoTerminal(stream) /\ failure = None
      /\ IsSeq(stream) /\ stream # <<>> /\ model_calls <= MaxTurns + 2 /\ Len(parents) <= MaxAgentDepth
      /\ model_calls \in Nat /\ tx_input.usage \in Nat /\ loop_state.usage \in Nat
      /\ UNCHANGED <<tx_input, failure, parents, stream, spent, model_calls>>
  BY SMTT(30) DEF LoopInv, LoopTypes, AtTransition, Running, Transitions
<1> DEFINE o == Transition(agent, loop_state, tx_input)
           total == loop_state.usage + tx_input.usage
<1>1. /\ loop_state' = o.state /\ queue' = o.events /\ action' = o.action
      /\ pc' = IF o.state.kind = "done" THEN "output_guardrail" ELSE "emit"
  BY Zenon DEF Transitions
<1>2. Steps(o, total, model_calls)
  BY <1>0, TransitionRight, Zenon DEF AtTransition
<1>3. spent = ParentUsage + total /\ ParentUsage \in Nat /\ total \in Nat /\ ParentUsage' = ParentUsage
  <2>1. ParentUsage \in Nat /\ ParentUsage' = ParentUsage
    BY <1>0, ParentUsageNat, Zenon DEF ParentUsage
  <2> QED
    BY <1>0, <2>1, SMTT(30) DEF AtTransition, Total
<1> HIDE DEF o, total
<1>4. LoopTypes'
  BY <1>0, <1>1, <1>2, Zenon DEF LoopTypes, Steps, Emitting
<1>5. AtEmit'
  <2>1. CASE Ends(o, total)
    <3>1. /\ action' = "terminate" /\ OnlyLast(queue') /\ queue' # <<>>
          /\ loop_state'.kind \in {"done", "failed"}
      BY <1>1, <2>1, Zenon DEF Ends, OnlyLast
    <3>2. Verdict(queue[Len(queue)], ParentUsage)'
      <4>1. CASE o.state.kind = "done" /\ o.events[Len(o.events)] = Ev("completed", total)
        <5>1. queue'[Len(queue')].kind = "completed" /\ queue'[Len(queue')].val = total
          BY <1>1, <4>1 DEF Ev
        <5>2. total + ParentUsage = spent
          BY <1>3
        <5> QED
          BY <1>0, <1>1, <1>3, <4>1, <5>1, <5>2, ZenonT(40) DEF Verdict
      <4>2. CASE o.state.kind = "failed" /\ o.state.error # None
                 /\ o.events[Len(o.events)].kind = "failed"
        BY <1>1, <4>2, Zenon DEF Verdict
      <4> QED
        BY <2>1, <4>1, <4>2, Zenon DEF Ends
    <3> QED
      BY <1>0, <1>1, <3>1, <3>2, Zenon DEF AtEmit, NoTerminal
  <2>2. CASE Asks(o, model_calls) /\ NoTerminal(o.events) /\ o.state.usage = total
    <3>1. action' # "terminate" /\ o.state.kind # "done" /\ o.state.kind # "failed" /\ pc' = "emit"
      BY <1>1, <2>2, Zenon DEF Asks
    <3>2. Running' /\ NoTerminal(queue)'
      BY <1>0, <1>1, <2>2, Zenon DEF Running, NoTerminal
    <3>3. (spent = Total)'
      BY <1>0, <1>1, <1>3, <2>2, Zenon DEF Total
    <3>4. Asks([state |-> loop_state, action |-> action], model_calls)'
      BY <1>0, <1>1, <2>2, Zenon DEF Asks
    <3> QED
      BY <1>1, <3>1, <3>2, <3>3, <3>4, Zenon DEF AtEmit
  <2> QED
    BY <1>2, <2>1, <2>2, Zenon DEF Steps
<1> QED
  BY <1>0, <1>1, <1>4, <1>5, SMTT(30) DEF LoopInv, Returned, Beginning, Emitting, Tooling, Handing

\* Every step of the loop keeps the invariant.
LEMMA LoopStep == LoopInv /\ [LoopNext]_loopVars => LoopInv'
<1> SUFFICES ASSUME LoopInv, [LoopNext]_loopVars PROVE LoopInv'
  BY Zenon
<1>1. CASE UNCHANGED loopVars
  <2>1. UNCHANGED <<pc, loop_state, tx_input, queue, action, failure, parents, stream, spent, model_calls>>
    BY <1>1, Zenon DEF loopVars
  <2>2. LoopTypes => LoopTypes'
    BY <2>1, Zenon DEF LoopTypes
  <2>3. Running' <=> Running
    BY <2>1, Zenon DEF Running
  <2>4. Total' = Total /\ ParentUsage' = ParentUsage
    BY <2>1, Zenon DEF Total, ParentUsage
  <2>5. /\ AtBeginning => AtBeginning'
        /\ AtTransition => AtTransition'
    BY <2>1, <2>3, <2>4, Zenon DEF AtBeginning, AtTransition
  <2>6. AtEmit => AtEmit'
    BY <2>1, <2>3, <2>4, Zenon DEF AtEmit, Verdict
  <2>7. /\ AtModel => AtModel'
        /\ AtTools => AtTools'
        /\ AtHandoff => AtHandoff'
    BY <2>1, <2>3, <2>4, Zenon DEF AtModel, AtTools, AtHandoff
  <2>8. AtReturn => AtReturn'
    BY <2>1, <2>4, Zenon DEF AtReturn, Verdict
  <2>9. Verdict(stream[Len(stream)], 0) => Verdict(stream[Len(stream)], 0)'
    BY <2>1, Zenon DEF Verdict
  <2> QED
    BY <2>1, <2>2, <2>5, <2>6, <2>7, <2>8, <2>9, Zenon DEF LoopInv
<1>2. CASE RunStarted \/ ChecksNames \/ OnRunStart \/ InputGuardrail \/ InputTripped
  BY <1>2, BeginningSteps, Zenon
<1>3. CASE Transitions
  BY <1>3, TransitionStep, Zenon
<1>4. CASE OutputGuardrail
  BY <1>4, OutputGuardrailStep, Zenon
<1>5. CASE Emit \/ OnTurnStart
  BY <1>5, EmitSteps, Zenon
<1>6. CASE Acts
  BY <1>6, ActsStep, Zenon
<1>7. CASE ModelFails \/ \E reply \in Replies : ModelResponds(reply)
  BY <1>7, ModelSteps, Zenon
<1>8. CASE \/ \E i \in DOMAIN outcome : ToolStarts(i) \/ ToolFinishes(i)
           \/ ToolsFinish \/ EmitDenied \/ ToolsAnswer
  BY <1>8, ToolSteps, Zenon
<1>9. CASE HandoffDepth \/ OnHandoff \/ EmitHandoff \/ TargetRuns
  BY <1>9, HandoffSteps, Zenon
<1>10. CASE OnRunComplete \/ OnSubagentStop
  BY <1>10, ReturnSteps, Zenon
<1> QED
  BY <1>1, <1>2, <1>3, <1>4, <1>5, <1>6, <1>7, <1>8, <1>9, <1>10, ZenonT(40) DEF LoopNext, DriverStep, AwaitEnds

\* The loop stays within LoopInv: what it owes the stream, the slot, the total and the
\* bounds at each place its driver can be (agent.rs run, loop_state.rs transition).
THEOREM LoopInvariant == Spec => []LoopInv
<1>1. Init => LoopInv
  BY LoopStarts, Zenon
<1>2. LoopInv /\ [LoopNext]_loopVars => LoopInv'
  BY LoopStep, Zenon
<1> QED
  BY <1>1, <1>2, PTL DEF Spec

\* UsageConserved for every turn limit, depth and set of replies: RunCompleted reports the
\* tokens of every model call of every agent of the handoff chain.
THEOREM UsageIsConserved == Spec => []UsageConserved
<1>1. LoopInv => UsageConserved
  <2> SUFFICES ASSUME LoopInv, NEW i \in DOMAIN stream, stream[i].kind = "completed"
               PROVE  stream[i].val = spent
    BY Zenon DEF UsageConserved
  <2>1. i \in 1 .. Len(stream) /\ Len(stream) \in Nat
    BY Zenon DEF LoopInv, LoopTypes, IsSeq
  <2>2. IsTerminal(stream[i])
    BY Zenon DEF IsTerminal
  <2>3. OnlyLast(stream)
    BY <2>1, <2>2, OneTerminal, Zenon DEF NoTerminal
  <2>4. i = Len(stream)
    BY <2>1, <2>2, <2>3 DEF OnlyLast
  <2> QED
    BY <2>3, <2>4, CompletedIsExact, Zenon
<1> QED
  BY <1>1, LoopInvariant, PTL

\* WorkBounded for every turn limit and depth: an agent calls its model at most two times
\* more than max_turns, and a chain holds at most max_agent_depth handoffs.
THEOREM WorkIsBounded == Spec => []WorkBounded
<1>1. LoopInv => WorkBounded
  BY SMTT(30) DEF LoopInv, WorkBounded
<1> QED
  BY <1>1, LoopInvariant, PTL

\* Whatever the limits, the replies and the length of the handoff chain, a stream of LlmAgent
\* keeps the safety half of the contract of an agent (ImplementsAgent): RunStarted first, one
\* terminal event and nothing after it, and by the end an error in the slot exactly if the
\* run failed.
THEOREM KeepsTheContract == Spec => AgentSafety
<1>1. Init => Agent!Init
  <2> SUFFICES ASSUME Init PROVE Agent!Init
    BY Zenon
  <2>1. pc = "run_start" /\ stream = <<>> /\ failure = None
    BY Zenon DEF Init
  <2>2. IsSeq(stream) /\ NoTerminal(stream)
    BY <2>1 DEF IsSeq, NoTerminal
  <2>3. StatusOf(pc, stream) = "fresh"
    BY <2>1, <2>2, StatusIs
  <2>4. StreamStatus = "fresh"
    BY <2>3, Zenon DEF StreamStatus, StatusOf, SawTerminal
  <2> QED
    BY <2>1, <2>4, Zenon DEF Agent!Init
<1>2. LoopInv /\ LoopInv' /\ [LoopNext]_loopVars => [Agent!Next]_(Agent!contractVars)
  BY ContractStep, Zenon
<1> QED
  BY <1>1, <1>2, LoopInvariant, PTL DEF Spec, AgentSafety, Agent!Safety

\* The runner stays within RunnerInv: what it has shown and appended at each phase, for run
\* and for run_streamed (runner.rs controlled, runtime-tokio lib.rs).
THEOREM RunnerInvariant == RunnerSpec => []RunnerInv
<1>1. RunnerInit => RunnerInv
  <2> SUFFICES ASSUME RunnerInit PROVE RunnerInv
    BY Zenon
  <2>1. Init /\ phase = "load" /\ mode \in {"run", "streamed"} /\ interrupt = None /\ appends = 0
        /\ delivered = <<>> /\ stream = <<>>
    BY Zenon DEF RunnerInit, Init
  <2>2. LoopInv
    BY <2>1, LoopStarts, Zenon
  <2>3. RunnerTypes
    BY <2>1 DEF RunnerTypes, IsSeq
  <2>4. RunRight /\ StreamedRight
    BY <2>1, Zenon DEF RunRight, StreamedRight
  <2> QED
    BY <2>1, <2>2, <2>3, <2>4, Zenon DEF RunnerInv
<1>2. RunnerInv /\ [Next]_vars => RunnerInv'
  <2> SUFFICES ASSUME RunnerInv, [Next]_vars PROVE RunnerInv'
    BY Zenon
  <2>1. LoopInv'
    BY RunnerDrives, LoopStep, Zenon DEF RunnerInv
  <2> QED
    BY <2>1, PollStep, ExposeStep, ReturnsStep, StreamedStep, SilentSteps, Zenon DEF Next, RunnerStep
<1> QED
  BY <1>1, <1>2, PTL DEF RunnerSpec

\* VerdictFollowsStream for every agent, limit and moment of a cancel, a deadline or a caller
\* that walks away: run reports an interrupt only if it cut the run short, run_streamed shows
\* one terminal event, the last (effective_interrupt, interrupt_error, run_streamed).
THEOREM TheVerdictFollows == RunnerSpec => []VerdictFollowsStream
<1>1. RunnerInv => VerdictFollowsStream
  <2> SUFFICES ASSUME RunnerInv PROVE VerdictFollowsStream
    BY Zenon
  <2>0. RunnerTypes /\ DOMAIN delivered = 1 .. Len(delivered) /\ Len(delivered) \in Nat
    BY SMTT(30) DEF RunnerInv, RunnerTypes, IsSeq
  <2>1. NoTerminal(delivered) \/ OnlyLast(delivered)
    <3>1. delivered = <<>> => NoTerminal(delivered)
      BY DEF NoTerminal
    <3> QED
      BY <2>0, <3>1, Zenon DEF RunnerInv, RunnerTypes, RunRight, StreamedRight, Told, Untold
  <2>2. \A i \in DOMAIN delivered : IsTerminal(delivered[i]) => i = Len(delivered)
    BY <2>0, <2>1 DEF NoTerminal, OnlyLast
  <2>3. phase = "done" /\ mode = "streamed" /\ result # "start_error" =>
          delivered # <<>> /\ IsTerminal(delivered[Len(delivered)])
    BY Zenon DEF RunnerInv, StreamedRight, Told, OnlyLast
  <2>4. phase = "done" /\ mode = "run" =>
          /\ result \in {"cancelled", "timed_out"} => ~SawTerminal /\ result = interrupt
          /\ result = "ok" => stream[Len(stream)].kind = "completed"
          /\ result \in {"agent", "other"} => stream[Len(stream)].kind = "failed"
    BY Zenon DEF RunnerInv, RunRight
  <2> QED
    BY <2>2, <2>3, <2>4, Zenon DEF VerdictFollowsStream
<1> QED
  BY <1>1, RunnerInvariant, PTL

\* The first half of PersistedBeforeExposed: by the time the caller knows how the run ended,
\* the runner has issued its append, and it never issues a second one.
THEOREM AppendsOnce == RunnerSpec => [](Known => appends = 1)
<1>1. RunnerInv => (Known => appends = 1)
  <2> SUFFICES ASSUME RunnerInv, Known PROVE appends = 1
    BY Zenon
  <2>0. RunnerTypes /\ DOMAIN delivered = 1 .. Len(delivered)
    BY SMTT(30) DEF RunnerInv, RunnerTypes, IsSeq
  <2>1. CASE \E i \in DOMAIN delivered : IsTerminal(delivered[i])
    <3>1. delivered # <<>> /\ ~ NoTerminal(delivered)
      BY <2>0, <2>1, SMTT(30) DEF NoTerminal
    <3> QED
      BY <2>0, <3>1, Zenon DEF RunnerInv, RunnerTypes, RunRight, StreamedRight, Told, Untold
  <2>2. CASE phase = "done" /\ result # "start_error"
    BY <2>0, <2>2, Zenon DEF RunnerInv, RunnerTypes, RunRight, StreamedRight, Told
  <2> QED
    BY <2>1, <2>2, Zenon DEF Known
<1> QED
  BY <1>1, RunnerInvariant, PTL

=============================================================================
