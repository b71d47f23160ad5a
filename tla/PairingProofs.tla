---------------------------- MODULE PairingProofs -----------------------------
(***************************************************************************)
(* Tool calls and their results, for every set of replies and every limit:   *)
(* the conversation the model is sent, the stream the consumer sees and the  *)
(* log the runner persists answer each call once.                            *)
(***************************************************************************)
EXTENDS AgentLoopProofs

-----------------------------------------------------------------------------
(* What the consumer has seen and is about to see.                           *)

Shown(kind) == Joined(Vals(stream, kind), Vals(queue, kind))
ShownSame == \A kind \in Traffic : Shown(kind)' = Shown(kind)

\* A yield adds its event, as far as calls and outputs go.
LEMMA YieldVals ==
  ASSUME IsSeq(stream), NEW ev, Yield(ev), NEW kind \in Traffic
  PROVE  Vals(stream', kind) = Joined(Vals(stream, kind), Vals(<<ev>>, kind)) /\ IsSeq(stream')
<1>0. kind \in {"call", "transfer", "output"}
  BY Zenon DEF Traffic
<1>1. CASE stream' = stream /\ ev.kind = "run_started"
  <2>1. Vals(<<ev>>, kind) = <<>>
    BY <1>0, <1>1, ValsShort, Zenon
  <2>2. IsSeq(Vals(stream, kind))
    BY ValsLaws, Zenon
  <2> QED
    BY <1>1, <2>1, <2>2, Unit, Zenon
<1>2. CASE stream' = Append(stream, Forwarded(ev))
  <2> DEFINE f == Forwarded(ev)
             one == <<f>>
  <2>1. Vals(one, kind) = Vals(<<ev>>, kind)
    <3>1. CASE ev.kind = "completed"
      <4>1. f.kind = "completed"
        BY <3>1, Zenon DEF Forwarded, Ev
      <4> QED
        BY <1>0, <3>1, <4>1, ValsShort, Zenon
    <3>2. CASE ev.kind # "completed"
      BY <3>2, Zenon DEF Forwarded
    <3> QED
      BY <3>1, <3>2, Zenon
  <2>2. IsSeq(one) /\ IsSeq(Append(stream, f)) /\ Append(stream, f) = Joined(stream, one)
    BY ShortLists, AppendIsSeq, OneMore, Zenon
  <2> HIDE DEF one, f
  <2>3. Vals(Joined(stream, one), kind) = Joined(Vals(stream, kind), Vals(one, kind))
    BY <2>2, ValsLaws
  <2> QED
    BY <1>2, <2>1, <2>2, <2>3, Zenon DEF f
<1> QED
  BY <1>1, <1>2, Zenon DEF Yield

\* The head of the queue goes out: what is shown stays the same.
LEMMA HeadShown ==
  ASSUME IsSeq(stream), IsSeq(queue), queue # <<>>, Yield(Head(queue)), queue' = Tail(queue),
         NEW kind \in Traffic
  PROVE  Shown(kind)' = Shown(kind) /\ IsSeq(stream') /\ IsSeq(queue')
<1> DEFINE one == <<Head(queue)>>
           a == Vals(stream, kind)
           b == Vals(one, kind)
           d == Vals(Tail(queue), kind)
<1>1. IsSeq(one) /\ IsSeq(Tail(queue)) /\ queue = Joined(one, Tail(queue))
  BY ShortLists, TailIsSeq, OneMore, Zenon
<1>2. Vals(stream', kind) = Joined(a, b) /\ IsSeq(stream')
  BY YieldVals, Zenon
<1> HIDE DEF one
<1>3. Vals(Joined(one, Tail(queue)), kind) = Joined(b, d)
  BY <1>1, ValsLaws
<1>4. IsSeq(a) /\ IsSeq(b) /\ IsSeq(d)
  BY <1>1, ValsLaws, Zenon
<1>5. Joined(Joined(a, b), d) = Joined(a, Joined(b, d))
  <2> HIDE DEF a, b, d
  <2> QED
    BY <1>4, Associates
<1>6. Vals(queue, kind) = Joined(b, d)
  BY <1>1, <1>3, Zenon
<1> QED
  BY <1>1, <1>2, <1>5, <1>6, Zenon DEF Shown

\* An event that is neither a call nor an output goes out, and the queue, if it is dropped,
\* held none: what is shown stays the same.
LEMMA QuietShown ==
  ASSUME IsSeq(stream), IsSeq(queue), NEW ev, ev.kind \notin Traffic, Yield(ev),
         UNCHANGED queue \/ (NoTraffic(queue) /\ queue' = <<>>), NEW kind \in Traffic
  PROVE  Shown(kind)' = Shown(kind) /\ IsSeq(stream') /\ IsSeq(queue')
<1>1. Vals(stream', kind) = Joined(Vals(stream, kind), Vals(<<ev>>, kind)) /\ IsSeq(stream')
  BY YieldVals, Zenon
<1>2. Vals(<<ev>>, kind) = <<>>
  BY ValsShort, Zenon
<1>3. Joined(Vals(stream, kind), <<>>) = Vals(stream, kind)
  <2>1. IsSeq(Vals(stream, kind))
    BY ValsLaws, Zenon
  <2> QED
    BY <2>1, Unit, Zenon
<1>4. Vals(queue', kind) = Vals(queue, kind) /\ IsSeq(queue')
  BY QuietVals, ValsShort, ShortLists, Zenon
<1> QED
  BY <1>1, <1>2, <1>3, <1>4, Zenon DEF Shown

-----------------------------------------------------------------------------
(* The inductive invariant of the pairing: what the consumer was shown of    *)
(* calls and of outputs, and what the conversation holds of calls and of     *)
(* results, agree up to the calls of the turn that are still open.           *)

\* The turn's calls are shown, or in the conversation, and not yet answered there.
Owes(kind) ==
  \/ pc \in Tooling
  \/ pc \in Emitting /\ action = "execute_tools"
  \/ pc = "transition" /\ tx_input.kind = kind

Pending(kind) == IF Owes(kind) THEN CallIds(tx_input) ELSE <<>>

StreamPairs == Shown("call") = Joined(Shown("output"), Pending("results"))

Paired == {"calling", "executing", "finalizing"}

ConversationPairs ==
  loop_state.kind \in Paired =>
    Ids(conversation, "call") = Joined(Ids(conversation, "result"), Pending("response"))

QueueShape ==
  /\ pc \in Tooling \union Handing \union {"output_guardrail"} => NoTraffic(queue)
  /\ pc \in Emitting => LateTurn(queue) /\ (action = "execute_tools" => NoTurn(queue))
  /\ pc \in Returned \union {"on_run_complete"} => queue = <<>>

PairInv == StreamPairs /\ ConversationPairs /\ QueueShape /\ IsSeq(conversation)

\* A step that shows what was shown, holds what was held and owes what was owed.
LEMMA SamePairs ==
  ASSUME PairInv, ShownSame,
         loop_state'.kind = loop_state.kind, UNCHANGED conversation,
         Pending("results")' = Pending("results"), Pending("response")' = Pending("response"),
         QueueShape'
  PROVE  PairInv' /\ ShownSame
<1>1. StreamPairs'
  BY Zenon DEF PairInv, StreamPairs, ShownSame, Traffic
<1>2. ConversationPairs'
  BY Zenon DEF PairInv, ConversationPairs
<1> QED
  BY <1>1, <1>2, Zenon DEF PairInv

\* An await that fails where nothing is owed and no call or output is queued.
LEMMA FailsPairs ==
  ASSUME LoopInv, PairInv, NEW error, FailsDirectly(error), NoTraffic(queue),
         UNCHANGED <<loop_state, conversation>>, ~ Owes("results"), ~ Owes("response")
  PROVE  PairInv' /\ ShownSame
<1>1. IsSeq(stream) /\ IsSeq(queue)
  BY Zenon DEF LoopInv, LoopTypes
<1> DEFINE ev == Ev("failed", error)
<1>2. ev.kind \notin Traffic /\ Yield(ev) /\ queue' = <<>> /\ pc' \in Returned
  BY Zenon DEF FailsDirectly, Ev, Traffic, Return, Returned
<1> HIDE DEF ev
<1>3. ShownSame
  BY <1>1, <1>2, QuietShown, Zenon DEF ShownSame, Traffic
<1>4. QueueShape' /\ ~ Owes("results")' /\ ~ Owes("response")'
  BY <1>2, Zenon DEF QueueShape, Owes, Handing, Returned, Tooling, Emitting
<1>5. \A kind \in {"results", "response"} : Pending(kind)' = Pending(kind)
  BY <1>4, Zenon DEF Pending
<1> QED
  BY <1>3, <1>4, <1>5, SamePairs, Zenon

\* The initial state.
LEMMA PairStarts == Init => PairInv
<1> SUFFICES ASSUME Init PROVE PairInv
  BY Zenon
<1>1. /\ pc = "run_start" /\ conversation = <<>> /\ queue = <<>> /\ stream = <<>>
  BY Zenon DEF Init
<1>2. \A kind : ~ Owes(kind) /\ Pending(kind) = <<>>
  BY <1>1, Zenon DEF Owes, Pending, Tooling, Emitting
<1>3. Joined(<<>>, <<>>) = <<>>
  BY ShortLists, Unit, Zenon
<1>4. StreamPairs
  BY <1>1, <1>2, <1>3, ValsShort, Zenon DEF StreamPairs, Shown
<1>5. ConversationPairs
  BY <1>1, <1>2, <1>3, IdsShort, Zenon DEF ConversationPairs
<1>6. QueueShape
  BY <1>1, Zenon DEF QueueShape, Handing, Tooling, Emitting, Returned
<1> QED
  BY <1>1, <1>4, <1>5, <1>6, ShortLists, Zenon DEF PairInv

\* Before the first turn.
LEMMA BeginningPairs ==
  ASSUME LoopInv, PairInv, RunStarted \/ ChecksNames \/ OnRunStart \/ InputGuardrail \/ InputTripped
  PROVE  PairInv' /\ ShownSame
<1>0. /\ IsSeq(stream) /\ IsSeq(queue) /\ queue = <<>> /\ tx_input.kind = "start"
      /\ pc \in Beginning /\ UNCHANGED <<loop_state, tx_input, conversation>>
  <2>1. /\ IsSeq(stream) /\ IsSeq(queue) /\ queue = <<>> /\ tx_input = Start
        /\ pc \in Beginning /\ UNCHANGED <<loop_state, tx_input, conversation>>
    BY Zenon DEF LoopInv, LoopTypes, AtBeginning, RunStarted, ChecksNames, OnRunStart,
           InputGuardrail, InputTripped, Beginning
  <2>2. Start.kind = "start"
    BY Zenon DEF Start
  <2> QED
    BY <2>1, <2>2, Zenon
<1>1. ~ Owes("results") /\ ~ Owes("response")
  BY <1>0, Zenon DEF Owes, Beginning, Tooling, Emitting
<1>2. NoTraffic(queue)
  <2>1. \A i \in 1 .. Len(<<>>) : <<>>[i].kind \notin Traffic
    OBVIOUS
  <2> QED
    BY <1>0, <2>1, Zenon DEF NoTraffic
<1>3. CASE \E error \in {"other", "hook_denied", "guardrail"} : FailsDirectly(error)
  BY <1>0, <1>1, <1>2, <1>3, FailsPairs, Zenon
<1>4. CASE /\ UNCHANGED queue /\ pc' \in Beginning \union {"transition"}
           /\ UNCHANGED stream \/ Yield(Ev("run_started", 0)) \/ Yield(Ev("guardrail", 0))
  <2>1. Ev("run_started", 0).kind \notin Traffic /\ Ev("guardrail", 0).kind \notin Traffic
    BY Zenon DEF Ev, Traffic
  <2>2. ShownSame
    <3>1. CASE UNCHANGED stream
      BY <1>4, <3>1, Zenon DEF Shown, ShownSame
    <3>2. CASE Yield(Ev("run_started", 0))
      BY <1>0, <1>4, <2>1, <3>2, QuietShown, Zenon DEF ShownSame
    <3>3. CASE Yield(Ev("guardrail", 0))
      BY <1>0, <1>4, <2>1, <3>3, QuietShown, Zenon DEF ShownSame
    <3> QED
      BY <1>4, <3>1, <3>2, <3>3, Zenon
  <2>3. /\ ~ Owes("results")' /\ ~ Owes("response")' /\ QueueShape'
    BY <1>0, <1>4, Zenon DEF Owes, QueueShape, Handing, Beginning, Tooling, Emitting, Returned
  <2> QED
    BY <1>0, <1>1, <2>2, <2>3, SamePairs, Zenon DEF Pending
<1>5. \/ \E error \in {"other", "hook_denied", "guardrail"} : FailsDirectly(error)
      \/ /\ UNCHANGED queue /\ pc' \in Beginning \union {"transition"}
         /\ UNCHANGED stream \/ Yield(Ev("run_started", 0)) \/ Yield(Ev("guardrail", 0))
  BY Zenon DEF RunStarted, ChecksNames, OnRunStart, InputGuardrail, InputTripped, Beginning
<1> QED
  BY <1>3, <1>4, <1>5, Zenon

\* The state machine makes its step.
LEMMA TransitionsPair ==
  ASSUME LoopInv, PairInv, Transitions PROVE PairInv'
<1> DEFINE o == Transition(agent, loop_state, tx_input)
           ids == CallIds(tx_input)
           A == Vals(stream, "call")
           B == Vals(stream, "output")
           P == Pending("results")
<1>0. /\ pc = "transition" /\ queue = <<>> /\ IsSeq(stream) /\ IsSeq(tx_input.calls)
      /\ Expects(loop_state, tx_input)
      /\ loop_state' = o.state /\ queue' = o.events /\ action' = o.action
      /\ pc' = IF o.state.kind = "done" THEN "output_guardrail" ELSE "emit"
      /\ UNCHANGED <<tx_input, conversation, stream>>
  BY Zenon DEF LoopInv, LoopTypes, AtTransition, Transitions
<1>1. Announces(o, tx_input) /\ GoesOn(o, loop_state, tx_input)
  BY <1>0, TransitionPairs, Zenon
<1> HIDE DEF o
<1>2. P = IF tx_input.kind = "results" THEN ids ELSE <<>>
  BY <1>0, Zenon DEF Pending, Owes, Tooling, Emitting
<1>3. Pending("response") = IF tx_input.kind = "response" THEN ids ELSE <<>>
  BY <1>0, Zenon DEF Pending, Owes, Tooling, Emitting
<1>4. \A kind : Pending(kind)' = IF o.action = "execute_tools" THEN ids ELSE <<>>
  BY <1>0, Zenon DEF Pending, Owes, Tooling, Emitting
<1>5. IsSeq(A) /\ IsSeq(B) /\ IsSeq(P) /\ IsSeq(ids)
  <2>1. Listed(tx_input.calls, "call", "id")
    BY <1>0, FieldLists, Zenon
  <2>2. IsSeq(ids)
    BY <2>1, Zenon DEF Listed, CallIds
  <2> QED
    BY <1>0, <1>2, <2>2, ValsLaws, ShortLists, Zenon
<1>6. A = Joined(B, P)
  <2>1. Joined(A, <<>>) = A /\ Joined(B, <<>>) = B
    BY <1>5, Unit, Zenon
  <2> QED
    BY <1>0, <2>1, ValsShort, Zenon DEF PairInv, StreamPairs, Shown
<1>7. StreamPairs'
  <2>1. Shown("output")' = Joined(B, P)
    BY <1>0, <1>1, <1>2, Zenon DEF Announces, Shown
  <2>2. Shown("call")' = Joined(A, Pending("results")')
    BY <1>0, <1>1, <1>4, Zenon DEF Announces, Shown
  <2> QED
    BY <1>6, <2>1, <2>2, Zenon DEF StreamPairs
<1>8. ConversationPairs'
  <2> SUFFICES ASSUME o.state.kind \in Paired
               PROVE  Ids(conversation, "call") = Joined(Ids(conversation, "result"), Pending("response")')
    BY <1>0, Zenon DEF ConversationPairs
  <2>1. /\ loop_state.kind \in Paired
        /\ tx_input.kind = "response" /\ o.action # "execute_tools" => tx_input.calls = <<>>
        /\ o.action = "execute_tools" => tx_input.kind = "response"
    BY <1>1, Zenon DEF GoesOn, Paired
  <2>2. tx_input.calls = <<>> => ids = <<>>
    BY NoIds, Zenon
  <2>3. Pending("response")' = Pending("response")
    BY <1>3, <1>4, <2>1, <2>2, Zenon
  <2> QED
    BY <2>1, <2>3, Zenon DEF PairInv, ConversationPairs
<1>9. QueueShape'
  BY <1>0, <1>1, Zenon DEF QueueShape, Announces, GoesOn, Handing, Tooling, Emitting, Returned
<1> QED
  BY <1>0, <1>7, <1>8, <1>9, Zenon DEF PairInv

\* Events that are neither calls nor outputs take the place of such events.
LEMMA SwapsQuiet ==
  ASSUME IsSeq(queue), NoTraffic(queue), IsSeq(queue'), NoTraffic(queue)', UNCHANGED stream
  PROVE  ShownSame
<1>1. \A kind \in Traffic : Vals(queue, kind) = <<>> /\ Vals(queue, kind)' = <<>>
  BY QuietVals, Zenon DEF NoTraffic
<1> QED
  BY <1>1, Zenon DEF Shown, ShownSame

\* The output guardrail passes the events on or replaces them.
LEMMA OutputGuardrailPairs ==
  ASSUME LoopInv, PairInv, OutputGuardrail PROVE PairInv' /\ ShownSame
<1>0. /\ pc = "output_guardrail" /\ pc' = "emit" /\ IsSeq(queue) /\ NoTraffic(queue) /\ LateTurn(queue)
      /\ action = "execute_tools" => NoTurn(queue)
      /\ UNCHANGED <<loop_state, action, tx_input, conversation, stream>>
  BY Zenon DEF LoopInv, LoopTypes, OutputGuardrail, PairInv, QueueShape, Tooling, Emitting
<1>1. IsSeq(queue') /\ NoTraffic(queue)' /\ LateTurn(queue)' /\ (action = "execute_tools" => NoTurn(queue)')
  <2>1. CASE UNCHANGED queue
    BY <1>0, <2>1, Zenon DEF NoTraffic, LateTurn, NoTurn
  <2>2. CASE queue' = <<Ev("guardrail", 0), Ev("failed", "guardrail")>>
    BY <2>2 DEF IsSeq, NoTraffic, LateTurn, NoTurn, Traffic, Ev
  <2> QED
    BY <2>1, <2>2, Zenon DEF OutputGuardrail
<1>2. ShownSame
  BY <1>0, <1>1, SwapsQuiet, Zenon
<1>3. QueueShape' /\ \A kind : Pending(kind)' = Pending(kind)
  BY <1>0, <1>1, Zenon DEF QueueShape, Pending, Owes, Handing, Tooling, Emitting, Returned
<1> QED
  BY <1>0, <1>2, <1>3, SamePairs, Zenon

\* The head of the queue goes out, or waits for its hook.
LEMMA EmitPairs ==
  ASSUME LoopInv, PairInv, Emit \/ OnTurnStart PROVE PairInv' /\ ShownSame
<1>0. /\ pc \in {"emit", "on_turn_start"} /\ IsSeq(stream) /\ IsSeq(queue) /\ queue # <<>> /\ LateTurn(queue)
      /\ action = "execute_tools" => NoTurn(queue)
      /\ pc = "on_turn_start" => Head(queue).kind = "turn_started"
      /\ UNCHANGED <<loop_state, action, tx_input, conversation>>
  BY Zenon DEF LoopInv, LoopTypes, AtEmit, Emit, OnTurnStart, PairInv, QueueShape, Emitting
<1>1. CASE UNCHANGED <<queue, stream>> /\ pc' = "on_turn_start"
  <2>1. ShownSame
    BY <1>1, Zenon DEF Shown, ShownSame
  <2>2. QueueShape' /\ \A kind : Pending(kind)' = Pending(kind)
    BY <1>0, <1>1, Zenon DEF QueueShape, LateTurn, NoTurn, Pending, Owes, Handing, Tooling, Emitting, Returned
  <2> QED
    BY <1>0, <2>1, <2>2, SamePairs, Zenon
<1>2. CASE Yield(Head(queue)) /\ queue' = Tail(queue) /\ pc' = "emit"
  <2>1. ShownSame
    BY <1>0, <1>2, HeadShown, Zenon DEF ShownSame, Traffic
  <2>2. /\ Len(queue) \in Nat /\ Len(queue') = Len(queue) - 1
        /\ \A i \in 1 .. Len(queue) - 1 : queue'[i] = queue[i + 1]
    BY <1>0, <1>2, TailIsSeq, Zenon DEF IsSeq
  <2>3. LateTurn(queue)' /\ (NoTurn(queue) => NoTurn(queue)')
    BY <1>0, <2>2 DEF LateTurn, NoTurn
  <2>4. QueueShape' /\ \A kind : Pending(kind)' = Pending(kind)
    BY <1>0, <1>2, <2>3, Zenon DEF QueueShape, Pending, Owes, Handing, Tooling, Emitting, Returned
  <2> QED
    BY <1>0, <2>1, <2>4, SamePairs, Zenon
<1>3. CASE FailsDirectly("hook_denied") /\ pc = "on_turn_start"
  <2>1. Len(queue) \in Nat /\ Len(queue) >= 1 /\ queue[1].kind = "turn_started"
    BY <1>0, <1>3, TailIsSeq, Zenon DEF IsSeq
  <2>2. Len(queue) = 1 /\ ~ NoTurn(queue)
    <3>0. \A n \in Nat : n >= 1 => 1 \in 1 .. n /\ (n # 1 => 1 \in 1 .. n - 1)
      OBVIOUS
    <3>1. 1 \in 1 .. Len(queue) /\ (Len(queue) # 1 => 1 \in 1 .. Len(queue) - 1)
      BY <2>1, <3>0, Zenon
    <3> QED
      BY <1>0, <2>1, <3>1, Zenon DEF LateTurn, NoTurn
  <2>3. NoTraffic(queue)
    BY <2>1, <2>2 DEF NoTraffic, Traffic
  <2>4. ~ Owes("results") /\ ~ Owes("response")
    BY <1>0, <1>3, <2>2, Zenon DEF Owes, Tooling, Emitting
  <2> QED
    BY <1>0, <1>3, <2>3, <2>4, FailsPairs, Zenon
<1>4. \/ UNCHANGED <<queue, stream>> /\ pc' = "on_turn_start"
      \/ Yield(Head(queue)) /\ queue' = Tail(queue) /\ pc' = "emit"
      \/ FailsDirectly("hook_denied") /\ pc = "on_turn_start"
  BY Zenon DEF Emit, OnTurnStart
<1> QED
  BY <1>1, <1>2, <1>3, <1>4, Zenon

\* The driver acts on what the machine asked for.
LEMMA ActsPair ==
  ASSUME LoopInv, PairInv, Acts PROVE PairInv' /\ ShownSame
<1>0. /\ pc = "emit" /\ queue = <<>> /\ UNCHANGED <<loop_state, action, tx_input, conversation, queue, stream>>
  BY Zenon DEF Acts
<1>1. \/ action = "call_model" /\ pc' = "model"
      \/ action = "execute_tools" /\ pc' = "tools"
      \/ action = "terminate" /\ pc' = "on_run_complete"
      \/ action = "handoff" /\ pc' = "handoff"
  <2>1. action \in {"call_model", "execute_tools", "terminate", "handoff"}
    BY <1>0, Zenon DEF LoopInv, AtEmit, Asks, Emitting
  <2> QED
    BY <2>1, Zenon DEF Acts
<1>2. ShownSame
  BY <1>0, Zenon DEF Shown, ShownSame
<1>3. NoTraffic(queue)'
  <2>1. \A i \in 1 .. Len(<<>>) : <<>>[i].kind \notin Traffic
    OBVIOUS
  <2> QED
    BY <1>0, <2>1, Zenon DEF NoTraffic
<1>4. QueueShape' /\ \A kind : Pending(kind)' = Pending(kind)
  BY <1>0, <1>1, <1>3, Zenon DEF QueueShape, Pending, Owes, Handing, Tooling, Emitting, Returned
<1> QED
  BY <1>0, <1>2, <1>4, SamePairs, Zenon

\* The model answers, with calls that enter the conversation, or fails.
LEMMA ModelPairs ==
  ASSUME LoopInv, PairInv, ModelFails \/ \E reply \in Replies : ModelResponds(reply) PROVE PairInv' /\ ShownSame
<1>0. /\ pc = "model" /\ IsSeq(stream) /\ IsSeq(queue) /\ queue = <<>> /\ IsSeq(conversation)
      /\ UNCHANGED loop_state
  BY Zenon DEF LoopInv, LoopTypes, AtModel, ModelFails, ModelResponds, PairInv
<1>1. \A kind : ~ Owes(kind) /\ Pending(kind) = <<>>
  BY <1>0, Zenon DEF Owes, Pending, Tooling, Emitting
<1>2. CASE ModelFails
  <2>1. \E error \in {"model", "other"} : FailsDirectly(error)
    BY <1>2, Zenon DEF ModelFails
  <2>2. NoTraffic(queue)
    <3>1. \A i \in 1 .. Len(<<>>) : <<>>[i].kind \notin Traffic
      OBVIOUS
    <3> QED
      BY <1>0, <3>1, Zenon DEF NoTraffic
  <2>3. UNCHANGED conversation
    BY <1>2, Zenon DEF ModelFails
  <2> QED
    BY <1>0, <1>1, <2>1, <2>2, <2>3, FailsPairs, Zenon
<1>3. ASSUME NEW reply \in Replies, ModelResponds(reply) PROVE PairInv' /\ ShownSame
  <2> DEFINE n == Len(reply.calls)
             calls == [i \in 1 .. n |-> [id |-> (IF ReuseIds THEN 0 ELSE issued) + i,
                                         name |-> reply.calls[i]]]
  <2>1. n \in Nat
    BY AgentLoopAssumption
  <2>2. /\ pc' = "transition" /\ UNCHANGED <<queue, stream>>
        /\ tx_input' = [kind |-> "response", text |-> reply.text, calls |-> calls, usage |-> 1]
        /\ conversation' = conversation \o [i \in 1 .. n |-> Item("call", calls[i].id)]
    BY <1>3, Zenon DEF ModelResponds
  <2>3. calls = [i \in 1 .. n |-> calls[i]]
    BY Zenon
  <2> HIDE DEF calls, n
  <2>4. IsSeq(calls) /\ n = Len(calls)
    BY <2>1, <2>3, ListIsSeq, Zenon
  <2>5. tx_input'.kind = "response" /\ tx_input'.calls = calls
    BY <2>2, Zenon
  <2>6. Enters(conversation, calls, "call", conversation')
    BY <1>0, <2>2, <2>4, Zenon DEF Enters
  <2>7. "result" # "call"
    OBVIOUS
  <2>8. /\ Ids(conversation, "call")' = Joined(Ids(conversation, "call"), All(calls, "id"))
        /\ Ids(conversation, "result")' = Ids(conversation, "result")
        /\ IsSeq(conversation') /\ IsSeq(Ids(conversation, "result"))
    BY <2>6, <2>7, ItemsEnter
  <2>9. Pending("response")' = All(calls, "id") /\ Pending("results")' = <<>>
    BY <2>2, <2>5, Zenon DEF Pending, Owes, CallIds, Tooling, Emitting
  <2>10. Joined(Ids(conversation, "result"), <<>>) = Ids(conversation, "result")
    BY <2>8, Unit, Zenon
  <2>11. ConversationPairs'
    BY <1>0, <1>1, <2>8, <2>9, <2>10, Zenon DEF PairInv, ConversationPairs
  <2>12. StreamPairs'
    BY <1>1, <2>2, <2>9, Zenon DEF PairInv, StreamPairs, Shown
  <2>13. QueueShape'
    BY <2>2, Zenon DEF QueueShape, Handing, Tooling, Emitting, Returned
  <2> QED
    BY <2>2, <2>8, <2>11, <2>12, <2>13, Zenon DEF PairInv, Shown, ShownSame
<1> QED
  BY <1>2, <1>3, Zenon

\* Tool calls start, finish, are denied and are answered.
LEMMA ToolPairs ==
  ASSUME LoopInv, PairInv,
         \/ \E i \in DOMAIN outcome : ToolStarts(i) \/ ToolFinishes(i)
         \/ ToolsFinish \/ EmitDenied \/ ToolsAnswer
  PROVE  PairInv' /\ ShownSame
<1>0. /\ pc \in Tooling /\ IsSeq(stream) /\ IsSeq(queue) /\ IsSeq(tx_input.calls) /\ NoTraffic(queue)
      /\ IsSeq(conversation) /\ loop_state.kind = "executing" /\ UNCHANGED loop_state
  BY Zenon DEF LoopInv, LoopTypes, AtTools, ToolStarts, ToolFinishes, ToolsFinish, EmitDenied, ToolsAnswer,
         PairInv, QueueShape, Tooling
<1>1. \A kind : Pending(kind) = CallIds(tx_input)
  BY <1>0, Zenon DEF Pending, Owes
<1>2. CASE /\ pc' \in Tooling /\ UNCHANGED <<tx_input, conversation>> /\ NoTraffic(queue)'
           /\ ShownSame
  <2>1. QueueShape' /\ \A kind : Pending(kind)' = Pending(kind)
    BY <1>0, <1>2, Zenon DEF QueueShape, Pending, Owes, Handing, Tooling, Emitting, Returned
  <2> QED
    BY <1>0, <1>2, <2>1, SamePairs, Zenon
<1>3. ASSUME NEW i \in DOMAIN outcome, ToolStarts(i) \/ ToolFinishes(i) PROVE PairInv' /\ ShownSame
  <2>1. UNCHANGED <<pc, stream, tx_input, conversation>>
    BY <1>3, Zenon DEF ToolStarts, ToolFinishes
  <2>2. CASE UNCHANGED queue
    BY <1>0, <1>2, <2>1, <2>2, Zenon DEF Shown, ShownSame, NoTraffic
  <2>3. CASE queue' = Append(queue, Ev("denied", tx_input.calls[i].id))
    <3> DEFINE e == Ev("denied", tx_input.calls[i].id)
    <3>1. e.kind \notin Traffic
      BY Zenon DEF Ev, Traffic
    <3> HIDE DEF e
    <3>2. queue' = Append(queue, e)
      BY <2>3, Zenon DEF e
    <3>3. IsSeq(queue') /\ NoTraffic(queue)'
      <4>1. /\ IsSeq(queue') /\ Len(queue') = Len(queue) + 1 /\ queue'[Len(queue) + 1] = e
            /\ \A k \in 1 .. Len(queue) : queue'[k] = queue[k]
        BY <1>0, <3>2, AppendIsSeq
      <4>2. Len(queue) \in Nat
        BY <1>0, Zenon DEF IsSeq
      <4> QED
        BY <1>0, <3>1, <4>1, <4>2 DEF NoTraffic
    <3>4. ShownSame
      BY <1>0, <2>1, <3>3, SwapsQuiet, Zenon
    <3> QED
      BY <1>0, <1>2, <2>1, <3>3, <3>4, Zenon
  <2> QED
    BY <1>3, <2>2, <2>3, Zenon DEF ToolStarts, ToolFinishes
<1>4. CASE ToolsFinish
  BY <1>0, <1>2, <1>4, Zenon DEF ToolsFinish, Shown, ShownSame, NoTraffic, Tooling
<1>5. CASE EmitDenied
  <2>1. /\ queue # <<>> /\ Yield(Head(queue)) /\ queue' = Tail(queue)
        /\ UNCHANGED <<pc, tx_input, conversation>>
    BY <1>5, Zenon DEF EmitDenied
  <2>2. ShownSame
    BY <1>0, <2>1, HeadShown, Zenon DEF ShownSame, Traffic
  <2>3. /\ Len(queue) \in Nat /\ Len(queue') = Len(queue) - 1
        /\ \A i \in 1 .. Len(queue) - 1 : queue'[i] = queue[i + 1]
    BY <1>0, <2>1, TailIsSeq, Zenon DEF IsSeq
  <2>4. NoTraffic(queue)'
    BY <1>0, <2>3 DEF NoTraffic
  <2> QED
    BY <1>0, <1>2, <2>1, <2>2, <2>4, Zenon
<1>6. CASE ToolsAnswer
  <2> DEFINE calls == tx_input.calls
  <2>1. /\ pc' = "transition" /\ UNCHANGED <<queue, stream>>
        /\ tx_input' = [kind |-> "results", text |-> "none", calls |-> calls, usage |-> 0]
        /\ conversation' = conversation \o [i \in 1 .. Len(calls) |-> Item("result", calls[i].id)]
    BY <1>6, Zenon DEF ToolsAnswer, ToolResults
  <2>2. tx_input'.kind = "results" /\ tx_input'.calls = calls
    BY <2>1, Zenon
  <2>3. "call" # "result"
    OBVIOUS
  <2> HIDE DEF calls
  <2>4. Enters(conversation, calls, "result", conversation') /\ CallIds(tx_input) = All(calls, "id")
    BY <1>0, <2>1, Zenon DEF calls, CallIds, Enters
  <2>5. /\ Ids(conversation, "result")' = Joined(Ids(conversation, "result"), All(calls, "id"))
        /\ Ids(conversation, "call")' = Ids(conversation, "call")
        /\ IsSeq(conversation') /\ IsSeq(Ids(conversation, "result")) /\ IsSeq(All(calls, "id"))
    BY <2>3, <2>4, ItemsEnter
  <2>6. Pending("results")' = All(calls, "id") /\ Pending("response")' = <<>>
    BY <2>1, <2>2, Zenon DEF Pending, Owes, CallIds, Tooling, Emitting
  <2> DEFINE r == Joined(Ids(conversation, "result"), All(calls, "id"))
  <2>7. Joined(r, <<>>) = r
    <3>1. IsSeq(r)
      BY <2>5, JoinedIsSeq, Zenon
    <3> QED
      BY <3>1, Unit, Zenon
  <2>8. ConversationPairs'
    <3>1. Ids(conversation, "call") = r
      BY <1>0, <1>1, <2>4, Zenon DEF PairInv, ConversationPairs, Paired
    <3> QED
      BY <2>5, <2>6, <2>7, <3>1, Zenon DEF ConversationPairs
  <2>9. StreamPairs'
    BY <1>1, <2>1, <2>4, <2>6, Zenon DEF PairInv, StreamPairs, Shown
  <2>10. QueueShape'
    BY <2>1, Zenon DEF QueueShape, Handing, Tooling, Emitting, Returned
  <2> QED
    BY <2>1, <2>5, <2>8, <2>9, <2>10, Zenon DEF PairInv, Shown, ShownSame
<1> QED
  BY <1>3, <1>4, <1>5, <1>6, Zenon

\* A handoff: the transcript threaded to the target holds no calls.
LEMMA HandoffPairs ==
  ASSUME LoopInv, PairInv, HandoffDepth \/ OnHandoff \/ EmitHandoff \/ TargetRuns
  PROVE  PairInv' /\ ShownSame
<1>0. /\ pc \in Handing /\ IsSeq(stream) /\ IsSeq(queue) /\ NoTraffic(queue)
      /\ pc # "emit_handoff" => queue = <<>>
  BY Zenon DEF LoopInv, LoopTypes, AtHandoff, PairInv, QueueShape, HandoffDepth, OnHandoff, EmitHandoff,
         TargetRuns, Handing
<1>1. \A kind : ~ Owes(kind) /\ Pending(kind) = <<>>
  BY <1>0, Zenon DEF Owes, Pending, Handing, Tooling, Emitting
<1>2. NoTraffic(<<>>)
  <2>1. \A i \in 1 .. Len(<<>>) : <<>>[i].kind \notin Traffic
    OBVIOUS
  <2> QED
    BY <2>1, Zenon DEF NoTraffic
<1>3. CASE /\ \E error \in {"max_agent_depth", "hook_denied", "other"} : FailsDirectly(error)
           /\ pc # "emit_handoff" /\ UNCHANGED <<loop_state, conversation>>
  BY <1>0, <1>1, <1>2, <1>3, FailsPairs, Zenon
<1>4. CASE /\ pc' \in Handing /\ UNCHANGED <<loop_state, conversation>> /\ NoTraffic(queue)'
           /\ ShownSame
  <2>1. QueueShape' /\ \A kind : Pending(kind)' = <<>>
    BY <1>4, Zenon DEF QueueShape, Pending, Owes, Handing, Tooling, Emitting, Returned
  <2> QED
    BY <1>1, <1>4, <2>1, SamePairs, Zenon
<1>5. CASE HandoffDepth
  <2>1. pc = "handoff" /\ UNCHANGED <<loop_state, conversation>>
    BY <1>5, Zenon DEF HandoffDepth
  <2>2. \/ FailsDirectly("max_agent_depth")
        \/ pc' = "on_handoff" /\ UNCHANGED <<queue, stream>>
    BY <1>5, Zenon DEF HandoffDepth
  <2> QED
    BY <1>0, <1>3, <1>4, <2>1, <2>2, Zenon DEF Handing, Shown, ShownSame, NoTraffic
<1>6. CASE OnHandoff
  <2>1. pc = "on_handoff" /\ queue = <<>> /\ UNCHANGED <<loop_state, conversation>>
    BY <1>0, <1>6, Zenon DEF OnHandoff
  <2>2. CASE FailsDirectly("hook_denied")
    BY <1>3, <2>1, <2>2, Zenon
  <2>3. CASE /\ pc' = "emit_handoff" /\ UNCHANGED stream
             /\ queue' = <<Ev("handoff", 0), Ev("agent_updated", 0)>>
    <3>1. IsSeq(queue') /\ NoTraffic(queue)'
      BY <2>3 DEF IsSeq, NoTraffic, Traffic, Ev
    <3>2. ShownSame
      BY <1>0, <1>2, <2>1, <2>3, <3>1, SwapsQuiet, Zenon
    <3> QED
      BY <1>4, <2>1, <2>3, <3>1, <3>2, Zenon DEF Handing
  <2> QED
    BY <1>6, <2>2, <2>3, Zenon DEF OnHandoff
<1>7. CASE EmitHandoff
  <2>1. /\ queue # <<>> /\ Yield(Head(queue)) /\ queue' = Tail(queue)
        /\ pc' \in Handing /\ UNCHANGED <<loop_state, conversation>>
    BY <1>0, <1>7, Zenon DEF EmitHandoff, Handing
  <2>2. ShownSame
    BY <1>0, <2>1, HeadShown, Zenon DEF ShownSame, Traffic
  <2>3. NoTraffic(queue)'
    <3>1. /\ Len(queue) \in Nat /\ Len(queue') = Len(queue) - 1
          /\ \A i \in 1 .. Len(queue) - 1 : queue'[i] = queue[i + 1]
      BY <1>0, <2>1, TailIsSeq, Zenon DEF IsSeq
    <3> QED
      BY <1>0, <3>1 DEF NoTraffic
  <2> QED
    BY <1>4, <2>1, <2>2, <2>3, Zenon
<1>8. CASE TargetRuns
  <2>1. CASE FailsDirectly("other") /\ UNCHANGED <<loop_state, conversation>>
    BY <1>3, <1>8, <2>1, Zenon DEF TargetRuns
  <2>2. CASE /\ pc' = "run_start" /\ tx_input' = Start /\ conversation' = <<>>
             /\ UNCHANGED <<queue, stream>>
    <3>1. QueueShape' /\ \A kind : Pending(kind)' = <<>>
      BY <2>2, Zenon DEF QueueShape, Pending, Owes, Handing, Tooling, Emitting, Returned
    <3>2. StreamPairs'
      BY <1>1, <2>2, <3>1, Zenon DEF PairInv, StreamPairs, Shown
    <3>3. Joined(<<>>, <<>>) = <<>>
      BY ShortLists, Unit, Zenon
    <3>4. ConversationPairs'
      BY <2>2, <3>1, <3>3, IdsShort, Zenon DEF ConversationPairs
    <3> QED
      BY <2>2, <3>1, <3>2, <3>4, ShortLists, Zenon DEF PairInv, Shown, ShownSame
  <2> QED
    BY <1>8, <2>1, <2>2, Zenon DEF TargetRuns
<1> QED
  BY <1>5, <1>6, <1>7, <1>8, Zenon

\* The end of a loop, and of the parents that forwarded it.
LEMMA ReturnPairs ==
  ASSUME LoopInv, PairInv, OnRunComplete \/ OnSubagentStop PROVE PairInv' /\ ShownSame
<1>1. /\ pc \in Returned \union {"on_run_complete"} /\ pc' \in Returned
      /\ UNCHANGED <<loop_state, conversation, queue, stream>>
  BY Zenon DEF OnRunComplete, OnSubagentStop, Return, Returned
<1>2. ShownSame
  BY <1>1, Zenon DEF Shown, ShownSame
<1>3. QueueShape' /\ \A kind : Pending(kind)' = Pending(kind)
  BY <1>1, Zenon DEF PairInv, QueueShape, Pending, Owes, Tooling, Handing, Emitting, Returned
<1> QED
  BY <1>1, <1>2, <1>3, SamePairs, Zenon

\* Every step of the loop keeps the pairing.
LEMMA PairStep == LoopInv /\ PairInv /\ [LoopNext]_loopVars => PairInv'
<1> SUFFICES ASSUME LoopInv, PairInv, [LoopNext]_loopVars PROVE PairInv'
  BY Zenon
<1>1. CASE UNCHANGED loopVars
  <2>1. UNCHANGED <<pc, loop_state, tx_input, conversation, queue, action, stream>>
    BY <1>1, Zenon DEF loopVars
  <2>2. /\ ShownSame
        /\ QueueShape' /\ \A kind : Pending(kind)' = Pending(kind)
    BY <2>1, Zenon DEF Shown, ShownSame, PairInv, QueueShape, NoTraffic, LateTurn, NoTurn, Pending, Owes
  <2> QED
    BY <2>1, <2>2, SamePairs, Zenon
<1>2. CASE RunStarted \/ ChecksNames \/ OnRunStart \/ InputGuardrail \/ InputTripped
  BY <1>2, BeginningPairs, Zenon
<1>3. CASE Transitions
  BY <1>3, TransitionsPair, Zenon
<1>4. CASE OutputGuardrail
  BY <1>4, OutputGuardrailPairs, Zenon
<1>5. CASE Emit \/ OnTurnStart
  BY <1>5, EmitPairs, Zenon
<1>6. CASE Acts
  BY <1>6, ActsPair, Zenon
<1>7. CASE ModelFails \/ \E reply \in Replies : ModelResponds(reply)
  BY <1>7, ModelPairs, Zenon
<1>8. CASE \/ \E i \in DOMAIN outcome : ToolStarts(i) \/ ToolFinishes(i)
           \/ ToolsFinish \/ EmitDenied \/ ToolsAnswer
  BY <1>8, ToolPairs, Zenon
<1>9. CASE HandoffDepth \/ OnHandoff \/ EmitHandoff \/ TargetRuns
  BY <1>9, HandoffPairs, Zenon
<1>10. CASE OnRunComplete \/ OnSubagentStop
  BY <1>10, ReturnPairs, Zenon
<1> QED
  BY <1>1, <1>2, <1>3, <1>4, <1>5, <1>6, <1>7, <1>8, <1>9, <1>10, Zenon DEF LoopNext, DriverStep, AwaitEnds

\* What the two invariants say of a request and of a stream that is over.
LEMMA PairsShow == LoopInv /\ PairInv => CallsPaired
<1> SUFFICES ASSUME LoopInv, PairInv PROVE CallsPaired
  BY Zenon
<1>1. CallsAnsweredBeforeModel
  <2> SUFFICES ASSUME pc = "model", loop_state.kind # "repairing"
               PROVE  Ids(conversation, "call") = Ids(conversation, "result")
    BY Zenon DEF CallsAnsweredBeforeModel
  <2>1. loop_state.kind \in Paired
    BY Zenon DEF LoopInv, AtModel, Paired
  <2>2. Pending("response") = <<>>
    BY Zenon DEF Pending, Owes, Tooling, Emitting
  <2>3. Joined(Ids(conversation, "result"), <<>>) = Ids(conversation, "result")
    <3>1. Listed(conversation, "result", "id")
      BY FieldLists, Zenon DEF PairInv
    <3> QED
      BY <3>1, Unit, Zenon DEF Listed, Ids
  <2> QED
    BY <2>1, <2>2, <2>3, Zenon DEF PairInv, ConversationPairs
<1>2. OutputsMatchCalls
  <2> SUFFICES ASSUME SawTerminal PROVE Vals(stream, "call") = Vals(stream, "output")
    BY Zenon DEF OutputsMatchCalls
  <2>1. OnlyLast(stream) /\ ~ NoTerminal(stream) /\ IsSeq(stream)
    <3>1. OnlyLast(stream) /\ IsSeq(stream)
      BY SawTerminalIs, Zenon DEF LoopInv, LoopTypes
    <3>2. ~ NoTerminal(stream)
      <4>1. DOMAIN stream = 1 .. Len(stream)
        BY <3>1, Zenon DEF IsSeq
      <4> QED
        BY <4>1, Zenon DEF SawTerminal, NoTerminal
    <3> QED
      BY <3>1, <3>2, Zenon
  <2>2. queue = <<>> /\ \A kind : ~ Owes(kind)
    <3>1. \/ pc \in Emitting /\ action = "terminate" /\ queue = <<>>
          \/ pc \in Returned \union {"on_run_complete"}
      BY <2>1, Zenon DEF LoopInv, LoopTypes, AtBeginning, AtTransition, AtEmit, AtModel, AtTools, AtHandoff,
             Running
    <3>2. queue = <<>>
      BY <3>1, Zenon DEF PairInv, QueueShape
    <3> QED
      BY <3>1, <3>2, Zenon DEF Owes, Emitting, Tooling, Returned
  <2> DEFINE a == Vals(stream, "call")
             b == Vals(stream, "output")
  <2>3. IsSeq(a) /\ IsSeq(b)
    BY <2>1, ValsLaws, Zenon
  <2>4. Joined(a, <<>>) = a /\ Joined(b, <<>>) = b
    BY <2>3, Unit, Zenon
  <2> QED
    BY <2>2, <2>4, ValsShort, Zenon DEF PairInv, StreamPairs, Shown, Pending
<1> QED
  BY <1>1, <1>2, Zenon DEF CallsPaired

\* The invariant, for every set of replies, limit, depth and profile.
THEOREM PairInvariant == Spec => []PairInv
<1>1. Init => PairInv
  BY PairStarts
<1>2. LoopInv /\ PairInv /\ [LoopNext]_loopVars => PairInv'
  BY PairStep
<1>3. Spec => []LoopInv
  BY LoopInvariant
<1> QED
  BY <1>1, <1>2, <1>3, PTL DEF Spec

\* Every request but a repair answers each call of its conversation, in their order, and a
\* consumer that has seen the terminal event has seen an output for each call it was shown
\* (agent.rs ExecuteTools arm, loop_state.rs transition).
THEOREM CallsArePaired == Spec => []CallsPaired
<1>1. LoopInv /\ PairInv => CallsPaired
  BY PairsShow
<1> QED
  BY <1>1, LoopInvariant, PairInvariant, PTL

-----------------------------------------------------------------------------
(* A provider that numbers its calls on: no id is shown twice.               *)

Seen(x) == Has(Shown("call"), x) \/ Has(Shown("transfer"), x)

FreshIds ==
  /\ issued \in Nat /\ Distinct(Joined(Shown("call"), Shown("transfer"))) /\ Distinct(CallIds(tx_input))
  /\ \A x : Seen(x) \/ Has(CallIds(tx_input), x) => x \in Nat /\ x <= issued

\* The calls of a response the machine has not yet seen are new.
FreshTurn ==
  pc = "transition" /\ tx_input.kind = "response" => \A x : Has(CallIds(tx_input), x) => ~ Seen(x)

\* The calls still to be shown are those of the turn.
QueuedCalls ==
  pc \in {"emit", "on_turn_start"} =>
    \A x : Has(Vals(queue, "call"), x) => action = "execute_tools" /\ Has(CallIds(tx_input), x)

Fresh == FreshIds /\ FreshTurn /\ QueuedCalls

FreshInv == ~ ReuseIds => Fresh

\* A step that shows what was shown and has the same turn in hand.
LEMMA SameFresh ==
  ASSUME Fresh, ShownSame, UNCHANGED <<tx_input, issued>>, FreshTurn', QueuedCalls'
  PROVE  Fresh'
<1>1. Shown("call")' = Shown("call") /\ Shown("transfer")' = Shown("transfer")
  BY Zenon DEF ShownSame, Traffic
<1>2. FreshIds'
  BY <1>1, Zenon DEF Fresh, FreshIds, Seen
<1> QED
  BY <1>2, Zenon DEF Fresh

\* Lists of values, and the ids of the turn, are lists.
LEMMA ShownLists ==
  ASSUME LoopInv
  PROVE  IsSeq(CallIds(tx_input)) /\ \A kind : IsSeq(Shown(kind)) /\ IsSeq(Vals(stream, kind)) /\ IsSeq(Vals(queue, kind))
<1>1. IsSeq(stream) /\ IsSeq(queue) /\ IsSeq(tx_input.calls)
  BY Zenon DEF LoopInv, LoopTypes
<1>2. Listed(tx_input.calls, "call", "id")
  BY <1>1, FieldLists, Zenon
<1>3. \A kind : IsSeq(Vals(stream, kind)) /\ IsSeq(Vals(queue, kind))
  BY <1>1, ValsLaws, Zenon
<1>4. \A kind : IsSeq(Shown(kind))
  BY <1>3, JoinedIsSeq, Zenon DEF Shown
<1> QED
  BY <1>2, <1>3, <1>4, Zenon DEF Listed, CallIds

\* The machine announces the calls of a response, or some of them as transfers.
LEMMA TransitionsFresh ==
  ASSUME LoopInv, PairInv, Fresh, Transitions PROVE Fresh'
<1> DEFINE o == Transition(agent, loop_state, tx_input)
           ids == CallIds(tx_input)
           C == Shown("call")
           H == Shown("transfer")
           c == Vals(o.events, "call")
           h == Vals(o.events, "transfer")
<1>0. /\ pc = "transition" /\ queue = <<>> /\ Expects(loop_state, tx_input)
      /\ queue' = o.events /\ action' = o.action
      /\ pc' # "transition" /\ UNCHANGED <<tx_input, stream, issued>>
  BY Zenon DEF LoopInv, AtTransition, Transitions
<1>1. Announces(o, tx_input) /\ GoesOn(o, loop_state, tx_input)
  BY <1>0, TransitionPairs, Zenon
<1> HIDE DEF o
<1>2. IsSeq(C) /\ IsSeq(H) /\ IsSeq(ids) /\ IsSeq(c) /\ IsSeq(h)
  BY <1>1, ShownLists, ValsLaws, Zenon DEF Announces
<1>3. C' = Joined(C, c) /\ H' = Joined(H, h)
  <2>1. \A kind : Shown(kind) = Vals(stream, kind)
    BY <1>0, ShownLists, ValsShort, Unit, Zenon DEF Shown
  <2> QED
    BY <1>0, <2>1, Zenon DEF Shown
<1>4. /\ Distinct(Joined(C, H)) /\ Distinct(ids) /\ issued \in Nat
      /\ \A x : Has(C, x) \/ Has(H, x) \/ Has(ids, x) => x \in Nat /\ x <= issued
      /\ tx_input.kind = "response" => \A x : Has(ids, x) => ~ Has(C, x) /\ ~ Has(H, x)
  BY <1>0, Zenon DEF Fresh, FreshIds, FreshTurn, Seen
<1>5. /\ Distinct(c) /\ Distinct(h) /\ \A x : ~(Has(c, x) /\ Has(h, x))
      /\ \A x : Has(c, x) \/ Has(h, x) => Has(ids, x)
      /\ c # <<>> \/ h # <<>> => tx_input.kind = "response"
  <2>1. CASE o.action = "execute_tools"
    <3>1. c = ids /\ h = <<>> /\ tx_input.kind = "response"
      BY <1>1, <2>1, Zenon DEF Announces, GoesOn
    <3> QED
      BY <1>4, <3>1, EmptyHas, Zenon
  <2>2. CASE o.action # "execute_tools"
    <3>1. c = <<>> /\ (h # <<>> => tx_input.kind = "response" /\ Draws(h, ids))
      BY <1>1, <2>2, Zenon DEF Announces
    <3> QED
      BY <1>4, <3>1, EmptyHas, Zenon DEF Draws
  <2> QED
    BY <2>1, <2>2, Zenon
<1>6. \A x : Has(c, x) \/ Has(h, x) => ~ Has(C, x) /\ ~ Has(H, x)
  BY <1>4, <1>5, EmptyHas, Zenon
<1>7. QueuedCalls'
  <2>1. Vals(queue, "call")' = IF action' = "execute_tools" THEN CallIds(tx_input)' ELSE <<>>
    BY <1>0, <1>1, Zenon DEF Announces
  <2> QED
    BY <2>1, EmptyHas, Zenon DEF QueuedCalls
<1>8. FreshTurn'
  BY <1>0, Zenon DEF FreshTurn
<1>9. FreshIds'
  <2> DEFINE D == Joined(C, c)
             I == Joined(H, h)
  <2>1. IsSeq(D) /\ IsSeq(I)
    BY <1>2, JoinedIsSeq, Zenon
  <2>2. /\ Distinct(C) /\ Distinct(H) /\ \A x : ~(Has(C, x) /\ Has(H, x))
    BY <1>2, <1>4, JoinedHas, Zenon
  <2>3. /\ \A x : Has(D, x) <=> Has(C, x) \/ Has(c, x)
        /\ \A x : Has(I, x) <=> Has(H, x) \/ Has(h, x)
    BY <1>2, JoinedHas, Zenon
  <2>4. Distinct(D) /\ Distinct(I)
    BY <1>2, <1>5, <1>6, <2>2, JoinedHas, Zenon
  <2>5. \A x : ~(Has(D, x) /\ Has(I, x))
    BY <1>5, <1>6, <2>2, <2>3, Zenon
  <2> HIDE DEF D, I
  <2>6. Distinct(Joined(D, I))
    BY <2>1, <2>4, <2>5, JoinedHas, Zenon
  <2>7. C' = D /\ H' = I
    BY <1>3, Zenon DEF D, I
  <2>8. \A x : Has(D, x) \/ Has(I, x) \/ Has(ids, x) => x \in Nat /\ x <= issued
    BY <1>4, <1>5, <2>3, Zenon
  <2> QED
    BY <1>0, <1>4, <2>6, <2>7, <2>8, Zenon DEF FreshIds, Seen
<1> QED
  BY <1>7, <1>8, <1>9, Zenon DEF Fresh

\* A response's calls are numbered on from the last one.
LEMMA RespondsFresh ==
  ASSUME LoopInv, PairInv, Fresh, ~ ReuseIds, NEW reply \in Replies, ModelResponds(reply), ShownSame
  PROVE  Fresh'
<1> DEFINE n == Len(reply.calls)
           id(i) == (IF ReuseIds THEN 0 ELSE issued) + i
           calls == [i \in 1 .. n |-> [id |-> id(i), name |-> reply.calls[i]]]
           ids == All(calls, "id")
<1>1. n \in Nat
  BY AgentLoopAssumption
<1>2. /\ pc' = "transition" /\ issued' = issued + n /\ tx_input'.calls = calls
  BY Zenon DEF ModelResponds
<1>3. /\ calls = [i \in 1 .. n |-> calls[i]]
      /\ \A i \in 1 .. n : calls[i]["id"] = id(i)
  BY Zenon
<1>4. \A i \in 1 .. n : id(i) = issued + i
  BY Zenon
<1> HIDE DEF calls, n, id
<1>5. IsSeq(calls) /\ n = Len(calls)
  BY <1>1, <1>3, ListIsSeq, Zenon
<1>6. Listed(calls, "call", "id")
  BY <1>5, FieldLists, Zenon
<1>7. Len(ids) = n /\ \A i \in 1 .. n : ids[i] = issued + i
  BY <1>3, <1>4, <1>5, <1>6, Zenon DEF Listed
<1>8. CallIds(tx_input)' = ids
  BY <1>2, Zenon DEF CallIds
<1> HIDE DEF ids
<1>9. issued \in Nat
  BY Zenon DEF Fresh, FreshIds
<1>10. Distinct(ids) /\ \A x : Has(ids, x) => x \in Nat /\ x > issued /\ x <= issued + n
  BY <1>1, <1>7, <1>9 DEF Distinct, Has
<1>11. Shown("call")' = Shown("call") /\ Shown("transfer")' = Shown("transfer")
  BY Zenon DEF ShownSame, Traffic
<1>12. \A x : Seen(x)' <=> Seen(x)
  BY <1>11, Zenon DEF Seen
<1>13. \A x : Seen(x) => x \in Nat /\ x <= issued
  BY Zenon DEF Fresh, FreshIds
<1>14. issued' \in Nat /\ \A x \in Nat : x <= issued => x <= issued' /\ ~ (x > issued)
  BY <1>1, <1>2, <1>9
<1>15. FreshIds'
  <2>1. Distinct(Joined(Shown("call"), Shown("transfer")))'
    BY <1>11, Zenon DEF Fresh, FreshIds
  <2> QED
    BY <1>2, <1>8, <1>10, <1>12, <1>13, <1>14, <2>1, Zenon DEF FreshIds
<1>16. FreshTurn'
  BY <1>8, <1>10, <1>12, <1>13, <1>14, Zenon DEF FreshTurn
<1>17. QueuedCalls'
  BY <1>2, Zenon DEF QueuedCalls
<1> QED
  BY <1>15, <1>16, <1>17, Zenon DEF Fresh

\* Another turn in hand, with the same calls or none, and none to be shown.
LEMMA HandsOver ==
  ASSUME Fresh, ShownSame, UNCHANGED issued, CallIds(tx_input)' \in {CallIds(tx_input), <<>>},
         tx_input'.kind # "response", pc' \notin {"emit", "on_turn_start"}
  PROVE  Fresh'
<1>1. Shown("call")' = Shown("call") /\ Shown("transfer")' = Shown("transfer")
  BY Zenon DEF ShownSame, Traffic
<1>2. FreshIds'
  BY <1>1, EmptyHas, Zenon DEF Fresh, FreshIds, Seen
<1> QED
  BY <1>2, Zenon DEF Fresh, FreshTurn, QueuedCalls

\* The events of a transition go out.
LEMMA EmitFresh ==
  ASSUME LoopInv, PairInv, Fresh, Emit \/ OnTurnStart, ShownSame PROVE Fresh'
<1>0. /\ pc \in {"emit", "on_turn_start"} /\ IsSeq(queue) /\ queue # <<>>
      /\ UNCHANGED <<action, tx_input, issued>>
      /\ \/ UNCHANGED queue /\ pc' \in {"emit", "on_turn_start"}
         \/ queue' = Tail(queue) /\ pc' \in {"emit", "on_turn_start"}
         \/ pc' \in Returned
  BY Zenon DEF LoopInv, LoopTypes, AtEmit, Emit, OnTurnStart, Emitting, FailsDirectly, Return, Returned
<1>1. FreshTurn'
  BY <1>0, Zenon DEF FreshTurn, Returned
<1>2. CASE UNCHANGED queue /\ pc' \in {"emit", "on_turn_start"}
  <2>1. QueuedCalls'
    BY <1>0, <1>2, Zenon DEF Fresh, QueuedCalls
  <2> QED
    BY <1>0, <1>1, <2>1, SameFresh, Zenon
<1>3. CASE queue' = Tail(queue) /\ pc' \in {"emit", "on_turn_start"}
  <2> DEFINE one == <<Head(queue)>>
             t == Tail(queue)
  <2>1. IsSeq(one) /\ IsSeq(t) /\ queue = Joined(one, t)
    BY <1>0, ShortLists, TailIsSeq, OneMore, Zenon
  <2> HIDE DEF one, t
  <2>2. /\ Vals(queue, "call") = Joined(Vals(one, "call"), Vals(t, "call"))
        /\ IsSeq(Vals(one, "call")) /\ IsSeq(Vals(t, "call"))
    BY <2>1, ValsLaws
  <2>3. \A x : Has(Vals(t, "call"), x) => Has(Vals(queue, "call"), x)
    <3> DEFINE a == Vals(one, "call")
               b == Vals(t, "call")
    <3>1. IsSeq(a) /\ IsSeq(b) /\ Vals(queue, "call") = Joined(a, b)
      BY <2>2, Zenon
    <3> HIDE DEF a, b
    <3>2. \A x : Has(Joined(a, b), x) <=> Has(a, x) \/ Has(b, x)
      BY <3>1, JoinedHas
    <3> QED
      BY <3>1, <3>2, Zenon DEF b
  <2>4. Vals(queue, "call")' = Vals(t, "call")
    BY <1>3, Zenon DEF t
  <2>5. QueuedCalls'
    BY <1>0, <2>3, <2>4, Zenon DEF Fresh, QueuedCalls
  <2> QED
    BY <1>0, <1>1, <2>5, SameFresh, Zenon
<1>4. CASE pc' \in Returned
  <2>1. QueuedCalls'
    BY <1>4, Zenon DEF QueuedCalls, Returned
  <2> QED
    BY <1>0, <1>1, <2>1, SameFresh, Zenon
<1> QED
  BY <1>0, <1>2, <1>3, <1>4, Zenon

\* The guardrail's verdict on a run that is done.
LEMMA GuardrailFresh ==
  ASSUME LoopInv, PairInv, Fresh, OutputGuardrail, ShownSame PROVE Fresh'
<1>0. /\ IsSeq(queue) /\ NoTraffic(queue) /\ pc' = "emit" /\ UNCHANGED <<tx_input, issued>>
      /\ UNCHANGED queue \/ queue' = <<Ev("guardrail", 0), Ev("failed", "guardrail")>>
  BY Zenon DEF LoopInv, LoopTypes, PairInv, QueueShape, OutputGuardrail
<1>1. Vals(queue, "call")' = <<>>
  <2>1. CASE UNCHANGED queue
    BY <1>0, <2>1, QuietVals, Zenon DEF Traffic
  <2>2. CASE queue' = <<Ev("guardrail", 0), Ev("failed", "guardrail")>>
    <3> DEFINE q == <<Ev("guardrail", 0), Ev("failed", "guardrail")>>
    <3>1. IsSeq(q) /\ NoTraffic(q)
      BY DEF IsSeq, NoTraffic, Traffic, Ev
    <3> HIDE DEF q
    <3>2. Vals(q, "call") = <<>>
      BY <3>1, QuietVals, Zenon DEF Traffic
    <3> QED
      BY <2>2, <3>2, Zenon DEF q
  <2> QED
    BY <1>0, <2>1, <2>2, Zenon
<1>2. FreshTurn' /\ QueuedCalls'
  BY <1>0, <1>1, EmptyHas, Zenon DEF FreshTurn, QueuedCalls
<1> QED
  BY <1>0, <1>2, SameFresh, Zenon

\* Every step of the loop.
LEMMA FreshStep == LoopInv /\ PairInv /\ FreshInv /\ [LoopNext]_loopVars => FreshInv'
<1> SUFFICES ASSUME LoopInv, PairInv, Fresh, ~ ReuseIds, [LoopNext]_loopVars PROVE Fresh'
  BY Zenon DEF FreshInv
<1>1. CASE UNCHANGED loopVars
  <2>1. UNCHANGED <<pc, tx_input, queue, action, stream, issued>>
    BY <1>1, Zenon DEF loopVars
  <2>2. ShownSame /\ FreshTurn' /\ QueuedCalls'
    BY <2>1, Zenon DEF Shown, ShownSame, Seen, Fresh, FreshTurn, QueuedCalls
  <2> QED
    BY <2>1, <2>2, SameFresh, Zenon
<1>2. ASSUME ShownSame, UNCHANGED <<tx_input, issued>>, pc' \notin {"transition", "emit", "on_turn_start"}
      PROVE  Fresh'
  <2>1. FreshTurn' /\ QueuedCalls'
    BY <1>2, Zenon DEF FreshTurn, QueuedCalls
  <2> QED
    BY <1>2, <2>1, SameFresh, Zenon
<1>3. CASE RunStarted \/ ChecksNames \/ OnRunStart \/ InputGuardrail \/ InputTripped
  <2>1. ShownSame
    BY <1>3, BeginningPairs, Zenon
  <2>2. /\ UNCHANGED <<tx_input, issued>> /\ tx_input = Start
        /\ pc' \notin {"emit", "on_turn_start"}
    BY <1>3, Zenon DEF LoopInv, AtBeginning, RunStarted, ChecksNames, OnRunStart, InputGuardrail,
           InputTripped, FailsDirectly, Return, Beginning
  <2>3. Start.kind # "response"
    BY Zenon DEF Start
  <2> QED
    BY <2>1, <2>2, <2>3, HandsOver, Zenon
<1>4. CASE Transitions
  BY <1>4, TransitionsFresh, Zenon
<1>5. CASE OutputGuardrail
  BY <1>5, OutputGuardrailPairs, GuardrailFresh, Zenon
<1>6. CASE Emit \/ OnTurnStart
  BY <1>6, EmitPairs, EmitFresh, Zenon
<1>7. CASE Acts
  <2>1. ShownSame
    BY <1>7, ActsPair, Zenon
  <2>2. UNCHANGED <<tx_input, issued>> /\ pc' \in {"model", "tools", "on_run_complete", "handoff"}
    <3>1. action \in {"call_model", "execute_tools", "terminate", "handoff"}
      BY <1>7, Zenon DEF Acts, LoopInv, AtEmit, Asks, Emitting
    <3> QED
      BY <1>7, <3>1, Zenon DEF Acts
  <2> QED
    BY <1>2, <2>1, <2>2, Zenon
<1>8. CASE ModelFails \/ \E reply \in Replies : ModelResponds(reply)
  <2>1. ShownSame
    BY <1>8, ModelPairs, Zenon
  <2>2. CASE ModelFails
    <3>1. UNCHANGED <<tx_input, issued>> /\ pc' \notin {"transition", "emit", "on_turn_start"}
      BY <2>2, Zenon DEF ModelFails, FailsDirectly, Return
    <3> QED
      BY <1>2, <2>1, <3>1, Zenon
  <2> QED
    BY <1>8, <2>1, <2>2, RespondsFresh, Zenon
<1>9. CASE \/ \E i \in DOMAIN outcome : ToolStarts(i) \/ ToolFinishes(i)
           \/ ToolsFinish \/ EmitDenied \/ ToolsAnswer
  <2>1. ShownSame
    BY <1>9, ToolPairs, Zenon
  <2>2. CASE ToolsAnswer
    <3>1. /\ tx_input' = ToolResults(tx_input.calls) /\ UNCHANGED issued
          /\ pc' \notin {"emit", "on_turn_start"}
      BY <2>2, Zenon DEF ToolsAnswer
    <3>2. tx_input'.calls = tx_input.calls /\ tx_input'.kind # "response"
      BY <3>1, Zenon DEF ToolResults
    <3>3. CallIds(tx_input)' = CallIds(tx_input)
      BY <3>2, Zenon DEF CallIds
    <3> QED
      BY <2>1, <3>1, <3>2, <3>3, HandsOver, Zenon
  <2>3. CASE ~ ToolsAnswer
    <3>1. UNCHANGED <<tx_input, issued>> /\ pc' \in Tooling
      BY <1>9, <2>3, Zenon DEF ToolStarts, ToolFinishes, ToolsFinish, EmitDenied, Tooling
    <3> QED
      BY <1>2, <2>1, <3>1, Zenon DEF Tooling
  <2> QED
    BY <2>2, <2>3, Zenon
<1>10. CASE HandoffDepth \/ OnHandoff \/ EmitHandoff \/ TargetRuns
  <2>1. ShownSame
    BY <1>10, HandoffPairs, Zenon
  <2>2. CASE UNCHANGED <<tx_input, issued>>
    <3>1. pc' \notin {"transition", "emit", "on_turn_start"}
      BY <1>10, Zenon DEF HandoffDepth, OnHandoff, EmitHandoff, TargetRuns, FailsDirectly, Return
    <3> QED
      BY <1>2, <2>1, <2>2, <3>1, Zenon
  <2>3. CASE ~ UNCHANGED <<tx_input, issued>>
    <3>1. tx_input' = Start /\ UNCHANGED issued /\ pc' = "run_start"
      BY <1>10, <2>3, Zenon DEF HandoffDepth, OnHandoff, EmitHandoff, TargetRuns
    <3>2. Start.kind # "response" /\ Start.calls = <<>>
      BY Zenon DEF Start
    <3>3. CallIds(tx_input)' = <<>>
      BY <3>1, <3>2, NoIds, Zenon DEF CallIds
    <3> QED
      BY <2>1, <3>1, <3>2, <3>3, HandsOver, Zenon
  <2> QED
    BY <2>2, <2>3, Zenon
<1>11. CASE OnRunComplete \/ OnSubagentStop
  <2>1. ShownSame
    BY <1>11, ReturnPairs, Zenon
  <2>2. UNCHANGED <<tx_input, issued>> /\ pc' \notin {"transition", "emit", "on_turn_start"}
    BY <1>11, Zenon DEF OnRunComplete, OnSubagentStop, Return
  <2> QED
    BY <1>2, <2>1, <2>2, Zenon
<1> QED
  BY <1>1, <1>3, <1>4, <1>5, <1>6, <1>7, <1>8, <1>9, <1>10, <1>11, Zenon DEF LoopNext, DriverStep, AwaitEnds

\* The initial state.
LEMMA FreshStarts == Init => FreshInv
<1> SUFFICES ASSUME Init PROVE Fresh
  BY Zenon DEF FreshInv
<1>1. pc = "run_start" /\ queue = <<>> /\ stream = <<>> /\ issued = 0 /\ tx_input = Start
  BY Zenon DEF Init
<1>2. CallIds(tx_input) = <<>>
  <2>1. Start.calls = <<>>
    BY Zenon DEF Start
  <2> QED
    BY <1>1, <2>1, NoIds, Zenon
<1>3. \A kind : Shown(kind) = <<>>
  BY <1>1, ShortLists, ValsShort, Unit, Zenon DEF Shown
<1>4. Joined(<<>>, <<>>) = <<>>
  BY ShortLists, Unit, Zenon
<1>5. issued \in Nat
  BY <1>1
<1>6. FreshIds
  BY <1>2, <1>3, <1>4, <1>5, EmptyHas, Zenon DEF FreshIds, Seen
<1> QED
  BY <1>1, <1>6, Zenon DEF Fresh, FreshTurn, QueuedCalls

-----------------------------------------------------------------------------
(* The recorder.                                                             *)

\* Until the append the recorder holds the record of the stream; afterwards the session
\* holds what it was drained into, unless the append failed.
RecordInv ==
  /\ phase \in {"driving", "finalizing", "drained"} /\ appends = 0 =>
       recorder = Recorded(stream) /\ IsSeq(recorder)
  /\ appends = 0 => session = <<>>
  /\ appends # 0 => session \in {<<>>, Drain(Recorded(stream))}

\* The append.
LEMMA FinalizeRecords ==
  ASSUME RecordInv, appends = 0, phase \in {"driving", "finalizing", "drained"}, Finalize, UNCHANGED stream
  PROVE  RecordInv'
<1>1. /\ recorder = Recorded(stream) /\ IsSeq(recorder) /\ session = <<>> /\ appends' = 1
      /\ session' \in {session, session \o Drain(recorder)}
  <2>1. appends' = 1
    BY DEF Finalize
  <2> QED
    BY <2>1, Zenon DEF RecordInv, Finalize
<1>2. <<>> \o Drain(recorder) = Drain(recorder)
  BY <1>1, RecordLists, Unit, Zenon DEF Joined
<1>3. session' \in {<<>>, Drain(Recorded(stream))}
  BY <1>1, <1>2, Zenon
<1>4. appends' # 0
  BY <1>1
<1> QED
  BY <1>3, <1>4, Zenon DEF RecordInv

\* A poll notes what the agent yields.
LEMMA PollRecords ==
  ASSUME RunnerInv, RecordInv, PollRuns \/ PollResumes PROVE RecordInv'
<1>0. /\ phase = "driving" /\ LoopInv /\ LoopNext /\ IsSeq(stream)
      /\ recorder' = IF stream' # stream THEN Observe(recorder, stream'[Len(stream')]) ELSE recorder
      /\ UNCHANGED <<session, appends>>
  BY Zenon DEF PollRuns, PollResumes, LoopNext, Relay, RunnerInv, LoopInv, LoopTypes
<1>1. CASE stream' = stream
  BY <1>0, <1>1, Zenon DEF RecordInv
<1>2. CASE stream' # stream
  <2>1. PICK e : NoTerminal(stream) /\ stream' = Append(stream, e)
    BY <1>0, <1>2, StepShape, Zenon
  <2>2. appends = 0
    BY <1>0, <2>1, StatusIs, Zenon DEF RunnerInv, RunnerTypes, RunRight, StreamedRight, Untold
  <2>3. stream'[Len(stream')] = e
    <3>1. IsSeq(stream)
      BY <1>0, Zenon
    <3>2. \A l : l = Append(stream, e) => l[Len(l)] = e
      BY <3>1, AppendIsSeq DEF IsSeq
    <3> QED
      BY <2>1, <3>2, Zenon
  <2>4. recorder = Recorded(stream) /\ IsSeq(recorder) /\ session = <<>>
    BY <1>0, <2>2, Zenon DEF RecordInv
  <2>5. recorder' = Recorded(stream') /\ IsSeq(recorder')
    BY <1>0, <1>2, <2>1, <2>3, <2>4, RecordedGrows, RecordLists, Zenon
  <2> QED
    BY <1>0, <2>2, <2>4, <2>5, Zenon DEF RecordInv
<1> QED
  BY <1>1, <1>2, Zenon

\* Every step of the runner.
LEMMA RecordStep == RunnerInv /\ RecordInv /\ [Next]_vars => RecordInv'
<1> SUFFICES ASSUME RunnerInv, RecordInv, [Next]_vars PROVE RecordInv'
  BY Zenon
<1>1. CASE PollRuns \/ PollResumes
  BY <1>1, PollRecords, Zenon
<1>2. CASE ExposeTerminal
  <2>1. phase = "finalizing" /\ appends = 0 /\ Finalize /\ UNCHANGED stream
    BY <1>2, Zenon DEF ExposeTerminal, RunnerInv, RunnerTypes, RunRight, StreamedRight, Untold, loopVars
  <2> QED
    BY <2>1, FinalizeRecords, Zenon
<1>3. CASE RunReturns
  <2>1. phase = "drained" /\ appends = 0 /\ Finalize /\ UNCHANGED stream
    BY <1>3, Zenon DEF RunReturns, RunnerInv, RunRight, loopVars
  <2> QED
    BY <2>1, FinalizeRecords, Zenon
<1>4. CASE StreamedEnds
  <2>0. phase = "drained" /\ phase' = "done" /\ UNCHANGED stream /\ mode = "streamed"
    BY <1>4, Zenon DEF StreamedEnds, loopVars
  <2>1. CASE EffectiveInterrupt = None
    BY <1>4, <2>0, <2>1, Zenon DEF StreamedEnds, RecordInv
  <2>2. CASE EffectiveInterrupt # None
    <3>1. ~ SawTerminal /\ Finalize
      BY <1>4, <2>2, Zenon DEF StreamedEnds, EffectiveInterrupt
    <3>2. appends = 0
      BY <2>0, <3>1, SawTerminalIs, StatusIs, Zenon DEF RunnerInv, LoopInv, LoopTypes, StreamedRight, Untold
    <3> QED
      BY <2>0, <3>1, <3>2, FinalizeRecords, Zenon
  <2> QED
    BY <2>1, <2>2, Zenon
<1>5. CASE Load
  <2>1. /\ phase = "load" /\ stream = <<>> /\ appends = 0 /\ UNCHANGED <<stream, session, appends>>
        /\ phase' = "driving" => recorder' = RecordInput
        /\ phase' \in {"driving", "done"}
    BY <1>5, Zenon DEF Load, RunnerInv, loopVars
  <2> QED
    BY <2>1, RecordedGrows, RecordLists, Zenon DEF RecordInv
<1>6. CASE \/ StreamEnds \/ (\E i \in {"cancelled", "timed_out"} : Interrupted(i))
           \/ Abandon \/ Cancel \/ DeadlinePasses \/ UNCHANGED vars
  <2>1. /\ UNCHANGED <<stream, recorder, session, appends>>
        /\ phase' \in {"driving", "finalizing", "drained"} => phase \in {"driving", "finalizing", "drained"}
    BY <1>6, Zenon DEF StreamEnds, Interrupted, Abandon, Cancel, DeadlinePasses, vars, loopVars, runnerVars
  <2> QED
    BY <2>1, Zenon DEF RecordInv
<1> QED
  BY <1>1, <1>2, <1>3, <1>4, <1>5, <1>6, Zenon DEF Next, RunnerStep

\* The recorder and the session stay within RecordInv.
THEOREM RecordInvariant == RunnerSpec => []RecordInv
<1>1. RunnerInit => RecordInv
  <2>1. RunnerInit => appends = 0 /\ session = <<>> /\ phase = "load"
    BY Zenon DEF RunnerInit
  <2> QED
    BY <2>1, Zenon DEF RecordInv
<1> QED
  BY <1>1, RecordStep, RunnerInvariant, PTL DEF RunnerSpec

\* By the time the caller knows how the run ended, the runner has issued its one append, and
\* what the session got, if the append went through, is the record of everything the agent
\* yielded, drained (runner.rs controlled, runtime-tokio lib.rs finalize).
THEOREM PersistsBeforeItExposes == RunnerSpec => []PersistedBeforeExposed
<1>1. RecordInv /\ (Known => appends = 1) => PersistedBeforeExposed
  <2> SUFFICES ASSUME RecordInv, appends = 1, Known PROVE PersistedBeforeExposed
    BY Zenon DEF PersistedBeforeExposed, Known
  <2>1. appends # 0
    OBVIOUS
  <2> QED
    BY <2>1, Zenon DEF RecordInv, PersistedBeforeExposed
<1> QED
  BY <1>1, RecordInvariant, AppendsOnce, PTL

-----------------------------------------------------------------------------
(* The persisted log.                                                        *)

\* Where the driver is not emitting a transition's events, no call waits in the queue.
LEMMA QuietElsewhere ==
  ASSUME LoopInv, PairInv, pc \notin {"emit", "on_turn_start"} PROVE Vals(queue, "call") = <<>>
<1>1. CASE queue = <<>>
  BY <1>1, ValsShort, Zenon
<1>2. CASE NoTraffic(queue)
  BY <1>2, QuietVals, Zenon DEF LoopInv, LoopTypes, Traffic
<1>3. queue = <<>> \/ NoTraffic(queue)
  BY Zenon DEF LoopInv, LoopTypes, AtBeginning, AtTransition, AtModel, PairInv, QueueShape, Emitting
<1> QED
  BY <1>1, <1>2, <1>3, Zenon

\* What the stream shows is orderly, at every moment of a run.
LEMMA StreamOrderly ==
  ASSUME LoopInv, PairInv, Fresh PROVE Orderly(stream)
<1> DEFINE A == Vals(stream, "call")
           Q == Vals(queue, "call")
           B == Vals(stream, "transfer")
           R == Vals(queue, "transfer")
           O == Vals(stream, "output")
           U == Vals(queue, "output")
           P == Pending("results")
           ids == CallIds(tx_input)
<1>0. /\ IsSeq(stream) /\ IsSeq(A) /\ IsSeq(Q) /\ IsSeq(B) /\ IsSeq(R) /\ IsSeq(O) /\ IsSeq(U)
      /\ IsSeq(ids) /\ IsSeq(P)
  BY ShownLists, ShortLists, Zenon DEF LoopInv, LoopTypes, Pending
<1>1. /\ Distinct(Joined(Joined(A, Q), Joined(B, R)))
      /\ Joined(A, Q) = Joined(Joined(O, U), P)
  BY Zenon DEF Fresh, FreshIds, PairInv, StreamPairs, Shown
<1>2. Q # <<>> => P = ids /\ \A x : Has(Q, x) => Has(ids, x)
  <2>1. ASSUME Q # <<>> PROVE pc \in {"emit", "on_turn_start"}
    BY <2>1, QuietElsewhere, Zenon
  <2>2. ASSUME Q # <<>> PROVE \E x : Has(Q, x)
    <3>1. Len(Q) # 0 /\ Len(Q) \in Nat
      BY <1>0, <2>2, EmptyList, Zenon DEF IsSeq
    <3> HIDE DEF Q
    <3>2. 1 \in 1 .. Len(Q)
      BY <3>1
    <3> QED
      BY <3>2, Zenon DEF Has
  <2> QED
    BY <2>1, <2>2, Zenon DEF Fresh, QueuedCalls, Pending, Owes, Emitting
<1> HIDE DEF A, Q, B, R, O, U, P, ids
<1> DEFINE AQ == Joined(A, Q)
           BR == Joined(B, R)
           OU == Joined(O, U)
<1>3. IsSeq(AQ) /\ IsSeq(BR) /\ IsSeq(OU)
  BY <1>0, JoinedIsSeq, Zenon
<1>4. /\ \A x : Has(AQ, x) <=> Has(A, x) \/ Has(Q, x)
      /\ \A x : Has(BR, x) <=> Has(B, x) \/ Has(R, x)
      /\ \A x : Has(OU, x) <=> Has(O, x) \/ Has(U, x)
  BY <1>0, JoinedHas, Zenon
<1>5. /\ Distinct(AQ) => Distinct(A)
      /\ Distinct(BR) => Distinct(B)
      /\ Distinct(OU) => Distinct(O)
  BY <1>0, JoinedHas, Zenon
<1>6. AQ = Joined(OU, P) /\ Distinct(Joined(AQ, BR))
  BY <1>1, Zenon
<1> HIDE DEF AQ, BR, OU
<1>7. Distinct(AQ) /\ Distinct(BR) /\ \A x : ~(Has(AQ, x) /\ Has(BR, x))
  BY <1>3, <1>6, JoinedHas, Zenon
<1>8. /\ Distinct(OU) /\ \A x : ~(Has(OU, x) /\ Has(P, x))
      /\ \A x : Has(OU, x) => Has(AQ, x)
  <2>1. /\ Distinct(Joined(OU, P)) => Distinct(OU) /\ \A x : ~(Has(OU, x) /\ Has(P, x))
        /\ \A x : Has(OU, x) => Has(Joined(OU, P), x)
    BY <1>0, <1>3, JoinedHas, Zenon
  <2> QED
    BY <1>6, <1>7, <2>1, Zenon
<1>9. /\ Distinct(A) /\ Distinct(B) /\ Distinct(O) /\ \A x : ~(Has(A, x) /\ Has(B, x))
  BY <1>4, <1>5, <1>7, <1>8, Zenon
<1>10. \A x : Has(O, x) => Has(A, x)
  <2> SUFFICES ASSUME NEW x, Has(O, x), ~ Has(A, x) PROVE FALSE
    BY Zenon
  <2>1. Has(OU, x) /\ Has(Q, x)
    BY <1>4, <1>8, Zenon
  <2>2. Q # <<>>
    BY <2>1, EmptyHas, Zenon
  <2> QED
    BY <1>2, <1>8, <2>1, <2>2, Zenon
<1>11. ASSUME NEW kind
       PROVE  /\ \A x : Has(Vals(stream, kind), x)
                          <=> \E i \in 1 .. Len(stream) : stream[i].kind = kind /\ stream[i].val = x
              /\ Distinct(Vals(stream, kind)) =>
                   \A i, j \in 1 .. Len(stream) :
                     stream[i].kind = kind /\ stream[j].kind = kind /\ stream[i].val = stream[j].val => i = j
  BY <1>0, FieldsHave, Zenon DEF Vals
<1>12. OneEach(stream, {"output"})
  BY <1>9, <1>11, Zenon DEF OneEach, O
<1>13. OneEach(stream, Calling)
  <2> SUFFICES ASSUME NEW i \in 1 .. Len(stream), NEW j \in 1 .. Len(stream),
                      stream[i].kind \in Calling, stream[j].kind \in Calling, stream[i].val = stream[j].val
               PROVE  i = j
    BY Zenon DEF OneEach
  <2>1. /\ stream[i].kind = "call" => Has(A, stream[i].val)
        /\ stream[j].kind = "call" => Has(A, stream[j].val)
        /\ stream[i].kind = "transfer" => Has(B, stream[i].val)
        /\ stream[j].kind = "transfer" => Has(B, stream[j].val)
    BY <1>11, Zenon DEF A, B
  <2>2. stream[i].kind = stream[j].kind
    BY <1>9, <2>1, Zenon DEF Calling
  <2>3. CASE stream[i].kind = "call"
    <3>1. Distinct(Vals(stream, "call"))
      BY <1>9, Zenon DEF A
    <3>2. \A k, n \in 1 .. Len(stream) :
            stream[k].kind = "call" /\ stream[n].kind = "call" /\ stream[k].val = stream[n].val => k = n
      BY <1>11, <3>1, Zenon
    <3>3. stream[j].kind = "call"
      BY <2>2, <2>3, Zenon
    <3> QED
      BY <2>3, <3>2, <3>3, Zenon
  <2>4. CASE stream[i].kind = "transfer"
    <3>1. Distinct(Vals(stream, "transfer"))
      BY <1>9, Zenon DEF B
    <3>2. \A k, n \in 1 .. Len(stream) :
            stream[k].kind = "transfer" /\ stream[n].kind = "transfer" /\ stream[k].val = stream[n].val => k = n
      BY <1>11, <3>1, Zenon
    <3>3. stream[j].kind = "transfer"
      BY <2>2, <2>4, Zenon
    <3> QED
      BY <2>4, <3>2, <3>3, Zenon
  <2> QED
    BY <2>3, <2>4, Zenon DEF Calling
<1>14. ASSUME NEW i \in 1 .. Len(stream), stream[i].kind = "output"
       PROVE  \E j \in 1 .. Len(stream) : stream[j].kind \in Calling /\ stream[j].val = stream[i].val
  <2>1. Has(O, stream[i].val)
    BY <1>11, <1>14, Zenon DEF O
  <2>2. Has(A, stream[i].val)
    BY <1>10, <2>1, Zenon
  <2>3. PICK j \in 1 .. Len(stream) : stream[j].kind = "call" /\ stream[j].val = stream[i].val
    BY <1>11, <2>2, Zenon DEF A
  <2> QED
    BY <2>3, Zenon DEF Calling
<1> QED
  BY <1>12, <1>13, <1>14, Zenon DEF Orderly

INSTANCE FiniteSetTheorems

\* So an orderly stream leaves a log with as many results as calls.
LEMMA OrderlyAnswers ==
  ASSUME NEW evs, IsSeq(evs), Orderly(evs), NEW id
  PROVE  Cardinality(CallsOf(Drain(Recorded(evs)), id)) = Cardinality(ResultsOf(Drain(Recorded(evs)), id))
<1> DEFINE r == Recorded(evs)
           a == CallsOf(Drain(r), id)
           t == ResultsOf(Drain(r), id)
<1>1. /\ Items(r) /\ Logs(r, evs, Len(evs), "called", Calling)
      /\ Logs(r, evs, Len(evs), "returned", {"output"})
  BY RecordLogs, Zenon
<1> HIDE DEF r
<1>2. /\ \A j, k \in 1 .. Len(r) : r[j].kind = "called" /\ r[k].kind = "called" /\ r[j].id = r[k].id => j = k
      /\ \A j, k \in 1 .. Len(r) : r[j].kind = "returned" /\ r[k].kind = "returned" /\ r[j].id = r[k].id => j = k
  BY <1>1, Zenon DEF Logs
<1>3. ASSUME NEW j \in 1 .. Len(r), r[j].kind = "returned"
      PROVE  \E k \in 1 .. Len(r) : r[k].kind = "called" /\ r[k].id = r[j].id
  <2>1. PICK i \in 1 .. Len(evs) : evs[i].kind \in {"output"} /\ evs[i].val = r[j].id
    BY <1>1, <1>3, Zenon DEF Logs
  <2>2. PICK l \in 1 .. Len(evs) : evs[l].kind \in Calling /\ evs[l].val = evs[i].val
    BY <2>1, Zenon DEF Orderly
  <2>3. PICK k \in 1 .. Len(r) : r[k].kind = "called" /\ r[k].id = evs[l].val
    BY <1>1, <2>2, Zenon DEF Logs
  <2> QED
    BY <2>1, <2>2, <2>3, Zenon
<1>4. /\ \A i, j \in a : i = j
      /\ \A i, j \in t : i = j
      /\ a = {} <=> t = {}
  BY <1>1, <1>2, <1>3, DrainAnswers, Zenon
<1> HIDE DEF a, t
<1>5. ASSUME a = {} PROVE Cardinality(a) = Cardinality(t)
  BY <1>4, <1>5, Zenon
<1>6. ASSUME a # {} PROVE Cardinality(a) = Cardinality(t)
  <2>1. PICK i \in a : TRUE
    BY <1>6, Zenon
  <2>2. PICK j \in t : TRUE
    BY <1>4, <1>6, Zenon
  <2>3. a = {i} /\ t = {j}
    BY <1>4, <2>1, <2>2, Zenon
  <2>4. Cardinality({i}) = 1 /\ Cardinality({j}) = 1
    BY FS_Singleton, Zenon
  <2> QED
    BY <2>3, <2>4, Zenon
<1> QED
  BY <1>5, <1>6, Zenon DEF a, t, r

\* No id is shown twice by a run of the default runner, either.
LEMMA RunnerFresh == RunnerSpec => [](LoopInv /\ PairInv /\ FreshInv)
<1>1. RunnerInit => PairInv /\ FreshInv
  BY PairStarts, FreshStarts, Zenon DEF RunnerInit
<1>2. RunnerInv => LoopInv
  BY Zenon DEF RunnerInv
<1>3. LoopInv /\ PairInv /\ FreshInv /\ [Next]_vars => PairInv' /\ FreshInv'
  BY RunnerDrives, PairStep, FreshStep, Zenon
<1> QED
  BY <1>1, <1>2, <1>3, RunnerInvariant, PTL DEF RunnerSpec

\* If the provider numbers its calls on, the log a run appends to the session holds one result
\* for each of its calls, whatever cut the run short; without that assumption the run
\* tokio_reused_ids shows it to be false (session.rs SessionRecorder::drain).
THEOREM PersistedCallsAreAnswered == RunnerSpec => [](~ ReuseIds => PersistedCallsAnswered)
<1>1. LoopInv /\ PairInv /\ FreshInv /\ RecordInv => (~ ReuseIds => PersistedCallsAnswered)
  <2> SUFFICES ASSUME LoopInv, PairInv, FreshInv, RecordInv, ~ ReuseIds,
                      NEW id \in {session[i].id : i \in DOMAIN session}
               PROVE  Cardinality(CallsOf(session, id)) = Cardinality(ResultsOf(session, id))
    BY Zenon DEF PersistedCallsAnswered, CallsOf, ResultsOf
  <2>1. Fresh /\ IsSeq(stream)
    BY Zenon DEF FreshInv, LoopInv, LoopTypes
  <2>2. Orderly(stream)
    BY <2>1, StreamOrderly, Zenon
  <2>3. CASE session = <<>>
    <3>1. DOMAIN <<>> = {}
      OBVIOUS
    <3>2. CallsOf(session, id) = {} /\ ResultsOf(session, id) = {}
      BY <2>3, <3>1, Zenon DEF CallsOf, ResultsOf
    <3> QED
      BY <3>2, Zenon
  <2>4. CASE session = Drain(Recorded(stream))
    BY <2>1, <2>2, <2>4, OrderlyAnswers, Zenon
  <2> QED
    BY <2>3, <2>4, Zenon DEF RecordInv
<1> QED
  BY <1>1, RunnerFresh, RecordInvariant, PTL
=============================================================================
