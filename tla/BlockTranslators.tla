-------------------------- MODULE BlockTranslators --------------------------
(***************************************************************************)
(* The translators of the streams that describe content in items or        *)
(* blocks: OpenAI Responses (backend/responses.rs), Anthropic (stream.rs), *)
(* Bedrock (stream.rs) and Gemini (stream.rs).  As in ChatTranslators each *)
(* is a pair of operators over an explicit state; an Err item is an event  *)
(* of kind "error".                                                        *)
(***************************************************************************)
EXTENDS ChatTranslators

CONSTANTS FnIds,           \* the ids fc_0, fc_1, ... Gemini's translator makes up
          SynthesizedName  \* the tool that structured output is forced through

(* ------------------------------ Responses ------------------------------ *)
(* An item is [item, id, name, args, complete]: item_id, call_id, the name, *)
(* the arguments it carries and whether its status is absent or completed. *)
ResponsesNew == [emitted_items |-> {}, named_calls |-> {},
                 item_to_call |-> <<>>, pending_args |-> <<>>]

ClaimsName(t, id) == id = Blank \/ id \notin t.named_calls

EmitItem(t, item, id, name, args) ==
    [t |-> [t EXCEPT !.emitted_items = @ \union {item},
                     !.named_calls = IF id = Blank THEN @
                                     ELSE @ \union {id}],
     out |-> <<CallDelta(id, IF ClaimsName(t, id) THEN name ELSE <<>>,
                         args)>>]

Register(t, it) ==
    IF it.item \in DOMAIN t.item_to_call THEN t
    ELSE [t EXCEPT !.item_to_call =
                     Put(@, it.item, [id |-> it.id, name |-> it.name])]

PendingOf(t, item) ==
    IF item \in DOMAIN t.pending_args THEN t.pending_args[item] ELSE <<>>

TakePending(t, item) == [t EXCEPT !.pending_args = Without(@, item)]

\* A mutant: the deltas already streamed are not consulted (SMA-562 done twice).
EmitCallIfUnseen_Always(t, it) ==
    IF ~it.complete THEN [t |-> t, out |-> <<>>]
    ELSE EmitItem(TakePending(Register(t, it), it.item), it.item, it.id,
                  it.name, it.args)

(* output_item.done and each item of response.completed: a complete call   *)
(* nothing was emitted for goes out whole; the buffered deltas are used    *)
(* only when the item reports no arguments.                                *)
EmitCallIfUnseen(t, it) ==
    LET r == Register(t, it)
        buffered == PendingOf(t, it.item)
        args == IF it.args = <<>> THEN buffered ELSE it.args
    IN  IF ~it.complete THEN [t |-> t, out |-> <<>>]
        ELSE IF it.item \in t.emitted_items THEN [t |-> r, out |-> <<>>]
        ELSE EmitItem(TakePending(r, it.item), it.item, it.id, it.name, args)

(* output_item.added: the item is registered, its early deltas go out.     *)
ItemAdded(t, it) ==
    LET r == Register(t, it)
        buffered == PendingOf(t, it.item)
    IN  IF buffered = <<>> THEN [t |-> r, out |-> <<>>]
        ELSE EmitItem(TakePending(r, it.item), it.item, it.id, it.name,
                      buffered)

(* function_call_arguments.delta: at once for a registered item, else held. *)
ArgumentsDelta(t, item, args) ==
    IF item \in DOMAIN t.item_to_call
    THEN LET call == t.item_to_call[item]
         IN  IF item \in t.emitted_items
             THEN [t |-> t, out |-> <<CallDelta(call.id, <<>>, args)>>]
             ELSE EmitItem(t, item, call.id, call.name, args)
    ELSE IF args = <<>> THEN [t |-> t, out |-> <<>>]
    ELSE [t |-> [t EXCEPT !.pending_args =
                            Put(@, item, PendingOf(t, item) \o args)],
          out |-> <<>>]

(* The terminal events: Usage, then Finish.  A completed response ends in  *)
(* tool_calls when a call went out, an incomplete one for its own reason.  *)
ResponseCompleted(t, output) ==
    LET r == FoldOver(LAMBDA a, it :
                        LET b == EmitCallIfUnseen(a.t, it)
                        IN  [t |-> b.t, out |-> a.out \o b.out],
                      [t |-> t, out |-> <<>>], output)
    IN  [t |-> r.t,
         out |-> r.out \o <<Usage, Finish(IF r.t.emitted_items # {}
                                          THEN "tool_calls" ELSE "stop")>>]

ResponseIncomplete(t, reason) ==
    [t |-> t, out |-> <<Usage, Finish(reason)>>]

ResponseFailed(t) == [t |-> t, out |-> <<Error("other")>>]

(* ----------------------- Anthropic and Bedrock ------------------------- *)
(* A block is [kind, id, name].                                            *)
Synthesized == <<SynthesizedName>>

BlocksNew(synthesizing) ==
    [blocks |-> <<>>, named |-> {}, synthesizing |-> synthesizing,
     synthesized |-> None, real_tool |-> FALSE, stop_reason |-> None,
     terminal |-> FALSE, metadata |-> FALSE]

BlockStart(t, index, block) ==
    LET synth == t.synthesizing /\ block.name = Synthesized
        tool == block.kind = "tool"
    IN  [t EXCEPT !.blocks = Put(@, index, block),
                  !.named = @ \ {index},
                  !.synthesized = IF tool /\ synth THEN index ELSE @,
                  !.real_tool = @ \/ (tool /\ ~synth)]

IsTool(t, index) ==
    index \in DOMAIN t.blocks /\ t.blocks[index].kind = "tool"

(* An input delta: text for the synthesized tool, else a call delta that   *)
(* carries the name the first time.                                        *)
InputDelta(t, index, args) ==
    IF index = t.synthesized THEN [t |-> t, out |-> <<TokenDelta>>]
    ELSE [t |-> [t EXCEPT !.named = @ \union {index}],
          out |-> <<CallDelta(t.blocks[index].id,
                              IF index \in t.named THEN <<>>
                              ELSE t.blocks[index].name,
                              args)>>]

(* The terminal item: a tool turn of structured output is a plain stop,    *)
(* unless a real tool fired too; Anthropic also turns a refusal into Err.  *)
StopEvent(t, reason) ==
    CASE reason = "refusal" -> Error("refused")
      [] reason = "tool_use" /\ t.synthesizing /\ t.real_tool ->
             Error("other")
      [] reason = "tool_use" /\ ~t.synthesizing -> Finish("tool_calls")
      [] reason = "max_tokens" -> Finish("length")
      [] OTHER -> Finish("stop")

AnthropicInput(t, index, args) ==
    IF index = t.synthesized \/ IsTool(t, index)
    THEN InputDelta(t, index, args)
    ELSE [t |-> t, out |-> <<Error("transport")>>]

AnthropicMessageDelta(t, reason) ==
    [t |-> [t EXCEPT !.stop_reason = IF reason = None THEN @ ELSE reason],
     out |-> IF t.terminal THEN <<>> ELSE <<Usage>>]

\* A mutant: the buffer being full, not `terminal_emitted`, is the guard.
AnthropicStop_Rearmed(t) ==
    IF t.stop_reason = None THEN [t |-> t, out |-> <<>>]
    ELSE [t |-> [t EXCEPT !.stop_reason = None, !.terminal = TRUE],
          out |-> <<StopEvent(t, t.stop_reason)>>]

(* The buffered stop reason goes out once: at message_stop, or at the end  *)
(* of a body that stopped short of it.                                     *)
AnthropicStop(t) ==
    IF t.stop_reason = None \/ t.terminal
    THEN [t |-> [t EXCEPT !.stop_reason = None], out |-> <<>>]
    ELSE [t |-> [t EXCEPT !.stop_reason = None, !.terminal = TRUE],
          out |-> <<StopEvent(t, t.stop_reason)>>]

AnthropicFinish(t) == AnthropicStop(t).out

BedrockInput(t, index, args) ==
    IF index = t.synthesized \/ IsTool(t, index)
    THEN InputDelta(t, index, args)
    ELSE [t |-> t, out |-> <<>>]

(* The stop reason waits for the metadata that carries the usage.          *)
BedrockMessageStop(t, reason) ==
    IF t.metadata THEN [t |-> t, out |-> <<StopEvent(t, reason)>>]
    ELSE [t |-> [t EXCEPT !.stop_reason = reason], out |-> <<>>]

BedrockFinish(t) ==
    IF t.stop_reason = None THEN <<>> ELSE <<StopEvent(t, t.stop_reason)>>

BedrockMetadata(t) ==
    [t |-> [t EXCEPT !.metadata = TRUE, !.stop_reason = None],
     out |-> <<Usage>> \o BedrockFinish(t)]

(* ------------------------------- Gemini -------------------------------- *)
GeminiNew == [fn_index |-> 0, saw_function_call |-> FALSE,
              finish_reason |-> None]

(* A chunk is [blocked, parts, reason, usage]; a part is text or a whole   *)
(* function call, whose missing id is made up from a counter.              *)
GeminiPart(t, part) ==
    IF part.kind = "text" THEN [t |-> t, out |-> <<TokenDelta>>]
    ELSE LET made == part.id = None
         IN  [t |-> [t EXCEPT !.saw_function_call = TRUE,
                              !.fn_index = IF made THEN @ + 1 ELSE @],
              out |-> <<CallDelta(IF made THEN FnIds[t.fn_index + 1]
                                  ELSE part.id,
                                  part.name, part.args)>>]

GeminiConsume(t, chunk) ==
    LET r == FoldOver(LAMBDA a, part :
                        LET b == GeminiPart(a.t, part)
                        IN  [t |-> b.t, out |-> a.out \o b.out],
                      [t |-> t, out |-> <<>>], chunk.parts)
    IN  IF chunk.blocked THEN [t |-> t, out |-> <<Error("refused")>>]
        ELSE [t |-> KeepReason(r.t, chunk.reason),
              out |-> r.out \o (IF chunk.usage THEN <<Usage>> ELSE <<>>)]

GeminiFinish(t) ==
    IF t.finish_reason = None THEN <<>>
    ELSE <<Finish(IF t.finish_reason = "stop" /\ t.saw_function_call
                  THEN "tool_calls" ELSE t.finish_reason)>>
=============================================================================
