------------------------------- MODULE Requests ------------------------------
(***************************************************************************)
(* What a provider is sent: the items of a conversation, as the agent loop   *)
(* and the session build them, and the five request translators that turn    *)
(* them into a provider's messages (translate/request.rs of each provider;   *)
(* LiteLLM's is OpenAI's to_chat_messages, line for line).                   *)
(*                                                                          *)
(* A content part is <<type, n>>: the text or reasoning of the n-th item, the *)
(* call with id n, the result of the call with id n.  Tool calls and results  *)
(* come as items of their own or nested in a message, one way throughout a    *)
(* conversation.  Media parts, names and arguments are left out: each is      *)
(* carried along with its part.                                             *)
(***************************************************************************)
EXTENDS Integers, Sequences, SequencesExt

CONSTANTS
  MaxItems,     \* bound on the conversation
  MaxCalls      \* bound on its tool calls

VARIABLES items, nested, opened

requestVars == <<items, nested, opened>>

RequestIdle == items = <<>> /\ nested = FALSE /\ opened = {}

RequestInit == items = <<>> /\ nested \in BOOLEAN /\ opened = {}

-----------------------------------------------------------------------------
(* The conversation.                                                        *)

ItemOfKind(kind, parts) == [kind |-> kind, parts |-> parts]

PartsOf(seq, types) == SelectSeq(seq, LAMBDA p : p[1] \in types)

AllParts == FlattenSeq([i \in DOMAIN items |-> items[i].parts])

CallsSoFar == Len(PartsOf(AllParts, {"call"}))

\* Instructions, or the summary a compacted session begins with.
SystemItem ==
  /\ \A i \in DOMAIN items : items[i].kind = "system"
  /\ Len(items) < 2
  /\ items' = Append(items, ItemOfKind("system", <<<<"text", Len(items) + 1>>>>))
  /\ UNCHANGED <<nested, opened>>

\* A message; the run of the one before may have failed without an answer.
UserSpeaks ==
  /\ opened = {} /\ Len(items) < MaxItems
  /\ items' = Append(items, ItemOfKind("user", <<<<"text", Len(items) + 1>>>>))
  /\ UNCHANGED <<nested, opened>>

\* build_items: a message if there is text or reasoning, then the calls.  A call
\* nested in its message is what an imported Anthropic conversation has.
ModelTurn ==
  LET n == Len(items) + 1
  IN /\ opened = {} /\ items # <<>> /\ Last(items).kind \in {"user", "result"}
     /\ \E said \in {<<>>, <<<<"text", n>>>>, <<<<"reasoning", n>>>>,
                     <<<<"reasoning", n>>, <<"text", n>>>>},
           k \in 0 .. MaxCalls - CallsSoFar :
          LET calls == [i \in 1 .. k |-> <<"call", CallsSoFar + i>>]
              message == IF nested THEN said \o calls ELSE said
          IN /\ said # <<>> \/ k > 0
             /\ n + 2 * k <= MaxItems
             /\ items' = items
                  \o (IF message = <<>> THEN <<>> ELSE <<ItemOfKind("assistant", message)>>)
                  \o (IF nested THEN <<>> ELSE [i \in 1 .. k |-> ItemOfKind("call", <<calls[i]>>)])
             /\ opened' = {CallsSoFar + i : i \in 1 .. k}
  /\ UNCHANGED nested

\* run_tools_concurrent: the results, in the order of the calls.
ToolsReturn ==
  LET ids == SetToSortSeq(opened, <)
      results == [i \in DOMAIN ids |-> <<"result", ids[i]>>]
  IN /\ opened # {} /\ opened' = {}
     /\ items' = items \o IF nested THEN <<ItemOfKind("user", results)>>
                          ELSE [i \in DOMAIN ids |-> ItemOfKind("result", <<results[i]>>)]
     /\ UNCHANGED nested

RequestEnds == opened = {} /\ Len(items) >= MaxItems /\ UNCHANGED requestVars

RequestNext == SystemItem \/ UserSpeaks \/ ModelTurn \/ ToolsReturn \/ RequestEnds
RequestSpec == RequestInit /\ [][RequestNext]_requestVars

-----------------------------------------------------------------------------
(* The translators: folds over the items.                                   *)

Message(role, parts) == [role |-> role, parts |-> parts]

NoRequest == [out |-> <<>>, system |-> <<>>, calls |-> <<>>, results |-> <<>>]

LastRole(t) == IF t.out = <<>> THEN "none" ELSE Last(t.out).role

Push(t, role, parts) == [t EXCEPT !.out = Append(@, Message(role, parts))]

\* Appends the parts to the last message.
Extend(t, parts) == [t EXCEPT !.out[Len(t.out)].parts = @ \o parts]

\* flush_pending_assistant, flush_pending_user.
FlushCalls(t) ==
  IF t.calls = <<>> THEN t ELSE [Push(t, "assistant", t.calls) EXCEPT !.calls = <<>>]
FlushResults(t) ==
  IF t.results = <<>> THEN t ELSE [Push(t, "user", t.results) EXCEPT !.results = <<>>]

\* Anthropic.  Results go to the front of the next user turn, a call to the
\* assistant turn that is last; reasoning is dropped.
AnthropicItem(t, item) ==
  CASE item.kind = "system" ->
         [FlushResults(FlushCalls(t)) EXCEPT !.system = @ \o item.parts]
    [] item.kind = "user" ->
         [Push(FlushCalls(t), "user", t.results \o item.parts) EXCEPT !.results = <<>>]
    [] item.kind = "assistant" ->
         Push(FlushCalls(FlushResults(t)), "assistant", PartsOf(item.parts, {"text", "call"}))
    [] item.kind = "call" ->
         IF LastRole(t) = "assistant" THEN Extend(t, item.parts)
         ELSE [t EXCEPT !.calls = @ \o item.parts]
    [] item.kind = "result" -> [t EXCEPT !.results = @ \o item.parts]

AnthropicMessages(its) == FlushResults(FlushCalls(FoldLeft(AnthropicItem, NoRequest, its)))

\* Bedrock.  A turn joins the last one if that has the same role; empty turns are
\* left out.
Coalesce(t, role, parts) ==
  IF parts = <<>> THEN t
  ELSE IF LastRole(t) = role THEN Extend(t, parts)
  ELSE Push(t, role, parts)
FlushAssistant(t) == [Coalesce(t, "assistant", t.calls) EXCEPT !.calls = <<>>]

\* Mistake: a result does not flush the calls it answers.
BedrockResult_Queued(t, parts) == [t EXCEPT !.results = @ \o parts]
BedrockResult(t, parts) == [FlushAssistant(t) EXCEPT !.results = @ \o parts]

BedrockItem(t, item) ==
  CASE item.kind = "system" ->
         [FlushResults(FlushAssistant(t)) EXCEPT !.system = @ \o item.parts]
    [] item.kind = "user" ->
         [Coalesce(FlushAssistant(t), "user", t.results \o item.parts) EXCEPT !.results = <<>>]
    [] item.kind = "assistant" ->
         Coalesce(FlushAssistant(FlushResults(t)), "assistant",
                  PartsOf(item.parts, {"text", "call"}))
    [] item.kind = "call" -> [t EXCEPT !.calls = @ \o item.parts]
    [] item.kind = "result" -> BedrockResult(t, item.parts)

\* The first turn must be the user's: a placeholder is put before another.
BedrockMessages(its) ==
  LET t == FlushResults(FlushAssistant(FoldLeft(BedrockItem, NoRequest, its)))
  IN IF LastRole([t EXCEPT !.out = SubSeq(@, 1, 1)]) = "assistant"
       THEN [t EXCEPT !.out = <<Message("user", <<>>)>> \o @]
       ELSE t

\* Chat completions.  A call joins the assistant message that is last, and a tool
\* message follows for each result; results nested in a message are hoisted.
Hoisted(t, parts) ==
  FoldLeft(LAMBDA u, p : Push(u, "tool", <<p>>), t, PartsOf(parts, {"result"}))
EmitUserOrHoist(t, parts) ==
  LET said == PartsOf(parts, {"text"})
  IN Hoisted(IF said = <<>> THEN t ELSE Push(t, "user", said), parts)

ChatItem(t, item) ==
  CASE item.kind = "system" -> Push(FlushCalls(t), "system", item.parts)
    [] item.kind = "user" -> EmitUserOrHoist(FlushCalls(t), item.parts)
    [] item.kind = "assistant" ->
         Push(FlushCalls(t), "assistant", PartsOf(item.parts, {"text", "call"}))
    [] item.kind = "call" ->
         IF LastRole(t) = "assistant" THEN Extend(t, item.parts)
         ELSE [t EXCEPT !.calls = @ \o item.parts]
    [] item.kind = "result" -> Push(FlushCalls(t), "tool", item.parts)

ChatMessages(its) == FlushCalls(FoldLeft(ChatItem, NoRequest, its))

\* Responses.  Calls and results are items of the input.
ResponsesCalls(t, parts) ==
  FoldLeft(LAMBDA u, p : Push(u, "function_call", <<p>>), t, PartsOf(parts, {"call"}))
ResponsesInput(t, item) ==
  LET said == PartsOf(item.parts, {"text"})
      spoken == IF said = <<>> THEN t ELSE Push(t, item.kind, said)
  IN CASE item.kind = "system" -> spoken
       [] item.kind \in {"user", "result"} -> Hoisted(spoken, item.parts)
       [] item.kind \in {"assistant", "call"} -> ResponsesCalls(spoken, item.parts)

ResponsesMessages(its) == FoldLeft(ResponsesInput, NoRequest, its)

\* Gemini.  A turn per item; the name of a result is that of its call, without which
\* the request is refused.
GeminiItem(t, item) ==
  CASE item.kind = "system" -> [t EXCEPT !.system = @ \o item.parts]
    [] item.kind \in {"user", "result"} ->
         IF item.parts = <<>> THEN t ELSE Push(t, "user", item.parts)
    [] item.kind \in {"assistant", "call"} ->
         Push(t, "assistant", PartsOf(item.parts, {"text", "call"}))

GeminiContents(its) == FoldLeft(GeminiItem, NoRequest, its)

GeminiRefuses(its) ==
  LET parts == FlattenSeq([i \in DOMAIN its |-> its[i].parts])
  IN \E p \in Range(PartsOf(parts, {"result"})) : <<"call", p[2]>> \notin Range(parts)

-----------------------------------------------------------------------------
(* Properties.                                                              *)

\* A request goes out after a message of the user or the results of a turn.
Sendable == opened = {} /\ items # <<>> /\ Last(items).kind \in {"user", "result"}

FlatParts(seq) == FlattenSeq([i \in DOMAIN seq |-> seq[i].parts])
Carried(kinds) ==
  PartsOf(FlatParts(SelectSeq(items, LAMBDA it : it.kind \in kinds)), {"text", "call", "result"})
TurnKinds == {"user", "assistant", "call", "result"}

SameParts(p, q) == Len(p) = Len(q) /\ Range(p) = Range(q)

IdsIn(parts, type) == {p[2] : p \in Range(PartsOf(parts, {type}))}

Alternates(out) ==
  /\ out[1].role = "user"
  /\ \A i \in 1 .. Len(out) - 1 : out[i].role # out[i + 1].role

\* The turn after one with calls begins with their results, and there are no others.
AnsweredNext(out) ==
  \A i \in DOMAIN out :
    LET calls == IdsIn(out[i].parts, "call")
        next == IF i < Len(out) THEN out[i + 1] ELSE Message("none", <<>>)
    IN calls # {} =>
         /\ next.role = "user" /\ IdsIn(next.parts, "result") = calls
         /\ \A j \in 1 .. Len(next.parts) - 1 :
              next.parts[j + 1][1] = "result" => next.parts[j][1] = "result"

\* The messages after one with calls are their tool messages, one each.
ToolsFollow(out) ==
  \A i \in DOMAIN out :
    LET calls == PartsOf(out[i].parts, {"call"})
        n == Len(calls)
    IN n > 0 =>
         /\ i + n <= Len(out)
         /\ \A j \in 1 .. n : out[i + j] = Message("tool", <<<<"result", calls[j][2]>>>>)

\* No run of calls stands without an assistant message before it.
NoSilentTurn ==
  \A i \in DOMAIN items : items[i].kind = "call" => items[i - 1].kind \in {"assistant", "call"}

\* Whatever mix of turns a conversation holds (speaking or silent, with one call, many
\* or none, results as items or nested, a failed run's unanswered message), each
\* request carries all of it once.  Chat, Responses and Gemini requests keep its order,
\* and a chat message with calls is followed by their answers.  Bedrock's turns
\* alternate, the user's first, and the turn after one with calls begins with exactly
\* their results (sma-329-bedrock-provider-design.md:200).  If no turn is silent,
\* Bedrock's and Anthropic's requests keep the order too, and Anthropic's results stand
\* in the turn after their calls; that Anthropic's turns alternate is not said here.
RequestsFaithful ==
  LET bedrock == BedrockMessages(items)
      anthropic == AnthropicMessages(items)
      chat == ChatMessages(items)
  IN Sendable =>
       /\ Alternates(bedrock.out) /\ AnsweredNext(bedrock.out)
       /\ SameParts(FlatParts(bedrock.out), Carried(TurnKinds))
       /\ SameParts(FlatParts(anthropic.out), Carried(TurnKinds))
       /\ bedrock.system = Carried({"system"}) /\ anthropic.system = Carried({"system"})
       /\ NoSilentTurn =>
            /\ FlatParts(bedrock.out) = Carried(TurnKinds)
            /\ FlatParts(anthropic.out) = Carried(TurnKinds)
            /\ AnsweredNext(anthropic.out)
       /\ FlatParts(chat.out) = Carried(TurnKinds \union {"system"}) /\ ToolsFollow(chat.out)
       /\ FlatParts(ResponsesMessages(items).out) = Carried(TurnKinds \union {"system"})
       /\ FlatParts(GeminiContents(items).out) = Carried(TurnKinds) /\ ~GeminiRefuses(items)

\* Where no user message follows another, results join the user turn that follows or
\* make one turn: "never two consecutive `user` roles (Anthropic rejects them)"
\* (sma-317-anthropic-provider-design.md:212).
ResultsJoinOneTurn ==
  LET out == AnthropicMessages(items).out
      doubled == \E i \in 1 .. Len(items) - 1 : items[i].kind = "user" /\ items[i + 1].kind = "user"
  IN Sendable /\ ~doubled =>
       \A i \in 1 .. Len(out) - 1 : ~(out[i].role = "user" /\ out[i + 1].role = "user")
=============================================================================
