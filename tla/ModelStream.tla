---------------------------- MODULE ModelStream ----------------------------
(***************************************************************************)
(* One model call of a turn, from the provider's wire to the turn the      *)
(* agent loop gets: a provider stream (connection, wire events through a   *)
(* translator, end of body, transport error) polled by `RetryingModel`     *)
(* (runtime-tokio/src/retry.rs), whose items the agent loop feeds to a     *)
(* `ModelTurnAccumulator` (core/src/model.rs).  The run's cancellation     *)
(* token may fire at any point.                                            *)
(*                                                                         *)
(* The wire is the environment.  Tool calls are streamed under wire keys   *)
(* (an index, an item, a block, an ordinal); the n-th argument fragment of *)
(* key k is the token <<k, n>>, so that a lost, repeated, reordered or     *)
(* misdelivered fragment shows.                                            *)
(***************************************************************************)
EXTENDS BlockTranslators

CONSTANTS Providers,     \* the providers explored
          CallIds,       \* real (non-blank) call ids
          Names,         \* name fragments
          MaxAttempts,   \* RetryPolicy::max_attempts
          MaxChunks      \* wire events per call, over all attempts, by provider

ASSUME MaxAttemptsIsClamped == MaxAttempts \in Nat \ {0}

VARIABLES provider,  \* the provider wrapped, and its structured-output mode
          attempt,   \* RetryingModel: 0-based
          phase,     \* invoke, open, backoff, ended
          source,    \* the provider's stream: connecting, body, over
          tr,        \* the provider's translator
          queue,     \* items the provider is yielding
          started,   \* an item of this attempt was handed on
          acc,       \* the agent's accumulator
          outcome,   \* none, clean, cancelled, error
          cancelled, \* the run's token
          wire,      \* the environment: what was sent in this attempt
          chunks,    \* wire events sent so far, over all attempts
          peer       \* history: LiteLLM's translator on an OpenAI chat stream

retry == <<attempt, phase, started, outcome>>
vars == <<provider, attempt, phase, source, tr, queue, started, acc, outcome,
          cancelled, wire, chunks, peer>>

(* --------------------------- the accumulator --------------------------- *)
(* `names` and `finishes` count what was observed, `late` that an event    *)
(* followed a Finish, `from` the attempts events came from: history only.  *)
AccNew == [calls |-> <<>>, finish_reason |-> "stop", finishes |-> 0,
           late |-> FALSE, from |-> {}]

ObserveCall(calls, ev) ==
    LET old == IF ev.id \in DOMAIN calls THEN calls[ev.id]
               ELSE [name |-> <<>>, args |-> <<>>, names |-> 0]
    IN  Put(calls, ev.id,
            [name |-> IF old.name = <<>> THEN ev.name ELSE old.name,
             args |-> old.args \o ev.args,
             names |-> old.names + (IF ev.name = <<>> THEN 0 ELSE 1)])

Observe(a, ev, n) ==
    LET b == [a EXCEPT !.from = @ \union {n}, !.late = a.finishes > 0]
    IN  CASE ev.kind = "call" -> [b EXCEPT !.calls = ObserveCall(@, ev)]
          [] ev.kind = "finish" -> [b EXCEPT !.finish_reason = ev.reason,
                                             !.finishes = @ + 1]
          [] OTHER -> b

(* ------------------------------ the wire ------------------------------- *)
Keys == {0, 1}

WireNew ==
    [sent |-> [k \in Keys \union CallIds |-> 0],       \* argument fragments
     frags |-> [k \in Keys \union CallIds |-> <<>>],   \* name fragments
     closed |-> {},      \* keys whose name was followed by something else
     untidy |-> {},      \* keys whose name went on after that
     item |-> [k \in Keys |-> None],   \* the call id, where the wire fixes it
     added |-> {},       \* items and blocks announced
     done |-> {},        \* items finished
     broken |-> {},      \* items finished with an incomplete status
     reason |-> FALSE,   \* a stop reason was sent
     stopped |-> FALSE,  \* the frame that ends the content was sent
     failed |-> FALSE,   \* the body broke off
     metadata |-> FALSE, \* Bedrock's usage frame was sent
     resumed |-> "no"]   \* Responses: no, losing (its prefix), yes

NextToken(k) == <<k, wire.sent[k] + 1>>

(* The environment's record of a tool-call delta under key k.              *)
Sent(w, k, name, args) ==
    [w EXCEPT !.sent[k] = @ + Len(args),
              !.frags[k] = @ \o name,
              !.closed = IF /\ w.frags[k] \o name # <<>>
                            /\ args # <<>> \/ name = <<>>
                         THEN @ \union {k} ELSE @,
              !.untidy = IF name # <<>> /\ k \in w.closed
                         THEN @ \union {k} ELSE @]

New(p) ==
    CASE p.name \in {"openai_chat", "litellm"} -> ChatNew
      [] p.name = "responses" -> ResponsesNew
      [] p.name \in {"anthropic", "bedrock"} -> BlocksNew(p.synthesizing)
      [] p.name = "gemini" -> GeminiNew

FinishOf(p, t) ==
    CASE p.name = "openai_chat" -> OpenAiFinish(t)
      [] p.name = "litellm" -> LiteLlmFinish(t)
      [] p.name = "anthropic" -> AnthropicFinish(t)
      [] p.name = "bedrock" -> BedrockFinish(t)
      [] p.name = "gemini" -> GeminiFinish(t)
      [] p.name = "responses" -> <<>>

Init ==
    /\ provider \in {p \in [name : Providers, synthesizing : BOOLEAN] :
                       p.synthesizing => p.name \in {"anthropic", "bedrock"}}
    /\ attempt = 0 /\ phase = "invoke" /\ source = "over"
    /\ tr = New(provider) /\ queue = <<>> /\ started = FALSE
    /\ acc = AccNew /\ outcome = "none" /\ cancelled = FALSE
    /\ wire = WireNew /\ chunks = 0
    /\ peer = [t |-> ChatNew, calls |-> <<>>]

Cancel ==
    /\ ~cancelled /\ phase # "ended"
    /\ cancelled' = TRUE
    /\ UNCHANGED <<provider, retry, source, tr, queue, acc, wire, chunks,
                   peer>>

(* ---------------------------- RetryingModel ---------------------------- *)
IsRetryable(e) == e = "transport"

CanRetry(e) == IsRetryable(e) /\ attempt < MaxAttempts - 1

(* An error before the first item: back off, or hand the error on.         *)
FailedAttempt(e) ==
    /\ IF CanRetry(e)
       THEN phase' = "backoff" /\ UNCHANGED outcome
       ELSE phase' = "ended" /\ outcome' = "error"
    /\ queue' = <<>> /\ source' = "over"
    /\ UNCHANGED <<attempt, started, acc>>

(* inner.invoke: not raced with the token; an Err goes through the policy. *)
InvokeFails(e) ==
    /\ phase = "invoke"
    /\ FailedAttempt(e)
    /\ UNCHANGED <<provider, tr, cancelled, wire, chunks, peer>>

Invoke ==
    /\ phase = "invoke"
    /\ phase' = "open" /\ source' = "connecting"
    /\ tr' = New(provider) /\ queue' = <<>>
    /\ wire' \in
         IF provider.name = "responses"
         THEN {[WireNew EXCEPT !.item = f, !.resumed = r] :
                 f \in [Keys -> CallIds \union {Blank}],
                 r \in {"no", "losing"}}
         ELSE {WireNew}
    /\ peer' = [t |-> ChatNew, calls |-> <<>>]
    /\ UNCHANGED <<provider, attempt, started, acc, outcome, cancelled,
                   chunks>>

Backoff ==
    /\ phase = "backoff"
    /\ IF cancelled
       THEN phase' = "ended" /\ outcome' = "cancelled" /\ UNCHANGED attempt
       ELSE phase' = "invoke" /\ attempt' = attempt + 1 /\ UNCHANGED outcome
    /\ UNCHANGED <<provider, source, tr, queue, started, acc, cancelled,
                   wire, chunks, peer>>

\* A mutant: a later error is retried too, though content was handed on.
HandOn_RetriesLate ==
    /\ phase = "open" /\ ~cancelled /\ queue # <<>>
    /\ LET ev == Head(queue)
       IN  \/ ev.kind = "error" /\ FailedAttempt(ev.error)
           \/ /\ ev.kind # "error"
              /\ acc' = Observe(acc, ev, attempt)
              /\ started' = TRUE
              /\ queue' = Tail(queue)
              /\ UNCHANGED <<attempt, phase, outcome, source>>
    /\ UNCHANGED <<provider, tr, cancelled, wire, chunks, peer>>

(* The peek at the first item and the forwarding loop, both raced with the *)
(* token; the agent loop observes what is handed on and stops at an Err.   *)
HandOn ==
    /\ phase = "open" /\ ~cancelled /\ queue # <<>>
    /\ LET ev == Head(queue)
       IN  \/ /\ ev.kind = "error" /\ ~started
              /\ FailedAttempt(ev.error)
           \/ /\ ev.kind = "error" /\ started
              /\ phase' = "ended" /\ outcome' = "error"
              /\ queue' = Tail(queue)
              /\ UNCHANGED <<attempt, started, acc, source>>
           \/ /\ ev.kind # "error"
              /\ acc' = Observe(acc, ev, attempt)
              /\ started' = TRUE
              /\ queue' = Tail(queue)
              /\ UNCHANGED <<attempt, phase, outcome, source>>
    /\ UNCHANGED <<provider, tr, cancelled, wire, chunks, peer>>

End ==
    /\ phase = "open"
    /\ cancelled \/ (queue = <<>> /\ source = "over")
    /\ phase' = "ended"
    /\ outcome' = IF cancelled THEN "cancelled" ELSE "clean"
    /\ UNCHANGED <<provider, attempt, source, tr, queue, started, acc,
                   cancelled, wire, chunks, peer>>

(* ------------------------- the provider's stream ----------------------- *)
(* It runs only while it is polled: after its last item was taken, and not *)
(* once the token fired (a biased select).                                 *)
Polled == phase = "open" /\ queue = <<>> /\ ~cancelled

Unfed == UNCHANGED <<provider, retry, acc, cancelled>>

Connect ==
    /\ Polled /\ source = "connecting"
    /\ \/ source' = "body" /\ UNCHANGED queue
       \/ \E e \in {"transport", "other"} :
             source' = "over" /\ queue' = <<Error(e)>>
    /\ Unfed /\ UNCHANGED <<tr, wire, chunks, peer>>

(* The end of the body flushes the translator; a transport error does not. *)
BodyEnds ==
    /\ Polled /\ source = "body"
    /\ source' = "over"
    /\ queue' = FinishOf(provider, tr)
    /\ peer' = IF provider.name = "openai_chat"
               THEN [peer EXCEPT !.calls =
                       FoldOver(LAMBDA c, ev : IF ev.kind = "call"
                                               THEN ObserveCall(c, ev) ELSE c,
                                @, LiteLlmFinish(peer.t))]
               ELSE peer
    /\ Unfed /\ UNCHANGED <<tr, wire, chunks>>

BodyFails ==
    /\ Polled /\ source = "body"
    /\ source' = "over"
    /\ \E e \in {"transport", "other"} : queue' = <<Error(e)>>
    /\ wire' = [wire EXCEPT !.failed = TRUE]
    /\ Unfed /\ UNCHANGED <<tr, chunks, peer>>

(* A wire event reaches the translator, which may put out items.           *)
Feeding(names) ==
    /\ Polled /\ source = "body"
    /\ provider.name \in names
    /\ chunks < MaxChunks[provider.name] /\ chunks' = chunks + 1

Fed(r) == tr' = r.t /\ queue' = r.out

(* --------------------------- chat completions -------------------------- *)
NameFrags == {<<>>} \union {<<n>> : n \in Names}
ArgFrags(k) == {<<>>, <<NextToken(k)>>}

Chunk(calls) == [content |-> FALSE, reasoning |-> FALSE, calls |-> calls,
                 reason |-> None, usage |-> FALSE]

PeerFed(chunk) ==
    LET r == LiteLlmConsume(peer.t, chunk)
    IN  peer' = [t |-> r.t,
                 calls |-> FoldOver(LAMBDA c, ev :
                                      IF ev.kind = "call"
                                      THEN ObserveCall(c, ev) ELSE c,
                                    peer.calls, r.out)]

(* A backend may leave the id out, send "", send it late, or repeat it     *)
(* under another index.                                                    *)
OpenAiCallChunk ==
    /\ Feeding({"openai_chat"})
    /\ \E k \in Keys, id \in CallIds \union {None, Blank}, n \in NameFrags :
         \E a \in ArgFrags(k) :
            LET chunk == Chunk(<<[index |-> k, id |-> id, name |-> n,
                                  args |-> a]>>)
            IN  /\ Fed(OpenAiConsume(tr, chunk))
                /\ PeerFed(chunk)
                /\ wire' = Sent(wire, k, n, a)
    /\ Unfed /\ UNCHANGED source

(* LiteLLM backends may leave out the index too: the key is then the id or *)
(* the position in the chunk ("bare" first, "second" second), which is     *)
(* refused next to an explicit index ("mixed").  Streams with an index on  *)
(* every delta are the OpenAI ones, on which this translator is `peer`.    *)
LiteLlmCallChunk ==
    /\ Feeding({"litellm"})
    /\ \E shape \in {"indexed", "bare", "second", "mixed"},
          id \in CallIds \union {None, Blank}, n \in NameFrags :
         LET real == id \in CallIds
             key == IF shape = "indexed" THEN 0
                    ELSE IF real THEN id
                    ELSE IF shape = "bare" THEN 0 ELSE 1
             nothing(index) == [index |-> index, id |-> None, name |-> <<>>,
                                args |-> <<>>]
         IN  \E a \in ArgFrags(key) :
               LET tc == [index |-> IF shape = "indexed" THEN 0 ELSE None,
                          id |-> id, name |-> n, args |-> a]
                   calls == CASE shape \in {"indexed", "bare"} -> <<tc>>
                              [] shape = "second" -> <<nothing(None), tc>>
                              [] shape = "mixed" -> <<nothing(0), tc>>
                   w == IF shape \in {"indexed", "bare"} THEN wire
                        ELSE Sent(wire, 0, <<>>, <<>>)
               IN  /\ Fed(LiteLlmConsume(tr, Chunk(calls)))
                   /\ wire' = IF shape = "mixed" /\ ~real THEN w
                              ELSE Sent(w, key, n, a)
    /\ Unfed /\ UNCHANGED <<source, peer>>

(* Text, a finish reason (a later one replaces it), or the usage, which    *)
(* may come after the reason.                                              *)
ChatOtherChunk ==
    /\ Feeding({"openai_chat", "litellm"})
    /\ \E chunk \in {[Chunk(<<>>) EXCEPT !.content = TRUE],
                     [Chunk(<<>>) EXCEPT !.reasoning = TRUE],
                     [Chunk(<<>>) EXCEPT !.usage = TRUE]}
                    \union {[Chunk(<<>>) EXCEPT !.reason = r] :
                              r \in {"stop", "tool_calls"}} :
         /\ Fed(IF provider.name = "litellm" THEN LiteLlmConsume(tr, chunk)
                ELSE OpenAiConsume(tr, chunk))
         /\ wire' = [wire EXCEPT !.reason = @ \/ chunk.reason # None]
         /\ IF provider.name = "litellm" THEN UNCHANGED peer
            ELSE PeerFed(chunk)
    /\ Unfed /\ UNCHANGED source

(* ------------------------------ Responses ------------------------------ *)
(* Two function-call items, which may share a call id.  A live stream may  *)
(* announce an item after some of its deltas, or never; a resumed one is   *)
(* in order and has lost a prefix.  A finished item carries all of its     *)
(* arguments, though a live stream may report none.                        *)
InOrder == wire.resumed # "no"

ItemOf(w, k, args) ==
    [item |-> k, id |-> w.item[k], name |-> <<k>>, args |-> args,
     complete |-> k \notin w.broken]

Whole(w, k) == [n \in 1..w.sent[k] |-> <<k, n>>]

Announced(w, k) == [w EXCEPT !.added = @ \union {k}, !.frags[k] = <<k>>]

FedUnlessLost(r) ==
    IF wire.resumed = "losing" THEN UNCHANGED <<tr, queue>> ELSE Fed(r)

ResponsesItem ==
    /\ Feeding({"responses"}) /\ ~wire.stopped
    /\ \E k \in Keys \ wire.done :
         \/ /\ k \notin wire.added
            /\ wire' = Announced(wire, k)
            /\ FedUnlessLost(ItemAdded(tr, ItemOf(wire, k, <<>>)))
         \/ /\ InOrder => k \in wire.added
            /\ \E args \in ArgFrags(k) :
                  /\ wire' = [wire EXCEPT !.sent[k] = @ + Len(args)]
                  /\ FedUnlessLost(ArgumentsDelta(tr, k, args))
         \/ /\ InOrder => k \in wire.added
            /\ \E complete, full \in BOOLEAN :
                  /\ InOrder => full
                  /\ wire' = [Announced(wire, k) EXCEPT
                                !.done = @ \union {k},
                                !.broken = IF complete THEN @
                                           ELSE @ \union {k}]
                  /\ FedUnlessLost(EmitCallIfUnseen(tr,
                        ItemOf(wire', k,
                               IF full THEN Whole(wire, k) ELSE <<>>)))
    /\ Unfed /\ UNCHANGED <<source, peer>>

ResponsesResumes ==
    /\ Polled /\ source = "body" /\ wire.resumed = "losing"
    /\ wire' = [wire EXCEPT !.resumed = "yes"]
    /\ Unfed /\ UNCHANGED <<source, tr, queue, chunks, peer>>

(* The frame that ends a response; `failed` and `error` end the stream.    *)
ResponsesEnds ==
    /\ Feeding({"responses"}) /\ ~wire.stopped /\ wire.resumed # "losing"
    /\ LET known == {k \in Keys : k \in wire.added \/ wire.sent[k] > 0}
           w == [wire EXCEPT !.stopped = TRUE, !.reason = TRUE]
           all == [w EXCEPT !.added = known,
                            !.frags = [k \in DOMAIN @ |->
                                         IF k \in known THEN <<k>>
                                         ELSE <<>>]]
       IN  \/ /\ wire' = all
              /\ Fed(ResponseCompleted(tr,
                       [i \in 1..Cardinality(known) |->
                          LET k == Sorted(known, <)[i]
                          IN  ItemOf(w, k, Whole(w, k))]))
              /\ UNCHANGED source
           \/ /\ wire' = [w EXCEPT !.broken = Keys]
              /\ Fed(ResponseIncomplete(tr, "length"))
              /\ UNCHANGED source
           \/ /\ Fed(ResponseFailed(tr))
              /\ source' = "over" /\ UNCHANGED wire
    /\ Unfed /\ UNCHANGED peer

(* ----------------------- Anthropic and Bedrock ------------------------- *)
Blocks == {"anthropic", "bedrock"}

(* Block k opens as text, as a tool call with an id of its own, or, once,  *)
(* as the synthesized tool.                                                *)
BlockOpens ==
    /\ Feeding(Blocks) /\ ~wire.stopped
    /\ \E k \in Keys \ wire.added :
         \/ /\ tr' = BlockStart(tr, k, [kind |-> "text", id |-> None,
                                        name |-> <<>>])
            /\ wire' = [wire EXCEPT !.added = @ \union {k}]
         \/ \E id \in CallIds \ Range(wire.item), n \in {<<k>>, Synthesized} :
              /\ n = Synthesized =>
                    provider.synthesizing /\ tr.synthesized = None
              /\ tr' = BlockStart(tr, k, [kind |-> "tool", id |-> id,
                                          name |-> n])
              /\ wire' = [wire EXCEPT
                            !.added = @ \union {k},
                            !.item[k] = IF n = Synthesized THEN @ ELSE id,
                            !.frags[k] = IF n = Synthesized THEN @ ELSE n]
    /\ Unfed /\ UNCHANGED <<source, queue, peer>>

(* An input delta, which may name a block that is not a tool call: the     *)
(* Anthropic translator ends the stream with Err, Bedrock's drops it.      *)
BlockInput ==
    /\ Feeding(Blocks) /\ ~wire.stopped
    /\ \E k \in Keys : \E args \in ArgFrags(k) :
         LET r == IF provider.name = "anthropic"
                  THEN AnthropicInput(tr, k, args)
                  ELSE BedrockInput(tr, k, args)
         IN  /\ Fed(r)
             /\ source' = IF r.out = <<Error("transport")>> THEN "over"
                          ELSE source
             /\ wire' = IF wire.item[k] = None THEN wire
                        ELSE [wire EXCEPT !.sent[k] = @ + Len(args)]
    /\ Unfed /\ UNCHANGED peer

BlockText ==
    /\ Feeding(Blocks) /\ ~wire.stopped
    /\ Fed([t |-> tr, out |-> <<TokenDelta>>])
    /\ Unfed /\ UNCHANGED <<source, wire, peer>>

StopReasons == {"end_turn", "tool_use", "max_tokens"}

ASSUME NoneIsNoReason == None \notin StopReasons

(* message_start, message_delta, message_stop and error; a second          *)
(* message_delta may follow message_stop.                                  *)
AnthropicFrame ==
    /\ Feeding({"anthropic"})
    /\ \/ /\ ~wire.stopped /\ Fed([t |-> tr, out |-> <<Usage>>])
          /\ UNCHANGED <<source, wire>>
       \/ \E r \in StopReasons \union {None, "refusal"} :
             /\ Fed(AnthropicMessageDelta(tr, r))
             /\ wire' = [wire EXCEPT !.reason = @ \/ r # None]
             /\ UNCHANGED source
       \/ /\ Fed(AnthropicStop(tr))
          /\ wire' = [wire EXCEPT !.stopped = TRUE]
          /\ UNCHANGED source
       \/ /\ \E e \in {"transport", "other"} :
                Fed([t |-> tr, out |-> <<Error(e)>>])
          /\ source' = "over" /\ wire' = [wire EXCEPT !.failed = TRUE]
    /\ Unfed /\ UNCHANGED peer

(* MessageStop and Metadata, once each, in either order.                   *)
BedrockFrame ==
    /\ Feeding({"bedrock"})
    /\ \/ /\ ~wire.stopped
          /\ \E r \in StopReasons : Fed(BedrockMessageStop(tr, r))
          /\ wire' = [wire EXCEPT !.stopped = TRUE, !.reason = TRUE]
       \/ /\ ~wire.metadata
          /\ Fed(BedrockMetadata(tr))
          /\ wire' = [wire EXCEPT !.metadata = TRUE]
    /\ Unfed /\ UNCHANGED <<source, peer>>

(* ------------------------------- Gemini -------------------------------- *)
(* A function call arrives whole, with an id of its own or none.           *)
GeminiChunk ==
    /\ Feeding({"gemini"})
    /\ \E blocked, text, usage \in BOOLEAN,
          reason \in {None, "stop", "length"} :
         LET k == Cardinality(wire.added)
             chunk(parts) == [blocked |-> blocked, reason |-> reason,
                              usage |-> usage,
                              parts |-> (IF text THEN <<[kind |-> "text"]>>
                                         ELSE <<>>) \o parts]
             w == [wire EXCEPT !.reason = @ \/ (reason # None /\ ~blocked)]
         IN /\ source' = IF blocked THEN "over" ELSE source
            /\ \/ Fed(GeminiConsume(tr, chunk(<<>>))) /\ wire' = w
               \/ /\ k \in Keys
                /\ \E id \in (CallIds \ Range(wire.item)) \union {None} :
                     /\ Fed(GeminiConsume(tr, chunk(
                              <<[kind |-> "call", id |-> id, name |-> <<k>>,
                                 args |-> <<NextToken(k)>>]>>)))
                     /\ wire' = IF blocked THEN w ELSE
                          [w EXCEPT
                             !.added = @ \union {k}, !.sent[k] = 1,
                             !.frags[k] = <<k>>,
                             !.item[k] = IF id = None
                                         THEN FnIds[tr.fn_index + 1] ELSE id]
    /\ Unfed /\ UNCHANGED peer

(* --------------------------- specification ----------------------------- *)
Wire == \/ OpenAiCallChunk \/ LiteLlmCallChunk \/ ChatOtherChunk
        \/ ResponsesItem \/ ResponsesResumes \/ ResponsesEnds
        \/ BlockOpens \/ BlockInput \/ BlockText
        \/ AnthropicFrame \/ BedrockFrame \/ GeminiChunk
        \/ BodyEnds \/ BodyFails

Ended == phase = "ended" /\ UNCHANGED vars

Next == \/ Cancel
        \/ Invoke \/ (\E e \in {"transport", "other"} : InvokeFails(e))
        \/ Backoff \/ HandOn \/ End
        \/ Connect \/ Wire \/ Ended

Spec == Init /\ [][Next]_vars

(* ----------------------------- properties ------------------------------ *)
(* The call id wire key k stands for, None while unknown.                  *)
IdOf(k) ==
    IF provider.name \in {"openai_chat", "litellm"}
    THEN IF k \in DOMAIN tr.tool_calls THEN tr.tool_calls[k] ELSE None
    ELSE IF k \in Keys THEN wire.item[k] ELSE None

(* Keys whose call the wire described in full.                             *)
Described(k) ==
    /\ IdOf(k) # None
    /\ provider.name = "responses" =>
          wire.stopped /\ k \in wire.added \ wire.broken

Fragments(k, id) == SelectSeq(acc.calls[id].args, LAMBDA x : x[1] = k)

(* Every argument fragment reaches the accumulator under the call id its   *)
(* wire key stands for and no other, in wire order, without gap or repeat; *)
(* and when the stream ends cleanly none is held back.  This is what makes *)
(* the arguments the tool is called with the ones the model wrote, however *)
(* ids arrive: late, blank, under two indexes or items, or (Responses) with *)
(* the deltas lost and the arguments repeated whole.                       *)
(* (chat.rs:693, stream.rs:395, responses.rs:424)                          *)
ArgumentsIntact ==
    /\ \A id \in DOMAIN acc.calls, k \in DOMAIN wire.sent :
         LET f == Fragments(k, id)
         IN  f # <<>> => /\ id = IdOf(k)
                         /\ f = [n \in 1..Len(f) |-> <<k, n>>]
    /\ outcome = "clean" =>
         \A k \in DOMAIN wire.sent :
            wire.sent[k] > 0 /\ Described(k) =>
              /\ IdOf(k) \in DOMAIN acc.calls
              /\ Len(Fragments(k, IdOf(k))) = wire.sent[k]

(* A real call id gets its name in at most one delta; at a clean end it has *)
(* it if the wire named the call under any of its keys, and if it has one  *)
(* key whose name was not interrupted, the name is the fragments in order. *)
(* (The contract of ModelEvent::ToolCallDelta, core/src/model.rs:183.)     *)
NamedOnce ==
    \A id \in CallIds \cap DOMAIN acc.calls :
       LET keys == {k \in DOMAIN wire.frags : IdOf(k) = id}
           named == {k \in keys : wire.frags[k] # <<>>}
       IN  /\ acc.calls[id].names <= 1
           /\ outcome = "clean" /\ named # {} => acc.calls[id].names = 1
           /\ \A k \in keys \ wire.untidy :
                 /\ outcome = "clean" /\ keys = {k}
                 /\ \A i, j \in DOMAIN wire.frags[k] :
                       wire.frags[k][i] = wire.frags[k][j] => i = j
                 => acc.calls[id].name = wire.frags[k]

(* A call of the model reaches the loop as it was made: its arguments, and *)
(* its name once (chat.rs:545, responses.rs:424).                          *)
CallsIntact == ArgumentsIntact /\ NamedOnce

(* What Model::invoke promises of Finish (core/src/model.rs:63-67), but    *)
(* for an error after it, which FinishIsLast is about: at most one Finish, *)
(* no other event after it, none unless the wire sent a stop reason; one   *)
(* if it did and the body ended; a body that broke off is never a clean    *)
(* end.  For Responses and Gemini, whose wire does not say so, the reason  *)
(* is tool_calls only if a call was handed on (responses.rs:634).          *)
FinishContract ==
    /\ acc.finishes <= 1 /\ ~acc.late
    /\ acc.finishes = 1 => wire.reason
    /\ outcome = "clean" => /\ ~wire.failed
                            /\ wire.reason => acc.finishes = 1
    /\ acc.finish_reason = "tool_calls"
         /\ provider.name \in {"responses", "gemini"}
         => DOMAIN acc.calls # {}

(* "`Finish` is the terminal event; nothing follows it" (model.rs:63), and *)
(* "An Err after Finish violates terminality just as an event does"        *)
(* (check.rs:155): no stream ends in an error after its Finish.            *)
FinishIsLast == acc.finishes > 0 => outcome # "error"

(* On the same OpenAI-shaped stream the two chat translators give the agent *)
(* the same calls: same ids, same arguments, the same number of names, and *)
(* for a real id the same name (chat.rs:532 "agree observably").           *)
ChatTranslatorsAgree ==
    provider.name = "openai_chat" /\ queue = <<>>
      /\ (outcome = "clean" \/ (phase = "open" /\ ~cancelled
                                   /\ source # "over")) =>
      /\ DOMAIN acc.calls = DOMAIN peer.calls
      /\ \A id \in DOMAIN acc.calls :
           /\ acc.calls[id].args = peer.calls[id].args
           /\ acc.calls[id].names = peer.calls[id].names
           /\ id # Blank => acc.calls[id].name = peer.calls[id].name

(* A retry is invisible: once an item was handed on, or the token fired, no *)
(* further attempt is made, and there are never more than max_attempts     *)
(* (retry.rs:133 "already-emitted output cannot be un-emitted").           *)
RetryInvisible ==
    [][/\ started \/ cancelled => attempt' = attempt
       /\ attempt' < MaxAttempts
       /\ acc'.from \subseteq {attempt'}]_vars
=============================================================================
