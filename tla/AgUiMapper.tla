----------------------------- MODULE AgUiMapper ------------------------------
(***************************************************************************)
(* runtime-agentcore/src/agui/map.rs: EventMapper turns the events of one    *)
(* run into AG-UI frames.  AG-UI allows one open span (a text message, a    *)
(* thinking block or a tool call) at a time, while the deltas of several    *)
(* tool calls, and the events of parallel branches, interleave freely.      *)
(*                                                                          *)
(* An operator takes a mapping r = [m, out]: the mapper and the frames it   *)
(* has emitted for the event at hand.  Message ids, texts and the payloads  *)
(* of custom frames are left out; arguments are sequences of fragments.     *)
(***************************************************************************)
EXTENDS Sequences, FiniteSetsExt

CONSTANT NoCall    \* open_call is None

\* The elements of seq one after the other through op.
FoldOver(op(_, _), base, seq) ==
  MapThenFoldSet(LAMBDA x, acc : op(acc, x), base, LAMBDA i : seq[i], LAMBDA S : Max(S), DOMAIN seq)

Frame(type) == [type |-> type]
TextFrame(type, kind) == [type |-> type, kind |-> kind]
CallFrame(type, id) == [type |-> type, id |-> id]
CallStart(id, named) == [type |-> "call_start", id |-> id, named |-> named]
CallArgs(id, args) == [type |-> "call_args", id |-> id, args |-> args]

\* EventMapper::new.  The name of a call is kept as the fact that it is known.
NewMapper ==
  [open_text |-> "none", streamed_text |-> FALSE, open_call |-> NoCall,
   call_names |-> {}, buffered_calls |-> <<>>, completed_calls |-> {},
   step_open |-> FALSE]

Push(r, frame) == [r EXCEPT !.out = Append(@, frame)]

\* A mutant: closing a text span forgets that it is closed.
CloseText_StaysOpen(r) ==
  IF r.m.open_text = "none" THEN r ELSE Push(r, TextFrame("text_end", r.m.open_text))
CloseText(r) ==
  IF r.m.open_text = "none" THEN r
  ELSE Push([r EXCEPT !.m.open_text = "none"], TextFrame("text_end", r.m.open_text))

OpenText(r, kind) ==
  IF r.m.open_text = kind THEN r
  ELSE Push([CloseText(r) EXCEPT !.m.open_text = kind], TextFrame("text_start", kind))

CloseCall(r) ==
  IF r.m.open_call = NoCall THEN r
  ELSE Push([r EXCEPT !.m.open_call = NoCall, !.m.completed_calls = @ \cup {r.m.open_call}],
            CallFrame("call_end", r.m.open_call))

CloseStep(r) ==
  IF r.m.step_open THEN Push([r EXCEPT !.m.step_open = FALSE], Frame("step_end")) ELSE r

BufferedAt(m, id) ==
  LET at == {i \in DOMAIN m.buffered_calls : m.buffered_calls[i].id = id}
  IN IF at = {} THEN 0 ELSE Min(at)
IsBuffered(m, id) == BufferedAt(m, id) # 0
Buffered(m, id) == IF IsBuffered(m, id) THEN m.buffered_calls[BufferedAt(m, id)].args ELSE <<>>

\* take_buffered removes the entry it returns.
TakeBuffered(r, id) ==
  LET i == BufferedAt(r.m, id)
  IN IF i = 0 THEN r
     ELSE [r EXCEPT !.m.buffered_calls = SubSeq(@, 1, i - 1) \o SubSeq(@, i + 1, Len(@))]

BufferArgs(m, id, args) ==
  IF IsBuffered(m, id)
  THEN [m EXCEPT !.buffered_calls[BufferedAt(m, id)].args = @ \o args]
  ELSE [m EXCEPT !.buffered_calls = Append(@, [id |-> id, args |-> args])]

\* A whole span at once: its arguments are all known.
WholeSpan(r, id, named, args) ==
  [r EXCEPT !.m.completed_calls = @ \cup {id},
            !.out = @ \o <<CallStart(id, named), CallArgs(id, args),
                           CallFrame("call_end", id)>>]

CloseAll(r) ==
  LET closed == CloseCall(CloseText(r))
      flush(acc, b) == WholeSpan(acc, b.id, b.id \in r.m.call_names, b.args)
  IN CloseStep(FoldOver(flush, [closed EXCEPT !.m.buffered_calls = <<>>],
                        r.m.buffered_calls))

\* A delta continues its own span, opens one if none is open, and waits for its
\* turn while another call holds the span.
ToolCallDelta(r0, ev) ==
  LET r == CloseText([r0 EXCEPT !.m.call_names = @ \cup {id \in {ev.id} : ev.named}])
      waiting == Buffered(r.m, ev.id)
  IN IF r.m.open_call = ev.id THEN Push(r, CallArgs(ev.id, ev.args))
     ELSE IF r.m.open_call = NoCall
     THEN [TakeBuffered(r, ev.id) EXCEPT
             !.m.open_call = ev.id,
             !.out = @ \o <<CallStart(ev.id, ev.id \in r.m.call_names)>>
                       \o (IF IsBuffered(r.m, ev.id) THEN <<CallArgs(ev.id, waiting)>>
                                                     ELSE <<>>)
                       \o <<CallArgs(ev.id, ev.args)>>]
     ELSE [r EXCEPT !.m = BufferArgs(@, ev.id, ev.args)]

ToolCallItem(r0, ev) ==
  LET r == CloseText(r0)
  IN IF r.m.open_call = ev.id THEN CloseCall(r)
     ELSE IF IsBuffered(r.m, ev.id)
     THEN WholeSpan(CloseCall(TakeBuffered(r, ev.id)), ev.id, TRUE, Buffered(r.m, ev.id))
     ELSE IF ev.id \in r.m.completed_calls THEN r
     ELSE WholeSpan(CloseCall(r), ev.id, TRUE, ev.args)

\* Streamed text has reached the client already; other text is sent whole.
MessageOutput(r0, ev) ==
  LET r == CloseText(CloseCall(r0))
      whole == IF r0.m.streamed_text \/ ~ev.text THEN <<>>
               ELSE <<TextFrame("text_start", "message"), TextFrame("content", "message"),
                      TextFrame("text_end", "message")>>
  IN [r EXCEPT !.m.streamed_text = FALSE, !.out = @ \o whole]

Delta(r0, kind, ev) ==
  LET r == OpenText(CloseCall(r0), kind)
  IN IF ~ev.text THEN r
     ELSE Push([r EXCEPT !.m.streamed_text = @ \/ kind = "message"],
               TextFrame("content", kind))

Terminal(r, frame) == Push([CloseAll(r) EXCEPT !.m.streamed_text = FALSE], Frame(frame))

TurnStarted(r0) ==
  LET r == CloseStep(CloseCall(CloseText(r0)))
  IN Push([r EXCEPT !.m.streamed_text = FALSE, !.m.step_open = TRUE], Frame("step_start"))

\* EventMapper::push.
MapEvent(m, ev) ==
  LET r == [m |-> m, out |-> <<>>]
  IN CASE ev.type = "run_started" -> Push(r, Frame("run_started"))
       [] ev.type = "turn" -> TurnStarted(r)
       [] ev.type = "token" -> Delta(r, "message", ev)
       [] ev.type = "reasoning" -> Delta(r, "thinking", ev)
       [] ev.type = "delta" -> ToolCallDelta(r, ev)
       [] ev.type = "item" -> ToolCallItem(r, ev)
       [] ev.type = "output" -> Push(CloseText(CloseCall(r)), CallFrame("call_result", ev.id))
       [] ev.type = "message" -> MessageOutput(r, ev)
       [] ev.type = "completed" -> Terminal(r, "run_finished")
       [] ev.type = "failed" -> Terminal(r, "run_error")
       [] OTHER -> Push(r, Frame("custom"))

\* EventMapper::finish, for a stream that ended without a terminal event.
Finished(m) == CloseAll([m |-> m, out |-> <<>>])
=============================================================================
