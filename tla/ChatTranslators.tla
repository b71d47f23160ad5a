-------------------------- MODULE ChatTranslators --------------------------
(***************************************************************************)
(* The two translators of OpenAI-shaped chat streams: `ChatTranslator` of  *)
(* the OpenAI crate (backend/chat.rs) and the `ChatTranslator` of the      *)
(* LiteLLM crate (stream.rs), as operators from a translator state and a   *)
(* wire delta to the next state and the model events put out.              *)
(*                                                                         *)
(* Text is a sequence of fragments, so that concatenation is \o and the    *)
(* empty string is <<>>.  A delta that carries no name has name <<>>.      *)
(***************************************************************************)
EXTENDS Integers, Sequences, FiniteSets, FiniteSetsExt, Functions, TLC

CONSTANTS None,      \* an absent field
          Blank      \* the call id ""

(* The elements of seq one after the other through op.                     *)
FoldOver(op(_, _), base, seq) ==
    MapThenFoldSet(LAMBDA x, acc : op(acc, x), base, LAMBDA i : seq[i],
                   LAMBDA S : Max(S), DOMAIN seq)

(* The elements of S in the order given.                                   *)
Sorted(S, before(_, _)) ==
    [n \in 1..Cardinality(S) |->
       CHOOSE x \in S : Cardinality({y \in S : before(y, x)}) = n - 1]

Put(f, k, v) == (k :> v) @@ f
Without(f, k) == Restrict(f, DOMAIN f \ {k})

(* The model events a translator puts out.                                 *)
CallDelta(id, name, args) ==
    [kind |-> "call", id |-> id, name |-> name, args |-> args]
TokenDelta == [kind |-> "token"]
ReasoningDelta == [kind |-> "reasoning"]
Usage == [kind |-> "usage"]
Finish(reason) == [kind |-> "finish", reason |-> reason]
Error(e) == [kind |-> "error", error |-> e]

(* ------------------------- state of a translator ----------------------- *)
(* `named` is the key set of name_emitted; the warned_ sets only gate logs. *)
ChatNew == [tool_calls |-> <<>>, canonical |-> <<>>, named |-> {},
            blank_emitted |-> {}, pending |-> <<>>, next_seq |-> 0,
            finish_reason |-> None]

EnsurePending(t, key) ==
    IF key \in DOMAIN t.pending THEN t
    ELSE [t EXCEPT
            !.pending = Put(@, key, [seq |-> t.next_seq, name |-> <<>>,
                                     args |-> <<>>]),
            !.next_seq = @ + 1]

(* The id a delta carries is recorded under its key.  The first id stays,  *)
(* except that a real id replaces "" while nothing went out under "".      *)
RegisterId(t, key, id) ==
    IF \/ id # None /\ key \notin DOMAIN t.tool_calls
       \/ /\ key \in DOMAIN t.tool_calls
          /\ t.tool_calls[key] = Blank
          /\ id \notin {None, Blank}
          /\ key \notin t.blank_emitted
    THEN [t EXCEPT !.tool_calls = Put(@, key, id)]
    ELSE t

(* A delta whose id is not known yet waits under its key.                  *)
BufferDelta(t, key, tc) ==
    LET u == EnsurePending(t, key)
    IN  [u EXCEPT !.pending[key].name = @ \o tc.name,
                  !.pending[key].args = @ \o tc.args]

(* What a slot holds after the buffer `old` of another key is merged in:   *)
(* arguments in front, the name in buffer-creation order, unless the name  *)
(* of the call is out already, in which case the fragment is dropped.      *)
MergedName(old, slot, out) ==
    IF out \/ old.name \in {<<>>, slot.name} THEN slot.name
    ELSE IF old.seq < slot.seq THEN old.name \o slot.name
    ELSE slot.name \o old.name

\* A mutant: an index that turns out to share an id keeps its buffer.
OpenAiCanonicalize_Stranded(t, index, id) ==
    LET claimed == IF id = Blank \/ id \in DOMAIN t.canonical THEN t
                   ELSE [t EXCEPT !.canonical = Put(@, id, index)]
    IN  [t |-> claimed,
         key |-> IF id = Blank THEN index ELSE claimed.canonical[id]]

(* OpenAI: a call id belongs to the first wire index that carried it; the  *)
(* other indexes hand what they buffered to that owner.                    *)
OpenAiCanonicalize(t, index, id) ==
    IF id = Blank THEN [t |-> t, key |-> index]
    ELSE LET claimed == IF id \in DOMAIN t.canonical THEN t
                        ELSE [t EXCEPT !.canonical = Put(@, id, index)]
             owner == claimed.canonical[id]
         IN  IF owner = index \/ index \notin DOMAIN t.pending
             THEN [t |-> claimed, key |-> owner]
             ELSE LET old == t.pending[index]
                      u == EnsurePending([claimed EXCEPT
                                            !.pending = Without(@, index)],
                                         owner)
                      slot == u.pending[owner]
                  IN  [t |-> [u EXCEPT !.pending[owner] =
                                [seq |-> Min({old.seq, slot.seq}),
                                 name |-> MergedName(old, slot,
                                                     owner \in u.named),
                                 args |-> old.args \o slot.args]],
                       key |-> owner]

(* LiteLLM: once a call id is known it is the key itself; what the wire    *)
(* key buffered moves there.                                               *)
LiteLlmCanonicalize(t, key, id) ==
    IF id \in {Blank, key} THEN [t |-> t, key |-> key]
    ELSE LET moved == key \in DOMAIN t.pending
             late == moved /\ t.pending[key].name # <<>> /\ id \in t.named
             u == EnsurePending([t EXCEPT !.pending = Without(@, key)], id)
             old == t.pending[key]
             slot == u.pending[id]
             merged == [u EXCEPT !.pending[id] =
                          [seq |-> IF late THEN slot.seq
                                   ELSE Min({old.seq, slot.seq}),
                           name |-> MergedName(old, slot, id \in u.named),
                           args |-> old.args \o slot.args]]
             v == IF moved THEN merged ELSE t
         IN  [t |-> IF late \/ id \in DOMAIN v.tool_calls THEN v
                    ELSE [v EXCEPT !.tool_calls = Put(@, id, id)],
              key |-> id]

(* Whether the buffered name is complete: not while only name fragments    *)
(* keep coming.                                                            *)
NameIsComplete(t, key, name, tc) ==
    /\ key \notin t.named
    /\ name # <<>>
    /\ tc.args # <<>> \/ tc.name = <<>>

(* A delta whose call is known: the name goes out once, when complete, and *)
(* arguments go out at once, the buffered ones first.                      *)
EmitDelta(t, key, id, tc) ==
    LET u == EnsurePending(t, key)
        slot == u.pending[key]
        name == IF key \notin t.named /\ slot.name # tc.name
                THEN slot.name \o tc.name ELSE slot.name
        args == slot.args \o tc.args
        flush == NameIsComplete(t, key, name, tc)
        silent == ~flush /\ args = <<>>
    IN  [t |-> [u EXCEPT
                  !.pending = IF flush \/ name = <<>> THEN Without(@, key)
                              ELSE [@ EXCEPT ![key].name = name,
                                             ![key].args = <<>>],
                  !.named = IF flush THEN @ \union {key} ELSE @,
                  !.blank_emitted = IF id = Blank /\ ~silent
                                    THEN @ \union {key} ELSE @],
         out |-> IF silent THEN <<>>
                 ELSE <<CallDelta(id, IF flush THEN name ELSE <<>>, args)>>]

(* handle_tool_call_chunk of the OpenAI crate: keyed by the wire index.    *)
OpenAiToolCall(t, tc) ==
    LET r == RegisterId(t, tc.index, tc.id)
    IN  IF tc.index \notin DOMAIN r.tool_calls
        THEN [t |-> BufferDelta(r, tc.index, tc), out |-> <<>>]
        ELSE LET id == r.tool_calls[tc.index]
                 c == OpenAiCanonicalize(r, tc.index, id)
             IN  EmitDelta(c.t, c.key, id, tc)

(* handle_tool_call of the LiteLLM crate: keyed by the index, else by a    *)
(* real id, else by the position in the chunk, which is refused when the   *)
(* chunk also has explicit indexes.                                        *)
LiteLlmKey(tc, pos) ==
    IF tc.index # None THEN tc.index
    ELSE IF tc.id \notin {None, Blank} THEN tc.id
    ELSE pos

LiteLlmToolCall(t, tc, pos, anyExplicitIndex) ==
    LET key == LiteLlmKey(tc, pos)
        r == RegisterId(t, key, tc.id)
    IN  IF tc.index = None /\ tc.id \in {None, Blank} /\ anyExplicitIndex
        THEN [t |-> t, out |-> <<>>]
        ELSE IF key \notin DOMAIN r.tool_calls
        THEN [t |-> BufferDelta(r, key, tc), out |-> <<>>]
        ELSE LET id == r.tool_calls[key]
                 c == LiteLlmCanonicalize(r, key, id)
             IN  EmitDelta(c.t, c.key, id, tc)

(* A chunk is its content flag, its tool-call deltas, a finish reason and a *)
(* usage flag.  Both translators keep the last finish reason they saw.     *)
ChunkEvents(chunk, reasoning, calls) ==
    (IF chunk.content THEN <<TokenDelta>> ELSE <<>>)
      \o (IF reasoning THEN <<ReasoningDelta>> ELSE <<>>)
      \o calls
      \o (IF chunk.usage THEN <<Usage>> ELSE <<>>)

KeepReason(t, reason) ==
    IF reason = None THEN t ELSE [t EXCEPT !.finish_reason = reason]

OpenAiConsume(t, chunk) ==
    LET r == FoldOver(LAMBDA a, tc :
                        LET b == OpenAiToolCall(a.t, tc)
                        IN  [t |-> b.t, out |-> a.out \o b.out],
                      [t |-> t, out |-> <<>>], chunk.calls)
    IN  [t |-> KeepReason(r.t, chunk.reason),
         out |-> ChunkEvents(chunk, FALSE, r.out)]

LiteLlmConsume(t, chunk) ==
    LET explicit == \E i \in DOMAIN chunk.calls : chunk.calls[i].index # None
        r == FoldOver(LAMBDA a, i :
                        LET b == LiteLlmToolCall(a.t, chunk.calls[i], i - 1,
                                                 explicit)
                        IN  [t |-> b.t, out |-> a.out \o b.out],
                      [t |-> t, out |-> <<>>], [i \in DOMAIN chunk.calls |-> i])
    IN  [t |-> KeepReason(r.t, chunk.reason),
         out |-> ChunkEvents(chunk, chunk.reasoning, r.out)]

(* Names still buffered at the end of the stream go out, one per real id.  *)
FlushName(a, key) ==
    LET t == a.t
        id == t.tool_calls[key]
        already == {t.tool_calls[k] : k \in t.named \cap DOMAIN t.tool_calls}
    IN  IF \/ key \in t.named
           \/ key \notin DOMAIN t.tool_calls
           \/ t.pending[key].name = <<>>
           \/ id # Blank /\ id \in already
        THEN a
        ELSE [t |-> [t EXCEPT !.pending[key].name = <<>>,
                              !.named = @ \union {key}],
              out |-> Append(a.out, CallDelta(id, t.pending[key].name, <<>>))]

FlushNames(t, order) == FoldOver(FlushName, [t |-> t, out |-> <<>>], order)

(* The OpenAI crate flushes in index order, LiteLLM in buffer order.       *)
OpenAiOrder(t) == Sorted(DOMAIN t.pending, <)
LiteLlmOrder(t) ==
    Sorted(DOMAIN t.pending, LAMBDA k, l : t.pending[k].seq < t.pending[l].seq)

ChatEnd(flushed) ==
    flushed.out \o (IF flushed.t.finish_reason = None THEN <<>>
                    ELSE <<Finish(flushed.t.finish_reason)>>)

OpenAiFinish(t) == ChatEnd(FlushNames(t, OpenAiOrder(t)))
LiteLlmFinish(t) == ChatEnd(FlushNames(t, LiteLlmOrder(t)))
=============================================================================
