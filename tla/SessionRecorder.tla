--------------------------- MODULE SessionRecorder ---------------------------
(***************************************************************************)
(* What a runner persists of a run (core/src/session.rs, SessionRecorder):   *)
(* the items its events stand for, and at the end a result for every tool    *)
(* call that got none.                                                       *)
(***************************************************************************)
EXTENDS LoopState

RecordInput == <<Item("user", 0)>>

Observe(rec, ev) ==
  CASE ev.kind = "message" -> Append(rec, Item("assistant", 0))
    [] ev.kind \in {"call", "transfer"} -> Append(rec, Item("called", ev.val))
    [] ev.kind = "output" -> Append(rec, Item("returned", ev.val))
    [] ev.kind = "handoff" -> Append(rec, Item("handoff", 0))
    [] OTHER -> rec

\* What the recorder has noted after each of the events.
Noted(evs) ==
  LET upto[n \in 0 .. Len(evs)] ==
        IF n = 0 THEN RecordInput ELSE Observe(upto[n - 1], evs[n])
  IN  upto

Recorded(evs) == Noted(evs)[Len(evs)]

\* A recorder that trusts every call to have been answered.
Drain_Verbatim(rec) == rec

Drain(rec) ==
  LET returned == {rec[i].id : i \in {j \in DOMAIN rec : rec[j].kind = "returned"}}
      open == ElementsAt(rec, {j \in DOMAIN rec : rec[j].kind = "called" /\ rec[j].id \notin returned})
  IN rec \o [i \in 1 .. Len(open) |-> Item("returned", open[i].id)]
=============================================================================
