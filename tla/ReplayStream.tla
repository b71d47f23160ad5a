---------------------------- MODULE ReplayStream ----------------------------
(***************************************************************************)
(* What the event log promises its subscribers, with no ring, no lock and   *)
(* no wakeup: a stream that grows until it is closed, and readers that each *)
(* move forward through it, may skip, never go back, and end only at the    *)
(* end of a closed stream.                                                  *)
(***************************************************************************)
EXTENDS Integers

CONSTANT Subs

VARIABLES emitted, closed, pos, reader

streamVars == <<emitted, closed, pos, reader>>

Init ==
  /\ emitted = 0 /\ closed = FALSE
  /\ pos = [s \in Subs |-> 0] /\ reader = [s \in Subs |-> "new"]

Emit ==
  /\ ~closed
  /\ emitted' = emitted + 1 /\ closed' \in BOOLEAN
  /\ UNCHANGED <<pos, reader>>

Close == closed' = TRUE /\ UNCHANGED <<emitted, pos, reader>>

Open(s) ==
  /\ reader[s] = "new"
  /\ reader' = [reader EXCEPT ![s] = "open"]
  /\ UNCHANGED <<emitted, closed, pos>>

Deliver(s) ==
  /\ reader[s] = "open"
  /\ \E n \in (pos[s] + 1) .. emitted : pos' = [pos EXCEPT ![s] = n]
  /\ UNCHANGED <<emitted, closed, reader>>

End(s) ==
  /\ reader[s] = "open" /\ closed /\ pos[s] = emitted
  /\ reader' = [reader EXCEPT ![s] = "ended"]
  /\ UNCHANGED <<emitted, closed, pos>>

Leave(s) ==
  /\ reader[s] = "open"
  /\ reader' = [reader EXCEPT ![s] = "gone"]
  /\ UNCHANGED <<emitted, closed, pos>>

Next ==
  \/ Emit \/ Close
  \/ \E s \in Subs : Open(s) \/ Deliver(s) \/ End(s) \/ Leave(s)

Spec ==
  /\ Init /\ [][Next]_streamVars
  /\ \A s \in Subs : WF_streamVars(Deliver(s) \/ End(s))
=============================================================================
