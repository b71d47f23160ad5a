------------------------------ MODULE EventLog ------------------------------
(***************************************************************************)
(* The bounded event log of one run and its replay-then-live subscribers    *)
(* (runtime-axum/src/event_log.rs; runtime-actix carries the same file).    *)
(* The operators below are the log's operations; module RunStream puts them *)
(* together with the writer task and the transports that call them.         *)
(* An event is abstracted to its position in the run's stream and its kind. *)
(***************************************************************************)
EXTENDS Integers, Sequences

CONSTANTS MaxEvents, Subs

\* EventLog::new panics on a zero-capacity ring.
ASSUME MaxEventsAssumption == MaxEvents \in Nat \ {0}

VARIABLES
  events, first_seq, terminal,   \* EventLogInner, behind one Mutex
  waiters,                       \* Notified futures enabled and not yet notified
  cursor, pending, done,         \* SubscribeState of each subscriber
  phase                          \* where each subscriber's stream is

logVars == <<events, first_seq, terminal>>
subVars == <<waiters, cursor, pending, done, phase>>

Kinds == {"item", "completed", "failed"}
Terminal(ev) == ev.kind # "item"
LogInit ==
  /\ events = <<>> /\ first_seq = 0 /\ terminal = FALSE
  /\ waiters = {}
  /\ cursor = [s \in Subs |-> 0] /\ pending = [s \in Subs |-> <<>>]
  /\ done = [s \in Subs |-> FALSE] /\ phase = [s \in Subs |-> "new"]

-----------------------------------------------------------------------------
(* Writer side.  Each operation releases the lock before it notifies, so    *)
(* the notification is a step of its own.                                   *)

\* At most one event is over the bound after a push, so the eviction loop
\* pops at most once.
AppendEvent(ev) ==
  /\ IF Len(events) = MaxEvents
       THEN events' = Append(Tail(events), ev) /\ first_seq' = first_seq + 1
       ELSE events' = Append(events, ev) /\ UNCHANGED first_seq
  /\ terminal' = (terminal \/ Terminal(ev))

MarkTerminal == terminal' = TRUE /\ UNCHANGED <<events, first_seq>>

NotifyWaiters == waiters' = {} /\ UNCHANGED <<cursor, pending, done, phase>>

-----------------------------------------------------------------------------
(* Subscriber side.                                                         *)

MaxOf(a, b) == IF a < b THEN b ELSE a

\* A reader that does not clamp an evicted cursor when it advances it.
ReadFrom_Unclamped(c) ==
  LET batch == SubSeq(events, MaxOf(c, first_seq) - first_seq + 1, Len(events))
  IN  [events |-> batch, next_cursor |-> c + Len(batch), terminal |-> terminal]

ReadFrom(c) ==
  LET from  == MaxOf(c, first_seq)
      batch == SubSeq(events, from - first_seq + 1, Len(events))
  IN  [events |-> batch, next_cursor |-> from + Len(batch), terminal |-> terminal]

Subscribe(s) ==
  /\ phase[s] = "new"
  /\ phase' = [phase EXCEPT ![s] = "idle"]
  /\ UNCHANGED <<waiters, cursor, pending, done>>

\* What next() hands out: the head of the batch already read, or else of the
\* one that read_from returns.
NextEvent(s) == IF pending[s] # <<>> THEN Head(pending[s])
                                     ELSE Head(ReadFrom(cursor[s]).events)

\* Poll: hand out the next event of the batch already read.
Drain(s) ==
  /\ phase[s] = "idle" /\ ~done[s] /\ pending[s] # <<>>
  /\ pending' = [pending EXCEPT ![s] = Tail(@)]
  /\ done' = [done EXCEPT ![s] = Terminal(NextEvent(s))]
  /\ UNCHANGED <<waiters, cursor, phase>>

\* Poll with nothing pending: create and enable the Notified future.
Register(s) ==
  /\ phase[s] = "idle" /\ ~done[s] /\ pending[s] = <<>>
  /\ waiters' = waiters \union {s}
  /\ phase' = [phase EXCEPT ![s] = "registered"]
  /\ UNCHANGED <<cursor, pending, done>>

\* read_from returned events: take the batch, hand out its first event.
ReadBatch(s) ==
  LET slice == ReadFrom(cursor[s])
  IN  /\ phase[s] = "registered" /\ slice.events # <<>>
      /\ cursor' = [cursor EXCEPT ![s] = slice.next_cursor]
      /\ pending' = [pending EXCEPT ![s] = Tail(slice.events)]
      /\ done' = [done EXCEPT ![s] = Terminal(NextEvent(s))]
      /\ phase' = [phase EXCEPT ![s] = "idle"]
      /\ waiters' = waiters \ {s}

\* read_from returned nothing and the log is not terminal: wait.
Block(s) ==
  LET slice == ReadFrom(cursor[s])
  IN  /\ phase[s] = "registered" /\ slice.events = <<>> /\ ~slice.terminal
      /\ phase' = [phase EXCEPT ![s] = "parking"]
      /\ UNCHANGED <<waiters, cursor, pending, done>>

\* An await on a future created only now.
Park_FreshFuture(s) ==
  /\ phase[s] = "parking"
  /\ phase' = [phase EXCEPT ![s] = "waiting"]
  /\ waiters' = waiters \union {s}
  /\ UNCHANGED <<cursor, pending, done>>

\* Await the future enabled before the read.
Park(s) ==
  /\ phase[s] = "parking"
  /\ phase' = [phase EXCEPT ![s] = "waiting"]
  /\ UNCHANGED <<waiters, cursor, pending, done>>

Wake(s) ==
  /\ phase[s] = "waiting" /\ s \notin waiters
  /\ phase' = [phase EXCEPT ![s] = "idle"]
  /\ UNCHANGED <<waiters, cursor, pending, done>>

\* The stream is over: a terminal event was handed out, or nothing is left
\* at the cursor of a terminal log.
EndOfStream(s) ==
  LET slice == ReadFrom(cursor[s])
  IN  /\ \/ phase[s] = "idle" /\ done[s]
         \/ phase[s] = "registered" /\ slice.events = <<>> /\ slice.terminal
      /\ phase' = [phase EXCEPT ![s] = "ended"]
      /\ waiters' = waiters \ {s}
      /\ UNCHANGED <<cursor, pending, done>>

\* The consumer drops the stream.
Unsubscribe(s) ==
  /\ phase[s] \in {"idle", "registered", "parking", "waiting"}
  /\ phase' = [phase EXCEPT ![s] = "gone"]
  /\ waiters' = waiters \ {s}
  /\ UNCHANGED <<cursor, pending, done>>
=============================================================================
