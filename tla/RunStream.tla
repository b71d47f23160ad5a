----------------------------- MODULE RunStream ------------------------------
(***************************************************************************)
(* One HTTP run: the detached writer task drains the runner's event stream  *)
(* into the event log (handlers/runs.rs: spawn_writer, TerminalGuard), and  *)
(* the transports read the log: the response to the creating request (SSE   *)
(* or one-shot, or none in async mode) and WebSocket observers              *)
(* (handlers/events.rs).                                                    *)
(***************************************************************************)
EXTENDS EventLog

CONSTANTS Creator,      \* the subscriber behind the creating request
          Observers,    \* WebSocket subscribers
          MaxEmitted    \* bound: events the runner's stream yields

ASSUME RunStreamAssumption ==
  /\ Creator \notin Observers /\ Subs = {Creator} \union Observers
  /\ MaxEmitted \in Nat \ {0}

VARIABLES
  writer,         \* where the writer task is
  emitted,        \* events taken from the runner's stream
  start_error,    \* RunHandle.start_error is set
  cancelled,      \* RunHandle.cancel has fired
  terminal_at,    \* RunHandle.terminal_at is stamped (registry.note_terminal)
  session_lock,   \* the writer still holds the session's lock
  mode,           \* transport the creating request asked for
  pos, seen,      \* position and kind of the last event each transport sent
  response        \* how each transport's response ended

writerVars == <<writer, emitted, start_error, cancelled, terminal_at, session_lock>>
transportVars == <<mode, pos, seen, response>>
vars == <<logVars, subVars, writerVars, transportVars>>

Init ==
  /\ LogInit
  /\ writer = "launch" /\ emitted = 0 /\ start_error = FALSE /\ cancelled = FALSE
  /\ terminal_at = FALSE /\ session_lock = TRUE
  /\ mode \in {"sse", "oneshot", "async"}
  /\ pos = [s \in Subs |-> 0] /\ seen = [s \in Subs |-> "nothing"]
  /\ response = [s \in Subs |-> "open"]

-----------------------------------------------------------------------------
(* The writer task.                                                         *)

Launched ==
  /\ writer = "launch" /\ writer' = "drain"
  /\ UNCHANGED <<logVars, subVars, emitted, start_error, cancelled, terminal_at,
                 session_lock, transportVars>>

\* A writer that closes the log before it records why.
StartFailed_ClosesFirst ==
  /\ writer = "launch"
  /\ IF terminal THEN writer' = "unwind" /\ start_error' = TRUE /\ UNCHANGED logVars
                 ELSE MarkTerminal /\ UNCHANGED <<writer, start_error>>
  /\ UNCHANGED <<subVars, emitted, cancelled, terminal_at, session_lock, transportVars>>

\* run_streamed returned Err: record it, then unwind into the guards.
StartFailed ==
  /\ writer = "launch" /\ writer' = "unwind"
  /\ start_error' = TRUE
  /\ UNCHANGED <<logVars, subVars, emitted, cancelled, terminal_at, session_lock,
                 transportVars>>

\* The runner's stream yields an event; a terminal one (which made the log
\* terminal) is its last.
StreamYields(kind) ==
  /\ writer = "drain" /\ ~terminal /\ emitted < MaxEmitted
  /\ emitted' = emitted + 1
  /\ AppendEvent([id |-> emitted + 1, kind |-> kind])
  /\ writer' = "append_notify"
  /\ UNCHANGED <<subVars, start_error, cancelled, terminal_at, session_lock,
                 transportVars>>

AppendNotifies ==
  /\ writer = "append_notify" /\ writer' = "drain"
  /\ NotifyWaiters
  /\ UNCHANGED <<logVars, emitted, start_error, cancelled, terminal_at,
                 session_lock, transportVars>>

StreamEnds ==
  /\ writer = "drain" /\ writer' = "unwind"
  /\ UNCHANGED <<logVars, subVars, emitted, start_error, cancelled, terminal_at,
                 session_lock, transportVars>>

\* A panic in the runner or the agent's stream unwinds the task.
Panics ==
  /\ writer \in {"launch", "drain"} /\ writer' = "unwind"
  /\ UNCHANGED <<logVars, subVars, emitted, start_error, cancelled, terminal_at,
                 session_lock, transportVars>>

\* A drop guard that only stamps the registry.
GuardMarksTerminal_Skipped ==
  /\ writer = "unwind" /\ writer' = "mark_notify"
  /\ UNCHANGED <<logVars, subVars, emitted, start_error, cancelled, terminal_at,
                 session_lock, transportVars>>

\* TerminalGuard::drop, in four steps: mark, notify, stamp; then the lock.
GuardMarksTerminal ==
  /\ writer = "unwind" /\ writer' = "mark_notify"
  /\ MarkTerminal
  /\ UNCHANGED <<subVars, emitted, start_error, cancelled, terminal_at,
                 session_lock, transportVars>>

GuardNotifies ==
  /\ writer = "mark_notify" /\ writer' = "note"
  /\ NotifyWaiters
  /\ UNCHANGED <<logVars, emitted, start_error, cancelled, terminal_at,
                 session_lock, transportVars>>

GuardNotesTerminal ==
  /\ writer = "note" /\ writer' = "unlock"
  /\ terminal_at' = TRUE
  /\ UNCHANGED <<logVars, subVars, emitted, start_error, cancelled, session_lock,
                 transportVars>>

GuardUnlocks ==
  /\ writer = "unlock" /\ writer' = "finished"
  /\ session_lock' = FALSE
  /\ UNCHANGED <<logVars, subVars, emitted, start_error, cancelled, terminal_at,
                 transportVars>>

RunnerStep ==
  \/ Launched \/ StartFailed \/ StreamEnds
  \/ \E kind \in Kinds : StreamYields(kind)

Bookkeeping ==
  \/ AppendNotifies \/ GuardMarksTerminal \/ GuardNotifies
  \/ GuardNotesTerminal \/ GuardUnlocks

-----------------------------------------------------------------------------
(* The transports.                                                          *)

Connect(s) ==
  /\ s = Creator => mode # "async"
  /\ Subscribe(s)
  /\ UNCHANGED <<logVars, writerVars, transportVars>>

\* The next() of a transport's loop: one event, sent to the client.
Send(s) ==
  /\ Drain(s) \/ ReadBatch(s)
  /\ pos' = [pos EXCEPT ![s] = NextEvent(s).id]
  /\ seen' = [seen EXCEPT ![s] = NextEvent(s).kind]
  /\ UNCHANGED <<logVars, writerVars, mode, response>>

Wait(s) ==
  /\ Register(s) \/ Block(s) \/ Park(s) \/ Wake(s)
  /\ UNCHANGED <<logVars, writerVars, transportVars>>

OneShot(s) == s = Creator /\ mode = "oneshot"
SawTerminal(s) == seen[s] \in {"completed", "failed"}

\* oneshot_response and RunResponse::from_events; sse_response and
\* handle_socket with RunHandle::synthetic_terminal_frame.
ResponseOf(s) ==
  CASE OneShot(s) /\ start_error -> "error500"
    [] ~OneShot(s) /\ start_error /\ ~SawTerminal(s) -> "failed_to_start"
    [] SawTerminal(s) -> seen[s]
    [] OTHER -> "no_terminal"

\* The response drops the run's DropGuard with it; an observer holds none.
DropsGuard(s) == cancelled' = (cancelled \/ s = Creator)

Finish(s) ==
  /\ EndOfStream(s)
  /\ response' = [response EXCEPT ![s] = ResponseOf(s)]
  /\ DropsGuard(s)
  /\ UNCHANGED <<logVars, writer, emitted, start_error, terminal_at, session_lock,
                 mode, pos, seen>>

\* The client goes away.
Disconnect(s) ==
  /\ Unsubscribe(s)
  /\ response' = [response EXCEPT ![s] = "dropped"]
  /\ DropsGuard(s)
  /\ UNCHANGED <<logVars, writer, emitted, start_error, terminal_at, session_lock,
                 mode, pos, seen>>

TransportStep(s) == Send(s) \/ Wait(s) \/ Finish(s)

Next ==
  \/ RunnerStep \/ Panics \/ Bookkeeping
  \/ \E s \in Subs : Connect(s) \/ TransportStep(s) \/ Disconnect(s)

\* The task scheduler runs every ready step of the writer's bookkeeping and of
\* a connected transport; the runner is only known to end once it is cancelled.
Spec ==
  /\ Init /\ [][Next]_vars
  /\ WF_vars(Bookkeeping) /\ WF_vars(cancelled /\ RunnerStep)
  /\ \A s \in Subs : WF_vars(TransportStep(s))

-----------------------------------------------------------------------------
(* Properties.                                                              *)

\* The ring is the latest stretch of the run's stream: consecutive events, the
\* newest last, never more than max_events, and first_seq counts the evicted.
RingIsSuffix ==
  /\ Len(events) <= MaxEvents
  /\ first_seq + Len(events) = emitted
  /\ \A i \in 1 .. Len(events) : events[i].id = first_seq + i

\* Whatever the interleaving of appends, evictions and polls, a response that
\* ended by itself reports what happened to the run: the run's own terminal
\* event if it had one, a start failure as such, and otherwise a failure with
\* no terminal event; it never ends before the outcome is decided.
HonestEnding ==
  \A s \in Subs : phase[s] = "ended" =>
    /\ terminal /\ pos[s] = emitted
    /\ response[s] =
         CASE start_error -> IF OneShot(s) THEN "error500" ELSE "failed_to_start"
           [] ~start_error /\ emitted > 0 /\ Terminal(events[Len(events)])
                -> events[Len(events)].kind
           [] OTHER -> "no_terminal"

\* The ring stays a suffix of the stream, and a transport moves forward one event
\* at a time and skips only events the ring had already evicted when it read
\* (event_log.rs append and subscribe).
OnlyEvictionSkips ==
  [][/\ RingIsSuffix'
     /\ \A s \in Subs : pos'[s] # pos[s] =>
          \/ pos'[s] = pos[s] + 1
          \/ pos'[s] = first_seq + 1 /\ pos[s] < first_seq]_vars

\* No wakeup is lost: once the log is terminal, or the run is cancelled, every
\* connected transport reaches the end of its response.
TransportsEnd ==
  \A s \in Subs :
    (phase[s] = "idle" /\ (terminal \/ cancelled)) ~> phase[s] \in {"ended", "gone"}

\* The log, its writer and its subscribers implement the abstract stream.
Replay == INSTANCE ReplayStream WITH
  closed <- terminal,
  reader <- [s \in Subs |-> IF phase[s] \in {"new", "ended", "gone"}
                            THEN phase[s] ELSE "open"]

ImplementsReplay == Replay!Spec
=============================================================================
