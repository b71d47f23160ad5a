---------------------------- MODULE Conversation -----------------------------
(***************************************************************************)
(* A WebSocket conversation with an AgentCore server                         *)
(* (runtime-agentcore/src/ws.rs, and agui/ws.rs for AG-UI): the connection   *)
(* task reads messages while a run streams, a new message interrupts the    *)
(* run, and a detached driver task drains the runner's stream into a        *)
(* bounded channel.  The runner loads and persists through a                *)
(* CompactingSession over a transactional log; the process may crash and    *)
(* be restarted, the log survives.                                          *)
(*                                                                          *)
(* Of a run only its load, the items it records and its persistence are     *)
(* kept (TokioRunner has the rest).  Pacing, frame splitting and the texts  *)
(* of error frames are left out.                                            *)
(***************************************************************************)
EXTENDS SessionLog

CONSTANTS
  Protocols,      \* "plain" (ws.rs) or "agui" (agui/ws.rs)
  MaxMessages,    \* bound on the messages the client sends
  MaxItems,       \* bound on the items of a run besides its input
  Capacity,       \* slots of the driver's channel (64)
  Threshold,      \* CompactingSession.threshold
  MaxCrashes      \* bound on crashes

ASSUME ConversationAssumption ==
  /\ Capacity \in Nat \ {0} /\ Threshold \in Nat \ {0}
  /\ MaxMessages \in Nat /\ MaxItems \in Nat /\ MaxCrashes \in Nat

Runs == 1 .. MaxMessages
Unknown == Threshold + 2 * MaxMessages * (MaxItems + 1)    \* usize::MAX

VARIABLES
  protocol,
  sent, inbox,        \* how many messages the client sent; those not read yet
  conn, in_flight,    \* the connection task; its InFlight run, 0 if none
  pending,            \* the message being handled
  served, lost,       \* messages handled, and lost with the process
  started,            \* runs started
  driver,             \* each run's driver task
  chan, cancelled,    \* its channel and its CancellationToken
  frames,             \* frames the client received
  log,                \* the session's events
  estimate, compacting,     \* CompactingSession
  history,            \* what each run saw when it loaded the session: a set of messages,
                      \* none if it has not
  crashes

clientVars == <<sent, inbox>>
connVars == <<conn, in_flight, pending, served>>
runVars == <<driver, chan, cancelled>>
sessionVars == <<log, estimate, compacting, history>>
chatVars == <<protocol, clientVars, connVars, lost, started, runVars, frames, sessionVars,
          crashes>>

NoMessage == [n |-> 0, kind |-> "none"]
NoDriver == [at |-> "none", outbox |-> "none", items |-> <<>>, read |-> 0]
Frame(run, kind) == [run |-> run, kind |-> kind]

ChatInit ==
  /\ protocol \in Protocols
  /\ sent = 0 /\ inbox = <<>>
  /\ conn = "reading" /\ in_flight = 0 /\ pending = NoMessage
  /\ served = {} /\ lost = {} /\ started = 0
  /\ driver = [r \in Runs |-> NoDriver] /\ chan = [r \in Runs |-> <<>>]
  /\ cancelled = [r \in Runs |-> FALSE]
  /\ frames = <<>>
  /\ log = <<>> /\ estimate = Unknown /\ compacting = FALSE
  /\ history = [r \in Runs |-> {}]
  /\ crashes = 0

\* A request, one that does not parse, a ping, or what ends the conversation: a
\* close, a broken socket or a binary frame.
ClientSends ==
  /\ sent < MaxMessages /\ conn # "closed" /\ sent' = sent + 1
  /\ \E kind \in {"text", "malformed", "ping", "close"} :
       inbox' = Append(inbox, [n |-> sent + 1, kind |-> kind])
  /\ UNCHANGED <<protocol, connVars, lost, started, runVars, frames, sessionVars, crashes>>

-----------------------------------------------------------------------------
(* The connection task.                                                     *)

\* A mutant: finish_run joins the task without draining its channel.
Receive_OnlyReading ==
  /\ conn = "reading" /\ in_flight # 0 /\ chan[in_flight] # <<>>
  /\ frames' = Append(frames, Frame(in_flight, Head(chan[in_flight])))
  /\ chan' = [chan EXCEPT ![in_flight] = Tail(@)]
  /\ UNCHANGED <<protocol, clientVars, connVars, lost, started, driver, cancelled,
                 sessionVars, crashes>>
\* Both loops, that of connection and that of finish_run, forward what the driver
\* sends.
Receive ==
  /\ conn \in {"reading", "finishing"} /\ in_flight # 0 /\ chan[in_flight] # <<>>
  /\ frames' = Append(frames, Frame(in_flight, Head(chan[in_flight])))
  /\ chan' = [chan EXCEPT ![in_flight] = Tail(@)]
  /\ UNCHANGED <<protocol, clientVars, connVars, lost, started, driver, cancelled,
                 sessionVars, crashes>>

\* A mutant: the interrupted run is cancelled but not awaited.
ReadMessage_NoJoin ==
  /\ conn = "reading" /\ inbox # <<>> /\ inbox' = Tail(inbox)
  /\ IF Head(inbox).kind = "ping"
     THEN served' = served \cup {Head(inbox).n} /\ UNCHANGED <<conn, in_flight, pending, cancelled>>
     ELSE /\ pending' = Head(inbox) /\ UNCHANGED served
          /\ cancelled' = [r \in Runs |-> cancelled[r] \/ r = in_flight]
          /\ conn' = "handling" /\ in_flight' = 0
  /\ UNCHANGED <<protocol, sent, lost, started, driver, chan, frames, sessionVars, crashes>>
\* A message other than a ping first finishes the run in flight.
ReadMessage ==
  /\ conn = "reading" /\ inbox # <<>> /\ inbox' = Tail(inbox)
  /\ IF Head(inbox).kind = "ping"
     THEN served' = served \cup {Head(inbox).n} /\ UNCHANGED <<conn, pending, cancelled>>
     ELSE /\ pending' = Head(inbox) /\ UNCHANGED served
          /\ cancelled' = [r \in Runs |-> cancelled[r] \/ r = in_flight]
          /\ conn' = IF in_flight # 0 THEN "finishing" ELSE "handling"
  /\ UNCHANGED <<protocol, sent, in_flight, lost, started, driver, chan, frames, sessionVars,
                 crashes>>

DriverDone == driver[in_flight].at = "done" /\ chan[in_flight] = <<>>

\* finish_run returns once the task is joined and its channel drained.
RunFinished ==
  /\ conn = "finishing" /\ DriverDone
  /\ conn' = "handling" /\ in_flight' = 0
  /\ UNCHANGED <<protocol, clientVars, pending, served, lost, started, runVars, frames,
                 sessionVars, crashes>>

\* agui/ws.rs notices that the channel closed and forgets the run; ws.rs keeps it
\* until the next message.
ChannelClosed ==
  /\ protocol = "agui" /\ conn = "reading" /\ in_flight # 0 /\ DriverDone
  /\ in_flight' = 0
  /\ UNCHANGED <<protocol, clientVars, conn, pending, served, lost, started, runVars, frames,
                 sessionVars, crashes>>

Handled(next) ==
  /\ conn = "handling" /\ conn' = next /\ pending' = NoMessage
  /\ served' = served \cup {pending.n}

\* A binary frame is refused with a close frame; a close ends the loop.
HandleClose ==
  /\ pending.kind = "close" /\ Handled("closed")
  /\ UNCHANGED <<protocol, clientVars, in_flight, lost, started, runVars, frames, sessionVars,
                 crashes>>

\* The body does not parse, or the session or the context cannot be had.
HandleError ==
  /\ pending.kind \in {"text", "malformed"} /\ Handled("reading")
  /\ frames' = Append(frames, Frame(0, "error"))
  /\ UNCHANGED <<protocol, clientVars, in_flight, lost, started, runVars, sessionVars, crashes>>

\* A run is spawned; an AG-UI run has a session of its own and opens with a frame
\* of the transport.
HandleRun ==
  /\ pending.kind = "text" /\ Handled("reading")
  /\ started' = started + 1 /\ in_flight' = started + 1
  /\ driver' = [driver EXCEPT ![started + 1] =
                  [NoDriver EXCEPT !.at = "loading", !.items = <<Message(<<started + 1, 0>>)>>]]
  /\ IF protocol = "agui"
     THEN /\ frames' = Append(frames, Frame(started + 1, "started"))
          /\ log' = <<>> /\ estimate' = Unknown /\ UNCHANGED <<compacting, history>>
     ELSE UNCHANGED <<frames, sessionVars>>
  /\ UNCHANGED <<protocol, clientVars, lost, chan, cancelled, crashes>>

ConnStep ==
  \/ Receive \/ ReadMessage \/ RunFinished \/ ChannelClosed
  \/ HandleClose \/ HandleError \/ HandleRun

-----------------------------------------------------------------------------
(* The driver task of run r: the runner's stream, drained into the channel. *)

At(r, here) == driver[r].at = here
Goes(r, there) == driver' = [driver EXCEPT ![r].at = there]
Sends(r, ev, there) == driver' = [driver EXCEPT ![r].at = there, ![r].outbox = ev]

\* load_and_record; an error becomes the only event of the stream.
LoadSession(r) ==
  /\ At(r, "loading")
  /\ \/ /\ Goes(r, "streaming")
        /\ history' = [history EXCEPT ![r] = {Covered(Project(log))}]
     \/ Sends(r, "terminal", "closing") /\ UNCHANGED history
  /\ UNCHANGED <<protocol, clientVars, connVars, lost, started, chan, cancelled, frames, log,
                 estimate, compacting, crashes>>

\* The agent yields an item, which the recorder notes.
YieldItem(r) ==
  LET id == <<r, Len(driver[r].items)>>
  IN /\ At(r, "streaming") /\ driver[r].outbox = "none" /\ Len(driver[r].items) <= MaxItems
     /\ \E item \in {Message(id), Handoff(id)} :
          driver' = [driver EXCEPT ![r].items = Append(@, item), ![r].outbox = "event"]
     /\ UNCHANGED <<protocol, clientVars, connVars, lost, started, chan, cancelled, frames,
                    sessionVars, crashes>>

\* tx.send waits for a slot, and fails at once if the receiver is gone.
Send(r) ==
  /\ driver[r].outbox # "none"
  /\ IF in_flight = r
     THEN /\ Len(chan[r]) < Capacity
          /\ chan' = [chan EXCEPT ![r] = Append(@, driver[r].outbox)]
     ELSE UNCHANGED chan
  /\ driver' = [driver EXCEPT ![r].outbox = "none",
                              ![r].at = IF @ = "closing" THEN "done" ELSE @]
  /\ UNCHANGED <<protocol, clientVars, connVars, lost, started, cancelled, frames,
                 sessionVars, crashes>>

\* The run reaches its own end, or its token stops it at an await.
RunStreamEnds(r) ==
  /\ At(r, "streaming") /\ driver[r].outbox = "none" /\ Goes(r, "appending")
  /\ UNCHANGED <<protocol, clientVars, connVars, lost, started, chan, cancelled, frames,
                 sessionVars, crashes>>

InterruptedRun(r) == cancelled[r] /\ RunStreamEnds(r)

\* The inner append is one transaction; an error is logged and the run goes on.
\* AG-UI's own session is not wrapped.
AppendRun(r) ==
  /\ At(r, "appending")
  /\ \/ /\ log' = log \o driver[r].items
        /\ Goes(r, IF protocol = "plain" THEN "gate" ELSE "terminal")
     \/ UNCHANGED log /\ Goes(r, "terminal")
  /\ UNCHANGED <<protocol, clientVars, connVars, lost, started, chan, cancelled, frames,
                 estimate, compacting, history, crashes>>

Saturated(n) == IF n > Unknown THEN Unknown ELSE n

\* add_estimate, the cheap gate and the single-flight flag.
Gate(r) ==
  LET now == Saturated(estimate + Tokens(Project(driver[r].items)))
      enters == now > Threshold /\ ~compacting
  IN /\ At(r, "gate") /\ estimate' = now
     /\ compacting' = (compacting \/ enters)
     /\ Goes(r, IF enters THEN "reading" ELSE "terminal")
     /\ UNCHANGED <<protocol, clientVars, connVars, lost, started, chan, cancelled, frames,
                    log, history, crashes>>

\* The log is read and counted; below the threshold the estimate is resynchronized.
ReadLog(r) ==
  LET messages == Project(log)
      below == Tokens(messages) <= Threshold
      stops == below \/ Collapsed(messages)
  IN /\ At(r, "reading")
     /\ \/ /\ estimate' = IF below THEN Tokens(messages) ELSE estimate
           /\ compacting' = ~stops
           /\ driver' = [driver EXCEPT ![r].read = Len(log),
                                       ![r].at = IF stops THEN "terminal" ELSE "summarizing"]
        \/ compacting' = FALSE /\ Goes(r, "terminal") /\ UNCHANGED estimate
     /\ UNCHANGED <<protocol, clientVars, connVars, lost, started, chan, cancelled, frames,
                    log, history, crashes>>

\* The model summarizes, fails, or answers nothing.
Summarize(r) ==
  /\ At(r, "summarizing")
  /\ \/ Goes(r, "marking") /\ UNCHANGED compacting
     \/ Goes(r, "terminal") /\ compacting' = FALSE
  /\ UNCHANGED <<protocol, clientVars, connVars, lost, started, chan, cancelled, frames, log,
                 estimate, history, crashes>>

\* The marker covers what was read; a failed append leaves the log as it was.
Mark(r) ==
  LET seen == SubSeq(log, 1, driver[r].read)
  IN /\ At(r, "marking") /\ compacting' = FALSE /\ Goes(r, "terminal")
     /\ \/ /\ log' = Append(log, Compacted(Covered(Project(seen)), LiveCount(seen)))
           /\ estimate' = 1
        \/ UNCHANGED <<log, estimate>>
     /\ UNCHANGED <<protocol, clientVars, connVars, lost, started, chan, cancelled, frames,
                    history, crashes>>

\* Only a persisted run shows its terminal event.
Terminal(r) ==
  /\ At(r, "terminal") /\ Sends(r, "terminal", "closing")
  /\ UNCHANGED <<protocol, clientVars, connVars, lost, started, chan, cancelled, frames,
                 sessionVars, crashes>>

RunDriverStep(r) ==
  \/ LoadSession(r) \/ Send(r) \/ InterruptedRun(r) \/ AppendRun(r) \/ Gate(r) \/ ReadLog(r)
  \/ Summarize(r) \/ Mark(r) \/ Terminal(r)

ServerStep == ConnStep \/ \E r \in Runs : RunDriverStep(r)

-----------------------------------------------------------------------------
\* The process dies and is started again: the client reconnects, the log is what
\* the last transaction left, and the new wrapper knows nothing of it.
Crash ==
  /\ crashes < MaxCrashes /\ conn # "closed" /\ crashes' = crashes + 1
  /\ lost' = lost \cup (1 .. sent \ served)
  /\ inbox' = <<>> /\ conn' = "reading" /\ in_flight' = 0 /\ pending' = NoMessage
  /\ driver' = [r \in Runs |-> NoDriver] /\ chan' = [r \in Runs |-> <<>>]
  /\ cancelled' = [r \in Runs |-> FALSE]
  /\ estimate' = Unknown /\ compacting' = FALSE
  /\ UNCHANGED <<protocol, sent, served, started, frames, log, history>>

\* Nothing is left to do.
Quiet ==
  /\ sent = MaxMessages \/ conn = "closed"
  /\ inbox = <<>> \/ conn = "closed"
  /\ \A r \in Runs : driver[r].at \in {"none", "done"} /\ chan[r] = <<>>
  /\ UNCHANGED chatVars

ChatNext ==
  \/ ClientSends \/ ServerStep \/ Crash \/ Quiet
  \/ \E r \in Runs : YieldItem(r) \/ RunStreamEnds(r)

\* Some task that can take a step takes one, and the session's and the
\* summarizer's calls return; a run that nobody cancels may go on for ever.
ChatSpec == ChatInit /\ [][ChatNext]_chatVars /\ WF_chatVars(ServerStep)

-----------------------------------------------------------------------------
(* Properties.                                                              *)

MessagesOf(r) == {log[i].id : i \in {j \in DOMAIN log : log[j].kind = "message" /\ log[j].id[1] = r}}
LogMessages == UNION {MessagesOf(r) : r \in Runs}

\* Compaction forgets nothing: every message in the log is in the conversation it
\* projects to, verbatim or in exactly one summary, and in the order it was said
\* (compacting_session.rs 154-232, session.rs project).  It rests on the single
\* writer compacting_session.rs 24-26 asks for, which the connection provides.
NothingForgotten ==
  LET messages == Project(log)
  IN /\ Covered(messages) = LogMessages
     /\ \A i, j \in DOMAIN messages : i < j =>
          \A a \in messages[i].ids, b \in messages[j].ids :
            a[1] < b[1] \/ (a[1] = b[1] /\ a[2] < b[2])

\* A run sees all that earlier runs of the conversation left in the session, the
\* turn it interrupted included (ws.rs 128-132).
HistoryComplete ==
  protocol = "plain" =>
    \A r \in Runs : \A seen \in history[r] : \A q \in 1 .. r - 1 : MessagesOf(q) \subseteq seen

\* The client can tell the turns apart: the frames of a run come before those of
\* the next, and a run that was not lost with the process shows its terminal event
\* before its successor shows anything (ws.rs 76-80).
TurnsSeparate ==
  \A i, j \in DOMAIN frames : i < j /\ frames[i].run > 0 /\ frames[j].run > 0 =>
    /\ frames[i].run <= frames[j].run
    /\ frames[i].run < frames[j].run /\ crashes = 0 =>
         \E k \in 1 .. j - 1 : frames[k] = Frame(frames[i].run, "terminal")

\* Turns follow each other: each starts from what the ones before it left, and its
\* frames come after theirs (ws.rs 128-140).
TurnsInOrder == HistoryComplete /\ TurnsSeparate

\* The connection always catches up: every message is dealt with, also one that
\* interrupts a run whose driver waits for a slot of the full channel (ws.rs 70-76),
\* unless the conversation ends.
MessageServed ==
  []<>(conn = "closed" \/ served \cup lost = 1 .. sent)
=============================================================================
