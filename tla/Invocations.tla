----------------------------- MODULE Invocations ----------------------------
(***************************************************************************)
(* POST /invocations of the AgentCore runtime (runtime-agentcore/src/        *)
(* invoke.rs).  The handler resolves the session and spawns a detached task  *)
(* that drives the run; the response, buffered JSON or SSE, hangs off a      *)
(* channel and owns a guard that cancels the run when it is dropped.  The    *)
(* runner itself is module TokioRunner: here a run yields events, ends by    *)
(* itself or soon after a cancel, and is finalized before it shows its end.  *)
(***************************************************************************)
EXTENDS SessionPool

CONSTANTS NoContext,      \* requests whose context provider fails
          FrameCapacity,  \* slots of the SSE channel (64 in the code)
          MaxYield        \* bound: events before the terminal one

VARIABLES
  accept,      \* the transport the Accept header asks for, once the run is launched
  handler,     \* the request's handler, then its response
  task,        \* the detached task
  token,       \* the run's cancellation token has fired
  yielded,     \* what the run's stream gave the driver
  in_hand,     \* the event the driver is sending
  channel,     \* events, or the JSON result, on the way to the response
  received,    \* what the client got
  finalized    \* the runner issued the append of the turn

invocationVars == <<poolVars, accept, handler, task, token, yielded, in_hand, channel,
                    received, finalized>>
taskVars == <<task, yielded, in_hand, channel, finalized>>

Closing == {"completed", "failed"}
Event == Closing \union {"event"}

InvocationTypeOK ==
  /\ PoolTypeOK
  /\ accept \in [Clients -> {"json", "sse"}]
  /\ handler \in [Clients -> {"new", "resolving", "refused", "serving", "over", "gone"}]
  /\ task \in [Clients -> {"none", "loading", "running", "ending", "over", "panicked"}]
  /\ token \in [Clients -> BOOLEAN] /\ finalized \in [Clients -> BOOLEAN]
  /\ \A q \in {yielded, in_hand, channel, received} : q \in [Clients -> Seq(Event)]

InvocationInit ==
  /\ PoolInit /\ accept = [c \in Clients |-> "json"]
  /\ handler = [c \in Clients |-> "new"] /\ task = [c \in Clients |-> "none"]
  /\ token = [c \in Clients |-> FALSE] /\ finalized = [c \in Clients |-> FALSE]
  /\ yielded = [c \in Clients |-> <<>>] /\ in_hand = yielded
  /\ channel = yielded /\ received = yielded

Becomes(f, c, v) == [f EXCEPT ![c] = v]

-----------------------------------------------------------------------------
(* The handler.                                                              *)

\* The session header, the body and its JSON are checked before anything happens.
Validate(c) ==
  /\ handler[c] = "new"
  /\ \E to \in {"resolving", "refused"} : handler' = Becomes(handler, c, to)
  /\ UNCHANGED <<poolVars, accept, token, taskVars, received>>

ResolveSession(c) ==
  /\ handler[c] = "resolving"
  /\ FastPath(c) \/ SlowPath(c)
  /\ UNCHANGED <<accept, handler, token, taskVars, received>>

\* context.build, then run_json or run_sse spawns the task.
Launch(c) ==
  /\ handler[c] = "resolving" /\ lookup[c] = "done"
  /\ IF c \in NoContext
       THEN handler' = Becomes(handler, c, "refused") /\ UNCHANGED <<task, accept>>
       ELSE /\ handler' = Becomes(handler, c, "serving") /\ task' = Becomes(task, c, "loading")
            /\ \E a \in {"json", "sse"} : accept' = Becomes(accept, c, a)
  /\ UNCHANGED <<poolVars, token, yielded, in_hand, channel, received, finalized>>

\* A response without the guard.
ClientLeaves_NoGuard(c) ==
  /\ handler[c] \in {"resolving", "serving"}
  /\ handler' = Becomes(handler, c, "gone") /\ channel' = Becomes(channel, c, <<>>)
  /\ UNCHANGED <<poolVars, accept, token, task, yielded, in_hand, received, finalized>>

\* The client leaves: handler or response is dropped, with its receiver and, once the
\* run was launched, its guard.
ClientLeaves(c) ==
  /\ handler[c] \in {"resolving", "serving"}
  /\ handler' = Becomes(handler, c, "gone") /\ channel' = Becomes(channel, c, <<>>)
  /\ token' = Becomes(token, c, handler[c] = "serving")
  /\ UNCHANGED <<poolVars, accept, task, yielded, in_hand, received, finalized>>

-----------------------------------------------------------------------------
(* The detached task.                                                        *)

\* The runner loads the session and starts; if that fails, run gives the error and
\* the SSE driver makes a stream of one RunFailed of it.
Starts(c) ==
  /\ task[c] = "loading"
  /\ \/ task' = Becomes(task, c, "running") /\ UNCHANGED <<yielded, in_hand>>
     \/ /\ task' = Becomes(task, c, "ending")
        /\ yielded' = Becomes(yielded, c, <<"failed">>)
        /\ in_hand' = Becomes(in_hand, c, <<"failed">>)
  /\ UNCHANGED <<poolVars, accept, handler, token, channel, received, finalized>>

\* The driver takes the next event of the stream; run keeps its events to itself.
Yields(c) ==
  /\ task[c] = "running" /\ accept[c] = "sse" /\ in_hand[c] = <<>>
  /\ Len(yielded[c]) < MaxYield
  /\ yielded' = Becomes(yielded, c, Append(yielded[c], "event"))
  /\ in_hand' = Becomes(in_hand, c, <<"event">>)
  /\ UNCHANGED <<poolVars, accept, handler, token, task, channel, received, finalized>>

\* The run ends: finalize, then the terminal event, or the result of run.
Ends(c) ==
  /\ task[c] = "running" /\ in_hand[c] = <<>>
  /\ task' = Becomes(task, c, "ending") /\ finalized' = Becomes(finalized, c, TRUE)
  /\ \E e \in Closing :
       /\ yielded' = Becomes(yielded, c, Append(yielded[c], e))
       /\ in_hand' = Becomes(in_hand, c, <<e>>)
  /\ UNCHANGED <<poolVars, accept, handler, token, channel, received>>

\* A driver that stops at the first event it cannot send.
Sends_StopsWhenGone(c) ==
  /\ in_hand[c] # <<>>
  /\ in_hand' = Becomes(in_hand, c, <<>>)
  /\ IF handler[c] = "serving"
       THEN Len(channel[c]) < FrameCapacity /\ UNCHANGED task
              /\ channel' = Becomes(channel, c, channel[c] \o in_hand[c])
       ELSE task' = Becomes(task, c, "over") /\ UNCHANGED channel
  /\ UNCHANGED <<poolVars, accept, handler, token, yielded, received, finalized>>

\* tx.send waits for room; without a receiver it fails, which the task ignores.
Sends(c) ==
  /\ in_hand[c] # <<>>
  /\ in_hand' = Becomes(in_hand, c, <<>>)
  /\ IF handler[c] = "serving"
       THEN Len(channel[c]) < FrameCapacity
              /\ channel' = Becomes(channel, c, channel[c] \o in_hand[c])
       ELSE UNCHANGED channel
  /\ UNCHANGED <<poolVars, accept, handler, token, task, yielded, received, finalized>>

TaskEnds(c) ==
  /\ task[c] = "ending" /\ in_hand[c] = <<>>
  /\ task' = Becomes(task, c, "over")
  /\ UNCHANGED <<poolVars, accept, handler, token, yielded, in_hand, channel, received, finalized>>

\* Agent code panics in the task, which drops the sender.
TaskPanics(c) ==
  /\ task[c] \in {"loading", "running"} /\ in_hand[c] = <<>>
  /\ task' = Becomes(task, c, "panicked")
  /\ UNCHANGED <<poolVars, accept, handler, token, yielded, in_hand, channel, received, finalized>>

-----------------------------------------------------------------------------
(* The response.                                                             *)

\* An SSE frame; or the one result of run, which completes the JSON response.
Receives(c) ==
  /\ handler[c] = "serving" /\ channel[c] # <<>>
  /\ received' = Becomes(received, c, Append(received[c], Head(channel[c])))
  /\ channel' = Becomes(channel, c, Tail(channel[c]))
  /\ IF accept[c] = "json"
       THEN handler' = Becomes(handler, c, "over") /\ token' = Becomes(token, c, TRUE)
       ELSE UNCHANGED <<handler, token>>
  /\ UNCHANGED <<poolVars, accept, task, yielded, in_hand, finalized>>

\* The sender is gone and nothing is left: the SSE body ends, JSON answers 500.
Closes(c) ==
  /\ handler[c] = "serving" /\ channel[c] = <<>> /\ task[c] \in {"over", "panicked"}
  /\ handler' = Becomes(handler, c, "over") /\ token' = Becomes(token, c, TRUE)
  /\ UNCHANGED <<poolVars, accept, taskVars, received>>

\* What the task does whether anybody listens or not; a cancelled run ends.
TaskStep(c) == Starts(c) \/ Sends(c) \/ TaskEnds(c) \/ (token[c] /\ Ends(c))

InvocationNext ==
  \E c \in Clients :
    \/ Validate(c) \/ ResolveSession(c) \/ Launch(c) \/ ClientLeaves(c)
    \/ Yields(c) \/ Ends(c) \/ TaskPanics(c) \/ TaskStep(c)
    \/ Receives(c) \/ Closes(c)

\* The scheduler polls a task that can go on; a client need not read its response.
InvocationSpec ==
  /\ InvocationInit /\ [][InvocationNext]_invocationVars
  /\ \A c \in Clients : WF_invocationVars(TaskStep(c))

-----------------------------------------------------------------------------
(* Properties.                                                              *)

\* What a client was told is so: its frames are the run's, in order; an ending came
\* after the turn was finalized, unless the run never started; a stream that ended
\* without a panic is complete, a request that was refused ran nothing, and no run
\* that started is over without its turn.
AnswersTruthful ==
  \A c \in Clients :
    LET started == yielded[c] # <<"failed">> \/ finalized[c]
    IN  /\ accept[c] = "sse" => SubSeq(yielded[c], 1, Len(received[c])) = received[c]
        /\ \A i \in DOMAIN received[c] : received[c][i] \in Closing /\ started => finalized[c]
        /\ handler[c] = "over" /\ task[c] # "panicked" =>
             received[c] # <<>> /\ received[c][Len(received[c])] = yielded[c][Len(yielded[c])]
        /\ handler[c] = "refused" => task[c] = "none"
        /\ task[c] = "over" /\ started => finalized[c]

\* A client that disconnects cannot lose the turn: the run it leaves behind is
\* cancelled, driven to its end and finalized (run_json, run_sse: "no partial turn is
\* silently lost").
DisconnectPersists ==
  \A c \in Clients :
    (handler[c] = "gone" /\ task[c] = "running") ~> (finalized[c] \/ task[c] = "panicked")
=============================================================================
