---------------------------- MODULE TokioRunner -----------------------------
(***************************************************************************)
(* The default runner (runtime-tokio/src/lib.rs) around the agent loop: it   *)
(* loads the session, drives the agent's stream under cancellation and a    *)
(* deadline (controlled), records what the stream yields (SessionRecorder), *)
(* persists the record (finalize) and reports the outcome (run: collect and *)
(* effective_interrupt; run_streamed: the events and, if the run was cut    *)
(* short, one synthesized terminal).                                        *)
(*                                                                          *)
(* The agent's stream runs only while it is polled and the select is        *)
(* biased towards it, so an interrupt is taken only at one of its awaits.   *)
(***************************************************************************)
EXTENDS AgentLoop, SessionRecorder

VARIABLES
  mode,         \* "run" or "streamed"
  phase,        \* where the runner is
  cancel,       \* the run's CancellationToken has fired
  elapsed,      \* RunConfig.timeout is set and has passed
  interrupt,    \* the InterruptHandle's cell
  recorder,     \* SessionRecorder.events
  session,      \* events this run appended to the session
  appends,      \* appends the runner has issued
  delivered,    \* events the caller of run_streamed has been given
  result        \* what run returned, or what collecting the stream gives

runnerVars == <<mode, phase, cancel, elapsed, interrupt, recorder, session, appends,
                delivered, result>>
vars == <<loopVars, runnerVars>>

Over == phase \in {"done", "abandoned"}

RunnerInit ==
  /\ Init
  /\ mode \in {"run", "streamed"} /\ phase = "load"
  /\ cancel = FALSE /\ elapsed = FALSE /\ interrupt = None
  /\ recorder = <<>> /\ session = <<>> /\ appends = 0
  /\ delivered = <<>> /\ result = None

-----------------------------------------------------------------------------
(* The runner.                                                              *)

\* The append is best-effort: an error is logged and the run goes on.
Finalize ==
  /\ recorder' = <<>> /\ appends' = appends + 1
  /\ session' \in {session, session \o Drain(recorder)}

\* load_and_record, then agent.run: an error of either returns at once.
Load ==
  /\ phase = "load"
  /\ \/ phase' = "driving" /\ recorder' = RecordInput /\ UNCHANGED result
     \/ phase' = "done" /\ result' = "start_error" /\ UNCHANGED recorder
  /\ UNCHANGED <<loopVars, mode, cancel, elapsed, interrupt, session, appends, delivered>>

\* A runner that shows a terminal event before it persists the run.
Relay_ExposeFirst ==
  LET ev == stream'[Len(stream')]
      new == stream' # stream
  IN /\ recorder' = IF new THEN Observe(recorder, ev) ELSE recorder
     /\ delivered' = IF new /\ mode = "streamed" THEN Append(delivered, ev) ELSE delivered
     /\ phase' = IF new /\ mode = "streamed" /\ IsTerminal(ev) THEN "finalizing" ELSE phase

\* An event the agent yields is recorded (inspect) and passed on; a terminal
\* one is held back until the run is persisted.
Relay ==
  LET ev == stream'[Len(stream')]
      new == stream' # stream
      held == new /\ mode = "streamed" /\ IsTerminal(ev) /\ appends = 0
  IN /\ recorder' = IF new THEN Observe(recorder, ev) ELSE recorder
     /\ delivered' = IF new /\ mode = "streamed" /\ ~held
                       THEN Append(delivered, ev) ELSE delivered
     /\ phase' = IF held THEN "finalizing" ELSE phase

PollRuns ==
  /\ phase = "driving" /\ DriverStep /\ Relay
  /\ UNCHANGED <<mode, cancel, elapsed, interrupt, session, appends, result>>

PollResumes ==
  /\ phase = "driving" /\ AwaitEnds /\ Relay
  /\ UNCHANGED <<mode, cancel, elapsed, interrupt, session, appends, result>>

\* run_streamed: finalize, then yield the terminal that was held back.
ExposeTerminal ==
  /\ phase = "finalizing" /\ phase' = "driving" /\ Finalize
  /\ delivered' = Append(delivered, stream[Len(stream)])
  /\ UNCHANGED <<loopVars, mode, cancel, elapsed, interrupt, result>>

\* A select that stops looking at the token once a tool runs.
Interrupted_NotInTools(i) ==
  /\ phase = "driving" /\ Awaiting /\ pc # "tools"
  /\ \/ i = "cancelled" /\ cancel
     \/ i = "timed_out" /\ elapsed /\ ~cancel
  /\ interrupt' = i /\ phase' = "drained"
  /\ UNCHANGED <<loopVars, mode, cancel, elapsed, recorder, session, appends, delivered,
                 result>>

Interrupted(i) ==
  /\ phase = "driving" /\ Awaiting
  /\ \/ i = "cancelled" /\ cancel
     \/ i = "timed_out" /\ elapsed /\ ~cancel
  /\ interrupt' = i /\ phase' = "drained"
  /\ UNCHANGED <<loopVars, mode, cancel, elapsed, recorder, session, appends, delivered,
                 result>>

StreamEnds ==
  /\ phase = "driving" /\ pc = "ended" /\ phase' = "drained"
  /\ UNCHANGED <<loopVars, mode, cancel, elapsed, interrupt, recorder, session, appends,
                 delivered, result>>

\* A boundary at which a late cancel overrides the run's own outcome.
EffectiveInterrupt_Late == interrupt

EffectiveInterrupt == IF SawTerminal THEN None ELSE interrupt

\* collect: a RunFailed is reported with the error in the slot, if it is there.
Collected(events) ==
  CASE \E i \in DOMAIN events : events[i].kind = "failed" ->
         IF failure # None THEN "agent" ELSE "other"
    [] OTHER -> "ok"

RunReturns ==
  /\ phase = "drained" /\ mode = "run" /\ phase' = "done" /\ Finalize
  /\ result' = IF EffectiveInterrupt = None THEN Collected(stream) ELSE EffectiveInterrupt
  /\ UNCHANGED <<loopVars, mode, cancel, elapsed, interrupt, delivered>>

StreamedEnds ==
  /\ phase = "drained" /\ mode = "streamed" /\ phase' = "done"
  /\ IF EffectiveInterrupt = None
       THEN UNCHANGED <<recorder, session, appends, delivered>>
       ELSE Finalize /\ delivered' = Append(delivered, Ev("failed", EffectiveInterrupt))
  /\ result' = Collected(delivered')
  /\ UNCHANGED <<loopVars, mode, cancel, elapsed, interrupt>>

\* The caller drops the future or the stream.
Abandon ==
  /\ ~Over /\ phase' = "abandoned"
  /\ UNCHANGED <<loopVars, mode, cancel, elapsed, interrupt, recorder, session, appends,
                 delivered, result>>

Cancel ==
  /\ ~Over /\ ~cancel /\ cancel' = TRUE
  /\ UNCHANGED <<loopVars, mode, phase, elapsed, interrupt, recorder, session, appends,
                 delivered, result>>

DeadlinePasses ==
  /\ ~Over /\ ~elapsed /\ elapsed' = TRUE
  /\ UNCHANGED <<loopVars, mode, phase, cancel, interrupt, recorder, session, appends,
                 delivered, result>>

RunnerStep ==
  \/ Load \/ PollRuns \/ ExposeTerminal \/ StreamEnds \/ RunReturns \/ StreamedEnds
  \/ \E i \in {"cancelled", "timed_out"} : Interrupted(i)

Next == RunnerStep \/ PollResumes \/ Abandon \/ Cancel \/ DeadlinePasses

\* The runner's own steps are polled; hooks, models and tools may hang.
RunnerSpec == RunnerInit /\ [][Next]_vars /\ WF_vars(RunnerStep)

-----------------------------------------------------------------------------
(* Properties.                                                              *)

\* By the time the caller knows how the run ended, the runner has issued its one
\* append, and what it appended is the record of everything the agent yielded
\* (runner.rs 85-92, lib.rs 198-208).
PersistedBeforeExposed ==
  \/ \E i \in DOMAIN delivered : IsTerminal(delivered[i])
  \/ phase = "done" /\ result # "start_error"
  => /\ appends = 1
     /\ session # <<>> => session = Drain(Recorded(stream))

\* The appended log answers every tool call it holds, whatever cut the run short
\* (session.rs 516-518: the log projects to a provider-valid conversation).
PersistedCallsAnswered ==
  \A id \in {session[i].id : i \in DOMAIN session} :
    Cardinality({i \in DOMAIN session : session[i] = Item("called", id)})
      = Cardinality({i \in DOMAIN session : session[i] = Item("returned", id)})

\* The caller hears one story, also when a cancel or the deadline comes late: run
\* reports an interrupt only if it cut the run short, and otherwise the terminal
\* event the agent reached; run_streamed gives at most one terminal event, nothing
\* after it, and one whenever it ends (runner.rs 94-101, 114-120).
VerdictFollowsStream ==
  /\ phase = "done" /\ mode = "run" =>
       /\ result \in {"cancelled", "timed_out"} => ~SawTerminal /\ result = interrupt
       /\ result = "ok" => stream[Len(stream)].kind = "completed"
       /\ result \in {"agent", "other"} => stream[Len(stream)].kind = "failed"
  /\ \A i \in DOMAIN delivered : IsTerminal(delivered[i]) => i = Len(delivered)
  /\ phase = "done" /\ mode = "streamed" /\ result # "start_error" =>
       delivered # <<>> /\ IsTerminal(delivered[Len(delivered)])

\* A run that ended with its own RunFailed is reported as the structured agent
\* error, also when a cancel or timeout came later (runner.rs 96-98).
FailureIsStructured ==
  phase = "done" /\ mode = "run" => result # "other"

\* Cancelling ends the run, even if a hook, model or tool never returns.
CancelEndsRun == cancel ~> Over
=============================================================================
