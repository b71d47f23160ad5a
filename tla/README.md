# TLA+ specifications of paigasus-helikon

paigasus-helikon is a Rust SDK for AI agents. A *runner* drives an *agent* (a
loop of model calls, tool calls and handoffs), records what happened in a
*session*, and hands a stream of events to its caller. Servers put this behind
HTTP: they admit runs, keep a bounded event log per run, and let several
transports read it. This directory specifies the stateful core of that system.

Paths below are relative to `src/crates/`, without the `paigasus-helikon-` prefix.

## 1. Inventory

| Part | State | What makes it hard | Modules |
|---|---|---|---|
| Event log, `runtime-axum/src/event_log.rs` | ring, `first_seq`, terminal flag, `Notify` | lost wakeups, eviction under a cursor | `EventLog`, `ReplayStream` |
| Writer and transports, `handlers/runs.rs`, `handlers/events.rs` | writer task, start error, cancel token, responses | panics, start failure, disconnects, order of error and terminal flag | `RunStream` |
| Run registry, `registry.rs` | map, `live`, completion queue | clock read before the lock, sweep against late stamps, exact caps | `RunRegistry` |
| Admission and session locks, `handlers/runs.rs`, `session.rs` | lock map, stage of each request | pruning by `strong_count`, requests that give up | `RunServer` |
| Session pool, `session.rs` | map and eviction order behind a read-write lock | two lookups of one key between the read and the write lock | `SessionPool` |
| AgentCore invocations, `runtime-agentcore/src/invoke.rs` | detached run, bounded channel, answer | disconnects, panics, a context provider that fails | `Invocations` |
| A2A tasks, `runtime-agentcore/src/a2a/` | task store, cancel registry | compare-and-swap races, eviction of a live task, two drivers on one task | `A2ATasks` |
| Agent loop, `core/src/loop_state.rs`, `core/src/agent.rs` | `LoopState`, conversation, failure slot, usage | concurrent tools, handoff chains, limits, repair turns | `LoopState`, `AgentLoop`, `AgentContract` |
| Runner and recorder, `runtime-tokio/src/lib.rs`, `core/src/runner.rs`, `core/src/session.rs` | interrupt cell, recorder, session | cancel or deadline against the terminal event, callers that leave | `TokioRunner`, `SessionRecorder` |
| Model calls, `runtime-tokio/src/retry.rs`, `core/src/model.rs`, `providers-*` | attempt counter, translators, turn accumulator | late, blank, repeated and missing call ids, broken bodies, retry boundary | `ChatTranslators`, `BlockTranslators`, `ModelStream` |
| Requests, `providers-*/src/translate/` | - (pure) | results before their calls, merged turns, silent turns | `Requests` |
| Workflow agents, `core/src/workflow.rs`, `graph.rs`, `swarm.rs` | in-degrees, skipped nodes, hop budget | order in which branches end, failure of one branch | `Workflow` |
| AG-UI, `runtime-agentcore/src/agui/` | open spans, buffered deltas | interleaved branches, endings in mid-span | `AgUiMapper` (run by `Workflow`) |
| Sessions and compaction, `core/src/session.rs`, `core/src/compacting_session.rs` | event log, estimate, single-flight flag | append during a summary, miscounted marker | `SessionLog` |
| AgentCore sockets, `runtime-agentcore/src/ws.rs`, `agui/ws.rs` | in-flight run, bounded channel | interrupt of a run with a full channel | `Conversation` |
| Durable runtime, `runtime-temporal` | driver around `transition`, history | replay, chunks of activities, deadline against result | `DurableDriver`, `DurableRun` |
| Permissions and tool calls, `core/src/context.rs`, `permission.rs`, `tool_exec.rs` | contexts, approvals, redaction | hooks that rewrite a call, nested agents | `Permissions`, `ToolPipeline` |
| Shell, microVMs, web, `tools/src/` | processes and pipes, sandboxes and clock, uses and tunnels | timeouts against late output, the reaper, redirects and rebinding | `Exec`, `Sandboxes`, `WebAccess` |

How the parts interact: `RunServer` admits a request and spawns a writer;
`RunStream` is what that writer and the readers of its log do; the stream the
writer drains is the one `TokioRunner` produces by driving an agent: `AgentLoop`
or one of the agents of `Workflow`, both of which implement `AgentContract`. A
model call inside the loop sends one of the `Requests` and reads a `ModelStream`;
a tool call goes through `ToolPipeline` to `Exec`, `Sandboxes` or `WebAccess`.
`TokioRunner` records into a session (`SessionRecorder`, `SessionLog`);
`Conversation` serves runs over one socket on one session and `Invocations` over
HTTP. A2A has its own store and log and drives the same runner. `DurableRun`
drives the state machine of the loop (`LoopState`) from a workflow.

`runtime-actix` is a port of `runtime-axum`. Its event log and response types
are the same text, its pool and lock map differ in a few lines and its registry
in how the sweeper is started; the definitions of `EventLog`, `SessionPool`,
`RunRegistry` and `RunServer` stand for both, and a few of the entries of the
map name the actix lines. Its handlers differ in one behaviour: a buffered
one-shot response is not dropped when the client disconnects, so there the
disconnect does not cancel the run. `RunStream` models axum, where it does.

## 2. Modules

- `EventLog`: the operations of one log. An event is its position and its kind.
  `append` and `mark_terminal` release the lock before they notify, so the
  notification is a step of its own; a subscriber registers its waiter before it
  reads, as `subscribe` does.
- `ReplayStream`: the abstract promise of the log. A stream grows until it is
  closed; readers only move forward, may skip, and end at the end of a closed
  stream.
- `RunStream`: `EventLog` with its writer (launch, drain, unwind, drop guard;
  a panic while the run starts or is drained) and its transports. It implements
  `ReplayStream` with `closed <- terminal` and the reader phases folded to new,
  open, ended, gone.
- `RunRegistry`: each operation is one step under the registry's lock; the time
  it gets is a parameter. `sweep` is one action made of its three passes. The
  overdue runs are stamped in any order, since the code iterates a hash map.
- `RunServer`: requests, locks, writer ends and sweeper over `RunRegistry`. The
  stamping writer and the sweeper each read the clock in one step and use it in
  a later one.
- `SessionPool`: the lookup of a session in its two halves, under the read lock
  and under the write lock. `Invocations`: a request on such a session, its
  detached run, the channel of frames and the answer (JSON or SSE).
- `A2ATasks`: one step for each store call, since every store operation takes
  the lock once. A driver may panic; nothing cleans up after it, as in the code.
- `LoopState`: `transition`, arm by arm, as an operator on the loop's state. Both
  drivers apply it.
- `AgentContract`: what every agent promises whoever polls it: events, then one
  terminal event, then the end; an error in the slot exactly if it failed.
- `AgentLoop`: the driver around `LoopState`; its actions are the awaits and
  yields of `LlmAgent::run`. Hooks may deny, guardrails may trip, models and
  tools may fail. Of the conversation only tool calls and results are kept.
- `SessionRecorder`, `TokioRunner`: the recorder and the runner around
  `AgentLoop`. The select in `controlled` is biased towards the stream, so an
  interrupt is taken only at an await of the agent.
- `ChatTranslators` (OpenAI chat, LiteLLM), `BlockTranslators` (Responses,
  Anthropic, Bedrock, Gemini): a translator is a record and one operator per
  wire event, which returns the new record and the events it yields. Argument
  text is a sequence of numbered fragments, so that a lost, doubled or
  misdelivered fragment shows.
- `ModelStream`: connection, wire, translator, `RetryingModel` and
  `ModelTurnAccumulator`. The wire is the environment and may send what the
  providers are known to send.
- `Requests`: a conversation grows item by item; the five translations of it are
  operators on the whole.
- `AgUiMapper`: the mapper as a record and one operator per agent event.
  `Workflow`: the five workflow agents over sub-agent streams, with the mapper
  and an AG-UI client behind them.
- `SessionLog`: `project`, `live_count`, the compaction gate, all pure.
  `Conversation`: a socket, its channel, detached run drivers and a compacting
  session, with a crash between any two steps.
- `DurableDriver`: the driver and the effects it asks for. `DurableRun`: the
  workflow around it, its history, and a worker that crashes and replays.
- `Permissions`: `authorize_tool` and the contexts derived for nested agents.
  `ToolPipeline`: one call through hooks, authorization, invocation, redaction. An
  output is the lines of its strings, each a sequence of fields (`name=value`,
  `name: value` or a bare word), and the values in object keys and numbers.
- `Exec`: `spawn_capped`, its two readers and its timers against a shell and a
  child that outlives it. `Sandboxes`: the forkd backend and its reaper.
  `WebAccess`: fetches with redirects, the guarded resolver, the egress proxy.
- `MCHostedRuns`, `MCAgentCore`, `ServedRuns`, `Activities` put independent parts into one run:
  a variable `part` chooses at the start which part moves, and the variables of
  the others never change. Each property is that of its own module.
- `MC*`: the instances for TLC. `*Proofs`: the proofs (section 4).

Definitions whose names end in `_Something` (`Drain_Verbatim`) are plausible
mistakes in the definition that follows them. Replacing the definition by its
mistaken form makes TLC report the property named in `PROJECT.json`.

## 3. Runs

| Run | Instance | Distinct states |
|---|---|---|
| `hosted_runs` | one creating request (SSE, one-shot or async) and one observer on a ring of 2 with up to 4 events; 3 invocations on 2 keys, a pool of 1, a channel of 1 | 138,877 |
| `run_server` | two requests on a session and an anonymous one, 1 slot, 1 retained run, TTL and run duration 1, clock up to 2 | 84,318 |
| `agent_core` | 2 messages, 1 cancel, 1 stream, 2 task ids, store of 1 task, log of 2 frames, 1 artifact; 2 agents in sequence, parallel and loop (2 rounds), 4 in a graph with 7 candidate edges, swarm with 2 handoffs | 1,617,815 |
| `agent_loop` | the 6 agent profiles with tools or a structured output, 5 model replies with up to 3 calls, 2 turns, 1 handoff, buffer of 2 | 643,081 |
| `model_stream` | 6 providers, 2 call ids, 2 names, 3 to 5 wire events, 2 attempts | 1,706,701 |
| `served_runs` | socket: 3 messages of 1 item each, channel of 1, compaction threshold 2, 1 crash, both sockets; runner: structured output or not, 3 replies with up to 2 calls, 2 turns, 1 handoff, cancel and deadline | 415,150 |
| `activities` | durable run: 2 turns, replies with 0, 1 or 3 calls, chunks of 2, 1 crash; one tool call with 4 outputs; a shell with a surviving child; two calls, two boxes, a foreign one and the reaper; two fetches and a tunnel; conversations of up to 8 items with 3 calls for 5 providers | 731,908 |

What they show:

- `hosted_runs`: a response that ends by itself reports what happened
  (`HonestEnding`); only evicted events are skipped (`OnlyEvictionSkips`); no
  wakeup is lost (`TransportsEnd`); the log implements `ReplayStream`
  (`ImplementsReplay`). Two requests hold one session exactly if they asked for
  one key that was not evicted between them, and the eviction order lists the
  map (`PoolExact`); an answer comes after the run was finalized and says how it
  ended (`AnswersTruthful`); a disconnect cancels the run, which is finalized
  nevertheless (`DisconnectPersists`).
- `run_server`: the in-flight counter and the completion queue are exact
  (`RegistryExact`); runs of a session do not overlap (`OneRunPerSession`); a
  sweep is orderly at its own clock reading (`SweepIsOrderly`); a run that never
  ends gives its slot and lock back (`SlotsReclaimed`).
- `agent_core`: `tasks/cancel` answers truthfully (`CancelIsTruthful`), a final
  frame carries the stored state (`FinalFrameIsStoredState`), a stream ends by
  itself only when it delivered all there was (`StreamsDrain`), and a sleeping
  stream has missed nothing (`SleepersMissNothing`). Each workflow agent
  implements `AgentContract` (`ImplementsAgent`); its outcome follows from those
  of its branches, graph nodes start once, after their predecessors and not after
  a failed one, and skipped nodes are reported (`AgentsAccounted`); the client
  sees well-nested spans and all arguments (`ClientView`). An ASSUME compares the
  cycle check with its definition on all graphs of 3 nodes.
- `agent_loop`: the loop is an agent by `AgentContract`, its end included
  (`ImplementsAgent`); usage is conserved along handoffs (`UsageConserved`);
  every model request has an answer for every call, in order, and shown calls get
  shown outputs (`CallsPaired`); work is bounded (`WorkBounded`).
- `model_stream`: the accumulated turn has every argument fragment once, in
  order, under the right call, and each name once (`CallsIntact`); `Finish` comes
  at most once, with no other event after it, and exactly if the wire gave a stop
  reason and the body ended (`FinishContract`; an error after it is the subject of
  `finish_last` below);
  OpenAI's and LiteLLM's translators agree on a chat stream
  (`ChatTranslatorsAgree`); a turn comes from one attempt (`RetryInvisible`).
- `served_runs`: no event is lost by compaction (`NothingForgotten`); a turn
  starts from a history with all turns before it and the frames of two turns do
  not mix (`TurnsInOrder`); every message is served, although the run it
  interrupts may be blocked on the full channel (`MessageServed`). A run is
  persisted before its end is exposed (`PersistedBeforeExposed`); persisted calls
  are answered (`PersistedCallsAnswered`); the verdict follows the stream, also
  when a cancel arrives late (`VerdictFollowsStream`); a cancel ends the run even
  if a tool hangs (`CancelEndsRun`).
- `activities`: every model activity gets an answer for every call, in order
  (`CallsAnswered`); the outcome is what the history says, crash or not, and an
  interrupt ends the run at once and leaves a finished outcome alone
  (`DurableVerdict`). A tool runs only with authorized arguments, and where a run asks
  for redaction it is the last thing done to an output, so that the model is shown
  none of the values the redactor looks for and no value under a secret name on a
  line of its own (`ToolContract`; section 5 has the redactor's limits); a command ends in time, leaves no process
  of its group after a timeout and keeps a prefix of its output (`ExecContract`);
  a box in use exists and the reaper touches only overdue boxes of its own
  (`SandboxesSafe`); no connection reaches an excluded host (`PolicyHolds`); a
  request has every part of the conversation once, with results right after their
  calls, and in order, for Anthropic and Bedrock provided that every tool turn
  comes with an assistant message (`RequestsFaithful`).

Five further runs end in a counterexample on purpose; they record where the
code and a statement in the repository disagree.

- `a2a_final_frame`: the terminal state is stored before the final frame is
  appended (`a2a/rpc.rs:643`), so a stream may end without its final frame,
  which the tests at `a2a/rpc.rs:1049` and `:1070` expect.
- `tokio_late_cancel`: `RunFailed` is yielded, the `OnRunComplete` hook is
  awaited, and only then the failure slot is filled (`core/src/agent.rs:1036`).
  An interrupt at that await makes `run` return `RunError::Other` and not the
  structured error that `core/src/runner.rs:97` describes.
- `tokio_reused_ids`: `drain` (`core/src/session.rs:519`) asks whether a call id
  was answered anywhere in the run. The Gemini provider numbers calls afresh for
  each model call when the API gives no id, so an interrupted call of the second
  turn may pass for answered and its result is not synthesized. With ids that are
  not reused the property holds; section 4 has the proof.
- `anthropic_results`: an assistant text after tool results makes the Anthropic
  translation flush the results before the calls they answer, as a user turn
  right after a user turn (`translate/request.rs:62`), against the design note
  and the test quoted in `PROJECT.json`.
- `finish_last`: Anthropic (`providers-anthropic/src/model.rs:124`), Bedrock and
  Responses go on polling after `Finish`; a body that breaks off then yields an
  error after it, where `core/src/model.rs:63` says that nothing follows and the
  conformance suite counts an `Err` as a violation
  (`provider-stream-conformance/src/check.rs:155`). With the other three providers
  alone the property holds.

### Bounds

Each bound is the smallest at which its case occurs: a ring of 2 with 4 events
overflows twice under a parked reader; a pool of 1 and 2 keys evict on every
other lookup, and 3 clients let a key be evicted and asked for again while the
first client holds its session; one slot and one retained run make every
admission and every sweep meet a cap; a clock of 3 values has a stale read on
both sides of a boundary; a store of one task evicts a live task whenever a
second is created; two turns reach the tool turn, the turn limit and, with the
finalizing and repair turns, every arm of `transition` the driver can reach;
three calls on a buffer of two make a finished call wait for an earlier one. A
profile with neither tools nor output only ever answers, and is left out. Two
agents give a chain in which usage is folded and the depth limit is met. Five
wire events are a block with name, two fragments, stop reason and end; two ids
and two keys are the least for a collision. Four graph nodes make a diamond.
Three messages interrupt a run that itself interrupted one. Three calls in chunks
of two leave a partial chunk. Requests without a session key share nothing; that
case is in the proof of `PoolIsExact` only.

Deadlock is checked in `model_stream`, `served_runs`, `activities` and
`agent_core`: these modules say when they are done (`agent_core`: the workflow is
over, or every message was handled). It is not checked in the other runs, whose
systems come to rest. `agent_core` uses the symmetry of messages; it checks no
liveness.

### Fairness

- `RunStream`: weak fairness of the writer's bookkeeping and of each connected
  transport (tokio polls a woken task). The runner's stream is fair only once it
  is cancelled: an uncancelled run may go on for ever.
- `Invocations`: weak fairness of each detached task, which tokio polls whether
  or not its client is there.
- `RunServer`: weak fairness of the handlers, of time and of the sweeper's
  interval; no fairness for the end of a run that was not cancelled.
- `AgentLoop`: weak fairness of the next step, that is, hooks, models and tools
  return. The liveness part of `ImplementsAgent` is conditional on that.
- `Workflow`: none; its `ImplementsAgent` is about safety.
- `TokioRunner`: weak fairness of the runner's own steps only; hooks, models and
  tools may hang, and `CancelEndsRun` holds nevertheless.
- `Conversation`: weak fairness of the server's steps (connection, driver,
  session); the client need not send or read anything in particular.
- The other modules state no fairness and check no liveness. In `A2ATasks` the
  code gives no guarantee once a driver panics, and lost wakeups are excluded by
  an invariant.

## 4. Proofs

Every theorem below is checked by TLAPS for all values of the constants, from
the named assumptions of the modules it is about. They say that limits and sizes
are naturals (or positive where the code clamps them), that sets of actors are
finite where something is counted, that reserved names (`NoSession`, `NoCode`,
...) are not values, and, where the code relies on it: `ReapAgeAssumption` (a box
is reaped only after twice the run timeout: the `reap_age` the operator is told to
keep above the longest run, which waits once for the fork and once for the exec;
the default is ten times the timeout), `RootsAssumption` (a run starts with a
well-formed context), `OutputsAssumption` and `LengthsAssumption` (an output is
lines of fields; the three stars have three characters), `NoneIsNoReason` (no stop reason on the wire is the model's `None`) and
`WorkflowAssumption` (an agent has sub-agents, and a swarm one entry agent).

| Module | Theorem | Establishes |
|---|---|---|
| `RunServerProofs` | `ServerRegistryExact`, `ServerOneRunPerSession`, `ServerSweepIsOrderly` | `RegistryExact`, `OneRunPerSession`, `SweepIsOrderly` |
| | `ServerTypeOK`, `ServerRunningBounded` | types; at most `max_in_flight` runs that were not told to stop |
| `HostedRunProofs` | `StreamInvariant`, `EndingsAreHonest`, `SkipsOnlyEvicted`, `ReplaysTheStream` | `HonestEnding`, `OnlyEvictionSkips`, the safety half of `ImplementsReplay` |
| | `PoolIsExact` | `PoolExact` |
| `AgentCoreProofs` | `TasksCancelIsTruthful`, `TasksFinalFrame`, `TasksSleepers`, `TasksStreamsDrain` | the four properties of A2A tasks |
| | `AnswersAreTruthful` | `AnswersTruthful` |
| `LoopStateProofs` | lemmas `TransitionRight`, `TransitionPairs` | what a step of `transition` yields, used by the next two |
| `AgentLoopProofs` | `LoopInvariant`, `UsageIsConserved`, `WorkIsBounded`, `KeepsTheContract` | `UsageConserved`, `WorkBounded`, the safety half of `ImplementsAgent` |
| | `RunnerInvariant`, `TheVerdictFollows`, `AppendsOnce` | `VerdictFollowsStream`; one append before the end is known |
| `PairingProofs` | `PairInvariant`, `CallsArePaired` | `CallsPaired` |
| | `RecordInvariant`, `PersistsBeforeItExposes` | `PersistedBeforeExposed` |
| | `PersistedCallsAreAnswered` | `PersistedCallsAnswered`, if the provider does not reuse ids |
| `ModelToolProofs` | `RetriesAreInvisible`, `BlockStreamsFinish` | `RetryInvisible`; `FinishContract` for Anthropic and Bedrock (which leaves errors after `Finish` aside) |
| | `ExecInvariant`, `CommandsKeepTheirContract` | `ExecContract` |
| | `VmInvariant`, `SandboxesAreSafe` | `SandboxesSafe` |
| | `PipelineInvariant`, `CallsAreAuthorized` | `ToolContract` |
| | `WebInvariant`, `ThePolicyHolds` | `PolicyHolds` |
| `WorkflowProofs` | `StreamInvariant`, `WorkflowsAreAgents` | `ImplementsAgent` |
| | `OutcomeInvariant`, `OutcomesAreExplained`, `NodesWait` | `AgentsAccounted` for workflows that are not graphs; for graphs its part on predecessors |

Along which argument:

- `ServerInv` is the type invariant with: `RegistryInv` (count and queue are
  exact, and a run outside the map has no stamp left; otherwise a later `create`
  could insert a run that looks terminal but was counted live),
  `MapFollowsStages` (`create` never meets an id it holds), `RunningIsLive` (a
  run that was not told to stop is counted until its writer ends), `LocksShared`
  (while a request has the lock of a named session the map has it too, which
  pruning by `strong_count` has to preserve) and `Exclusive` (a lock has one
  holder). The action property of the sweep follows from what its three passes
  leave (`SweepHasShape`).
- `StreamInv` of `HostedRunProofs`: the ring is the suffix of what was emitted,
  each transport holds a contiguous stretch of it, and what the writer knows at
  each of its stages. The refinement maps each step, by cases of `Next`, to a
  step or a stutter of `ReplayStream`.
- `TasksInv` has one part for each kind of actor: `StoreInv` (logs are stretches
  of numbered frames), `DriveInv` (the state a driver read back is terminal and
  can no longer change), `CancelInv` (the same for `tasks/cancel` between its
  reads and its swap), `SubInv` (a sleeping stream is at the end of the log, or a
  notification is on its way). `UpdateKeeps`, `AppendKeeps` and `CreateKeeps` say
  once what a swap, an append and a creation leave of another actor's part.
- `PoolInv` adds to the exact order when each session was made and that a pooled
  session is held by the request that made it; `ClientInv` says that received,
  channel and hand are consecutive parts of the run's stream, with the terminal
  event last.
- `LoopInv` says, for each control point of `LlmAgent::run`, which state and
  which inputs the machine may be in, that the stream has no terminal event yet
  or exactly one at its end, and which total it carries. `TransitionRight` is the
  step of the pure machine under it.
- `PairInv`: the calls shown, or queued to be shown, are the outputs shown
  followed by the calls of the current turn that still owe one; likewise for
  calls and results in the conversation; and the queue holds neither when tools
  run or a handoff is made. The invariant has to count what is queued: the
  property itself speaks about the stream alone and is not inductive.
- `RecordInv`: until the append the recorder is the record of the stream so far,
  and after it the session is its drain or nothing (an append may fail).
- `FreshInv`: if ids are not reused, the calls and transfers shown are distinct,
  and those of the turn in hand are new when the machine gets them. With
  `PairInv` an output shown has its call before it, so a drained log has one
  result for each call (`DrainAnswers`).
- `RunnerInv` adds to `LoopInv` what the runner knows in each phase: what was
  delivered, whether the append was made, and that an interrupt is noted only
  once the stream is drained.
- `ExecInv`, `VmInv`, `WebInv` and `PipelineInv` hold the deadlines and readers
  of a command, the owner of each box and the entries a sweep has yet to visit,
  the hosts reached and the uses taken, and which call was judged under which
  rules; `StringRedacted` is what the two scans of the redactor do to a line.
  `RetryInv` says that nothing was handed on while another attempt can
  follow; `FinishInv` relates `Finish` to the stop reason on the wire and to what
  is queued.
- In `WorkflowProofs`, `StreamInv` is the contract of an agent with what is
  forwarded and owed, `OutcomeInv` the state of the branches of each kind of
  workflow, and `GraphInv` that the in-degree left of a node counts the
  predecessors it waits for.

What a recursive definition computes is proved for the one the loop needs:
`Kept`, the elements of a list at given positions. That it is defined, and that
it distributes over concatenation, follows by taking the least counterexample
(lemma `Least`, from the well-foundedness of the naturals), so no induction
scheme with an operator parameter is used. Proofs use sequences only through
what `Append`, `\o`, `Head` and `Tail` do to positions (`IsSeq`): the operators
of `SequencesExt` and `Graphs`, and `Bags`, are kept out of the modules proved
about, because their definitions slow every obligation down.

Only model-checked:

- Liveness (`TransportsEnd`, `DisconnectPersists`, `SlotsReclaimed`,
  `CancelEndsRun`, `MessageServed` and the fairness in `ImplementsReplay` and
  `ImplementsAgent` of the loop): outside what the prover handles.
- `CallsIntact`, `ChatTranslatorsAgree`, and `FinishContract` for the other
  providers: the translators fold over maps of fragments, and what they compute
  would need induction over data for each of them. `RequestsFaithful` likewise.
- `ClientView`: the mapper is a record machine of many arms, whose invariant
  relates it to a client that parses its whole output.
- For graphs, that an outcome is explained and skipped nodes are reported:
  `MarkSkipped` computes what is downstream by recursion over sets of nodes.
- `NothingForgotten` and `TurnsInOrder`: `project` and `live_count` are folds over
  a log that grows at both the driver's and the compactor's hand. `CallsAnswered`
  and `DurableVerdict`: the driver is replayed from its whole history, a fold too.

## 5. Observations without a run

- The finalizing and repair turns are not counted against `max_turns`
  (`core/src/runner.rs:170`); `WorkBounded` therefore says `MaxTurns + 2`.
- A tool call made on the finalizing turn is not answered before the repair
  request; `CallsPaired` exempts that request.
- A panic in `drive` leaves its token registered, although `a2a/cancel.rs:3`
  says the map cannot outlive its runs.
- `ModelTurnAccumulator` starts with the finish reason `Stop`
  (`core/src/model.rs:578`), so a stream without `Finish` looks like a clean one.
- OpenAI and LiteLLM differ outside of what `ChatTranslatorsAgree` compares: the
  order in which leftover names are flushed, the finish reason `function_call`,
  and responses with several choices. Both put user text before the tool results
  hoisted out of the same message.
- Bedrock and Anthropic merge consecutive tool turns without text; Anthropic and
  Gemini push an empty assistant turn for a message of reasoning only; Anthropic
  does not merge the adjacent user messages that a failed run leaves.
- A parallel agent starts the branches before one with a repeated output key,
  although the comment at `core/src/workflow.rs` says it fails before any starts.
- The one-span-per-call-id rule of the AG-UI mapper has an exception the tests
  document; a stream that dies closes its spans and sends no `RUN_ERROR`.
- A compaction has no timeout and its model call an unlinked token: a summariser
  that hangs keeps the session waiting.
- Redaction covers tool outputs; the texts of tool errors are passed on as they
  are. It has limits, most of them documented (`core/src/redaction.rs:60-69`), and
  the model has them too: values under eight characters, common words and digits
  are not looked for; of a line the first `=` is examined and the first `:` only
  if no secret name stands before that, so other assignments of the line stay;
  names with hyphens do not count as secret; object keys and numbers are not
  scanned. The model takes values as atoms, so a secret in another casing, or one
  that contains another, is a different value there.
- Dropping the future of `spawn_capped`, or an error of its wait, leaves the
  processes it started running. That the two signals to a group succeed is assumed;
  the code logs a failure and goes on (`tools/src/exec/mod.rs:156-164`, `:488-523`).
- The limit of a web search clamps to 20 (`tools/src/web/search.rs`), where the
  documentation of `max_results` calls that field default and ceiling.

## 6. Not modelled

- Authentication, routing, serialisation, error bodies and the OpenAPI document:
  no state of their own. Builders and settings of agents, models and requests.
- The text matching of permission rules (`command_match`, `path_match`): a
  command is what the matchers resolve it to.
- The file tools (read, edit, write, search), web search, OS sandbox profiles and
  Windows job objects; MCP (an adapter over a library); evals (independent cases,
  sorted by index); CLI, macros and the facade crate.
- The transactions inside the session databases, snapshots and forks;
  `Conversation` takes one compacting wrapper per session.
- The frame budget and the busy gauge of AgentCore; heartbeats, retry policies
  and registration of the Temporal worker, which are configuration. The Temporal
  server is external: history, timers and replay are as the code uses them.
- The splitting of provider bodies into frames, media encodings, tool schemas,
  token deltas, spans, texts and injected system messages.

The definitions map to about 13,000 lines: 18% of the 72,300 lines of the source
files, 29% of the 45,300 that remain without the test modules inside them. The
rest is what this section lists, and `runtime-actix` where it repeats
`runtime-axum`.
