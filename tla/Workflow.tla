------------------------------ MODULE Workflow -------------------------------
(***************************************************************************)
(* The workflow agents of core (SequentialAgent, ParallelAgent and LoopAgent *)
(* of workflow.rs, GraphAgent of graph.rs, SwarmAgent of swarm.rs): agents   *)
(* that run other agents and merge their event streams into their own, here *)
(* read by the AG-UI response stream of runtime-agentcore/src/agui/sse.rs.  *)
(*                                                                          *)
(* A sub-agent is any agent that keeps AgentContract, which AgentLoop shows  *)
(* LlmAgent to do; that a workflow keeps it too is what lets them nest.     *)
(* Sub-agents are polled by the workflow alone, so only the order in which  *)
(* their streams become ready is open.  Texts, spans and the OnSubagentStop *)
(* hooks, whose result is ignored, are left out.                            *)
(***************************************************************************)
EXTENDS Integers, FiniteSets, AgUiMapper

CONSTANTS
  Kinds,             \* which workflow agents to run
  AgentsOf,          \* number of sub-agents of each kind
  MaxIterations,     \* LoopAgent.max_iterations
  MaxHandoffs,       \* SwarmAgent.max_handoffs
  CandidateEdges,    \* edges a graph may be built from
  CallsOf,           \* call ids the sub-agents of a kind use, by sub-agent
  BodiesOf,          \* event types the sub-agents of a kind emit
  MaxEvents          \* bound on the events of one sub-agent between its start and end

ASSUME WorkflowAssumption ==
  /\ \A k \in Kinds : AgentsOf[k] \in Nat \ {0}
  /\ "swarm" \in Kinds => AgentsOf["swarm"] = 1    \* the entry agent
  /\ \A k \in Kinds : MaxEvents[k] \in Nat
  /\ MaxIterations \in Nat /\ MaxHandoffs \in Nat

VARIABLES
  kind, keys, edges, too_deep,    \* how the agent was built and called
  pc,         \* "new", "launching", "draining", "completing", "failing", "over"
  cur,        \* position in the list of sub-agents
  iteration,  \* LoopAgent
  child,      \* the sub-agents' streams and failure slots
  ready, indegree, skipped,       \* GraphAgent
  failed,     \* sub-agents that failed, or failed to start
  hops,       \* SwarmAgent
  total,      \* usage, one unit for each completed run of a sub-agent
  store,      \* keys of the shared session state written
  status, failure,                \* the workflow's own stream and failure slot
  ui,         \* the mapper, what its client has seen and what it should have
  calls       \* progress of each tool call of the sub-agents

configVars == <<kind, keys, edges, too_deep>>
graphVars == <<ready, indegree, skipped>>
vars == <<configVars, pc, cur, iteration, child, graphVars, failed, hops, total, store,
          status, failure, ui, calls>>

Agents == 1 .. AgentsOf[kind]
CallIds == UNION {UNION {CallsOf[k][i] : i \in 1 .. AgentsOf[k]} : k \in Kinds}
Graph == [node |-> Agents, edge |-> edges]
Successors(G, i) == {j \in G.node : <<i, j>> \in G.edge}
Predecessors(G, i) == {j \in G.node : <<j, i>> \in G.edge}
Succs(i) == Successors(Graph, i)
Preds(i) == Predecessors(Graph, i)

-----------------------------------------------------------------------------
(* GraphAgentBuilder::build: Kahn's algorithm.                              *)

Settle(indeg, i, G) ==
  [j \in G.node |-> IF j \in Successors(G, i) THEN indeg[j] - 1 ELSE indeg[j]]

\* The order of the queue is left open: it does not change how many it visits.
Visited(queue, indeg, G) ==
  LET visited[q \in SUBSET G.node, d \in [G.node -> Int]] ==
        IF q = {} THEN 0
        ELSE LET i == CHOOSE i \in q : TRUE
                 rest == Settle(d, i, G)
                 freed == {j \in Successors(G, i) : rest[j] = 0}
             IN 1 + visited[(q \ {i}) \cup freed, rest]
  IN visited[queue, indeg]

Builds(G) ==
  /\ G.edge \subseteq G.node \X G.node
  /\ LET indeg == [i \in G.node |-> Cardinality(Predecessors(G, i))]
     IN Visited({i \in G.node : indeg[i] = 0}, indeg, G) = Cardinality(G.node)

-----------------------------------------------------------------------------
(* The client of the AG-UI stream.                                          *)

NewClient ==
  [span |-> NoCall, step |-> FALSE, terminal |-> FALSE, closed |-> FALSE, legal |-> TRUE,
   args |-> [id \in CallIds |-> <<>>]]

\* What AG-UI allows a frame to follow: one span at a time, content and arguments
\* only inside their own, nothing after the terminal frame.
Legal(c, f) ==
  /\ ~c.terminal
  /\ CASE f.type \in {"text_start", "call_start", "call_result"} -> c.span = NoCall
       [] f.type \in {"text_end", "content"} -> c.span = f.kind
       [] f.type \in {"call_args", "call_end"} -> c.span = f.id
       [] f.type = "step_start" -> ~c.step
       [] f.type = "step_end" -> c.step
       [] f.type \in {"run_finished", "run_error"} -> c.span = NoCall /\ ~c.step
       [] OTHER -> TRUE

Sees(c, f) ==
  LET seen == [c EXCEPT !.legal = @ /\ Legal(c, f)]
  IN CASE f.type = "text_start" -> [seen EXCEPT !.span = f.kind]
       [] f.type = "call_start" -> [seen EXCEPT !.span = f.id]
       [] f.type \in {"text_end", "call_end"} -> [seen EXCEPT !.span = NoCall]
       [] f.type = "call_args" -> [seen EXCEPT !.args[f.id] = @ \o f.args]
       [] f.type \in {"step_start", "step_end"} -> [seen EXCEPT !.step = f.type = "step_start"]
       [] f.type \in {"run_finished", "run_error"} -> [seen EXCEPT !.terminal = TRUE]
       [] OTHER -> seen

\* The arguments of each call as the events carried them, and the calls named.
Carried(sent, ev) ==
  IF ev.type = "delta"
  THEN [sent EXCEPT !.args[ev.id] = @ \o ev.args, !.named = @ \cup {id \in {ev.id} : ev.named}]
  ELSE IF ev.type = "item"
  THEN [sent EXCEPT !.args[ev.id] = IF ev.whole THEN ev.args ELSE @, !.named = @ \cup {ev.id}]
  ELSE sent

\* next_frame of agui/sse.rs: RunStarted is the transport's own frame.
Consume(view, ev) ==
  IF ev.type = "run_started" THEN view
  ELSE LET r == MapEvent(view.mapper, ev)
           sent == Carried(view.sent, ev)
           seen == FoldOver(Sees, view.client, r.out)
           misnamed == \E n \in DOMAIN r.out : /\ r.out[n].type = "call_start"
                                               /\ ~r.out[n].named
                                               /\ r.out[n].id \in sent.named
       IN [mapper |-> r.m, sent |-> sent, client |-> [seen EXCEPT !.legal = @ /\ ~misnamed]]

\* The channel closed: next_frame runs EventMapper::finish once.
Closed(view) ==
  LET r == Finished(view.mapper)
  IN [view EXCEPT !.mapper = r.m,
                  !.client = [FoldOver(Sees, @, r.out) EXCEPT !.closed = TRUE]]

Ev(type) == [type |-> type]
Yield(events) == ui' = FoldOver(Consume, ui, events)

-----------------------------------------------------------------------------
(* The sub-agents.                                                          *)

Idle == [state |-> "idle", slot |-> FALSE, escalated |-> FALSE, left |-> 0]

\* What a sub-agent may emit next.  A tool call is announced by deltas, which carry
\* its name or a piece of its arguments in any order, or by its item alone; its
\* output comes last.
Body(i) ==
  LET types == BodiesOf[kind]
      texts == [type : types \cap {"token"}, text : BOOLEAN]
               \cup [type : types \cap {"reasoning", "message"}, text : {TRUE}]
      plain == [type : types \cap {"turn", "handoff"}]
      deltas == {[type |-> "delta", id |-> id, named |-> named,
                  args |-> IF named THEN <<>> ELSE <<Len(ui.sent.args[id]) + 1>>] :
                   id \in {c \in CallsOf[kind][i] : calls[c] \in {"new", "streaming"}},
                   named \in BOOLEAN}
      items == {[type |-> "item", id |-> id, whole |-> calls[id] = "new", args |-> <<0>>] :
                  id \in {c \in CallsOf[kind][i] : calls[c] \in {"new", "streaming"}}}
      outputs == [type : {"output"}, id : {c \in CallsOf[kind][i] : calls[c] = "called"}]
  IN texts \cup plain \cup deltas \cup items \cup outputs

CallsAfter(ev) ==
  CASE ev.type = "delta" -> [calls EXCEPT ![ev.id] = "streaming"]
    [] ev.type = "item" -> [calls EXCEPT ![ev.id] = "called"]
    [] ev.type = "output" -> [calls EXCEPT ![ev.id] = "answered"]
    [] OTHER -> calls

Polled(i) == pc = "draining" /\ child[i].state = "running"

\* The stream of sub-agent i yields ev, an event of Body(i).
Says(i, ev) ==
  /\ Polled(i) /\ child[i].left > 0
  /\ child' = [child EXCEPT ![i].left = @ - 1]
  /\ calls' = CallsAfter(ev)

Completes(i) == Polled(i) /\ child' = [child EXCEPT ![i].state = "completed"]

\* RunFailed, with the error recorded already or only before the stream ends.
Fails(i) ==
  /\ Polled(i)
  /\ \E slot \in BOOLEAN : child' = [child EXCEPT ![i].state = "failed", ![i].slot = slot]

\* The stream of sub-agent i is at its end; by now its slot tells the verdict.
Ends(i) ==
  /\ pc = "draining" /\ child[i].state \in {"completed", "failed"}
  /\ child' = [child EXCEPT ![i].state = "ended", ![i].slot = child[i].state = "failed"]

\* A tool of the sub-agent raises its ActionsHandle.
Escalates(i) ==
  /\ kind = "loop" /\ Polled(i) /\ ~child[i].escalated
  /\ child' = [child EXCEPT ![i].escalated = TRUE]
  /\ UNCHANGED <<configVars, pc, cur, iteration, graphVars, failed, hops, total, store,
                 status, failure, ui, calls>>

Running == {i \in Agents : child[i].state \in {"running", "completed", "failed"}}
Dropped == [i \in Agents |-> IF i \in Running THEN [child[i] EXCEPT !.state = "dropped"]
                             ELSE child[i]]

-----------------------------------------------------------------------------
(* Start and end of the workflow's own stream.                              *)

Init ==
  /\ kind \in Kinds /\ too_deep \in BOOLEAN
  /\ keys \in IF kind = "parallel" THEN {k \in [Agents -> Agents] : \A i \in Agents : k[i] <= i}
                                   ELSE {[i \in Agents |-> i]}
  /\ edges \in IF kind = "graph" THEN SUBSET CandidateEdges ELSE {{}}
  /\ kind = "graph" => Builds(Graph)
  /\ pc = "new" /\ cur = 1 /\ iteration = 1
  /\ child = [i \in Agents |-> Idle]
  /\ ready = {} /\ indegree = [i \in Agents |-> 0] /\ skipped = {}
  /\ failed = {} /\ hops = 0 /\ total = 0 /\ store = {}
  /\ status = "fresh" /\ failure = FALSE
  /\ ui = [mapper |-> NewMapper, client |-> NewClient,
           sent |-> [args |-> [id \in CallIds |-> <<>>], named |-> {}]]
  /\ calls = [id \in CallIds |-> "new"]

\* RunStarted, then the depth check.
Begin ==
  /\ pc = "new" /\ status' = "streaming" /\ Yield(<<Ev("run_started")>>)
  /\ pc' = CASE too_deep -> "failing"
             [] kind = "loop" /\ MaxIterations = 0 -> "failing"
             [] OTHER -> "launching"
  /\ indegree' = [i \in Agents |-> Cardinality(Preds(i))]
  /\ ready' = IF kind = "graph" THEN {i \in Agents : Preds(i) = {}} ELSE {}
  /\ UNCHANGED <<configVars, cur, iteration, child, skipped, failed, hops, total, store,
                 failure, calls>>

\* The error is recorded in the slot, then RunFailed is yielded; streams still
\* running are dropped with the generator.
GiveUp ==
  /\ failure' = TRUE /\ status' = "failed" /\ pc' = "over"

FailRun ==
  /\ pc = "failing" /\ GiveUp /\ Yield(<<Ev("failed")>>)
  /\ UNCHANGED <<configVars, cur, iteration, child, graphVars, failed, hops, total, store,
                 calls>>

\* ParallelAgent and GraphAgent synthesize a message before RunCompleted.
CompleteRun ==
  /\ pc = "completing" /\ status' = "completed" /\ pc' = "over"
  /\ Yield(IF kind \in {"parallel", "graph"}
           THEN <<[type |-> "message", text |-> TRUE], Ev("completed")>>
           ELSE <<Ev("completed")>>)
  /\ UNCHANGED <<configVars, cur, iteration, child, graphVars, failed, hops, total, store,
                 failure, calls>>

EndRun ==
  /\ pc = "over" /\ status \in {"completed", "failed"}
  /\ status' = "ended" /\ ui' = Closed(ui)
  /\ UNCHANGED <<configVars, pc, cur, iteration, child, graphVars, failed, hops, total,
                 store, failure, calls>>

\* The task that drives the run dies; the response stream only sees its channel
\* close.
DriverDies ==
  /\ status \notin {"ended", "dropped"}
  /\ status' = "dropped" /\ pc' = "over" /\ child' = Dropped /\ ui' = Closed(ui)
  /\ UNCHANGED <<configVars, cur, iteration, graphVars, failed, hops, total, store, failure,
                 calls>>

Launched(i) ==
  [child EXCEPT ![i] = [state |-> "running", slot |-> FALSE, escalated |-> FALSE,
                        left |-> MaxEvents[kind]]]

-----------------------------------------------------------------------------
(* SequentialAgent and LoopAgent: one sub-agent at a time.                  *)

Serial == kind \in {"sequential", "loop"}

SerialLaunch ==
  /\ Serial /\ pc = "launching"
  /\ child' = Launched(cur) /\ pc' = "draining" /\ Yield(<<Ev("agent_updated")>>)
  /\ UNCHANGED <<configVars, cur, iteration, graphVars, failed, hops, total, store, status,
                 failure, calls>>

\* Agent::run of the sub-agent, or of the swarm's entry, returns an error.
LaunchFails ==
  /\ (Serial \/ kind = "swarm") /\ pc = "launching" /\ GiveUp
  /\ failed' = failed \cup {cur} /\ Yield(<<Ev("agent_updated"), Ev("failed")>>)
  /\ UNCHANGED <<configVars, cur, iteration, child, graphVars, hops, total, store, calls>>

SerialSays(i) ==
  /\ Serial /\ \E ev \in Body(i) : Says(i, ev) /\ Yield(<<ev>>)
  /\ UNCHANGED <<configVars, pc, cur, iteration, graphVars, failed, hops, total, store,
                 status, failure>>

SerialCompletes(i) ==
  /\ Serial /\ Completes(i) /\ total' = total + 1
  /\ UNCHANGED <<configVars, pc, cur, iteration, graphVars, failed, hops, store, status,
                 failure, ui, calls>>

\* A sub-agent's RunFailed is forwarded at once.
SerialFails(i) ==
  /\ Serial /\ Fails(i)
  /\ failed' = failed \cup {i} /\ status' = "failed" /\ Yield(<<Ev("failed")>>)
  /\ UNCHANGED <<configVars, pc, cur, iteration, graphVars, hops, total, store, failure,
                 calls>>

\* A mutant: the error stays in the sub-agent's slot.
SerialEndsFailed_KeepsError(i) ==
  /\ Serial /\ i \in failed /\ Ends(i)
  /\ status' = "ended" /\ pc' = "over" /\ ui' = Closed(ui)
  /\ UNCHANGED <<configVars, cur, iteration, graphVars, failed, hops, total, store, failure,
                 calls>>
\* A failed sub-agent's error moves to the workflow's slot before the stream ends.
SerialEndsFailed(i) ==
  /\ Serial /\ i \in failed /\ Ends(i)
  /\ failure' = child'[i].slot
  /\ status' = "ended" /\ pc' = "over" /\ ui' = Closed(ui)
  /\ UNCHANGED <<configVars, cur, iteration, graphVars, failed, hops, total, store, calls>>

AfterStep(escalated, last) ==
  CASE escalated \/ (last /\ kind = "sequential") -> "completing"
    [] ~escalated /\ (~last \/ (kind = "loop" /\ iteration < MaxIterations)) -> "launching"
    [] OTHER -> "failing"

\* Its key is written; then the next step, the next iteration, or the end.
SerialEnds(i) ==
  LET escalated == kind = "loop" /\ child[i].escalated
      last == i = AgentsOf[kind]
  IN /\ Serial /\ i \notin failed /\ Ends(i)
     /\ store' = store \cup {keys[i]}
     /\ pc' = AfterStep(escalated, last)
     /\ cur' = IF last THEN 1 ELSE i + 1
     /\ iteration' = IF last /\ ~escalated THEN iteration + 1 ELSE iteration
     /\ UNCHANGED <<configVars, graphVars, failed, hops, total, status, failure, ui, calls>>

-----------------------------------------------------------------------------
(* ParallelAgent: all branches at once, failures collected.                 *)

\* A key used before ends the run; so does a branch that does not start.
DuplicateKey(i) == \E j \in 1 .. i - 1 : keys[j] = keys[i]

ParallelLaunch ==
  /\ kind = "parallel" /\ pc = "launching" /\ ~DuplicateKey(cur)
  /\ child' = Launched(cur) /\ cur' = cur + 1
  /\ pc' = IF cur = AgentsOf[kind] THEN "draining" ELSE "launching"
  /\ Yield(<<Ev("agent_updated")>>)
  /\ UNCHANGED <<configVars, iteration, graphVars, failed, hops, total, store, status,
                 failure, calls>>

ParallelRefused ==
  /\ kind = "parallel" /\ pc = "launching" /\ GiveUp /\ child' = Dropped
  /\ \/ DuplicateKey(cur) /\ Yield(<<Ev("failed")>>) /\ UNCHANGED failed
     \/ /\ ~DuplicateKey(cur) /\ failed' = failed \cup {cur}
        /\ Yield(<<Ev("agent_updated"), Ev("failed")>>)
  /\ UNCHANGED <<configVars, cur, iteration, graphVars, hops, total, store, calls>>

Merging == kind \in {"parallel", "graph"}

MergeSays(i) ==
  /\ Merging /\ Polled(i) /\ child[i].left > 0
  /\ \E ev \in Body(i) : Says(i, ev) /\ Yield(<<ev>>)
  /\ UNCHANGED <<configVars, pc, cur, iteration, graphVars, failed, hops, total, store,
                 status, failure>>

ParallelCompletes(i) ==
  /\ kind = "parallel" /\ Completes(i)
  /\ total' = total + 1 /\ store' = store \cup {keys[i]}
  /\ UNCHANGED <<configVars, pc, cur, iteration, graphVars, failed, hops, status, failure,
                 ui, calls>>

\* A branch's RunFailed is swallowed; its siblings run on.
ParallelFails(i) ==
  /\ kind = "parallel" /\ Fails(i) /\ failed' = failed \cup {i}
  /\ UNCHANGED <<configVars, pc, cur, iteration, graphVars, hops, total, store, status,
                 failure, ui, calls>>

MergeEnds(i) ==
  /\ Merging /\ Ends(i)
  /\ UNCHANGED <<configVars, pc, cur, iteration, graphVars, failed, hops, total, store,
                 status, failure, ui, calls>>

\* Every stream is exhausted.
Merged ==
  /\ Merging /\ pc = "draining" /\ Running = {}
  /\ pc' = IF failed = {} THEN "completing" ELSE "failing"
  /\ UNCHANGED <<configVars, cur, iteration, child, graphVars, failed, hops, total, store,
                 status, failure, ui, calls>>

-----------------------------------------------------------------------------
(* GraphAgent: a node starts when all its predecessors have completed.      *)

\* mark_skipped: everything downstream that is not marked yet.
MarkSkipped(stack, marked) ==
  LET mark[s \in SUBSET Agents, m \in SUBSET Agents] ==
        IF s = {} THEN m
        ELSE LET k == CHOOSE k \in s : TRUE
                 found == Succs(k) \ m
             IN mark[(s \ {k}) \cup found, m \cup found]
  IN mark[stack, marked]

\* The ready nodes are all launched before any stream is polled again; the order
\* of the builder's edges, and so of the queue, is left open.
GraphLaunch ==
  /\ kind = "graph" /\ pc = "launching"
  /\ \E i \in ready :
       /\ ready' = ready \ {i} /\ Yield(<<Ev("agent_updated")>>)
       /\ \/ child' = Launched(i) /\ UNCHANGED <<failed, skipped>>
          \/ /\ failed' = failed \cup {i} /\ skipped' = MarkSkipped({i}, skipped)
             /\ child' = [child EXCEPT ![i].state = "refused", ![i].slot = TRUE]
       /\ pc' = IF ready' = {} THEN "draining" ELSE "launching"
  /\ UNCHANGED <<configVars, cur, iteration, indegree, hops, total, store, status, failure,
                 calls>>

\* A mutant: a node starts with its first finished predecessor.
GraphCompletes_Eager(i) ==
  LET freed == {j \in Succs(i) : j \notin skipped}
  IN /\ kind = "graph" /\ Completes(i)
     /\ total' = total + 1 /\ store' = store \cup {keys[i]}
     /\ indegree' = Settle(indegree, i, Graph)
     /\ ready' = freed /\ pc' = IF freed = {} THEN "draining" ELSE "launching"
     /\ UNCHANGED <<configVars, cur, iteration, skipped, failed, hops, status, failure, ui,
                    calls>>
GraphCompletes(i) ==
  LET freed == {j \in Succs(i) : indegree'[j] = 0 /\ j \notin skipped}
  IN /\ kind = "graph" /\ Completes(i)
     /\ total' = total + 1 /\ store' = store \cup {keys[i]}
     /\ indegree' = Settle(indegree, i, Graph)
     /\ ready' = freed /\ pc' = IF freed = {} THEN "draining" ELSE "launching"
     /\ UNCHANGED <<configVars, cur, iteration, skipped, failed, hops, status, failure, ui,
                    calls>>

GraphFails(i) ==
  /\ kind = "graph" /\ Fails(i)
  /\ failed' = failed \cup {i} /\ skipped' = MarkSkipped({i}, skipped)
  /\ UNCHANGED <<configVars, pc, cur, iteration, ready, indegree, hops, total, store, status,
                 failure, ui, calls>>

-----------------------------------------------------------------------------
(* SwarmAgent: one entry agent whose handoffs are counted.                  *)

SwarmLaunch ==
  /\ kind = "swarm" /\ pc = "launching"
  /\ child' = Launched(cur) /\ pc' = "draining" /\ Yield(<<Ev("agent_updated")>>)
  /\ UNCHANGED <<configVars, cur, iteration, graphVars, failed, hops, total, store, status,
                 failure, calls>>

SwarmSays(i) ==
  /\ kind = "swarm"
  /\ \E ev \in Body(i) :
       /\ Says(i, ev) /\ hops' = IF ev.type = "handoff" THEN hops + 1 ELSE hops
       /\ hops' <= MaxHandoffs /\ Yield(<<ev>>)
  /\ UNCHANGED <<configVars, pc, cur, iteration, graphVars, failed, total, store, status,
                 failure>>

\* The handoff over the limit is not forwarded; the entry's stream is dropped.
SwarmOverLimit(i) ==
  /\ kind = "swarm" /\ Polled(i) /\ child[i].left > 0 /\ Ev("handoff") \in Body(i)
  /\ hops = MaxHandoffs /\ hops' = hops + 1
  /\ child' = Dropped /\ GiveUp /\ Yield(<<Ev("failed")>>)
  /\ UNCHANGED <<configVars, cur, iteration, graphVars, failed, total, store, calls>>

\* Both terminal events are forwarded; the entry's usage is the swarm's.
SwarmCompletes(i) ==
  /\ kind = "swarm" /\ Completes(i) /\ total' = total + 1
  /\ status' = "completed" /\ Yield(<<Ev("completed")>>)
  /\ UNCHANGED <<configVars, pc, cur, iteration, graphVars, failed, hops, store, failure,
                 calls>>

SwarmFails(i) ==
  /\ kind = "swarm" /\ Fails(i) /\ failed' = failed \cup {i}
  /\ status' = "failed" /\ Yield(<<Ev("failed")>>)
  /\ UNCHANGED <<configVars, pc, cur, iteration, graphVars, hops, total, store, failure,
                 calls>>

SwarmEnds(i) ==
  /\ kind = "swarm" /\ Ends(i)
  /\ failure' = child'[i].slot /\ status' = "ended" /\ pc' = "over" /\ ui' = Closed(ui)
  /\ UNCHANGED <<configVars, cur, iteration, graphVars, failed, hops, total, store, calls>>

-----------------------------------------------------------------------------
Over == status \in {"ended", "dropped"} /\ UNCHANGED vars

RunStep ==
  \/ Begin \/ FailRun \/ CompleteRun \/ EndRun \/ SerialLaunch \/ LaunchFails
  \/ ParallelLaunch \/ ParallelRefused \/ Merged \/ GraphLaunch \/ SwarmLaunch
  \/ \E i \in Agents :
       \/ Escalates(i)
       \/ SerialSays(i) \/ SerialCompletes(i) \/ SerialFails(i) \/ SerialEndsFailed(i)
       \/ SerialEnds(i)
       \/ MergeSays(i) \/ ParallelCompletes(i) \/ ParallelFails(i) \/ MergeEnds(i)
       \/ GraphCompletes(i) \/ GraphFails(i)
       \/ SwarmSays(i) \/ SwarmOverLimit(i) \/ SwarmCompletes(i) \/ SwarmFails(i)
       \/ SwarmEnds(i)

Next == RunStep \/ DriverDies \/ Over

Spec == Init /\ [][Next]_vars

-----------------------------------------------------------------------------
(* Properties.                                                              *)

Agent == INSTANCE AgentContract

\* A workflow keeps the contract it relies on for its sub-agents, so workflows nest
\* to any depth: one terminal event, last; an error in the slot by the end exactly
\* if it failed, though a sub-agent's RunFailed is forwarded before the error is
\* moved over (workflow.rs 184-213, 394-410; graph.rs 321-343; swarm.rs 305-342).
\* That the stream has an end is the absence of deadlock: every step uses up a
\* sub-agent, one of its events or an iteration, and only Over repeats.
ImplementsAgent == Agent!Safety

Succeeded(i) == child[i].state = "ended" /\ ~child[i].slot

FailureExplained ==
  \/ too_deep \/ failed # {}
  \/ kind = "parallel" /\ DuplicateKey(cur)
  \/ /\ kind = "loop" /\ total = MaxIterations * AgentsOf[kind]
     /\ \A i \in Agents : ~child[i].escalated
  \/ kind = "swarm" /\ hops > MaxHandoffs

CompletionExplained ==
  /\ failed = {} /\ ~too_deep
  /\ kind # "loop" => (\A i \in Agents : Succeeded(i)) /\ total = AgentsOf[kind]
  /\ kind = "loop" => \E i \in Agents : /\ Succeeded(i) /\ child[i].escalated
                                        /\ total = (iteration - 1) * AgentsOf[kind] + i

\* A workflow completes only when all it was to run has completed, reporting the
\* usage of all of it, and fails only for a cause (workflow.rs, graph.rs, swarm.rs).
OutcomeExplained ==
  status = "ended" => IF failure THEN FailureExplained ELSE CompletionExplained

\* A node runs only after all its predecessors completed, and so none of its
\* ancestors failed (graph.rs 239-319).
AfterPredecessors ==
  kind = "graph" /\ status # "dropped" =>
    \A i \in Agents : child[i].state # "idle" =>
      \A j \in Preds(i) : child[j].state \in {"completed", "ended"} /\ ~child[j].slot

\* When a failed graph ends, the nodes that never started are exactly the ones
\* reported as skipped (graph.rs 306-316, mark_skipped).
SkippedReported ==
  kind = "graph" /\ status = "ended" /\ ~too_deep =>
    skipped = {i \in Agents : child[i].state = "idle"}

\* The outcome of a workflow accounts for every agent in it: those that ran, in the
\* order they had to, and those that never did.
AgentsAccounted == OutcomeExplained /\ AfterPredecessors /\ SkippedReported

\* An AG-UI client sees one span at a time, every span closed before the terminal
\* frame and by the end of the stream even if the run dies, no frame after the
\* terminal one, and a call's name whenever an event had carried it (agui/map.rs
\* 18-28), however the events of parallel branches interleave.
ClientSpans ==
  /\ ui.client.legal
  /\ ui.client.closed => ui.client.span = NoCall /\ ~ui.client.step

\* What a client has of a call's arguments is always a prefix of what the events
\* carried, and all of it once the run is over (agui/map.rs 23-28, 1620-1626).
ArgsReachClient ==
  \A id \in CallIds :
    /\ Len(ui.client.args[id]) <= Len(ui.sent.args[id])
    /\ SubSeq(ui.sent.args[id], 1, Len(ui.client.args[id])) = ui.client.args[id]
    /\ ui.client.terminal \/ ui.client.closed => ui.client.args[id] = ui.sent.args[id]

\* The client's picture of the run: well-formed spans and whole arguments
\* (agui/map.rs 18-28).
ClientView == ClientSpans /\ ArgsReachClient
=============================================================================
