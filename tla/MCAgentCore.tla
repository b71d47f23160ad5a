----------------------------- MODULE MCAgentCore -----------------------------
(* Two things a runtime-agentcore server does, side by side for TLC: A2A tasks, *)
(* and small workflows of every kind read by the AG-UI stream; the parallel one *)
(* carries tool calls.  They share no state: `part` says which is explored.     *)
EXTENDS A2ATasks, Workflow, TLC

CONSTANTS a, b

VARIABLE part

MCAgentsOf == [sequential |-> 2, parallel |-> 2, loop |-> 2, graph |-> 4, swarm |-> 1]
MCMaxEvents == [sequential |-> 1, parallel |-> 3, loop |-> 0, graph |-> 0, swarm |-> 4]
MCBodiesOf ==
  [sequential |-> {"message", "turn"}, parallel |-> {"turn", "token", "reasoning", "message"},
   loop |-> {}, graph |-> {}, swarm |-> {"handoff", "message"}]
MCCallsOf ==
  [sequential |-> <<{}, {}>>, parallel |-> <<{a}, {b}>>, loop |-> <<{}, {}>>,
   graph |-> <<{}, {}, {}, {}>>, swarm |-> <<{}>>]
MCEdges == {<<1, 2>>, <<1, 3>>, <<2, 3>>, <<3, 2>>, <<2, 4>>, <<3, 4>>, <<4, 1>>}

\* The builder accepts exactly the graphs in which every set of nodes has one that
\* follows no other.
ASSUME KahnIsExact ==
  \A edge \in SUBSET ({1, 2, 3} \X {1, 2, 3}) :
    Builds([node |-> {1, 2, 3}, edge |-> edge]) <=>
      \A S \in SUBSET {1, 2, 3} \ {{}} : \E n \in S : \A m \in S : <<m, n>> \notin edge

\* Messages differ in nothing but their names.  (Task ids do: the fresh one is the
\* first that is free.)
MessageSymmetry == Permutations(Messages)

WorkflowIdle == Init /\ kind = "swarm" /\ ~too_deep

AgentCoreInit ==
  \/ part = "tasks" /\ TaskInit /\ WorkflowIdle
  \/ part = "workflow" /\ Init /\ TaskInit

\* With every message handled the server waits for requests.
AgentCoreRests ==
  part = "tasks" /\ (\A m \in Messages : at[m] \in {"done", "panicked"})

AgentCoreNext ==
  \/ part = "tasks" /\ TaskNext /\ UNCHANGED <<vars, part>>
  \/ part = "workflow" /\ Next /\ UNCHANGED <<a2aVars, part>>
  \/ AgentCoreRests /\ UNCHANGED <<a2aVars, vars, part>>

AgentCoreSpec == AgentCoreInit /\ [][AgentCoreNext]_<<a2aVars, vars, part>>
==============================================================================
