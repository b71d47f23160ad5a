---------------------------- MODULE MCAgentLoop -----------------------------
(* A chain of at most two agents, two turns each, up to three tool calls a   *)
(* turn; the models may call a tool on any turn, also on the constrained one. *)
EXTENDS AgentLoop

\* Whether it has tools tells an agent apart only if it has a structured output.
MCProfiles == {p \in [output : BOOLEAN, tools : BOOLEAN, handoffs : BOOLEAN] : p.output \/ p.tools}

Reply(text, calls) == [text |-> text, calls |-> calls]

MCReplies == {Reply("valid", <<>>), Reply("none", <<>>), Reply("none", <<"tool">>),
              Reply("prose", <<"tool", "tool", "tool">>), Reply("prose", <<"tool", "transfer">>)}
=============================================================================
