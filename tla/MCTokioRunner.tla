--------------------------- MODULE MCTokioRunner ----------------------------
(* A chain of at most two agents, two turns each, with two tool calls on a   *)
(* turn; the agents may ask for a structured output.                         *)
EXTENDS TokioRunner

MCProfiles == [output : BOOLEAN, tools : {TRUE}, handoffs : {TRUE}]

Reply(text, calls) == [text |-> text, calls |-> calls]

MCReplies == {Reply("valid", <<>>), Reply("none", <<"tool", "tool">>),
              Reply("prose", <<"transfer">>)}
=============================================================================
