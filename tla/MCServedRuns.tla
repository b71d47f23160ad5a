---------------------------- MODULE MCServedRuns ----------------------------
(* The instance of ServedRuns that TLC checks: three messages and one crash; a   *)
(* run of two turns and one handoff, with two tool calls in a turn.            *)
EXTENDS ServedRuns

MCProfiles == [output : BOOLEAN, tools : {TRUE}, handoffs : {TRUE}]

Reply(text, calls) == [text |-> text, calls |-> calls]

MCReplies == {Reply("valid", <<>>), Reply("none", <<"tool", "tool">>),
              Reply("prose", <<"transfer">>)}
=============================================================================
