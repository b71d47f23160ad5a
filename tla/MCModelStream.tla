--------------------------- MODULE MCModelStream ---------------------------
(* The instance of ModelStream that TLC checks.                            *)
EXTENDS ModelStream

CONSTANTS call_a, call_b, name_x, name_y, fc0, fc1

MCMaxChunks == [openai_chat |-> 3, litellm |-> 3, responses |-> 5,
                anthropic |-> 5, bedrock |-> 5, gemini |-> 4]

MCFnIds == <<fc0, fc1>>

Symmetry == Permutations({call_a, call_b}) \union Permutations({name_x, name_y})
=============================================================================
