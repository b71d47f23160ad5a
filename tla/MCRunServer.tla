---------------------------- MODULE MCRunServer -----------------------------
(* RunServer with two requests on one session and an anonymous one, one      *)
(* slot and one retained run.                                               *)
EXTENDS RunServer

CONSTANTS r1, r2, r3, k1

MCRuns == {r1, r2, r3}
MCKeys == {k1}
MCKey == [r \in MCRuns |-> IF r = r3 THEN Anonymous ELSE k1]
=============================================================================
