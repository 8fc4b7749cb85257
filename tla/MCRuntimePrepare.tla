--------------------------- MODULE MCRuntimePrepare ----------------------------
(* Two processes of one machine, each with a runner_id of its own.               *)
EXTENDS RuntimePrepare, TLC

CONSTANTS d1, p1, p2, r1, r2

MCRunnerOf == (p1 :> r1) @@ (p2 :> r2)

===============================================================================
