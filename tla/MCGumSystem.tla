------------------------------ MODULE MCGumSystem ------------------------------
(* GumSystem for TLC: two processes started with the same runner_id.          *)
EXTENDS GumSystem, TLC

CONSTANTS j1, r1, p1, p2

OneRetry ==
  {[retries |-> 1, concurrency_limit |-> None, cpu_cores |-> 1, compute_class |-> None,
    rate_limit |-> None]}

MCRunnerSpec == r1 :> [compute_class |-> None, cpu_cores |-> 1, max_concurrent_leases |-> 1]

MCRunnerOf == [p \in Procs |-> r1]

===============================================================================
