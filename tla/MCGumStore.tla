------------------------------ MODULE MCGumStore ------------------------------
(* Small instances of the store for TLC: the values its constants take.      *)
EXTENDS GumStore, TLC

CONSTANTS j1, j2, r1, r2, k1

Policy(retries, limit, rate) ==
  [retries |-> retries, concurrency_limit |-> limit, cpu_cores |-> 1,
   compute_class |-> None, rate_limit |-> rate]

\* One policy without limits: everything that happens to runs and attempts.
OneRetry == {Policy(1, None, None)}

OneSlot == [r \in Runners |-> [compute_class |-> None, cpu_cores |-> 1,
                               max_concurrent_leases |-> 1]]

\* One runner short of leases, the other of cpus and of another class.
SlotsAndCpus ==
  [r \in Runners |-> IF r = r1
     THEN [compute_class |-> None, cpu_cores |-> 2, max_concurrent_leases |-> 1]
     ELSE [compute_class |-> "gpu", cpu_cores |-> 1, max_concurrent_leases |-> 2]]

\* Policies a redeploy may switch between: one run at a time, or a quota shared
\* by the jobs of a pool, on one class of runner.
Limited ==
  {Policy(0, 1, None),
   [Policy(0, None, [limit |-> 1, pool |-> "pool"]) EXCEPT !.compute_class = "gpu"]}

RunnerSymmetry == Permutations(Runners)

===============================================================================
