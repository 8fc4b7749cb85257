------------------------------ MODULE MCPgStore ------------------------------
(* Small instances of the PostgreSQL store for TLC.                          *)
EXTENDS PgStore, TLC

CONSTANTS j1, k1, r1, r2, s1, s2, s3

Policy(retries, limit) ==
  [retries |-> retries, concurrency_limit |-> limit, cpu_cores |-> 1,
   compute_class |-> None, rate_limit |-> None]

OneRetry == {Policy(1, None)}

NoOverlap == {Policy(0, 1)}

OneStartPerWindow ==
  {[retries |-> 1, concurrency_limit |-> None, cpu_cores |-> 1, compute_class |-> None,
    rate_limit |-> [limit |-> 1, pool |-> None]]}

OneSlot == [r \in Runners |-> [compute_class |-> None, cpu_cores |-> 2,
                               max_concurrent_leases |-> 1]]

PgSymmetry == Permutations(Runners) \cup Permutations(Sessions)

===============================================================================
