SPECIFICATION PgSpec
CONSTANTS
  j1 = j1
  k1 = k1
  r1 = r1
  r2 = r2
  s1 = s1
  s2 = s2
  s3 = s3
  None = None
  Jobs = {j1}
  Runners = {r1, r2}
  Sessions = {s1, s2, s3}
  Keys = {k1}
  MaxRuns = 1
  MaxAttempts = 2
  JobSpecs <- OneStartPerWindow
  RunnerSpec <- OneSlot
  LeaseTtl = 1
  HeartbeatTimeout = 1
  KeyRetention = 1
  HoldDelay = 1
  WindowTicks = 1
  Delays = {0}
  Backoffs = {1}
  DegradedAfter = 2
SYMMETRY PgSymmetry
INVARIANTS
  OnlyCancelDeadlocks
