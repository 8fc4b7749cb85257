SPECIFICATION FairSystemSpec
CONSTANTS
  j1 = j1
  r1 = r1
  p1 = p1
  p2 = p2
  None = None
  Jobs = {j1}
  Runners = {r1}
  Keys = {}
  MaxRuns = 1
  MaxAttempts = 2
  JobSpecs <- OneRetry
  RunnerSpec <- MCRunnerSpec
  LeaseTtl = 1
  HeartbeatTimeout = 1
  KeyRetention = 1
  HoldDelay = 1
  WindowTicks = 0
  Delays = {0}
  Backoffs = {1}
  DegradedAfter = 2
  Procs = {p1, p2}
  RunnerOf <- MCRunnerOf
  MaxCrashes = 1
INVARIANTS SystemTypeOK FinishedHandlersAreDead OverlapOnlyAfterLoss RecordsTellTheTruth
PROPERTIES OrphansAreRecovered RunsSettle
