SPECIFICATION Spec
CONSTANTS
  j1 = j1
  j2 = j2
  r1 = r1
  r2 = r2
  k1 = k1
  None = None
  Jobs = {j1}
  Runners = {r1, r2}
  Keys = {}
  MaxRuns = 2
  MaxAttempts = 4
  JobSpecs <- OneRetry
  RunnerSpec <- OneSlot
  LeaseTtl = 1
  HeartbeatTimeout = 1
  KeyRetention = 1
  HoldDelay = 1
  WindowTicks = 0
  Delays = {0}
  Backoffs = {1}
  DegradedAfter = 2
SYMMETRY RunnerSymmetry
INVARIANTS
  TypeOK
  AttemptsNumbered
  RunningHasOneAttempt
  LeaseIffRunning
  SuccessIsFinal
  OutcomeFromLatest
  CancelBeatsCompletion
PROPERTIES
  FinalIsForever
  RunsFollowLifecycle
