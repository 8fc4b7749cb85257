SPECIFICATION RuntimeSpec
CONSTANTS
  d1 = d1
  p1 = p1
  p2 = p2
  r1 = r1
  r2 = r2
  None = None
  Deploys = {d1}
  LeaseNames = {d1}
  Holders = {r1, r2}
  Procs = {p1, p2}
  RunnerOf <- MCRunnerOf
  LeaseTtl = 2
  InstallTimeout = 1
  LockTimeout = 1
  LockStale = 2
  MaxTime = 5
  MaxCrashes = 1
  MaxTimeouts = 1
INVARIANTS RuntimeTypeOK BuildersExclude PartialIsBuilding
