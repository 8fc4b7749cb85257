SPECIFICATION FairSpec
CONSTANTS
  s1 = s1
  c1 = c1
  Probers = {s1}
  Completions = {c1}
  Interval = 1
  MaxLag = 1
  DownScoreThreshold = 3
  MaxScore = 4
INVARIANTS HealthTypeOK
PROPERTIES OutageIsNoticed RecoveryIsNoticed
