SPECIFICATION FairSpec
CONSTANTS
  s1 = s1
  s2 = s2
  h1 = h1
  h2 = h2
  None = None
  LeaseNames = {"scheduler"}
  Holders = {h1, h2}
  Schedulers = {s1, s2}
  HolderIds <- MCHolderIds
  Jobs = {j1}
  Schedules <- MCSchedules
  Calendar <- MCCalendar
  SearchWindow = 4
  LeaderTtl = 3
  MaxTime = 2
  MaxExits = 1
INVARIANTS TypeOK LeadersExclude NoFireTimeSkipped OldScheduleEnds IntervalKeepsPhase TickLeavesNothingDue
PROPERTIES DueIsMaterialized
