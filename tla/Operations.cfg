SPECIFICATION OperationsSpec
CONSTANTS
  Recommendations = {k1, k2}
  Interpretations = {i1}
  Runs = {r1, r2}
  Estimate = 2
  Costs = {1, 3}
  MaxRunCost = 2
  DailyCap = 2
  MonthlyCap = 3
  MaxDay = 3
  DaysPerMonth = 2
  everySlot = everySlot
  latestOnly = latestOnly
  neverLate = neverLate
  IntervalJobs = {everySlot, neverLate}
  DailyJobs = {latestOnly}
  Interval = 2
  DayLength = 3
  LocalTime = 1
  ChangeDay = 2
  OffsetShift = 1
  Policy <- MCPolicy
  MaxCatchup = 2
  MaxTime = 11
  MaxRewinds = 1
SYMMETRY RunSymmetry
CHECK_DEADLOCK FALSE
INVARIANTS
  ProviderCalledOnce
  AuthorisedWithinCaps
  PassedSlotsAreCovered
  LatestCountsAreExact
