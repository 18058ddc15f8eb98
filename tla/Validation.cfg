SPECIFICATION Spec
CONSTANTS
    Procs = {a, b}
    Strategies = {"pullback", "range"}
    BLOCKED = {"range"}
    OVERLAYS <- McOverlays
    Pairs <- McPairs
    Scenarios = {"baseline", "extra_interval_latency"}
    DayLength = 3
    EndDay = 2
    WeekLength = 4
    HalfAt = 4
    Market <- McMarket
    MonthLength = 3
    LowerTail = 2
    Currencies <- McCurrencies
    Registered <- McRegistered
    Daily <- McDaily
    SPEEDS = {"f", "s"}
    HORIZONS = {"h"}
    SealedFrom = 5
    DailyScenarios = {"baseline", "extra_interval_latency"}
    Requests <- McRequests
    Period <- McPeriod
    Contents = {1, 2}
    Acquired <- McAcquired
    Batches <- McBatches
    BatchDays = 2
    Limit = 2
    Mine = {"pullback"}
    MaxFiles = 1
    Faults = 1
SYMMETRY Symmetry
CHECK_DEADLOCK FALSE
INVARIANTS
  PublishedIsReplayed
  CompletedReconciles
  RefusalsAreExplained
