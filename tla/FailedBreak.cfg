SPECIFICATION Spec
CONSTANTS
    LastHour = 10
    DevStart = 4
    DevEnd = 10
    Inventories <- McInventories
    Gaps <- McGaps
    WBars <- McWBars
    Quiet <- McQuiet
    Noise = 3
    WarmH1 <- McWarmH1
    WarmW <- McWarmW
    ZoneHalf = 1
    AtrWarmup = 1
    PivotWing = 1
    BreakoutWindow = 2
    SessionLife = 1
    WeekLength = 6
    HorizonSessions = 1
    SpreadCeiling = 2
    OffSession = {8}
INVARIANTS
  DetectorsAgree
  LevelsStayInForce
  SetupsSettle
