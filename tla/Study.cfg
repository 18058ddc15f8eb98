SPECIFICATION Spec
CONSTANTS
    a = a
    b = b
    Procs = {a, b}
    Fragile <- McFragile
    Cohorts <- McCohorts
    DevelopmentEnd = 10
    MaxRuns = 5
    MaxFaults = 2
    DayLen = 2
    RollDays = {0, 1, 2, 3, 4}
    TripleDay = 2
    HorizonSessions = 2
SYMMETRY Symmetry
INVARIANTS
  StagesAreGoverned
  ReportsAreHonest
  ReturnsAreHonest
