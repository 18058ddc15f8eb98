SPECIFICATION Spec
CONSTANTS
  Runners = {r1, r2}
  a2 = a2
  b2 = b2
  cross3 = cross3
  a3 = a3
  b3 = b3
  Rest2 <- MCRest2
  First3 = {cross3}
  Rest3 = {a3, b3}
  Answer <- MCAnswer
  MaxFree <- MCMaxFree
  MaxFaults = 1
SYMMETRY Symmetry
CHECK_DEADLOCK FALSE
INVARIANTS
  AttemptsAreGoverned
  OutcomesAreEarned
  ReadinessIsExact
