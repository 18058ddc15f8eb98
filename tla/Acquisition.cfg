SPECIFICATION Spec
CONSTANTS
  Runners = {r1, r2}
  old = old
  a1 = a1
  b1 = b1
  a2 = a2
  b2 = b2
  Legacy = {old}
  Rest1 <- MCRest1
  Rest2 <- MCRest2
  Answer <- MCAnswer
  MaxFree = 2
  MaxFaults = 1
SYMMETRY Symmetry
CHECK_DEADLOCK FALSE
INVARIANTS
  RequestsAreGoverned
  OutcomesAreEarned
