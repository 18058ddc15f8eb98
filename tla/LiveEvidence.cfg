SPECIFICATION Spec
CONSTANTS
  p1 = p1
  p2 = p2
  Workers = {w1, w2}
  Series <- MCSeries
  Base <- MCBase
  Length <- MCLength
  Legacy <- MCLegacy
  Providers = {p1, p2}
  Contents = {"A", "B"}
  RefKinds <- MCRefKinds
  Mirrored <- MCMirrored
  Offers <- MCOffers
  Lookback = 1
  Research = {r1}
  Holdout = 2
  MaxTime = 2
  MaxBack = 1
  Budget = 4
SYMMETRY Symmetry
CHECK_DEADLOCK FALSE
INVARIANTS
  LedgerIsFaithful
  SnapshotsReplay
  LocksSuffice
