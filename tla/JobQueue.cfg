SPECIFICATION FairSpec
CONSTANTS
  MaxOccurrences = 2
  Workers = {w1, w2}
  NoWorker = NoWorker
  MaxAttempts = 2
  LeaseDuration = 2
  ExecutionTimeout = 3
  BackoffUnit = 1
  MaxWait = 1
  MaxCrashes = 1
INVARIANTS
  AttemptAccounting
  OutcomeIsFenced
  CurrentAttemptAtOwner
PROPERTIES
  ImplementsLifecycle
  EventuallyTerminal
