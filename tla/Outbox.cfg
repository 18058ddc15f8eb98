SPECIFICATION OutboxFairSpec
CONSTANTS
  MaxMessages = 2
  OnCommit = {2}
  Mailers = {w1, w2}
  NoMailer = NoMailer
  MaxDeliveries = 2
  SendLease = 2
  RetryUnit = 1
  MaxDelay = 1
  MaxDeaths = 1
INVARIANTS
  AttemptsMatchMessage
  DeliveryRecordIsHonest
  DeliveryIsFenced
PROPERTIES
  RecordedOutcomesAreFinal
  EventuallySettled
