SPECIFICATION MCFairSpec
CONSTANTS
  Scenarios = {"tedInbound", "pixOutgoing"}
  JobId = {"k1", "k2", "k3"}
  MaxAttempts = 2
  MaxStalledCount = 1
  MaxDeliveries = 2
  MaxFaults = 2
  MaxPurges = 0
  Code <- MCCode
  Deliveries <- MCDeliveries
  Payload <- MCDeliveries
  RelatedTo <- MCRelatedTo
  QrCodeOf <- MCQrCodeOf
  IssuedRow <- MCIssuedRow
  IssuedTx <- MCIssuedTx
  Unnumbered <- MCUnnumbered
  KnownAtStart <- MCKnownAtStart
  NoPayload = NoPayload
  NoJob = NoJob
  NoCode = NoCode
  NoRow = NoRow
  NoTx = NoTx
PROPERTIES EveryJobLeavesQueue
CHECK_DEADLOCK FALSE
