SPECIFICATION MCSpec
CONSTANTS
  Scenarios = {"pixInbound", "tedInbound", "tedRefund", "tedOutgoing", "pixOutgoing", "boleto", "bill"}
  JobId = {"k1", "k2", "k3", "k4", "k5", "k6"}
  MaxAttempts = 2
  MaxStalledCount = 1
  MaxDeliveries = 3
  MaxFaults = 1
  MaxPurges = 0
  Code <- MCCode
  Deliveries <- MCDeliveries
  Payload <- MCDeliveries
  RelatedTo <- MCRelatedTo
  QrCodeOf <- MCQrCodeOf
  IssuedRow <- MCIssuedRow
  IssuedTx <- MCIssuedTx
  Unnumbered <- MCUnnumbered
  KnownAtStart <- MCKnownAtStart
  NoPayload = NoPayload
  NoJob = NoJob
  NoCode = NoCode
  NoRow = NoRow
  NoTx = NoTx
INVARIANTS RowAtMostOneEventAhead
PROPERTIES TerminalIsFinal TransferDuplicatesAreIgnored
CHECK_DEADLOCK FALSE
