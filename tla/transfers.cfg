SPECIFICATION FairSpec
CONSTANTS
  Kinds = {"pix", "ted", "bill"}
  Reader = {"r1", "r2"}
  MaxFaults = 1
  NoRow = NoRow
  NoTx = NoTx
INVARIANTS TypeOK RowWasTrue DoneWasExecuted CodedPaymentsHaveTransaction
PROPERTIES RepeatedReadsCatchUp
CHECK_DEADLOCK FALSE
