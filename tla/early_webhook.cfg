SPECIFICATION Spec
CONSTANTS
  Kinds = {"pix"}
  Reader = {}
  MaxFaults = 0
  NoRow = NoRow
  NoTx = NoTx
INVARIANTS PendingMeansPending
CHECK_DEADLOCK FALSE
