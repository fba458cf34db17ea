SPECIFICATION Spec
CONSTANTS
  Kinds = {"ted"}
  Reader = {"r1"}
  MaxFaults = 0
  NoRow = NoRow
  NoTx = NoTx
INVARIANTS DoneMeansDone
CHECK_DEADLOCK FALSE
