SPECIFICATION LedgerSpec
CONSTANTS
  MaxEvents = 3
  MaxVersion = 3
  MaxKeys = 7
CHECK_DEADLOCK FALSE
INVARIANTS
  LedgerTypeOK
  ChainVerifies
  CheckpointsPin
  UncutRotationsVerify
