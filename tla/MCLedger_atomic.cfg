SPECIFICATION LedgerSpec
CONSTANTS
  MaxEvents = 1
  MaxVersion = 2
  MaxKeys = 5
CHECK_DEADLOCK FALSE
INVARIANT
  RotationIsAtomic
