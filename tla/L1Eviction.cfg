CONSTANTS
  Keys = {k1, k2}
  Tags = {ta, tb}
  Bufs = {b1, b2}
  Sizes = {1, 2}
  MaxLocks = 2
  None = None
  Watermark = 1
  Target = 1
SPECIFICATION FairSpec
CHECK_DEADLOCK FALSE
INVARIANTS BufferOwnership StagingAccounting PolicyAgreesWithL1
PROPERTIES LocksProtect PressureIsRelieved
