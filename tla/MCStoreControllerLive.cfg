CONSTANTS
  Keys = {k1}
  Tags = {tag}
  Bufs = {b1}
  Sizes = {1}
  MaxLocks = 6
  None = None
  Adapters = {a1, a2}
  Initial = {a2}
  Removable = {a1}
  MaxTries = 2
  TaskIds = {1, 2}
  WriteTag = tag
  DeletesL1 = TRUE
  MayFail = FALSE
  MayStop = FALSE
SPECIFICATION FairSSpec
PROPERTIES WrittenReachesL2 RemovalIsAnswered
