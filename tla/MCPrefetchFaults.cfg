CONSTANTS
  r1 = r1
  r2 = r2
  b1 = b1
  b2 = b2
  None = None
  MaxRows = 2
  MaxChunks = 3
  WindowSizes = {0, 1, 2}
  Sizes = {1}
  Requests = {r1, r2}
  Bufs = {b1, b2}
  Keys <- OneKey
  Window = 0
  Chunks = 1
  Adapters = {0}
  Initial = {0}
  Removable = {0}
  Inflight = 2
  Retained = FALSE
  Locking = TRUE
  MayRaise = TRUE
  MayFail = TRUE
  MayExpire = TRUE
  MayStop = TRUE
  MaxLocks = 2
  Tags = {r1, r2}
SPECIFICATION FairPSpec
INVARIANTS NothingLeaksInL1
PROPERTIES RequestIsAnswered DrainingEnds
CHECK_DEADLOCK FALSE
