CONSTANTS
  r1 = r1
  r2 = r2
  b1 = b1
  b2 = b2
  b3 = b3
  b4 = b4
  None = None
  Sizes = {1}
  Requests = {r1, r2}
  Bufs = {b1, b2, b3, b4}
  Keys <- TwoKeys
  Window = 0
  Chunks = 2
  Adapters = {0, 1}
  Initial = {1}
  Removable = {}
  Inflight = 4
  Retained = FALSE
  Locking = TRUE
  MayRaise = FALSE
  MayFail = FALSE
  MayExpire = FALSE
  MayStop = FALSE
  MaxLocks = 2
  Tags = {r1, r2}
  MaxRows = 2
  MaxChunks = 3
  WindowSizes = {0, 1, 2}
SYMMETRY Perms
SPECIFICATION PSpec
INVARIANTS  PlanIsSound L2LocksAreRecorded LoadBufferIsValid HitsAreLocked
