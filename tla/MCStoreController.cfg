CONSTANTS
  Keys = {k1, k2}
  Tags = {tag}
  Bufs = {b1, b2}
  Sizes = {1}
  MaxLocks = 6
  None = None
  Adapters = {a1}
  Initial = {a1}
  Removable = {}
  MaxTries = 1
  TaskIds = {1, 2, 3, 4}
  WriteTag = tag
  DeletesL1 = TRUE
  MayFail = TRUE
  MayStop = TRUE
SYMMETRY Symmetric
SPECIFICATION SSpec
  
PROPERTIES DeletedOnlyWhenStored
