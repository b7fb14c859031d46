CONSTANTS
  Clients = {c1, c2}
  Incarnations = {1, 2}
  Keys = {k1}
  Shapes = {s1}
  Length <- OneUnit
  Capacity = 2
  Tokens = {t1, t2}
  MaxCompleted = 2
  MaxBatch = 2
  None = None
  Procs = {p1, p2}
  Torn = Torn
  WindowSize = 6
  MaxCalls = 4
  MaxRestarts = 1
  MaxEpoch = 2
  MaxReaders = 1
  WriteBatches <- SingleWrites
  ReadBatches <- SingleReads
  LateAttempts = FALSE
SPECIFICATION OSpec
SYMMETRY Symmetry
INVARIANTS WriterIsAlone AckedIsValid TokensMatchObjects RunsOnce
CHECK_DEADLOCK FALSE
