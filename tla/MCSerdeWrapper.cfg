CONSTANTS
  s1 = s1
  s2 = s2
  l1 = l1
  StoreTasks = {s1, s2}
  LoadTasks = {l1}
  ChunksOf <- Sizing
  Workloads <- Pairs
  MaxExpiries = 1
  Keys <- TempKeys
  Tags = {"serde_wrapper"}
  Bufs = {b1, b2, b3}
  Sizes = {1, 2}
  MaxLocks = 1
  None = None
SPECIFICATION FairSpec
CHECK_DEADLOCK FALSE
INVARIANTS  NoTempLeaks ReportedIsOver
PROPERTIES TasksAreAnswered
