SPECIFICATION FairCSpec
CONSTANTS
    Instances = {i1}
    Keys = {k1}
    MaxInc = 1
    MaxSeq = 2
    MaxCrashes = 1
    MayLose = FALSE
    MayLeave = TRUE
    LeaveUnheard = FALSE
    HasCheckpoint = TRUE
    None = None
    i1 = i1
    k1 = k1
INVARIANT CheckpointIsSnapshot
INVARIANT ViewsAgree
PROPERTY RestoredIsSettled
