SPECIFICATION CSpec
CONSTANTS
    Instances = {i1}
    Keys = {k1}
    MaxInc = 2
    MaxSeq = 3
    MaxCrashes = 0
    MayLose = TRUE
    MayLeave = TRUE
    LeaveUnheard = FALSE
    HasCheckpoint = FALSE
    None = None
    i1 = i1
    k1 = k1
 
INVARIANT PlacementIsFenceable
CHECK_DEADLOCK FALSE
