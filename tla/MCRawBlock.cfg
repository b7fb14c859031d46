CONSTANTS
    k1 = k1
    k2 = k2
    c1 = c1
    None = None
    Keys = {k1, k2}
    Clients = {c1}
    MaxSlots = 2
    BatchSize = 2
    Engines = {"posix", "io_uring"}
    MaxChanges = 4
    MaxCrashes = 1
    MaxFailures = 1
SPECIFICATION Spec
SYMMETRY Symmetry
INVARIANTS SlotPartition LoadReadsOwn IndexedIsIntact  OneExtraInterval
CHECK_DEADLOCK FALSE
