CONSTANTS
    loop = loop
    drain = drain
    Sizes = {1, 2}
    SegmentBytes = 2
    MaxBytes = 3
    MaxAge = 0
    Readers = {loop, drain}
    BatchSize = 2
    MaxRecs = 3
    MaxTime = 2
    MaxStops = 1
    MaxWriteErrors = 1
SPECIFICATION Spec
SYMMETRY ReaderSymmetry
VIEW OneHistory
INVARIANTS
    TypeOK
    NoLossUnlessOrphaned
    SyncedSurvivesPowerLoss
    DiskBound
    BatchInOrder
    DurabilityInv
    TornWithoutWriteError
    ReadableWithoutEviction
CHECK_DEADLOCK FALSE
