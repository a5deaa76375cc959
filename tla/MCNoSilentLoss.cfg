SPECIFICATION Spec
SYMMETRY ReaderSymmetry
CONSTANTS
    loop = loop
    drain = drain
    Sizes = {1, 2}
    SegmentBytes = 2
    MaxBytes = 4
    MaxAge = 0
    Readers = {loop, drain}
    BatchSize = 2
    MaxRecs = 3
    MaxTime = 2
    MaxStops = 0
    MaxWriteErrors = 0
INVARIANT NoSilentLoss
CHECK_DEADLOCK FALSE
