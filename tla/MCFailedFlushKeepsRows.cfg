SPECIFICATION SinkSpec
CONSTANTS
    Callers = {c1, c2}
    Recs = {1, 2, 3}
    Parts = {1, 2}
    OutcomePart = 2
    PartOf <- MCPartOf
    BlobOf <- MCBlobOf
    TargetRows = 2
    MaxStoreErrors = 1
    MaxCrashes = 0
INVARIANT FailedFlushKeepsRows
CHECK_DEADLOCK FALSE
