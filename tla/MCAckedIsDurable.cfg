SPECIFICATION Spec
CONSTANTS
    Run = run
    Main = main
    Callers = {run, main}
    Recs = {1, 2}
    Parts = {1}
    OutcomePart = 2
    PartOf <- MCPartOf
    BlobOf <- MCBlobOf
    TargetRows = 2
    MaxStoreErrors = 0
    MaxCrashes = 0
    Poison = {}
    BatchSize = 2
    MaxAttempts = 2
    MaxStops = 0
INVARIANT AckedIsDurable
CHECK_DEADLOCK FALSE
