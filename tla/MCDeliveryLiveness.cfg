SPECIFICATION FairSpec
CONSTANTS
    Run = run
    Main = main
    Callers = {run, main}
    Recs = {1, 2}
    Parts = {1}
    OutcomePart = 2
    PartOf <- MCPartOf
    BlobOf <- MCBlobOf
    TargetRows = 2
    MaxStoreErrors = 1
    MaxCrashes = 0
    Poison = {2}
    BatchSize = 2
    MaxAttempts = 2
    MaxStops = 1
PROPERTIES
    QueueDrains
    RowsLand
CHECK_DEADLOCK FALSE
