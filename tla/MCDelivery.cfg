SPECIFICATION Spec
CONSTANTS
    Run = run
    Main = main
    Callers = {run, main}
    Recs = {1, 2}
    Parts = {1}
    OutcomePart = 2
    PartOf <- MCPartOf
    BlobOf <- MCBlobOf
    TargetRows = 2
    MaxStoreErrors = 1
    MaxCrashes = 1
    Poison = {2}
    BatchSize = 2
    MaxAttempts = 1
    MaxStops = 1
INVARIANTS
    AckedWasTaken
    NoNeedlessDuplicates
    ShutdownLosesNothing
CHECK_DEADLOCK FALSE
