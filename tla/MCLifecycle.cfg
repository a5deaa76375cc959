SPECIFICATION FairSpec
CONSTANTS
    tail = tail
    http_ = http_
    main = main
    Tail_ = tail
    Http = http_
    Main = main
    PerLine <- MCPerLine
    StartAt = "end"
    RateLimited = FALSE
    MaxEvents = 2
INVARIANTS
    SavedOffsetIsCovered
    DrainedUnlessLate
    LossIsReported
CHECK_DEADLOCK FALSE
PROPERTY
    LinesGetIn
    CustodyKept
