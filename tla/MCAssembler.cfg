SPECIFICATION FairSpec
CONSTANTS
    s1 = s1
    main = main
    Sources = {s1}
    Main = main
    Envelopes <- MCEnvelopes
    Window = 2
    SettleAfterTerminal = 1
    MaxInFlight = 2
    PatchMemory = 1
    MaxEpisodes = 3
    MaxStops = 1
INVARIANTS
    SpansAccounted
    EachSpanOnce
    InFlightBounds
    ReaderMergesPatches
    StatusIsTruthful
    StepsIgnoreArrivalOrder
PROPERTY
    TerminatedCloses
CHECK_DEADLOCK FALSE
