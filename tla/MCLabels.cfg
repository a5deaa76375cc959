SPECIFICATION Spec
CONSTANTS
    c1 = c1
    c2 = c2
    none = none
    Episodes <- MCEpisodes
    Posted <- MCPosted
    Horizon = 1
    Rules <- MCRules
    Default = none
    NoReward = none
    Versions <- MCVersions
    Commands = {c1, c2}
    MaxNow = 2
    MaxRuns = 3
SYMMETRY Sym
INVARIANTS
    RebuildIsExact
    RewardStaysTrue
    ScoredOnce
    ExportPrefersHigher
CHECK_DEADLOCK FALSE
