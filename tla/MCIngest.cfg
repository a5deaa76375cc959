SPECIFICATION FairSpec
CONSTANTS
    main = main
    bad = bad
    spans = spans
    more = more
    episodes = episodes
    hook = hook
    toolcall = toolcall
    outs = outs
    nouts = nouts
    host = host
    nat = nat
    lf = lf
    ls = ls
    px = px
    json = json
    csv = csv
    nspans = nspans
    njson = njson
    p1 = p1
    p2 = p2
    a = a
    b = b
    c = c
    d = d
    e1 = e1
    s1 = s1
    s2 = s2
    s3 = s3
    s5 = s5
    s6 = s6
    t1 = t1
    o1 = o1
    o2 = o2
    Main = main
    Producers = {p1, p2}
    Mixes <- MCMixes
    Endpoint <- MCEndpoint
    Source <- MCSource
    Body <- MCBody
    Malformed = bad
    Limited = {"sdk"}
    Hash <- MCHash
    Scale = 2
    SessionKeyOrder <- MCSessionKeyOrder
    Kinds = {"llm", "tool"}
    Policies <- MCPolicies
    Chunk = 2
    HighWater = 1
    MaxFaults = 1
INVARIANTS
    AcceptedAccounted
    RejectedLeavesNothing
    SamplingNeverSplits
CHECK_DEADLOCK FALSE
PROPERTY
    RefusedThenAccepted
