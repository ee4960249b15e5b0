SPECIFICATION FairSpec
CONSTANTS
    c = c
    s = s
    t = t
    u = u
    NoAddr = NoAddr
    Nodes = {c, s}
    Ids <- MCIds
    NodeId <- MCNodeId
    Peers <- OneServer
    Probers = {c}
    Version <- OneVersion
    Skew <- MCSkew
    WallSkew <- MCWallSkew
    Flaky = {}
    Burst = 1
    Interval = 2
    Timeout = 0
    SeqMod = 3
    MaxTime = 2
    MaxDups = 1
    MaxRestarts = 1
INVARIANTS
    TypeOK
    MatchedWithinOneRun
    NoStalePending
    CadenceBudget
    JitterIsDelayChange
    OneOutcome
    OneSamplePerProbe
    EchoedSampleAccurate
PROPERTIES
    ImplementsLedger
    EveryProbeCloses
\* True time is bounded by MaxTime: the behaviours end there.
CHECK_DEADLOCK FALSE
