SPECIFICATION FairSpec
CONSTANTS
    TrimRatio <- NoTrim
    BestQuantile <- KeepAll
    JitterUnit = 2
    NsPerUs = 2
    MaxOffset = 5
    PpmUnit = 2
    MaxFreq = 700
    Self = 1
    Peers <- OnePeer
    Ntps <- OneServer
    Offsets <- OffsetRange
    Delays <- OneDelay
    Jitters = {1}
    Limit = 2
    Window = 1
    Lead = 0
    Period = 1
    RingMax = 1
    Control = FALSE
    Fresh = 1
    StoreFails = FALSE
    PhcFails = TRUE
    MaxTime = 1
    MaxSamples = 3
    MaxRestarts = 0
INVARIANTS
    TypeOK
    DelaysKnown
    SmoothedInHull
    OutputsAgree
    SummaryOfItsSource
PROPERTIES
    EnoughIsFused
\* The clock stops at MaxTime.
CHECK_DEADLOCK FALSE
