SPECIFICATION Spec
CONSTANTS
    TrimRatio <- NoTrim
    BestQuantile <- KeepAll
    JitterUnit = 2
    NsPerUs = 2
    MaxOffset = 5
    PpmUnit = 2
    MaxFreq = 700
    Self = 1
    Peers <- OnePeer
    Ntps <- Nobody
    Offsets <- Behind
    Delays <- OneDelay
    Jitters = {0}
    Limit = 1
    Window = 3
    Lead = 0
    Period = 1
    RingMax = 3
    Control = TRUE
    Fresh = 1
    StoreFails = TRUE
    PhcFails = TRUE
    MaxTime = 4
    MaxSamples = 1
    MaxRestarts = 1
INVARIANTS
    WindowHonoured
    SmoothedInHull
    OutputsAgree
    CorrectionInHull
    HealthyIsRecent
\* The clock stops at MaxTime.
CHECK_DEADLOCK FALSE
