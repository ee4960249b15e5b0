SPECIFICATION Spec
CONSTANTS
    TrimRatio <- NoTrim
    BestQuantile <- KeepAll
    JitterUnit = 2
    NsPerUs = 2
    MaxOffset = 5
    PpmUnit = 2
    MaxFreq = 700
    Self = 1
    Peers <- OnePeer
    Ntps <- OneServer
    Offsets <- OffsetRange
    Delays <- OneDelay
    Jitters = {0}
    Limit = 1
    Window = 1
    Lead = 2
    Period = 1
    RingMax = 2
    Control = FALSE
    Fresh = 1
    StoreFails = FALSE
    PhcFails = FALSE
    MaxTime = 4
    MaxSamples = 3
    MaxRestarts = 0
INVARIANTS
    WindowHonoured
\* The clock stops at MaxTime.
CHECK_DEADLOCK FALSE
