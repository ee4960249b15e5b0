SPECIFICATION Spec
CONSTANTS
    TrimRatio <- ATrimOfAThird
    BestQuantile <- AQuantile
    JitterUnit = 2
    Values <- SomeValues
    Offsets <- SomeOffsets
    Delays <- SomeDelays
    Trust <- SomeTrust
    Steps <- ATick
    RingOffsets <- SomeRingOffsets
    MaxValues = 5
    MaxPeers = 4
    MaxRing = 5
    MaxNs = 100
    NsPerUs = 2
    MaxOffset = 2
    PpmUnit = 2
    MaxFreq = 700
    NsPerSec = 5
    FracPerSec = 8
    EraSecs = 16
    Epoch = 4
INVARIANTS
    EstimateInPpm
\* The lists stop growing at their bounds.
CHECK_DEADLOCK FALSE
