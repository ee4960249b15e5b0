SPECIFICATION FairSpec
CONSTANTS
    HasDevice = TRUE
    Lead <- Leads
    ReadsFail = FALSE
    MaxTime = 1
    MaxChanges = 1
    NsPerSec = 2
    FracPerSec = 4
    EraSecs = 32
    Epoch = 3
    Sources <- TwoNames
    Server <- TwoServers
    Ports = {1}
    Period = 1
    Timeout = 1
    Leftover <- LeftOffsets
    Limit = 2
    StoreFails = TRUE
    MaxPolls = 2
    MaxAnswers = 1
INVARIANTS
    TypeOK
    NtpSampleAccurate
    ClockKept
    DriftWithinDelays
    ComparedWithOthers
PROPERTIES
    EveryPollEnds
\* The clock stops at MaxTime.
CHECK_DEADLOCK FALSE
