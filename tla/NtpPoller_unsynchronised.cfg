SPECIFICATION Spec
CONSTANTS
    HasDevice = TRUE
    Lead <- Leads
    ReadsFail = TRUE
    MaxTime = 3
    MaxChanges = 2
    NsPerSec = 2
    FracPerSec = 4
    EraSecs = 32
    Epoch = 3
    Sources <- OneName
    Server <- Unsynchronised
    Ports = {1}
    Period = 1
    Timeout = 1
    Leftover <- NothingLeft
    Limit = 1
    StoreFails = FALSE
    MaxPolls = 2
    MaxAnswers = 2
INVARIANTS
    NoMadeUpTimes
\* The clock stops at MaxTime.
CHECK_DEADLOCK FALSE
