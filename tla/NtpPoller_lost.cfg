SPECIFICATION Spec
CONSTANTS
    HasDevice = TRUE
    Lead <- Leads
    ReadsFail = FALSE
    MaxTime = 2
    MaxChanges = 1
    NsPerSec = 2
    FracPerSec = 4
    EraSecs = 32
    Epoch = 3
    Sources <- OneName
    Server <- OneServer
    Ports = {1}
    Period = 1
    Timeout = 1
    Leftover <- NothingLeft
    Limit = 1
    StoreFails = FALSE
    MaxPolls = 2
    MaxAnswers = 1
INVARIANTS
    SomeClockIsRead
\* The clock stops at MaxTime.
CHECK_DEADLOCK FALSE
