SPECIFICATION Spec
CONSTANTS
    c = c
    s = s
    t = t
    u = u
    NoAddr = NoAddr
    Nodes = {c, s, t, u}
    Ids <- MCIds
    NodeId <- MCNodeId
    Peers <- Misconfigured
    Probers = {c, u}
    Version <- MixedVersions
    Skew <- MCSkew
    WallSkew <- MCWallSkew
    Flaky = {s, t}
    Burst = 1
    Interval = 2
    Timeout = 1
    SeqMod = 8
    MaxTime = 0
    MaxDups = 0
    MaxRestarts = 0
INVARIANTS
    SampleFromNamedPeer
    JitterIsDelayChange
\* Each process sends one burst, then true time stands still.
CHECK_DEADLOCK FALSE
