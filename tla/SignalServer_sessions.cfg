CONSTANTS
    Device = {d1, d2}
    Conn = {c1, c2}
    NoDevice = NoDevice
    Overlapping = FALSE
    OwnIds = TRUE
    MaxAnnounce = 1
    MaxOnline = 2
    MaxOffline = 0
    MaxForward = 0
    MaxRegister = 1
    MaxFaults = 1
    MaxCuts = 1
    MaxRestarts = 1
SPECIFICATION FairSpec
INVARIANTS
    RowFollowsRegistry
    ToldTheTruth
PROPERTY VanishedIsNoticed
CHECK_DEADLOCK FALSE
