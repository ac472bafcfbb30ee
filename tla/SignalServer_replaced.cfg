CONSTANTS
    Device = {d1, d2}
    Conn = {c1, c2}
    NoDevice = NoDevice
    Overlapping = TRUE
    OwnIds = TRUE
    MaxAnnounce = 1
    MaxOnline = 2
    MaxOffline = 0
    MaxForward = 0
    MaxRegister = 0
    MaxFaults = 0
    MaxCuts = 0
    MaxRestarts = 0
SPECIFICATION Spec
PROPERTY ConnectedStaysRegistered
CHECK_DEADLOCK FALSE
