CONSTANTS
    Device = {d1, d2}
    Conn = {c1, c2}
    NoDevice = NoDevice
    Overlapping = TRUE
    OwnIds = FALSE
    MaxAnnounce = 2
    MaxOnline = 2
    MaxOffline = 1
    MaxForward = 2
    MaxRegister = 0
    MaxFaults = 0
    MaxCuts = 0
    MaxRestarts = 0
SPECIFICATION Spec
INVARIANTS
    TypeOK
    RegistryIsLive
    AcceptedNotLost
SYMMETRY Symmetry
PROPERTY ImplementsMailbox
CHECK_DEADLOCK FALSE
