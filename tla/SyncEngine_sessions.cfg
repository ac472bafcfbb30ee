CONSTANTS
    Device = {d1, d2}
    Path = {p1}
    Editors = {d1, d2}
    Joined = {d1}
    Password = {k1, k2}
    Serialised = TRUE
    SharedThread = TRUE
    ReportsDeletes = FALSE
    EventCap = 1
    MaxEdits = 2
    MaxVersion = 2
    MaxFaults = 0
    MaxResets = 1
SPECIFICATION FairSpec
INVARIANTS
    UploadHasVector
    VersionNeverVanishes
PROPERTIES
    VectorsGrow
    PeersCatchUp
CHECK_DEADLOCK FALSE
