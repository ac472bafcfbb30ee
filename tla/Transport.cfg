CONSTANTS
    d1 = d1
    d2 = d2
    Device = {d1, d2}
    HostOf <- Hosts
    PortOf <- Ports
    Spawning = {d2}
    FoundCap = 1
    MaxFound = 3
    MaxFaults = 1
SPECIFICATION FairSpec
INVARIANTS
    TypeOK
    AnswerIsForOffer
    ReadyForOffers
    ConnectedIsReachable
    OneConnectionEach
PROPERTIES
    EveryCallEnds
    ImplementsExchange
CHECK_DEADLOCK FALSE
