CONSTANTS
    Conn = {c1, c2}
    Name = {n1, n2}
    Password = {w1, w2}
    Device = {d1}
    MaxCalls = 4
    MaxDeviceCalls = 4
    MaxFaults = 1
SYMMETRY Symmetry
SPECIFICATION Spec
INVARIANTS
    TypeOK
    TokensAreOwn
    OneRegistrationWins
    AccountsLetIn
    ListedForOneUser
PROPERTY ImplementsService
CHECK_DEADLOCK FALSE
