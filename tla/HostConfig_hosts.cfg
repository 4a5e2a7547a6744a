CONSTANTS
    Daemon = Daemon
    Desktop = Desktop
    Clients = {c1, c2}
    SocketClients = {c1}
    Listeners = {front}
    PlanIds = {p1}
    Ports = {0}
    DefaultPort = 3
    Override = env
    Unreadable = Unreadable
    None = None
    MaxFresh = 4
    MaxStarts = 2
SPECIFICATION Spec
INVARIANTS
    OneOwner
    FilesAgreeAtRest
    IdentityKept
    GivenUpStaysOut
CHECK_DEADLOCK FALSE
