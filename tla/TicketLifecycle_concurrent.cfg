CONSTANTS
    Tickets = {t1}
    t1 = t1
    Clients = {c1, c2}
    c1 = c1
    c2 = c2
    Worker = w
    None = None
    Ops <- AllOps
    Actions <- CancelFinish
    Overlap = TRUE
    DiskFails = TRUE
    MinActivation = 2
    LeaseLen = 3
    MaxReuse = 1
    MaxTime = 6
    MaxRequests = 2
    MaxRestarts = 1
SPECIFICATION Spec
SYMMETRY ClientSymmetry
INVARIANTS
    TypeOK
    TerminalIsClosed
    AutoCancelWaitsForCooldown
    ScheduleWellFormed
CHECK_DEADLOCK FALSE
