CONSTANTS
    Tickets = {t1}
    t1 = t1
    Clients = {c1}
    c1 = c1
    Worker = w
    None = None
    Ops <- PollRelease
    Actions <- CancelOnly
    Overlap = FALSE
    DiskFails = FALSE
    MinActivation = 1
    LeaseLen = 2
    MaxReuse = 1
    MaxTime = 4
    MaxRequests = 2
    MaxRestarts = 0
SPECIFICATION Spec
INVARIANTS
    ScheduleStaysClaimable
CHECK_DEADLOCK FALSE
