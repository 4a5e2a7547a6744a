CONSTANTS
    Tickets = {t1}
    t1 = t1
    Clients = {c1}
    c1 = c1
    Worker = w
    None = None
    Ops <- ReleaseOnly
    Actions <- CancelOnly
    Overlap = TRUE
    DiskFails = FALSE
    MinActivation = 1
    LeaseLen = 2
    MaxReuse = 1
    MaxTime = 4
    MaxRequests = 2
    MaxRestarts = 0
SPECIFICATION FairSpec
PROPERTIES
    CancelPendingResolves
CHECK_DEADLOCK FALSE
