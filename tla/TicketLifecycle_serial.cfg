CONSTANTS
    Tickets = {t1}
    t1 = t1
    Clients = {c1}
    c1 = c1
    Worker = w
    None = None
    Ops <- AllOps
    Actions <- AllActions
    Overlap = FALSE
    DiskFails = FALSE
    MinActivation = 1
    LeaseLen = 2
    MaxReuse = 1
    MaxTime = 5
    MaxRequests = 2
    MaxRestarts = 1
SPECIFICATION FairSpec
INVARIANTS
    PendingIsScheduled
    QuiescentDiskAgrees
PROPERTIES
    CancelPendingResolves
CHECK_DEADLOCK FALSE
