CONSTANTS
    Events = {e1, e2}
    e1 = e1
    e2 = e2
    Syncers = {s1, s2}
    s1 = s1
    s2 = s2
    None = None
    DiskFails = TRUE
    MaxRestarts = 1
SPECIFICATION FairSpec
INVARIANTS
    DiskSyncedWasReceived
PROPERTIES
    ImplementsOutbox
    WaitingEventsArrive
CHECK_DEADLOCK FALSE
