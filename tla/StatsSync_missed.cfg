CONSTANTS
    Events = {e1, e2}
    e1 = e1
    e2 = e2
    Syncers = {s1}
    s1 = s1
    None = None
    DiskFails = FALSE
    MaxRestarts = 0
SPECIFICATION FairSpec
PROPERTIES
    RecordedEventsArrive
CHECK_DEADLOCK FALSE
