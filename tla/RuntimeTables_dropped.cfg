CONSTANTS
    Owner = Owner
    Guest = Guest
    Workers = {w1, w2}
    TicketBuffer = 1
    LogBuffer = 1
    Databases <- FourFiles
    Absent = Absent
    None = None
    MaxClock = 4
    MaxStarts = 3
SPECIFICATION Spec
INVARIANTS
    SerialRestartLosesNothing
SYMMETRY AnyWorker
CHECK_DEADLOCK FALSE
