CONSTANTS
    Tickets = {t1, t2, t3}
    Subs = {s1, s2}
    t1 = t1
    t2 = t2
    t3 = t3
    s1 = s1
    s2 = s2
    None = None
    Buffer = 2
SPECIFICATION FairSpec
INVARIANTS
    DeliveredOnce
PROPERTIES
    LeavesOnlyDelivered
    CodesArrive
CHECK_DEADLOCK FALSE
