CONSTANTS
    EventIds = {1, 2}
    EventOf <- TwoEvents
    Lookbacks = {1}
    LookbackOrder <- OnlyOne
    Retention = 1
    Week = 1
    CleanupBatch = 1
    Cron = Cron
    Admin = Admin
    AnyOperator = AnyOperator
    Nothing = Nothing
    MaxTime = 2
    t1 = t1
    t2 = t2
    u1 = u1
    p1 = p1
    p2 = p2
    o1 = o1
SPECIFICATION FairWorkerSpec
INVARIANTS
    SnapshotsMissNothing
    LocalFilterAgrees
PROPERTIES
    UploadsBecomeVisible
CHECK_DEADLOCK FALSE
