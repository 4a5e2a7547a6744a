CONSTANTS
    Requests = {r1}
    r1 = r1
    Numbers = {n1, n2}
    n1 = n1
    n2 = n2
    MaxTickets = 5
    Absent = Absent
    MaxReuse = 3
    Ttl = 1
    MaxTime = 2
    MaxRestarts = 1
SPECIFICATION PoolSpec
SYMMETRY NumberSymmetry
INVARIANTS
    IdleDiskIsMemory
CHECK_DEADLOCK FALSE
