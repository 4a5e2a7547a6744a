CONSTANTS
    Requests = {r1, r2}
    r1 = r1
    r2 = r2
    Numbers = {n1, n2}
    n1 = n1
    n2 = n2
    MaxTickets = 3
    Absent = Absent
    MaxReuse = 1
    Ttl = 1
    MaxTime = 0
    MaxRestarts = 0
SPECIFICATION PoolSpec
SYMMETRY NumberSymmetry
INVARIANTS
    ReusedWithinMax
CHECK_DEADLOCK FALSE
