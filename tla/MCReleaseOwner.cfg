CONSTANTS
    Hosts = {h1, h2, h3}
    LeaseLen = 3
    MaxTime = 7
    MaxPasses = 4
SYMMETRY HostSymmetry
SPECIFICATION LeaseSpec
INVARIANTS LeaseExclusion
PROPERTY CoverNeverStolen
CHECK_DEADLOCK FALSE
