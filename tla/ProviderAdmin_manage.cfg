CONSTANTS
    p1 = p1
    p2 = p2
    Order <- BothProviders
    Drained = {p1}
    Clients = {c1}
    Loop = Loop
    Bad = Bad
    None = None
    MaxEdits = 2
SPECIFICATION FairSpec
INVARIANTS
    RegistryMatchesFiles
PROPERTIES
    ChangesStand
    OptionsCatchUp
    DrainedIsDisabled
CHECK_DEADLOCK FALSE
