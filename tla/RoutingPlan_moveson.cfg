CONSTANTS
    Items = {1, 2, 3}
    Requests = {r1}
    r1 = r1
    p1 = p1
    p2 = p2
    us = us
    ca = ca
    Providers = {p1, p2}
    Priority <- APriority
    AnyProvider = AnyProvider
    ProviderOf <- AProviderOf
    CountryOf <- ACountryOf
    RetryProviders = {p2}
    MaxReuse = 1
    Plans <- ThreePlans
    NoPlan = NoPlan
    None = None
    MaxTickets = 2
    MaxEdits = 0
    MaxRound = 2
SPECIFICATION Spec
INVARIANTS
    FailoverMovesOn
CHECK_DEADLOCK FALSE
