\* Two connections of one client share a session; the first to finish closes it.
CONSTANTS
    a1 = a1
    Clients  = {k1}
    Accounts = {a1}
    AccountOf <- OneAccount
    Proxies  = {p1}
    Sessions = {s1, s2}
    Conns    = {c1, c2}
    None = None
    MaxFaults <- NoFaults
    Handlers = {h1, h2}
    MaxAttempts = 2
    HttpRetries = 2
    MaxAccepts = 2
    MaxLost = 0
    MaxCrashes = 0
    MaxAdmin = 0
SPECIFICATION GatewaySpec
CHECK_DEADLOCK FALSE
INVARIANTS
    ConnectedIsSeen
