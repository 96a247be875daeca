\* Two tasks of one client, who share its session, two upstream attempts each; one
\* call times out and is sent again, the first copy executed or not, then or later;
\* one restart of the gateway, one intervention of the administrator.
CONSTANTS
    a1 = a1
    Clients  = {k1}
    Accounts = {a1}
    AccountOf <- OneAccount
    Proxies  = {p1}
    Sessions = {s1, s2}
    Conns    = {c1, c2}
    None = None
    MaxFaults <- NoFaults
    Handlers = {h1, h2}
    MaxAttempts = 2
    HttpRetries = 2
    MaxAccepts = 2
    MaxLost = 1
    MaxCrashes = 1
    MaxAdmin = 1
SPECIFICATION GatewaySpec
SYMMETRY Symmetric
CHECK_DEADLOCK FALSE
INVARIANTS
    GatewayTypeOK
    RowIsOwn
    OrphansAccounted
PROPERTIES
    ImplementsStore
