\* One connection from accept to the end, with two upstream attempts, one lost call
\* and one intervention of the administrator.  Fairness and liveness: no symmetry.
CONSTANTS
    a1 = a1
    Clients  = {k1}
    Accounts = {a1}
    AccountOf <- OneAccount
    Proxies  = {p1}
    Sessions = {s1, s2}
    Conns    = {c1, c2, c3}
    None = None
    MaxFaults <- NoFaults
    Handlers = {h1}
    MaxAttempts = 2
    HttpRetries = 2
    MaxAccepts = 1
    MaxLost = 1
    MaxCrashes = 0
    MaxAdmin = 1
SPECIFICATION TalkativeSpec
CHECK_DEADLOCK FALSE
PROPERTIES
    RelayedRowEnds
    HalfClosedFinishes
    KillStopsTalkers
