\* Two clients of one account, two sessions, and one connection row on one proxy, closed
\* any number of times; one failure each of Redis, of a publication, of a kill and of a
\* commit.
CONSTANTS
    a1 = a1
    Clients  = {k1, k2}
    Accounts = {a1}
    AccountOf <- OneAccount
    Proxies  = {p1}
    Sessions = {s1, s2}
    Conns    = {c1}
    None = None
    MaxFaults <- OneOfEach
SPECIFICATION StoreSpec
SYMMETRY Symmetric
CHECK_DEADLOCK FALSE
INVARIANTS
    TypeOK
    LiveConnsBounded
    AccountCountBounded
    ProxyConnsBounded
    OneActivePerClient
    CountExact
    NeverOvercounted
PROPERTIES
    EndedForever
    KillSticks
    ImplementsLedger
