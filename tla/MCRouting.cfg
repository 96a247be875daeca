\* One handler of a country account with three attempts over three proxies, and
\* selections that read two rows; two steps of the administrator, the agents, the
\* monitor or the rating.
CONSTANTS
    Proxies = {p1, p2, p3}
    Countries = {de}
    None = None
    MaxChanges = 2
    MaxMoves = 2
    s1 = s1
    de = de
    Sessions = {s1}
    AccountCountry <- German
    Handlers = {h1}
    SessionOf <- OneSession
    Ratings = {0, 1, 2}
    Threshold = 1
    Limit = 2
    MaxAttempts = 3
SPECIFICATION RoutingSpec
SYMMETRY Symmetric
CHECK_DEADLOCK FALSE
INVARIANTS
    RetryIsAlternate
PROPERTIES
    StickyCostBounded
    DialsUsable
    RefusedOnlyIfNone
