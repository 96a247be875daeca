\* One session over two proxies, which may fall ill or recover twice in all, with the
\* threshold of the code; one update fails.
CONSTANTS
    Sessions = {s1}
    Proxies = {p1, p2}
    None = None
    Threshold = 3
    Ailments = {"silent", "refusing", "down"}
    MayMiscount = TRUE
    MaxTurns = 2
    MaxErrors = 1
SPECIFICATION MonitorSpec
CHECK_DEADLOCK FALSE
INVARIANTS
    FallbackIsOther
PROPERTIES
    FailedIsLeft
