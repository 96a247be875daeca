\* One session and one proxy: the shortest way needs no session at all.
CONSTANTS
    Sessions = {s1}
    Proxies = {p1}
    None = None
    Threshold = 1
    Ailments = {}
    MayMiscount = FALSE
    MaxTurns = 0
    MaxErrors = 0
SPECIFICATION OrchSpec
CHECK_DEADLOCK FALSE
INVARIANTS
    NeverRaises
