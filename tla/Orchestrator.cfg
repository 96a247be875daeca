\* Two sessions and one proxy, so that no thread has a fallback (SessionMonitor.cfg is
\* about failovers); the orchestrator may be killed at any point, any number of times.
CONSTANTS
    Sessions = {s1, s2}
    Proxies = {p1}
    None = None
    Threshold = 1
    Ailments = {}
    MayMiscount = FALSE
    MaxTurns = 0
    MaxErrors = 0
SPECIFICATION OrchSpec
CHECK_DEADLOCK FALSE
INVARIANTS
    OrchTypeOK
    QueueUnwatched
    StoppedAreOver
PROPERTIES
    ActiveIsWatched
    QueueRunsOn
