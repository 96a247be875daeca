\* Two chunks a flush, and enough chunks for two flushes to overlap and for a
\* third to follow.
CONSTANTS
    FlushBytes  = 2
    HttpRetries = 3
    MaxBytes    = 4
    MaxLost     = 1
SPECIFICATION Spec
CHECK_DEADLOCK FALSE
INVARIANTS
    NothingMissing
    OvercountBounded
