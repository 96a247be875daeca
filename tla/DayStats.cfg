\* One proxy: the rows are independent.  Times below 1 ms, at both sides of a bracket
\* and beyond the last; three results over two midnights, one lost answer.
CONSTANTS
    Proxies = {p1}
    None = None
    Packets = 1
    Times = {5, 200, 210, 2500}
    Speeds = {9, 100}
    MaxDay = 2
    MaxBatches = 3
    MaxLost = 1
SPECIFICATION DaySpec
CHECK_DEADLOCK FALSE
INVARIANTS
    DayTypeOK
    NothingLost
    NothingTwice
    RatingByTable
