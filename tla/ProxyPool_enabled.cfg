\* One proxy disabled and enabled again.
CONSTANTS
    Proxies = {p1}
    Countries = {de}
    None = None
    MaxChanges = 3
SPECIFICATION PoolFairSpec
CHECK_DEADLOCK FALSE
PROPERTIES
    EnabledIsJudged
