\* Two proxies, which may serve one country or the other; two calls of the
\* administrator or aborted cycles.
CONSTANTS
    Proxies = {p1, p2}
    Countries = {de, fr}
    None = None
    MaxChanges = 2
    MinWorking = 2
SPECIFICATION AccountsSpec
CHECK_DEADLOCK FALSE
INVARIANTS
    OverrideHasCountry
    ReleasedIsNotQuarantine
PROPERTIES
    WaitingIsJudged
    ManualStaysEnabled
    ServedIsOpen
    UnservedIsClosed
