\* One loop, two rules on different pages, one API request fails.
CONSTANTS
    p1 = p1
    Advancers = {p1}
    Rules = {1, 2}
    Scopes = {1, 2}
    ScopeOf <- MCScopeOf
    Malformed = {}
    BadMetric = {}
    BrokenScopes = {}
    MaxCatchUp = 2
    Cooldown = 2
    MaxTime = 2
    MaxFaults = 1
    MaxEdits = 0
SPECIFICATION Spec
INVARIANT NothingSkipped
CHECK_DEADLOCK FALSE
