\* The polling loop alone: three rules, one of them without a usable filter.
CONSTANTS
    p1 = p1
    Advancers = {p1}
    Rules = {1, 2, 3}
    Scopes = {1, 2}
    ScopeOf <- MCScopeOf
    Malformed = {3}
    BadMetric = {}
    BrokenScopes = {}
    MaxCatchUp = 2
    Cooldown = 2
    MaxTime = 3
    MaxFaults = 1
    MaxEdits = 0
SPECIFICATION FairSpec
INVARIANTS
    CooldownHonoured
    AlertedOncePerWindow
PROPERTIES
    CursorNeverBack
    CatchesUp
CHECK_DEADLOCK FALSE
