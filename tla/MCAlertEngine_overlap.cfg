\* The polling loop and one /poll at the same time; nothing fails.
CONSTANTS
    p1 = p1
    p2 = p2
    Advancers = {p1, p2}
    Rules = {1}
    Scopes = {1}
    ScopeOf <- MCScopeOf
    Malformed = {}
    BadMetric = {}
    BrokenScopes = {}
    MaxCatchUp = 2
    Cooldown = 2
    MaxTime = 2
    MaxFaults = 0
    MaxEdits = 0
SPECIFICATION Spec
INVARIANT CooldownHonoured
CHECK_DEADLOCK FALSE
