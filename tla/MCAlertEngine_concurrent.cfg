\* Two goroutines in advance for one counter, one failure or crash.
CONSTANTS
    p1 = p1
    p2 = p2
    Advancers = {p1, p2}
    Rules = {1, 2}
    Scopes = {1, 2}
    ScopeOf <- MCScopeOf
    Malformed = {}
    BadMetric = {}
    BrokenScopes = {2}
    MaxCatchUp = 2
    Cooldown = 2
    MaxTime = 2
    MaxFaults = 1
    MaxEdits = 1
SYMMETRY AdvancerSymmetry
SPECIFICATION Spec
INVARIANTS
    TypeOK
    NoGap
    SkipNeedsAlert
    OwnCooldownHonoured
\* The clock stops at MaxTime.
CHECK_DEADLOCK FALSE
