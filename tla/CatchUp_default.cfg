\* The values the program comes with: a 60-minute interval, a 10-minute step,
\* six windows a check; one outage of two hours.
CONSTANTS
    DayLength = 1440
    Step = 10
    Settle = 20
    MaxCatchUp = 6
    Interval = 60
    Outages = {120}
    MaxOutages = 1
    MaxFaults = 0
    MaxPolls = 0
    Horizon = 2880
SPECIFICATION Spec
INVARIANT CatchesUp
CHECK_DEADLOCK FALSE
