\* A new installation with periodic reports off is given a time of day.
CONSTANTS
    DayLength = 5
    Schedules <- MCDaily
    Fallback <- MCOff
    LastRuns <- MCNever
    MaxTime = 14
    MaxChanges = 1
    MaxFaults = 0
SPECIFICATION Spec
INVARIANT ReportsHappen
CHECK_DEADLOCK FALSE
