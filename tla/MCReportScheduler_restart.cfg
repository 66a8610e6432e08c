\* The process is restarted once.
CONSTANTS
    DayLength = 5
    Schedules <- MCSchedules
    Fallback <- MCHourly
    LastRuns = {0}
    MaxTime = 6
    MaxChanges = 0
    MaxFaults = 1
SPECIFICATION Spec
INVARIANT RestartSkipsNothing
CHECK_DEADLOCK FALSE
