\* A service that has reported before: four schedules, two changes, one fault.
CONSTANTS
    DayLength = 5
    Schedules <- MCSchedules
    Fallback <- MCHourly
    LastRuns = {0, 2}
    MaxTime = 12
    MaxChanges = 2
    MaxFaults = 1
SPECIFICATION Spec
INVARIANTS
    TypeOK
    Paced
    ReportsHappen
\* The clock stops at MaxTime.
CHECK_DEADLOCK FALSE
