\* A full check gains a step on the clock and takes less than a day, as the
\* theorems of CatchUpProofs ask; the step does not divide the day.
CONSTANTS
    DayLength = 25
    Step = 3
    Settle = 4
    MaxCatchUp = 4
    Interval = 7
    Outages = {7, 20, 41}
    MaxOutages = 2
    MaxFaults = 1
    MaxPolls = 1
    Horizon = 150
SPECIFICATION Spec
INVARIANTS
    TypeOK
    OnlySettled
    CatchesUp
    NoticedInTime
PROPERTY StepByStep
\* The clock stops at Horizon.
CHECK_DEADLOCK FALSE
