\* Two counters; 0 and 1 minutes are the same cadence.
CONSTANTS
    Counters = {1, 2}
    Intervals = {0, 1, 5}
    MaxEdits = 2
SPECIFICATION FairSpec
INVARIANTS
    TypeOK
    InTheMap
PROPERTIES
    NotRestarted
    Implements
    Settles
\* The service stops.
CHECK_DEADLOCK FALSE
