CONSTANTS
    Rows <- MCRows
    AdminRows <- MCAdminRows
    Day = 2
    Window = 2
    Step = 1
    MinSamples = 2
    Limit = 4
    Reserve = 1
    TagUnits = 2
    Nil = Nil
    Counters = {1, 2}
    Reports <- MCReports
    Rules <- MCRules
    Histories <- MCHistories
    Ends = {61}
    Replies <- MCReplies
    MaxAttempts = 3
    Deepest = 3
    Sums = {0, 2, 5}
    TextLength = 6
SPECIFICATION FairSpec
INVARIANTS
    TypeOK
    EveryoneTried
    NoNeedlessCopies
    VerdictSound
    GivesUpRightly
    NoReportForgotten
    PartsWhole
PROPERTIES
    Implements
    JobsEnd
