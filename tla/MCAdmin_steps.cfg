\* One database to start from; two changes and one restart.
CONSTANTS
    c1 = c1  cx = cx  n1 = n1  blank = blank  l1 = l1  l2 = l2
    tok = tok  none = none  d1 = d1  today = today  at10 = at10  unset = unset
    Cids = {c1, cx}
    Numeric = {c1}
    Names = {n1, blank}
    Blank = blank
    Labels = {l1, l2}
    Tokens = {tok}
    NoToken = none
    Dests = {d1}
    Periods = {today}
    Schedules = {at10}
    Unset = unset
    NoTx = NoTx
    NoExport = NoExport
    NoFlow = NoFlow
    NoJob = NoJob
    Users = {tg, vk, stranger}
    Admins = {tg, vk}
    CounterInputs <- MCCounterInputs
    RuleInputs <- MCRuleInputs
    ReportInputs <- MCReportInputs
    ActionInputs <- MCActionInputs
    ExportArgs <- MCExportArgs
    HandFiles <- MCHandFiles
    Stores <- MCStores
    MaxId = 4
    MaxWrites = 2
    MaxOpen = 2
SYMMETRY Symmetry
SPECIFICATION Spec
INVARIANTS
    TypeOK
    ReferencesIssued
    OrphansAreStrays
    ExportLoads
PROPERTIES
    NothingInherited
    DeletedWithItsRows
    ReplaceRestores
    MergeKeeps
    MergeIsIdempotent
CHECK_DEADLOCK FALSE
