-------------------------------- MODULE Transfer --------------------------------
(***************************************************************************)
(* Export and import of the configuration.  A file is the sequence of its   *)
(* entries in the order Import applies them: counters, rules, reports,      *)
(* destinations, schedule; a rule names its counter by counter_id whether   *)
(* the file nests it or not.  Defaults other than the weeks of a baseline   *)
(* are left out.                                                            *)
(*                                                                         *)
(* Export is a series of queries between which others write.  Import is one *)
(* transaction: it works on a copy that replaces the database when it       *)
(* commits.  Other writers wait for it, as SQLite has one writer.           *)
(***************************************************************************)
EXTENDS Store, FiniteSets, SequencesExt

CONSTANTS NoTx, NoExport

VARIABLES
    db,      \* the committed database
    tx,      \* an import in progress
    export,  \* an export in progress
    file     \* the last file exported

transferVars == <<db, tx, export, file>>

-----------------------------------------------------------------------------
(* Entries, and the rows they stand for.                                    *)

CounterEntry(row, safe) ==
    [kind |-> "counter", cid |-> row.cid, label |-> row.label,
     token |-> IF safe THEN NoToken ELSE row.token]
TriggerEntry(cid, row) ==
    [kind |-> "trigger", cid |-> cid, name |-> row.name,
     weeks |-> row.weeks, floor |-> row.floor, on |-> row.on]
ReportEntry(cid, row) ==
    [kind |-> "report", cid |-> cid, name |-> row.name, period |-> row.period, on |-> row.on]
ActionEntry(row) == [kind |-> "action", dest |-> row.dest, label |-> row.label]
ScheduleEntry(at) == [kind |-> "schedule", at |-> at]

Entry ==
    [kind : {"counter"}, cid : Cids, label : Labels, token : Tokens \union {NoToken}]
    \union [kind : {"trigger"}, cid : Cids, name : Names, weeks : Int, floor : Int, on : BOOLEAN]
    \union [kind : {"report"}, cid : Cids, name : Names, period : Periods, on : BOOLEAN]
    \union [kind : {"action"}, dest : Dests, label : Labels]
    \union [kind : {"schedule"}, at : Schedules]

\* What Import demands of an entry before it touches the database.
ValidCounter(e) == e.cid \in Numeric
ValidTrigger(e) == e.name # Blank /\ e.floor >= 0 /\ e.weeks \in 0..12
ValidReport(e) == e.name # Blank

Valid(e) ==
    /\ e \in Entry
    /\ e.kind = "counter" => ValidCounter(e)
    /\ e.kind = "trigger" => ValidTrigger(e)
    /\ e.kind = "report" => ValidReport(e)

\* A file with settings in it, all of them valid; it has one place for a schedule.
Readable(f) ==
    /\ f \in Seq(Entry) /\ f # << >>
    /\ \A i \in DOMAIN f : Valid(f[i])
    /\ \A i, j \in DOMAIN f : f[i].kind = "schedule" /\ f[j].kind = "schedule" => i = j

\* A store with nothing in it that Import would refuse.
Importable(s) ==
    /\ \A c \in DOMAIN s.counters : ValidCounter(s.counters[c])
    /\ \A t \in DOMAIN s.triggers : ValidTrigger(s.triggers[t])
    /\ \A r \in DOMAIN s.reports : ValidReport(s.reports[r])

Weeks(n) == IF n = 0 THEN 4 ELSE n

-----------------------------------------------------------------------------
(* Export: of all counters (c = 0), or of one.                              *)

Least(S) == CHOOSE i \in S : \A j \in S : i <= j
InOrder(S) ==
    CHOOSE f \in [1..Cardinality(S) -> S] :
        \A i, j \in 1..Cardinality(S) : i < j => f[i] < f[j]

\* Schedule, destinations and counters are read first.
ExportStart(u, c, safe) ==
    LET rows == IF c = 0 THEN db.counters ELSE [d \in {c} |-> db.counters[c]]
        ids == InOrder(DOMAIN rows)
        dests == InOrder(DOMAIN db.actions)
    IN
    /\ export = NoExport
    /\ c # 0 => c \in DOMAIN db.counters
    /\ export' = [by |-> u, rows |-> rows, left |-> DOMAIN rows, part |-> "triggers",
                  counters |-> [i \in DOMAIN ids |-> CounterEntry(rows[ids[i]], safe)],
                  triggers |-> << >>, reports |-> << >>,
                  rest |-> IF c # 0 THEN << >>
                           ELSE [i \in DOMAIN dests |-> ActionEntry(db.actions[dests[i]])]
                                \o IF db.schedule = Unset THEN << >>
                                   ELSE << ScheduleEntry(db.schedule) >>]
    /\ UNCHANGED <<db, tx, file>>

\* The rules of the next counter; the export fails when it has been deleted.
ExportTriggers ==
    /\ export # NoExport /\ export.left # {} /\ export.part = "triggers"
    /\ LET c == Least(export.left)
           ids == InOrder(TriggersOf(db, c)) IN
       export' = IF c \notin DOMAIN db.counters THEN NoExport
                 ELSE [export EXCEPT !.part = "reports", !.triggers = @ \o
                    [i \in DOMAIN ids |-> TriggerEntry(export.rows[c].cid, db.triggers[ids[i]])]]
    /\ UNCHANGED <<db, tx, file>>

\* Its reports; nobody asks whether the counter is still there.
ExportReports ==
    /\ export # NoExport /\ export.left # {} /\ export.part = "reports"
    /\ LET c == Least(export.left)
           ids == InOrder(ReportsOf(db, c)) IN
       export' = [export EXCEPT !.part = "triggers", !.left = @ \ {c}, !.reports = @ \o
                    [i \in DOMAIN ids |-> ReportEntry(export.rows[c].cid, db.reports[ids[i]])]]
    /\ UNCHANGED <<db, tx, file>>

ExportDone ==
    /\ export # NoExport /\ export.left = {}
    /\ file' = export.counters \o export.triggers \o export.reports \o export.rest
    /\ export' = NoExport
    /\ UNCHANGED <<db, tx>>

-----------------------------------------------------------------------------
(* Import.                                                                  *)

HasKind(f, kind) == \E i \in DOMAIN f : f[i].kind = kind

\* Mutant: destinations are deleted whether or not the file has any.
ClearedOfAll(s, f) ==
    [Empty EXCEPT !.lastCounter = s.lastCounter, !.lastTrigger = s.lastTrigger,
                  !.lastReport = s.lastReport, !.lastAction = s.lastAction,
                  !.schedule = s.schedule]

\* A replacing import deletes all but the settings and, when the file names
\* none, the destinations; the ids go on.
Cleared(s, f) ==
    [Empty EXCEPT !.lastCounter = s.lastCounter, !.lastTrigger = s.lastTrigger,
                  !.lastReport = s.lastReport, !.lastAction = s.lastAction,
                  !.schedule = s.schedule,
                  !.actions = IF HasKind(f, "action") THEN @ ELSE s.actions]

\* flow: whether the file answers a prompt.
ImportStart(u, f, replace, flow) ==
    /\ tx = NoTx
    /\ Readable(f)
    /\ tx' = [by |-> u, file |-> f, at |-> 1, replace |-> replace, flow |-> flow,
              store |-> IF replace THEN Cleared(db, f) ELSE db]
    /\ UNCHANGED <<db, export, file>>

\* The statement that is next, of one kind; s is the store it leaves.
At(kind) == tx # NoTx /\ tx.at \in DOMAIN tx.file /\ tx.file[tx.at].kind = kind
Applied(s) ==
    /\ tx' = [tx EXCEPT !.store = s, !.at = @ + 1]
    /\ UNCHANGED <<db, export, file>>

\* Mutant: a file without tokens blanks those that are stored.
ImportCounterToken ==
    /\ At("counter")
    /\ LET s == tx.store  e == tx.file[tx.at] IN
       \/ /\ CidFree(s, e.cid)
          /\ Applied(CreateCounter(s, e.cid, e.label, e.token))
       \/ /\ ~tx.replace
          /\ \E c \in DOMAIN s.counters :
                /\ s.counters[c].cid = e.cid
                /\ Applied([s EXCEPT !.counters[c].label = e.label, !.counters[c].token = e.token])

\* A counter_id that is taken is updated, and keeps its token when the file
\* has none; replacing, it fails the import.
ImportCounter ==
    /\ At("counter")
    /\ LET s == tx.store  e == tx.file[tx.at] IN
       \/ /\ CidFree(s, e.cid)
          /\ Applied(CreateCounter(s, e.cid, e.label, e.token))
       \/ /\ ~tx.replace
          /\ \E c \in DOMAIN s.counters :
                /\ s.counters[c].cid = e.cid
                /\ Applied([s EXCEPT !.counters[c].label = e.label,
                                     !.counters[c].token = IF e.token = NoToken THEN @ ELSE e.token])

\* The first rule of that counter and name, which a merge updates.
FirstNamed(f, S, name) ==
    {i \in S : f[i].name = name /\ \A j \in S : f[j].name = name => i <= j}

TriggerOf(c, e) ==
    [counter |-> c, name |-> e.name, weeks |-> Weeks(e.weeks), floor |-> e.floor, on |-> e.on]
ReportOf(c, e) == [counter |-> c, name |-> e.name, period |-> e.period, on |-> e.on]

\* Mutant: a rule of the name is not looked for.
ImportTriggerAgain ==
    /\ At("trigger")
    /\ LET s == tx.store  e == tx.file[tx.at] IN
       \E c \in DOMAIN s.counters :
          /\ s.counters[c].cid = e.cid
          /\ Applied(CreateTrigger(s, TriggerOf(c, e)))

ImportTrigger ==
    /\ At("trigger")
    /\ LET s == tx.store  e == tx.file[tx.at] IN
       \E c \in DOMAIN s.counters :
          LET same == IF tx.replace THEN {} ELSE FirstNamed(s.triggers, TriggersOf(s, c), e.name) IN
          /\ s.counters[c].cid = e.cid
          /\ \/ same = {} /\ Applied(CreateTrigger(s, TriggerOf(c, e)))
             \/ \E t \in same : Applied([s EXCEPT !.triggers[t] = TriggerOf(c, e)])

ImportReport ==
    /\ At("report")
    /\ LET s == tx.store  e == tx.file[tx.at] IN
       \E c \in DOMAIN s.counters :
          LET same == IF tx.replace THEN {} ELSE FirstNamed(s.reports, ReportsOf(s, c), e.name) IN
          /\ s.counters[c].cid = e.cid
          /\ \/ same = {} /\ Applied(CreateReport(s, ReportOf(c, e)))
             \/ \E r \in same : Applied([s EXCEPT !.reports[r] = ReportOf(c, e)])

\* The first destination of that address is renamed by a merge.
ImportAction ==
    /\ At("action")
    /\ LET s == tx.store  e == tx.file[tx.at]
           same == IF tx.replace THEN {} ELSE {a \in DOMAIN s.actions : s.actions[a].dest = e.dest} IN
       \/ same = {} /\ Applied(CreateAlertAction(s, [dest |-> e.dest, label |-> e.label]))
       \/ \E a \in same :
             /\ \A b \in same : a <= b
             /\ Applied([s EXCEPT !.actions[a].label = e.label])

ImportSchedule ==
    At("schedule") /\ Applied(SetSetting(tx.store, tx.file[tx.at].at))

\* A statement fails: an unknown or a repeated counter_id, a locked database.
ImportFails ==
    /\ tx # NoTx
    /\ tx' = NoTx
    /\ UNCHANGED <<db, export, file>>

ImportCommit ==
    /\ tx # NoTx /\ tx.at \notin DOMAIN tx.file
    /\ db' = tx.store
    /\ tx' = NoTx
    /\ UNCHANGED <<export, file>>

ImportStep ==
    \/ ImportCounter \/ ImportTrigger \/ ImportReport \/ ImportAction \/ ImportSchedule

=============================================================================
