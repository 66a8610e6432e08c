--------------------------------- MODULE Store ---------------------------------
(***************************************************************************)
(* The SQLite database: its tables as functions from row ids to rows, and   *)
(* one operator per statement of repo.go that changes them.  Foreign keys   *)
(* are declared and not enforced, ids are AUTOINCREMENT and counter_id is   *)
(* UNIQUE.  Text that no property tells apart (titles, metrics, the period  *)
(* of a poll) is left out of the rows.                                      *)
(***************************************************************************)
EXTENDS Integers

CONSTANTS
    Cids,       \* Metrika's numbers for counters, as text
    Numeric,    \* those that are numbers
    Names,      \* names of rules and reports
    Blank,      \* a name of spaces only
    Labels,     \* names of counters and destinations
    Tokens,     \* OAuth tokens
    NoToken,    \* the empty token
    Dests,      \* type and address of a destination
    Periods,    \* periods of reports
    Schedules,  \* report schedules
    Unset       \* no schedule stored

ASSUME StoreAssumption ==
    /\ Numeric \subseteq Cids
    /\ Blank \in Names
    /\ NoToken \notin Tokens
    /\ Unset \notin Schedules

Ids == Nat \ {0}

\* cursor: whether last_hour_checked is set; no weeks of a baseline are stored as four.
CounterRow == [cid : Cids, label : Labels, token : Tokens \union {NoToken}, cursor : BOOLEAN]
TriggerRow == [counter : Ids, name : Names, weeks : Int \ {0}, floor : Int, on : BOOLEAN]
ReportRow == [counter : Ids, name : Names, period : Periods, on : BOOLEAN]
ActionRow == [dest : Dests, label : Labels]

\* A table whose last id handed out is n.
IsTable(f, Row, n) == DOMAIN f \subseteq 1..n /\ f \in [DOMAIN f -> Row]

\* A record, nothing but its fields.
IsRecord(s) == s = [field \in DOMAIN s |-> s[field]]

\* CREATE TABLE of every table; counter_id is UNIQUE.
IsStore(s) ==
    /\ DOMAIN s = {"counters", "triggers", "reports", "actions", "cooldowns", "alerts", "snapshots",
                   "schedule", "lastCounter", "lastTrigger", "lastReport", "lastAction"}
    /\ IsRecord(s)
    /\ s.lastCounter \in Nat /\ s.lastTrigger \in Nat
    /\ s.lastReport \in Nat /\ s.lastAction \in Nat
    /\ IsTable(s.counters, CounterRow, s.lastCounter)
    /\ IsTable(s.triggers, TriggerRow, s.lastTrigger)
    /\ IsTable(s.reports, ReportRow, s.lastReport)
    /\ IsTable(s.actions, ActionRow, s.lastAction)
    /\ s.cooldowns \subseteq Ids
    /\ s.alerts \subseteq [counter : Ids, trigger : Ids]
    /\ s.snapshots \subseteq Ids
    /\ s.schedule \in Schedules \union {Unset}

UniqueCids(s) ==
    \A c, d \in DOMAIN s.counters : s.counters[c].cid = s.counters[d].cid => c = d

Put(f, i, row) == [j \in DOMAIN f \union {i} |-> IF j = i THEN row ELSE f[j]]
Without(f, S) == [j \in DOMAIN f \ S |-> f[j]]

Empty == [counters |-> [i \in {} |-> 0], triggers |-> [i \in {} |-> 0],
          reports |-> [i \in {} |-> 0], actions |-> [i \in {} |-> 0],
          cooldowns |-> {}, alerts |-> {}, snapshots |-> {}, schedule |-> Unset,
          lastCounter |-> 0, lastTrigger |-> 0, lastReport |-> 0, lastAction |-> 0]

-----------------------------------------------------------------------------
(* Counters.                                                                *)

\* Mutant: the column is not UNIQUE.
CidAlwaysFree(s, cid) == TRUE
CidFree(s, cid) == \A c \in DOMAIN s.counters : s.counters[c].cid # cid

\* Mutant: a plain PRIMARY KEY, that gives the id of the last row again.
CreateCounterReusing(s, cid, label, token) ==
    LET n == IF s.counters = Empty.counters THEN 1
             ELSE 1 + CHOOSE c \in DOMAIN s.counters : \A d \in DOMAIN s.counters : d <= c IN
    [s EXCEPT !.counters = Put(@, n, [cid |-> cid, label |-> label, token |-> token, cursor |-> FALSE]),
              !.lastCounter = IF n > @ THEN n ELSE @]

CreateCounter(s, cid, label, token) ==
    [s EXCEPT !.counters = Put(@, s.lastCounter + 1,
                 [cid |-> cid, label |-> label, token |-> token, cursor |-> FALSE]),
              !.lastCounter = @ + 1]

\* Ids of the rules and reports of a counter.
TriggersOf(s, c) == {t \in DOMAIN s.triggers : s.triggers[t].counter = c}
ReportsOf(s, c) == {r \in DOMAIN s.reports : s.reports[r].counter = c}

\* Mutant: the reports and the history stay.
DeleteCounterOnly(s, c) ==
    [s EXCEPT !.cooldowns = @ \ TriggersOf(s, c),
              !.triggers = Without(@, TriggersOf(s, c)),
              !.counters = Without(@, {c})]

\* A cooldown is found through the counter's remaining rules.
DeleteCounter(s, c) ==
    [s EXCEPT !.reports = Without(@, ReportsOf(s, c)),
              !.cooldowns = @ \ TriggersOf(s, c),
              !.triggers = Without(@, TriggersOf(s, c)),
              !.snapshots = @ \ {c},
              !.alerts = {a \in @ : a.counter # c},
              !.counters = Without(@, {c})]

\* An UPDATE of a row that is gone changes nothing.
SetLastHourChecked(s, c) ==
    IF c \in DOMAIN s.counters THEN [s EXCEPT !.counters[c].cursor = TRUE] ELSE s

-----------------------------------------------------------------------------
(* Rules, reports, destinations: an INSERT looks at no other table, and a   *)
(* DELETE of a row that is gone is not an error.                            *)

CreateTrigger(s, row) ==
    [s EXCEPT !.triggers = Put(@, s.lastTrigger + 1, row), !.lastTrigger = @ + 1]

\* The cooldown and the alerts of the rule stay.
DeleteTrigger(s, t) == [s EXCEPT !.triggers = Without(@, {t})]

CreateReport(s, row) ==
    [s EXCEPT !.reports = Put(@, s.lastReport + 1, row), !.lastReport = @ + 1]

DeleteReport(s, r) == [s EXCEPT !.reports = Without(@, {r})]

CreateAlertAction(s, row) ==
    [s EXCEPT !.actions = Put(@, s.lastAction + 1, row), !.lastAction = @ + 1]

DeleteAlertAction(s, a) == [s EXCEPT !.actions = Without(@, {a})]

-----------------------------------------------------------------------------
(* What the engine writes.                                                  *)

CreateAlert(s, c, t) == [s EXCEPT !.alerts = @ \union {[counter |-> c, trigger |-> t]}]
RecordTriggerFire(s, t) == [s EXCEPT !.cooldowns = @ \union {t}]
CreateReportSnapshot(s, c) == [s EXCEPT !.snapshots = @ \union {c}]
SetSetting(s, value) == [s EXCEPT !.schedule = value]

=============================================================================
