---------------------------------- MODULE Admin ----------------------------------
(***************************************************************************)
(* Everything that changes the configuration: two chat bots, each with its  *)
(* administrators' unfinished flows, the HTTP API, import and export, next  *)
(* to an engine that writes what it finds.  The process may stop between    *)
(* any two steps: rows stay, flows and jobs are gone.                       *)
(*                                                                         *)
(* A bot handles one message at a time; a user here stands for a bot, and   *)
(* two administrators of one bot interleave as a part of these do.  A       *)
(* message that is refused (a stranger's command, a malformed answer, a     *)
(* statement that fails) changes nothing, leaves the flow open, and is no   *)
(* step; neither is a GET of the API.                                       *)
(***************************************************************************)
EXTENDS Transfer

CONSTANTS
    Users, Admins,
    CounterInputs, RuleInputs, ReportInputs, ActionInputs,  \* what is typed in a chat or posted
    ExportArgs,  \* arguments of /export
    HandFiles,   \* files written by hand
    Stores,      \* databases an earlier process left
    NoFlow, NoJob,
    MaxId,       \* bound: the greatest id handed out in a table
    MaxWrites,   \* bound: changes made by users and clients
    MaxOpen      \* bound: flows, jobs, exports and imports open at a time

VARIABLES
    pending,     \* the flow of each user
    job,         \* a poll or a report that is running
    again,       \* the schedule of an import just committed, which runImport sets once more
    writes,
    (* history, read only by properties *)
    strays,      \* rules and reports inserted when their counter was not there
    odd,         \* whether the API has stored what the bot would refuse, now or in an earlier process
    settled      \* the file that was merged last, if nothing was written since

vars == <<db, tx, export, file, pending, job, again, writes, strays, odd, settled>>
history == <<strays, odd, settled>>

\* As they are typed or posted; 0 weeks: not given.
CounterInput == [cid : Cids, label : Labels, token : Tokens \union {NoToken}]
RuleInput == [name : Names, weeks : Int, floor : Int]
ReportInput == [name : Names, period : Periods]

Flow == [kind : {"counter", "action", "import"}, counter : {0}, replace : BOOLEAN]
        \union [kind : {"trigger", "report"}, counter : Ids, replace : {FALSE}]
Job == [counter : Ids, trigger : Nat]   \* trigger 0: a report

\* No row, and nothing of the history, refers to an id that was not handed out.
Issued(s) ==
    /\ \A r \in DOMAIN s.reports : s.reports[r].counter <= s.lastCounter
    /\ \A a \in s.alerts : a.counter <= s.lastCounter /\ a.trigger <= s.lastTrigger
    /\ \A c \in s.snapshots : c <= s.lastCounter
    /\ \A t \in s.cooldowns : t <= s.lastTrigger

\* Every rule and report has its counter.
NoOrphans(s) ==
    /\ \A t \in DOMAIN s.triggers : s.triggers[t].counter \in DOMAIN s.counters
    /\ \A r \in DOMAIN s.reports : s.reports[r].counter \in DOMAIN s.counters

ASSUME AdminAssumption ==
    /\ Admins \subseteq Users
    /\ CounterInputs \subseteq CounterInput /\ RuleInputs \subseteq RuleInput
    /\ ReportInputs \subseteq ReportInput /\ ActionInputs \subseteq ActionRow
    /\ ExportArgs \subseteq [counter : Nat, safe : BOOLEAN]
    /\ \A s \in Stores : IsStore(s) /\ UniqueCids(s) /\ Issued(s) /\ NoOrphans(s)
    /\ NoFlow \notin Flow /\ NoJob \notin Job
    /\ MaxId \in Nat /\ MaxWrites \in Nat /\ MaxOpen \in Nat

Init ==
    /\ db \in Stores
    /\ tx = NoTx /\ export = NoExport /\ file = << >>
    /\ pending = [u \in Users |-> NoFlow]
    /\ job = NoJob
    /\ again = [u \in Users |-> Unset]
    /\ writes = 0
    /\ strays = [triggers |-> {}, reports |-> {}]
    /\ odd = ~Importable(db)
    /\ settled = << >>

-----------------------------------------------------------------------------
(* Messages.                                                                *)

\* Handle is not called for the next message before it has returned.
Free(u) ==
    ~(tx # NoTx /\ tx.by = u) /\ ~(export # NoExport /\ export.by = u) /\ again[u] = Unset

\* Bound: nothing is begun that no further change could meet.
OneMore ==
    /\ writes < MaxWrites
    /\ MaxOpen > Cardinality({u \in Users : pending[u] # NoFlow}) + (IF job = NoJob THEN 0 ELSE 1)
                 + (IF export = NoExport THEN 0 ELSE 1) + (IF tx = NoTx THEN 0 ELSE 1)

\* Mutant: a prompt is opened for whoever asks.
CommandOfAnyone(u, flow) ==
    /\ Free(u)
    /\ flow = NoFlow \/ OneMore
    /\ pending' = [pending EXCEPT ![u] = flow]

\* A command of an administrator; it cancels the flow before it runs, and may
\* open another.
Command(u, flow) ==
    /\ u \in Admins /\ Free(u)
    /\ flow = NoFlow \/ OneMore
    /\ pending' = [pending EXCEPT ![u] = flow]

\* Plain text of a user with a flow of that kind.
Answer(u, kind) == Free(u) /\ pending[u] # NoFlow /\ pending[u].kind = kind
Done(u) == pending' = [pending EXCEPT ![u] = NoFlow]

\* One statement, or one transaction, that a user or a client caused.
Write(s) ==
    /\ tx = NoTx
    /\ writes < MaxWrites
    /\ writes' = writes + 1
    /\ db' = s
    /\ settled' = << >>
    /\ UNCHANGED <<tx, export, file, job, again>>
NoWrite == UNCHANGED <<db, tx, export, file, job, again, writes, history>>
Plain == UNCHANGED <<strays, odd>>

Room(last) == last < MaxId

-----------------------------------------------------------------------------
(* Commands that open a flow.                                               *)

Asking(kind, c, replace) == [kind |-> kind, counter |-> c, replace |-> replace]

AskCounter(u) == Command(u, Asking("counter", 0, FALSE)) /\ NoWrite
AskAction(u) == Command(u, Asking("action", 0, FALSE)) /\ NoWrite

\* Whether the counter exists is asked now, and not when the answer comes.
AskTrigger(u, c) ==
    c \in DOMAIN db.counters /\ Command(u, Asking("trigger", c, FALSE)) /\ NoWrite
AskReport(u, c) ==
    c \in DOMAIN db.counters /\ Command(u, Asking("report", c, FALSE)) /\ NoWrite

\* /import without data.
AskImport(u, replace) == Command(u, Asking("import", 0, replace)) /\ NoWrite

\* A command that only reads: /help, lists, an id that is malformed or unknown.
Look(u) == pending[u] # NoFlow /\ Command(u, NoFlow) /\ NoWrite

-----------------------------------------------------------------------------
(* Answers.                                                                 *)

SaveCounter(u, in) ==
    /\ Answer(u, "counter")
    /\ in.cid \in Numeric /\ in.token # NoToken
    /\ CidFree(db, in.cid)
    /\ Room(db.lastCounter)
    /\ Write(CreateCounter(db, in.cid, in.label, in.token))
    /\ Done(u)
    /\ Plain

\* Mutant: the weeks are not bounded.
AcceptedAnyWeeks(in) == in.name # Blank /\ in.weeks >= 0 /\ in.floor >= 0
\* What saveTrigger accepts of a rule.
Accepted(in) == in.name # Blank /\ in.weeks \in 0..12 /\ in.floor >= 0

Rule(c, in, weeks) ==
    [counter |-> c, name |-> in.name, weeks |-> weeks, floor |-> in.floor, on |-> TRUE]

StrayTrigger(c) ==
    strays' = IF c \in DOMAIN db.counters THEN strays
              ELSE [strays EXCEPT !.triggers = @ \union {db.lastTrigger + 1}]

SaveTrigger(u, in) ==
    /\ Answer(u, "trigger")
    /\ Accepted(in)
    /\ Room(db.lastTrigger)
    /\ Write(CreateTrigger(db, Rule(pending[u].counter, in, Weeks(in.weeks))))
    /\ StrayTrigger(pending[u].counter)
    /\ Done(u)
    /\ UNCHANGED odd

SaveReport(u, in) ==
    LET c == pending[u].counter IN
    /\ Answer(u, "report")
    /\ in.name # Blank
    /\ Room(db.lastReport)
    /\ Write(CreateReport(db, [counter |-> c, name |-> in.name, period |-> in.period, on |-> TRUE]))
    /\ strays' = IF c \in DOMAIN db.counters THEN strays
                 ELSE [strays EXCEPT !.reports = @ \union {db.lastReport + 1}]
    /\ Done(u)
    /\ UNCHANGED odd

\* Nobody looks for a destination of the same address.
SaveAlertAction(u, row) ==
    /\ Answer(u, "action")
    /\ Room(db.lastAction)
    /\ Write(CreateAlertAction(db, row))
    /\ Done(u)
    /\ Plain

-----------------------------------------------------------------------------
(* Commands that write at once.                                             *)

RemoveCounter(u, c) ==
    /\ c \in DOMAIN db.counters
    /\ Command(u, NoFlow) /\ Write(DeleteCounter(db, c)) /\ Plain

RemoveTrigger(u, t) == Command(u, NoFlow) /\ Write(DeleteTrigger(db, t)) /\ Plain
RemoveReport(u, r) == Command(u, NoFlow) /\ Write(DeleteReport(db, r)) /\ Plain
RemoveAction(u, a) == Command(u, NoFlow) /\ Write(DeleteAlertAction(db, a)) /\ Plain
Reschedule(u, at) == Command(u, NoFlow) /\ Write(SetSetting(db, at)) /\ Plain

\* /export [id] [safe]
Export(u, c, safe) ==
    /\ OneMore
    /\ Command(u, NoFlow)
    /\ ExportStart(u, c, safe)
    /\ UNCHANGED <<job, again, writes, history>>

Exporting ==
    /\ ExportTriggers \/ ExportReports \/ ExportDone
    /\ UNCHANGED <<pending, job, again, writes, history>>

\* /import with the data in the command, or a file as the answer.
Import(u, f, replace) ==
    /\ OneMore
    /\ \/ Command(u, NoFlow) /\ ImportStart(u, f, replace, FALSE)
       \/ /\ Answer(u, "import") /\ replace = pending[u].replace
          /\ ImportStart(u, f, replace, TRUE)
          /\ UNCHANGED pending
    /\ writes' = writes + 1
    /\ UNCHANGED <<job, again, history>>

Importing ==
    /\ tx # NoTx
    /\ Room(tx.store.lastCounter) /\ Room(tx.store.lastTrigger)
    /\ Room(tx.store.lastReport) /\ Room(tx.store.lastAction)
    /\ ImportStep
    /\ UNCHANGED <<pending, job, again, writes, history>>

ImportRefused ==
    /\ ImportFails
    /\ UNCHANGED <<pending, job, again, writes, history>>

\* A file that was the answer closes the flow.
Imported ==
    /\ ImportCommit
    /\ pending' = IF tx.flow THEN [pending EXCEPT ![tx.by] = NoFlow] ELSE pending
    /\ again' = IF HasKind(tx.file, "schedule")
                THEN [again EXCEPT ![tx.by] = tx.store.schedule] ELSE again
    /\ settled' = IF tx.replace THEN << >> ELSE tx.file
    /\ UNCHANGED <<job, writes, strays, odd>>

\* The transaction has set the schedule already; another user may have changed
\* it since.
ScheduleAgain(u) ==
    /\ again[u] # Unset /\ tx = NoTx
    /\ db' = SetSetting(db, again[u])
    /\ again' = [again EXCEPT ![u] = Unset]
    /\ settled' = IF db' = db THEN settled ELSE << >>
    /\ UNCHANGED <<tx, export, file, pending, job, writes, strays, odd>>

-----------------------------------------------------------------------------
(* The HTTP API: neither handler looks at the counters.                     *)

PostCounter(in) ==
    /\ in.token # NoToken
    /\ CidFree(db, in.cid)
    /\ Room(db.lastCounter)
    /\ Write(CreateCounter(db, in.cid, in.label, in.token))
    /\ odd' = (odd \/ in.cid \notin Numeric)
    /\ UNCHANGED <<pending, strays>>

\* The weeks have no upper bound and the floor has none at all.
PostTrigger(c, in) ==
    /\ Room(db.lastTrigger)
    /\ Write(CreateTrigger(db, Rule(c, in, IF in.weeks <= 0 THEN 4 ELSE in.weeks)))
    /\ StrayTrigger(c)
    /\ odd' = (odd \/ ~(in.name # Blank /\ in.weeks <= 12 /\ in.floor >= 0))
    /\ UNCHANGED pending

-----------------------------------------------------------------------------
(* The engine has read a counter, and a rule of it, and writes later: the   *)
(* alert, the cooldown and the cursor, here in one step, or a snapshot.     *)

Start(c, t) ==
    /\ job = NoJob /\ OneMore
    /\ c \in DOMAIN db.counters
    /\ t = 0 \/ t \in TriggersOf(db, c)
    /\ job' = [counter |-> c, trigger |-> t]
    /\ UNCHANGED <<transferVars, again, writes, history>>

\* The scheduler or the poller starts a job, or an administrator does.
Tick(c, t) == Start(c, t) /\ UNCHANGED pending
RunNow(u, c, t) == Command(u, NoFlow) /\ Start(c, t)

Engine ==
    /\ job # NoJob /\ tx = NoTx
    /\ LET c == job.counter  t == job.trigger IN
       db' = IF t = 0 THEN CreateReportSnapshot(db, c)
             ELSE SetLastHourChecked(RecordTriggerFire(CreateAlert(db, c, t), t), c)
    /\ job' = NoJob
    /\ UNCHANGED <<tx, export, file, pending, again, writes, history>>

Crash ==
    /\ tx' = NoTx /\ export' = NoExport /\ job' = NoJob
    /\ pending' = [u \in Users |-> NoFlow]
    /\ again' = [u \in Users |-> Unset]
    /\ UNCHANGED <<db, file, writes, history>>

-----------------------------------------------------------------------------
Asks(u) ==
    \/ AskCounter(u) \/ AskAction(u) \/ Look(u)
    \/ \E c \in DOMAIN db.counters : AskTrigger(u, c) \/ AskReport(u, c)
    \/ \E replace \in BOOLEAN : AskImport(u, replace)

Saves(u) ==
    \/ \E in \in CounterInputs : SaveCounter(u, in)
    \/ \E in \in RuleInputs : SaveTrigger(u, in)
    \/ \E in \in ReportInputs : SaveReport(u, in)
    \/ \E row \in ActionInputs : SaveAlertAction(u, row)

Removes(u) ==
    \/ \E c \in DOMAIN db.counters : RemoveCounter(u, c)
    \/ \E t \in DOMAIN db.triggers : RemoveTrigger(u, t)
    \/ \E r \in DOMAIN db.reports : RemoveReport(u, r)
    \/ \E a \in DOMAIN db.actions : RemoveAction(u, a)
    \/ \E at \in Schedules : Reschedule(u, at)

Transfers(u) ==
    \/ \E args \in ExportArgs : Export(u, args.counter, args.safe)
    \/ \E f \in HandFiles \union {file}, replace \in BOOLEAN : Import(u, f, replace)

Posts ==
    \/ \E in \in CounterInputs : PostCounter(in)
    \/ \E c \in 1..(db.lastCounter + 1), in \in RuleInputs : PostTrigger(c, in)

Jobs ==
    \E c \in DOMAIN db.counters, t \in {0} \union DOMAIN db.triggers :
        Tick(c, t) \/ \E u \in Users : RunNow(u, c, t)

Next ==
    \/ \E u \in Users : Asks(u) \/ Saves(u) \/ Removes(u) \/ Transfers(u)
    \/ Exporting \/ Importing \/ ImportRefused \/ Imported
    \/ \E u \in Users : ScheduleAgain(u)
    \/ Posts
    \/ Jobs \/ Engine
    \/ Crash

Spec == Init /\ [][Next]_vars

-----------------------------------------------------------------------------
TypeOK ==
    /\ IsStore(db) /\ UniqueCids(db)
    /\ tx # NoTx =>
          /\ DOMAIN tx = {"by", "file", "at", "replace", "flow", "store"}
          /\ tx.by \in Users /\ tx.flow \in BOOLEAN /\ tx.replace \in BOOLEAN
          /\ tx.at \in Ids
          /\ Readable(tx.file)
          /\ IsStore(tx.store) /\ UniqueCids(tx.store)
    /\ export # NoExport =>
          /\ DOMAIN export = {"by", "rows", "left", "part", "counters", "triggers", "reports", "rest"}
          /\ export.by \in Users
    /\ pending \in [Users -> Flow \union {NoFlow}]
    /\ job \in Job \union {NoJob}
    /\ again \in [Users -> Schedules \union {Unset}]
    /\ writes \in 0..MaxWrites
    /\ strays.triggers \subseteq 1..db.lastTrigger /\ strays.reports \subseteq 1..db.lastReport
    /\ odd \in BOOLEAN

(* A prompt is opened for an administrator only ("prompts are only ever      *)
(* opened for admins", bot.go:137) and for a counter that existed, so no id  *)
(* a row, a flow or a running job holds is one that is still to be handed    *)
(* out; only a rule that was inserted without its counter may name such a    *)
(* one.                                                                      *)
ReferencesIssued ==
    /\ Issued(db)
    /\ \A t \in DOMAIN db.triggers \ strays.triggers : db.triggers[t].counter <= db.lastCounter
    /\ \A u \in Users : pending[u] # NoFlow =>
          u \in Admins /\ pending[u].counter <= db.lastCounter
    /\ job # NoJob => job.counter <= db.lastCounter /\ job.trigger <= db.lastTrigger

(* "The dependent rows are removed explicitly rather than left orphaned"     *)
(* (repo.go:82): deleting and importing leave no rule and no report without  *)
(* its counter; those there are were inserted when the counter was gone, by  *)
(* an answer to a prompt of before or by the API.                            *)
OrphansAreStrays ==
    /\ \A t \in DOMAIN db.triggers \ strays.triggers : db.triggers[t].counter \in DOMAIN db.counters
    /\ \A r \in DOMAIN db.reports \ strays.reports : db.reports[r].counter \in DOMAIN db.counters

(* A new counter inherits nothing of one that was deleted or replaced (no    *)
(* report, alert or snapshot, no open flow, no running poll that would move  *)
(* its cursor), and a new rule no cooldown: ids are not handed out twice.    *)
NothingInherited ==
    [][/\ \A c \in DOMAIN db'.counters \ DOMAIN db.counters :
            /\ db'.counters[c].cursor = FALSE
            /\ TriggersOf(db, c) \subseteq strays.triggers
            /\ ReportsOf(db, c) = {} /\ c \notin db.snapshots
            /\ \A a \in db.alerts : a.counter # c
            /\ \A u \in Users : pending[u] # NoFlow => pending[u].counter # c
            /\ job # NoJob => job.counter # c
       /\ \A t \in DOMAIN db'.triggers \ DOMAIN db.triggers :
            /\ t \notin db'.cooldowns
            /\ \A a \in db'.alerts : a.trigger # t
      ]_vars

(* "Removes a counter and everything scoped to it" (repo.go:81): with a      *)
(* counter go its rules, their cooldowns, its reports, alerts and snapshots. *)
DeletedWithItsRows ==
    [][\A c \in DOMAIN db.counters \ DOMAIN db'.counters :
            /\ TriggersOf(db', c) = {} /\ ReportsOf(db', c) = {}
            /\ c \notin db'.snapshots
            /\ \A a \in db'.alerts : a.counter # c
            /\ TriggersOf(db, c) \cap db'.cooldowns = {}
      ]_vars

\* How often an entry is in a file, and in a store.
InFile(f, e) == Cardinality({i \in DOMAIN f : f[i] = e})
InStore(s, e) ==
      Cardinality({c \in DOMAIN s.counters : CounterEntry(s.counters[c], FALSE) = e})
    + Cardinality({t \in DOMAIN s.triggers : s.triggers[t].counter \in DOMAIN s.counters
                      /\ TriggerEntry(s.counters[s.triggers[t].counter].cid, s.triggers[t]) = e})
    + Cardinality({r \in DOMAIN s.reports : s.reports[r].counter \in DOMAIN s.counters
                      /\ ReportEntry(s.counters[s.reports[r].counter].cid, s.reports[r]) = e})
    + Cardinality({a \in DOMAIN s.actions : ActionEntry(s.actions[a]) = e})
    + (IF s.schedule # Unset /\ ScheduleEntry(s.schedule) = e THEN 1 ELSE 0)
Normal(e) == IF e.kind = "trigger" THEN [e EXCEPT !.weeks = Weeks(@)] ELSE e
NormalFile(f) == [i \in DOMAIN f |-> Normal(f[i])]
Committing == tx # NoTx /\ tx' = NoTx /\ tx.at \notin DOMAIN tx.file

(* A replacing import leaves what the file says, every entry as often as it  *)
(* is there, and nothing else but the destinations and the schedule when the *)
(* file has none.  A file is applied as a whole or not at all.               *)
ReplaceRestores ==
    [][tx # NoTx /\ tx.replace /\ db' # db =>
         LET f == NormalFile(tx.file) IN
         /\ \A i \in DOMAIN f : InStore(db', f[i]) = InFile(f, f[i])
         /\ DOMAIN db'.triggers = {t \in DOMAIN db'.triggers :
                                     db'.triggers[t].counter \in DOMAIN db'.counters}
         /\ Cardinality(DOMAIN db'.counters) + Cardinality(DOMAIN db'.triggers)
                + Cardinality(DOMAIN db'.reports)
              = Cardinality({i \in DOMAIN f : f[i].kind \in {"counter", "trigger", "report"}})
         /\ IF HasKind(f, "action")
            THEN Cardinality(DOMAIN db'.actions) = Cardinality({i \in DOMAIN f : f[i].kind = "action"})
            ELSE db'.actions = db.actions
         /\ ~HasKind(f, "schedule") => db'.schedule = db.schedule
      ]_vars

\* What a merge may not lose: ids, names, cursors, tokens, history.
Kept(s, z) ==
    /\ \A c \in DOMAIN s.counters :
          /\ c \in DOMAIN z.counters
          /\ z.counters[c].cid = s.counters[c].cid /\ z.counters[c].cursor = s.counters[c].cursor
          /\ s.counters[c].token # NoToken => z.counters[c].token # NoToken
    /\ \A t \in DOMAIN s.triggers :
          /\ t \in DOMAIN z.triggers
          /\ z.triggers[t].counter = s.triggers[t].counter /\ z.triggers[t].name = s.triggers[t].name
    /\ \A r \in DOMAIN s.reports :
          /\ r \in DOMAIN z.reports
          /\ z.reports[r].counter = s.reports[r].counter /\ z.reports[r].name = s.reports[r].name
    /\ \A a \in DOMAIN s.actions : a \in DOMAIN z.actions /\ z.actions[a].dest = s.actions[a].dest
    /\ z.cooldowns = s.cooldowns /\ z.alerts = s.alerts /\ z.snapshots = s.snapshots

(* A merge takes nothing away: counters keep their ids, their cursors and a  *)
(* token the file leaves out, rules their ids and so their cooldowns, and    *)
(* the history stays.                                                        *)
MergeKeeps == [][tx # NoTx /\ ~tx.replace => Kept(db, db')]_vars

(* Merging a file a second time changes nothing, also when it has two rules  *)
(* of one name; nor does merging an export, with or without its tokens, of   *)
(* just this configuration, when no two of its rules or destinations are     *)
(* called the same.                                                          *)
Distinct(s) ==
    /\ \A t, v \in DOMAIN s.triggers : s.triggers[t].counter = s.triggers[v].counter
          /\ s.triggers[t].name = s.triggers[v].name => t = v
    /\ \A r, v \in DOMAIN s.reports : s.reports[r].counter = s.reports[v].counter
          /\ s.reports[r].name = s.reports[v].name => r = v
    /\ \A a, b \in DOMAIN s.actions : s.actions[a].dest = s.actions[b].dest => a = b
OwnExport(s, f) ==
    \A i \in DOMAIN f :
        \/ InStore(s, f[i]) = 1
        \/ f[i].kind = "counter" /\ f[i].token = NoToken
           /\ \E c \in DOMAIN s.counters : CounterEntry(s.counters[c], TRUE) = f[i]
MergeIsIdempotent ==
    [][Committing /\ ~tx.replace =>
          \/ db' = db
          \/ tx.file # settled /\ ~(Distinct(db) /\ OwnExport(db, tx.file))
      ]_vars

(* What Export writes, Import reads ("how to import: send this file back",   *)
(* commands.go:511), though rows changed while it was written: counters are  *)
(* there once, every rule has its counter in the file, and no entry is       *)
(* refused unless the API had stored what the bot would not.                 *)
ExportLoads ==
    /\ \A i \in DOMAIN file :
          file[i].kind \in {"trigger", "report"} =>
             \E j \in 1..i : file[j].kind = "counter" /\ file[j].cid = file[i].cid
    /\ \A i, j \in DOMAIN file :
          file[i].kind = "counter" /\ file[j].kind = "counter" /\ file[i].cid = file[j].cid => i = j
    /\ ~odd => \A i \in DOMAIN file : Valid(file[i])

=============================================================================
