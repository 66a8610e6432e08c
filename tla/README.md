# metrika-alert in TLA+

The service watches Yandex.Metrika counters: it compares a window of ten-minute
buckets with the same window of earlier weeks, alerts chats and webhooks when a
rule's threshold is passed, and sends periodic reports. It is one Go process
around one SQLite database. This project models what its goroutines do to that
database and to each other. Paths below are relative to the repository root;
file names without a path are in `internal/engine/` (or `internal/model/repo.go`).

## The system

| Part | State | Operations | Works with |
|---|---|---|---|
| Poller (`poller.go`) | map of watched counters, one goroutine and context each; each counter's cursor, in the database | Start, supervise, reconcile, stopAll; per counter pollCounterLoop and advance; RunOnce | reads counters, calls Evaluator, writes the cursor |
| Evaluator (`evaluator.go`) | none of its own; rules, cooldown and alert rows | EvaluateWindow: list, group by scope, fetch, judge, deliver, record | Metrika client, Router, Store |
| Baseline (`baseline.go`) | none | WindowSum, BuildBaseline, Judge | called by Evaluator and Reporter |
| Report scheduler (`scheduler.go`, `schedule.go`) | two settings rows: schedule and last run | tick every minute, SetSchedule, Next, Due | Reporter; chats change the schedule |
| Reporter (`reporter.go`) | snapshot rows | RunReports, RunReportFor, the window of a report | Metrika client, Router, Store |
| Router (`internal/alert/router.go`) | chat senders, fixed at start | Alert, deliver, broadcastToAdmins | action rows, transports, webhooks |
| Metrika client (`metrika.go`, `report_client.go`, `urlfilter.go`) | none | one request with up to three attempts; deriving intervals; filters | external API |
| Store (`internal/model/repo.go`, `types.go`) | eight tables | row operations; only DeleteCounter and Import are transactions | everybody |
| Schema (`db.go`) | table layouts | migrations at start | Store |
| Export, import (`export.go`) | rows | Export, Import (merge or replace) | Bot |
| Bot (`internal/bot/`) | the pending flow of each user | commands, prompts and answers, /poll and /report on goroutines of their own | Store, Poller, Reporter, scheduler |
| Transports (`internal/bot/telegram.go`, `vkteams.go`, `internal/vkteams/`) | long-poll position in memory | receive, send, split | Bot, Router |
| API (`internal/api/server.go`) | none | POST of counters, triggers and reports, GET of the rest | Store, Reporter |
| Process (`cmd/server/main.go`, `internal/config/`) | configuration, one context | start in order, cancel, wait ten seconds | all |

Parts meet in three ways: calls on one goroutine, rows of the database with no
lock held from a read to the write that depends on it, and cancelled contexts.
What is hard about them:

* **Concurrency.** One counter may be advanced by its loop, by a second loop
  while its interval is being changed (the cancelled one first finishes its
  advance), and by any number of /poll commands. Between them there is
  only the database.
* **Crashes.** Alert, alert row, cooldown and cursor are four steps; so are
  recording and sending a report.
* **Stale answers.** A flow remembers a counter from its prompt to its answer, a poll
  from its start to its last write, an export from one table to the next; rows go away in between.
* **Partial failure.** A window is judged scope by scope; each has a request that
  may fail, and rules fail one by one.
* **Fan-out.** One notice goes to many destinations and one run has many reports; each
  may fail, be cut off, or have arrived although an error came back.
* **Time.** Windows are settled, aligned within the day and capped per check;
  schedules mix intervals with times of day.

For each part, what makes it correct: the *engine*, once a counter has a cursor, leaves no window unjudged, does
not repeat an alert within its cooldown or for one window, and catches up; the
*poller* polls exactly the counters there are, at their intervals, with one
goroutine each; the *scheduler* sends every report once and on time; the *router*
tries every channel and reports a failure; *import* is all or nothing and gives
back what export wrote; *sessions* save only rows that belong to something;
*transports* handle an event once while they run and never send a part over the
limit.

## The modules

**`AlertEngine`** (checked through `MCAlertEngine`) is one counter: its row, rules,
cooldowns and alerts, and any number of goroutines inside `advance`. Counters share
no rows, so one stands for all. Each database query, API request, delivery and write
is an action of its own; the goroutine's local variables are functions of the
goroutine. `BeginFirst` and `BeginNext` are GetCounter with pendingWindows; `List…`,
`Fetch…`, `Judge…`, `Deliver`, `RecordTriggerFire` and `Evaluate…` are EvaluateWindow;
`MoveCursor` is SetLastHourChecked and the loop of advance. Deletions by an admin,
the clock and the death of the process interleave anywhere. Whether the data of a
window deviates is a free choice, as is which allowed call fails. Time is the index
of the newest settled window. Variables called *history* only record what properties
speak of. Adding a rule, or an import that enables or changes one, belongs to the store's module:
to the engine a new rule is one with no cooldown and no alerts. Two neighbouring steps of the code are one where nothing
in between is read: `ListSome` is the existence check of ListTriggers with its query (`repo.go:142-147`), `Deliver` the
router's delivery with the alert row (`evaluator.go:223-237`), and a Begin action reads the counter and the clock at once.
`origin` and `between` record how a counter without a cursor started: the window its cursor was first set to, and
those between the windows of two first checks that ran at once. `torn` says that a write following an alert
was lost, by a failure or a crash: the code makes no promise about repetition after that, and `AlertedOncePerWindow` and
`CooldownHonoured` make none either. An alert that went out and whose cooldown was never written does come again.

**`CatchUp`** relates those indices to minutes: truncateTo, pendingWindows, the
ticker of pollCounterLoop, /poll and outages, with a window that succeeds or fails as a
whole. Midnight is in the model, a change of the clock is not.

**`ReportScheduler`** (`MCReportScheduler`) is the tick of the scheduler, step by
step, with Next and Due as operators, a chat that changes the schedule and a process that
stops anywhere. A day has a few minutes; RunReports is one step, as nothing of it is
read back.

**`PolledSet`** says what the poller promises, with no goroutines in it: it looks at the
rows, and at one stroke what it polls becomes what it saw. **`WatchSet`** is the code:
the map, reconcile with its list read before the lock, goroutines that notice their cancelled
context only in their select, and shutdown. Its `Promise` substitutes for what is
polled the goroutines that are not cancelled. A cancelled goroutine may still take one
tick (select takes any ready channel); that is one of the overlaps of AlertEngine.

**`Store`** is the database: tables as functions from ids to rows with the counter of
AUTOINCREMENT beside each, and one operator for every statement (or transaction) of repo.go
that changes rows, including the three that RunReports and the engine use. **`Transfer`** is export.go.
A file is a sequence of entries in the order Import applies them. Export reads the tables one after
another with no transaction (`ExportStart`, `ExportTriggers`, `ExportReports`, `ExportDone`); Import
validates everything, then works on a copy, one entry per step, that is committed or dropped. **`Admin`**
(checked through `MCAdmin`) is everybody who writes: users with their flows (`Ask…` opens one, `Save…`
answers, `Remove…`, `Reschedule`, `Export`, `Import` are commands), the API (`Post…`), a poll or report that read
its counter and writes later (`Tick`, `RunNow`, `Engine`), and a restart. SQLite has one writer, so no other
write comes between the steps of an import; reads do. Values are kept as far as a validator or a merge
tells them apart: a rule has a name, weeks (never zero in a row: the API and the import store four instead), a floor and
a switch. A file has one place for a schedule. `strays`, `odd` (a row that an import would refuse, stored by the API or
before the behaviour begins) and `settled` are history.

**`Verdict`**, **`Split`** and **`Delivery`** are what the jobs that end in messages are made of. `Verdict`
has the days fetchSeries asks for, the intervals FetchByTime reads or derives, WindowSum, the median, the
baseline and Judge; a baseline is kept doubled, so all figures are whole. `Split` has splitMessage and
hardSplit over texts in which only what a platform counts is kept of a rune. `Delivery` is Router.Alert:
destinations in order, refused, accepted, or reached although an error came back; Telegram's second
try as plain text; the administrators when no row is there. **`Outbound`** (through `MCOutbound`)
composes them: a job is a run of the reports, the judging of one rule, or a bot's reply, and goes on
request by request, each of which has the attempts of transport.do (`Ask`, `Answered`, `Throttled`,
`Denied`, `CutOff`, `PauseOver`). What a job reads from the database is any set of rows, since users change them at
any time. The context may be cancelled at any point, and any request and send may fail, any number of times. Which days
a card compares is left out (see *Also noticed*). Jobs share nothing but
the database, so one at a time is enough; several at once are AlertEngine's. **`ReportRun`** is what a run promises,
with no request in it: it takes reports, settles each once, and returns an error exactly if one failed.

`AlertEngineProofs`, `CatchUpProofs`, `ReportSchedulerProofs`, `WatchSetProofs`, `OutboundProofs` and
`AdminProofs` hold the theorems; `TransferProofs` continues the last with what exports and
imports do to files and stores, and `OutboundProofs` rests on `SplitProofs` for the parts of a text. Operators introduced by a comment "Mutant:" are faulty variants
of the definition that follows them and are used by no specification; each makes
one property fail and shows that the property depends on that line of code.

## The runs

| Run | Question | Answer |
|---|---|---|
| `engine_concurrent` | Two goroutines, one failure or crash, one deletion, one page the API always refuses, cap 2 of 3 windows: from the first window the cursor was set to, is one passed unjudged? Is a rule passed over without an alert, a cooldown broken by one goroutine? | no; only windows between those of two first checks at once may be left out |
| `engine_serial` | The loop alone with a malformed rule and a failure or crash: cooldown, one alert per window, cursor, catching up | hold |
| `engine_overlap` | Is the cooldown kept when a /poll overlaps the loop? | **no**: both check before either stamps |
| `engine_skip` | Is every rule looked at in every judged window? | **no**: a failed scope is forgotten when another one alerts |
| `catchup_steady` | A 25-minute day, step 3 (does not divide it), interval 7, cap 4; two outages, a failure, a /poll | settled, gapless, catches up, noticed in time |
| `catchup_default` | The default values and a two-hour outage | **never catches up** |
| `scheduler_installed` | Four schedules, two changes, a fault, a service that has reported before | paced, and nothing due is left |
| `scheduler_fresh` | A service that has never reported gets a time of day | **never reports** |
| `scheduler_restart` | A restart skips nothing | **it may** |
| `watch_supervise` | Two counters, two changes of the rows, three intervals of which two are one cadence, shutdown | one goroutine each, PolledSet implemented, settles |
| `admin_steps` | Two administrators, a stranger, the API, exports, imports (own exports and four files by hand), a poll or report, a restart; two changes over a database in use: do rows, flows, jobs and files fit each other? | yes; orphans come only from stale answers and the API |
| `outbound_jobs` | A run over up to three reports and two counters, 129 histories for each of twelve rules, 1458 replies; two rows and two administrators as destinations, any number of failures, a cancellation | everyone tried, every report settled, verdicts and parts right, every job ends unless Telegram leaves a send without an answer |

Bounds. Two goroutines are enough for every race between a check and its write, as each
property relates at most two of them; for more there are the proofs. Two scopes with one
broken give both orders of failure and alert, and the third rule of `engine_serial` shares
a scope. A cooldown of two steps in three is long enough to hold and short enough to end. Each
fault, edit, outage and change is bounded by a constant named `Max…`; one fault at every
point of every interleaving is what the properties distinguish, and a second one starts from a
state the first run reaches too, because the rows are all that survives. In `CatchUp`
the horizon covers six days and outages shorter than, near and longer than a day;
in `ReportScheduler` two days and a half with times of day on both sides of the changes.
In `Admin` two writes and two things open at a time are the shortest stories of each hazard (a deletion within
a flow, a change within an export, an import of what was just written, one import after another); an import
is as long as its file. In `Outbound` a call has its three attempts, and nothing bounds how many requests and sends fail: it is the code's own
limits that end a job.
A day has two intervals and a window two, so windows reach over midnight; a baseline looks back two
or three weeks (an even and an odd number of samples, and too few); answers are complete, without their times, twice as
coarse, cut short, too young, torn in the middle or a single interval. A platform's limit is four and a
text has six runes, which gives up to four parts, lines longer than a message and markers that grow.
Deadlock is checked in `outbound_jobs`; elsewhere it is not because every clock stops at its bound and a stopped service
does nothing more.

### What the violated runs mean

1. *Duplicate alerts* (`evaluator.go:214`, README.md:139). The cooldown is a read, a delivery
   and a write; a second goroutine may read in between. What holds for any number of goroutines
   is proved instead: none repeats *its own* alert.
2. *A window forgotten by one scope* (`evaluator.go:86`, `poller.go:271`). Retrying would repeat
   the alert already sent, so the code passes the window. `SkipNeedsAlert` says this is the
   only way a rule is passed over.
3. *No catching up* (`poller.go:303`, DEPLOY.md:308). At a default interval of sixty minutes
   six windows of ten minutes come and six go. A shorter interval or a greater cap
   works, which is what `catchup_steady` shows.
4. *A first daily report never comes* (`schedule.go:140`, README.md:149). Without a last run the
   next time is always ahead, and only a run sets the last run.
5. *A restart skips a report* (`scheduler.go:100`, `repo.go:399`). This is the price of
   recording first; `Paced` is what it buys.

## Fairness

Stated only where liveness is checked. *engine_serial*: weak fairness of each goroutine's next
step other than a delivery, as the loop's ticker always comes again, the requests to Metrika time out and the database
answers. A delivery has no such bound: Telegram's client has no timeout (`cmd/server/main.go:201`) and is given no context
(`internal/alert/router.go:184`). So `CatchesUp` says what it does on the condition that deliveries return
(`DeliveriesReturn`); one that never does holds its counter for good. Failures are bounded, so "eventually" means once the API works. Nothing obliges the
clock, deletions or crashes. *watch_supervise*: weak fairness of listing, of the rest of
reconcile, of stopAll and of advance returning, strong fairness of a cancelled goroutine leaving:
its select chooses at random between a tick and the closed channel, which stays closed. *outbound_jobs*: weak fairness of the job's own steps
(`Service`) and of judging a series in hand; answers and failures are both in `Service`, so which one comes is
open, and all of them may fail: what ends the retries is the code. Metrika's client has a timeout of five minutes, VK Teams'
of ninety seconds (`internal/vkteams/client.go:87`), a webhook's of thirty (`router.go:62`), so these requests are answered or fail.
Telegram's has none, so a step that waits for Telegram's answer (`Waits`) is not in the fairness of the specification:
`JobsEnd` has it as its premise, `TelegramAnswers`. Nothing obliges jobs to start or cancellations. The
liveness properties are `CatchesUp` of AlertEngine, `Settles` of WatchSet and `JobsEnd` of Outbound. The
corresponding promises of CatchUp (`CatchesUp`, `NoticedInTime`) and of ReportScheduler
(`ReportsHappen`) count checks and minutes instead and are invariants.

## What is proved

For all values of the constants, under the named ASSUME of each module. Each theorem is
an invariant that implies the property, true at first and kept by every action.

* **AlertEngine.** `TypeCorrect` adds that a goroutine that delivers has a rule in hand.
  `NothingLeftBehind`: *Coverage* adds that for a goroutine at work every window before
  the one in hand is accounted for back to the first (*Follows*), since it takes its place in the batch from a cursor others
  have since moved; and, while there is no cursor, that the windows between any two first checks under way are those
  of `between`, as any of them may be the one that sets the cursor and any other the next to move it. `SkipsNeedAlerts`: *Bookkeeping* adds that each listed rule is
  still to be fetched, still to be judged, judged, or failed with a remembered error, and that
  `fired` has an alert to show. `OwnCooldowns`: *Cooling* adds that a goroutine's last alert is
  no newer than the cooldown row unless it is about to write it; *Past*, that no
  record lies in the future. These need no bound on the goroutines. `CooldownsAlone`, `CursorForward`
  and `OneAlertPerWindow` assume *Alone*, one goroutine, without which they are false:
  *Ahead* puts the window in hand ahead of the cursor, *Once* places every alert
  behind the cursor or in the window in hand of a rule that is done with.
* **CatchUp.** `SettledOnly` and `OneStepAtATime` from two lemmas: truncating goes back by less
  than a step, and each pending window is a step from the cursor or from another one.
  The step need not divide the day. `BacklogCleared` and `DropsNoticed` are about time, where relations of interval, cap
  and step decide: *KeepsPace* says that a check with a full batch gains a step on the clock. `catchup_default`
  shows what becomes of the promise without it. *Pace* adds to the property that since the last trouble each check has taken one
  of the windows owed from the distance between cursor and clock, down to a rest (`Lag`) of a step, or of nearly two
  where a check may leave the grid of one day and meet the next midnight. The second theorem excludes that with *ShortChecks*
  (the step divides the day, or a full check spans less than one): otherwise its bound is off by up to a step.
* **ReportScheduler.** `TypeCorrect`; `ReportsPaced`: *Pacing* adds that nothing was sent after
  the recorded run and that a tick about to record or send found its report due.
  `DueFits` is its arithmetic. `NoneLeftOut`: *Punctual* adds that a tick under way was taken at the present minute, with
  the plan that is stored unless there was trouble since, and that a recorded run is being sent or has been (*Recorded*).
  It needs a last run, without which `scheduler_fresh` is the counterexample, so `EveryReportHappens` asks that the
  service starts with one.
* **WatchSet.** `TypeCorrect`; `NoneAstray` (*Inv*: a goroutine is known by counter and number,
  no number is ahead of the count, nothing runs once the service stops); `NeverRestarted`;
  and `WatchSetImplements`, that every behaviour is one of PolledSet: all the
  goroutines together are what the map says until the service stops.
* **Admin.** One invariant, `IInv`: *Control* (the types of flows, jobs, export and import), *Sound* (the store is a
  store, counter_ids are unique, nothing refers to an id not handed out, and every rule or report without a counter is
  a stray), *Held* (nor do flows and jobs) and *Copy* (an import's copy is sound too and has come from the database by
  growing: `Since`). A lemma per statement shows that it keeps a store sound, and the steps of Admin and of an import
  cite it. From it: `TypeCorrect`, `ReferencesStayIssued`, `OrphansStray`, `NothingIsInherited` (ids only
  grow), `DeletedWhole` (*Whole* goes with the copy) and `MergesKeep` (*Kept* does).
* **Exports and imports** (Admin, in `TransferProofs`). `ExportsLoad`: *Regular* says that all rows, and
  those of a flow or a job, are importable unless the API has been odd; *Exported*, that what an export has gathered names
  the counters it began with and each once. `ReplacesWhole`: *Restoring* counts, kind by kind (`Tallies`), that
  the copy of a replacing import has each entry applied so far as often as the file has it; a bijection between rows and
  entries, extended by each step, gives the equal cardinalities. `MergesOnce`: *Settling* has three parts. After a
  merge, of the entries of one row the last one is what the row says (*Merged*), and what the engine writes later keeps
  this true. While the same file is merged again, its copy differs from the database only in rows that an entry
  still to come will overwrite (*Overlaid*): an earlier entry of the same row does take it back for a while, so
  "the copy equals the database" is not inductive. And merging one's own export leaves the copy equal all the time.
* **Outbound.** *Control* says which data a place of the program goes with; *Calls* what came back
  last; *Notices* and *Tried* that of a notice's destinations those no longer left have it, refused it, or
  could not be tried; *Runs* that what a run chose is what is settled, in hand or still to do. They give `CallsGiveUpRightly`,
  `EveryDestinationIsTried`, `CopiesAreNeeded`, `NoneForgotten`, `RunsAreKept` (the refinement of ReportRun)
  and `JobsTypeCorrect`, for any rows, rules, texts, attempts and failures.
* **Verdicts** (also in `OutboundProofs`). `MedianIsTheMiddle`: of the middle places of the sorted figures, the lower one
  is the least value with half of the figures up to it, the upper one the greatest with half of them from it on, for any
  figures of any number of weeks, since the counts below a value and up to it leave a place exactly one value.
  `SeriesAreRead`: of a series answered in any of the seven forms, WindowSum gives the sum of each week answered in full
  and nothing for any other. The windows of two weeks have no interval in common, all lie within what was asked for, and
  the sum is computed by the one function that satisfies its recursion: two such functions would differ on some smallest
  set of intervals, and agree on it since they agree on a smaller one. `VerdictsAreSound` follows from both. It assumes
  *WholeWindows*, which is about constants: the step is the one that is requested, no window is longer than the one day
  more that fetchSeries reaches back (`evaluator.go:167`), and a torn series starts with two intervals. TLC evaluates it.
* **Splitting** (Split, in `SplitProofs`). `PartsAreWellSplit`, for texts of any length and any limits: the parts fit, with
  room for the marker if there are several, are the runes of the text in their order, newlines apart, and cut no line that fits; there
  are several exactly if the text does not fit, so the first cut at the full limit and the second one with room for the
  marker agree on that, and a part without a marker is never longer than it was measured. Folds have no induction
  here that the prover could apply: FoldLeft is a function chosen over the sets of positions of its sequence. The argument is therefore made once
  about sets, by a smallest counterexample: all functions with the steps of a fold agree (`FoldsAlike`), there is one
  (`FoldsExist`), so one element more is one step more (`AfterOneMore`), and a set of sequences that has the empty one
  and each longer one has all (`AllSequences`). Letters, Lines, Joined and Pairs get their laws from this;
  `LinesMakeTheText` says that lines and texts determine each other, without which "no line is cut" would
  say nothing of the parts. The loops have invariants: *CutWhole*, that what hardSplit has cut and what it holds are
  the line so far, that all of it fits and something is held once a rune was read; *Kept*, that the parts so far and the lines that wait
  are the lines so far, that both fit and each line that fits is whole in one of them; *Several*, that a text leaving
  one part alone would have waited as a whole, and so have fitted. `RepliesAreWhole` takes this to the job: *Cut* says that the parts at hand are
  those of a reply's text, and that one is left while they are sent. *SplitAssumption* asks that the limit less the marker's room
  is two units or more, the widest rune: both limits are thousands, the room is 20 (`split.go:8`, `split.go:12`).

Only model-checked: liveness (`CatchesUp` of AlertEngine, `Settles`, `JobsEnd`), which is out of the prover's reach.

## Not modelled

* **Schema and migrations.** Each is one ALTER or one rebuild of a table, whose effect is SQLite's; a model
  would restate the SQL. Store has the columns and keys that are left.
* **Long polls** (`telegram.go:109`, `vkteams.go:49`). What is sent again after an error or a restart is decided by
  the servers, of which the repository says little.
* **Shutdown order** (`main.go:309`). That goroutines outlive the ten seconds is covered by AlertEngine's crash at any
  point.
* **Within what is modelled:** fetchSeries asks for as many weeks as the deepest rule of its scope does, where Outbound
  has one rule and its own; the alert row and the cooldown are one step of Outbound and two of AlertEngine; a
  change of the clock, the rounding of a deviation of exactly the threshold, figures, days and texts of the cards. Removing
  a counter is one step, its lookup included (`commands.go:74-79`), and an export reads the rules of several counters in fewer steps
  than it has queries (`export.go:186-214`). An import trims a counter_id (`export.go:284`, `export.go:492`) and the API does not
  (`server.go:161-170`): in the model ids have no blanks, while in the code such a counter comes back from its own export as a
  second one. A send to VK Teams is a GET (`internal/vkteams/client.go:106`), which net/http may repeat by itself on a connection that broke:
  `NoNeedlessCopies` speaks of what the service sends. An answer that breaks off while it is decoded counts as refused
  (`metrika.go:167`), as in the code, though a second request might have had it.

Left out for good: parsing of configuration and schedules, wording, Markdown,
TLS and proxies, the health probe, and vendored libraries. The Metrika API, the chat APIs,
SQLite's atomic statements and the Go runtime are taken as the code uses them.

*Also noticed* and not checked by a run of its own:

* A window that fails in the first check of a counter is not retried: the cursor is still NULL, so the next check begins at the
  newest window (`poller.go:296`), though `poller.go:271` says that the window "is retried rather than silently skipped".
  The test for it (`poller_test.go:169`) has just such a counter, and asks only that the cursor stays NULL. And two first checks that run at once, the loop's and a /poll's, for
  different windows leave those in between unjudged. `NoGap` names both as what it does not promise.
* The cards compare a part of a day with whole ones: for `today`, `7d` and `30d` the report's own period ends today
  (`reporter.go:91-120`), and what it is compared with are full days, so before the day is over the arrows point down. That is
  what the comment at `reporter.go:30-33` and the test at `reporter_test.go:122` say must not happen. Equal numbers of days are
  there in a constant table, so a property of them would show nothing.
* An alert that no destination got still starts the cooldown (`evaluator.go:223`).

Also: a `step_minutes` other than ten is refused for every window because
requests always ask for ten-minute groups (`evaluator.go:176-187`), though DEPLOY.md advises changing
it; the default interval is sixty minutes, though README.md:3 says ten; a rule with one week of baseline
is accepted and never fires, as a verdict needs two samples (`evaluator.go:33`); goals of one name are one entry of a
snapshot (`reporter.go:375`); an import sets the schedule a second time after its transaction (`pending.go:648`), over what
somebody else may have set in between.

## Running

`tlc -config <cfg> <module>` for a run listed in `PROJECT.json`, `tlapm <module>` for a proof
module. The longest run takes about two minutes.
