--------------------------------- MODULE Outbound --------------------------------
(***************************************************************************)
(* The jobs that end in messages: a run of the reports, the judging of a    *)
(* rule, and a bot's reply.  Each is followed request by request, from the  *)
(* database and Metrika to the destinations.  What a job reads from the     *)
(* database is left open: users change it between any two of its steps (see *)
(* Admin).  Jobs share nothing else, so one is followed at a time; what     *)
(* several at once do to a cooldown is AlertEngine's.                       *)
(***************************************************************************)
EXTENDS Delivery, Verdict, Split

CONSTANTS
    Nil,
    Counters,      \* ids of counters there may be
    Reports,       \* report rows there may be
    Rules, Ends,   \* rules and ends of windows
    Histories,     \* sums of the weeks' windows, each with the form they are answered in
    Replies,       \* texts a bot answers with, each with its platform
    MaxAttempts    \* requests made of one call

VARIABLES
    pc, result,
    (* a call of Metrika's API *)
    call,          \* "none", "asking", "pausing", "ok" or "failed"
    tries,         \* requests made of it
    last,          \* history: what came back last
    (* a run of the reports *)
    target,        \* the counter it is for; 0: all
    known,         \* the counters it read
    configured,    \* history: the report rows it read
    todo, report, outcome,
    nth,           \* which comparison of a card is asked for
    (* the judging of a rule, and a reply *)
    rule, verdict,
    judged,        \* history: the form and the sums of what the verdict is on
    reply, rest

client == <<call, tries, last>>
run == <<target, known, configured, todo, outcome>>
others == <<rule, verdict, judged, reply, rest>>
vars == <<pc, result, clients, cancelled, report, router, client, run, nth, others>>

ReportRow == [id : Nat, counter : Counters, enabled : BOOLEAN, valid : BOOLEAN,
              period : {"today", "yesterday", "7d", "30d"}, goals : BOOLEAN, byURL : BOOLEAN]

DefaultReport(c) ==
    [id |-> c, counter |-> c, enabled |-> TRUE, valid |-> TRUE, period |-> "today",
     goals |-> FALSE, byURL |-> FALSE]

NoReply == [platform |-> "none", text |-> << >>, parts |-> << >>]

AllReports == Reports \union {DefaultReport(c) : c \in Counters}

ASSUME OutboundAssumption ==
    /\ Counters \subseteq Nat \ {0} /\ Reports \subseteq ReportRow
    /\ IsFiniteSet(Counters) /\ IsFiniteSet(Reports)
    /\ Rules \subseteq Rule
    /\ Replies \subseteq [platform : {"telegram", "vkteams"}, text : Seq(Runes)]
    /\ Day \in Nat \ {0} /\ MinSamples \in Nat \ {0} /\ Ends \subseteq Nat
    /\ \A h \in Histories, r \in Rules : \A w \in 0..r.weeks : w \in DOMAIN h.sums /\ h.sums[w] \in Nat
    /\ Nil \notin AllReports /\ Nil \notin Rules
    /\ MaxAttempts \in Nat \ {0}

Init ==
    /\ DeliveryInit
    /\ pc = "idle" /\ result = "none"
    /\ call = "none" /\ tries = 0 /\ last = "none"
    /\ target = 0 /\ known = {} /\ configured = {} /\ todo = {} /\ outcome = << >>
    /\ report = Nil /\ nth = 0
    /\ rule = Nil /\ verdict = "none" /\ judged = Nil /\ reply = NoReply /\ rest = 0

End(how) == pc' = "end" /\ result' = how
Goes(p) == pc' = p /\ UNCHANGED result

----
(* A call: requests until one is answered, MaxAttempts at most. *)

Ask(p) == Goes(p) /\ call' = "asking" /\ tries' = 1 /\ last' = "none"
Over == call' = "none" /\ tries' = 0 /\ last' = "none"

Answered ==
    /\ call = "asking" /\ ~cancelled
    /\ call' = "ok" /\ last' = "ok"
    /\ UNCHANGED tries

\* Mutant: one failed request fails the call.
ThrottledOnce ==
    /\ call = "asking" /\ ~cancelled
    /\ call' = "failed"
    /\ last' = "transient"
    /\ UNCHANGED tries

\* Mutant: one request more than there may be.
ThrottledOnceMore ==
    /\ call = "asking" /\ ~cancelled
    /\ call' = IF tries <= MaxAttempts THEN "pausing" ELSE "failed"
    /\ last' = "transient"
    /\ UNCHANGED tries

\* Too many requests, an error of the server or the network.
Throttled ==
    /\ call = "asking" /\ ~cancelled
    /\ call' = IF tries < MaxAttempts THEN "pausing" ELSE "failed"
    /\ last' = "transient"
    /\ UNCHANGED tries

\* Any other refusal, or an answer that cannot be decoded: one that broke off on
\* its way is not asked for again either.
Denied ==
    /\ call = "asking" /\ ~cancelled
    /\ call' = "failed" /\ last' = "permanent"
    /\ UNCHANGED tries

CutOff ==
    /\ call \in {"asking", "pausing"} /\ cancelled
    /\ call' = "failed"
    /\ UNCHANGED <<tries, last>>

\* Mutant: the attempts are counted anew after a pause.
PauseOverAfresh ==
    /\ call = "pausing" /\ ~cancelled
    /\ call' = "asking" /\ tries' = 1
    /\ UNCHANGED last

PauseOver ==
    /\ call = "pausing" /\ ~cancelled
    /\ call' = "asking" /\ tries' = tries + 1
    /\ UNCHANGED last

Do ==
    /\ Answered \/ Throttled \/ Denied \/ CutOff \/ PauseOver
    /\ UNCHANGED <<pc, result, clients, cancelled, report, router, run, nth, others>>

----
(* A run of the reports. *)

\* How many periods a report's own is compared with.
Comparisons(period) ==
    CASE period = "7d" -> 2
      [] period = "30d" -> 1
      [] OTHER -> 3

RunReports(c) ==
    /\ Goes(IF c = 0 THEN "counters" ELSE "get")
    /\ target' = c
    /\ UNCHANGED <<report, router, client, known, configured, todo, outcome, nth, others>>

\* A counter that is gone, or a read that fails, ends the run.
ReadFails ==
    /\ pc \in {"get", "counters", "reports"}
    /\ End("error")
    /\ UNCHANGED <<report, router, client, run, nth, others>>

GetCounter ==
    /\ pc = "get" /\ ~cancelled
    /\ Goes("counters")
    /\ UNCHANGED <<report, router, client, run, nth, others>>

ListCounters(cs) ==
    /\ ~cancelled
    /\ IF cs = {} THEN End("error") ELSE Goes("reports")
    /\ known' = cs
    /\ UNCHANGED <<report, router, client, target, configured, todo, outcome, nth, others>>

Enabled(rows) == {r \in rows : r.enabled}
Defaults == {DefaultReport(c) : c \in IF target = 0 THEN known ELSE known \intersect {target}}

\* Mutant: rows that are switched off keep the default reports away, too.
ReportsToSendOfRows(rows) == IF rows # {} THEN Enabled(rows) ELSE Defaults

ReportsToSend(rows) == IF Enabled(rows) # {} THEN Enabled(rows) ELSE Defaults

ListReports(rows) ==
    /\ ~cancelled
    /\ Goes("next")
    /\ configured' = rows
    /\ todo' = ReportsToSend(rows)
    /\ UNCHANGED <<report, router, client, target, known, outcome, nth, others>>

Settled(r, how) ==
    outcome' = [q \in DOMAIN outcome \union {r} |-> IF q = r THEN how ELSE outcome[q]]

\* A report whose counter was not read is passed over; one with a bad URL filter fails.
Drop ==
    /\ pc = "next" /\ todo # {}
    /\ LET r == First(todo)
       IN  /\ r.counter \notin known \/ ~r.valid
           /\ Settled(r, IF r.counter \notin known THEN "skipped" ELSE "failed")
           /\ todo' = todo \ {r}
    /\ UNCHANGED <<pc, result, report, router, client, target, known, configured, nth, others>>

ReportOne ==
    /\ pc = "next" /\ todo # {}
    /\ LET r == First(todo)
       IN  /\ r.counter \in known /\ r.valid
           /\ report' = r
           /\ todo' = todo \ {r}
    /\ Ask("current")
    /\ UNCHANGED <<router, target, known, configured, outcome, nth, others>>

\* Mutant: the first report that fails ends the run.
CurrentFailsAll ==
    /\ pc = "current" /\ call = "failed"
    /\ End("error") /\ Over
    /\ Settled(report, "failed")
    /\ report' = Nil
    /\ UNCHANGED <<router, target, known, configured, todo, nth, others>>

CurrentFails ==
    /\ pc = "current" /\ call = "failed"
    /\ Goes("next") /\ Over
    /\ Settled(report, "failed")
    /\ report' = Nil
    /\ UNCHANGED <<router, target, known, configured, todo, nth, others>>

Current ==
    /\ pc = "current" /\ call = "ok"
    /\ nth' = 1
    /\ Ask("compare")
    /\ UNCHANGED <<report, router, run, others>>

\* A comparison that cannot be had is left out of the card.
Compare ==
    /\ pc = "compare" /\ call \in {"ok", "failed"}
    /\ IF nth < Comparisons(report.period)
       THEN nth' = nth + 1 /\ Ask("compare")
       ELSE nth' = 0 /\ Ask("goals")
    /\ UNCHANGED <<report, router, run, others>>

\* What follows the goals: the entrance pages, if the report lists them.
AfterGoals == IF report.byURL THEN Ask("urls") ELSE Goes("snapshot") /\ Over

\* Without the list of goals, or with an empty one, those the report names are asked for.
Goals(some) ==
    /\ pc = "goals" /\ call \in {"ok", "failed"}
    /\ some => call = "ok"
    /\ IF some \/ report.goals THEN Ask("reaches") ELSE AfterGoals
    /\ UNCHANGED <<report, router, run, nth, others>>

Reaches ==
    /\ pc = "reaches" /\ call \in {"ok", "failed"}
    /\ AfterGoals
    /\ UNCHANGED <<report, router, run, nth, others>>

URLs ==
    /\ pc = "urls" /\ call \in {"ok", "failed"}
    /\ Goes("snapshot") /\ Over
    /\ UNCHANGED <<report, router, run, nth, others>>

\* Saved or not, the card goes out.
SaveSnapshot ==
    /\ pc = "snapshot"
    /\ Goes("alert")
    /\ alert' = "list"
    /\ UNCHANGED <<report, listed, left, delivered, copies, refused, unsure, client, run, nth, others>>

Reported ==
    /\ pc = "alert" /\ report # Nil /\ alert \in {"reached", "missed", "dropped"}
    /\ Goes("next")
    /\ Settled(report, IF alert = "missed" THEN "failed" ELSE "sent")
    /\ report' = Nil
    /\ alert' = "none" /\ Fresh
    /\ UNCHANGED <<client, target, known, configured, todo, nth, others>>

RunEnds ==
    /\ pc = "next" /\ todo = {}
    /\ End(IF \E r \in DOMAIN outcome : outcome[r] = "failed" THEN "error" ELSE "ok")
    /\ UNCHANGED <<report, router, client, run, nth, others>>

RunReportsSteps ==
    \/ ReadFails \/ GetCounter
    \/ pc = "counters" /\ \E cs \in SUBSET Counters : ListCounters(cs)
    \/ pc = "reports" /\ \E rows \in SUBSET Reports :
          /\ target = 0 \/ \A r \in rows : r.counter = target
          /\ ListReports(rows)
    \/ Drop \/ ReportOne \/ CurrentFails \/ Current \/ Compare
    \/ \E some \in BOOLEAN : Goals(some)
    \/ Reaches \/ URLs \/ SaveSnapshot \/ Reported \/ RunEnds

----
(* The judging of a rule. *)

\* The sum of the window in week w is h[w]; any other interval has Noise.
Noise == 9
Traffic(h, end, t) ==
    LET w == {v \in DOMAIN h : t \in (end - 7 * Day * v - Window)..(end - 7 * Day * v - 1)}
    IN  IF w = {} THEN Noise
        ELSE LET v == CHOOSE v \in w : TRUE
                 each == h[v] \div Window
             IN  IF t = end - 7 * Day * v - Window THEN h[v] - (Window - 1) * each ELSE each

\* What Metrika answers: every interval of the days asked for, or fewer of them, or
\* without their times, or in steps twice as wide.
AnswerTo(form, h, end, weeks) ==
    LET first == IF form = "young" THEN end - 7 * Day - Window ELSE FirstDay(end, weeks) * Day
        by == IF form = "coarse" THEN 2 ELSE 1
        stop == CASE form = "late" -> end - 2
                  [] form = "single" -> first
                  [] form = "torn" -> (LastDay(end) + 1) * Day - 2
                  [] OTHER -> (LastDay(end) + 1) * Day - 1
        places == 1..((stop - first) \div by + 1)
        Time(i) == LET t == first + (i - 1) * by
                   IN  IF form = "torn" /\ t >= end - 7 * Day - 1 THEN t + 1 ELSE t
    IN  [times |-> IF form = "untimed" THEN << >> ELSE [i \in places |-> Time(i)],
         values |-> [i \in places |-> Traffic(h, end, Time(i))]]

\* The series a rule that looks back on so many weeks is judged on.
SeriesOf(h, end, weeks) == FetchByTime(AnswerTo(h.form, h.sums, end, weeks), FirstDay(end, weeks))

EvaluateWindow(r) ==
    /\ Ask("series")
    /\ rule' = r
    /\ UNCHANGED <<report, router, run, nth, verdict, judged, reply, rest>>

SeriesFails ==
    /\ pc = "series" /\ call = "failed"
    /\ End("error") /\ Over
    /\ UNCHANGED <<report, router, run, nth, others>>

EvaluateTrigger(h, end) ==
    /\ call = "ok"
    /\ judged' = h
    /\ \E series \in {SeriesOf(h, end, rule.weeks)} : verdict' = Verdict(series, end, rule)
    /\ Goes("judged") /\ Over
    /\ UNCHANGED <<report, router, run, nth, rule, reply, rest>>

Quiet ==
    /\ pc = "judged" /\ verdict # "fires"
    /\ End(IF verdict = "error" THEN "error" ELSE "ok")
    /\ UNCHANGED <<report, router, client, run, nth, others>>

\* The cooldown is read: still running, over, or not to be had.
InCooldown ==
    /\ pc = "judged" /\ verdict = "fires"
    /\ \/ ~cancelled /\ End("ok")
       \/ End("error")
    /\ UNCHANGED <<report, router, client, run, nth, others>>

Fires ==
    /\ pc = "judged" /\ verdict = "fires" /\ ~cancelled
    /\ Goes("alert")
    /\ alert' = "list"
    /\ verdict' = "none" /\ judged' = Nil
    /\ UNCHANGED <<report, listed, left, delivered, copies, refused, unsure, client, run, nth,
                   rule, reply, rest>>

\* The alert is recorded and the cooldown started, delivered or not; a write that fails is logged.
Alerted ==
    /\ pc = "alert" /\ rule # Nil /\ alert \in {"reached", "missed", "dropped"}
    /\ Goes("record")
    /\ alert' = "none" /\ Fresh
    /\ UNCHANGED <<report, client, run, nth, others>>

RecordAlert ==
    /\ pc = "record"
    /\ End("ok")
    /\ UNCHANGED <<report, router, client, run, nth, others>>

EvaluateWindowSteps == SeriesFails \/ Quiet \/ InCooldown \/ Fires \/ Alerted \/ RecordAlert

\* A series in hand is judged, whatever it says.
Judges == pc = "series" /\ call = "ok" /\ pc' = "judged"

----
(* A bot's reply. *)

Reply(r) ==
    /\ r.platform \in clients
    /\ Goes("cut")
    /\ reply' = [platform |-> r.platform, text |-> r.text, parts |-> Parts(r.platform, r.text)]
    /\ UNCHANGED <<report, router, client, run, nth, rule, verdict, judged, rest>>

\* From here on only the number of parts matters.
BeginSending ==
    /\ pc = "cut"
    /\ Goes("part")
    /\ rest' = Len(reply.parts)
    /\ reply' = [reply EXCEPT !.text = << >>, !.parts = << >>]
    /\ UNCHANGED <<report, router, client, run, nth, rule, verdict, judged>>

PartSent ==
    /\ pc \in {"part", "plain"}
    /\ reply.platform = "telegram" \/ ~cancelled
    /\ rest' = rest - 1
    /\ IF rest = 1 THEN End("ok") ELSE Goes("part")
    /\ UNCHANGED <<report, router, client, run, nth, rule, verdict, judged, reply>>

\* A part that fails, to Telegram also as plain text, is the last one tried.
PartFails ==
    /\ pc \in {"part", "plain"}
    /\ IF pc = "part" /\ reply.platform = "telegram" THEN Goes("plain") ELSE End("error")
    /\ UNCHANGED <<report, router, client, run, nth, others>>

ReplySteps == BeginSending \/ PartSent \/ PartFails

----
(* The whole. *)

Rest ==
    /\ pc = "end"
    /\ pc' = "idle" /\ result' = "none"
    /\ cancelled' = FALSE
    /\ target' = 0 /\ known' = {} /\ configured' = {} /\ todo' = {} /\ outcome' = << >>
    /\ nth' = 0
    /\ rule' = Nil /\ verdict' = "none" /\ judged' = Nil /\ reply' = NoReply /\ rest' = 0
    /\ UNCHANGED <<clients, report, router, client>>

Start ==
    /\ pc = "idle"
    /\ \/ \E c \in Counters \union {0} : RunReports(c)
       \/ \E r \in Rules : EvaluateWindow(r)
       \/ \E r \in Replies : Reply(r)
    /\ UNCHANGED <<clients, cancelled>>

\* The router's steps, within the job that has a notice to send.
Route == Deliver /\ UNCHANGED <<pc, result, clients, cancelled, report, client, run, nth, others>>

Steps ==
    /\ RunReportsSteps \/ EvaluateWindowSteps \/ ReplySteps
    /\ UNCHANGED <<clients, cancelled>>

\* The service stops, or the client of the API goes away.
Cancel ==
    /\ pc \notin {"idle", "end"} /\ ~cancelled
    /\ cancelled' = TRUE
    /\ UNCHANGED <<pc, result, clients, report, router, client, run, nth, others>>

Service == Do \/ Route \/ Steps \/ Rest

Judgement ==
    /\ pc = "series"
    /\ \E h \in Histories, end \in Ends : EvaluateTrigger(h, end)
    /\ UNCHANGED <<clients, cancelled>>

Next == Service \/ Judgement \/ Start \/ Cancel

Spec == Init /\ [][Next]_vars

\* A request or a send that waits for Telegram's answer.
Waits == AwaitsTelegram \/ (pc \in {"part", "plain"} /\ reply.platform = "telegram")

\* The goroutine of a job runs on, and what it waits for comes or times out, except
\* for Telegram's answers (main.go:201, router.go:184).  Judgement is the one step
\* that takes pc from "series" to "judged".
FairSpec == Spec /\ WF_vars(Service /\ ~Waits) /\ WF_pc(Judges)

----
(* Types. *)

Outcomes == {"sent", "failed", "skipped"}
InReport == {"current", "compare", "goals", "reaches", "urls", "snapshot"}
InRun == {"next"} \union InReport
InRule == {"series", "judged", "record"}
InReply == {"cut", "part", "plain"}

TypeOK ==
    /\ DeliveryTypeOK
    /\ pc \in {"idle", "get", "counters", "reports", "alert", "end"} \union InRun \union InRule \union InReply
    /\ result \in {"none", "ok", "error"}
    /\ call \in {"none", "asking", "pausing", "ok", "failed"} /\ tries \in 0..MaxAttempts
    /\ last \in {"none", "ok", "transient", "permanent"}
    /\ target \in Counters \union {0} /\ known \subseteq Counters /\ configured \subseteq Reports
    /\ todo \subseteq AllReports /\ report \in AllReports \union {Nil}
    /\ outcome \in [DOMAIN outcome -> Outcomes] /\ DOMAIN outcome \subseteq AllReports \ (todo \union {report})
    /\ nth \in Nat
    /\ rule \in Rules \union {Nil} /\ verdict \in {"none", "fires", "quiet", "error"}

----
(* What should hold. *)

\* A rule fires exactly if the window and at least MinSamples of the weeks it looks
\* back on were answered in full, half of these lie on either side of what is
\* expected, that is no less than the rule's floor, and the window is off from it
\* by the percentage the rule names or more, in its direction
\* (fetchSeries, WindowSum, BuildBaseline, median, Judge).
InFull(form, w) ==
    CASE form = "young" -> w <= 1
      [] form = "torn" -> w # 1
      [] form = "late" -> w # 0
      [] form \in {"single", "coarse"} -> FALSE
      [] OTHER -> TRUE

Due(r, form, h) ==
    LET weeks == {w \in 1..r.weeks : InFull(form, w)}
        n == Cardinality(weeks)
        AtMost(v) == Cardinality({w \in weeks : h[w] <= v})
        AtLeast(v) == Cardinality({w \in weeks : h[w] >= v})
    IN  /\ InFull(form, 0) /\ n >= MinSamples
        /\ LET low == Min({v \in {h[w] : w \in weeks} : 2 * AtMost(v) >= n})
               high == Max({v \in {h[w] : w \in weeks} : 2 * AtLeast(v) >= n})
               twice == low + high
           IN  /\ 2 * r.floor <= twice
               /\ \/ r.direction # "rise" /\ twice > 0 /\ 200 * h[0] <= (100 - r.pct) * twice
                  \/ r.direction # "drop" /\ h[0] > 0 /\ 200 * h[0] >= (100 + r.pct) * twice

\* What VerdictSound asks of the constants: the step is the one the service groups by, no
\* window is longer than the day more that a request reaches back, weeks have numbers,
\* and before an interval that is missing the answer has two, that tell its step
\* (fetchSeries, GroupTenMinutes).
WholeWindows ==
    /\ Step = GroupStep /\ Window \in 1..Day
    /\ \A h \in Histories : DOMAIN h.sums \subseteq Nat
    /\ \A r \in Rules : r.weeks > 1 \/ (r.weeks = 1 /\ Day > 2)

VerdictSound ==
    pc = "judged" =>
        /\ verdict = "fires" <=> Due(rule, judged.form, judged.sums)
        /\ verdict = "error" <=> ~InFull(judged.form, 0)

\* A call that is not cut off is given up only for a refusal that would not change or
\* after the last attempt, and is not asked again after an answer (transport.do).
GivesUpRightly ==
    /\ call = "failed" /\ ~cancelled => last = "permanent" \/ (last = "transient" /\ tries = MaxAttempts)
    /\ call \in {"asking", "pausing"} => last # "ok" /\ last # "permanent"

\* Whether the job is a run of the reports, if there is one.
IsRun == rule = Nil /\ reply.platform = "none"

\* No run forgets a report or sends one it should not: at its end every enabled
\* report it read is settled, or, if there was none, the default report of each
\* counter it is for; only a report without its counter is passed over
\* (runReports, reportsToSend).
NoReportForgotten ==
    pc = "end" /\ IsRun /\ (result = "ok" \/ outcome # << >>) =>
        /\ DOMAIN outcome =
              IF \E r \in configured : r.enabled THEN {r \in configured : r.enabled}
              ELSE {DefaultReport(c) : c \in {k \in known : target \in {0, k}}}
        /\ \A r \in DOMAIN outcome : outcome[r] = "skipped" <=> r.counter \notin known

\* The parts of a reply are its runes in their order, each fits with its marker, and
\* a line that fits is not cut (splitMessage, hardSplit, Bot.reply).
PartsWhole ==
    /\ pc \in {"part", "plain"} => rest > 0
    /\ pc = "cut" =>
          WellSplit(reply.platform, reply.text,
                    IF Len(reply.parts) > 1 THEN Limit - Reserve ELSE Limit, reply.parts)

\* Whatever fails, a run settles its reports one by one and tells of a failure
\* (runReports against ReportRun).
Run == INSTANCE ReportRun WITH
    Report <- AllReports,
    phase <- IF ~IsRun \/ pc \in {"idle", "get", "counters", "reports"} THEN "idle"
             ELSE IF pc = "end" THEN result ELSE "running",
    open <- IF report = Nil THEN todo ELSE todo \union {report},
    settled <- outcome

Implements == Run!Spec

\* Every job comes to its end, however many requests and sends fail, time out or
\* are refused: no retry goes on for ever and nothing is waited for that cannot
\* come, with the one exception of a send that Telegram never answers
\* (transport.do, Router.Alert, Bot.reply).
TelegramAnswers == WF_vars(Service /\ Waits)

JobsEnd == TelegramAnswers => (pc # "idle" ~> pc = "idle")
=============================================================================
