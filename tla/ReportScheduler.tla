---------------------------- MODULE ReportScheduler ----------------------------
(***************************************************************************)
(* The report scheduler: one goroutine that reads the stored schedule every *)
(* minute, compares it with the stored time of the last report, records the *)
(* run and sends the reports.  A chat changes the schedule at any moment,   *)
(* and the process may stop between any two of these steps.                 *)
(*                                                                         *)
(* A time is a minute since some midnight; a day has DayLength of them, so  *)
(* a change of the clock for summer time is left out.                       *)
(***************************************************************************)
EXTENDS Integers

CONSTANTS
    DayLength,   \* minutes in a day
    Schedules,   \* the schedules a chat may store
    Fallback,    \* the one in force until then, from report_interval_hours
    LastRuns,    \* what report_last_run may hold when the behaviour starts
    MaxTime,     \* bound: the last minute of a behaviour
    MaxChanges,  \* bound: how often the schedule is changed
    MaxFaults    \* bound: failed queries and crashes

None == -1       \* an unset time

\* The zero value of the field that a kind does not use.
Off == [kind |-> "off", every |-> 0, at |-> 0]
Every(n) == [kind |-> "every", every |-> n, at |-> 0]
Daily(t) == [kind |-> "daily", every |-> 0, at |-> t]

ASSUME SchedulerAssumption ==
    /\ DayLength \in Nat \ {0}
    /\ MaxTime \in Nat /\ MaxChanges \in Nat /\ MaxFaults \in Nat
    /\ LastRuns \subseteq 0..MaxTime \union {None}
    /\ Schedules \union {Fallback} \subseteq
          {Off} \union {Every(n) : n \in 1..MaxTime} \union {Daily(t) : t \in 0..(DayLength - 1)}

VARIABLES
    (* rows of settings *)
    stored,      \* report_schedule, or the fallback when it was never set
    lastRun,     \* report_last_run
    (* the goroutine *)
    pc,          \* idle, or the step of tick it is at
    plan,        \* the schedule tick read
    at,          \* the time tick was called with
    (* environment *)
    clock, changes, faults,
    (* history, read only by properties *)
    ticked,      \* the minute of the last tick
    sends,       \* when RunReports was called, and under which schedule
    calm         \* since when nothing has failed, stopped or been changed

vars == <<stored, lastRun, pc, plan, at, clock, changes, faults, ticked, sends, calm>>

Times == 0..MaxTime
InForce == Schedules \union {Fallback}

TypeOK ==
    /\ stored \in InForce
    /\ lastRun \in Times \union {None}
    /\ pc \in {"idle", "check", "record", "send"}
    /\ plan \in InForce
    /\ at \in Times
    /\ clock \in Times
    /\ changes \in 0..MaxChanges
    /\ faults \in 0..MaxFaults
    /\ ticked \in Times \union {None}
    /\ sends \subseteq [at : Times, plan : InForce]
    /\ calm \in Times

Init ==
    /\ stored = Fallback
    /\ lastRun \in LastRuns
    /\ pc = "idle"
    /\ plan = Fallback
    /\ clock = IF lastRun = None THEN 0 ELSE lastRun
    /\ at = clock
    /\ changes = 0 /\ faults = 0
    /\ ticked = None
    /\ sends = {}
    /\ calm = clock

-----------------------------------------------------------------------------
(* Schedule.Next and Schedule.Due.                                          *)

\* The time of day t of the day that now falls in.
Today(t, now) == now - (now % DayLength) + t

\* Mutant: a time of day that has passed always means tomorrow.
NextRunTomorrow(s, last, now) ==
    CASE s.kind = "every" -> IF last = None THEN now ELSE last + s.every
      [] s.kind = "daily" -> IF Today(s.at, now) > now THEN Today(s.at, now)
                             ELSE Today(s.at, now) + DayLength
      [] OTHER -> None

NextRun(s, last, now) ==
    CASE s.kind = "every" -> IF last = None THEN now ELSE last + s.every
      [] s.kind = "daily" ->
            LET today == Today(s.at, now) IN
            IF (last = None /\ today > now) \/ (last # None /\ last < today)
            THEN today ELSE today + DayLength
      [] OTHER -> None

Due(s, last, now) == s.kind # "off" /\ NextRun(s, last, now) <= now

-----------------------------------------------------------------------------
Fault == faults < MaxFaults /\ faults' = faults + 1 /\ calm' = clock

(* tick: the schedule.  A query that fails leaves the fallback in force for *)
(* this tick; with reports off there is nothing to do.                      *)
Tick ==
    /\ pc = "idle"
    /\ ticked # clock
    /\ ticked' = clock
    /\ at' = clock
    /\ \/ plan' = stored /\ UNCHANGED <<faults, calm>>
       \/ plan' = Fallback /\ Fault
    /\ pc' = IF plan'.kind = "off" THEN "idle" ELSE "check"
    /\ UNCHANGED <<stored, lastRun, clock, changes, sends>>

\* The time of the last run, and whether the next one is due.
Check ==
    /\ pc = "check"
    /\ \/ pc' = (IF Due(plan, lastRun, at) THEN "record" ELSE "idle") /\ UNCHANGED <<faults, calm>>
       \/ pc' = "idle" /\ Fault
    /\ UNCHANGED <<stored, lastRun, plan, at, clock, changes, ticked, sends>>

\* Mutant: the time the next report is due is stored.
RecordNext ==
    /\ pc = "record"
    /\ lastRun' = at + plan.every
    /\ pc' = "send"
    /\ UNCHANGED <<stored, plan, at, clock, changes, faults, ticked, sends, calm>>

\* Mutant: a run that could not be recorded is sent all the same.
RecordOrNot ==
    /\ pc = "record"
    /\ \/ lastRun' = at /\ UNCHANGED <<faults, calm>>
       \/ UNCHANGED lastRun /\ Fault
    /\ pc' = "send"
    /\ UNCHANGED <<stored, plan, at, clock, changes, ticked, sends>>

\* The run is recorded before anything is sent.
Record ==
    /\ pc = "record"
    /\ \/ lastRun' = at /\ pc' = "send" /\ UNCHANGED <<faults, calm>>
       \/ UNCHANGED lastRun /\ pc' = "idle" /\ Fault
    /\ UNCHANGED <<stored, plan, at, clock, changes, ticked, sends>>

\* RunReports; what it could not send is only logged.
Send ==
    /\ pc = "send"
    /\ pc' = "idle"
    /\ sends' = sends \union {[at |-> at, plan |-> plan]}
    /\ UNCHANGED <<stored, lastRun, plan, at, clock, changes, faults, ticked, calm>>

SetSchedule(s) ==
    /\ changes < MaxChanges
    /\ changes' = changes + 1
    /\ stored' = s
    /\ calm' = clock
    /\ UNCHANGED <<lastRun, pc, plan, at, clock, faults, ticked, sends>>

\* The process stops and is started again: settings are rows, tick is not.
Crash ==
    /\ Fault
    /\ pc' = "idle"
    /\ UNCHANGED <<stored, lastRun, plan, at, clock, changes, ticked, sends>>

Clock ==
    /\ clock < MaxTime
    /\ clock' = clock + 1
    /\ UNCHANGED <<stored, lastRun, pc, plan, at, changes, faults, ticked, sends, calm>>

Next ==
    \/ Tick \/ Check \/ Record \/ Send
    \/ \E s \in Schedules : SetSchedule(s)
    \/ Crash
    \/ Clock

Spec == Init /\ [][Next]_vars

-----------------------------------------------------------------------------
(* However the schedule is changed and the process restarted, no report     *)
(* comes sooner after the one before than its interval says, none comes     *)
(* before its time of day, and none comes twice in a day for one time of    *)
(* day: "a failure mid-report must not queue the same report again"         *)
(* (scheduler.go:95).                                                       *)
Paced ==
    \A b \in sends :
        /\ b.plan.kind = "daily" => b.at % DayLength >= b.plan.at
        /\ \A a \in sends : a.at < b.at =>
              /\ b.plan.kind = "every" => b.at - a.at >= b.plan.every
              /\ b.plan.kind = "daily" => a.at < Today(b.plan.at, b.at)

(* A report is not only never too early: with a schedule in force and       *)
(* nothing failing, a tick that ends leaves no day's report and no          *)
(* interval's report unsent, "every day at 10:00" (README.md:149).          *)
ReportsHappen ==
    pc = "idle" /\ ticked = clock =>
        /\ stored.kind = "daily" =>
              LET today == Today(stored.at, clock) IN
              calm < today /\ today <= clock => \E s \in sends : s.at >= today
        /\ stored.kind = "every" =>
              (calm + stored.every <= clock => \E s \in sends : s.at > clock - stored.every)

(* "When the last periodic report went out, so a restart neither repeats    *)
(* one nor skips one" (repo.go:399): a run that is recorded is sent.        *)
RestartSkipsNothing ==
    lastRun \in LastRuns \/ pc = "send" \/ \E s \in sends : s.at = lastRun

=============================================================================
