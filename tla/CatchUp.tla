-------------------------------- MODULE CatchUp --------------------------------
(***************************************************************************)
(* Which windows a counter is checked for, and when: pendingWindows and     *)
(* truncateTo in minutes, the ticker of pollCounterLoop, /poll, outages and *)
(* failed windows.  AlertEngine shows how one window is judged; here        *)
(* EvaluateWindow only succeeds or fails.                                   *)
(*                                                                         *)
(* A time is a number of minutes since some midnight of the service's zone, *)
(* every day of which has DayLength minutes.                                *)
(***************************************************************************)
EXTENDS Integers

CONSTANTS
    DayLength,      \* minutes in a day
    Step,           \* step_minutes
    Settle,         \* settle_minutes
    MaxCatchUp,     \* max_catch_up_steps
    Interval,       \* the counter's poll_interval_min
    Outages,        \* bound: how long the service may be down, in minutes
    MaxOutages,     \* bound: how often it may be down
    MaxFaults,      \* bound: how many windows may fail
    MaxPolls,       \* bound: how many /poll commands
    Horizon         \* bound: the last minute of a behaviour

ASSUME CatchUpAssumption ==
    /\ DayLength \in Nat \ {0}
    /\ Step \in Nat \ {0}
    /\ Settle \in Nat \ {0}
    /\ MaxCatchUp \in Nat \ {0}
    /\ Interval \in Nat \ {0}
    /\ Outages \subseteq Nat \ {0}
    /\ MaxOutages \in Nat /\ MaxFaults \in Nat /\ MaxPolls \in Nat
    /\ Horizon \in Nat /\ Settle + Step <= Horizon

VARIABLES
    clock,       \* the minute of the last event
    nextTick,    \* when the loop's ticker fires next
    cursor,      \* counters.last_hour_checked
    (* bounds *)
    outages, faults, polls,
    (* history, read only by properties *)
    batch,       \* the windows the last check judged
    owed,        \* windows owed when the service started or last failed
    checks       \* ticks since then

vars == <<clock, nextTick, cursor, outages, faults, polls, batch, owed, checks>>

None == -1

TypeOK ==
    /\ clock \in 0..Horizon
    /\ nextTick \in 0..(Horizon + Interval)
    /\ cursor \in 0..Horizon \union {None}
    /\ outages \in 0..MaxOutages
    /\ faults \in 0..MaxFaults
    /\ polls \in 0..MaxPolls
    /\ batch \subseteq 0..Horizon
    /\ owed \in Nat
    /\ checks \in Nat

-----------------------------------------------------------------------------
(* truncateTo: down to a multiple of the step within the day.               *)

TruncateTo(t) == t - ((t % DayLength) % Step)

\* Mutant: the settling time is forgotten.
LatestUnsettled(t) == TruncateTo(t)

\* Mutant: the newest settled window is left for the next check.
LatestExclusive(t) == TruncateTo(t - Settle) - Step

\* The newest window end whose data has settled.
Latest(t) == TruncateTo(t - Settle)

\* The end of the first window after last.
Following(last) == TruncateTo(last) + Step

\* Every window between the cursor and the newest settled one.
Backlog(last, t) ==
    IF last = None \/ Following(last) > Latest(t) THEN 0
    ELSE (Latest(t) - Following(last)) \div Step + 1

\* Mutant: a counter without a cursor replays the windows before.
PendingReplay(last, t) ==
    IF last = None THEN {Latest(t) - k * Step : k \in 0..(MaxCatchUp - 1)}
    ELSE {w \in {Following(last) + k * Step : k \in 0..(MaxCatchUp - 1)} : w <= Latest(t)}

\* Mutant: the cap keeps the newest windows instead of the oldest.
PendingNewest(last, t) ==
    IF last = None THEN {Latest(t)}
    ELSE {w \in {Latest(t) - k * Step : k \in 0..(MaxCatchUp - 1)} : w >= Following(last)}

\* Mutant: the cap is one too small.
PendingFewer(last, t) ==
    IF last = None THEN {Latest(t)}
    ELSE {w \in {Following(last) + k * Step : k \in 0..(MaxCatchUp - 2)} : w <= Latest(t)}

PendingWindows(last, t) ==
    IF last = None THEN {Latest(t)}
    ELSE {w \in {Following(last) + k * Step : k \in 0..(MaxCatchUp - 1)} : w <= Latest(t)}

-----------------------------------------------------------------------------
Init ==
    /\ clock = Settle + Step
    /\ nextTick = clock
    /\ cursor = None
    /\ outages = 0 /\ faults = 0 /\ polls = 0
    /\ batch = {} /\ owed = 0 /\ checks = 0

\* advance succeeds for the windows of done, oldest first, and the cursor
\* follows each one.
Judge(done) ==
    /\ batch' = done
    /\ \/ done = {} /\ UNCHANGED cursor
       \/ cursor' \in done /\ \A w \in done : w <= cursor'

\* One tick of the loop: every pending window is judged.
Tick ==
    /\ nextTick <= Horizon
    /\ clock' = nextTick
    /\ nextTick' = nextTick + Interval
    /\ Judge(PendingWindows(cursor, nextTick))
    /\ checks' = checks + 1
    /\ UNCHANGED <<outages, faults, polls, owed>>

\* A tick whose window w fails: the ones before it have moved the cursor.
TickFails ==
    /\ nextTick <= Horizon
    /\ faults < MaxFaults
    /\ faults' = faults + 1
    /\ clock' = nextTick
    /\ nextTick' = nextTick + Interval
    /\ \E w \in PendingWindows(cursor, nextTick) :
          Judge({v \in PendingWindows(cursor, nextTick) : v < w})
    /\ owed' = Backlog(cursor', nextTick)
    /\ checks' = 0
    /\ UNCHANGED <<outages, polls>>

\* /poll between two ticks; the ticker is not reset.
RunOnce ==
    /\ polls < MaxPolls
    /\ polls' = polls + 1
    /\ \E t \in clock..(nextTick - 1) :
          /\ t <= Horizon
          /\ clock' = t
          /\ Judge(PendingWindows(cursor, t))
    /\ UNCHANGED <<nextTick, outages, faults, owed, checks>>

\* The service is down for d minutes; pollCounterLoop checks as it starts.
Restart ==
    /\ outages < MaxOutages
    /\ outages' = outages + 1
    /\ \E d \in Outages :
          /\ clock + d <= Horizon
          /\ clock' = clock + d
          /\ nextTick' = clock + d
          /\ owed' = Backlog(cursor, clock + d)
    /\ checks' = 0
    /\ batch' = {}
    /\ UNCHANGED <<cursor, faults, polls>>

Next == Tick \/ TickFails \/ RunOnce \/ Restart

Spec == Init /\ [][Next]_vars

-----------------------------------------------------------------------------
(* No window is judged before its data has settled: "measuring right up to  *)
(* the present reads low" (poller.go:47), whatever the step and the length  *)
(* of the backlog.                                                          *)
OnlySettled == \A w \in batch : w + Settle <= clock

(* Windows are judged one step after another, with none left out and none   *)
(* judged twice, across midnight, batches, failed windows, /poll and        *)
(* outages, also for a step that does not divide the day.                   *)
StepByStep ==
    [][cursor # None =>
          \A w \in batch' : /\ w > cursor
                            /\ \E v \in batch' \union {cursor} : v < w /\ w - v <= Step]_vars

(* "After an outage the service catches up with the windows it missed, not  *)
(* more than max_catch_up_steps at a check" (DEPLOY.md:308): by the time it *)
(* has made more checks than there were windows to catch up with, it is     *)
(* less than a step behind the newest one.                                  *)
CatchesUp == checks > owed => Latest(clock) - cursor < Step

(* Once it has caught up, a deviation is noticed within an interval of the  *)
(* window's data settling.                                                  *)
NoticedInTime ==
    checks > owed => \A w \in batch : clock - w < Settle + Step + Interval

=============================================================================
