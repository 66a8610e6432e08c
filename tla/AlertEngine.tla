------------------------------ MODULE AlertEngine ------------------------------
(***************************************************************************)
(* The alert engine of one counter: Poller.advance and the Evaluator it     *)
(* calls, over the rows they share in SQLite.                               *)
(*                                                                         *)
(* Several goroutines may be inside advance for the same counter: its       *)
(* polling loop, a second loop while reconcile replaces the first, and the  *)
(* /poll command, which calls RunOnce on a goroutine of its own each time   *)
(* it is given.  Nothing in the code excludes them, so every query, request *)
(* and write is a step of its own and the goroutines interleave.  Counters  *)
(* share no rows, so one counter stands for all of them.  Rules are deleted *)
(* in a behaviour but not added: a new rule has a new id, and so neither    *)
(* cooldown nor alerts, and a window that is being judged listed its rules  *)
(* before.                                                                  *)
(*                                                                         *)
(* Time is counted in steps of the measurement window: now is the index of  *)
(* the newest window whose data has settled, and a window is named by the   *)
(* index of its end.  CatchUp.tla relates the indices to minutes.           *)
(***************************************************************************)
EXTENDS Integers, FiniteSets

CONSTANTS
    Advancers,      \* the goroutines that may be inside advance
    Rules,          \* trigger ids; ListTriggers returns them in id order
    Scopes,         \* distinct URL filters, numbered in their sort order
    ScopeOf,        \* the filter of each rule
    Malformed,      \* rules whose URL filter cannot be built
    BadMetric,      \* rules whose metric name cannot be resolved
    BrokenScopes,   \* filters the API refuses every time
    MaxCatchUp,     \* windows one call of advance works through at most
    Cooldown,       \* a rule's cooldown, in steps
    MaxTime,        \* bound: the newest window of a behaviour
    MaxFaults,      \* bound: failed calls and crashes of a behaviour
    MaxEdits        \* bound: deletions an admin makes in a behaviour

ASSUME EngineAssumption ==
    /\ Rules \subseteq Nat
    /\ Scopes \subseteq Nat
    /\ ScopeOf \in [Rules -> Scopes]
    /\ Malformed \subseteq Rules
    /\ BadMetric \subseteq Rules
    /\ BrokenScopes \subseteq Scopes
    /\ MaxCatchUp \in Nat \ {0}
    /\ Cooldown \in Nat \ {0}
    /\ MaxTime \in Nat
    /\ MaxFaults \in Nat
    /\ MaxEdits \in Nat

VARIABLES
    (* rows in the database *)
    exists,      \* the counter's row
    triggers,    \* the counter's enabled triggers
    cursor,      \* counters.last_hour_checked
    firedAt,     \* trigger_cooldowns.last_fired_at of each rule
    alertRows,   \* rules with a row in alerts
    (* each goroutine's local variables *)
    pc,          \* where in advance it is
    win,         \* the window it is judging
    upto,        \* the last window of its batch
    listed,      \* the usable rules it listed for this window
    toFetch,     \* scopes not fetched yet
    toJudge,     \* rules of the fetched scope not judged yet
    rule,        \* the rule whose alert it is delivering
    fired,       \* fired > 0
    failed,      \* firstErr # nil
    (* environment *)
    now,         \* the newest settled window
    faults,      \* failures so far
    edits,       \* deletions so far
    (* history, read only by properties *)
    origin,      \* the window the cursor was first set to
    between,     \* windows between those of two first checks that ran at once
    evaluated,   \* windows EvaluateWindow returned nil for
    attended,    \* attended[r]: windows evaluateTrigger ran in for r
    sent,        \* sent[r]: windows an alert of r was handed to the router in
    sentAt,      \* sentAt[r][p]: when p last handed an alert of r to the router
    early,       \* rules alerted within a cooldown of an earlier alert of theirs
    earlySelf,   \* the same, both alerts by one goroutine
    again,       \* rules alerted twice for one window
    torn         \* a write that follows an alert was lost

rows    == <<exists, triggers, cursor, firedAt, alertRows>>
locals  == <<pc, win, upto, listed, toFetch, toJudge, rule, fired, failed>>
history == <<origin, between, evaluated, attended, sent, sentAt, early, earlySelf, again, torn>>
vars    == <<rows, locals, now, faults, edits, history>>

None == -1          \* a NULL cursor, a missing cooldown row
Windows == 0..MaxTime
Stage == {"idle", "list", "evaluate", "deliver", "stamp", "move"}

TypeOK ==
    /\ exists \in BOOLEAN
    /\ triggers \subseteq Rules
    /\ cursor \in Windows \union {None}
    /\ firedAt \in [Rules -> Windows \union {None}]
    /\ alertRows \subseteq Rules
    /\ pc \in [Advancers -> Stage]
    /\ win \in [Advancers -> Windows]
    /\ upto \in [Advancers -> Windows]
    /\ listed \in [Advancers -> SUBSET Rules]
    /\ toFetch \in [Advancers -> SUBSET Scopes]
    /\ toJudge \in [Advancers -> SUBSET Rules]
    /\ rule \in [Advancers -> Rules \union {None}]
    /\ fired \in [Advancers -> BOOLEAN]
    /\ failed \in [Advancers -> BOOLEAN]
    /\ now \in Windows
    /\ faults \in 0..MaxFaults
    /\ edits \in 0..MaxEdits
    /\ origin \in Windows \union {None}
    /\ between \subseteq Windows
    /\ evaluated \subseteq Windows
    /\ attended \in [Rules -> SUBSET Windows]
    /\ sent \in [Rules -> SUBSET Windows]
    /\ sentAt \in [Rules -> [Advancers -> Windows \union {None}]]
    /\ early \subseteq Rules
    /\ earlySelf \subseteq Rules
    /\ again \subseteq Rules
    /\ torn \in BOOLEAN

Init ==
    /\ exists = TRUE
    /\ triggers \in SUBSET Rules
    /\ cursor = None
    /\ firedAt = [r \in Rules |-> None]
    /\ alertRows = {}
    /\ pc = [p \in Advancers |-> "idle"]
    /\ win = [p \in Advancers |-> 0]
    /\ upto = [p \in Advancers |-> 0]
    /\ listed = [p \in Advancers |-> {}]
    /\ toFetch = [p \in Advancers |-> {}]
    /\ toJudge = [p \in Advancers |-> {}]
    /\ rule = [p \in Advancers |-> None]
    /\ fired = [p \in Advancers |-> FALSE]
    /\ failed = [p \in Advancers |-> FALSE]
    /\ now = 0
    /\ faults = 0
    /\ edits = 0
    /\ origin = None
    /\ between = {}
    /\ evaluated = {}
    /\ attended = [r \in Rules |-> {}]
    /\ sent = [r \in Rules |-> {}]
    /\ sentAt = [r \in Rules |-> [p \in Advancers |-> None]]
    /\ early = {}
    /\ earlySelf = {}
    /\ again = {}
    /\ torn = FALSE

-----------------------------------------------------------------------------
(* Shared pieces of the actions.                                            *)

Fault == faults < MaxFaults /\ faults' = faults + 1

Edit == edits < MaxEdits /\ edits' = edits + 1

IsLeast(x, S) == x \in S /\ \A y \in S : x <= y

Smaller(a, b) == IF a <= b THEN a ELSE b

\* time.Since(t) < Cooldown, for a time that may not have come yet.
Recent(t) == t # None /\ now - t < Cooldown

\* A rule without a cooldown row has never fired.
InCooldown(r) == Recent(firedAt[r])

\* p's local variables as it reaches a stage with nothing done for the window yet.
Frame(p, stage, w, last) ==
    /\ pc' = [pc EXCEPT ![p] = stage]
    /\ win' = [win EXCEPT ![p] = w]
    /\ upto' = [upto EXCEPT ![p] = last]
    /\ listed' = [listed EXCEPT ![p] = {}]
    /\ toFetch' = [toFetch EXCEPT ![p] = {}]
    /\ toJudge' = [toJudge EXCEPT ![p] = {}]
    /\ rule' = [rule EXCEPT ![p] = None]
    /\ fired' = [fired EXCEPT ![p] = FALSE]
    /\ failed' = [failed EXCEPT ![p] = FALSE]

\* p is about to call EvaluateWindow for w, in a batch that ends at last.
Enter(p, w, last) == Frame(p, "list", w, last)

\* p returns from advance; its local variables go out of scope.
Return(p) == Frame(p, "idle", 0, 0)

-----------------------------------------------------------------------------
(* advance: read the counter and work out the windows it owes.  A counter   *)
(* that is gone, or owes nothing, returns at once and changes nothing.      *)

BeginFirst(p) ==
    /\ pc[p] = "idle"
    /\ exists
    /\ cursor = None
    /\ Enter(p, now, now)
    /\ between' = between \union
          {w \in Windows : w < now /\ \E q \in Advancers : pc[q] # "idle" /\ win[q] < w}
    /\ UNCHANGED <<rows, now, edits, faults,
                   origin, evaluated, attended, sent, sentAt, early, earlySelf, again, torn>>


\* Mutant: the settled boundary no longer ends the batch.
BeginNextUnsettled(p) ==
    /\ pc[p] = "idle"
    /\ exists
    /\ cursor # None
    /\ cursor < now
    /\ Enter(p, cursor + 1, cursor + MaxCatchUp)
    /\ UNCHANGED <<rows, now, edits, faults, history>>

\* Mutant: the batch is counted back from the present, not on from the cursor.
BeginNextFromPresent(p) ==
    /\ pc[p] = "idle"
    /\ exists
    /\ cursor # None
    /\ Enter(p, IF now < MaxCatchUp THEN 0 ELSE now - MaxCatchUp, now)
    /\ UNCHANGED <<rows, now, edits, faults, history>>

BeginNext(p) ==
    /\ pc[p] = "idle"
    /\ exists
    /\ cursor # None
    /\ cursor < now
    /\ Enter(p, cursor + 1, Smaller(now, cursor + MaxCatchUp))
    /\ UNCHANGED <<rows, now, edits, faults, history>>

(* EvaluateWindow: list the triggers and group them by scope.  A counter    *)
(* deleted meanwhile, a failed query and a set of rules none of which has a *)
(* usable scope are errors; a counter without rules is done.                *)

ListError(p) ==
    /\ pc[p] = "list"
    /\ \/ ~exists /\ UNCHANGED faults
       \/ exists /\ triggers # {} /\ triggers \subseteq Malformed /\ UNCHANGED faults
       \/ exists /\ Fault
    /\ Return(p)
    /\ UNCHANGED <<rows, now, edits, history>>


\* Mutant: a counter without rules is left where it is.
ListNoneStays(p) ==
    /\ pc[p] = "list"
    /\ exists
    /\ triggers = {}
    /\ Return(p)
    /\ UNCHANGED <<rows, now, edits, faults, history>>

ListNone(p) ==
    /\ pc[p] = "list"
    /\ exists
    /\ triggers = {}
    /\ pc' = [pc EXCEPT ![p] = "move"]
    /\ evaluated' = evaluated \union {win[p]}
    /\ UNCHANGED <<rows, win, upto, listed, toFetch, toJudge, rule, fired, failed,
                   now, edits, faults, origin, between, attended, sent, sentAt, early, earlySelf, again, torn>>

ListSome(p) ==
    /\ pc[p] = "list"
    /\ exists
    /\ triggers \ Malformed # {}
    /\ pc' = [pc EXCEPT ![p] = "evaluate"]
    /\ listed' = [listed EXCEPT ![p] = triggers \ Malformed]
    /\ toFetch' = [toFetch EXCEPT ![p] = {ScopeOf[r] : r \in triggers \ Malformed}]
    /\ UNCHANGED <<rows, win, upto, toJudge, rule, fired, failed, now, edits, faults, history>>

(* One request per scope, in filter order.  An error is remembered and the  *)
(* next scope is tried.                                                     *)

RulesOf(p, s) == {r \in listed[p] : ScopeOf[r] = s}

FetchError(p) ==
    /\ pc[p] = "evaluate"
    /\ toJudge[p] = {}
    /\ \E s \in toFetch[p] :
          /\ IsLeast(s, toFetch[p])
          /\ \/ (s \in BrokenScopes \/ RulesOf(p, s) \subseteq BadMetric) /\ UNCHANGED faults
             \/ Fault
          /\ toFetch' = [toFetch EXCEPT ![p] = @ \ {s}]
    /\ failed' = [failed EXCEPT ![p] = TRUE]
    /\ UNCHANGED <<rows, pc, win, upto, listed, toJudge, rule, fired, now, edits, history>>

FetchScope(p) ==
    /\ pc[p] = "evaluate"
    /\ toJudge[p] = {}
    /\ \E s \in toFetch[p] :
          /\ IsLeast(s, toFetch[p])
          /\ s \notin BrokenScopes
          /\ ~(RulesOf(p, s) \subseteq BadMetric)
          /\ toFetch' = [toFetch EXCEPT ![p] = @ \ {s}]
          /\ toJudge' = [toJudge EXCEPT ![p] = RulesOf(p, s)]
    /\ UNCHANGED <<rows, pc, win, upto, listed, rule, fired, failed, now, edits, faults, history>>

(* evaluateTrigger, up to the alert.  JudgeQuiet is every way to return     *)
(* without one: no deviation, a cooldown, and the per-rule errors, which    *)
(* are only logged.  What the data shows is left open.                      *)

JudgeQuiet(p) ==
    /\ pc[p] = "evaluate"
    /\ \E r \in toJudge[p] :
          /\ IsLeast(r, toJudge[p])
          /\ toJudge' = [toJudge EXCEPT ![p] = @ \ {r}]
          /\ attended' = [attended EXCEPT ![r] = @ \union {win[p]}]
    /\ UNCHANGED <<rows, pc, win, upto, listed, toFetch, rule, fired, failed, now, edits, faults,
                   origin, between, evaluated, sent, sentAt, early, earlySelf, again, torn>>


\* Mutant: the cooldown is not consulted.
JudgeFiresAnyway(p) ==
    /\ pc[p] = "evaluate"
    /\ \E r \in toJudge[p] :
          /\ IsLeast(r, toJudge[p])
          /\ r \notin BadMetric
          /\ toJudge' = [toJudge EXCEPT ![p] = @ \ {r}]
          /\ attended' = [attended EXCEPT ![r] = @ \union {win[p]}]
          /\ rule' = [rule EXCEPT ![p] = r]
    /\ pc' = [pc EXCEPT ![p] = "deliver"]
    /\ UNCHANGED <<rows, win, upto, listed, toFetch, fired, failed, now, edits, faults,
                   origin, between, evaluated, sent, sentAt, early, earlySelf, again, torn>>

JudgeFires(p) ==
    /\ pc[p] = "evaluate"
    /\ \E r \in toJudge[p] :
          /\ IsLeast(r, toJudge[p])
          /\ r \notin BadMetric
          /\ ~InCooldown(r)
          /\ toJudge' = [toJudge EXCEPT ![p] = @ \ {r}]
          /\ attended' = [attended EXCEPT ![r] = @ \union {win[p]}]
          /\ rule' = [rule EXCEPT ![p] = r]
    /\ pc' = [pc EXCEPT ![p] = "deliver"]
    /\ UNCHANGED <<rows, win, upto, listed, toFetch, fired, failed, now, edits, faults,
                   origin, between, evaluated, sent, sentAt, early, earlySelf, again, torn>>

(* The alert with its row in the history, then the cooldown.  The router's  *)
(* error is only logged, so whether anybody was reached makes no difference *)
(* here; an insert that fails is only logged too.                           *)

Deliver(p) ==
    LET r == rule[p] IN
    /\ pc[p] = "deliver"
    /\ pc' = [pc EXCEPT ![p] = "stamp"]
    /\ \/ alertRows' = alertRows \union {r} /\ UNCHANGED faults
       \/ UNCHANGED alertRows /\ Fault
    /\ sent' = [sent EXCEPT ![r] = @ \union {win[p]}]
    /\ sentAt' = [sentAt EXCEPT ![r][p] = now]
    /\ early' = IF \E q \in Advancers : Recent(sentAt[r][q]) THEN early \union {r} ELSE early
    /\ earlySelf' = IF Recent(sentAt[r][p]) THEN earlySelf \union {r} ELSE earlySelf
    /\ again' = IF win[p] \in sent[r] THEN again \union {r} ELSE again
    /\ UNCHANGED <<exists, triggers, cursor, firedAt, win, upto, listed, toFetch,
                   toJudge, rule, fired, failed, now, edits, origin, between, evaluated, attended, torn>>


\* Mutant: ON CONFLICT DO NOTHING, so the first firing is kept for ever.
RecordTriggerFireOnce(p) ==
    /\ pc[p] = "stamp"
    /\ firedAt' = [firedAt EXCEPT ![rule[p]] = IF @ = None THEN now ELSE @]
    /\ pc' = [pc EXCEPT ![p] = "evaluate"]
    /\ rule' = [rule EXCEPT ![p] = None]
    /\ fired' = [fired EXCEPT ![p] = TRUE]
    /\ UNCHANGED <<exists, triggers, cursor, alertRows, win, upto, listed, toFetch,
                   toJudge, failed, now, edits, faults, history>>

RecordTriggerFire(p) ==
    /\ pc[p] = "stamp"
    /\ \/ firedAt' = [firedAt EXCEPT ![rule[p]] = now] /\ UNCHANGED <<faults, torn>>
       \/ UNCHANGED firedAt /\ Fault /\ torn' = TRUE
    /\ pc' = [pc EXCEPT ![p] = "evaluate"]
    /\ rule' = [rule EXCEPT ![p] = None]
    /\ fired' = [fired EXCEPT ![p] = TRUE]
    /\ UNCHANGED <<exists, triggers, cursor, alertRows, win, upto, listed, toFetch,
                   toJudge, failed, now, edits, origin, between, evaluated, attended, sent, sentAt,
                   early, earlySelf, again>>

(* The end of EvaluateWindow: an error only when nothing fired.             *)


\* Mutant: any failed scope fails the window, alerts or not.
EvaluateErrorAlways(p) ==
    /\ pc[p] = "evaluate"
    /\ toJudge[p] = {} /\ toFetch[p] = {}
    /\ failed[p]
    /\ Return(p)
    /\ UNCHANGED <<rows, now, edits, faults, history>>

\* Mutant: advance logs the error of a window and moves on.
EvaluateErrorMovesOn(p) ==
    /\ pc[p] = "evaluate"
    /\ toJudge[p] = {} /\ toFetch[p] = {}
    /\ failed[p] /\ ~fired[p]
    /\ pc' = [pc EXCEPT ![p] = "move"]
    /\ UNCHANGED <<rows, win, upto, listed, toFetch, toJudge, rule, fired, failed,
                   now, edits, faults, history>>

EvaluateError(p) ==
    /\ pc[p] = "evaluate"
    /\ toJudge[p] = {} /\ toFetch[p] = {}
    /\ failed[p] /\ ~fired[p]
    /\ Return(p)
    /\ UNCHANGED <<rows, now, edits, faults, history>>


\* Mutant: scope errors are never returned.
EvaluateDoneRegardless(p) ==
    /\ pc[p] = "evaluate"
    /\ toJudge[p] = {} /\ toFetch[p] = {}
    /\ pc' = [pc EXCEPT ![p] = "move"]
    /\ evaluated' = evaluated \union {win[p]}
    /\ UNCHANGED <<rows, win, upto, listed, toFetch, toJudge, rule, fired, failed, now,
                   edits, faults, origin, between, attended, sent, sentAt, early, earlySelf,
                   again, torn>>

EvaluateDone(p) ==
    /\ pc[p] = "evaluate"
    /\ toJudge[p] = {} /\ toFetch[p] = {}
    /\ fired[p] \/ ~failed[p]
    /\ pc' = [pc EXCEPT ![p] = "move"]
    /\ evaluated' = evaluated \union {win[p]}
    /\ UNCHANGED <<rows, win, upto, listed, toFetch, toJudge, rule, fired, failed,
                   now, edits, faults, origin, between, attended, sent, sentAt, early, earlySelf, again, torn>>

(* SetLastHourChecked, an UPDATE that matches no row once the counter is    *)
(* gone, and the loop of advance.                                           *)

MoveCursor(p) ==
    /\ pc[p] = "move"
    /\ cursor' = IF exists THEN win[p] ELSE cursor
    /\ origin' = IF exists /\ cursor = None THEN win[p] ELSE origin
    /\ IF win[p] < upto[p] THEN Enter(p, win[p] + 1, upto[p]) ELSE Return(p)
    /\ UNCHANGED <<exists, triggers, firedAt, alertRows, now, edits, faults,
                   between, evaluated, attended, sent, sentAt, early, earlySelf, again, torn>>

MoveCursorError(p) ==
    /\ pc[p] = "move"
    /\ Fault
    /\ torn' = (torn \/ fired[p])
    /\ Return(p)
    /\ UNCHANGED <<rows, now, edits, origin, between, evaluated, attended, sent, sentAt, early, earlySelf, again>>

-----------------------------------------------------------------------------
(* Everything else that touches these rows.                                 *)

\* A rule's cooldown and alert rows stay behind.
DeleteTrigger(r) ==
    /\ r \in triggers
    /\ Edit
    /\ triggers' = triggers \ {r}
    /\ UNCHANGED <<exists, cursor, firedAt, alertRows, locals, now, faults, history>>

\* One transaction; cooldown rows are found through the triggers that are left.
DeleteCounter ==
    /\ exists
    /\ Edit
    /\ exists' = FALSE
    /\ firedAt' = [r \in Rules |-> IF r \in triggers THEN None ELSE firedAt[r]]
    /\ triggers' = {}
    /\ alertRows' = {}
    /\ cursor' = None
    /\ UNCHANGED <<locals, now, faults, history>>

\* The process dies and is started again: goroutines are gone, rows are not.
Crash ==
    /\ Fault
    /\ \E p \in Advancers : pc[p] # "idle"
    /\ torn' = (torn \/ \E p \in Advancers : fired[p] \/ pc[p] = "stamp")
    /\ pc' = [p \in Advancers |-> "idle"]
    /\ win' = [p \in Advancers |-> 0]
    /\ upto' = [p \in Advancers |-> 0]
    /\ listed' = [p \in Advancers |-> {}]
    /\ toFetch' = [p \in Advancers |-> {}]
    /\ toJudge' = [p \in Advancers |-> {}]
    /\ rule' = [p \in Advancers |-> None]
    /\ fired' = [p \in Advancers |-> FALSE]
    /\ failed' = [p \in Advancers |-> FALSE]
    /\ UNCHANGED <<rows, now, edits, origin, between, evaluated, attended, sent, sentAt, early, earlySelf, again>>

Tick ==
    /\ now < MaxTime
    /\ now' = now + 1
    /\ UNCHANGED <<rows, locals, faults, edits, history>>

Begin(p) == BeginFirst(p) \/ BeginNext(p)

EvaluateWindow(p) ==
    \/ ListError(p) \/ ListNone(p) \/ ListSome(p)
    \/ FetchError(p) \/ FetchScope(p)
    \/ JudgeQuiet(p) \/ JudgeFires(p)
    \/ Deliver(p) \/ RecordTriggerFire(p)
    \/ EvaluateError(p) \/ EvaluateDone(p)

Advance(p) == Begin(p) \/ EvaluateWindow(p) \/ MoveCursor(p) \/ MoveCursorError(p)

Next ==
    \/ \E p \in Advancers : Advance(p)
    \/ \E r \in Rules : DeleteTrigger(r)
    \/ DeleteCounter
    \/ Crash
    \/ Tick

Spec == Init /\ [][Next]_vars

\* Each loop's ticker keeps calling advance, and a call goes on: the requests to
\* Metrika time out and the database answers.  A delivery may never return, as the
\* client of Telegram has no timeout and gets no context (main.go:201,
\* router.go:184).  The admins' deletions, crashes and the clock are not obliged
\* to happen.
Works(p) == pc[p] # "deliver" /\ Advance(p)

FairSpec == Spec /\ \A p \in Advancers : WF_vars(Works(p))

-----------------------------------------------------------------------------
(* Properties.                                                              *)

(* From the window a counter's cursor was first set to, it never passes one  *)
(* that EvaluateWindow has not returned success for, however many goroutines *)
(* advance the counter and wherever the process dies: a restart does not     *)
(* skip "the hours in between" (repo.go:380), and a window that failed is    *)
(* retried (poller.go:271).  Nothing is promised of the time before: as long *)
(* as there is no cursor each check begins at the newest window              *)
(* (poller.go:296), so a window that fails in the first check is never       *)
(* retried.  And of two first checks that run at once, one for an older      *)
(* window than the other, the windows between those two may be left out,     *)
(* and no others (between).                                                  *)
NoGap == cursor # None => origin..cursor \subseteq evaluated \union between

(* A rule is passed over in a window the engine counts as judged only if    *)
(* another rule alerted in that very window: the one case in which          *)
(* EvaluateWindow swallows the error of a scope (evaluator.go:86).          *)
SkipNeedsAlert ==
    \A w \in evaluated : \A r \in triggers \ Malformed :
        w \in attended[r] \/ \E q \in Rules : w \in sent[q]

(* One goroutine never alerts for a rule twice within its cooldown, as long *)
(* as the counter is there and no write behind an alert was lost: it stamps *)
(* the cooldown before it looks at the next rule.  So no cooldown's length  *)
(* of time sees more alerts of a rule than there are goroutines inside      *)
(* advance (evaluator.go:214-238).                                          *)
OwnCooldownHonoured == exists /\ ~torn => earlySelf = {}

(* A rule never alerts twice within its cooldown, "the least interval       *)
(* between repeated alerts" (README.md:139), under the same conditions.     *)
CooldownHonoured == exists /\ ~torn => early = {}

(* A rule alerts at most once for one window, whatever is retried: a retry  *)
(* happens only when nothing fired (evaluator.go:86), so it repeats nothing *)
(* unless a write behind an alert was lost.                                 *)
AlertedOncePerWindow == torn \/ again = {}

(* The cursor of a counter that stays moves forward only (repo.go:380).     *)
CursorNeverBack == [][exists' => cursor' >= cursor]_vars

(* Every rule with a usable scope is looked at in every window that is      *)
(* counted as judged: "a failed hour must not advance the cursor, or it is  *)
(* silently skipped" (poller_test.go:169, poller.go:271).                   *)
NothingSkipped ==
    \A w \in evaluated : \A r \in triggers \ Malformed : w \in attended[r]

(* With a working API the counter catches up with the newest settled        *)
(* window, after any finite number of failures and crashes and after any    *)
(* backlog, unless a delivery never returns; rules without a usable scope   *)
(* alone would hold it back.                                                *)
DeliveriesReturn == \A p \in Advancers : WF_vars(Deliver(p))

CatchesUp ==
    DeliveriesReturn =>
        <>[](\/ ~exists
             \/ cursor = now
             \/ triggers # {} /\ triggers \subseteq Malformed)

=============================================================================
