-------------------------------- MODULE WatchSet --------------------------------
(***************************************************************************)
(* The poller's supervision: supervise reconciles the map of watched        *)
(* counters with the database, one goroutine of its own polls each counter, *)
(* and cancelling a goroutine's context is the only way to end it.          *)
(*                                                                         *)
(* What a goroutine does inside advance is AlertEngine's subject; here it   *)
(* is busy for a while, and a cancelled context is noticed only when it is  *)
(* back in its select.                                                      *)
(***************************************************************************)
EXTENDS Integers

CONSTANTS
    Counters,    \* counter ids; SQLite never gives one out twice
    Intervals,   \* what poll_interval_minutes may hold
    MaxEdits     \* bound: changes to the rows in a behaviour

None == -1       \* no row, no entry in the map

ASSUME WatchAssumption ==
    Intervals \subseteq Int \ {None} /\ MaxEdits \in Nat

VARIABLES
    rows,        \* the interval in each counter's row
    ever,        \* the counters that have been added
    supervisor,  \* where supervise is
    listed,      \* the rows ListCounters returned
    watched,     \* p.watched: the interval of each counter's goroutine
    stopped,     \* the context of the service is cancelled
    loops,       \* the goroutines that have not returned
    started,     \* how many were started for each counter
    edits

vars == <<rows, ever, supervisor, listed, watched, stopped, loops, started, edits>>

\* pollInterval: floored at a minute.
PollInterval(i) == IF i < 1 THEN 1 ELSE i
Cadence(i) == IF i = None THEN None ELSE PollInterval(i)

Cadences == {PollInterval(i) : i \in Intervals}
Loop == [counter : Counters, nr : Nat, interval : Cadences, cancelled : BOOLEAN,
         at : {"advance", "select"}]

TypeOK ==
    /\ rows \in [Counters -> Intervals \union {None}]
    /\ ever \subseteq Counters
    /\ supervisor \in {"select", "reconcile", "ended"}
    /\ listed \in [Counters -> Intervals \union {None}]
    /\ watched \in [Counters -> Cadences \union {None}]
    /\ stopped \in BOOLEAN
    /\ loops \subseteq Loop
    /\ started \in [Counters -> Nat]
    /\ edits \in 0..MaxEdits

Init ==
    /\ rows \in [Counters -> Intervals \union {None}]
    /\ ever = {c \in Counters : rows[c] # None}
    /\ supervisor = "select"
    /\ listed = [c \in Counters |-> None]
    /\ watched = [c \in Counters |-> None]
    /\ stopped = FALSE
    /\ loops = {}
    /\ started = [c \in Counters |-> 0]
    /\ edits = 0

-----------------------------------------------------------------------------
(* The bot, the API and an import change the rows.                          *)

Edit == edits < MaxEdits /\ edits' = edits + 1

AddCounter(c, i) ==
    /\ Edit
    /\ c \notin ever
    /\ rows' = [rows EXCEPT ![c] = i]
    /\ ever' = ever \union {c}
    /\ UNCHANGED <<supervisor, listed, watched, stopped, loops, started>>

DeleteCounter(c) ==
    /\ Edit
    /\ rows[c] # None
    /\ rows' = [rows EXCEPT ![c] = None]
    /\ UNCHANGED <<ever, supervisor, listed, watched, stopped, loops, started>>

Retune(c, i) ==
    /\ Edit
    /\ rows[c] # None
    /\ rows' = [rows EXCEPT ![c] = i]
    /\ UNCHANGED <<ever, supervisor, listed, watched, stopped, loops, started>>

-----------------------------------------------------------------------------
(* reconcile: the rows are read before the lock is taken, and what follows  *)
(* holds it.  Start calls it once before supervise does on its ticker; a    *)
(* query that fails changes nothing and the next tick tries again.          *)

ListCounters ==
    /\ supervisor = "select"
    /\ ~stopped
    /\ listed' = rows
    /\ supervisor' = "reconcile"
    /\ UNCHANGED <<rows, ever, watched, stopped, loops, started, edits>>

\* Mutant: the interval of the row is compared as it stands.
UpToDateUnfloored(c) == watched[c] = listed[c]

UpToDate(c) == watched[c] = Cadence(listed[c])

\* Entries whose counter is gone or whose interval changed.
Outdated == {c \in Counters : watched[c] # None /\ ~UpToDate(c)}

Starting == {c \in Counters : listed[c] # None /\ ~UpToDate(c)}

\* The entries of C are cancelled: each holds the newest goroutine's context.
Cancel(C) ==
    {IF l.counter \in C /\ l.nr = started[l.counter] THEN [l EXCEPT !.cancelled = TRUE] ELSE l
        : l \in loops}

\* A goroutine of the counter c; its context is a child of the service's.
Started(c) ==
    [counter |-> c, nr |-> started[c] + 1, interval |-> Cadence(listed[c]),
     cancelled |-> stopped, at |-> "advance"]

\* Mutant: a counter whose interval changed gets a second goroutine.
ReconcileNoCancel ==
    /\ supervisor = "reconcile"
    /\ supervisor' = "select"
    /\ watched' = [c \in Counters |-> Cadence(listed[c])]
    /\ loops' = Cancel(Outdated \ Starting) \union {Started(c) : c \in Starting}
    /\ started' = [c \in Counters |-> IF c \in Starting THEN started[c] + 1 ELSE started[c]]
    /\ UNCHANGED <<rows, ever, listed, stopped, edits>>

\* Mutant: the goroutines of deleted counters are left running.
ReconcileNoStop ==
    /\ supervisor = "reconcile"
    /\ supervisor' = "select"
    /\ watched' = [c \in Counters |-> Cadence(listed[c])]
    /\ loops' = Cancel(Outdated \intersect Starting) \union {Started(c) : c \in Starting}
    /\ started' = [c \in Counters |-> IF c \in Starting THEN started[c] + 1 ELSE started[c]]
    /\ UNCHANGED <<rows, ever, listed, stopped, edits>>

\* Mutant: the map keeps the interval of the row.
ReconcileRaw ==
    /\ supervisor = "reconcile"
    /\ supervisor' = "select"
    /\ watched' = listed
    /\ loops' = Cancel(Outdated) \union {Started(c) : c \in Starting}
    /\ started' = [c \in Counters |-> IF c \in Starting THEN started[c] + 1 ELSE started[c]]
    /\ UNCHANGED <<rows, ever, listed, stopped, edits>>

Reconcile ==
    /\ supervisor = "reconcile"
    /\ supervisor' = "select"
    /\ watched' = [c \in Counters |-> IF c \in Starting THEN Cadence(listed[c])
                                      ELSE IF c \in Outdated THEN None ELSE watched[c]]
    /\ loops' = Cancel(Outdated) \union {Started(c) : c \in Starting}
    /\ started' = [c \in Counters |-> IF c \in Starting THEN started[c] + 1 ELSE started[c]]
    /\ UNCHANGED <<rows, ever, listed, stopped, edits>>

\* The service is told to stop: every context is cancelled with its own.
Shutdown ==
    /\ ~stopped
    /\ stopped' = TRUE
    /\ loops' = {[l EXCEPT !.cancelled = TRUE] : l \in loops}
    /\ UNCHANGED <<rows, ever, supervisor, listed, watched, started, edits>>

\* stopAll, as supervise ends.
StopAll ==
    /\ supervisor = "select"
    /\ stopped
    /\ supervisor' = "ended"
    /\ loops' = Cancel({c \in Counters : watched[c] # None})
    /\ watched' = [c \in Counters |-> None]
    /\ UNCHANGED <<rows, ever, listed, stopped, started, edits>>

-----------------------------------------------------------------------------
(* pollCounterLoop: one look straight away, then one at every tick.  With   *)
(* both channels ready select takes either, so a cancelled goroutine may    *)
(* take one more tick.                                                      *)

Move(l, stage) == loops' = (loops \ {l}) \union {[l EXCEPT !.at = stage]}

AdvanceReturns(c, n) ==
    /\ \E l \in loops : l.counter = c /\ l.nr = n /\ l.at = "advance" /\ Move(l, "select")
    /\ UNCHANGED <<rows, ever, supervisor, listed, watched, stopped, started, edits>>

Ticks(c, n) ==
    /\ \E l \in loops : l.counter = c /\ l.nr = n /\ l.at = "select" /\ Move(l, "advance")
    /\ UNCHANGED <<rows, ever, supervisor, listed, watched, stopped, started, edits>>

\* Mutant: the goroutine is given the service's context, not its own.
EndsWithService(c, n) ==
    /\ \E l \in loops : /\ l.counter = c /\ l.nr = n /\ l.at = "select" /\ stopped
                        /\ loops' = loops \ {l}
    /\ UNCHANGED <<rows, ever, supervisor, listed, watched, stopped, started, edits>>

Ends(c, n) ==
    /\ \E l \in loops : /\ l.counter = c /\ l.nr = n /\ l.at = "select" /\ l.cancelled
                        /\ loops' = loops \ {l}
    /\ UNCHANGED <<rows, ever, supervisor, listed, watched, stopped, started, edits>>

Numbers == {l.nr : l \in loops}

Next ==
    \/ \E c \in Counters, i \in Intervals : AddCounter(c, i) \/ Retune(c, i)
    \/ \E c \in Counters : DeleteCounter(c)
    \/ ListCounters \/ Reconcile \/ Shutdown \/ StopAll
    \/ \E c \in Counters, n \in Numbers : AdvanceReturns(c, n) \/ Ticks(c, n) \/ Ends(c, n)

Spec == Init /\ [][Next]_vars

\* supervise's ticker keeps coming and its query eventually succeeds; advance
\* returns; a goroutine whose context is cancelled takes that branch of its
\* select sooner or later, even if ticks come in between.  Rows need not
\* change and the service need not stop.
FairSpec ==
    /\ Spec
    /\ WF_vars(ListCounters) /\ WF_vars(Reconcile) /\ WF_vars(StopAll)
    /\ \A c \in Counters : \A n \in 1..(MaxEdits + 1) :
          WF_vars(AdvanceReturns(c, n)) /\ SF_vars(Ends(c, n))

-----------------------------------------------------------------------------
Running == {l \in loops : ~l.cancelled}

\* The cadence at which each counter is polled.
Polled ==
    [c \in Counters |-> IF \E l \in Running : l.counter = c
                        THEN (CHOOSE l \in Running : l.counter = c).interval ELSE None]

(* Every goroutine that was not cancelled is the one its counter's entry    *)
(* in the map would cancel, so none can be left running for good: "a        *)
(* deleted one used to leave its goroutine running forever" (poller.go:114) *)
(* and no counter has two (poller_test.go:355).                             *)
InTheMap ==
    ~stopped =>
        /\ \A l \in Running : l.nr = started[l.counter] /\ watched[l.counter] = l.interval
        /\ \A c \in Counters : watched[c] # None => \E l \in Running : l.counter = c

(* A reconcile leaves alone every goroutine that polls at the cadence its   *)
(* counter asks for; restarting one would judge out of turn.                *)
NotRestarted ==
    [][\A l \in Running :
          Cadence(listed[l.counter]) = l.interval /\ ~stopped' =>
              \E m \in loops' : m.counter = l.counter /\ m.nr = l.nr /\ ~m.cancelled]_vars

(* Counters are polled as their rows ask, as PolledSet promises.            *)
Promise == INSTANCE PolledSet WITH
    Unpolled <- None,
    rows <- [c \in Counters |-> Cadence(rows[c])],
    seen <- [c \in Counters |-> Cadence(listed[c])],
    polled <- Polled

Implements == Promise!Spec

(* "An added counter is polled within half a minute, a deleted one no       *)
(* longer is, a changed interval is applied" (README.md:88): once the rows  *)
(* stay as they are the polled set agrees with them and every other         *)
(* goroutine has returned, or the service has stopped and all have.         *)
Settles ==
    <>[](/\ Polled = IF stopped THEN [c \in Counters |-> None]
                     ELSE [c \in Counters |-> Cadence(rows[c])]
         /\ loops = Running)

=============================================================================
