----------------------------- MODULE WatchSetProofs -----------------------------
(***************************************************************************)
(* The poller keeps the promise of PolledSet for any counters, intervals    *)
(* and number of changes.                                                   *)
(***************************************************************************)
EXTENDS WatchSet, TLAPS

\* An interval is floored to a cadence; only a missing row has none.
LEMMA CadenceType ==
  ASSUME NEW i \in Intervals \union {None}
  PROVE  /\ Cadence(i) \in Cadences \union {None}
         /\ Cadence(i) = None <=> i = None
  BY WatchAssumption DEF Cadence, Cadences, PollInterval, None

\* What is known of one goroutine while the service runs.
Listed(l) == l.nr = started[l.counter] /\ watched[l.counter] = l.interval

Inv ==
    /\ rows \in [Counters -> Intervals \union {None}]
    /\ listed \in [Counters -> Intervals \union {None}]
    /\ watched \in [Counters -> Cadences \union {None}]
    /\ started \in [Counters -> Nat]
    /\ stopped \in BOOLEAN
    /\ loops \subseteq Loop
    /\ \A l \in loops : l.nr <= started[l.counter]
    /\ \A l, m \in loops : l.counter = m.counter /\ l.nr = m.nr => l = m
    /\ stopped => Running = {}
    /\ InTheMap

\* Before the first reconcile there is no goroutine and no entry.
LEMMA InvInit == Init => Inv
<1> SUFFICES ASSUME Init PROVE Inv
  OBVIOUS
<1>1. stopped \in BOOLEAN
  BY Zenon DEF Init
<1> QED
  BY <1>1 DEF Init, Inv, Running, InTheMap

\* A goroutine that enters or leaves advance keeps its place in the map.
LEMMA MoveRuns ==
  ASSUME Inv, NEW l \in loops, NEW s \in {"advance", "select"}, Move(l, s),
         UNCHANGED <<rows, listed, watched, stopped, started>>
  PROVE  Inv'
<1> DEFINE new == [l EXCEPT !.at = s]
<1>1. /\ new \in Loop /\ new.counter = l.counter /\ new.nr = l.nr
      /\ new.interval = l.interval /\ new.cancelled = l.cancelled
  BY DEF Inv, Loop
<1>2. loops' = (loops \ {l}) \union {new}
  BY DEF Move
<1> HIDE DEF new
<1>3. loops' \subseteq Loop /\ \A m \in loops' : m.nr <= started[m.counter]
  BY <1>1, <1>2 DEF Inv
<1>4. \A k, m \in loops' : k.counter = m.counter /\ k.nr = m.nr => k = m
  BY <1>1, <1>2 DEF Inv
<1>5. stopped => Running' = {}
  BY <1>1, <1>2 DEF Inv, Running
<1>6. InTheMap'
  BY <1>1, <1>2 DEF Inv, InTheMap, Running
<1> QED
  BY <1>3, <1>4, <1>5, <1>6 DEF Inv

\* A cancelled goroutine that returns leaves the others as they are.
LEMMA EndKeeps ==
  ASSUME Inv, NEW l \in loops, l.cancelled, loops' = loops \ {l},
         UNCHANGED <<rows, listed, watched, stopped, started>>
  PROVE  Inv'
<1>1. Running' = Running
  BY DEF Running
<1>2. InTheMap'
  BY <1>1 DEF Inv, InTheMap
<1> QED
  BY <1>1, <1>2 DEF Inv

\* What Cancel does to each goroutine.
Off(l) == [l EXCEPT !.cancelled = TRUE]

\* Cancelling changes nothing of a goroutine but that it is cancelled.
LEMMA OffType ==
  ASSUME NEW l \in Loop
  PROVE  /\ Off(l) \in Loop /\ Off(l).cancelled
         /\ Off(l).counter = l.counter /\ Off(l).nr = l.nr /\ Off(l).interval = l.interval
  BY DEF Loop, Off

\* Cancel keeps every goroutine, cancelled if it is the newest of C.
LEMMA Cancelled ==
  ASSUME Inv, NEW C \in SUBSET Counters
  PROVE  \A m \in Cancel(C) : \E l \in loops :
            \/ m = l /\ ~(l.counter \in C /\ l.nr = started[l.counter])
            \/ m = Off(l) /\ l.counter \in C /\ l.nr = started[l.counter]
  BY DEF Cancel, Off

\* reconcile keeps Inv.
LEMMA ReconcileKeeps == ASSUME Inv, Reconcile PROVE Inv'
<1>a. /\ watched \in [Counters -> Cadences \union {None}]
      /\ started \in [Counters -> Nat]
      /\ loops \subseteq Loop
      /\ UNCHANGED <<rows, listed, stopped>>
  BY DEF Inv, Reconcile
<1>b. Outdated \in SUBSET Counters /\ Starting \in SUBSET Counters
  BY DEF Outdated, Starting
<1>c. \A c \in Counters : /\ Cadence(listed[c]) \in Cadences \union {None}
                          /\ Cadence(listed[c]) = None <=> listed[c] = None
  BY CadenceType DEF Inv
<1>d. \A c \in Counters : started'[c] = IF c \in Starting THEN started[c] + 1 ELSE started[c]
  BY DEF Reconcile
<1>e. \A c \in Counters : watched'[c] = Cadence(listed[c])
  BY <1>a, <1>c DEF Reconcile, Starting, Outdated, UpToDate
<1>f. ASSUME NEW c \in Starting
      PROVE  /\ Started(c) \in Loop /\ Started(c).counter = c /\ Started(c).nr = started'[c]
             /\ Started(c).interval = Cadence(listed[c]) /\ Started(c).cancelled = stopped
  <2>1. c \in Counters /\ Cadence(listed[c]) \in Cadences /\ started[c] \in Nat
    BY <1>a, <1>b, <1>c DEF Starting
  <2>2. stopped \in BOOLEAN
    BY DEF Inv
  <2> QED
    BY <1>d, <2>1, <2>2 DEF Started, Loop
<1>1. ASSUME NEW m \in loops'
      PROVE  \/ \E l \in loops :
                   \/ m = l /\ ~(l.counter \in Outdated /\ l.nr = started[l.counter])
                   \/ m = Off(l) /\ l.counter \in Outdated /\ l.nr = started[l.counter]
             \/ \E c \in Starting : m = Started(c)
  BY <1>b, Cancelled DEF Reconcile
<1>2. ASSUME NEW m \in loops' PROVE m \in Loop /\ m.nr <= started'[m.counter]
  <2>1. ASSUME NEW l \in loops, m = l \/ m = Off(l) PROVE m \in Loop /\ m.nr <= started'[m.counter]
    <3>1. l \in Loop /\ l.counter \in Counters /\ l.nr \in Nat /\ l.nr <= started[l.counter]
      BY DEF Inv, Loop
    <3> QED
      BY <1>a, <1>d, <2>1, <3>1, OffType
  <2>2. ASSUME NEW c \in Starting, m = Started(c) PROVE m \in Loop /\ m.nr <= started'[m.counter]
    <3>1. started'[c] \in Nat
      BY <1>a, <1>b, <1>d
    <3> QED
      BY <1>f, <2>2, <3>1
  <2> QED
    BY <1>1, <2>1, <2>2
<1>3. ASSUME NEW k \in loops', NEW m \in loops', k.counter = m.counter, k.nr = m.nr PROVE k = m
  <2>1. ASSUME NEW l \in loops, NEW c \in Starting, l.counter = c PROVE l.nr # Started(c).nr
    <3>1. l.nr \in Nat /\ l.nr <= started[c] /\ started[c] \in Nat
      BY <1>a, <1>b, <2>1 DEF Inv, Loop
    <3> QED
      BY <1>d, <1>b, <1>f, <3>1
  <2>2. \A l \in loops : Off(l).counter = l.counter /\ Off(l).nr = l.nr
    BY <1>a, OffType
  <2>3. \A l, o \in loops : l.counter = o.counter /\ l.nr = o.nr => l = o
    BY DEF Inv
  <2>4. CASE (\E c \in Starting : k = Started(c)) /\ (\E c \in Starting : m = Started(c))
    BY <1>3, <1>f, <2>4
  <2>5. CASE (\E c \in Starting : k = Started(c)) /\ ~(\E c \in Starting : m = Started(c))
    BY <1>1, <1>3, <1>f, <2>1, <2>2, <2>5
  <2>6. CASE ~(\E c \in Starting : k = Started(c)) /\ (\E c \in Starting : m = Started(c))
    BY <1>1, <1>3, <1>f, <2>1, <2>2, <2>6
  <2>7. CASE ~(\E c \in Starting : k = Started(c)) /\ ~(\E c \in Starting : m = Started(c))
    BY <1>1, <1>3, <2>2, <2>3, <2>7
  <2> QED
    BY <2>4, <2>5, <2>6, <2>7
<1>4. ASSUME stopped, NEW m \in loops' PROVE m.cancelled
  <2>1. \A l \in loops : l.cancelled /\ Off(l).cancelled
    BY <1>a, <1>4, OffType DEF Inv, Running
  <2> QED
    BY <1>1, <1>4, <1>f, <2>1
<1>5. ASSUME ~stopped, NEW m \in loops', ~m.cancelled
      PROVE  m.nr = started'[m.counter] /\ watched'[m.counter] = m.interval
  <2>1. CASE \E c \in Starting : m = Started(c)
    BY <1>b, <1>e, <1>f, <2>1
  <2>2. ASSUME NEW l \in loops, m = l, ~(l.counter \in Outdated /\ l.nr = started[l.counter])
        PROVE  m.nr = started'[m.counter] /\ watched'[m.counter] = m.interval
    <3>1. l \in Running /\ l.nr = started[l.counter] /\ watched[l.counter] = l.interval
      BY <1>5, <2>2 DEF Running, Inv, InTheMap
    <3>2. l.counter \in Counters /\ l.interval \in Cadences
      BY <1>a DEF Loop
    <3>3. l.interval # None
      BY <3>2, WatchAssumption DEF Cadences, PollInterval, None
    <3>4. UpToDate(l.counter)
      BY <2>2, <3>1, <3>2, <3>3 DEF Outdated
    <3> QED
      BY <1>d, <1>e, <2>2, <3>1, <3>2, <3>4 DEF Starting, UpToDate
  <2>3. \A l \in loops : Off(l).cancelled
    BY <1>a, OffType
  <2> QED
    BY <1>1, <1>5, <2>1, <2>2, <2>3
<1>6. ASSUME ~stopped, NEW c \in Counters, watched'[c] # None
      PROVE  \E m \in loops' : ~m.cancelled /\ m.counter = c
  <2>1. CASE c \in Starting
    BY <1>f, <1>6, <2>1 DEF Reconcile
  <2>2. CASE c \notin Starting
    <3>1. UpToDate(c) /\ watched[c] # None
      BY <1>c, <1>e, <1>6, <2>2 DEF Starting, UpToDate
    <3>2. PICK l \in loops : ~l.cancelled /\ l.counter = c
      BY <1>6, <3>1 DEF Inv, InTheMap, Running
    <3>3. l \in Cancel(Outdated)
      BY <3>1, <3>2 DEF Cancel, Outdated
    <3> QED
      BY <3>2, <3>3 DEF Reconcile
  <2> QED
    BY <2>1, <2>2
<1>7. watched' \in [Counters -> Cadences \union {None}] /\ started' \in [Counters -> Nat]
  BY <1>a, <1>c DEF Reconcile
<1>8. stopped' => Running' = {}
  BY <1>a, <1>4 DEF Running
<1>9. InTheMap'
  BY <1>a, <1>5, <1>6 DEF InTheMap, Running
<1> QED
  BY <1>a, <1>2, <1>3, <1>7, <1>8, <1>9 DEF Inv

\* Shutdown and stopAll keep Inv.
LEMMA StopKeeps == ASSUME Inv, Shutdown \/ StopAll PROVE Inv'
<1>1. ASSUME Shutdown PROVE Inv'
  <2>1. loops' = {Off(l) : l \in loops}
    BY <1>1 DEF Shutdown, Off
  <2>2. \A l \in loops : /\ Off(l) \in Loop /\ Off(l).cancelled
                         /\ Off(l).counter = l.counter /\ Off(l).nr = l.nr
    BY OffType DEF Inv
  <2>3. stopped' /\ Running' = {}
    BY <1>1, <2>1, <2>2 DEF Shutdown, Running
  <2>4. loops' \subseteq Loop /\ \A m \in loops' : m.nr <= started[m.counter]
    BY <2>1, <2>2 DEF Inv
  <2>5. \A k, m \in loops' : k.counter = m.counter /\ k.nr = m.nr => k = m
    BY <2>1, <2>2 DEF Inv
  <2>6. stopped' \in BOOLEAN
    BY <1>1, Zenon DEF Shutdown
  <2> QED
    BY <1>1, <2>3, <2>4, <2>5, <2>6 DEF Shutdown, Inv, InTheMap
<1>2. ASSUME StopAll PROVE Inv'
  <2> DEFINE C == {c \in Counters : watched[c] # None}
  <2>1. loops' = Cancel(C) /\ C \in SUBSET Counters
    BY <1>2 DEF StopAll
  <2>2. stopped /\ UNCHANGED <<rows, listed, started, stopped>>
    BY <1>2 DEF StopAll
  <2>3. \A l \in loops : /\ l \in Loop /\ l.cancelled /\ Off(l) \in Loop /\ Off(l).cancelled
                         /\ Off(l).counter = l.counter /\ Off(l).nr = l.nr
    BY <2>2, OffType DEF Inv, Running
  <2>4. \A m \in Cancel(C) : \E l \in loops :
            \/ m = l /\ ~(l.counter \in C /\ l.nr = started[l.counter])
            \/ m = Off(l) /\ l.counter \in C /\ l.nr = started[l.counter]
    BY <2>1, Cancelled
  <2> HIDE DEF C
  <2>5. Running' = {}
    BY <2>1, <2>3, <2>4 DEF Running
  <2>6. loops' \subseteq Loop /\ \A m \in loops' : m.nr <= started[m.counter]
    BY <2>1, <2>3, <2>4 DEF Inv
  <2>7. \A k, m \in loops' : k.counter = m.counter /\ k.nr = m.nr => k = m
    BY <2>1, <2>3, <2>4 DEF Inv
  <2>8. watched' \in [Counters -> Cadences \union {None}]
    BY <1>2 DEF StopAll
  <2> QED
    BY <2>2, <2>5, <2>6, <2>7, <2>8 DEF Inv, InTheMap
<1> QED
  BY <1>1, <1>2

\* Every step keeps Inv.
LEMMA InvNext == Inv /\ [Next]_vars => Inv'
<1> SUFFICES ASSUME Inv, [Next]_vars PROVE Inv'
  OBVIOUS
<1>1. ASSUME NEW c \in Counters, NEW i \in Intervals,
             AddCounter(c, i) \/ Retune(c, i) \/ DeleteCounter(c)
      PROVE  Inv'
  BY <1>1 DEF AddCounter, Retune, DeleteCounter, Inv, InTheMap, Running
<1>2. ASSUME NEW c \in Counters, DeleteCounter(c) PROVE Inv'
  BY <1>2 DEF DeleteCounter, Inv, InTheMap, Running
<1>3. ASSUME ListCounters \/ UNCHANGED vars PROVE Inv'
  BY <1>3 DEF ListCounters, vars, Inv, InTheMap, Running
<1>4. ASSUME NEW c \in Counters, NEW n \in Numbers, AdvanceReturns(c, n) \/ Ticks(c, n)
      PROVE  Inv'
  BY <1>4, MoveRuns DEF AdvanceReturns, Ticks
<1>5. ASSUME NEW c \in Counters, NEW n \in Numbers, Ends(c, n) PROVE Inv'
  BY <1>5, EndKeeps DEF Ends
<1> QED
  BY <1>1, <1>2, <1>3, <1>4, <1>5, ReconcileKeeps, StopKeeps DEF Next

(* Every goroutine that is not cancelled is the one its counter's entry in  *)
(* the map would cancel, and every entry has one (poller.go:114).           *)
THEOREM NoneAstray == Spec => []InTheMap
<1>1. Inv => InTheMap
  BY DEF Inv
<1> QED
  BY <1>1, InvInit, InvNext, PTL DEF Spec

(* Every variable keeps its type: what Inv does not bound already is the     *)
(* set of counters ever added, where supervise is and the number of edits.  *)
THEOREM TypeCorrect == Spec => []TypeOK
<1> DEFINE Rest == /\ ever \subseteq Counters
                   /\ supervisor \in {"select", "reconcile", "ended"}
                   /\ edits \in 0..MaxEdits
<1>1. Init => Rest
  BY WatchAssumption DEF Init
<1>2. Rest /\ [Next]_vars => Rest'
  BY WatchAssumption
  DEF Next, vars, AddCounter, Retune, DeleteCounter, Edit, ListCounters, Reconcile, Shutdown,
      StopAll, AdvanceReturns, Ticks, Ends
<1>3. Inv /\ Rest => TypeOK
  BY DEF Inv, TypeOK
<1> QED
  BY <1>1, <1>2, <1>3, InvInit, InvNext, PTL DEF Spec

(* A reconcile restarts no goroutine that already polls at the cadence its  *)
(* counter asks for (poller.go:174-184).                                    *)
THEOREM NeverRestarted == Spec => NotRestarted
<1> DEFINE Kept == \A l \in Running :
                      Cadence(listed[l.counter]) = l.interval /\ ~stopped' =>
                          \E m \in loops' : m.counter = l.counter /\ m.nr = l.nr /\ ~m.cancelled
<1>1. ASSUME Inv, Next, NEW l \in Running, Cadence(listed[l.counter]) = l.interval, ~stopped'
      PROVE  \E m \in loops' : m.counter = l.counter /\ m.nr = l.nr /\ ~m.cancelled
  <2>1. l \in loops /\ l \in Loop /\ ~l.cancelled
    BY <1>1 DEF Inv, Running
  <2>2. CASE UNCHANGED loops
    BY <2>1, <2>2
  <2>3. ASSUME Reconcile
        PROVE  l \in loops'
    <3>1. ~stopped /\ watched[l.counter] = l.interval
      BY <1>1, <2>3 DEF Reconcile, Inv, InTheMap
    <3>2. l.counter \notin Outdated
      BY <1>1, <3>1 DEF Outdated, UpToDate
    <3> QED
      BY <2>1, <2>3, <3>2 DEF Reconcile, Cancel
  <2>4. CASE Shutdown \/ StopAll
    BY <1>1, <2>4 DEF Shutdown, StopAll
  <2>5. ASSUME NEW k \in loops, NEW s \in {"advance", "select"}, Move(k, s)
        PROVE  \E m \in loops' : m.counter = l.counter /\ m.nr = l.nr /\ ~m.cancelled
    <3>1. CASE k = l
      <4> DEFINE m == [l EXCEPT !.at = s]
      <4>1. m \in loops' /\ m.counter = l.counter /\ m.nr = l.nr /\ ~m.cancelled
        BY <2>1, <2>5, <3>1 DEF Move, Loop
      <4> QED
        BY <4>1
    <3>2. CASE k # l
      BY <2>1, <2>5, <3>2 DEF Move
    <3> QED
      BY <3>1, <3>2
  <2>6. ASSUME NEW k \in loops, k.cancelled, loops' = loops \ {k}
        PROVE  l \in loops'
    BY <2>1, <2>6
  <2> QED
    BY <1>1, <2>1, <2>2, <2>3, <2>4, <2>5, <2>6
    DEF Next, AddCounter, Retune, DeleteCounter, ListCounters, AdvanceReturns, Ticks, Ends
<1>2. Inv /\ [Next]_vars => [Kept]_vars
  BY <1>1
<1>3. []Inv /\ [][Next]_vars => [][Kept]_vars
  BY <1>2, PTL
<1> QED
  BY <1>3, InvInit, InvNext, PTL DEF Spec, NotRestarted

-----------------------------------------------------------------------------
\* The map says how each counter is polled, until the service stops.
PolledAsWatched == Polled = IF stopped THEN [c \in Counters |-> None] ELSE watched

\* The entries of the map are what is polled.
LEMMA PolledIsWatched == Inv => PolledAsWatched
<1> SUFFICES ASSUME Inv PROVE Polled = IF stopped THEN [c \in Counters |-> None] ELSE watched
  BY DEF PolledAsWatched
<1>1. CASE stopped
  BY <1>1 DEF Polled, Inv
<1>2. CASE ~stopped
  <2>1. ASSUME NEW c \in Counters PROVE Polled[c] = watched[c]
    <3>1. CASE \E l \in Running : l.counter = c
      <4> DEFINE l == CHOOSE l \in Running : l.counter = c
      <4>1. l \in Running /\ l.counter = c
        BY <3>1
      <4>2. watched[c] = l.interval
        BY <1>2, <4>1 DEF Inv, InTheMap
      <4> QED
        BY <3>1, <4>2 DEF Polled
    <3>2. CASE ~\E l \in Running : l.counter = c
      BY <1>2, <3>2 DEF Polled, Inv, InTheMap
    <3> QED
      BY <3>1, <3>2
  <2>2. Polled = [c \in Counters |-> Polled[c]] /\ watched = [c \in Counters |-> watched[c]]
    BY DEF Polled, Inv
  <2> QED
    BY <1>2, <2>1, <2>2
<1> QED
  BY <1>1, <1>2

\* Every step is one of PolledSet, or changes nothing it sees.
LEMMA StepImplements ==
  ASSUME Inv, Inv', [Next]_vars
  PROVE  [Promise!Next]_(Promise!vars)
<1> USE DEF Promise!Next, Promise!vars, Promise!Nothing
<1>a. Polled = IF stopped THEN [c \in Counters |-> None] ELSE watched
  BY PolledIsWatched DEF PolledAsWatched
<1>b. Polled' = IF stopped' THEN [c \in Counters |-> None] ELSE watched'
  <2>1. PolledAsWatched'
    BY PolledIsWatched, PTL
  <2> QED
    BY <2>1 DEF PolledAsWatched
<1>1. ASSUME UNCHANGED <<listed, loops, stopped>> PROVE Promise!Edit \/ UNCHANGED Promise!vars
  <2>1. Polled' = Polled
    BY <1>1 DEF Polled, Running
  <2>2. [c \in Counters |-> Cadence(rows[c])]' \in [Counters -> Promise!Cadence]
    BY CadenceType DEF Inv, Promise!Cadence
  <2> QED
    BY <1>1, <2>1, <2>2 DEF Promise!Edit
<1>2. ASSUME ListCounters PROVE Promise!Look
  <2>1. Polled' = Polled
    BY <1>2 DEF ListCounters, Polled, Running
  <2> QED
    BY <1>2, <2>1 DEF ListCounters, Promise!Look
<1>3. ASSUME Reconcile PROVE Promise!Follow
  <2>1. watched' = [c \in Counters |-> Cadence(listed[c])]
    <3>1. \A c \in Counters : Cadence(listed[c]) = None <=> listed[c] = None
      BY CadenceType DEF Inv
    <3> QED
      BY <1>3, <3>1 DEF Reconcile, Starting, Outdated, UpToDate
  <2> QED
    BY <1>3, <1>b, <2>1 DEF Reconcile, Promise!Follow
<1>4. ASSUME Shutdown PROVE Promise!Stop
  BY <1>4, <1>b DEF Shutdown, Promise!Stop
<1>5. ASSUME UNCHANGED <<rows, listed, stopped>>, stopped \/ watched' = watched
      PROVE  UNCHANGED Promise!vars
  BY <1>5, <1>a, <1>b
<1>6. ASSUME NEW c \in Counters, NEW i \in Intervals,
             AddCounter(c, i) \/ Retune(c, i)
      PROVE  [Promise!Next]_(Promise!vars)
  BY <1>6, <1>1 DEF AddCounter, Retune
<1>7. ASSUME NEW c \in Counters, DeleteCounter(c) PROVE [Promise!Next]_(Promise!vars)
  BY <1>7, <1>1 DEF DeleteCounter
<1>8. ASSUME NEW c \in Counters, NEW n \in Numbers,
             AdvanceReturns(c, n) \/ Ticks(c, n) \/ Ends(c, n)
      PROVE  UNCHANGED Promise!vars
  BY <1>5, <1>8 DEF AdvanceReturns, Ticks, Ends
<1>9. ASSUME StopAll \/ UNCHANGED vars PROVE UNCHANGED Promise!vars
  BY <1>5, <1>9 DEF StopAll, vars
<1> QED
  BY <1>2, <1>3, <1>4, <1>6, <1>7, <1>8, <1>9 DEF Next

(* The goroutines keep the promise of PolledSet: what is polled becomes     *)
(* what the rows were seen to ask for, all at once, and nothing once the    *)
(* service stops (README.md:88).                                            *)
THEOREM WatchSetImplements == Spec => Implements
<1>1. Init => Promise!Init
  <2> SUFFICES ASSUME Init PROVE Promise!Init
    OBVIOUS
  <2>1. Polled = [c \in Counters |-> None]
    BY DEF Init, Polled, Running
  <2>2. [c \in Counters |-> Cadence(rows[c])] \in [Counters -> Promise!Cadence]
    BY CadenceType DEF Init, Promise!Cadence
  <2>3. [c \in Counters |-> Cadence(listed[c])] = [c \in Counters |-> None]
    BY DEF Init, Cadence
  <2> QED
    BY <2>1, <2>2, <2>3 DEF Init, Promise!Init, Promise!Nothing
<1>2. Inv /\ Inv' /\ [Next]_vars => [Promise!Next]_(Promise!vars)
  BY StepImplements
<1> QED
  BY <1>1, <1>2, InvInit, InvNext, PTL DEF Spec, Implements, Promise!Spec

=============================================================================
