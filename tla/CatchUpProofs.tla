---------------------------- MODULE CatchUpProofs ----------------------------
(***************************************************************************)
(* For every step, settling time, cap and interval: only settled windows    *)
(* are judged, and one step after another.  Where a full check gains a step *)
(* on the clock (KeepsPace), a backlog is worked through in as many checks  *)
(* as it has windows, and windows are then judged within an interval.       *)
(*                                                                         *)
(* The argument: a check either leaves out nothing that has settled, or is  *)
(* full and moves the cursor by Gain (CheckGains); so each check without a  *)
(* failure takes the cursor a step nearer, until it is behind by Lag at     *)
(* most (Close).                                                            *)
(***************************************************************************)
EXTENDS CatchUp, TLAPS

\* truncateTo goes back by less than a step, and a step on lies ahead.
LEMMA Truncation ==
  ASSUME NEW t \in Int
  PROVE  /\ TruncateTo(t) \in Int
         /\ TruncateTo(t) <= t
         /\ t < TruncateTo(t) + Step
<1>1. t % DayLength \in Int
  BY CatchUpAssumption
<1> DEFINE m == t % DayLength
<1>2. m % Step \in Int /\ 0 <= m % Step /\ m % Step < Step
  <2> HIDE DEF m
  <2> QED
    BY <1>1, CatchUpAssumption DEF m
<1> QED
  BY <1>2, CatchUpAssumption DEF TruncateTo

\* A check takes whole steps from just behind the cursor.
LEMMA Pending ==
  ASSUME NEW last \in Int, NEW t \in Int
  PROVE  /\ PendingWindows(last, t) \subseteq Int
         /\ \A w \in PendingWindows(last, t) :
               /\ w + Settle <= t
               /\ last # None =>
                     /\ w > last
                     /\ \/ w - last <= Step
                        \/ w - Step \in PendingWindows(last, t)
<1>1. Latest(t) \in Int /\ Latest(t) + Settle <= t
  <2>1. t - Settle \in Int
    BY CatchUpAssumption
  <2> QED
    BY <2>1, Truncation, CatchUpAssumption DEF Latest
<1>2. CASE last = None
  BY <1>1, <1>2 DEF PendingWindows
<1>3. CASE last # None
  <2>1. Following(last) \in Int /\ last < Following(last) /\ Following(last) - last <= Step
    BY Truncation, CatchUpAssumption DEF Following
  <2> SUFFICES ASSUME NEW k \in 0..(MaxCatchUp - 1),
                      Following(last) + k * Step <= Latest(t)
               PROVE  LET w == Following(last) + k * Step IN
                      /\ w \in Int
                      /\ w + Settle <= t
                      /\ w > last
                      /\ w - last <= Step \/ w - Step \in PendingWindows(last, t)
    BY <1>3 DEF PendingWindows
  <2>2. k * Step \in Nat
    BY CatchUpAssumption
  <2>3. CASE k = 0
    BY <1>1, <2>1, <2>3, CatchUpAssumption
  <2>4. CASE k # 0
    <3>1. k - 1 \in 0..(MaxCatchUp - 1) /\ (k - 1) * Step = k * Step - Step
      BY <2>4, CatchUpAssumption
    <3>2. Following(last) + (k - 1) * Step <= Latest(t)
      BY <1>1, <2>1, <2>2, <3>1, CatchUpAssumption
    <3>3. Following(last) + (k - 1) * Step \in PendingWindows(last, t)
      BY <1>3, <3>1, <3>2 DEF PendingWindows
    <3>4. Following(last) + (k - 1) * Step = (Following(last) + k * Step) - Step
      BY <2>1, <2>2, <3>1, CatchUpAssumption
    <3> QED
      BY <1>1, <2>1, <2>2, <3>3, <3>4, CatchUpAssumption
  <2> QED
    BY <2>3, <2>4
<1> QED
  BY <1>2, <1>3

Checked ==
    /\ clock \in Int /\ nextTick \in Int /\ cursor \in Int
    /\ OnlySettled

Stepwise ==
    cursor # None =>
        \A w \in batch' : /\ w > cursor
                          /\ \E v \in batch' \union {cursor} : v < w /\ w - v <= Step

\* What one check does: it judges some of the oldest pending windows.
LEMMA CheckSteps ==
  ASSUME Checked, NEW t \in Int, clock' = t,
         NEW done, Judge(done), done \subseteq PendingWindows(cursor, t),
         \A v \in PendingWindows(cursor, t), w \in done : v < w => v \in done
  PROVE  cursor' \in Int /\ OnlySettled' /\ Stepwise
<1>1. batch' = done /\ cursor \in Int
  BY DEF Judge, Checked
<1>2. cursor' \in Int
  BY <1>1, Pending DEF Judge, Checked
<1>3. OnlySettled'
  BY <1>1, Pending DEF OnlySettled
<1>4. Stepwise
  <2> SUFFICES ASSUME cursor # None, NEW w \in done
               PROVE  /\ w > cursor
                      /\ \E v \in done \union {cursor} : v < w /\ w - v <= Step
    BY <1>1 DEF Stepwise
  <2>1. w \in Int /\ w > cursor /\ (w - cursor <= Step \/ w - Step \in PendingWindows(cursor, t))
    BY <1>1, Pending
  <2>2. CASE w - cursor <= Step
    BY <1>1, <2>1, <2>2
  <2>3. CASE w - Step \in PendingWindows(cursor, t)
    <3>1. w - Step < w /\ w - (w - Step) <= Step
      BY <2>1, CatchUpAssumption
    <3> QED
      BY <2>1, <2>3, <3>1
  <2> QED
    BY <2>1, <2>2, <2>3
<1> QED
  BY <1>2, <1>3, <1>4

\* Every check, failed check, /poll and restart keeps Checked, step by step.
LEMMA CheckedNext == Checked /\ [Next]_vars => Checked' /\ [Stepwise]_vars
<1> SUFFICES ASSUME Checked, [Next]_vars PROVE Checked' /\ [Stepwise]_vars
  OBVIOUS
<1>a. clock \in Int /\ nextTick \in Int /\ cursor \in Int
  BY DEF Checked
<1>1. ASSUME Tick PROVE Checked' /\ Stepwise
  <2>1. clock' = nextTick /\ nextTick' \in Int /\ Judge(PendingWindows(cursor, nextTick))
    BY <1>1, <1>a, CatchUpAssumption DEF Tick
  <2> QED
    BY <1>a, <2>1, CheckSteps DEF Checked
<1>2. ASSUME TickFails PROVE Checked' /\ Stepwise
  <2>1. clock' = nextTick /\ nextTick' \in Int
    BY <1>2, <1>a, CatchUpAssumption DEF TickFails
  <2>2. PICK w \in PendingWindows(cursor, nextTick) :
            Judge({v \in PendingWindows(cursor, nextTick) : v < w})
    BY <1>2 DEF TickFails
  <2>3. PendingWindows(cursor, nextTick) \subseteq Int
    BY <1>a, Pending
  <2> DEFINE done == {v \in PendingWindows(cursor, nextTick) : v < w}
  <2>4. done \subseteq PendingWindows(cursor, nextTick) /\ Judge(done)
    BY <2>2
  <2>5. \A v \in PendingWindows(cursor, nextTick), u \in done : v < u => v \in done
    BY <2>3
  <2> HIDE DEF done
  <2> QED
    BY <1>a, <2>1, <2>4, <2>5, CheckSteps DEF Checked
<1>3. ASSUME RunOnce PROVE Checked' /\ Stepwise
  <2>1. PICK t \in clock..(nextTick - 1) : clock' = t /\ Judge(PendingWindows(cursor, t))
    BY <1>3 DEF RunOnce
  <2>2. t \in Int /\ nextTick' = nextTick
    BY <1>3, <1>a DEF RunOnce
  <2> QED
    BY <1>a, <2>1, <2>2, CheckSteps DEF Checked
<1>4. ASSUME Restart PROVE Checked' /\ Stepwise
  BY <1>4, <1>a, CatchUpAssumption DEF Restart, Checked, Stepwise, OnlySettled
<1>5. ASSUME UNCHANGED vars PROVE Checked' /\ [Stepwise]_vars
  BY <1>5 DEF vars, Checked, OnlySettled
<1> QED
  BY <1>1, <1>2, <1>3, <1>4, <1>5 DEF Next

\* A service that has judged nothing has judged nothing too early.
LEMMA CheckedInit == Init => Checked
  BY CatchUpAssumption DEF Init, Checked, OnlySettled, None

(* No window is judged before its data has settled (poller.go:47).          *)
THEOREM SettledOnly == Spec => []OnlySettled
<1>1. Checked => OnlySettled
  BY DEF Checked
<1> QED
  BY <1>1, CheckedInit, CheckedNext, PTL DEF Spec

(* Windows are judged one step after another, none left out and none twice, *)
(* through midnight, capped batches, failures, /poll and outages.           *)
THEOREM OneStepAtATime == Spec => StepByStep
<1>1. Spec => [][Stepwise]_vars
  BY CheckedInit, CheckedNext, PTL DEF Spec
<1>2. [][Stepwise]_vars <=> StepByStep
  BY DEF Stepwise, StepByStep
<1> QED
  BY <1>1, <1>2, PTL

-----------------------------------------------------------------------------
(* Division, for the arithmetic below.                                      *)

\* A smaller multiple is smaller by at least the divisor.
LEMMA Product ==
  ASSUME NEW b \in Nat \ {0}, NEW p \in Int, NEW q \in Int, p < q
  PROVE  b * p + b <= b * q
<1>1. b * (q - p - 1) >= 0
  <2>1. q - p - 1 \in Nat
    OBVIOUS
  <2>2. \A n \in Nat : b * n \in Nat
    OBVIOUS
  <2> QED
    BY <2>1, <2>2
<1>2. b * (q - p - 1) = b * q - b * p - b
  OBVIOUS
<1> QED
  BY <1>1, <1>2

\* Quotient and remainder ...
LEMMA Division ==
  ASSUME NEW t \in Int, NEW b \in Nat \ {0}
  PROVE  /\ t \div b \in Int /\ t % b \in 0..(b - 1)
         /\ t = b * (t \div b) + (t % b)
OBVIOUS

\* ... and there is only one of each.
LEMMA Remainder ==
  ASSUME NEW b \in Nat \ {0}, NEW q \in Int, NEW r \in 0..(b - 1), NEW t \in Int, t = b * q + r
  PROVE  t % b = r
<1> DEFINE p == t \div b
           s == t % b
<1>1. p \in Int /\ s \in 0..(b - 1) /\ t = b * p + s
  BY Division
<1> HIDE DEF p, s
<1>2. ~ (p < q)
  <2> SUFFICES ASSUME p < q PROVE FALSE
    OBVIOUS
  <2>1. b * p + b <= b * q
    BY <1>1, Product
  <2>2. b * p \in Int /\ b * q \in Int
    BY <1>1
  <2> QED
    BY <1>1, <2>1, <2>2
<1>3. ~ (q < p)
  <2> SUFFICES ASSUME q < p PROVE FALSE
    OBVIOUS
  <2>1. b * q + b <= b * p
    BY <1>1, Product
  <2>2. b * p \in Int /\ b * q \in Int
    BY <1>1
  <2> QED
    BY <1>1, <2>1, <2>2
<1>4. p = q
  BY <1>1, <1>2, <1>3
<1>5. s = r
  BY <1>1, <1>4
<1> QED
  BY <1>5 DEF s

\* The multiple of the step after another.
LEMMA NextMultiple ==
  ASSUME NEW k \in Int
  PROVE  Step * (k + 1) = Step * k + Step /\ Step * k \in Int /\ k * Step = Step * k
BY CatchUpAssumption

-----------------------------------------------------------------------------
(* The grid of truncateTo: the multiples of the step within each day.       *)

OnGrid(t) == TruncateTo(t) = t

\* A time that is a whole number of steps after a midnight is on the grid.
LEMMA Gridded ==
  ASSUME NEW t \in Int, NEW day \in Int, NEW k \in Int,
         t = DayLength * day + Step * k, Step * k \in 0..(DayLength - 1)
  PROVE  OnGrid(t)
<1>1. t % DayLength = Step * k
  BY Remainder, CatchUpAssumption
<1>2. (Step * k) % Step = 0
  <2>1. Step * k \in Int /\ Step * k = Step * k + 0 /\ 0 \in 0..(Step - 1)
    BY NextMultiple, CatchUpAssumption
  <2> QED
    BY <2>1, Remainder, CatchUpAssumption
<1> QED
  BY <1>1, <1>2 DEF OnGrid, TruncateTo

\* Where truncateTo lands: k whole steps after the midnight before.
LEMMA Landing ==
  ASSUME NEW t \in Int
  PROVE  \E day \in Int, k \in Nat :
            /\ TruncateTo(t) = DayLength * day + Step * k
            /\ Step * k \in 0..(DayLength - 1)
            /\ DayLength * day <= t /\ t < DayLength * day + DayLength
<1> DEFINE day == t \div DayLength
           m == t % DayLength
           k == m \div Step
           s == m % Step
<1>1. day \in Int /\ m \in 0..(DayLength - 1) /\ t = DayLength * day + m
  BY Division, CatchUpAssumption
<1>2. m \in Int
  BY <1>1
<1>3. k \in Int /\ s \in 0..(Step - 1) /\ m = Step * k + s
  <2> HIDE DEF m
  <2> QED
    BY <1>2, Division, CatchUpAssumption
<1>4. TruncateTo(t) = t - s
  BY DEF TruncateTo
<1> HIDE DEF day, m, k, s
<1>5. DayLength * day \in Int /\ Step * k \in Int
  BY <1>1, <1>3, CatchUpAssumption
<1>6. k \in Nat
  <2> SUFFICES ASSUME k < 0 PROVE FALSE
    BY <1>3
  <2>1. Step * k + Step <= Step * 0
    BY <1>3, Product, CatchUpAssumption
  <2> QED
    BY <2>1, <1>1, <1>3, <1>5, CatchUpAssumption
<1>7. Step * k >= 0
  BY <1>6, CatchUpAssumption
<1>8. TruncateTo(t) = DayLength * day + Step * k /\ Step * k \in 0..(DayLength - 1)
  BY <1>1, <1>3, <1>4, <1>5, <1>7, CatchUpAssumption
<1>9. DayLength * day <= t /\ t < DayLength * day + DayLength
  BY <1>1, <1>5, CatchUpAssumption
<1> QED
  BY <1>1, <1>6, <1>8, <1>9

\* truncateTo lands on the grid, and after the first midnight if its time is.
LEMMA Aligned ==
  ASSUME NEW t \in Int
  PROVE  OnGrid(TruncateTo(t)) /\ (t >= 0 => TruncateTo(t) >= 0)
<1>1. PICK day \in Int, k \in Nat :
            /\ TruncateTo(t) = DayLength * day + Step * k
            /\ Step * k \in 0..(DayLength - 1)
            /\ DayLength * day <= t /\ t < DayLength * day + DayLength
  BY Landing
<1>2. OnGrid(TruncateTo(t))
  BY <1>1, Truncation, Gridded
<1>3. ASSUME t >= 0 PROVE TruncateTo(t) >= 0
  <2>1. DayLength * day \in Int
    BY CatchUpAssumption
  <2>2. day >= 0
    <3> SUFFICES ASSUME day < 0 PROVE FALSE
      OBVIOUS
    <3>1. DayLength * day + DayLength <= DayLength * 0
      BY Product, CatchUpAssumption
    <3> QED
      BY <1>1, <1>3, <2>1, <3>1, CatchUpAssumption
  <2>3. DayLength * day >= 0
    BY <2>2, CatchUpAssumption
  <2> QED
    BY <1>1, <2>1, <2>3
<1> QED
  BY <1>2, <1>3

\* Where the step divides the day, the grid runs on through midnight.
LEMMA EvenGrid ==
  ASSUME DayLength % Step = 0, NEW t \in Int, OnGrid(t), NEW n \in Nat
  PROVE  OnGrid(t + n * Step)
<1> DEFINE u == t + n * Step
<1>1. u \in Int
  BY CatchUpAssumption
<1>2. PICK per \in Int : DayLength = Step * per
  <2>1. DayLength \div Step \in Int /\ DayLength = Step * (DayLength \div Step) + 0
    BY Division, CatchUpAssumption
  <2> DEFINE per == DayLength \div Step
  <2> HIDE DEF per
  <2>2. per \in Int /\ DayLength = Step * per
    BY <2>1, CatchUpAssumption DEF per
  <2> QED
    BY <2>2
<1>3. PICK day \in Int, k \in Nat : t = DayLength * day + Step * k
  BY Landing DEF OnGrid
<1>4. PICK today \in Int, j \in Nat :
         TruncateTo(u) = DayLength * today + Step * j
  BY <1>1, Landing
<1>5. t = Step * (per * day + k)
  <2>1. Step * (per * day + k) = (Step * per) * day + Step * k
    BY CatchUpAssumption
  <2> QED
    BY <1>2, <1>3, <2>1
<1>6. TruncateTo(u) = Step * (per * today + j)
  <2>1. Step * (per * today + j) = (Step * per) * today + Step * j
    BY CatchUpAssumption
  <2> QED
    BY <1>2, <1>4, <2>1
<1>7. PICK a \in Int : u = Step * a
  <2>1. per * day + k \in Int
    OBVIOUS
  <2>2. Step * ((per * day + k) + n) = Step * (per * day + k) + n * Step
    <3> DEFINE b == per * day + k
    <3>1. b \in Int
      OBVIOUS
    <3> HIDE DEF b
    <3>2. Step * (b + n) = Step * b + n * Step
      BY <3>1, CatchUpAssumption
    <3> QED
      BY <3>2 DEF b
  <2> QED
    BY <1>5, <2>1, <2>2
<1>8. PICK c \in Int : TruncateTo(u) = Step * c
  BY <1>6
<1>9. TruncateTo(u) \in Int /\ TruncateTo(u) <= u /\ u < TruncateTo(u) + Step
  BY <1>1, Truncation
<1>10. ~ (c < a)
  <2> SUFFICES ASSUME c < a PROVE FALSE
    OBVIOUS
  <2>1. Step * c + Step <= Step * a
    BY Product, CatchUpAssumption
  <2> HIDE DEF u
  <2> QED
    BY <1>1, <1>7, <1>8, <1>9, <2>1, CatchUpAssumption
<1>11. ~ (a < c)
  <2> SUFFICES ASSUME a < c PROVE FALSE
    OBVIOUS
  <2>1. Step * a + Step <= Step * c
    BY Product, CatchUpAssumption
  <2> HIDE DEF u
  <2> QED
    BY <1>1, <1>7, <1>8, <1>9, <2>1, CatchUpAssumption
<1> HIDE DEF u
<1>12. TruncateTo(u) = u
  BY <1>7, <1>8, <1>10, <1>11
<1> QED
  BY <1>12 DEF OnGrid, u

-----------------------------------------------------------------------------
(* How much of the backlog one check takes.                                 *)

\* What a counter that has caught up is behind with, at most: a check across
\* a midnight off the step's grid may end short of it, and one that is nearly
\* a day long may end short of the grid as well.
Lag ==
    IF DayLength % Step = 0 \/ (MaxCatchUp + 1) * Step <= DayLength
    THEN Step - 1 ELSE 2 * Step - 3

\* What a full check is sure to move the cursor by: MaxCatchUp steps, where
\* the step divides the day; elsewhere it may be one minute into the last.
Gain ==
    IF DayLength % Step = 0 THEN MaxCatchUp * Step
    ELSE (MaxCatchUp - 1) * Step + 1

\* The cursor of a check that left nothing out.
Abreast(c, t) ==
    /\ Latest(t) - c < Step
    /\ t - Settle - Following(c) <= Lag

\* Where the step divides the day, a cursor is on the grid.
Straight(c) == DayLength % Step = 0 => OnGrid(c)

\* Following is a whole step behind its grid point, and past its argument.
LEMMA Ahead ==
  ASSUME NEW c \in Int
  PROVE  /\ Following(c) \in Int /\ c < Following(c) /\ Following(c) <= c + Step
         /\ OnGrid(c) => Following(c) = c + Step
BY Truncation, CatchUpAssumption DEF Following, OnGrid

\* The newest settled window: on the grid, and within a step of now.
LEMMA Newest ==
  ASSUME NEW t \in Int
  PROVE  /\ Latest(t) \in Int /\ OnGrid(Latest(t))
         /\ Latest(t) <= t - Settle /\ t - Settle < Latest(t) + Step
         /\ t >= Settle => Latest(t) >= 0
<1>1. t - Settle \in Int /\ (t >= Settle => t - Settle >= 0)
  BY CatchUpAssumption
<1> QED
  BY <1>1, Truncation, Aligned DEF Latest

\* The steps the two bounds are made of.
LEMMA Bounds ==
  /\ Lag \in Int /\ Gain \in Int
  /\ Step - 2 <= Lag /\ Lag <= 2 * Step - 2
  /\ (MaxCatchUp - 1) * Step \in Nat
  /\ MaxCatchUp * Step = (MaxCatchUp - 1) * Step + Step
  /\ DayLength % Step = 0 => Lag = Step - 1
<1>1. (MaxCatchUp - 1) * Step \in Nat
  BY CatchUpAssumption
<1>2. MaxCatchUp * Step = (MaxCatchUp - 1) * Step + Step
  BY CatchUpAssumption
<1>3. Lag \in Int /\ Step - 2 <= Lag /\ Lag <= 2 * Step - 2
  BY CatchUpAssumption DEF Lag
<1>4. Gain \in Int
  BY <1>1, <1>2, CatchUpAssumption DEF Gain
<1> QED
  BY <1>1, <1>2, <1>3, <1>4 DEF Lag

\* A check of less than a day, MaxCatchUp windows at most, that leaves no
\* whole step ends where the next window is the newest settled one or later.
LEMMA AcrossMidnight ==
  ASSUME (MaxCatchUp + 1) * Step <= DayLength,
         NEW c \in Int, NEW k \in 0..(MaxCatchUp - 1), NEW new \in Int,
         new = Following(c) + k * Step,
         NEW last \in Int, OnGrid(last), new <= last, last < new + Step
  PROVE  last <= Following(new)
<1>1. PICK day \in Int, j \in Nat :
            /\ TruncateTo(c) = DayLength * day + Step * j
            /\ Step * j \in 0..(DayLength - 1)
  BY Landing
<1> DEFINE D == DayLength * day
<1>2. D \in Int
  BY CatchUpAssumption
<1>3. new = D + Step * (j + 1 + k) /\ Step * (j + 1 + k) = Step * j + Step + Step * k /\ Step * k \in Nat
  <2>1. Step * (j + 1 + k) = Step * j + Step + Step * k /\ Step * k = k * Step /\ Step * k \in Nat
    BY CatchUpAssumption
  <2> HIDE DEF D
  <2>2. Step * j \in Int /\ TruncateTo(c) = D + Step * j
    BY <1>1 DEF D
  <2> QED
    BY <1>1, <1>2, <2>1, <2>2, CatchUpAssumption DEF Following
<1>4. CASE Step * (j + 1 + k) < DayLength
  <2>1. Step * (j + 1 + k) \in 0..(DayLength - 1) /\ j + 1 + k \in Int
    BY <1>1, <1>3, <1>4, CatchUpAssumption
  <2>2. OnGrid(new)
    BY <1>3, <2>1, Gridded
  <2> QED
    BY <2>2, Ahead, CatchUpAssumption
<1>5. CASE Step * (j + 1 + k) >= DayLength
  <2> DEFINE e == Step * (j + 1 + k) - DayLength
             next == day + 1
  <2>1. Step * k <= (MaxCatchUp + 1) * Step - 2 * Step
    <3>1. k <= MaxCatchUp - 1 /\ k \in Nat
      BY CatchUpAssumption
    <3>2. Step * k <= Step * (MaxCatchUp - 1)
      <4>1. CASE k = MaxCatchUp - 1
        BY <4>1, CatchUpAssumption
      <4>2. CASE k < MaxCatchUp - 1
        BY <3>1, <4>2, Product, CatchUpAssumption
      <4> QED
        BY <3>1, <4>1, <4>2, CatchUpAssumption
    <3>3. Step * (MaxCatchUp - 1) = (MaxCatchUp + 1) * Step - 2 * Step
      BY CatchUpAssumption
    <3> QED
      BY <3>2, <3>3
  <2>2. e \in Int /\ e >= 0 /\ e + Step < DayLength
    <3> DEFINE a == Step * j
               b == Step * k
               cap == (MaxCatchUp + 1) * Step
    <3>1. a \in Int /\ b \in Int /\ cap \in Int /\ cap <= DayLength /\ b <= cap - 2 * Step
          /\ a < DayLength /\ e = a + Step + b - DayLength
      BY <1>1, <1>3, <2>1, CatchUpAssumption
    <3>2. e >= 0
      BY <1>1, <1>3, <1>5, CatchUpAssumption
    <3> HIDE DEF a, b, cap, e
    <3> QED
      BY <3>1, <3>2, CatchUpAssumption
  <2>3. DayLength * next = D + DayLength /\ next \in Int
    BY CatchUpAssumption
  <2>4. new = DayLength * next + e
    BY <1>1, <1>2, <1>3, <2>3, CatchUpAssumption
  <2> DEFINE l == last - DayLength * next
  <2> HIDE DEF e, next
  <2>5. DayLength * next \in Int
    BY <1>2, <2>3, CatchUpAssumption
  <2>6. l \in 0..(DayLength - 1) /\ e <= l /\ l < e + Step /\ last = DayLength * next + l
    BY <2>2, <2>4, <2>5, CatchUpAssumption
  <2> HIDE DEF l
  <2>7. e \in 0..(DayLength - 1)
    BY <2>2, CatchUpAssumption
  <2>8. new % DayLength = e /\ last % DayLength = l
    <3>1. DayLength \in Nat \ {0} /\ next \in Int
      BY <2>3, CatchUpAssumption
    <3>2. new % DayLength = e
      <4>1. \A t \in Int : t = DayLength * next + e => t % DayLength = e
        BY <2>7, <3>1, Remainder
      <4>2. new \in Int /\ new = DayLength * next + e
        BY <2>4
      <4> QED
        BY <4>1, <4>2
    <3>3. last % DayLength = l
      BY <2>6, <3>1, Remainder
    <3> QED
      BY <3>2, <3>3
  <2>9. l % Step = 0
    <3>1. l % Step \in Int
      BY <2>6, CatchUpAssumption
    <3> QED
      BY <2>8, <3>1 DEF OnGrid, TruncateTo
  <2>10. l \div Step \in Int /\ l = Step * (l \div Step) /\ Step * (l \div Step) \in Int
    <3>1. l \div Step \in Int /\ l = Step * (l \div Step) + 0
      BY <2>6, <2>9, Division, CatchUpAssumption
    <3> QED
      BY <2>6, <3>1, NextMultiple
  <2> DEFINE q == e \div Step
             r == e % Step
             s == l \div Step
  <2>11. q \in Int /\ r \in 0..(Step - 1) /\ e = Step * q + r
    <3>1. e \in Int /\ Step \in Nat \ {0}
      BY <2>2, CatchUpAssumption
    <3>2. q \in Int /\ r \in 0..(Step - 1) /\ e = Step * (e \div Step) + (e % Step)
      BY <3>1, Division
    <3> QED
      BY <3>2
  <2>12. Following(new) = new - r + Step
    BY <2>8, <2>11 DEF Following, TruncateTo
  <2>13. s \in Int /\ l = Step * s
    BY <2>10
  <2> HIDE DEF q, r, s
  <2>14. s <= q + 1
    <3> SUFFICES ASSUME q + 1 < s PROVE FALSE
      BY <2>11, <2>13
    <3>1. Step * (q + 1) + Step <= Step * s
      BY <2>11, <2>13, Product, CatchUpAssumption
    <3>2. Step * (q + 1) = Step * q + Step /\ Step * q \in Int /\ Step * s \in Int
      BY <2>11, <2>13, NextMultiple
    <3> QED
      BY <2>6, <2>7, <2>11, <2>13, <3>1, <3>2, CatchUpAssumption
  <2>15. l <= Step * q + Step
    <3>1. Step * (q + 1) = Step * q + Step /\ Step * q \in Int
      BY <2>11, NextMultiple
    <3>2. CASE s = q + 1
      BY <2>13, <3>1, <3>2
    <3>3. CASE s < q + 1
      <4>1. Step * s + Step <= Step * (q + 1)
        BY <2>11, <2>13, <3>3, Product, CatchUpAssumption
      <4> QED
        BY <2>6, <2>13, <3>1, <4>1, CatchUpAssumption
    <3> QED
      BY <2>11, <2>13, <2>14, <3>2, <3>3
  <2> QED
    <3>1. Step * q \in Int
      BY <2>11, NextMultiple
    <3> QED
      BY <2>4, <2>5, <2>6, <2>7, <2>11, <2>12, <2>15, <3>1, CatchUpAssumption
<1> QED
  BY <1>1, <1>3, <1>4, <1>5, CatchUpAssumption

\* The windows of a check lie on the grid, where there is one grid, after the
\* cursor, and not in the future.
LEMMA PendingGrid ==
  ASSUME NEW c \in Nat \union {None}, c # None => Straight(c),
         NEW t \in Int, t >= Settle, NEW w \in PendingWindows(c, t)
  PROVE  /\ w \in 0..t /\ Straight(w)
         /\ c # None => w >= Following(c)
<1>1. /\ Latest(t) \in Int /\ OnGrid(Latest(t)) /\ Latest(t) <= t - Settle /\ Latest(t) >= 0
  BY Newest
<1>2. CASE c = None
  BY <1>1, <1>2, CatchUpAssumption DEF PendingWindows, Straight
<1>3. CASE c # None
  <2>1. PICK k \in 0..(MaxCatchUp - 1) : w = Following(c) + k * Step /\ w <= Latest(t)
    BY <1>3 DEF PendingWindows
  <2>2. c \in Nat /\ k * Step \in Nat
    BY <1>3, CatchUpAssumption
  <2>3. Following(c) \in Int /\ c < Following(c)
    BY <2>2, Ahead
  <2>4. w \in 0..t /\ w >= Following(c)
    BY <1>1, <2>1, <2>2, <2>3, CatchUpAssumption
  <2>5. ASSUME DayLength % Step = 0 PROVE OnGrid(w)
    <3>1. OnGrid(c) /\ Following(c) = c + Step
      BY <1>3, <2>2, <2>5, Ahead DEF Straight
    <3>2. k + 1 \in Nat /\ (k + 1) * Step = Step + k * Step
      BY CatchUpAssumption
    <3>3. w = c + (k + 1) * Step
      BY <2>1, <2>2, <3>1, <3>2, CatchUpAssumption
    <3> QED
      BY <2>2, <2>5, <3>1, <3>2, <3>3, EvenGrid
  <2> QED
    BY <2>4, <2>5 DEF Straight
<1> QED
  BY <1>2, <1>3

\* A check that judges everything pending leaves nothing out, or is full.
LEMMA CheckGains ==
  ASSUME NEW c \in Nat, Straight(c), NEW t \in Int, t >= Settle, NEW new,
         \/ PendingWindows(c, t) = {} /\ new = c
         \/ new \in PendingWindows(c, t) /\ \A w \in PendingWindows(c, t) : w <= new
  PROVE  /\ new \in Nat /\ new >= c /\ Straight(new)
         /\ Following(new) >= Following(c)
         /\ \/ Abreast(new, t)
            \/ /\ new = Following(c) + (MaxCatchUp - 1) * Step
               /\ Following(new) >= Following(c) + Gain
<1>1. c # None
  BY DEF None
<1>2. /\ Following(c) \in Int /\ c < Following(c) /\ Following(c) <= c + Step
      /\ Latest(t) \in Int /\ OnGrid(Latest(t)) /\ t - Settle < Latest(t) + Step
  BY Ahead, Newest
<1>3. CASE PendingWindows(c, t) = {} /\ new = c
  <2>1. Following(c) > Latest(t)
    <3> SUFFICES ASSUME Following(c) <= Latest(t) PROVE FALSE
      BY <1>2
    <3>1. 0 \in 0..(MaxCatchUp - 1) /\ Following(c) + 0 * Step = Following(c)
      BY <1>2, CatchUpAssumption
    <3>2. Following(c) \in PendingWindows(c, t)
      BY <1>1, <3>1 DEF PendingWindows
    <3> QED
      BY <1>3, <3>2
  <2> QED
    BY <1>2, <1>3, <2>1, Bounds, CatchUpAssumption DEF Abreast
<1>4. CASE new \in PendingWindows(c, t) /\ \A w \in PendingWindows(c, t) : w <= new
  <2>1. PICK k \in 0..(MaxCatchUp - 1) : new = Following(c) + k * Step /\ new <= Latest(t)
    BY <1>1, <1>4 DEF PendingWindows
  <2>2. k * Step \in Nat
    BY CatchUpAssumption
  <2>3. new \in Nat /\ new >= Following(c)
    BY <1>2, <2>1, <2>2
  <2>4. /\ Following(new) \in Int /\ new < Following(new)
        /\ OnGrid(new) => Following(new) = new + Step
    BY <2>3, Ahead
  <2>5. ASSUME DayLength % Step = 0 PROVE OnGrid(new)
    BY <1>1, <1>4, <2>5, PendingGrid DEF Straight
  <2>6. CASE k = MaxCatchUp - 1
    <3>1. Following(new) >= Following(c) + Gain
      <4>1. CASE DayLength % Step = 0
        BY <1>2, <2>1, <2>3, <2>4, <2>5, <2>6, <4>1, Bounds, CatchUpAssumption DEF Gain
      <4>2. CASE DayLength % Step # 0
        BY <1>2, <2>1, <2>3, <2>4, <2>6, <4>2, Bounds, CatchUpAssumption DEF Gain
      <4> QED
        BY <4>1, <4>2
    <3> QED
      BY <1>2, <2>1, <2>3, <2>4, <2>5, <2>6, <3>1 DEF Straight
  <2>7. CASE k # MaxCatchUp - 1
    <3>1. Latest(t) < new + Step
      <4> SUFFICES ASSUME new + Step <= Latest(t) PROVE FALSE
        BY <1>2, <2>3, CatchUpAssumption
      <4>1. k + 1 \in 0..(MaxCatchUp - 1) /\ (k + 1) * Step = k * Step + Step
        BY <2>7, CatchUpAssumption
      <4>2. Following(c) + (k + 1) * Step = new + Step
        BY <1>2, <2>1, <2>2, <4>1, CatchUpAssumption
      <4>3. new + Step \in PendingWindows(c, t)
        BY <1>1, <4>1, <4>2 DEF PendingWindows
      <4>4. new + Step <= new
        BY <1>4, <4>3
      <4> QED
        BY <2>3, <4>4, CatchUpAssumption
    <3>2. t - Settle - Following(new) <= Lag
      <4>1. CASE DayLength % Step = 0
        BY <1>2, <2>1, <2>3, <2>4, <2>5, <3>1, <4>1, Bounds, CatchUpAssumption
      <4>2. CASE DayLength % Step # 0 /\ (MaxCatchUp + 1) * Step <= DayLength
        <5>1. Latest(t) <= Following(new)
          BY <1>2, <2>1, <2>3, <3>1, <4>2, AcrossMidnight
        <5>2. Lag = Step - 1
          BY <4>2 DEF Lag
        <5> QED
          BY <1>2, <2>4, <5>1, <5>2, CatchUpAssumption
      <4>3. CASE DayLength % Step # 0 /\ ~ ((MaxCatchUp + 1) * Step <= DayLength)
        <5>1. Lag = 2 * Step - 3
          BY <4>3 DEF Lag
        <5> QED
          BY <1>2, <2>1, <2>3, <2>4, <3>1, <5>1, CatchUpAssumption
      <4> QED
        BY <4>1, <4>2, <4>3
    <3>3. Abreast(new, t)
      BY <1>2, <2>3, <3>1, <3>2, CatchUpAssumption DEF Abreast
    <3> QED
      BY <1>2, <2>3, <2>4, <2>5, <3>3 DEF Straight
  <2> QED
    BY <2>6, <2>7
<1> QED
  BY <1>3, <1>4

\* The windows owed are what the cursor is behind, in steps.
LEMMA BacklogBound ==
  ASSUME NEW c \in Nat, NEW t \in Int
  PROVE  /\ Backlog(c, t) \in Nat
         /\ t - Settle - Following(c) + 2 <= Step * (Backlog(c, t) + 1)
<1>1. /\ Following(c) \in Int /\ Latest(t) \in Int /\ t - Settle < Latest(t) + Step /\ c # None
  BY Ahead, Newest DEF None
<1>2. CASE Following(c) > Latest(t)
  BY <1>1, <1>2, CatchUpAssumption DEF Backlog
<1>3. CASE Following(c) <= Latest(t)
  <2> DEFINE d == Latest(t) - Following(c)
             q == d \div Step
  <2>1. d \in Int /\ d >= 0 /\ Backlog(c, t) = q + 1
    BY <1>1, <1>3 DEF Backlog
  <2>2. q \in Int /\ d < Step * q + Step
    <3>1. d % Step \in 0..(Step - 1) /\ d = Step * q + (d % Step) /\ q \in Int
      BY <2>1, Division, CatchUpAssumption
    <3>2. Step * q \in Int
      BY <3>1, NextMultiple
    <3> HIDE DEF d, q
    <3> QED
      BY <2>1, <3>1, <3>2, CatchUpAssumption
  <2> HIDE DEF q
  <2>3. q \in Nat
    <3> SUFFICES ASSUME q < 0 PROVE FALSE
      BY <2>2
    <3>1. Step * q + Step <= Step * 0
      BY <2>2, Product, CatchUpAssumption
    <3> HIDE DEF d
    <3> QED
      BY <2>1, <2>2, <3>1, NextMultiple, CatchUpAssumption
  <2>4. Step * (q + 1 + 1) = Step * q + Step + Step /\ Step * q \in Int
    BY <2>2, NextMultiple, CatchUpAssumption
  <2> QED
    BY <1>1, <2>1, <2>2, <2>3, <2>4, CatchUpAssumption
<1> QED
  BY <1>1, <1>2, <1>3

-----------------------------------------------------------------------------
\* The clock is between the tick before and the next one, and past the first
\* settled window.
Timely ==
    /\ nextTick - Interval <= clock
    /\ clock <= nextTick
    /\ Settle + Step <= clock

\* A counter without a cursor owes nothing.
Begun == cursor = None => owed = 0 /\ checks = 0

Typed == TypeOK /\ Timely /\ Begun /\ (cursor # None => Straight(cursor))

LEMMA TypedInit == Init => Typed
BY CatchUpAssumption DEF Init, Typed, TypeOK, Timely, Begun, None

\* What is typed after a check at t that judges some of what is pending.
LEMMA TypedCheck ==
  ASSUME Typed, NEW t \in Int, t \in 0..Horizon, t >= Settle + Step,
         NEW done, Judge(done), done \subseteq PendingWindows(cursor, t)
  PROVE  /\ cursor' \in 0..Horizon \union {None} /\ batch' \subseteq 0..Horizon
         /\ cursor' # None => Straight(cursor')
         /\ cursor # None => cursor' # None
         /\ cursor' \in Nat \union {None}
<1>1. cursor \in Nat \union {None} /\ t >= Settle
  BY CatchUpAssumption DEF Typed, TypeOK
<1>2. \A w \in PendingWindows(cursor, t) : w \in 0..Horizon /\ Straight(w)
  BY <1>1, PendingGrid, CatchUpAssumption DEF Typed
<1>3. None \notin 0..Horizon /\ None \notin Nat
  BY CatchUpAssumption DEF None
<1> QED
  BY <1>1, <1>2, <1>3 DEF Judge, Typed, TypeOK

\* The backlog of a counter, with and without a cursor.
LEMMA BacklogNat ==
  ASSUME NEW c \in Nat \union {None}, NEW t \in Int
  PROVE  Backlog(c, t) \in Nat /\ (c = None => Backlog(c, t) = 0)
<1>1. CASE c = None
  BY <1>1 DEF Backlog
<1>2. CASE c # None
  BY <1>2, BacklogBound
<1> QED
  BY <1>1, <1>2

LEMMA TypedNext == Typed /\ [Next]_vars => Typed'
<1> SUFFICES ASSUME Typed, [Next]_vars PROVE Typed'
  OBVIOUS
<1>a. /\ clock \in Nat /\ nextTick \in Nat /\ clock <= nextTick /\ Settle + Step <= clock
      /\ nextTick - Interval <= clock /\ clock <= Horizon
      /\ nextTick <= Horizon + Interval
      /\ outages \in 0..MaxOutages /\ faults \in 0..MaxFaults /\ polls \in 0..MaxPolls
      /\ owed \in Nat /\ checks \in Nat
      /\ Interval \in Nat \ {0} /\ Horizon \in Nat /\ Settle + Step \in Nat
  BY CatchUpAssumption DEF Typed, TypeOK, Timely
<1>1. ASSUME Tick PROVE Typed'
  <2>1. /\ nextTick <= Horizon /\ clock' = nextTick /\ nextTick' = nextTick + Interval
        /\ Judge(PendingWindows(cursor, nextTick))
        /\ checks' = checks + 1 /\ UNCHANGED <<outages, faults, polls, owed>>
    BY <1>1 DEF Tick
  <2>2. /\ cursor' \in 0..Horizon \union {None} /\ batch' \subseteq 0..Horizon
        /\ cursor' # None => Straight(cursor')
        /\ cursor # None => cursor' # None
    BY <1>a, <2>1, TypedCheck
  <2>3. cursor' # None
    <3>1. ASSUME cursor = None PROVE cursor' # None
      <4>1. PendingWindows(cursor, nextTick) = {Latest(nextTick)}
        BY <3>1 DEF PendingWindows
      <4>2. cursor' = Latest(nextTick)
        BY <2>1, <4>1 DEF Judge
      <4>3. Latest(nextTick) >= 0 /\ Latest(nextTick) \in Int
        BY <1>a, Newest, CatchUpAssumption
      <4> QED
        BY <4>2, <4>3 DEF None
    <3> QED
      BY <2>2, <3>1
  <2>4. TypeOK'
    BY <1>a, <2>1, <2>2 DEF TypeOK
  <2>5. Timely'
    BY <1>a, <2>1 DEF Timely
  <2> QED
    BY <2>2, <2>3, <2>4, <2>5 DEF Typed, Begun, Straight, OnGrid, TruncateTo
<1>2. ASSUME TickFails PROVE Typed'
  <2>1. PICK w \in PendingWindows(cursor, nextTick) :
            Judge({v \in PendingWindows(cursor, nextTick) : v < w})
    BY <1>2 DEF TickFails
  <2>2. /\ nextTick <= Horizon /\ clock' = nextTick /\ nextTick' = nextTick + Interval
        /\ faults' \in 0..MaxFaults
        /\ owed' = Backlog(cursor', nextTick) /\ checks' = 0
        /\ UNCHANGED <<outages, polls>>
    <3>1. /\ nextTick <= Horizon /\ clock' = nextTick /\ nextTick' = nextTick + Interval
          /\ faults < MaxFaults /\ faults' = faults + 1
          /\ owed' = Backlog(cursor', nextTick) /\ checks' = 0
          /\ UNCHANGED <<outages, polls>>
      BY <1>2 DEF TickFails
    <3> QED
      BY <1>a, <3>1, CatchUpAssumption
  <2>3. /\ cursor' \in 0..Horizon \union {None} /\ batch' \subseteq 0..Horizon
        /\ cursor' # None => Straight(cursor')
        /\ cursor' \in Nat \union {None}
    BY <1>a, <2>1, <2>2, TypedCheck
  <2>4. owed' \in Nat /\ (cursor' = None => owed' = 0)
    <3>1. nextTick \in Int
      BY <1>a
    <3>2. Backlog(cursor', nextTick) \in Nat /\ (cursor' = None => Backlog(cursor', nextTick) = 0)
      BY <2>3, <3>1, BacklogNat
    <3> QED
      BY <2>2, <3>2
  <2>5. TypeOK'
    BY <1>a, <2>2, <2>3, <2>4 DEF TypeOK
  <2>6. Timely'
    BY <1>a, <2>2 DEF Timely
  <2> QED
    BY <2>2, <2>3, <2>4, <2>5, <2>6 DEF Typed, Begun, Straight, OnGrid, TruncateTo
<1>3. ASSUME RunOnce PROVE Typed'
  <2>1. PICK t \in clock..(nextTick - 1) :
            t <= Horizon /\ clock' = t /\ Judge(PendingWindows(cursor, t))
    BY <1>3 DEF RunOnce
  <2>2. polls' \in 0..MaxPolls /\ UNCHANGED <<nextTick, outages, faults, owed, checks>>
    <3>1. /\ polls < MaxPolls /\ polls' = polls + 1
          /\ UNCHANGED <<nextTick, outages, faults, owed, checks>>
      BY <1>3 DEF RunOnce
    <3> QED
      BY <1>a, <3>1, CatchUpAssumption
  <2>3. /\ cursor' \in 0..Horizon \union {None} /\ batch' \subseteq 0..Horizon
        /\ cursor' # None => Straight(cursor')
        /\ cursor # None => cursor' # None
    BY <1>a, <2>1, TypedCheck
  <2>4. TypeOK'
    BY <1>a, <2>1, <2>2, <2>3 DEF TypeOK, Typed
  <2>5. Timely'
    BY <1>a, <2>1, <2>2 DEF Timely
  <2> QED
    BY <2>2, <2>3, <2>4, <2>5 DEF Typed, Begun, Straight, OnGrid, TruncateTo
<1>4. ASSUME Restart PROVE Typed'
  <2>1. PICK d \in Outages : clock + d <= Horizon /\ clock' = clock + d
                             /\ nextTick' = clock + d /\ owed' = Backlog(cursor, clock + d)
    BY <1>4 DEF Restart
  <2>2. /\ outages' \in 0..MaxOutages /\ checks' = 0 /\ batch' = {}
        /\ UNCHANGED <<cursor, faults, polls>>
    <3>1. /\ outages < MaxOutages /\ outages' = outages + 1 /\ checks' = 0 /\ batch' = {}
          /\ UNCHANGED <<cursor, faults, polls>>
      BY <1>4 DEF Restart
    <3> QED
      BY <1>a, <3>1, CatchUpAssumption
  <2>3. d \in Nat
    BY CatchUpAssumption
  <2>4. cursor \in 0..Horizon \union {None} /\ cursor \in Nat \union {None}
    BY DEF Typed, TypeOK
  <2>5. owed' \in Nat /\ (cursor = None => owed' = 0)
    <3>1. clock + d \in Int
      BY <1>a, <2>3
    <3>2. Backlog(cursor, clock + d) \in Nat /\ (cursor = None => Backlog(cursor, clock + d) = 0)
      BY <2>4, <3>1, BacklogNat
    <3> QED
      BY <2>1, <3>2
  <2>6. TypeOK'
    BY <1>a, <2>1, <2>2, <2>3, <2>4, <2>5 DEF TypeOK
  <2>7. Timely'
    BY <1>a, <2>1, <2>3 DEF Timely
  <2> QED
    BY <2>2, <2>5, <2>6, <2>7 DEF Typed, Begun, Straight, OnGrid, TruncateTo
<1>5. ASSUME UNCHANGED vars PROVE Typed'
  BY <1>5 DEF vars, Typed, TypeOK, Timely, Begun, Straight, OnGrid, TruncateTo
<1> QED
  BY <1>1, <1>2, <1>3, <1>4, <1>5 DEF Next

(* Every cursor and window is a minute of the behaviour, and every count is *)
(* in its range.                                                            *)
THEOREM TypeCorrect == Spec => []TypeOK
<1>1. Typed => TypeOK
  BY DEF Typed
<1> QED
  BY <1>1, TypedInit, TypedNext, PTL DEF Spec

-----------------------------------------------------------------------------
\* A full check gains on the clock by a step at least.
KeepsPace == Interval + Step <= Gain

\* How far the cursor was behind at the last tick.
Behind == nextTick - Interval - Settle - Following(cursor)

\* Each check since the last trouble has taken one of the windows owed.
Close ==
    cursor # None => \/ Behind <= Lag
                     \/ Behind + 2 <= Step * (owed + 1 - checks)

Pace == Typed /\ Close /\ CatchesUp

\* A check at t of a counter that has caught up takes it to the newest window.
LEMMA CaughtUp ==
  ASSUME KeepsPace, NEW c \in Nat, Straight(c), NEW t \in Int, t >= Settle, NEW new,
         \/ PendingWindows(c, t) = {} /\ new = c
         \/ new \in PendingWindows(c, t) /\ \A w \in PendingWindows(c, t) : w <= new,
         \/ t - Interval - Settle - Following(c) <= Lag
         \/ t - Interval - Settle - Following(c) + 2 <= Step
  PROVE  Latest(t) - new < Step
<1>1. /\ Following(c) \in Int /\ Latest(t) \in Int /\ Latest(t) <= t - Settle
  BY Ahead, Newest
<1>2. /\ new \in Nat
      /\ \/ Abreast(new, t)
         \/ new = Following(c) + (MaxCatchUp - 1) * Step
  BY CheckGains
<1>3. CASE Abreast(new, t)
  BY <1>3 DEF Abreast
<1>4. CASE new = Following(c) + (MaxCatchUp - 1) * Step
  <2>1. CASE DayLength % Step = 0
    BY <1>1, <1>2, <1>4, <2>1, Bounds, CatchUpAssumption DEF KeepsPace, Gain
  <2>2. CASE DayLength % Step # 0
    BY <1>1, <1>2, <1>4, <2>2, Bounds, CatchUpAssumption DEF KeepsPace, Gain
  <2> QED
    BY <2>1, <2>2
<1> QED
  BY <1>2, <1>3, <1>4

\* Owing nothing more is being behind by Lag at most, or not by a whole step.
LEMMA Settled ==
  ASSUME Typed, Close, cursor # None, checks >= owed
  PROVE  Behind <= Lag \/ Behind + 2 <= Step
<1>1. owed + 1 - checks \in Int /\ owed + 1 - checks <= 1
  BY DEF Typed, TypeOK
<1> DEFINE n == owed + 1 - checks
<1>2. Step * n <= Step /\ Step * n \in Int
  <2> HIDE DEF n
  <2>1. n \in Int /\ n <= 1
    BY <1>1 DEF n
  <2>2. CASE n = 1
    BY <2>2, CatchUpAssumption
  <2>3. CASE n < 1
    <3>1. Step * n + Step <= Step * 1
      BY <2>1, <2>3, Product, CatchUpAssumption
    <3> QED
      BY <2>1, <3>1, NextMultiple, CatchUpAssumption
  <2> QED
    BY <2>1, <2>2, <2>3
<1> HIDE DEF n
<1>3. cursor \in Int
  BY DEF Typed, TypeOK, None
<1>4. Behind \in Int
  BY <1>3, Ahead, CatchUpAssumption DEF Behind, Typed, TypeOK
<1> QED
  BY <1>2, <1>4, CatchUpAssumption DEF Close, n

LEMMA PaceInit == Init => Pace
BY TypedInit, CatchUpAssumption DEF Init, Pace, Close, CatchesUp

\* A tick with nothing failing is a check: it stays close and catches up.
LEMMA PaceTick == ASSUME KeepsPace, Pace, Tick PROVE Close' /\ CatchesUp'
<1>a. /\ nextTick \in Nat /\ nextTick >= Settle /\ owed \in Nat /\ checks \in Nat
      /\ cursor \in Nat \union {None} /\ cursor \in Int
      /\ (cursor # None => Straight(cursor)) /\ Interval \in Nat \ {0} /\ Settle \in Nat
  BY CatchUpAssumption DEF Pace, Typed, TypeOK, Timely, None
<1>1. /\ clock' = nextTick /\ nextTick' = nextTick + Interval
      /\ Judge(PendingWindows(cursor, nextTick))
      /\ checks' = checks + 1 /\ owed' = owed
  BY DEF Tick
<1> DEFINE P == PendingWindows(cursor, nextTick)
<1>2. \/ P = {} /\ cursor' = cursor
      \/ cursor' \in P /\ \A w \in P : w <= cursor'
  BY <1>1 DEF Judge
<1>3. CASE cursor = None
  <2>1. cursor' = Latest(nextTick)
    BY <1>2, <1>3 DEF PendingWindows
  <2>2. /\ cursor' \in Int /\ Following(cursor') = cursor' + Step
        /\ nextTick - Settle < Latest(nextTick) + Step
    BY <1>a, <2>1, Newest, Ahead
  <2>3. Behind' = nextTick - Settle - Following(cursor')
    <3>1. Behind' = nextTick' - Interval - Settle - Following(cursor')
      BY DEF Behind, Following, TruncateTo
    <3> QED
      BY <1>a, <1>1, <2>2, <3>1, CatchUpAssumption
  <2>4. Behind' <= Lag
    BY <1>a, <2>1, <2>2, <2>3, Bounds, CatchUpAssumption
  <2>5. Latest(clock') - cursor' < Step
    BY <1>1, <2>1, <2>2, CatchUpAssumption
  <2> QED
    BY <2>4, <2>5 DEF Close, CatchesUp, Latest, TruncateTo, Lag
<1>4. CASE cursor # None
  <2>1. cursor \in Nat /\ Straight(cursor)
    BY <1>a, <1>4
  <2>2. /\ cursor' \in Nat
        /\ \/ Abreast(cursor', nextTick)
           \/ Following(cursor') >= Following(cursor) + Gain
    BY <1>a, <1>2, <2>1, CheckGains
  <2>3. Following(cursor) \in Int /\ Following(cursor') \in Int
    BY <1>a, <2>2, Ahead
  <2>4. Behind' = nextTick - Settle - Following(cursor')
    <3>1. Behind' = nextTick' - Interval - Settle - Following(cursor')
      BY DEF Behind, Following, TruncateTo
    <3> QED
      BY <1>a, <1>1, <2>3, <3>1, CatchUpAssumption
  <2>5. Behind \in Int /\ Behind = nextTick - Interval - Settle - Following(cursor)
    BY <1>a, <2>3, CatchUpAssumption DEF Behind
  <2>6. Behind' <= Lag \/ Behind' + 2 <= Step * (owed' + 1 - checks')
    <3>1. CASE Abreast(cursor', nextTick)
      BY <2>4, <3>1 DEF Abreast
    <3>2. CASE Following(cursor') >= Following(cursor) + Gain
      <4>1. Behind' \in Int /\ Behind' <= Behind - Step
        BY <1>a, <2>3, <2>4, <2>5, <3>2, Bounds, CatchUpAssumption DEF KeepsPace
      <4>2. /\ Step * (owed + 1 - checks) = Step * (owed' + 1 - checks') + Step
            /\ Step * (owed' + 1 - checks') \in Int
        <5> DEFINE n == owed + 1 - checks
        <5>1. n - 1 \in Int /\ owed' + 1 - checks' = n - 1 /\ (n - 1) + 1 = n
          BY <1>a, <1>1
        <5> HIDE DEF n
        <5>2. Step * n = Step * (n - 1) + Step /\ Step * (n - 1) \in Int
          BY <5>1, NextMultiple
        <5> QED
          BY <5>1, <5>2 DEF n
      <4>3. Behind <= Lag \/ Behind + 2 <= Step * (owed + 1 - checks)
        BY <1>4 DEF Pace, Close
      <4> QED
        BY <2>5, <4>1, <4>2, <4>3, Bounds, CatchUpAssumption
    <3> QED
      BY <2>2, <3>1, <3>2
  <2>7. checks' > owed' => Latest(clock') - cursor' < Step
    <3> SUFFICES ASSUME checks' > owed' PROVE Latest(nextTick) - cursor' < Step
      BY <1>1
    <3>1. checks >= owed
      BY <1>a, <1>1
    <3>2. Behind <= Lag \/ Behind + 2 <= Step
      BY <1>4, <3>1, Settled DEF Pace
    <3> QED
      BY <1>a, <1>2, <2>1, <2>5, <3>2, CaughtUp
  <2> QED
    BY <2>6, <2>7 DEF Close, CatchesUp, Latest, TruncateTo, Lag
<1> QED
  BY <1>3, <1>4

\* A failed tick and a restart owe what the cursor is behind from then on.
LEMMA PaceOwed ==
  ASSUME Pace, NEW t \in Int, nextTick' - Interval <= t, nextTick' \in Int,
         cursor' \in Nat \union {None}, owed' = Backlog(cursor', t), checks' = 0
  PROVE  Close' /\ CatchesUp'
<1>1. owed' \in Nat /\ checks' = 0
  BY BacklogNat
<1>2. ASSUME cursor' # None PROVE Behind' + 2 <= Step * (owed' + 1 - checks')
  <2>1. /\ cursor' \in Nat
        /\ t - Settle - Following(cursor') + 2 <= Step * (owed' + 1)
    BY <1>2, BacklogBound
  <2>2. Behind' = nextTick' - Interval - Settle - Following(cursor')
    BY DEF Behind, Following, TruncateTo
  <2>3. Following(cursor') \in Int
    BY <2>1, Ahead
  <2>4. owed' + 1 - checks' = owed' + 1 /\ Step * (owed' + 1) \in Int
    BY <1>1, CatchUpAssumption
  <2>5. Behind' + 2 <= Step * (owed' + 1)
    <3>1. \A tick, f, n \in Int :
             tick - Interval <= t /\ t - Settle - f + 2 <= n => tick - Interval - Settle - f + 2 <= n
      BY CatchUpAssumption
    <3> QED
      BY <2>1, <2>2, <2>3, <2>4, <3>1
  <2> QED
    BY <2>4, <2>5
<1> QED
  BY <1>1, <1>2 DEF Close, CatchesUp

\* /poll between two ticks only takes the counter further.
LEMMA PaceRunOnce == ASSUME KeepsPace, Pace, RunOnce PROVE Close' /\ CatchesUp'
<1>a. /\ clock \in Nat /\ nextTick \in Nat /\ clock >= Settle /\ owed \in Nat /\ checks \in Nat
      /\ nextTick - Interval <= clock
      /\ cursor \in Nat \union {None} /\ cursor \in Int
      /\ (cursor # None => Straight(cursor)) /\ Interval \in Nat \ {0} /\ Settle \in Nat
  BY CatchUpAssumption DEF Pace, Typed, TypeOK, Timely, None
<1>1. PICK t \in clock..(nextTick - 1) : clock' = t /\ Judge(PendingWindows(cursor, t))
  BY DEF RunOnce
<1>2. nextTick' = nextTick /\ owed' = owed /\ checks' = checks
  BY DEF RunOnce
<1> DEFINE P == PendingWindows(cursor, t)
<1>3. \/ P = {} /\ cursor' = cursor
      \/ cursor' \in P /\ \A w \in P : w <= cursor'
  BY <1>1 DEF Judge
<1>4. Behind' = nextTick - Interval - Settle - Following(cursor')
  BY <1>2 DEF Behind, Following, TruncateTo
<1>5. t \in Int /\ t >= Settle /\ t <= nextTick /\ nextTick - Interval <= t
  BY <1>a
<1>6. CASE cursor = None
  <2>1. cursor' = Latest(t)
    BY <1>3, <1>6 DEF PendingWindows
  <2>2. /\ cursor' \in Int /\ Following(cursor') = cursor' + Step
        /\ t - Settle < Latest(t) + Step
    BY <1>5, <2>1, Newest, Ahead
  <2>3. Behind' <= Lag
    BY <1>a, <1>4, <1>5, <2>1, <2>2, Bounds, CatchUpAssumption
  <2>4. checks' = owed'
    BY <1>2, <1>6 DEF Pace, Typed, Begun
  <2> QED
    BY <1>a, <1>2, <2>3, <2>4 DEF Close, CatchesUp, Lag
<1>7. CASE cursor # None
  <2>1. cursor \in Nat /\ Straight(cursor)
    BY <1>a, <1>7
  <2>2. cursor' \in Nat /\ Following(cursor') >= Following(cursor)
    BY <1>3, <1>5, <2>1, CheckGains
  <2>3. Following(cursor) \in Int /\ Following(cursor') \in Int
    BY <2>1, <2>2, Ahead
  <2>4. Behind \in Int /\ Behind = nextTick - Interval - Settle - Following(cursor)
    BY <1>a, <2>3, CatchUpAssumption DEF Behind
  <2>5. Behind' \in Int /\ Behind' <= Behind
    BY <1>a, <1>4, <2>2, <2>3, <2>4
  <2>6. Behind <= Lag \/ Behind + 2 <= Step * (owed + 1 - checks)
    BY <1>7 DEF Pace, Close
  <2>7. Behind' <= Lag \/ Behind' + 2 <= Step * (owed' + 1 - checks')
    <3>1. owed + 1 - checks \in Int /\ owed' + 1 - checks' = owed + 1 - checks
      BY <1>a, <1>2
    <3>2. Step * (owed + 1 - checks) \in Int
      BY <3>1, NextMultiple
    <3> QED
      BY <2>4, <2>5, <2>6, <3>1, <3>2, Bounds
  <2>8. checks' > owed' => Latest(clock') - cursor' < Step
    <3> SUFFICES ASSUME checks > owed PROVE Latest(t) - cursor' < Step
      BY <1>1, <1>2
    <3>1. Behind <= Lag \/ Behind + 2 <= Step
      BY <1>a, <1>7, Settled DEF Pace
    <3>2. \/ t - Interval - Settle - Following(cursor) <= Lag
          \/ t - Interval - Settle - Following(cursor) + 2 <= Step
      BY <1>a, <1>5, <2>3, <2>4, <3>1, Bounds, CatchUpAssumption
    <3> QED
      BY <1>3, <1>5, <2>1, <3>2, CaughtUp
  <2> QED
    BY <2>7, <2>8 DEF Close, CatchesUp, Latest, TruncateTo, Lag
<1> QED
  BY <1>6, <1>7

LEMMA PaceNext == ASSUME KeepsPace PROVE Pace /\ [Next]_vars => Pace'
<1> SUFFICES ASSUME Pace, [Next]_vars PROVE Close' /\ CatchesUp'
  BY TypedNext DEF Pace
<1>a. Typed /\ Typed'
  BY TypedNext DEF Pace
<1>b. cursor' \in Nat \union {None} /\ nextTick' \in Int /\ nextTick \in Int /\ clock \in Int
  BY <1>a DEF Typed, TypeOK
<1>1. CASE Tick
  BY <1>1, PaceTick
<1>2. CASE TickFails
  <2>1. nextTick' = nextTick + Interval /\ owed' = Backlog(cursor', nextTick) /\ checks' = 0
    BY <1>2 DEF TickFails
  <2>2. nextTick' - Interval <= nextTick
    BY <1>b, <2>1, CatchUpAssumption
  <2> QED
    BY <1>b, <2>1, <2>2, PaceOwed
<1>3. CASE RunOnce
  BY <1>3, PaceRunOnce
<1>4. CASE Restart
  <2>1. PICK d \in Outages : nextTick' = clock + d /\ owed' = Backlog(cursor, clock + d)
    BY <1>4 DEF Restart
  <2>2. cursor' = cursor /\ checks' = 0
    BY <1>4 DEF Restart
  <2>3. d \in Nat
    BY CatchUpAssumption
  <2>4. clock + d \in Int /\ nextTick' - Interval <= clock + d
    BY <1>b, <2>1, <2>3, CatchUpAssumption
  <2> QED
    BY <1>b, <2>1, <2>2, <2>4, PaceOwed
<1>5. CASE UNCHANGED vars
  <2>1. Close' = Close /\ CatchesUp' = CatchesUp
    BY <1>5 DEF vars, Close, Behind, Following, TruncateTo, CatchesUp, Latest, Lag
  <2> QED
    BY <2>1 DEF Pace
<1> QED
  BY <1>1, <1>2, <1>3, <1>4, <1>5 DEF Next

(* Where a full check gains a step on the clock at least, the backlog left  *)
(* by an outage or a failed window is worked through at one window or more  *)
(* a check, and the counter stays up to date from then on (DEPLOY.md:308).  *)
THEOREM BacklogCleared == ASSUME KeepsPace PROVE Spec => []CatchesUp
<1>1. Pace => CatchesUp
  BY DEF Pace
<1> QED
  BY <1>1, PaceInit, PaceNext, PTL DEF Spec

-----------------------------------------------------------------------------
\* A check ends on the grid, or takes less than a day: it cannot leave it at
\* one midnight and meet the next.
ShortChecks == DayLength % Step = 0 \/ (MaxCatchUp + 1) * Step <= DayLength

\* What a check at t finds pending once the backlog is cleared has settled
\* since shortly before the tick before.
LEMMA FreshWindows ==
  ASSUME ShortChecks, Pace, checks >= owed, NEW t \in Int, Settle <= t, t <= nextTick,
         NEW w \in PendingWindows(cursor, t)
  PROVE  t - w < Settle + Step + Interval
<1>1. /\ nextTick \in Nat /\ cursor \in Nat \union {None} /\ Interval \in Nat \ {0}
      /\ Settle \in Nat /\ Step \in Nat /\ (cursor # None => Straight(cursor))
  BY CatchUpAssumption DEF Pace, Typed, TypeOK
<1>2. CASE cursor = None
  <2>1. w = Latest(t)
    BY <1>2 DEF PendingWindows
  <2>2. Latest(t) \in Int /\ t - Settle < Latest(t) + Step
    BY Newest
  <2> QED
    BY <1>1, <2>1, <2>2
<1>3. CASE cursor # None
  <2>1. cursor \in Nat /\ w \in Int /\ w >= Following(cursor)
    BY <1>1, <1>3, PendingGrid
  <2>2. Following(cursor) \in Int
    BY <2>1, Ahead
  <2>3. Behind <= Lag \/ Behind + 2 <= Step
    BY <1>3, Settled DEF Pace
  <2>4. Lag = Step - 1
    BY DEF ShortChecks, Lag
  <2>5. Behind = nextTick - Interval - Settle - Following(cursor)
    BY DEF Behind
  <2> QED
    BY <1>1, <2>1, <2>2, <2>3, <2>4, <2>5
<1> QED
  BY <1>2, <1>3

LEMMA NoticedNext ==
  ASSUME ShortChecks PROVE Pace /\ Pace' /\ NoticedInTime /\ [Next]_vars => NoticedInTime'
<1> SUFFICES ASSUME Pace, Pace', NoticedInTime, [Next]_vars PROVE NoticedInTime'
  OBVIOUS
<1>a. /\ clock \in Int /\ nextTick \in Int /\ Settle <= clock /\ clock <= nextTick
      /\ owed \in Nat /\ checks \in Nat /\ owed' \in Nat
  BY CatchUpAssumption DEF Pace, Typed, TypeOK, Timely
<1>1. CASE Tick
  <2>1. /\ clock' = nextTick /\ checks' = checks + 1 /\ owed' = owed
        /\ batch' = PendingWindows(cursor, nextTick)
    BY <1>1 DEF Tick, Judge
  <2> SUFFICES ASSUME checks' > owed', NEW w \in batch'
               PROVE  clock' - w < Settle + Step + Interval
    BY DEF NoticedInTime
  <2>2. checks >= owed /\ Settle <= nextTick
    BY <1>a, <2>1, CatchUpAssumption
  <2> QED
    BY <1>a, <2>1, <2>2, FreshWindows
<1>2. CASE TickFails
  BY <1>2, <1>a DEF TickFails, NoticedInTime
<1>3. CASE RunOnce
  <2>1. PICK t \in clock..(nextTick - 1) : clock' = t /\ batch' = PendingWindows(cursor, t)
    BY <1>3 DEF RunOnce, Judge
  <2>2. checks' = checks /\ owed' = owed
    BY <1>3 DEF RunOnce
  <2> SUFFICES ASSUME checks > owed, NEW w \in PendingWindows(cursor, t)
               PROVE  t - w < Settle + Step + Interval
    BY <2>1, <2>2 DEF NoticedInTime
  <2>3. checks >= owed /\ t \in Int /\ Settle <= t /\ t <= nextTick
    BY <1>a, CatchUpAssumption
  <2> QED
    BY <2>3, FreshWindows
<1>4. CASE Restart
  BY <1>4, <1>a DEF Restart, NoticedInTime
<1>5. CASE UNCHANGED vars
  BY <1>5 DEF vars, NoticedInTime
<1> QED
  BY <1>1, <1>2, <1>3, <1>4, <1>5 DEF Next

(* Once the backlog is cleared, a window is judged less than an interval    *)
(* and a step after its data has settled.                                   *)
THEOREM DropsNoticed ==
  ASSUME KeepsPace, ShortChecks PROVE Spec => []NoticedInTime
<1>1. Init => Pace /\ NoticedInTime
  BY PaceInit DEF Init, NoticedInTime
<1>2. Pace /\ NoticedInTime /\ [Next]_vars => Pace' /\ NoticedInTime'
  BY PaceNext, NoticedNext
<1> QED
  BY <1>1, <1>2, PTL DEF Spec

=============================================================================
