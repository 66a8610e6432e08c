------------------------- MODULE ReportSchedulerProofs -------------------------
(***************************************************************************)
(* The pace of reports, and that none is left out, for any schedules and    *)
(* any number of changes, failures and restarts.                            *)
(***************************************************************************)
EXTENDS ReportScheduler, TLAPS

\* The initial rows and the idle goroutine have their types.
LEMMA TypeInit == Init => TypeOK
<1> SUFFICES ASSUME Init PROVE TypeOK
  OBVIOUS
<1>1. clock \in Times /\ lastRun \in Times \union {None}
  BY SchedulerAssumption DEF Init, Times, None
<1>2. Fallback \in InForce
  BY DEF InForce
<1> QED
  BY <1>1, <1>2, SchedulerAssumption DEF Init, TypeOK, Times

\* Every step of tick, of a chat and of the environment keeps the types.
LEMMA TypeNext == TypeOK /\ [Next]_vars => TypeOK'
<1> SUFFICES ASSUME TypeOK, [Next]_vars PROVE TypeOK'
  OBVIOUS
<1> USE SchedulerAssumption DEF TypeOK, Times, None
<1>1. CASE Tick
  BY <1>1 DEF Tick, Fault, InForce
<1>2. CASE Check
  BY <1>2 DEF Check, Fault
<1>3. CASE Record
  BY <1>3 DEF Record, Fault
<1>4. CASE Send
  BY <1>4 DEF Send
<1>5. ASSUME NEW s \in Schedules, SetSchedule(s) PROVE TypeOK'
  BY <1>5 DEF SetSchedule, InForce
<1>6. CASE Crash
  BY <1>6 DEF Crash, Fault
<1>7. CASE Clock
  BY <1>7 DEF Clock
<1>8. CASE UNCHANGED vars
  BY <1>8 DEF vars
<1> QED
  BY <1>1, <1>2, <1>3, <1>4, <1>5, <1>6, <1>7, <1>8 DEF Next

(* Every variable keeps its type.                                           *)
THEOREM TypeCorrect == Spec => []TypeOK
  BY TypeInit, TypeNext, PTL DEF Spec

-----------------------------------------------------------------------------
(* A report that goes out now respects its plan against every one before.   *)

Fits(s, a, now) ==
    /\ s.kind = "every" => now - a >= s.every
    /\ s.kind = "daily" => a < Today(s.at, now)

OnTime(s, now) == s.kind = "daily" => now % DayLength >= s.at

\* What a schedule in force may look like.
LEMMA Plans ==
  ASSUME NEW s \in InForce
  PROVE  s.every \in Nat /\ s.at \in 0..(DayLength - 1)
  BY SchedulerAssumption DEF InForce, Off, Every, Daily

\* The heart of the argument: a schedule is due only when it is time, and
\* only when the last run lies far enough back.
LEMMA DueFits ==
  ASSUME NEW s \in InForce, NEW last \in Nat \union {None}, NEW now \in Nat,
         Due(s, last, now)
  PROVE  /\ OnTime(s, now)
         /\ last # None => Fits(s, last, now)
<1>1. s.every \in Nat /\ s.at \in Nat /\ s.at < DayLength
  BY Plans, SchedulerAssumption
<1>2. now % DayLength \in Nat /\ now % DayLength < DayLength /\ now % DayLength <= now
  BY SchedulerAssumption
<1>3. Today(s.at, now) = now - (now % DayLength) + s.at
  BY DEF Today
<1>4. DayLength \in Nat \ {0}
  BY SchedulerAssumption
<1>5. CASE s.kind = "every"
  BY <1>1, <1>5 DEF Due, NextRun, OnTime, Fits, None
<1>6. CASE s.kind = "daily"
  <2>1. Today(s.at, now) + DayLength > now
    BY <1>1, <1>2, <1>3, <1>4
  <2>2. Today(s.at, now) <= now /\ (last # None => last < Today(s.at, now))
    <3>1. Today(s.at, now) \in Nat
      BY <1>1, <1>2, <1>3
    <3> QED
      BY <1>4, <1>6, <2>1, <3>1 DEF Due, NextRun, None
  <2>3. now % DayLength >= s.at
    BY <1>1, <1>2, <1>3, <2>2
  <2> QED
    BY <1>6, <2>2, <2>3 DEF OnTime, Fits
<1> QED
  BY <1>5, <1>6 DEF OnTime, Fits

\* Where tick stands, and that nothing went out after the recorded run.
Pacing ==
    /\ Paced
    /\ \A a \in sends : lastRun # None /\ a.at <= lastRun
    /\ pc = "record" => Due(plan, lastRun, at)
    /\ pc = "send" =>
          /\ lastRun = at
          /\ OnTime(plan, at)
          /\ \A a \in sends : a.at < at => Fits(plan, a.at, at)

\* Every step keeps Pacing.
LEMMA PacingNext == TypeOK /\ Pacing /\ [Next]_vars => Pacing'
<1> SUFFICES ASSUME TypeOK, Pacing, [Next]_vars PROVE Pacing'
  OBVIOUS
<1>a. /\ lastRun \in Nat \union {None} /\ at \in Nat /\ plan \in InForce
      /\ sends \subseteq [at : Nat, plan : InForce]
  BY SchedulerAssumption DEF TypeOK, Times
<1>1. ASSUME Tick PROVE Pacing'
  BY <1>1 DEF Tick, Pacing, Paced
<1>2. ASSUME Check PROVE Pacing'
  BY <1>2 DEF Check, Pacing, Paced
<1>3. ASSUME Record PROVE Pacing'
  <2>1. CASE pc' = "send"
    <3>1. lastRun' = at /\ UNCHANGED <<sends, plan, at>>
      BY <1>3, <2>1 DEF Record
    <3>2. OnTime(plan, at) /\ (lastRun # None => Fits(plan, lastRun, at))
      BY <1>a, <1>3, DueFits DEF Record, Pacing
    <3>3. ASSUME NEW a \in sends PROVE a.at <= at /\ Fits(plan, a.at, at)
      <4>1. lastRun \in Nat /\ a.at \in Nat /\ a.at <= lastRun /\ Fits(plan, lastRun, at)
        BY <1>a, <3>2 DEF Pacing
      <4>2. (Today(plan.at, at) \in Int /\ Today(plan.at, at) <= at) \/ plan.kind # "daily"
        BY <1>a, <3>2, Plans, SchedulerAssumption DEF OnTime, Today
      <4>3. plan.every \in Nat /\ plan.kind \in {"off", "every", "daily"}
        BY <1>a, Plans, SchedulerAssumption DEF InForce, Off, Every, Daily
      <4>4. plan.kind # "off"
        BY <1>3 DEF Record, Pacing, Due
      <4> QED
        BY <1>a, <4>1, <4>2, <4>3, <4>4 DEF Fits
    <3>4. at # None
      BY <1>a DEF None
    <3> QED
      BY <2>1, <3>1, <3>2, <3>3, <3>4 DEF Pacing, Paced
  <2>2. CASE pc' # "send"
    BY <1>3, <2>2 DEF Record, Pacing, Paced
  <2> QED
    BY <2>1, <2>2
<1>4. ASSUME Send PROVE Pacing'
  <2> DEFINE new == [at |-> at, plan |-> plan]
  <2>1. sends' = sends \union {new} /\ pc' = "idle" /\ lastRun' = lastRun
    BY <1>4 DEF Send
  <2>2. OnTime(plan, at) /\ lastRun = at /\ \A a \in sends : a.at < at => Fits(plan, a.at, at)
    BY <1>4 DEF Send, Pacing
  <2>3. \A a \in sends' : lastRun # None /\ a.at <= lastRun
    BY <1>a, <2>1, <2>2 DEF Pacing, None
  <2>4. ASSUME NEW b \in sends' 
        PROVE  /\ OnTime(b.plan, b.at)
               /\ \A a \in sends' : a.at < b.at => Fits(b.plan, a.at, b.at)
    <3>1. CASE b = new
      BY <1>a, <2>1, <2>2, <3>1
    <3>2. CASE b \in sends
      <4>1. ~(new.at < b.at)
        BY <1>a, <2>2, <3>2 DEF Pacing
      <4> QED
        BY <2>1, <3>2, <4>1 DEF Pacing, Paced, OnTime, Fits
    <3> QED
      BY <2>1, <3>1, <3>2
  <2>5. Paced'
    BY <2>4 DEF Paced, OnTime, Fits
  <2> QED
    BY <2>1, <2>3, <2>5 DEF Pacing
<1>5. ASSUME (\E s \in Schedules : SetSchedule(s)) \/ Clock \/ UNCHANGED vars PROVE Pacing'
  BY <1>5 DEF SetSchedule, Clock, vars, Pacing, Paced
<1>6. ASSUME Crash PROVE Pacing'
  BY <1>6 DEF Crash, Pacing, Paced
<1> QED
  BY <1>1, <1>2, <1>3, <1>4, <1>5, <1>6 DEF Next

(* No report follows another too soon, comes before its time of day or      *)
(* comes twice in a day (scheduler.go:95, README.md:154).                   *)
THEOREM ReportsPaced == Spec => []Paced
<1>1. Init => TypeOK /\ Pacing
  BY TypeInit DEF Init, Pacing, Paced
<1>2. TypeOK /\ Pacing /\ [Next]_vars => TypeOK' /\ Pacing'
  BY TypeNext, PacingNext
<1>3. Pacing => Paced
  BY DEF Pacing
<1> QED
  BY <1>1, <1>2, <1>3, PTL DEF Spec

-----------------------------------------------------------------------------
\* A run recorded since the last trouble has been sent, or is about to be.
Recorded == lastRun > calm => pc = "send" \/ \E s \in sends : s.at = lastRun

\* Where tick stands in time, and what the ticks that ended have left behind
\* of a service that has ever reported.
Punctual ==
    /\ lastRun <= clock /\ at <= clock /\ ticked <= clock
    /\ pc # "idle" => ticked = at /\ (at > calm => plan = stored)
    /\ pc = "send" => lastRun = at
    /\ Recorded
    /\ lastRun # None => ReportsHappen

\* Trouble, or a changed schedule, and the promise starts anew.
LEMMA Afresh ==
  ASSUME TypeOK, calm = clock PROVE ReportsHappen
<1>1. /\ clock \in Nat /\ stored \in InForce
  BY DEF TypeOK, Times
<1>2. stored.kind = "every" => stored.every \in Nat \ {0}
  BY <1>1, SchedulerAssumption DEF InForce, Off, Every, Daily
<1>3. Today(stored.at, clock) \in Int
  BY <1>1, Plans, SchedulerAssumption DEF Today
<1> QED
  BY <1>1, <1>2, <1>3 DEF ReportsHappen

\* A schedule that is not due, some run after the last, has had its report.
LEMMA NotDue ==
  ASSUME NEW s \in InForce, NEW last \in Nat, NEW now \in Nat, NEW since \in Nat,
         ~ Due(s, last, now)
  PROVE  /\ s.kind = "daily" =>
               (since < Today(s.at, now) /\ Today(s.at, now) <= now =>
                   last > since /\ last >= Today(s.at, now))
         /\ s.kind = "every" =>
               (since + s.every <= now => last > since /\ last > now - s.every)
<1>1. s.every \in Nat /\ s.at \in Nat /\ last # None
  BY Plans, SchedulerAssumption DEF None
<1>2. Today(s.at, now) \in Int
  BY <1>1, SchedulerAssumption DEF Today
<1>3. CASE s.kind = "daily"
  BY <1>1, <1>2, <1>3 DEF Due, NextRun
<1>4. CASE s.kind = "every"
  BY <1>1, <1>4 DEF Due, NextRun
<1> QED
  BY <1>3, <1>4

LEMMA PunctualInit == Init => Punctual
<1> SUFFICES ASSUME Init PROVE Punctual
  OBVIOUS
<1>1. TypeOK /\ calm = clock
  BY TypeInit DEF Init
<1>2. lastRun <= clock
  BY SchedulerAssumption DEF Init, None, Times
<1>3. clock \in Nat /\ lastRun \in Int
  BY <1>1 DEF TypeOK, Times, None
<1> QED
  BY <1>1, <1>2, <1>3, Afresh DEF Init, Punctual, Recorded, None

\* Every step keeps Punctual; the check that is not due is the one that counts.
LEMMA PunctualNext == TypeOK /\ Punctual /\ [Next]_vars => Punctual'
<1> SUFFICES ASSUME TypeOK, Punctual, [Next]_vars PROVE Punctual'
  OBVIOUS
<1>a. /\ lastRun \in Nat \union {None} /\ at \in Nat /\ clock \in Nat /\ calm \in Nat
      /\ ticked \in Nat \union {None} /\ None = -1
      /\ sends \subseteq [at : Nat, plan : InForce] /\ stored \in InForce
      /\ lastRun <= clock /\ at <= clock /\ ticked <= clock
  BY DEF TypeOK, Times, Punctual, None
<1>b. TypeOK'
  BY TypeNext
<1>c. ASSUME calm' = clock' PROVE ReportsHappen'
  <2>1. /\ clock' \in Nat /\ stored' \in InForce
    BY <1>b DEF TypeOK, Times
  <2>2. stored'.kind = "every" => stored'.every \in Nat \ {0}
    BY <2>1, SchedulerAssumption DEF InForce, Off, Every, Daily
  <2>3. Today(stored'.at, clock') \in Int
    BY <2>1, Plans, SchedulerAssumption DEF Today
  <2>4. ReportsHappen' =
          (pc' = "idle" /\ ticked' = clock' =>
             /\ stored'.kind = "daily" =>
                  (calm' < Today(stored'.at, clock') /\ Today(stored'.at, clock') <= clock' =>
                      \E s \in sends' : s.at >= Today(stored'.at, clock'))
             /\ stored'.kind = "every" =>
                  (calm' + stored'.every <= clock' =>
                      \E s \in sends' : s.at > clock' - stored'.every))
    BY DEF ReportsHappen, Today
  <2>5. ~ (calm' < Today(stored'.at, clock') /\ Today(stored'.at, clock') <= clock')
    BY <1>c, <2>1, <2>3
  <2>6. stored'.kind = "every" => ~ (calm' + stored'.every <= clock')
    BY <1>c, <2>1, <2>2
  <2> QED
    BY <2>4, <2>5, <2>6
<1>1. ASSUME Tick PROVE Punctual'
  <2>1. /\ pc = "idle" /\ ticked' = clock /\ at' = clock /\ clock' = clock
        /\ UNCHANGED <<stored, lastRun, sends>>
    BY <1>1 DEF Tick
  <2>2. CASE plan' = stored /\ calm' = calm
    <3>1. pc' = IF stored.kind = "off" THEN "idle" ELSE "check"
      BY <1>1, <2>2 DEF Tick
    <3>2. Recorded'
      BY <2>1, <2>2 DEF Punctual, Recorded
    <3>3. ReportsHappen'
      BY <2>1, <3>1 DEF ReportsHappen
    <3> QED
      BY <1>a, <2>1, <2>2, <3>1, <3>2, <3>3 DEF Punctual
  <2>3. CASE calm' = clock
    <3>1. pc' \in {"idle", "check"}
      BY <1>1 DEF Tick
    <3>2. Recorded'
      BY <1>a, <2>1, <2>3 DEF Recorded
    <3> QED
      BY <1>a, <1>c, <2>1, <2>3, <3>1, <3>2 DEF Punctual
  <2> QED
    BY <1>1, <2>2, <2>3 DEF Tick, Fault
<1>2. ASSUME Check PROVE Punctual'
  <2>1. pc = "check" /\ UNCHANGED <<stored, lastRun, plan, at, clock, ticked, sends>>
    BY <1>2 DEF Check
  <2>2. CASE pc' = "record" /\ calm' = calm
    BY <1>a, <2>1, <2>2 DEF Punctual, Recorded, ReportsHappen
  <2>3. CASE pc' = "idle" /\ calm' = clock
    <3>1. Recorded'
      BY <1>a, <2>1, <2>3 DEF Recorded
    <3> QED
      BY <1>a, <1>c, <2>1, <2>3, <3>1 DEF Punctual
  <2>4. CASE pc' = "idle" /\ calm' = calm /\ ~ Due(plan, lastRun, at)
    <3>1. lastRun > calm => \E s \in sends : s.at = lastRun
      BY <2>1 DEF Punctual, Recorded
    <3>2. Recorded'
      BY <2>1, <2>4, <3>1 DEF Recorded
    <3>3. ASSUME lastRun # None, ticked = clock PROVE ReportsHappen'
      <4>1. at = clock /\ lastRun \in Nat /\ (clock > calm => plan = stored)
        BY <1>a, <2>1, <3>3 DEF Punctual
      <4>2. stored.every \in Nat /\ (stored.kind = "every" => stored.every # 0)
            /\ Today(stored.at, clock) \in Int
        BY <1>a, SchedulerAssumption DEF InForce, Off, Every, Daily, Today
      <4>3. CASE clock <= calm
        BY <1>a, <2>1, <2>4, <4>2, <4>3 DEF ReportsHappen
      <4>4. CASE clock > calm
        <5>1. /\ stored.kind = "daily" =>
                    (calm < Today(stored.at, clock) /\ Today(stored.at, clock) <= clock =>
                        lastRun > calm /\ lastRun >= Today(stored.at, clock))
              /\ stored.kind = "every" =>
                    (calm + stored.every <= clock => lastRun > calm /\ lastRun > clock - stored.every)
          BY <1>a, <2>4, <4>1, <4>4, NotDue
        <5> QED
          BY <1>a, <2>1, <2>4, <3>1, <5>1 DEF ReportsHappen
      <4> QED
        BY <1>a, <4>3, <4>4
    <3>4. ticked # clock => ReportsHappen'
      BY <2>1 DEF ReportsHappen
    <3> QED
      BY <1>a, <2>1, <2>4, <3>2, <3>3, <3>4 DEF Punctual
  <2> QED
    BY <1>2, <2>2, <2>3, <2>4 DEF Check, Fault
<1>3. ASSUME Record PROVE Punctual'
  <2>1. pc = "record" /\ UNCHANGED <<stored, plan, at, clock, ticked, sends>>
    BY <1>3 DEF Record
  <2>2. CASE lastRun' = at /\ pc' = "send" /\ calm' = calm
    BY <1>a, <2>1, <2>2 DEF Punctual, Recorded, ReportsHappen
  <2>3. CASE lastRun' = lastRun /\ pc' = "idle" /\ calm' = clock
    <3>1. Recorded'
      BY <1>a, <2>1, <2>3 DEF Recorded
    <3> QED
      BY <1>a, <1>c, <2>1, <2>3, <3>1 DEF Punctual
  <2> QED
    BY <1>3, <2>2, <2>3 DEF Record, Fault
<1>4. ASSUME Send PROVE Punctual'
  <2>1. /\ pc = "send" /\ pc' = "idle" /\ sends' = sends \union {[at |-> at, plan |-> plan]}
        /\ UNCHANGED <<stored, lastRun, at, clock, ticked, calm>>
    BY <1>4 DEF Send
  <2>2. lastRun = at /\ ticked = at
    BY <2>1 DEF Punctual
  <2>3. \E s \in sends' : s.at = at
    <3>1. [at |-> at, plan |-> plan] \in sends' /\ [at |-> at, plan |-> plan].at = at
      BY <2>1
    <3> QED
      BY <3>1
  <2>4. Recorded'
    BY <2>1, <2>2, <2>3 DEF Recorded
  <2>5. ReportsHappen'
    <3>1. stored.kind = "every" => stored.every \in Nat \ {0}
      BY <1>a, SchedulerAssumption DEF InForce, Off, Every, Daily
    <3> QED
      BY <1>a, <2>1, <2>2, <2>3, <3>1 DEF ReportsHappen
  <2> QED
    BY <1>a, <2>1, <2>4, <2>5 DEF Punctual
<1>5. ASSUME NEW s \in Schedules, SetSchedule(s) PROVE Punctual'
  <2>1. /\ calm' = clock /\ clock' = clock
        /\ UNCHANGED <<lastRun, pc, at, ticked, sends>>
    BY <1>5 DEF SetSchedule
  <2>2. Recorded'
    BY <1>a, <2>1 DEF Recorded
  <2>3. pc # "idle" => ticked = at
    BY DEF Punctual
  <2>4. pc = "send" => lastRun = at
    BY DEF Punctual
  <2> QED
    BY <1>a, <1>c, <2>1, <2>2, <2>3, <2>4 DEF Punctual
<1>6. ASSUME Crash PROVE Punctual'
  <2>1. /\ calm' = clock /\ clock' = clock /\ pc' = "idle"
        /\ UNCHANGED <<lastRun, at, ticked>>
    BY <1>6 DEF Crash, Fault
  <2>2. Recorded'
    BY <1>a, <2>1 DEF Recorded
  <2> QED
    BY <1>a, <1>c, <2>1, <2>2 DEF Punctual
<1>7. ASSUME Clock PROVE Punctual'
  <2>1. /\ clock' = clock + 1
        /\ UNCHANGED <<stored, lastRun, pc, plan, at, ticked, sends, calm>>
    BY <1>7 DEF Clock
  <2>2. ReportsHappen'
    BY <1>a, <2>1 DEF ReportsHappen
  <2> QED
    BY <1>a, <2>1, <2>2 DEF Punctual, Recorded
<1>8. ASSUME UNCHANGED vars PROVE Punctual'
  BY <1>8 DEF vars, Punctual, Recorded, ReportsHappen
<1> QED
  BY <1>1, <1>2, <1>3, <1>4, <1>5, <1>6, <1>7, <1>8 DEF Next

(* No day's report and no interval's report is left out by a service that   *)
(* has ever reported, whatever has been changed, has failed or stopped.     *)
THEOREM NoneLeftOut == Spec => [](lastRun # None => ReportsHappen)
<1>1. Init => TypeOK /\ Punctual
  BY TypeInit, PunctualInit
<1>2. TypeOK /\ Punctual /\ [Next]_vars => TypeOK' /\ Punctual'
  BY TypeNext, PunctualNext
<1>3. Punctual => (lastRun # None => ReportsHappen)
  BY DEF Punctual
<1> QED
  BY <1>1, <1>2, <1>3, PTL DEF Spec

(* So none is ever left out by a service that starts with the time of its   *)
(* last report; MCReportScheduler_fresh shows one without leave some out.   *)
THEOREM EveryReportHappens ==
  ASSUME None \notin LastRuns PROVE Spec => []ReportsHappen
<1>1. Init => TypeOK /\ lastRun # None
  BY TypeInit DEF Init
<1>2. TypeOK /\ lastRun # None /\ [Next]_vars => TypeOK' /\ (lastRun # None)'
  <2> SUFFICES ASSUME TypeOK, lastRun # None, [Next]_vars PROVE lastRun' # None
    BY TypeNext
  <2>1. at # None
    BY DEF TypeOK, Times, None
  <2> QED
    BY <2>1 DEF Next, vars, Tick, Check, Record, Send, SetSchedule, Crash, Clock
<1> QED
  BY <1>1, <1>2, NoneLeftOut, PTL DEF Spec

=============================================================================
