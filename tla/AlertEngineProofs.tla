--------------------------- MODULE AlertEngineProofs ---------------------------
(***************************************************************************)
(* What the runs of AlertEngine show on small instances, proved for every   *)
(* number of goroutines, rules, scopes, failures and windows.               *)
(***************************************************************************)
EXTENDS AlertEngine, TLAPS

(* A goroutine between the verdict and the cooldown write has a rule in     *)
(* hand, and None is not a rule: without it the type of alertRows is not    *)
(* inductive.                                                               *)
HasRule == \A p \in Advancers : pc[p] \in {"deliver", "stamp"} => rule[p] \in Rules

TypeInv == TypeOK /\ HasRule

\* The initial rows, locals and history have their types.
LEMMA TypeInit == Init => TypeInv
<1> SUFFICES ASSUME Init PROVE TypeInv
  OBVIOUS
<1> USE EngineAssumption DEF Init, Windows, None
<1>1. sentAt \in [Rules -> [Advancers -> Windows \union {None}]]
  OBVIOUS
<1>2. 0 \in Windows
  OBVIOUS
<1>3. HasRule
  BY DEF HasRule
<1>4. exists \in BOOLEAN /\ torn \in BOOLEAN
  BY Zenon
<1>5. fired \in [Advancers -> BOOLEAN] /\ failed \in [Advancers -> BOOLEAN]
  OBVIOUS
<1> QED
  BY <1>1, <1>2, <1>3, <1>4, <1>5 DEF TypeInv, TypeOK, Stage

\* Every step of advance, of an admin and of the environment keeps the types.
LEMMA TypeNext == TypeInv /\ [Next]_vars => TypeInv'
<1> SUFFICES ASSUME TypeInv, [Next]_vars PROVE TypeInv'
  OBVIOUS
<1> USE EngineAssumption DEF TypeInv, TypeOK, HasRule, Windows, None, Stage, rows, history
<1>1. ASSUME NEW p \in Advancers, BeginFirst(p) PROVE TypeInv'
  <2>1. between' \subseteq Windows
    BY <1>1 DEF BeginFirst
  <2> QED
    BY <1>1, <2>1 DEF BeginFirst, Enter, Frame
<1>2. ASSUME NEW p \in Advancers, BeginNext(p) PROVE TypeInv'
  BY <1>2 DEF BeginNext, Enter, Frame, Smaller
<1>3. ASSUME NEW p \in Advancers, ListError(p) PROVE TypeInv'
  BY <1>3 DEF ListError, Return, Frame, Fault
<1>4. ASSUME NEW p \in Advancers, ListNone(p) PROVE TypeInv'
  BY <1>4 DEF ListNone
<1>5. ASSUME NEW p \in Advancers, ListSome(p) PROVE TypeInv'
  BY <1>5 DEF ListSome
<1>6. ASSUME NEW p \in Advancers, FetchError(p) PROVE TypeInv'
  BY <1>6 DEF FetchError, Fault
<1>7. ASSUME NEW p \in Advancers, FetchScope(p) PROVE TypeInv'
  BY <1>7 DEF FetchScope, RulesOf
<1>8. ASSUME NEW p \in Advancers, JudgeQuiet(p) PROVE TypeInv'
  BY <1>8 DEF JudgeQuiet, IsLeast
<1>9. ASSUME NEW p \in Advancers, JudgeFires(p) PROVE TypeInv'
  BY <1>9 DEF JudgeFires, IsLeast
<1>10. ASSUME NEW p \in Advancers, Deliver(p) PROVE TypeInv'
  <2>1. rule[p] \in Rules
    BY <1>10 DEF Deliver
  <2>2. alertRows' \subseteq Rules
    BY <1>10, <2>1 DEF Deliver
  <2>7. faults' \in 0..MaxFaults
    BY <1>10 DEF Deliver, Fault
  <2>3. sent' \in [Rules -> SUBSET Windows]
    <3>1. win[p] \in Windows
      OBVIOUS
    <3>2. sent' = [sent EXCEPT ![rule[p]] = @ \union {win[p]}]
      BY <1>10 DEF Deliver
    <3> QED
      BY <2>1, <3>1, <3>2
  <2>4. sentAt' \in [Rules -> [Advancers -> Windows \union {None}]]
    BY <1>10, <2>1 DEF Deliver
  <2>5. early' \subseteq Rules /\ earlySelf' \subseteq Rules /\ again' \subseteq Rules
    BY <1>10, <2>1 DEF Deliver
  <2>6. HasRule' /\ pc' \in [Advancers -> Stage]
    BY <1>10, <2>1 DEF Deliver
  <2> QED
    BY <1>10, <2>2, <2>3, <2>4, <2>5, <2>6, <2>7 DEF Deliver
<1>11. ASSUME NEW p \in Advancers, RecordTriggerFire(p) PROVE TypeInv'
  <2>1. firedAt' \in [Rules -> Windows \union {None}]
    BY <1>11 DEF RecordTriggerFire
  <2>2. faults' \in 0..MaxFaults
    BY <1>11 DEF RecordTriggerFire, Fault
  <2>3. torn' \in BOOLEAN
    BY <1>11, Zenon DEF RecordTriggerFire
  <2> QED
    BY <1>11, <2>1, <2>2, <2>3 DEF RecordTriggerFire
<1>12. ASSUME NEW p \in Advancers, EvaluateError(p) PROVE TypeInv'
  BY <1>12 DEF EvaluateError, Return, Frame
<1>13. ASSUME NEW p \in Advancers, EvaluateDone(p) PROVE TypeInv'
  BY <1>13 DEF EvaluateDone
<1>14. ASSUME NEW p \in Advancers, MoveCursor(p) PROVE TypeInv'
  <2>1. cursor' \in Windows \union {None}
    BY <1>14 DEF MoveCursor
  <2>2. /\ UNCHANGED <<exists, triggers, firedAt, alertRows, now, edits, faults, between, evaluated,
                        attended, sent, sentAt, early, earlySelf, again, torn>>
        /\ origin' \in Windows \union {None}
    BY <1>14 DEF MoveCursor
  <2>3. CASE win[p] < upto[p]
    <3>1. win[p] + 1 \in Windows
      BY <2>3
    <3>2. Enter(p, win[p] + 1, upto[p])
      BY <1>14, <2>3 DEF MoveCursor
    <3> QED
      BY <2>1, <2>2, <3>1, <3>2 DEF Enter, Frame
  <2>4. CASE ~(win[p] < upto[p])
    <3>1. Return(p)
      BY <1>14, <2>4 DEF MoveCursor
    <3> QED
      BY <2>1, <2>2, <3>1 DEF Return, Frame
  <2> QED
    BY <2>3, <2>4
<1>15. ASSUME NEW p \in Advancers, MoveCursorError(p) PROVE TypeInv'
  <2>1. torn' \in BOOLEAN
    BY <1>15, Zenon DEF MoveCursorError
  <2> QED
    BY <1>15, <2>1 DEF MoveCursorError, Return, Frame, Fault
<1>16. ASSUME NEW r \in Rules, DeleteTrigger(r) PROVE TypeInv'
  BY <1>16 DEF DeleteTrigger, Edit, locals
<1>17. ASSUME DeleteCounter PROVE TypeInv'
  <2>1. firedAt' \in [Rules -> Windows \union {None}]
    BY <1>17 DEF DeleteCounter
  <2>2. exists' \in BOOLEAN
    BY <1>17, Zenon DEF DeleteCounter
  <2> QED
    BY <1>17, <2>1, <2>2 DEF DeleteCounter, Edit, locals
<1>18. ASSUME Crash PROVE TypeInv'
  BY <1>18 DEF Crash, Fault
<1>19. ASSUME Tick PROVE TypeInv'
  BY <1>19 DEF Tick, locals
<1>20. ASSUME UNCHANGED vars PROVE TypeInv'
  BY <1>20 DEF vars, locals
<1> QED
  BY <1>1, <1>2, <1>3, <1>4, <1>5, <1>6, <1>7, <1>8, <1>9, <1>10, <1>11, <1>12, <1>13,
     <1>14, <1>15, <1>16, <1>17, <1>18, <1>19, <1>20
     DEF Next, Advance, Begin, EvaluateWindow


(* Every variable keeps its type.                                           *)
THEOREM TypeCorrect == Spec => []TypeOK
<1>1. Init => TypeInv
  BY TypeInit
<1>2. TypeInv /\ [Next]_vars => TypeInv'
  BY TypeNext
<1>3. TypeInv => TypeOK
  BY DEF TypeInv
<1> QED
  BY <1>1, <1>2, <1>3, PTL DEF Spec


-----------------------------------------------------------------------------
(* No window is left behind.  A goroutine carries its window over from the  *)
(* cursor it read to the cursor it writes, while others move the cursor:    *)
(* what has to be invariant is that the windows before the one in hand are  *)
(* accounted for too, back to the first one, or, as long as there is no     *)
(* cursor, those between the windows of any two first checks under way.     *)

Counted == evaluated \union between

Follows(p) ==
    IF cursor = None
    THEN win[p] <= now /\ \A q \in Advancers : pc[q] # "idle" => (win[q] + 1)..(win[p] - 1) \subseteq between
    ELSE origin..(win[p] - 1) \subseteq Counted

Coverage ==
    /\ NoGap
    /\ \A p \in Advancers : pc[p] = "move" => win[p] \in evaluated
    /\ exists => \A p \in Advancers : pc[p] # "idle" => Follows(p)

\* A step that leaves the cursor and the windows in hand alone keeps Coverage.
LEMMA CoverageFrame ==
  ASSUME Coverage, evaluated \subseteq evaluated', win \in [Advancers -> Nat],
         now \in Nat, now' \in Nat, now <= now',
         UNCHANGED <<exists, cursor, origin, between>>,
         \A q \in Advancers : pc'[q] # "idle" => pc[q] # "idle" /\ win'[q] = win[q],
         \A q \in Advancers : pc'[q] = "move" => pc[q] = "move" \/ win[q] \in evaluated'
  PROVE  Coverage'
<1>1. NoGap'
  BY DEF Coverage, NoGap
<1>2. ASSUME NEW q \in Advancers, pc'[q] = "move" PROVE win'[q] \in evaluated'
  BY <1>2 DEF Coverage
<1>3. ASSUME exists', NEW q \in Advancers, pc'[q] # "idle" PROVE Follows(q)'
  <2>1. Follows(q)
    BY <1>3 DEF Coverage
  <2> QED
    BY <1>3, <2>1 DEF Follows, Counted
<1> QED
  BY <1>1, <1>2, <1>3 DEF Coverage

\* Every step keeps Coverage.
LEMMA CoverageNext == TypeInv /\ Coverage /\ [Next]_vars => Coverage'
<1> SUFFICES ASSUME TypeInv, Coverage, [Next]_vars PROVE Coverage'
  OBVIOUS
<1> USE DEF rows, history
<1>a. /\ pc \in [Advancers -> Stage] /\ win \in [Advancers -> Windows] /\ win \in [Advancers -> Nat]
      /\ now \in Windows /\ now \in Nat /\ cursor \in Nat \union {None} /\ origin \in Nat \union {None}
      /\ None = -1 /\ between \subseteq Windows /\ Windows \subseteq Nat
      /\ \A i \in Nat : i <= now => i \in Windows
  BY EngineAssumption DEF TypeInv, TypeOK, Windows, None
<1>1. ASSUME NEW p \in Advancers, BeginFirst(p) PROVE Coverage'
  <2>1. /\ pc' = [pc EXCEPT ![p] = "list"] /\ win' = [win EXCEPT ![p] = now] /\ pc[p] = "idle"
        /\ UNCHANGED <<exists, cursor, origin, evaluated, now>> /\ cursor = None
        /\ between' = between \union
              {w \in Windows : w < now /\ \E q \in Advancers : pc[q] # "idle" /\ win[q] < w}
    BY <1>1 DEF BeginFirst, Enter, Frame
  <2>2. NoGap'
    BY <2>1 DEF NoGap
  <2>3. \A q \in Advancers : pc'[q] = "move" => win'[q] \in evaluated'
    BY <1>a, <2>1 DEF Coverage
  <2>4. ASSUME exists', NEW q \in Advancers, pc'[q] # "idle" PROVE Follows(q)'
    <3>1. ASSUME NEW r \in Advancers, pc'[r] # "idle"
          PROVE  (win'[r] + 1)..(win'[q] - 1) \subseteq between'
      <4>1. CASE q = p /\ r # p
        <5>1. win'[q] = now /\ win'[r] = win[r] /\ pc[r] # "idle" /\ win[r] \in Nat
          BY <1>a, <2>1, <3>1, <4>1
        <5>2. ASSUME NEW i \in (win[r] + 1)..(now - 1) PROVE i \in between'
          <6>1. i \in Windows /\ i < now /\ win[r] < i
            BY <1>a, <5>1
          <6> QED
            BY <2>1, <5>1, <6>1
        <5> QED
          BY <5>1, <5>2
      <4>2. CASE q # p /\ r = p
        <5>1. win'[r] = now /\ win'[q] = win[q] /\ pc[q] # "idle" /\ win[q] \in Nat
          BY <1>a, <2>1, <2>4, <4>2
        <5>2. win[q] <= now
          BY <2>1, <2>4, <5>1 DEF Coverage, Follows
        <5> QED
          BY <1>a, <5>1, <5>2
      <4>3. CASE q = p /\ r = p
        BY <1>a, <2>1, <4>3
      <4>4. CASE q # p /\ r # p
        <5>1. /\ win'[q] = win[q] /\ pc[q] # "idle"
              /\ win'[r] = win[r] /\ pc[r] # "idle"
          BY <1>a, <2>1, <2>4, <3>1, <4>4
        <5> QED
          BY <2>1, <2>4, <5>1 DEF Coverage, Follows
      <4> QED
        BY <4>1, <4>2, <4>3, <4>4
    <3>2. win'[q] <= now'
      <4>1. CASE q = p
        BY <1>a, <2>1, <4>1
      <4>2. CASE q # p
        BY <1>a, <2>1, <2>4, <4>2 DEF Coverage, Follows
      <4> QED
        BY <4>1, <4>2
    <3> QED
      BY <2>1, <3>1, <3>2 DEF Follows
  <2> QED
    BY <2>2, <2>3, <2>4 DEF Coverage
<1>2. ASSUME NEW p \in Advancers, BeginNext(p) PROVE Coverage'
  <2>1. /\ pc' = [pc EXCEPT ![p] = "list"] /\ win' = [win EXCEPT ![p] = cursor + 1]
        /\ UNCHANGED <<exists, cursor, origin, evaluated, between>> /\ cursor # None
    BY <1>2, <1>a DEF BeginNext, Enter, Frame
  <2>2. NoGap'
    BY <2>1 DEF NoGap, Coverage
  <2>3. \A q \in Advancers : pc'[q] = "move" => win'[q] \in evaluated'
    BY <1>a, <2>1 DEF Coverage
  <2>4. ASSUME exists', NEW q \in Advancers, pc'[q] # "idle" PROVE Follows(q)'
    <3>1. CASE q = p
      <4>1. origin..cursor \subseteq Counted
        BY <2>1 DEF Coverage, NoGap, Counted
      <4>2. win'[q] = cursor + 1 /\ (cursor + 1) - 1 = cursor
        BY <1>a, <2>1, <3>1
      <4> QED
        BY <2>1, <4>1, <4>2 DEF Follows, Counted
    <3>2. CASE q # p
      <4>1. pc'[q] = pc[q] /\ win'[q] = win[q]
        BY <1>a, <2>1, <3>2
      <4>2. Follows(q)
        BY <2>1, <2>4, <4>1 DEF Coverage
      <4> QED
        BY <2>1, <4>1, <4>2 DEF Follows, Counted
    <3> QED
      BY <3>1, <3>2
  <2> QED
    BY <2>2, <2>3, <2>4 DEF Coverage
<1>3. ASSUME NEW p \in Advancers, ListError(p) \/ EvaluateError(p) \/ MoveCursorError(p)
      PROVE  Coverage'
  BY <1>3, <1>a, CoverageFrame DEF ListError, EvaluateError, MoveCursorError, Return, Frame
<1>4. ASSUME NEW p \in Advancers, ListNone(p) \/ EvaluateDone(p) PROVE Coverage'
  BY <1>4, <1>a, CoverageFrame DEF ListNone, EvaluateDone
<1>5. ASSUME NEW p \in Advancers, ListSome(p) \/ FetchError(p) \/ FetchScope(p) PROVE Coverage'
  BY <1>5, <1>a, CoverageFrame DEF ListSome, FetchError, FetchScope
<1>6. ASSUME NEW p \in Advancers, JudgeQuiet(p) \/ JudgeFires(p) PROVE Coverage'
  BY <1>6, <1>a, CoverageFrame DEF JudgeQuiet, JudgeFires
<1>7. ASSUME NEW p \in Advancers, Deliver(p) \/ RecordTriggerFire(p) PROVE Coverage'
  BY <1>7, <1>a, CoverageFrame DEF Deliver, RecordTriggerFire
<1>8. ASSUME NEW p \in Advancers, MoveCursor(p) PROVE Coverage'
  <2>1. /\ pc[p] = "move" /\ win[p] \in evaluated /\ win[p] \in Nat
        /\ UNCHANGED <<exists, evaluated, between>>
        /\ cursor' = (IF exists THEN win[p] ELSE cursor)
        /\ origin' = (IF exists /\ cursor = None THEN win[p] ELSE origin)
    BY <1>8, <1>a DEF MoveCursor, Coverage
  <2>2. \/ pc' = [pc EXCEPT ![p] = "list"] /\ win' = [win EXCEPT ![p] = win[p] + 1]
        \/ pc' = [pc EXCEPT ![p] = "idle"] /\ win' = [win EXCEPT ![p] = 0]
    BY <1>8 DEF MoveCursor, Enter, Return, Frame
  <2>3. \A q \in Advancers : pc'[q] = "move" => win'[q] \in evaluated'
    BY <1>a, <2>1, <2>2 DEF Coverage
  <2>4. CASE exists
    <3>0. win[p] \in Counted /\ Counted' = Counted /\ origin' \in Int
      BY <1>a, <2>1 DEF Counted
    <3>1. origin'..win[p] \subseteq Counted
      <4>1. CASE cursor = None
        BY <2>1, <2>4, <3>0, <4>1
      <4>2. CASE cursor # None
        <5>1. origin..(win[p] - 1) \subseteq Counted /\ origin' = origin
          BY <2>1, <2>4, <4>2 DEF Coverage, Follows
        <5>2. ASSUME NEW i \in origin..win[p] PROVE i \in Counted
          <6>1. i = win[p] \/ i \in origin..(win[p] - 1)
            BY <1>a, <2>1
          <6> QED
            BY <3>0, <5>1, <6>1
        <5> QED
          BY <5>1, <5>2
      <4> QED
        BY <4>1, <4>2
    <3>2. NoGap'
      BY <2>1, <2>4, <3>0, <3>1 DEF NoGap, Counted
    <3>3. ASSUME NEW q \in Advancers, pc'[q] # "idle" PROVE Follows(q)'
      <4>1. cursor' # None
        BY <1>a, <2>1, <2>4
      <4>2. CASE q = p
        <5>1. win'[q] = win[p] + 1 /\ (win[p] + 1) - 1 = win[p]
          BY <1>a, <2>1, <2>2, <3>3, <4>2
        <5> QED
          BY <3>0, <3>1, <4>1, <5>1 DEF Follows
      <4>3. CASE q # p
        <5>1. pc'[q] = pc[q] /\ win'[q] = win[q] /\ win[q] \in Nat
          BY <1>a, <2>2, <4>3
        <5>2. Follows(q)
          BY <2>4, <3>3, <5>1 DEF Coverage
        <5>3. CASE cursor = None
          <6>1. (win[p] + 1)..(win[q] - 1) \subseteq Counted /\ origin' = win[p]
            BY <2>1, <2>4, <5>2, <5>3 DEF Follows, Counted
          <6>2. ASSUME NEW i \in win[p]..(win[q] - 1) PROVE i \in Counted
            <7>1. i = win[p] \/ i \in (win[p] + 1)..(win[q] - 1)
              BY <2>1, <5>1
            <7> QED
              BY <3>0, <6>1, <7>1
          <6> QED
            BY <3>0, <4>1, <5>1, <6>1, <6>2 DEF Follows
        <5>4. CASE cursor # None
          <6>1. origin' = origin
            BY <2>1, <5>4
          <6> QED
            BY <3>0, <4>1, <5>1, <5>2, <5>4, <6>1 DEF Follows
        <5> QED
          BY <5>3, <5>4
      <4> QED
        BY <4>2, <4>3
    <3> QED
      BY <2>3, <3>2, <3>3 DEF Coverage
  <2>5. CASE ~exists
    <3>1. NoGap' /\ ~exists'
      BY <2>1, <2>5 DEF NoGap, Coverage
    <3> QED
      BY <2>3, <3>1 DEF Coverage
  <2> QED
    BY <2>4, <2>5
<1>9. ASSUME DeleteCounter PROVE Coverage'
  <2>1. cursor' = None /\ ~exists' /\ UNCHANGED <<pc, win, evaluated>>
    BY <1>9, Zenon DEF DeleteCounter, locals
  <2> QED
    BY <2>1 DEF Coverage, NoGap
<1>10. ASSUME Crash PROVE Coverage'
  BY <1>10, <1>a, CoverageFrame DEF Crash, locals
<1>11. ASSUME Tick \/ (\E r \in Rules : DeleteTrigger(r)) \/ UNCHANGED vars PROVE Coverage'
  BY <1>11, <1>a, CoverageFrame DEF Tick, DeleteTrigger, vars, locals
<1> QED
  BY <1>1, <1>2, <1>3, <1>4, <1>5, <1>6, <1>7, <1>8, <1>9, <1>10, <1>11
     DEF Next, Advance, Begin, EvaluateWindow

(* From the window it was first set to the cursor never passes one that was *)
(* not evaluated, for any number of goroutines in advance, failures, crashes *)
(* and deletions, but for those between the windows of two first checks that *)
(* run at once (poller.go:269-278, poller.go:296).                          *)
THEOREM NothingLeftBehind == Spec => []NoGap
<1>1. Init => TypeInv /\ Coverage
  BY TypeInit DEF Init, Coverage, NoGap
<1>2. TypeInv /\ Coverage /\ [Next]_vars => TypeInv' /\ Coverage'
  BY TypeNext, CoverageNext
<1>3. Coverage => NoGap
  BY DEF Coverage
<1> QED
  BY <1>1, <1>2, <1>3, PTL DEF Spec

-----------------------------------------------------------------------------
(* No rule is passed over unless another one alerted.  While a window is    *)
(* being evaluated every rule that was listed for it is still to be judged, *)
(* still to be fetched, has been judged, or lost its scope to an error that *)
(* is remembered; and whoever counts as fired has an alert to show for it.  *)

InWindow == {"evaluate", "deliver", "stamp"}

Alerted(w) == \E r \in Rules : w \in sent[r]

Listed(p) == triggers \ Malformed \subseteq listed[p]

Accounted(p, r) ==
    r \in toJudge[p] \/ ScopeOf[r] \in toFetch[p] \/ win[p] \in attended[r] \/ failed[p]

Bookkeeping ==
    /\ SkipNeedsAlert
    /\ \A p \in Advancers :
          pc[p] \in InWindow => Listed(p) /\ \A r \in listed[p] : Accounted(p, r)
    /\ \A p \in Advancers : fired[p] => Alerted(win[p])
    /\ \A p \in Advancers : pc[p] = "stamp" => Alerted(win[p])

\* Deleting rules and recording more of what was judged and sent never
\* makes a window that was accounted for unaccounted.
LEMMA SkipFrame ==
  ASSUME TypeInv, Bookkeeping, evaluated' = evaluated, triggers' \subseteq triggers,
         \A r \in Rules : attended[r] \subseteq attended'[r] /\ sent[r] \subseteq sent'[r]
  PROVE  SkipNeedsAlert'
  BY DEF Bookkeeping, SkipNeedsAlert, TypeInv, TypeOK

\* Every step keeps Bookkeeping.
LEMMA BookkeepingNext == TypeInv /\ Bookkeeping /\ [Next]_vars => Bookkeeping'
<1> SUFFICES ASSUME TypeInv, Bookkeeping, [Next]_vars PROVE Bookkeeping'
  OBVIOUS
<1> USE DEF rows, history, InWindow, Alerted, Listed, Accounted
<1>a. /\ pc \in [Advancers -> Stage] /\ win \in [Advancers -> Windows]
      /\ triggers \subseteq Rules
      /\ listed \in [Advancers -> SUBSET Rules] /\ toJudge \in [Advancers -> SUBSET Rules]
      /\ toFetch \in [Advancers -> SUBSET Scopes]
      /\ attended \in [Rules -> SUBSET Windows] /\ sent \in [Rules -> SUBSET Windows]
      /\ rule \in [Advancers -> Rules \union {None}]
  BY DEF TypeInv, TypeOK
<1>b. fired \in [Advancers -> BOOLEAN] /\ failed \in [Advancers -> BOOLEAN]
  BY DEF TypeInv, TypeOK
<1>1. ASSUME NEW p \in Advancers, BeginFirst(p) \/ BeginNext(p) PROVE Bookkeeping'
  BY <1>1, <1>a, <1>b, SkipFrame DEF BeginFirst, BeginNext, Enter, Frame, Bookkeeping
<1>2. ASSUME NEW p \in Advancers, ListError(p) \/ EvaluateError(p) \/ MoveCursorError(p)
      PROVE  Bookkeeping'
  BY <1>2, <1>a, <1>b, SkipFrame
     DEF ListError, EvaluateError, MoveCursorError, Return, Frame, Bookkeeping
<1>3. ASSUME NEW p \in Advancers, ListNone(p) PROVE Bookkeeping'
  BY <1>3, <1>a, <1>b DEF ListNone, Bookkeeping, SkipNeedsAlert
<1>4. ASSUME NEW p \in Advancers, ListSome(p) PROVE Bookkeeping'
  BY <1>4, <1>a, <1>b, SkipFrame DEF ListSome, Bookkeeping
<1>5. ASSUME NEW p \in Advancers, FetchError(p) PROVE Bookkeeping'
  BY <1>5, <1>a, <1>b, SkipFrame DEF FetchError, Bookkeeping
<1>6. ASSUME NEW p \in Advancers, FetchScope(p) PROVE Bookkeeping'
  BY <1>6, <1>a, <1>b, SkipFrame DEF FetchScope, RulesOf, Bookkeeping
<1>7. ASSUME NEW p \in Advancers, JudgeQuiet(p) \/ JudgeFires(p) PROVE Bookkeeping'
  BY <1>7, <1>a, <1>b, SkipFrame DEF JudgeQuiet, JudgeFires, Bookkeeping
<1>8. ASSUME NEW p \in Advancers, Deliver(p) PROVE Bookkeeping'
  BY <1>8, <1>a, <1>b, SkipFrame DEF Deliver, Bookkeeping, TypeInv, HasRule
<1>9. ASSUME NEW p \in Advancers, RecordTriggerFire(p) PROVE Bookkeeping'
  BY <1>9, <1>a, <1>b, SkipFrame DEF RecordTriggerFire, Bookkeeping
<1>10. ASSUME NEW p \in Advancers, EvaluateDone(p) PROVE Bookkeeping'
  BY <1>10, <1>a, <1>b DEF EvaluateDone, Bookkeeping, SkipNeedsAlert
<1>11. ASSUME NEW p \in Advancers, MoveCursor(p) PROVE Bookkeeping'
  BY <1>11, <1>a, <1>b, SkipFrame DEF MoveCursor, Enter, Return, Frame, Bookkeeping
<1>12. ASSUME DeleteCounter \/ Crash PROVE Bookkeeping'
  BY <1>12, <1>a, <1>b, SkipFrame DEF DeleteCounter, Crash, locals, Bookkeeping
<1>13. ASSUME Tick \/ (\E r \in Rules : DeleteTrigger(r)) \/ UNCHANGED vars PROVE Bookkeeping'
  BY <1>13, <1>a, <1>b, SkipFrame DEF Tick, DeleteTrigger, vars, locals, Bookkeeping
<1> QED
  BY <1>1, <1>2, <1>3, <1>4, <1>5, <1>6, <1>7, <1>8, <1>9, <1>10, <1>11, <1>12, <1>13
     DEF Next, Advance, Begin, EvaluateWindow

(* A rule is passed over in a judged window only if another one alerted in  *)
(* it (evaluator.go:86).                                                    *)
THEOREM SkipsNeedAlerts == Spec => []SkipNeedsAlert
<1>1. Init => TypeInv /\ Bookkeeping
  BY TypeInit DEF Init, Bookkeeping, SkipNeedsAlert, InWindow
<1>2. TypeInv /\ Bookkeeping /\ [Next]_vars => TypeInv' /\ Bookkeeping'
  BY TypeNext, BookkeepingNext
<1>3. Bookkeeping => SkipNeedsAlert
  BY DEF Bookkeeping
<1> QED
  BY <1>1, <1>2, <1>3, PTL DEF Spec

-----------------------------------------------------------------------------
(* A goroutine keeps its own cooldowns.  Other goroutines stamp and check   *)
(* the same row, but a stamp only ever moves forward in time, so once a     *)
(* goroutine has written its own the row is at least as recent as its last  *)
(* alert.                                                                   *)

Stamped(p, r) ==
    \/ sentAt[r][p] = None
    \/ pc[p] = "stamp" /\ rule[p] = r
    \/ sentAt[r][p] <= firedAt[r]

Cooling ==
    exists /\ ~torn =>
        /\ earlySelf = {}
        /\ \A r \in Rules : \A p \in Advancers : Stamped(p, r)
        /\ \A p \in Advancers : pc[p] = "deliver" => ~Recent(sentAt[rule[p]][p])

Past ==
    /\ \A r \in Rules : firedAt[r] <= now
    /\ \A r \in Rules : \A p \in Advancers : sentAt[r][p] <= now

\* No recorded time lies in the future after any step.
LEMMA PastNext == TypeInv /\ Past /\ [Next]_vars => Past'
<1> SUFFICES ASSUME TypeInv, Past, [Next]_vars PROVE Past'
  OBVIOUS
<1> USE DEF rows, history, Past
<1>a. /\ firedAt \in [Rules -> Int] /\ sentAt \in [Rules -> [Advancers -> Int]]
      /\ now \in Nat /\ rule \in [Advancers -> Rules \union {None}]
  BY EngineAssumption DEF TypeInv, TypeOK, Windows, None
<1>1. ASSUME NEW p \in Advancers, Deliver(p) PROVE Past'
  BY <1>1, <1>a DEF Deliver, TypeInv, HasRule
<1>2. ASSUME NEW p \in Advancers, RecordTriggerFire(p) PROVE Past'
  BY <1>2, <1>a DEF RecordTriggerFire
<1>3. ASSUME DeleteCounter PROVE Past'
  BY <1>3, <1>a DEF DeleteCounter, None
<1>4. ASSUME Tick PROVE Past'
  BY <1>4, <1>a DEF Tick
<1>5. ASSUME UNCHANGED <<firedAt, sentAt, now>> PROVE Past'
  BY <1>5
<1> QED
  BY <1>1, <1>2, <1>3, <1>4, <1>5
     DEF Next, Advance, Begin, EvaluateWindow, BeginFirst, BeginNext, ListError, ListNone,
         ListSome, FetchError, FetchScope, JudgeQuiet, JudgeFires, EvaluateError,
         EvaluateDone, MoveCursor, MoveCursorError, DeleteTrigger, Crash, vars

\* Every step keeps Cooling: what was sent and not torn is stamped.
LEMMA CoolingNext == TypeInv /\ Past /\ Cooling /\ [Next]_vars => Cooling'
<1> SUFFICES ASSUME TypeInv, Past, Cooling, [Next]_vars, (exists /\ ~torn)' PROVE Cooling'
  BY DEF Cooling
<1> USE DEF rows, history
<1>a. /\ firedAt \in [Rules -> Int] /\ sentAt \in [Rules -> [Advancers -> Int]]
      /\ now \in Nat /\ rule \in [Advancers -> Rules \union {None}]
      /\ pc \in [Advancers -> Stage]
  BY EngineAssumption DEF TypeInv, TypeOK, Windows, None
<1>b. exists /\ ~torn
  <2>1. exists
    BY Zenon DEF Next, Advance, Begin, EvaluateWindow, BeginFirst, BeginNext, ListError,
         ListNone, ListSome, FetchError, FetchScope, JudgeQuiet, JudgeFires, Deliver,
         RecordTriggerFire, EvaluateError, EvaluateDone, MoveCursor, MoveCursorError,
         DeleteTrigger, DeleteCounter, Crash, Tick, vars
  <2>2. torn' = torn \/ torn' = TRUE \/ Crash \/ \E p \in Advancers : MoveCursorError(p)
    BY Zenon DEF Next, Advance, Begin, EvaluateWindow, BeginFirst, BeginNext, ListError,
         ListNone, ListSome, FetchError, FetchScope, JudgeQuiet, JudgeFires, Deliver,
         RecordTriggerFire, EvaluateError, EvaluateDone, MoveCursor, MoveCursorError,
         DeleteTrigger, DeleteCounter, Tick, vars
  <2>3. Crash => (torn => torn')
    BY Zenon DEF Crash
  <2>4. CASE torn' = torn
    BY <2>1, <2>4, Zenon
  <2>5. CASE torn' = TRUE
    BY <2>5, Zenon
  <2>6. CASE Crash
    BY <2>1, <2>3, <2>6, Zenon
  <2>7. CASE \E p \in Advancers : MoveCursorError(p)
    BY <2>1, <2>7, Zenon DEF MoveCursorError
  <2> QED
    BY <2>2, <2>4, <2>5, <2>6, <2>7
<1>c. /\ earlySelf = {}
      /\ \A r \in Rules : \A p \in Advancers : Stamped(p, r)
      /\ \A p \in Advancers : pc[p] = "deliver" => ~Recent(sentAt[rule[p]][p])
  BY <1>b DEF Cooling
<1> USE DEF Stamped
<1>1. ASSUME NEW p \in Advancers, JudgeFires(p) PROVE Cooling'
  <2>1. PICK r \in Rules : /\ ~InCooldown(r)
                           /\ rule' = [rule EXCEPT ![p] = r]
    BY <1>1 DEF JudgeFires, IsLeast, TypeInv, TypeOK
  <2>2. ~Recent(sentAt[r][p])
    <3>1. pc[p] = "evaluate"
      BY <1>1 DEF JudgeFires
    <3>2. sentAt[r][p] = None \/ sentAt[r][p] <= firedAt[r]
      BY <1>c, <3>1
    <3>3. sentAt[r][p] \in Windows \union {None} /\ firedAt[r] \in Windows \union {None}
      BY DEF TypeInv, TypeOK
    <3> QED
      BY <1>a, <2>1, <3>2, <3>3, EngineAssumption DEF InCooldown, Recent, None, Windows
  <2> QED
    BY <1>1, <1>a, <1>c, <2>1, <2>2 DEF JudgeFires, Cooling, Recent
<1>2. ASSUME NEW p \in Advancers, Deliver(p) PROVE Cooling'
  BY <1>2, <1>a, <1>c DEF Deliver, Cooling, Recent, TypeInv, HasRule
<1>3. ASSUME NEW p \in Advancers, RecordTriggerFire(p) PROVE Cooling'
  <2>1. firedAt' = [firedAt EXCEPT ![rule[p]] = now]
    BY <1>3, Zenon DEF RecordTriggerFire
  <2>2. UNCHANGED <<sentAt, earlySelf, now>> /\ rule[p] \in Rules
    BY <1>3 DEF RecordTriggerFire, TypeInv, HasRule
  <2>3. pc' = [pc EXCEPT ![p] = "evaluate"] /\ rule' = [rule EXCEPT ![p] = None]
    BY <1>3 DEF RecordTriggerFire
  <2>4. ASSUME NEW r \in Rules, NEW q \in Advancers PROVE Stamped(q, r)'
    BY <1>a, <1>c, <2>1, <2>2, <2>3, <2>4 DEF Past
  <2>5. ASSUME NEW q \in Advancers, pc'[q] = "deliver" PROVE ~Recent(sentAt[rule[q]][q])'
    BY <1>a, <1>c, <2>2, <2>3, <2>5 DEF Recent
  <2> QED
    BY <1>c, <2>2, <2>4, <2>5 DEF Cooling
<1>4. ASSUME Tick PROVE Cooling'
  <2>1. UNCHANGED <<firedAt, sentAt, earlySelf, pc, rule>> /\ now' = now + 1
    BY <1>4 DEF Tick, locals
  <2>2. ASSUME NEW p \in Advancers, pc[p] = "deliver" PROVE ~Recent(sentAt[rule[p]][p])'
    <3>1. sentAt[rule[p]][p] \in Int
      BY <1>a, <2>2 DEF TypeInv, HasRule
    <3>2. ~Recent(sentAt[rule[p]][p])
      BY <1>c, <2>2
    <3> QED
      BY <1>a, <2>1, <3>1, <3>2, EngineAssumption DEF Recent
  <2> QED
    BY <1>c, <2>1, <2>2 DEF Cooling
<1>5. ASSUME DeleteCounter \/ Crash PROVE Cooling'
  BY <1>5, <1>a, <1>b, <1>c DEF DeleteCounter, Crash, Cooling
<1>6. ASSUME UNCHANGED <<firedAt, sentAt, earlySelf, now>>,
             \A p \in Advancers : pc'[p] = "deliver" => pc[p] = "deliver" /\ rule'[p] = rule[p],
             \A p \in Advancers : pc[p] = "stamp" => pc'[p] = "stamp" /\ rule'[p] = rule[p]
      PROVE  Cooling'
  BY <1>6, <1>a, <1>c DEF Cooling, Recent
<1>7. ASSUME NEW p \in Advancers,
             BeginFirst(p) \/ BeginNext(p) \/ ListError(p) \/ EvaluateError(p)
             \/ MoveCursor(p) \/ MoveCursorError(p)
      PROVE  Cooling'
  BY <1>6, <1>7, <1>a DEF BeginFirst, BeginNext, ListError, EvaluateError, MoveCursor,
                          MoveCursorError, Enter, Return, Frame
<1>8. ASSUME NEW p \in Advancers,
             ListNone(p) \/ ListSome(p) \/ FetchError(p) \/ FetchScope(p)
             \/ JudgeQuiet(p) \/ EvaluateDone(p)
      PROVE  Cooling'
  BY <1>6, <1>8, <1>a DEF ListNone, ListSome, FetchError, FetchScope, JudgeQuiet, EvaluateDone
<1>9. ASSUME (\E r \in Rules : DeleteTrigger(r)) \/ UNCHANGED vars PROVE Cooling'
  BY <1>6, <1>9 DEF DeleteTrigger, vars, locals
<1> QED
  BY <1>1, <1>2, <1>3, <1>4, <1>5, <1>7, <1>8, <1>9
     DEF Next, Advance, Begin, EvaluateWindow

(* No goroutine alerts for a rule twice within its cooldown                 *)
(* (evaluator.go:214-240).                                                  *)
THEOREM OwnCooldowns == Spec => []OwnCooldownHonoured
<1>1. Init => TypeInv /\ Past /\ Cooling
  BY TypeInit DEF Init, Past, Cooling, Stamped, None
<1>2. TypeInv /\ Past /\ Cooling /\ [Next]_vars => TypeInv' /\ Past' /\ Cooling'
  BY TypeNext, PastNext, CoolingNext
<1>3. Cooling => OwnCooldownHonoured
  BY DEF Cooling, OwnCooldownHonoured
<1> QED
  BY <1>1, <1>2, <1>3, PTL DEF Spec

-----------------------------------------------------------------------------
(* A counter that only its own loop advances.                               *)

Alone == \A p, q \in Advancers : p = q

SameEarly == early = earlySelf

\* With one goroutine, its own early alerts are all there are.
LEMMA EarlyNext ==
  ASSUME Alone, TypeInv, early = earlySelf, [Next]_vars
  PROVE  early' = earlySelf'
<1> USE DEF rows, history
<1>1. ASSUME NEW p \in Advancers, Deliver(p) PROVE early' = earlySelf'
  <2>1. (\E q \in Advancers : Recent(sentAt[rule[p]][q])) <=> Recent(sentAt[rule[p]][p])
    BY DEF Alone
  <2> QED
    BY <1>1, <2>1 DEF Deliver
<1>2. CASE UNCHANGED <<early, earlySelf>>
  BY <1>2
<1> QED
  BY <1>1, <1>2
     DEF Next, Advance, Begin, EvaluateWindow, BeginFirst, BeginNext, ListError, ListNone,
         ListSome, FetchError, FetchScope, JudgeQuiet, JudgeFires, RecordTriggerFire,
         EvaluateError, EvaluateDone, MoveCursor, MoveCursorError, DeleteTrigger,
         DeleteCounter, Crash, Tick, vars

(* No two alerts of a rule are closer than its cooldown as long as one      *)
(* goroutine does all the work (README.md:139).                             *)
THEOREM CooldownsAlone == ASSUME Alone PROVE Spec => []CooldownHonoured
<1>1. Init => TypeInv /\ Past /\ Cooling /\ SameEarly
  BY TypeInit DEF SameEarly, Init, Past, Cooling, Stamped, None
<1>2. TypeInv /\ Past /\ Cooling /\ SameEarly /\ [Next]_vars
      => TypeInv' /\ Past' /\ Cooling' /\ SameEarly'
  BY TypeNext, PastNext, CoolingNext, EarlyNext DEF SameEarly
<1>3. Cooling /\ SameEarly => CooldownHonoured
  BY DEF SameEarly, Cooling, CooldownHonoured
<1> QED
  BY <1>1, <1>2, <1>3, PTL DEF Spec

\* The window in hand lies ahead of the cursor.
Ahead == \A p \in Advancers : pc[p] # "idle" => cursor < win[p]

\* With one goroutine, the window at work stays ahead of the cursor.
LEMMA AheadNext ==
  ASSUME Alone, TypeInv, Ahead, [Next]_vars
  PROVE  Ahead' /\ (exists' => cursor <= cursor')
<1> USE DEF rows, history, Ahead
<1>a. /\ pc \in [Advancers -> Stage] /\ win \in [Advancers -> Nat]
      /\ cursor \in Int /\ now \in Nat
  BY EngineAssumption DEF TypeInv, TypeOK, Windows, None
<1>1. ASSUME NEW p \in Advancers, BeginFirst(p) \/ BeginNext(p)
      PROVE  Ahead' /\ cursor <= cursor'
  BY <1>1, <1>a DEF Alone, BeginFirst, BeginNext, Enter, Frame, None
<1>2. ASSUME NEW p \in Advancers, ListError(p) \/ EvaluateError(p) \/ MoveCursorError(p)
      PROVE  Ahead' /\ cursor <= cursor'
  BY <1>2, <1>a DEF ListError, EvaluateError, MoveCursorError, Return, Frame
<1>3. ASSUME NEW p \in Advancers,
             ListNone(p) \/ ListSome(p) \/ FetchError(p) \/ FetchScope(p) \/ JudgeQuiet(p)
             \/ JudgeFires(p) \/ Deliver(p) \/ RecordTriggerFire(p) \/ EvaluateDone(p)
      PROVE  Ahead' /\ cursor <= cursor'
  BY <1>3, <1>a DEF ListNone, ListSome, FetchError, FetchScope, JudgeQuiet, JudgeFires,
                    Deliver, RecordTriggerFire, EvaluateDone
<1>4. ASSUME NEW p \in Advancers, MoveCursor(p) PROVE Ahead' /\ cursor <= cursor'
  <2>1. cursor < win[p] /\ cursor' \in {cursor, win[p]}
    BY <1>4 DEF MoveCursor
  <2>2. \/ pc' = [pc EXCEPT ![p] = "list"] /\ win' = [win EXCEPT ![p] = win[p] + 1]
        \/ pc' = [pc EXCEPT ![p] = "idle"]
    BY <1>4 DEF MoveCursor, Enter, Return, Frame
  <2> QED
    BY <1>a, <2>1, <2>2 DEF Alone
<1>5. ASSUME DeleteCounter PROVE Ahead' /\ ~exists'
  BY <1>5, <1>a DEF DeleteCounter, locals, None
<1>6. ASSUME Crash PROVE Ahead' /\ cursor <= cursor'
  BY <1>6, <1>a DEF Crash
<1>7. ASSUME Tick \/ (\E r \in Rules : DeleteTrigger(r)) \/ UNCHANGED vars
      PROVE  Ahead' /\ cursor <= cursor'
  BY <1>7, <1>a DEF Tick, DeleteTrigger, vars, locals
<1> QED
  BY <1>1, <1>2, <1>3, <1>4, <1>5, <1>6, <1>7 DEF Next, Advance, Begin, EvaluateWindow

(* The cursor of a counter that one goroutine advances never goes back      *)
(* (repo.go:380).                                                           *)
THEOREM CursorForward == ASSUME Alone PROVE Spec => CursorNeverBack
<1>1. Init => TypeInv /\ Ahead
  BY TypeInit DEF Init, Ahead
<1>2. TypeInv /\ Ahead /\ [Next]_vars => TypeInv' /\ Ahead'
  BY TypeNext, AheadNext
<1>3. TypeInv /\ Ahead /\ [Next]_vars => [exists' => cursor' >= cursor]_vars
  <2> SUFFICES ASSUME TypeInv, TypeInv', Ahead, [Next]_vars, exists' PROVE cursor' >= cursor
    BY TypeNext
  <2>1. cursor \in Int /\ cursor' \in Int
    BY EngineAssumption DEF TypeInv, TypeOK, Windows, None
  <2> QED
    BY <2>1, AheadNext
<1> QED
  BY <1>1, <1>2, <1>3, PTL DEF Spec, CursorNeverBack

-----------------------------------------------------------------------------
(* One alert per window.  A rule that alerted in the window in hand is done *)
(* with it, and the window can then only end by moving the cursor; every    *)
(* other alert is at or behind the cursor, where no batch starts again.     *)

\* r may still alert for the window p has in hand.
Pending(p, r) ==
    r \in toJudge[p] \/ ScopeOf[r] \in toFetch[p] \/ (pc[p] = "deliver" /\ rule[p] = r)

Behind(p, w) == IF exists THEN w <= cursor ELSE w < win[p]

InHand(p, r) ==
    pc[p] # "list" /\ ~Pending(p, r) /\ (fired[p] \/ pc[p] = "stamp")

\* Each rule is in one place only.
Placed(p) ==
    /\ pc[p] = "list" => toJudge[p] = {}
    /\ \A r \in toJudge[p] : ScopeOf[r] \notin toFetch[p]
    /\ pc[p] \in {"deliver", "stamp"} =>
          rule[p] \notin toJudge[p] /\ ScopeOf[rule[p]] \notin toFetch[p]

Settled(p) ==
    \A r \in Rules : \A w \in sent[r] :
        IF pc[p] = "idle" THEN exists => w <= cursor
        ELSE Behind(p, w) \/ (w = win[p] /\ InHand(p, r))

Once ==
    /\ \A p \in Advancers : Placed(p)
    /\ ~torn => again = {} /\ \A p \in Advancers : Settled(p)

\* With one goroutine, every step keeps Once.
LEMMA OnceNext == ASSUME Alone, TypeInv, Ahead, Once, [Next]_vars PROVE Once'
<1> USE DEF rows, history, Once
<1>a. /\ pc \in [Advancers -> Stage] /\ win \in [Advancers -> Nat]
      /\ rule \in [Advancers -> Rules \union {None}]
      /\ toJudge \in [Advancers -> SUBSET Rules]
      /\ toFetch \in [Advancers -> SUBSET Scopes]
      /\ sent \in [Rules -> SUBSET Nat]
      /\ cursor \in Int /\ now \in Nat
  BY EngineAssumption DEF TypeInv, TypeOK, Windows, None
<1>b. fired \in [Advancers -> BOOLEAN] /\ torn \in BOOLEAN
  BY DEF TypeInv, TypeOK
<1> USE DEF Placed, Settled, Behind, InHand, Pending
<1>1. ASSUME NEW p \in Advancers, BeginFirst(p) \/ BeginNext(p) PROVE Once'
  BY <1>1, <1>a, <1>b DEF Alone, BeginFirst, BeginNext, Enter, Frame, None
<1>2. ASSUME NEW p \in Advancers, ListError(p) \/ EvaluateError(p) PROVE Once'
  BY <1>2, <1>a, <1>b DEF Alone, ListError, EvaluateError, Return, Frame
<1>3. ASSUME NEW p \in Advancers, MoveCursorError(p) PROVE Once'
  BY <1>3, <1>a, <1>b DEF Alone, MoveCursorError, Return, Frame
<1>4. ASSUME NEW p \in Advancers, ListNone(p) \/ ListSome(p) PROVE Once'
  BY <1>4, <1>a, <1>b DEF Alone, ListNone, ListSome
<1>5. ASSUME NEW p \in Advancers, FetchError(p) \/ FetchScope(p) PROVE Once'
  BY <1>5, <1>a, <1>b DEF Alone, FetchError, FetchScope, RulesOf
<1>6. ASSUME NEW p \in Advancers, JudgeQuiet(p) \/ JudgeFires(p) PROVE Once'
  BY <1>6, <1>a, <1>b DEF Alone, JudgeQuiet, JudgeFires
<1>7. ASSUME NEW p \in Advancers, Deliver(p) PROVE Once'
  BY <1>7, <1>a, <1>b DEF Alone, Deliver, Ahead, TypeInv, HasRule
<1>8. ASSUME NEW p \in Advancers, RecordTriggerFire(p) PROVE Once'
  BY <1>8, <1>a, <1>b DEF Alone, RecordTriggerFire
<1>9. ASSUME NEW p \in Advancers, EvaluateDone(p) PROVE Once'
  BY <1>9, <1>a, <1>b DEF Alone, EvaluateDone
<1>10. ASSUME NEW p \in Advancers, MoveCursor(p) PROVE Once'
  <2>1. pc[p] = "move" /\ cursor' = (IF exists THEN win[p] ELSE cursor)
    BY <1>10 DEF MoveCursor
  <2>2. UNCHANGED <<exists, torn, again, sent>>
    BY <1>10 DEF MoveCursor
  <2>3. CASE win[p] < upto[p]
    <3>1. Enter(p, win[p] + 1, upto[p])
      BY <1>10, <2>3 DEF MoveCursor
    <3> QED
      BY <1>a, <1>b, <2>1, <2>2, <3>1 DEF Alone, Enter, Frame, Ahead
  <2>4. CASE ~(win[p] < upto[p])
    <3>1. Return(p)
      BY <1>10, <2>4 DEF MoveCursor
    <3> QED
      BY <1>a, <1>b, <2>1, <2>2, <3>1 DEF Alone, Return, Frame, Ahead
  <2> QED
    BY <2>3, <2>4
<1>11. ASSUME DeleteCounter PROVE Once'
  BY <1>11, <1>a, <1>b DEF DeleteCounter, locals, Ahead
<1>12. ASSUME Crash PROVE Once'
  BY <1>12, <1>a, <1>b DEF Crash
<1>13. ASSUME Tick \/ (\E r \in Rules : DeleteTrigger(r)) \/ UNCHANGED vars PROVE Once'
  BY <1>13, <1>a, <1>b DEF Tick, DeleteTrigger, vars, locals
<1> QED
  BY <1>1, <1>2, <1>3, <1>4, <1>5, <1>6, <1>7, <1>8, <1>9, <1>10, <1>11, <1>12, <1>13
     DEF Next, Advance, Begin, EvaluateWindow

(* As long as one goroutine does all the work and no write behind an alert  *)
(* is lost, a rule alerts at most once for a window (evaluator.go:86).      *)
THEOREM OneAlertPerWindow == ASSUME Alone PROVE Spec => []AlertedOncePerWindow
<1>1. Init => TypeInv /\ Ahead /\ Once
  BY TypeInit DEF Init, Ahead, Once, Placed, Settled
<1>2. TypeInv /\ Ahead /\ Once /\ [Next]_vars => TypeInv' /\ Ahead' /\ Once'
  BY TypeNext, AheadNext, OnceNext
<1>3. Once => AlertedOncePerWindow
  BY DEF Once, AlertedOncePerWindow
<1> QED
  BY <1>1, <1>2, <1>3, PTL DEF Spec

=============================================================================
