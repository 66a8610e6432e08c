---------------------------- MODULE OutboundProofs -----------------------------
(***************************************************************************)
(* Theorems about Outbound.  First what the median and the verdict of       *)
(* Verdict compute, for any figures and any number of weeks: the median is  *)
(* the middle of the values by counting them, as the definition the         *)
(* verdicts are compared with has it.  Then the jobs: Control relates where *)
(* the job is to what it holds; each further invariant rests on it and on   *)
(* no other.  Then the verdicts: a window of an answered series adds up to  *)
(* the sum of its week, so what a rule finds is what the sums and the       *)
(* median say.  A reply's parts are those of SplitProofs.                   *)
(***************************************************************************)
EXTENDS Outbound, SplitProofs

-----------------------------------------------------------------------------
(* Counting the weeks by their figures.                                     *)

Below(h, W, v) == {w \in W : h[w] < v}
UpTo(h, W, v) == {w \in W : h[w] <= v}
From(h, W, v) == {w \in W : h[w] >= v}

\* Figures of finitely many weeks.
Figures(h, W) == IsFiniteSet(W) /\ \A w \in W : h[w] \in Nat

LEMMA Counts ==
  ASSUME NEW W, NEW h, Figures(h, W), NEW v \in Nat
  PROVE  /\ IsFiniteSet(Below(h, W, v)) /\ IsFiniteSet(UpTo(h, W, v)) /\ IsFiniteSet(From(h, W, v))
         /\ Cardinality(W) \in Nat
         /\ Cardinality(Below(h, W, v)) \in Nat
         /\ Cardinality(UpTo(h, W, v)) \in Nat
         /\ Cardinality(From(h, W, v)) \in Nat
         /\ Cardinality(From(h, W, v)) = Cardinality(W) - Cardinality(Below(h, W, v))
<1>1. Below(h, W, v) \in SUBSET W /\ UpTo(h, W, v) \in SUBSET W /\ From(h, W, v) \in SUBSET W
  BY DEF Below, UpTo, From
<1>2. IsFiniteSet(Below(h, W, v)) /\ IsFiniteSet(UpTo(h, W, v)) /\ IsFiniteSet(From(h, W, v))
  BY <1>1, FS_Subset DEF Figures
<1>3. From(h, W, v) = W \ Below(h, W, v) /\ W \cap Below(h, W, v) = Below(h, W, v)
  BY DEF Below, From, Figures
<1>4. Cardinality(From(h, W, v)) = Cardinality(W) - Cardinality(Below(h, W, v))
  BY <1>3, FS_Difference DEF Figures
<1> QED
  BY <1>2, <1>4, FS_CardinalityType DEF Figures

\* A smaller figure has no more weeks up to it than lie below the greater one.
LEMMA CountsGrow ==
  ASSUME NEW W, NEW h, Figures(h, W), NEW u \in Nat, NEW v \in Nat, u < v
  PROVE  /\ Cardinality(UpTo(h, W, u)) <= Cardinality(Below(h, W, v))
         /\ Cardinality(From(h, W, v)) <= Cardinality(W) - Cardinality(UpTo(h, W, u))
<1>1. UpTo(h, W, u) \in SUBSET Below(h, W, v)
  BY DEF UpTo, Below, Figures
<1>2. Cardinality(UpTo(h, W, u)) <= Cardinality(Below(h, W, v))
  BY <1>1, Counts, FS_Subset
<1> QED
  BY <1>2, Counts

\* The k-th figure, counted from 0, is there.
LEMMA NthExists ==
  ASSUME NEW W, NEW h, Figures(h, W), NEW k \in Nat, k < Cardinality(W)
  PROVE  \E v \in {h[w] : w \in W} :
            /\ Cardinality(Below(h, W, v)) <= k
            /\ Cardinality(UpTo(h, W, v)) > k
<1> DEFINE Vs == {h[w] : w \in W}
           Good == {v \in Vs : Cardinality(UpTo(h, W, v)) > k}
           Others == {Cardinality(W) - Cardinality(UpTo(h, W, v)) : v \in Vs}
<1>1. Vs \subseteq Nat /\ Vs # {} /\ Cardinality(W) \in Nat
  <2>1. W # {}
    BY FS_EmptySet
  <2> QED
    BY <2>1, FS_CardinalityType DEF Figures
<1>2. Good # {}
  <2>1. \A v \in Vs : Cardinality(UpTo(h, W, v)) \in Nat /\ Cardinality(UpTo(h, W, v)) <= Cardinality(W)
    <3>1. \A v \in Vs : UpTo(h, W, v) \in SUBSET W
      BY DEF UpTo
    <3> QED
      BY <1>1, <3>1, Counts, FS_Subset DEF Figures
  <2>2. Others \subseteq Nat /\ Others # {}
    BY <1>1, <2>1
  <2>3. PICK x \in Others : \A y \in Others : x <= y
    <3> HIDE DEF Others
    <3> QED
      BY <2>2, LeastNumber
  <2>4. PICK v \in Vs : x = Cardinality(W) - Cardinality(UpTo(h, W, v))
    OBVIOUS
  <2>5. UpTo(h, W, v) = W
    <3> SUFFICES ASSUME NEW w \in W, w \notin UpTo(h, W, v) PROVE FALSE
      BY DEF UpTo
    <3>1. h[w] \in Vs /\ h[w] \in Nat /\ v \in Nat /\ v < h[w]
      BY <1>1 DEF UpTo, Figures
    <3>2. UpTo(h, W, v) \in SUBSET UpTo(h, W, h[w]) /\ w \in UpTo(h, W, h[w])
      BY <3>1 DEF UpTo, Figures
    <3>3. UpTo(h, W, v) # UpTo(h, W, h[w])
      BY <3>2
    <3>4. IsFiniteSet(UpTo(h, W, h[w]))
      BY <3>1, Counts
    <3>5. /\ Cardinality(UpTo(h, W, v)) <= Cardinality(UpTo(h, W, h[w]))
          /\ Cardinality(UpTo(h, W, v)) # Cardinality(UpTo(h, W, h[w]))
      BY <3>2, <3>3, <3>4, FS_Subset
    <3>6. Cardinality(W) - Cardinality(UpTo(h, W, h[w])) \in Others
      BY <3>1
    <3>7. x <= Cardinality(W) - Cardinality(UpTo(h, W, h[w]))
      BY <2>3, <3>6
    <3>8. Cardinality(UpTo(h, W, v)) \in Nat /\ Cardinality(UpTo(h, W, h[w])) \in Nat
      BY <2>1, <3>1
    <3> QED
      BY <1>1, <2>4, <3>5, <3>7, <3>8
  <2> QED
    BY <2>5
<1>3. Good \subseteq Nat
  BY <1>1
<1>4. PICK v \in Good : \A y \in Good : v <= y
  <2> HIDE DEF Good
  <2> QED
    BY <1>2, <1>3, LeastNumber
<1>5. Cardinality(Below(h, W, v)) <= k
  <2> SUFFICES ASSUME Cardinality(Below(h, W, v)) > k PROVE FALSE
    BY <1>3, Counts
  <2> DEFINE Less == {h[w] : w \in Below(h, W, v)}
             Gaps == {v - u : u \in Less}
  <2>1. Below(h, W, v) # {}
    BY FS_EmptySet
  <2>2. \A u \in Less : u \in Nat /\ u < v /\ u \in Vs
    BY DEF Below, Figures
  <2>3. Gaps \subseteq Nat /\ Gaps # {}
    BY <1>3, <2>1, <2>2
  <2>4. PICK x \in Gaps : \A y \in Gaps : x <= y
    <3> HIDE DEF Gaps
    <3> QED
      BY <2>3, LeastNumber
  <2>5. PICK u \in Less : x = v - u
    OBVIOUS
  <2>6. UpTo(h, W, u) = Below(h, W, v)
    <3>1. \A w \in Below(h, W, v) : h[w] \in Less /\ v - h[w] \in Gaps
      OBVIOUS
    <3>2. \A w \in Below(h, W, v) : h[w] <= u
      <4> SUFFICES ASSUME NEW w \in Below(h, W, v) PROVE h[w] <= u
        OBVIOUS
      <4>1. x <= v - h[w] /\ h[w] \in Nat /\ u \in Nat /\ v \in Nat
        BY <1>3, <2>2, <2>4, <3>1
      <4> QED
        BY <2>5, <4>1
    <3>3. u < v /\ u \in Nat /\ v \in Nat
      BY <1>3, <2>2
    <3> QED
      BY <3>2, <3>3 DEF UpTo, Below, Figures
  <2>7. u \in Good
    BY <2>2, <2>6
  <2>8. v <= u
    BY <1>4, <2>7
  <2>9. u \in Nat /\ v \in Nat /\ u < v
    BY <1>3, <2>2
  <2> QED
    BY <2>8, <2>9
<1> QED
  BY <1>4, <1>5

LEMMA NthCounts ==
  ASSUME NEW W, NEW h, Figures(h, W), NEW k \in Nat, k < Cardinality(W), NEW v,
         v = Nth([w \in W |-> h[w]], k)
  PROVE  /\ v \in {h[w] : w \in W} /\ v \in Nat
         /\ Cardinality(Below(h, W, v)) <= k
         /\ Cardinality(UpTo(h, W, v)) > k
<1> DEFINE f == [w \in W |-> h[w]]
           Is(x) == /\ Cardinality(Below(h, W, x)) <= k
                    /\ Cardinality(UpTo(h, W, x)) > k
<1>1. {f[w] : w \in DOMAIN f} = {h[w] : w \in W}
  OBVIOUS
<1>2. \A x : /\ {w \in DOMAIN f : f[w] < x} = Below(h, W, x)
             /\ {w \in DOMAIN f : f[w] <= x} = UpTo(h, W, x)
  BY DEF Below, UpTo
<1>3. v = CHOOSE x \in {h[w] : w \in W} : Is(x)
  BY <1>1, <1>2 DEF Nth
<1>4. \E x \in {h[w] : w \in W} : Is(x)
  BY NthExists
<1>5. v \in {h[w] : w \in W} /\ Is(v)
  <2> HIDE DEF Is
  <2> QED
    BY <1>3, <1>4
<1> QED
  BY <1>5 DEF Figures

\* The lower of the two middle figures ...
LEMMA LowerMiddle ==
  ASSUME NEW W, NEW h, Figures(h, W), NEW k \in Nat, 2 * k < Cardinality(W), Cardinality(W) <= 2 * k + 2
  PROVE  Nth([w \in W |-> h[w]], k)
            = Min({v \in {h[w] : w \in W} : 2 * Cardinality(UpTo(h, W, v)) >= Cardinality(W)})
<1> DEFINE n == Cardinality(W)
           v == Nth([w \in W |-> h[w]], k)
           S == {u \in {h[w] : w \in W} : 2 * Cardinality(UpTo(h, W, u)) >= Cardinality(W)}
<1>1. n \in Nat /\ k < n
  BY FS_CardinalityType DEF Figures
<1>2. /\ v \in {h[w] : w \in W} /\ v \in Nat
      /\ Cardinality(Below(h, W, v)) <= k /\ Cardinality(UpTo(h, W, v)) > k
  BY <1>1, NthCounts
<1> HIDE DEF v
<1>3. v \in S
  BY <1>1, <1>2, Counts
<1>4. ASSUME NEW u \in S PROVE v <= u
  <2> SUFFICES ASSUME u < v PROVE FALSE
    BY <1>2 DEF Figures
  <2>1. u \in Nat /\ 2 * Cardinality(UpTo(h, W, u)) >= n
    BY DEF Figures
  <2>2. Cardinality(UpTo(h, W, u)) <= Cardinality(Below(h, W, v))
    BY <1>2, <2>1, CountsGrow
  <2> QED
    BY <1>1, <1>2, <2>1, <2>2, Counts
<1>5. ASSUME NEW x \in S, \A y \in S : x <= y PROVE x = v
  <2>1. x \in Nat
    BY DEF Figures
  <2>2. x <= v /\ v <= x
    BY <1>3, <1>4, <1>5
  <2> QED
    BY <1>2, <2>1, <2>2
<1>6. Min(S) = v
  <2> HIDE DEF S
  <2> QED
    BY <1>3, <1>4, <1>5 DEF Min
<1> QED
  BY <1>6 DEF v

\* ... and the upper one.
LEMMA UpperMiddle ==
  ASSUME NEW W, NEW h, Figures(h, W), NEW k \in Nat, 2 * k <= Cardinality(W), Cardinality(W) < 2 * k + 2,
         k < Cardinality(W)
  PROVE  Nth([w \in W |-> h[w]], k)
            = Max({v \in {h[w] : w \in W} : 2 * Cardinality(From(h, W, v)) >= Cardinality(W)})
<1> DEFINE n == Cardinality(W)
           v == Nth([w \in W |-> h[w]], k)
           S == {u \in {h[w] : w \in W} : 2 * Cardinality(From(h, W, u)) >= Cardinality(W)}
<1>1. n \in Nat
  BY FS_CardinalityType DEF Figures
<1>2. /\ v \in {h[w] : w \in W} /\ v \in Nat
      /\ Cardinality(Below(h, W, v)) <= k /\ Cardinality(UpTo(h, W, v)) > k
  BY <1>1, NthCounts
<1> HIDE DEF v
<1>3. v \in S
  BY <1>1, <1>2, Counts
<1>4. ASSUME NEW u \in S PROVE v >= u
  <2> SUFFICES ASSUME v < u PROVE FALSE
    BY <1>2 DEF Figures
  <2>1. u \in Nat /\ 2 * Cardinality(From(h, W, u)) >= n
    BY DEF Figures
  <2>2. Cardinality(From(h, W, u)) <= n - Cardinality(UpTo(h, W, v))
    BY <1>2, <2>1, CountsGrow
  <2>3. Cardinality(From(h, W, u)) \in Nat /\ Cardinality(UpTo(h, W, v)) \in Nat
    BY <1>2, <2>1, Counts
  <2> QED
    BY <1>1, <1>2, <2>1, <2>2, <2>3
<1>5. ASSUME NEW x \in S, \A y \in S : x >= y PROVE x = v
  <2>1. x \in Nat
    BY DEF Figures
  <2>2. x >= v /\ v >= x
    BY <1>3, <1>4, <1>5
  <2> QED
    BY <1>2, <2>1, <2>2
<1>6. Max(S) = v
  <2> HIDE DEF S
  <2> QED
    BY <1>3, <1>4, <1>5 DEF Max
<1> QED
  BY <1>6 DEF v

(* The median is the middle of the figures by counting: half of them are no *)
(* greater than the one value, half no smaller than the other (median).     *)
THEOREM MedianIsTheMiddle ==
  ASSUME NEW W, NEW h, Figures(h, W), W # {}
  PROVE  LET n == Cardinality(W)
             low == Min({v \in {h[w] : w \in W} : 2 * Cardinality(UpTo(h, W, v)) >= n})
             high == Max({v \in {h[w] : w \in W} : 2 * Cardinality(From(h, W, v)) >= n})
         IN  Median([w \in W |-> h[w]]) = low + high /\ low \in Nat /\ high \in Nat
<1> DEFINE n == Cardinality(W)
           f == [w \in W |-> h[w]]
           low == Min({v \in {h[w] : w \in W} : 2 * Cardinality(UpTo(h, W, v)) >= n})
           high == Max({v \in {h[w] : w \in W} : 2 * Cardinality(From(h, W, v)) >= n})
<1>1. n \in Nat /\ n # 0 /\ DOMAIN f = W
  BY FS_CardinalityType, FS_EmptySet DEF Figures
<1>2. CASE n % 2 = 1
  <2>1. n \div 2 \in Nat /\ n = 2 * (n \div 2) + 1
    BY <1>1, <1>2
  <2> DEFINE k == n \div 2
  <2>2. Nth(f, k) = low
    BY <1>1, <2>1, LowerMiddle
  <2>3. Nth(f, k) = high
    BY <1>1, <2>1, UpperMiddle
  <2>4. Nth(f, k) \in Nat
    BY <1>1, <2>1, NthCounts
  <2>5. Median(f) = 2 * Nth(f, k)
    BY <1>1, <1>2 DEF Median
  <2> HIDE DEF f, low, high, k
  <2> QED
    BY <2>2, <2>3, <2>4, <2>5 DEF f, low, high
<1>3. CASE n % 2 # 1
  <2>1. n \div 2 \in Nat /\ n = 2 * (n \div 2) /\ n \div 2 - 1 \in Nat
    BY <1>1, <1>3
  <2> DEFINE k == n \div 2
  <2>2. Nth(f, k - 1) = low
    BY <1>1, <2>1, LowerMiddle
  <2>3. Nth(f, k) = high
    BY <1>1, <2>1, UpperMiddle
  <2>4. Nth(f, k) \in Nat /\ Nth(f, k - 1) \in Nat
    BY <1>1, <2>1, NthCounts
  <2>5. Median(f) = Nth(f, k - 1) + Nth(f, k)
    BY <1>1, <1>3 DEF Median
  <2> HIDE DEF f, low, high, k
  <2> QED
    BY <2>2, <2>3, <2>4, <2>5 DEF f, low, high
<1> QED
  BY <1>2, <1>3

-----------------------------------------------------------------------------
(* The jobs.                                                                *)

LEMMA FirstIsIn ==
    ASSUME NEW S, S # {}, \A d \in S : d.id \in Nat
    PROVE First(S) \in S
<1> DEFINE T == {d.id : d \in S}
<1>1. T \subseteq Nat /\ T # {}
  OBVIOUS
<1>2. PICK x \in T : \A y \in T : x <= y
  BY <1>1, LeastNumber
<1>3. PICK d \in S : d.id = x
  OBVIOUS
<1>4. \A e \in S : d.id <= e.id
  BY <1>2, <1>3
<1> QED BY <1>4 DEF First

LEMMA ReportsHaveIds ==
    ASSUME NEW S, S \subseteq AllReports, S # {}
    PROVE First(S) \in S
<1>1. \A r \in AllReports : r.id \in Nat
  BY OutboundAssumption DEF AllReports, ReportRow, DefaultReport
<1> QED BY <1>1, FirstIsIn

LEMMA DestinationsHaveIds ==
    ASSUME NEW S, S \subseteq Destinations, S # {}
    PROVE First(S) \in S
<1>1. \A d \in Destinations : d.id \in Nat
  BY DeliveryAssumption DEF Destinations
<1> QED BY <1>1, FirstIsIn

-----------------------------------------------------------------------------
(* Where the job is and what it holds.                                      *)

InCall == {"current", "compare", "goals", "reaches", "urls", "series"}
Pcs == {"idle", "get", "counters", "reports", "alert", "end"} \union InRun \union InRule \union InReply

Control ==
    /\ pc \in Pcs
    /\ pc = "end" => result \in {"ok", "error"}
    /\ alert # "none" <=> pc = "alert"
    /\ call # "none" <=> pc \in InCall
    /\ todo \subseteq AllReports /\ known \subseteq Counters
    /\ report # Nil => report \in AllReports /\ pc \in InReport \union {"alert"}
    /\ pc \in InReport => report # Nil
    /\ pc = "alert" => (report # Nil <=> rule = Nil)
    /\ rule # Nil => rule \in Rules /\ pc \in InRule \union {"alert", "end"}
    /\ pc \in InRule => rule # Nil
    /\ reply.platform # "none" => pc \in InReply \union {"end"}
    /\ pc \in InReply => reply.platform \in {"telegram", "vkteams"}

LEMMA ControlInit == Init => Control
BY DEF Init, Control, DeliveryInit, Pcs, InCall, InRun, InReport, InRule, InReply, NoReply

\* A call goes on until it is answered or given up.
LEMMA DoKeepsCalling == Do => call # "none" /\ call' # "none"
BY DEF Do, Answered, Throttled, Denied, CutOff, PauseOver

\* The notice goes on until Alert returns.
LEMMA DeliverKeepsOn == Deliver => alert # "none" /\ alert' # "none"
BY DEF Deliver, ListAlertActions, ListFails, Unusable, Accepted, Refused, AnswerLost, PlainAccepted,
       PlainFails, Done, Refuse

LEMMA RunReportsControl ==
    ASSUME Control, RunReportsSteps, UNCHANGED <<clients, cancelled>>
    PROVE Control'
<1> USE DEF Control, Pcs, InCall, InRun, InReport, InRule, InReply, Goes, End, Ask, Over,
            router, client, run, others
<1>1. CASE ReadFails
  BY <1>1 DEF ReadFails
<1>2. CASE GetCounter
  BY <1>2 DEF GetCounter
<1>3. CASE pc = "counters" /\ \E cs \in SUBSET Counters : ListCounters(cs)
  BY <1>3 DEF ListCounters
<1>4. CASE pc = "reports" /\ \E rows \in SUBSET Reports :
             (target = 0 \/ \A r \in rows : r.counter = target) /\ ListReports(rows)
  <2>1. \A rows \in SUBSET Reports : ReportsToSend(rows) \subseteq AllReports
    BY DEF ReportsToSend, Enabled, Defaults, AllReports
  <2> QED BY <1>4, <2>1 DEF ListReports
<1>5. CASE Drop
  BY <1>5 DEF Drop
<1>6. CASE ReportOne
  <2>1. First(todo) \in AllReports /\ First(todo) # Nil
    BY <1>6, ReportsHaveIds, OutboundAssumption DEF ReportOne
  <2> QED BY <1>6, <2>1 DEF ReportOne
<1>7. CASE CurrentFails
  BY <1>7 DEF CurrentFails
<1>8. CASE Current
  BY <1>8 DEF Current
<1>9. CASE Compare
  BY <1>9 DEF Compare
<1>10. CASE \E some \in BOOLEAN : Goals(some)
  BY <1>10 DEF Goals, AfterGoals
<1>11. CASE Reaches
  BY <1>11 DEF Reaches, AfterGoals
<1>12. CASE URLs
  BY <1>12 DEF URLs
<1>13. CASE SaveSnapshot
  BY <1>13 DEF SaveSnapshot
<1>14. CASE Reported
  BY <1>14 DEF Reported, Fresh
<1>15. CASE RunEnds
  BY <1>15 DEF RunEnds
<1> QED BY <1>1, <1>2, <1>3, <1>4, <1>5, <1>6, <1>7, <1>8, <1>9, <1>10, <1>11, <1>12, <1>13, <1>14,
           <1>15 DEF RunReportsSteps

LEMMA ControlStep == Control /\ [Next]_vars => Control'
<1> SUFFICES ASSUME Control, [Next]_vars PROVE Control'
  OBVIOUS
<1> USE DEF Control, Pcs, InCall, InRun, InReport, InRule, InReply, Goes, End, Ask, Over,
            router, client, run, others
<1>1. CASE Do
  BY <1>1, DoKeepsCalling DEF Do
<1>2. CASE Route
  BY <1>2, DeliverKeepsOn DEF Route
<1>3. CASE RunReportsSteps /\ UNCHANGED <<clients, cancelled>>
  BY <1>3, RunReportsControl
<1>4. CASE EvaluateWindowSteps
  <2>1. CASE SeriesFails
    BY <2>1 DEF SeriesFails
  <2>2. CASE Quiet
    BY <2>2 DEF Quiet
  <2>3. CASE InCooldown
    BY <2>3 DEF InCooldown
  <2>4. CASE Fires
    BY <2>4 DEF Fires
  <2>5. CASE Alerted
    BY <2>5 DEF Alerted, Fresh
  <2>6. CASE RecordAlert
    BY <2>6 DEF RecordAlert
  <2> QED BY <1>4, <2>1, <2>2, <2>3, <2>4, <2>5, <2>6 DEF EvaluateWindowSteps
<1>5. CASE ReplySteps
  <2>1. CASE BeginSending
    BY <2>1 DEF BeginSending
  <2>2. CASE PartSent
    BY <2>2 DEF PartSent
  <2>3. CASE PartFails
    BY <2>3 DEF PartFails
  <2> QED BY <1>5, <2>1, <2>2, <2>3 DEF ReplySteps
<1>6. CASE Rest
  BY <1>6 DEF Rest, NoReply
<1>7. CASE Judgement
  BY <1>7 DEF Judgement, EvaluateTrigger
<1>8. CASE Start
  <2>1. CASE \E c \in Counters \union {0} : RunReports(c)
    BY <1>8, <2>1 DEF Start, RunReports
  <2>2. CASE \E r \in Rules : EvaluateWindow(r)
    BY <1>8, <2>2, OutboundAssumption DEF Start, EvaluateWindow
  <2>3. CASE \E r \in Replies : Reply(r)
    BY <1>8, <2>3, OutboundAssumption DEF Start, Reply
  <2> QED BY <1>8, <2>1, <2>2, <2>3 DEF Start
<1>9. CASE Cancel
  BY <1>9 DEF Cancel
<1>10. CASE UNCHANGED vars
  BY <1>10 DEF vars
<1> QED BY <1>1, <1>2, <1>3, <1>4, <1>5, <1>6, <1>7, <1>8, <1>9, <1>10 DEF Next, Service, Steps

LEMMA ControlHolds == Spec => []Control
BY ControlInit, ControlStep, PTL DEF Spec

-----------------------------------------------------------------------------
(* Calls.                                                                   *)

Calls ==
    /\ call \in {"none", "asking", "pausing", "ok", "failed"} /\ tries \in 0..MaxAttempts
    /\ last \in {"none", "ok", "transient", "permanent"}
    /\ call = "pausing" => tries < MaxAttempts
    /\ GivesUpRightly

\* What a step that is not the call's own does to it.
Between ==
    \/ UNCHANGED client /\ (cancelled => cancelled' \/ call = "none")
    \/ Over
    \/ call' = "asking" /\ tries' = 1 /\ last' = "none"

LEMMA StepsBetween == Control /\ [Next]_vars => Do \/ Between
<1> SUFFICES ASSUME Control, [Next]_vars, ~Do PROVE Between
  OBVIOUS
<1> USE DEF Between, client, Ask, Over
<1>1. CASE Route \/ Cancel
  BY <1>1 DEF Route, Cancel
<1>2. CASE RunReportsSteps /\ UNCHANGED <<clients, cancelled>>
  <2>1. CASE \/ ReadFails \/ GetCounter \/ Drop \/ SaveSnapshot \/ Reported \/ RunEnds
             \/ \E cs \in SUBSET Counters : ListCounters(cs)
             \/ \E rows \in SUBSET Reports : ListReports(rows)
    BY <1>2, <2>1 DEF ReadFails, GetCounter, Drop, SaveSnapshot, Reported, RunEnds, ListCounters,
                      ListReports
  <2>2. CASE ReportOne \/ CurrentFails \/ Current
    BY <1>2, <2>2 DEF ReportOne, CurrentFails, Current
  <2>3. CASE Compare
    BY <1>2, <2>3 DEF Compare
  <2>4. CASE Reaches \/ URLs \/ \E some \in BOOLEAN : Goals(some)
    BY <1>2, <2>4 DEF Goals, Reaches, URLs, AfterGoals
  <2> QED BY <1>2, <2>1, <2>2, <2>3, <2>4 DEF RunReportsSteps
<1>3. CASE EvaluateWindowSteps /\ UNCHANGED <<clients, cancelled>>
  BY <1>3 DEF EvaluateWindowSteps, SeriesFails, Quiet, InCooldown, Fires, Alerted, RecordAlert
<1>4. CASE ReplySteps /\ UNCHANGED <<clients, cancelled>>
  BY <1>4 DEF ReplySteps, BeginSending, PartSent, PartFails
<1>5. CASE Rest
  BY <1>5 DEF Rest, Control, InCall
<1>6. CASE Judgement \/ Start
  BY <1>6 DEF Judgement, EvaluateTrigger, Start, RunReports, EvaluateWindow, Reply
<1>7. CASE UNCHANGED vars
  BY <1>7 DEF vars
<1> QED BY <1>1, <1>2, <1>3, <1>4, <1>5, <1>6, <1>7 DEF Next, Service, Steps

LEMMA CallsHold == Spec => []Calls
<1>1. Init => Calls
  BY OutboundAssumption DEF Init, Calls, GivesUpRightly
<1>2. Control /\ Calls /\ [Next]_vars => Calls'
  <2> SUFFICES ASSUME Control, Calls, [Next]_vars PROVE Calls'
    OBVIOUS
  <2> USE OutboundAssumption DEF Calls, GivesUpRightly
  <2>1. CASE Answered /\ UNCHANGED cancelled
    BY <2>1 DEF Answered
  <2>2. CASE Throttled /\ UNCHANGED cancelled
    BY <2>2 DEF Throttled
  <2>3. CASE Denied /\ UNCHANGED cancelled
    BY <2>3 DEF Denied
  <2>4. CASE CutOff /\ UNCHANGED cancelled
    BY <2>4 DEF CutOff
  <2>5. CASE PauseOver /\ UNCHANGED cancelled
    BY <2>5 DEF PauseOver
  <2>6. CASE Between
    BY <2>6 DEF Between, client, Over
  <2> QED BY <2>1, <2>2, <2>3, <2>4, <2>5, <2>6, StepsBetween DEF Do
<1> QED BY <1>1, <1>2, ControlHolds, PTL DEF Spec

\* A call of Metrika is given up for a refusal that stands, after the last attempt
\* or because its caller went away, and never asked again after an answer.
THEOREM CallsGiveUpRightly == Spec => []GivesUpRightly
<1>1. Calls => GivesUpRightly
  BY DEF Calls
<1> QED BY <1>1, CallsHold, PTL

-----------------------------------------------------------------------------
(* Notices.                                                                 *)

Nothing ==
    /\ listed = {} /\ left = {} /\ delivered = {} /\ refused = {} /\ unsure = {}
    /\ copies = [d \in Destinations |-> 0]

\* How the destinations of a notice stand: those not tried yet have nothing of it,
\* except the one whose plain text is on its way.
Tried ==
    /\ \A d \in listed \ left : copies[d] > 0 \/ d \in refused \/ ~Usable(d) \/ cancelled
    /\ \A d \in delivered : copies[d] > 0
    /\ \A d \in listed \ (left \union delivered) : copies[d] = 0 \/ d \in unsure
    /\ \A d \in left : copies[d] = 0 \/ (alert = "plain" /\ d = First(left) /\ copies[d] = 1 /\ d \in unsure)
    /\ \A d \in Destinations : copies[d] > 0 => d \in listed
    /\ \A d \in Destinations : copies[d] > 1 => d.type = "telegram" /\ d \in unsure

Notices ==
    /\ alert \in {"none", "list", "send", "plain", "reached", "missed", "dropped"}
    /\ listed \subseteq Destinations /\ left \subseteq listed /\ delivered \subseteq listed \ left
    /\ refused \subseteq listed /\ unsure \subseteq listed
    /\ copies \in [Destinations -> 0..2]
    /\ alert \in {"none", "list"} => Nothing
    /\ alert \in {"send", "plain"} => left # {}
    /\ alert = "plain" => First(left).type = "telegram"
    /\ alert \in {"reached", "missed", "dropped"} => left = {}
    /\ alert = "reached" => delivered # {}
    /\ alert = "missed" => delivered = {}
    /\ alert = "dropped" => Nothing /\ Admins = {}
    /\ Tried

\* What a step that is not the router's does to a notice.
Apart ==
    \/ UNCHANGED <<router, clients>> /\ (cancelled => cancelled' \/ alert = "none")
    \/ alert = "none" /\ alert' = "list"
       /\ UNCHANGED <<clients, listed, left, delivered, copies, refused, unsure>>
    \/ alert' = "none" /\ Fresh

LEMMA StepsApart == Control /\ [Next]_vars => Route \/ Apart
<1> SUFFICES ASSUME Control, [Next]_vars, ~Route PROVE Apart
  OBVIOUS
<1> USE DEF Apart, router
<1>1. CASE Do \/ Cancel
  BY <1>1 DEF Do, Cancel
<1>2. CASE RunReportsSteps /\ UNCHANGED <<clients, cancelled>>
  <2>1. CASE \/ ReadFails \/ GetCounter \/ Drop \/ RunEnds
             \/ \E cs \in SUBSET Counters : ListCounters(cs)
             \/ \E rows \in SUBSET Reports : ListReports(rows)
    BY <1>2, <2>1 DEF ReadFails, GetCounter, Drop, RunEnds, ListCounters, ListReports
  <2>2. CASE ReportOne \/ CurrentFails \/ Current \/ Compare
    BY <1>2, <2>2 DEF ReportOne, CurrentFails, Current, Compare
  <2>3. CASE Reaches \/ URLs \/ \E some \in BOOLEAN : Goals(some)
    BY <1>2, <2>3 DEF Goals, Reaches, URLs
  <2>4. CASE SaveSnapshot
    BY <1>2, <2>4 DEF SaveSnapshot, Control
  <2>5. CASE Reported
    BY <1>2, <2>5 DEF Reported
  <2> QED BY <1>2, <2>1, <2>2, <2>3, <2>4, <2>5 DEF RunReportsSteps
<1>3. CASE EvaluateWindowSteps /\ UNCHANGED <<clients, cancelled>>
  <2>1. CASE SeriesFails \/ Quiet \/ InCooldown \/ RecordAlert
    BY <1>3, <2>1 DEF SeriesFails, Quiet, InCooldown, RecordAlert
  <2>2. CASE Fires
    BY <1>3, <2>2 DEF Fires, Control
  <2>3. CASE Alerted
    BY <1>3, <2>3 DEF Alerted
  <2> QED BY <1>3, <2>1, <2>2, <2>3 DEF EvaluateWindowSteps
<1>4. CASE ReplySteps /\ UNCHANGED <<clients, cancelled>>
  BY <1>4 DEF ReplySteps, BeginSending, PartSent, PartFails
<1>5. CASE Rest
  BY <1>5 DEF Rest, Control
<1>6. CASE Judgement \/ Start
  BY <1>6 DEF Judgement, EvaluateTrigger, Start, RunReports, EvaluateWindow, Reply
<1>7. CASE UNCHANGED vars
  BY <1>7 DEF vars
<1> QED BY <1>1, <1>2, <1>3, <1>4, <1>5, <1>6, <1>7 DEF Next, Service, Steps

LEMMA NoticesInit == Init => Notices
BY DEF Init, DeliveryInit, Notices, Nothing, Tried

LEMMA NoticesApart == Notices /\ Apart => Notices'
<1> SUFFICES ASSUME Notices, Apart PROVE Notices'
  OBVIOUS
<1>1. CASE UNCHANGED <<router, clients>> /\ (cancelled => cancelled' \/ alert = "none")
  BY <1>1 DEF Notices, Nothing, Tried, router, Usable, Admins
<1>2. CASE alert = "none" /\ alert' = "list"
           /\ UNCHANGED <<clients, listed, left, delivered, copies, refused, unsure>>
  BY <1>2 DEF Notices, Nothing, Tried
<1>3. CASE alert' = "none" /\ Fresh
  BY <1>3 DEF Notices, Nothing, Tried, Fresh
<1> QED BY <1>1, <1>2, <1>3 DEF Apart

LEMMA NoticesRouted == Notices /\ Deliver /\ UNCHANGED <<clients, cancelled>> => Notices'
<1> SUFFICES ASSUME Notices, Deliver, UNCHANGED <<clients, cancelled>> PROVE Notices'
  OBVIOUS
<1> DEFINE d == First(left)
<1>0. left # {} => d \in left /\ d \in listed /\ d \in Destinations
  BY DestinationsHaveIds DEF Notices
<1>u. Admins' = Admins /\ \A e : Usable(e)' = Usable(e)
  BY DEF Admins, Usable
<1>1. CASE alert = "list" /\ \E rows \in SUBSET Rows : ListAlertActions(rows)
  BY <1>1, <1>u DEF ListAlertActions, Notices, Nothing, Tried, Admins, Destinations
<1>2. CASE ListFails
  BY <1>2, <1>u DEF ListFails, Notices, Nothing, Tried
<1>3. CASE Unusable
  BY <1>0, <1>u, <1>3 DEF Unusable, Done, Sends, Notices, Nothing, Tried
<1>4. CASE Accepted
  BY <1>0, <1>u, <1>4 DEF Accepted, Done, Arrives, Notices, Nothing, Tried
<1>5. CASE Refused
  BY <1>0, <1>u, <1>5 DEF Refused, Refuse, Done, Notices, Nothing, Tried
<1>6. CASE AnswerLost
  BY <1>0, <1>u, <1>6 DEF AnswerLost, Refuse, Done, Arrives, Notices, Nothing, Tried
<1>7. CASE PlainAccepted
  BY <1>0, <1>u, <1>7 DEF PlainAccepted, Done, Arrives, Notices, Nothing, Tried
<1>8. CASE PlainFails
  BY <1>0, <1>u, <1>8 DEF PlainFails, Done, Arrives, Notices, Nothing, Tried
<1> QED BY <1>1, <1>2, <1>3, <1>4, <1>5, <1>6, <1>7, <1>8 DEF Deliver

LEMMA NoticesHold == Spec => []Notices
<1>1. Control /\ Notices /\ [Next]_vars => Notices'
  <2> SUFFICES ASSUME Control, Notices, [Next]_vars PROVE Notices'
    OBVIOUS
  <2>1. CASE Route
    BY <2>1, NoticesRouted DEF Route
  <2>2. CASE Apart
    BY <2>2, NoticesApart
  <2> QED BY <2>1, <2>2, StepsApart
<1> QED BY <1>1, NoticesInit, ControlHolds, PTL DEF Spec

\* Once Alert has returned, every destination has the notice or could not be given
\* it, and what Alert returns is true of them.
THEOREM EveryDestinationIsTried == Spec => []EveryoneTried
<1>1. Notices => EveryoneTried
  BY DEF Notices, Nothing, Tried, EveryoneTried
<1> QED BY <1>1, NoticesHold, PTL

\* Only a lost answer from Telegram has a destination get a notice twice.
THEOREM CopiesAreNeeded == Spec => []NoNeedlessCopies
<1>1. Notices => NoNeedlessCopies
  BY DEF Notices, Tried, NoNeedlessCopies
<1> QED BY <1>1, NoticesHold, PTL

-----------------------------------------------------------------------------
(* Runs of the reports.                                                     *)

Open == IF report = Nil THEN todo ELSE todo \union {report}

\* The run has read its reports.
Taken == pc \in {"next", "alert"} \union InReport \/ (pc = "end" /\ (result = "ok" \/ outcome # << >>))

\* A run loses none of the reports it has read and settles none twice.
Runs ==
    /\ outcome \in [DOMAIN outcome -> Outcomes]
    /\ DOMAIN outcome \subseteq AllReports \ (todo \union {report})
    /\ pc \in {"idle", "get", "counters", "reports"} \/ ~IsRun => todo = {} /\ outcome = << >>
    /\ pc = "idle" => IsRun
    /\ pc = "end" => todo = {}
    /\ report # Nil => report \notin todo /\ report.counter \in known
    /\ IsRun /\ Taken => Open \union DOMAIN outcome = ReportsToSend(configured)
    /\ \A r \in DOMAIN outcome : outcome[r] = "skipped" <=> r.counter \notin known

LEMMA RunsInit == Init => Runs
BY DEF Init, Runs, IsRun, Open, Taken, NoReply, InReport

LEMMA SettledOnce ==
    ASSUME NEW r, NEW how \in Outcomes, Settled(r, how), outcome \in [DOMAIN outcome -> Outcomes],
           r \notin DOMAIN outcome
    PROVE /\ DOMAIN outcome' = DOMAIN outcome \union {r}
          /\ outcome' \in [DOMAIN outcome' -> Outcomes]
          /\ outcome'[r] = how
          /\ \A q \in DOMAIN outcome : outcome'[q] = outcome[q]
BY DEF Settled

LEMMA RunsReported ==
    ASSUME Control, Runs, RunReportsSteps, UNCHANGED <<clients, cancelled>>
    PROVE Runs'
<1> USE DEF Runs, Control, IsRun, Open, Taken, InCall, InRun, InReport, InRule, InReply, Goes, End,
            run, others
<1>t. \A rows : ReportsToSend(rows)' = IF Enabled(rows) # {} THEN Enabled(rows) ELSE Defaults'
  BY DEF ReportsToSend, Enabled, Defaults
<1>1. CASE ReadFails
  BY <1>1 DEF ReadFails
<1>2. CASE GetCounter
  BY <1>2 DEF GetCounter
<1>3. CASE pc = "counters" /\ \E cs \in SUBSET Counters : ListCounters(cs)
  BY <1>3 DEF ListCounters
<1>4. CASE pc = "reports" /\ \E rows \in SUBSET Reports :
             (target = 0 \/ \A r \in rows : r.counter = target) /\ ListReports(rows)
  BY <1>4 DEF ListReports, ReportsToSend, Enabled, Defaults
<1>f. UNCHANGED <<target, known, configured>> => UNCHANGED ReportsToSend(configured)
  BY DEF ReportsToSend, Enabled, Defaults
<1>5. CASE Drop
  <2> DEFINE r == First(todo)
             how == IF r.counter \notin known THEN "skipped" ELSE "failed"
  <2>1. r \in todo
    BY <1>5, ReportsHaveIds DEF Drop
  <2>2. how \in Outcomes /\ Settled(r, how) /\ r \notin DOMAIN outcome
    BY <1>5, <2>1 DEF Drop, Outcomes
  <2> HIDE DEF how
  <2>3. /\ DOMAIN outcome' = DOMAIN outcome \union {r}
        /\ outcome' \in [DOMAIN outcome' -> Outcomes]
        /\ outcome'[r] = how
        /\ \A q \in DOMAIN outcome : outcome'[q] = outcome[q]
    BY <2>2, SettledOnce
  <2>4. how = "skipped" <=> r.counter \notin known
    BY DEF how
  <2>5. /\ pc = "next" /\ report = Nil /\ todo' = todo \ {r}
        /\ UNCHANGED <<pc, result, report, target, known, configured, rule, reply>>
    BY <1>5 DEF Drop
  <2> HIDE DEF r
  <2>6. DOMAIN outcome' \subseteq AllReports \ (todo' \union {report'})
    BY <2>1, <2>3, <2>5, OutboundAssumption
  <2>7. IsRun' /\ Taken' => Open' \union DOMAIN outcome' = ReportsToSend(configured)'
    BY <1>f, <2>1, <2>3, <2>5
  <2>8. \A q \in DOMAIN outcome' : outcome'[q] = "skipped" <=> q.counter \notin known'
    BY <2>3, <2>4, <2>5
  <2> QED BY <2>3, <2>5, <2>6, <2>7, <2>8
<1>6. CASE ReportOne
  <2>1. First(todo) \in todo /\ First(todo) # Nil
    BY <1>6, ReportsHaveIds, OutboundAssumption DEF ReportOne
  <2> QED BY <1>6, <1>f, <2>1 DEF ReportOne, Ask
<1>7. CASE CurrentFails
  <2>1. report \in AllReports /\ report # Nil
    BY <1>7 DEF CurrentFails
  <2>2. /\ DOMAIN outcome' = DOMAIN outcome \union {report}
        /\ outcome' \in [DOMAIN outcome' -> Outcomes]
        /\ outcome'[report] = "failed"
        /\ \A q \in DOMAIN outcome : outcome'[q] = outcome[q]
    BY <1>7, SettledOnce DEF CurrentFails, Outcomes
  <2> QED BY <1>7, <1>f, <2>1, <2>2, OutboundAssumption DEF CurrentFails
<1>8. CASE Current \/ Compare
  BY <1>8, <1>f DEF Current, Compare, Ask
<1>9. CASE Reaches \/ URLs \/ \E some \in BOOLEAN : Goals(some)
  BY <1>9, <1>f DEF Goals, Reaches, URLs, AfterGoals, Ask
<1>10. CASE SaveSnapshot
  BY <1>10, <1>f DEF SaveSnapshot
<1>11. CASE Reported
  <2> DEFINE how == IF alert = "missed" THEN "failed" ELSE "sent"
  <2>1. report \in AllReports /\ how \in Outcomes /\ how # "skipped"
    BY <1>11 DEF Reported, Outcomes
  <2>2. Settled(report, how)
    BY <1>11 DEF Reported
  <2> HIDE DEF how
  <2>3. /\ DOMAIN outcome' = DOMAIN outcome \union {report}
        /\ outcome' \in [DOMAIN outcome' -> Outcomes]
        /\ outcome'[report] = how
        /\ \A q \in DOMAIN outcome : outcome'[q] = outcome[q]
    BY <2>1, <2>2, SettledOnce
  <2> QED BY <1>11, <1>f, <2>1, <2>3, OutboundAssumption DEF Reported
<1>12. CASE RunEnds
  BY <1>12, <1>f DEF RunEnds
<1> QED BY <1>1, <1>2, <1>3, <1>4, <1>5, <1>6, <1>7, <1>8, <1>9, <1>10, <1>11, <1>12 DEF RunReportsSteps

LEMMA RunsStep == Control /\ Runs /\ [Next]_vars => Runs'
<1> SUFFICES ASSUME Control, Runs, [Next]_vars PROVE Runs'
  OBVIOUS
<1> USE DEF Runs, Control, IsRun, Open, Taken, InCall, InRun, InReport, InRule, InReply, Goes, End,
            run, others
<1>f. UNCHANGED <<target, known, configured>> => UNCHANGED ReportsToSend(configured)
  BY DEF ReportsToSend, Enabled, Defaults
<1>1. CASE Do \/ Route \/ Cancel
  BY <1>1, <1>f DEF Do, Route, Cancel
<1>2. CASE RunReportsSteps /\ UNCHANGED <<clients, cancelled>>
  BY <1>2, RunsReported
<1>3. CASE EvaluateWindowSteps
  BY <1>3 DEF EvaluateWindowSteps, SeriesFails, Quiet, InCooldown, Fires, Alerted, RecordAlert
<1>4. CASE ReplySteps
  BY <1>4 DEF ReplySteps, BeginSending, PartSent, PartFails
<1>5. CASE Rest
  BY <1>5 DEF Rest, NoReply
<1>6. CASE Judgement
  BY <1>6 DEF Judgement, EvaluateTrigger
<1>7. CASE Start
  <2>1. CASE \E c \in Counters \union {0} : RunReports(c)
    BY <1>7, <2>1 DEF Start, RunReports
  <2>2. CASE \E r \in Rules : EvaluateWindow(r)
    BY <1>7, <2>2, OutboundAssumption DEF Start, EvaluateWindow, Ask
  <2>3. CASE \E r \in Replies : Reply(r)
    BY <1>7, <2>3, OutboundAssumption DEF Start, Reply
  <2> QED BY <1>7, <2>1, <2>2, <2>3 DEF Start
<1>8. CASE UNCHANGED vars
  BY <1>8, <1>f DEF vars
<1> QED BY <1>1, <1>2, <1>3, <1>4, <1>5, <1>6, <1>7, <1>8 DEF Next, Service, Steps

LEMMA RunsHold == Spec => []Runs
BY RunsInit, RunsStep, ControlHolds, PTL DEF Spec

\* At the end of a run every report it should send is settled, and no other.
THEOREM NoneForgotten == Spec => []NoReportForgotten
<1>1. Control /\ Runs => NoReportForgotten
  <2> SUFFICES ASSUME Control, Runs, pc = "end", IsRun, result = "ok" \/ outcome # << >>
               PROVE /\ DOMAIN outcome =
                           IF \E r \in configured : r.enabled THEN {r \in configured : r.enabled}
                           ELSE {DefaultReport(c) : c \in {k \in known : target \in {0, k}}}
                     /\ \A r \in DOMAIN outcome : outcome[r] = "skipped" <=> r.counter \notin known
    BY DEF NoReportForgotten
  <2>1. Open = {}
    BY DEF Open, Control, Runs, InReport, InRun
  <2>2. DOMAIN outcome = ReportsToSend(configured)
    BY <2>1 DEF Runs, Taken
  <2>3. Defaults = {DefaultReport(c) : c \in {k \in known : target \in {0, k}}}
    BY DEF Defaults
  <2> QED BY <2>2, <2>3 DEF ReportsToSend, Enabled, Runs
<1> QED BY <1>1, ControlHolds, RunsHold, PTL

-----------------------------------------------------------------------------
(* A run of the reports keeps what ReportRun promises.                      *)

Phase ==
    IF ~IsRun \/ pc \in {"idle", "get", "counters", "reports"} THEN "idle"
    ELSE IF pc = "end" THEN result ELSE "running"

RunNext == [Run!Next]_<<Phase, Open, outcome>>

LEMMA ReportedImplements ==
    ASSUME Control, Runs, RunReportsSteps, UNCHANGED <<clients, cancelled>>
    PROVE RunNext
<1> USE DEF Control, Runs, IsRun, Open, Phase, InCall, InRun, InReport, InRule, InReply, Goes, End,
            run, others, RunNext
<1>1. CASE ReadFails
  BY <1>1 DEF ReadFails, Run!Next, Run!Refuse
<1>2. CASE GetCounter
  BY <1>2 DEF GetCounter
<1>3. CASE pc = "counters" /\ \E cs \in SUBSET Counters : ListCounters(cs)
  BY <1>3 DEF ListCounters, Run!Next, Run!Refuse
<1>4. CASE pc = "reports" /\ \E rows \in SUBSET Reports :
             (target = 0 \/ \A r \in rows : r.counter = target) /\ ListReports(rows)
  <2>1. \A rows \in SUBSET Reports : ReportsToSend(rows) \subseteq AllReports
    BY DEF ReportsToSend, Enabled, Defaults, AllReports
  <2> QED BY <1>4, <2>1 DEF ListReports, Run!Next, Run!Begin
<1>5. CASE Drop
  <2> DEFINE r == First(todo)
             how == IF r.counter \notin known THEN "skipped" ELSE "failed"
  <2>1. r \in todo /\ r \in AllReports /\ how \in Outcomes
    BY <1>5, ReportsHaveIds DEF Drop, Outcomes
  <2>2. Run!Settle(r, how)
    BY <1>5, <2>1 DEF Drop, Settled, Run!Settle
  <2> QED BY <2>1, <2>2 DEF Run!Next, Outcomes
<1>6. CASE ReportOne
  <2>1. First(todo) \in todo /\ First(todo) # Nil
    BY <1>6, ReportsHaveIds, OutboundAssumption DEF ReportOne
  <2> QED BY <1>6, <2>1 DEF ReportOne, Ask
<1>7. CASE CurrentFails
  <2>1. Run!Settle(report, "failed")
    BY <1>7 DEF CurrentFails, Settled, Run!Settle
  <2> QED BY <1>7, <2>1 DEF CurrentFails, Run!Next
<1>8. CASE Current \/ Compare
  BY <1>8 DEF Current, Compare, Ask
<1>9. CASE Reaches \/ URLs \/ \E some \in BOOLEAN : Goals(some)
  BY <1>9 DEF Goals, Reaches, URLs, AfterGoals, Ask
<1>10. CASE SaveSnapshot
  BY <1>10 DEF SaveSnapshot
<1>11. CASE Reported
  <2> DEFINE how == IF alert = "missed" THEN "failed" ELSE "sent"
  <2>1. Run!Settle(report, how) /\ how \in Outcomes
    BY <1>11 DEF Reported, Settled, Run!Settle, Outcomes
  <2> QED BY <1>11, <2>1 DEF Reported, Run!Next, Outcomes
<1>12. CASE RunEnds
  BY <1>12 DEF RunEnds, Run!Next, Run!Return
<1> QED BY <1>1, <1>2, <1>3, <1>4, <1>5, <1>6, <1>7, <1>8, <1>9, <1>10, <1>11, <1>12 DEF RunReportsSteps

LEMMA StepsImplement == Control /\ Runs /\ [Next]_vars => RunNext
<1> SUFFICES ASSUME Control, Runs, [Next]_vars PROVE RunNext
  OBVIOUS
<1> USE DEF Control, Runs, IsRun, Open, Phase, InCall, InRun, InReport, InRule, InReply, Goes, End,
            run, others, RunNext
<1>1. CASE Do \/ Route \/ Cancel
  BY <1>1 DEF Do, Route, Cancel
<1>2. CASE RunReportsSteps /\ UNCHANGED <<clients, cancelled>>
  BY <1>2, ReportedImplements
<1>3. CASE EvaluateWindowSteps
  BY <1>3 DEF EvaluateWindowSteps, SeriesFails, Quiet, InCooldown, Fires, Alerted, RecordAlert
<1>4. CASE ReplySteps
  <2>1. CASE BeginSending
    BY <2>1 DEF BeginSending
  <2>2. CASE PartSent
    BY <2>2 DEF PartSent
  <2>3. CASE PartFails
    BY <2>3 DEF PartFails
  <2> QED BY <1>4, <2>1, <2>2, <2>3 DEF ReplySteps
<1>5. CASE Rest
  BY <1>5 DEF Rest, NoReply, Run!Next, Run!Forget
<1>6. CASE Judgement
  BY <1>6 DEF Judgement, EvaluateTrigger
<1>7. CASE Start
  <2>1. CASE \E c \in Counters \union {0} : RunReports(c)
    BY <1>7, <2>1 DEF Start, RunReports
  <2>2. CASE \E r \in Rules : EvaluateWindow(r)
    BY <1>7, <2>2, OutboundAssumption DEF Start, EvaluateWindow, Ask
  <2>3. CASE \E r \in Replies : Reply(r)
    BY <1>7, <2>3, OutboundAssumption DEF Start, Reply
  <2> QED BY <1>7, <2>1, <2>2, <2>3 DEF Start
<1>8. CASE UNCHANGED vars
  BY <1>8 DEF vars
<1> QED BY <1>1, <1>2, <1>3, <1>4, <1>5, <1>6, <1>7, <1>8 DEF Next, Service, Steps

\* Whatever the database, Metrika and the destinations answer, a run of the reports
\* settles them one by one and returns an error exactly if it has to.
THEOREM RunsAreKept == Spec => Implements
<1>1. Init => Run!Init
  BY DEF Init, NoReply, IsRun, Run!Init
<1>2. Control /\ Runs /\ [Next]_vars => [Run!Next]_(Run!vars)
  BY StepsImplement DEF RunNext, Phase, Open, Run!vars
<1> QED BY <1>1, <1>2, ControlHolds, RunsHold, PTL DEF Spec, Implements, Run!Spec

-----------------------------------------------------------------------------
(* Types.                                                                   *)

Types ==
    /\ clients \subseteq {"telegram", "vkteams"}
    /\ cancelled \in BOOLEAN /\ nth \in Nat
    /\ result \in {"none", "ok", "error"}
    /\ target \in Counters \union {0} /\ configured \subseteq Reports
    /\ verdict \in {"none", "fires", "quiet", "error"}

LEMMA TypesInit == Init => Types
<1> SUFFICES ASSUME Init PROVE Types
  OBVIOUS
<1>1. cancelled \in BOOLEAN
  BY Zenon DEF Init, DeliveryInit
<1> QED BY <1>1 DEF Init, DeliveryInit, Types

LEMMA TypesReported ==
    ASSUME Control, Types, RunReportsSteps, UNCHANGED <<clients, cancelled>>
    PROVE Types'
<1> USE DEF Types, Goes, End, run, others
<1>1. CASE ReadFails
  BY <1>1 DEF ReadFails
<1>2. CASE GetCounter
  BY <1>2 DEF GetCounter
<1>3. CASE \E cs \in SUBSET Counters : ListCounters(cs)
  BY <1>3 DEF ListCounters
<1>4. CASE \E rows \in SUBSET Reports : ListReports(rows)
  BY <1>4 DEF ListReports
<1>5. CASE Drop
  BY <1>5 DEF Drop
<1>6. CASE ReportOne
  BY <1>6 DEF ReportOne, Ask
<1>7. CASE CurrentFails
  BY <1>7 DEF CurrentFails
<1>8. CASE Current
  BY <1>8 DEF Current, Ask
<1>9. CASE Compare
  BY <1>9 DEF Compare, Ask
<1>10. CASE Reaches \/ URLs \/ \E some \in BOOLEAN : Goals(some)
  BY <1>10 DEF Goals, Reaches, URLs, AfterGoals, Ask
<1>11. CASE SaveSnapshot
  BY <1>11 DEF SaveSnapshot
<1>12. CASE Reported
  BY <1>12 DEF Reported
<1>13. CASE RunEnds
  BY <1>13 DEF RunEnds
<1> QED BY <1>1, <1>2, <1>3, <1>4, <1>5, <1>6, <1>7, <1>8, <1>9, <1>10, <1>11, <1>12, <1>13
        DEF RunReportsSteps

LEMMA TypesStep == Control /\ Types /\ [Next]_vars => Types'
<1> SUFFICES ASSUME Control, Types, [Next]_vars PROVE Types'
  OBVIOUS
<1> USE DEF Types, Goes, End, run, others
<1>1. CASE Do
  BY <1>1 DEF Do, Answered, Throttled, Denied, CutOff, PauseOver
<1>2. CASE Route
  BY <1>2 DEF Route
<1>3. CASE RunReportsSteps /\ UNCHANGED <<clients, cancelled>>
  BY <1>3, TypesReported
<1>4. CASE EvaluateWindowSteps /\ UNCHANGED <<clients, cancelled>>
  BY <1>4 DEF EvaluateWindowSteps, SeriesFails, Quiet, InCooldown, Fires, Alerted, RecordAlert
<1>5. CASE ReplySteps /\ UNCHANGED <<clients, cancelled>>
  BY <1>5 DEF ReplySteps, BeginSending, PartSent, PartFails
<1>6. CASE Rest
  <2>1. cancelled' \in BOOLEAN
    BY <1>6, Zenon DEF Rest
  <2> QED BY <1>6, <2>1 DEF Rest
<1>7. CASE Judgement
  BY <1>7 DEF Judgement, EvaluateTrigger, Verdict
<1>8. CASE Start
  BY <1>8 DEF Start, RunReports, EvaluateWindow, Reply, Ask
<1>9. CASE Cancel
  BY <1>9 DEF Cancel
<1>10. CASE UNCHANGED vars
  BY <1>10 DEF vars
<1> QED BY <1>1, <1>2, <1>3, <1>4, <1>5, <1>6, <1>7, <1>8, <1>9, <1>10 DEF Next, Service, Steps

LEMMA TypesHold == Spec => []Types
BY TypesInit, TypesStep, ControlHolds, PTL DEF Spec

\* Every variable keeps its type.
THEOREM JobsTypeCorrect == Spec => []TypeOK
<1>1. Spec => []Calls
  BY CallsHold
<1>2. Control /\ Notices /\ Calls /\ Runs /\ Types => TypeOK
  BY DEF Control, Notices, Tried, Calls, Runs, Types, TypeOK, DeliveryTypeOK, Pcs
<1> QED BY <1>1, <1>2, ControlHolds, NoticesHold, RunsHold, TypesHold, PTL

-----------------------------------------------------------------------------
(* The sum of a window.                                                     *)

Total(s, S) == MapThenSumSet(LAMBDA t : At(s, t), S)

\* What it computes for the subsets of S, as a function.
Sums(s, S, g) ==
    g = [T \in SUBSET S |-> IF T = {} THEN 0
                            ELSE At(s, CHOOSE t \in T : TRUE) + g[T \ {CHOOSE t \in T : TRUE}]]

\* One function only does it.
LEMMA SumsAlike ==
    ASSUME NEW s, NEW S, IsFiniteSet(S), NEW f, NEW g, Sums(s, S, f), Sums(s, S, g)
    PROVE f[S] = g[S]
<1> DEFINE Wrong == {T \in SUBSET S : f[T] # g[T]}
           Sizes == {Cardinality(T) : T \in Wrong}
<1>1. \A T \in SUBSET S : IsFiniteSet(T) /\ Cardinality(T) \in Nat
  BY FS_Subset, FS_CardinalityType
<1>2. SUFFICES ASSUME f[S] # g[S] PROVE FALSE
  OBVIOUS
<1>3. Sizes \subseteq Nat /\ Sizes # {}
  BY <1>1, <1>2
<1>4. PICK n \in Sizes : \A m \in Sizes : n <= m
  BY <1>3, LeastNumber
<1>5. PICK T \in Wrong : n = Cardinality(T)
  OBVIOUS
<1> DEFINE x == CHOOSE t \in T : TRUE
<1>6. /\ f[T] = IF T = {} THEN 0 ELSE At(s, x) + f[T \ {x}]
      /\ g[T] = IF T = {} THEN 0 ELSE At(s, x) + g[T \ {x}]
  BY DEF Sums
<1>7. T # {} /\ x \in T
  BY <1>6
<1> HIDE DEF x
<1>8. T \ {x} \in SUBSET S /\ T \in SUBSET S
  OBVIOUS
<1>9. Cardinality(T \ {x}) = Cardinality(T) - 1 /\ Cardinality(T) \in Nat
  BY <1>1, <1>7, <1>8, FS_RemoveElement
<1>10. T \ {x} \notin Wrong
  <2>1. \A m \in Sizes : Cardinality(T) <= m
    BY <1>4, <1>5
  <2> QED BY <1>9, <2>1
<1>11. f[T \ {x}] = g[T \ {x}]
  BY <1>8, <1>10
<1> QED BY <1>6, <1>7, <1>11

\* The first interval of a window may have what is left when the others have the same.
LEMMA WindowAdds ==
    ASSUME NEW s, NEW a \in Int, NEW b \in Int, a <= b, NEW each \in Int,
           At(s, a) \in Int, \A t \in (a + 1)..b : At(s, t) = each
    PROVE Total(s, a..b) = At(s, a) + (b - a) * each
<1> DEFINE S == a..b
           first == At(s, a)
           n == b - a + 1
           More(T) == IF a \in T THEN first - each ELSE 0
           g == [T \in SUBSET S |-> More(T) + Cardinality(T) * each]
<1>1. Total(s, S) = (CHOOSE f : Sums(s, S, f))[S]
  BY DEF Total, MapThenSumSet, MapThenFoldSet, Sums
<1>2. IsFiniteSet(S) /\ Cardinality(S) = n
  BY FS_Interval
<1>3. \A T \in SUBSET S : IsFiniteSet(T) /\ Cardinality(T) \in Nat
  BY <1>2, FS_Subset, FS_CardinalityType
<1>4. ASSUME NEW T \in SUBSET S
      PROVE g[T] = IF T = {} THEN 0
                   ELSE At(s, CHOOSE t \in T : TRUE) + g[T \ {CHOOSE t \in T : TRUE}]
  <2>1. CASE T = {}
    <3>1. Cardinality(T) = 0 /\ More(T) = 0
      BY <2>1, FS_EmptySet
    <3> QED BY <2>1, <3>1
  <2>2. CASE T # {}
    <3> DEFINE x == CHOOSE t \in T : TRUE
               R == T \ {x}
    <3>1. x \in T /\ x \in S
      BY <2>2
    <3> HIDE DEF x
    <3>2. R \in SUBSET S /\ Cardinality(R) = Cardinality(T) - 1 /\ Cardinality(T) \in Nat
      BY <1>3, <3>1, FS_RemoveElement
    <3>3. More(T) + Cardinality(T) * each = At(s, x) + (More(R) + (Cardinality(T) - 1) * each)
      <4> DEFINE k == Cardinality(T)
      <4>1. k \in Nat
        BY <3>2
      <4> HIDE DEF k
      <4>2. (k - 1) * each = k * each - each /\ k * each \in Int
        BY <4>1
      <4>3. CASE x = a
        <5>1. More(T) = first - each /\ More(R) = 0 /\ At(s, x) = first
          BY <3>1, <4>3
        <5> HIDE DEF More
        <5> QED BY <4>1, <4>2, <5>1 DEF k
      <4>4. CASE x # a
        <5>1. More(T) = More(R) /\ More(R) \in Int /\ At(s, x) = each
          <6>1. x \in (a + 1)..b
            BY <3>1, <4>4
          <6> QED BY <4>4, <6>1
        <5> HIDE DEF More
        <5> QED BY <4>1, <4>2, <5>1 DEF k
      <4> QED BY <4>3, <4>4
    <3> HIDE DEF R, More
    <3>4. g[R] = More(R) + (Cardinality(T) - 1) * each /\ g[T] = More(T) + Cardinality(T) * each
      BY <3>2
    <3>5. g[T] = At(s, x) + g[R]
      BY <3>3, <3>4
    <3> QED BY <2>2, <3>5 DEF x, R
  <2> QED BY <2>1, <2>2
<1>5. Sums(s, S, g)
  <2> DEFINE h == [T \in SUBSET S |-> IF T = {} THEN 0
                   ELSE At(s, CHOOSE t \in T : TRUE) + g[T \ {CHOOSE t \in T : TRUE}]]
  <2> HIDE DEF More
  <2>1. \A T \in SUBSET S : g[T] = h[T]
    <3> HIDE DEF g, S
    <3> QED BY <1>4
  <2>2. DOMAIN g = SUBSET S /\ DOMAIN h = SUBSET S
    OBVIOUS
  <2>3. g = h
    BY <2>1
  <2> HIDE DEF g
  <2> QED BY <2>3 DEF Sums
<1>6. Sums(s, S, CHOOSE f : Sums(s, S, f))
  BY <1>5
<1>7. (CHOOSE f : Sums(s, S, f))[S] = g[S]
  <2> DEFINE f == CHOOSE f : Sums(s, S, f)
  <2> HIDE DEF f, g, S
  <2> QED BY <1>2, <1>5, <1>6, SumsAlike DEF f
<1>8. g[S] = first + (b - a) * each
  <2>1. a \in S
    OBVIOUS
  <2>2. g[S] = (first - each) + n * each
    BY <1>2, <2>1
  <2>3. n \in Int /\ b - a = n - 1
    OBVIOUS
  <2> HIDE DEF g, n
  <2>4. (n - 1) * each = n * each - each /\ n * each \in Int
    BY <2>3
  <2> QED BY <2>2, <2>3, <2>4
<1> QED BY <1>1, <1>7, <1>8

-----------------------------------------------------------------------------
(* Windows of a series.                                                     *)

\* The windows of two weeks have nothing in common.
Span(end, w) == (end - 7 * Day * w - Window)..(end - 7 * Day * w - 1)

LEMMA WeeksApart ==
    ASSUME NEW end \in Int, NEW v \in Nat, NEW w \in Nat, Day \in Nat \ {0}, Window \in 1..Day,
           NEW t \in Span(end, v), t \in Span(end, w)
    PROVE v = w
<1>1. ASSUME NEW x \in Nat, NEW y \in Nat, x < y PROVE 7 * Day * x + 7 * Day <= 7 * Day * y
  <2> DEFINE k == y - x - 1
  <2>1. k \in Nat /\ y = x + 1 + k
    BY <1>1
  <2> HIDE DEF k
  <2>2. Day * k \in Nat /\ Day * x \in Nat
    BY <2>1
  <2>3. Day * y = Day * x + Day + Day * k
    BY <2>1
  <2>4. 7 * Day * y = 7 * (Day * y) /\ 7 * Day * x = 7 * (Day * x)
    OBVIOUS
  <2> QED BY <2>2, <2>3, <2>4
<1>2. 7 * Day * v \in Int /\ 7 * Day * w \in Int
  OBVIOUS
<1>3. CASE v < w
  BY <1>1, <1>2, <1>3 DEF Span
<1>4. CASE w < v
  BY <1>1, <1>2, <1>4 DEF Span
<1> QED BY <1>3, <1>4

\* What there is in the window of week w.
LEMMA TrafficOfWeek ==
    ASSUME NEW h, DOMAIN h \subseteq Nat, NEW end \in Int, NEW w \in DOMAIN h, NEW t \in Span(end, w),
           Day \in Nat \ {0}, Window \in 1..Day
    PROVE LET each == h[w] \div Window
          IN  Traffic(h, end, t) = IF t = end - 7 * Day * w - Window THEN h[w] - (Window - 1) * each ELSE each
<1> DEFINE W == {v \in DOMAIN h : t \in (end - 7 * Day * v - Window)..(end - 7 * Day * v - 1)}
<1>1. W = {w}
  BY WeeksApart DEF Span
<1>2. (CHOOSE v \in W : TRUE) = w
  BY <1>1
<1> QED BY <1>1, <1>2 DEF Traffic

\* It adds up to the sum of the week, and no interval is taken for a missing one.
LEMMA WindowRead ==
    ASSUME NEW s, StepOf(s) = 1, NEW h, DOMAIN h \subseteq Nat, NEW end \in Int,
           NEW w \in DOMAIN h, h[w] \in Nat, Day \in Nat \ {0}, Window \in 1..Day,
           \A t \in Span(end, w) : At(s, t) = Traffic(h, end, t)
    PROVE WindowSum(s, end - 7 * Day * w) = h[w]
<1> DEFINE a == end - 7 * Day * w - Window
           each == h[w] \div Window
           first == h[w] - (Window - 1) * each
<1>1. a \in Int /\ Span(end, w) = a..(a + Window - 1)
  BY DEF Span
<1>2. each \in Nat /\ first \in Nat
  <2>1. each \in Nat /\ Window * each <= h[w]
    OBVIOUS
  <2> HIDE DEF each
  <2>2. (Window - 1) * each = Window * each - each /\ Window * each \in Nat
    BY <2>1
  <2> QED BY <2>1, <2>2
<1>3. \A t \in a..(a + Window - 1) : At(s, t) = IF t = a THEN first ELSE each
  <2> SUFFICES ASSUME NEW t \in Span(end, w) PROVE At(s, t) = IF t = a THEN first ELSE each
    BY <1>1
  <2>1. Traffic(h, end, t) = IF t = a THEN first ELSE each
    BY TrafficOfWeek
  <2> QED BY <2>1
<1>4. Starts(s, end - 7 * Day * w) = a..(a + Window - 1)
  <2>1. Starts(s, end - 7 * Day * w) = {t \in a..(a + Window - 1) : (t - a) % 1 = 0}
    BY <1>1 DEF Starts
  <2>2. \A t \in a..(a + Window - 1) : (t - a) % 1 = 0
    BY <1>1
  <2> QED BY <2>1, <2>2
<1>5. ~ \E t \in Starts(s, end - 7 * Day * w) : At(s, t) = NoSum
  <2>1. each # NoSum /\ first # NoSum
    BY <1>2 DEF NoSum
  <2> HIDE DEF each, first
  <2> QED BY <1>3, <1>4, <2>1
<1>6. WindowSum(s, end - 7 * Day * w) = Total(s, a..(a + Window - 1))
  BY <1>4, <1>5 DEF WindowSum, Total
<1> HIDE DEF a, each, first
<1>7. Total(s, a..(a + Window - 1)) = first + (Window - 1) * each
  <2> DEFINE b == a + Window - 1
  <2>1. b \in Int /\ a <= b /\ b - a = Window - 1
    BY <1>1
  <2> HIDE DEF b
  <2>2. At(s, a) = first /\ \A t \in (a + 1)..b : At(s, t) = each
    BY <1>1, <1>3, <2>1 DEF b
  <2>4. a \in Int /\ first \in Int /\ each \in Int
    BY <1>1, <1>2
  <2>3. Total(s, a..b) = At(s, a) + (b - a) * each
    BY <2>1, <2>2, <2>4, WindowAdds
  <2> QED BY <2>1, <2>2, <2>3 DEF b
<1>8. first + (Window - 1) * each = h[w]
  <2>1. (Window - 1) * each \in Int
    BY <1>2
  <2> QED BY <2>1 DEF first
<1> QED BY <1>6, <1>7, <1>8

LEMMA WindowNotRead ==
    ASSUME NEW s, StepOf(s) \in {0, 1}, NEW end \in Int, NEW w \in Nat, Day \in Nat \ {0}, Window \in 1..Day,
           NEW t \in Span(end, w), At(s, t) = NoSum
    PROVE WindowSum(s, end - 7 * Day * w) = NoSum
<1>1. CASE StepOf(s) = 0
  BY <1>1 DEF WindowSum
<1>2. CASE StepOf(s) = 1
  <2>1. t \in Starts(s, end - 7 * Day * w)
    BY <1>2 DEF Starts, Span
  <2> QED BY <2>1 DEF WindowSum
<1> QED BY <1>1, <1>2

-----------------------------------------------------------------------------
(* What the answers cover.                                                  *)

\* s has the traffic of the intervals in C and no other.
Reads(s, h, end, C) ==
    \A t \in Int : At(s, t) = IF t \in C THEN Traffic(h, end, t) ELSE NoSum

LEMMA ReadAt ==
    ASSUME NEW s, NEW p, DOMAIN s.times = 1..p, DOMAIN s.values = 1..p,
           \A i, j \in 1..p : s.times[i] = s.times[j] => i = j
    PROVE /\ \A i \in 1..p : At(s, s.times[i]) = s.values[i]
          /\ \A t : (\A i \in 1..p : s.times[i] # t) => At(s, t) = NoSum
<1>1. ASSUME NEW i \in 1..p PROVE At(s, s.times[i]) = s.values[i]
  <2> DEFINE is == {j \in DOMAIN s.times : s.times[j] = s.times[i]}
  <2>1. is = {i}
    OBVIOUS
  <2>2. Max(is) = i
    BY <2>1 DEF Max
  <2> QED BY <2>1, <2>2 DEF At
<1>2. ASSUME NEW t, \A i \in 1..p : s.times[i] # t PROVE At(s, t) = NoSum
  BY <1>2 DEF At
<1> QED BY <1>1, <1>2

\* Every interval from first to stop.
InSteps(s, h, end, first, stop) ==
    /\ s.times = [i \in 1..(stop - first + 1) |-> first + (i - 1)]
    /\ s.values = [i \in 1..(stop - first + 1) |-> Traffic(h, end, first + (i - 1))]

LEMMA PlainSeries ==
    ASSUME NEW s, NEW h, NEW end \in Int, NEW first \in Int, NEW stop \in Int, first < stop,
           InSteps(s, h, end, first, stop)
    PROVE StepOf(s) = 1 /\ Reads(s, h, end, first..stop)
<1> DEFINE p == stop - first + 1
<1>1. p \in Nat /\ p >= 2
  OBVIOUS
<1>2. DOMAIN s.times = 1..p /\ DOMAIN s.values = 1..p
  BY DEF InSteps
<1>3. \A i \in 1..p : s.times[i] = first + (i - 1) /\ s.values[i] = Traffic(h, end, first + (i - 1))
  BY DEF InSteps
<1>4. Len(s.times) = p
  BY <1>1 DEF InSteps
<1>5. StepOf(s) = 1
  <2>1. 1 \in 1..p /\ 2 \in 1..p
    BY <1>1
  <2>2. s.times[1] = first /\ s.times[2] = first + 1
    <3> HIDE DEF p
    <3> QED BY <1>3, <2>1
  <2>3. ~(Len(s.times) < 2)
    BY <1>1, <1>4
  <2> QED BY <2>2, <2>3 DEF StepOf
<1> HIDE DEF p
<1>6. /\ \A i \in 1..p : At(s, s.times[i]) = s.values[i]
      /\ \A t : (\A i \in 1..p : s.times[i] # t) => At(s, t) = NoSum
  <2>1. ASSUME NEW i \in 1..p, NEW j \in 1..p, s.times[i] = s.times[j] PROVE i = j
    <3>1. i \in Int /\ j \in Int
      BY <1>1
    <3>2. first + (i - 1) = first + (j - 1)
      BY <1>3, <2>1, Zenon
    <3> QED BY <3>1, <3>2
  <2> QED BY <1>2, <2>1, ReadAt
<1>7. ASSUME NEW t \in first..stop PROVE At(s, t) = Traffic(h, end, t)
  <2>1. t - first + 1 \in 1..p /\ first + ((t - first + 1) - 1) = t
    BY DEF p
  <2> QED BY <1>3, <1>6, <2>1
<1>8. ASSUME NEW t \in Int, t \notin first..stop PROVE At(s, t) = NoSum
  <2>1. \A i \in 1..p : s.times[i] # t
    BY <1>3, <1>8 DEF p
  <2> QED BY <1>6, <2>1
<1> QED BY <1>5, <1>7, <1>8 DEF Reads

\* Every interval but one.
Torn(s, h, end, first, stop, gap) ==
    LET Time(i) == IF first + (i - 1) >= gap THEN first + (i - 1) + 1 ELSE first + (i - 1)
    IN  /\ s.times = [i \in 1..(stop - first) |-> Time(i)]
        /\ s.values = [i \in 1..(stop - first) |-> Traffic(h, end, Time(i))]

LEMMA TornSeries ==
    ASSUME NEW s, NEW h, NEW end \in Int, NEW first \in Int, NEW stop \in Int, NEW gap \in Int,
           first + 1 < gap, gap <= stop,
           Torn(s, h, end, first, stop, gap)
    PROVE StepOf(s) = 1 /\ Reads(s, h, end, (first..stop) \ {gap})
<1> DEFINE p == stop - first
           Time(i) == IF first + (i - 1) >= gap THEN first + (i - 1) + 1 ELSE first + (i - 1)
<1>1. p \in Nat /\ p >= 2
  OBVIOUS
<1>2. DOMAIN s.times = 1..p /\ DOMAIN s.values = 1..p
  BY DEF Torn
<1>3. \A i \in 1..p : s.times[i] = Time(i) /\ s.values[i] = Traffic(h, end, Time(i))
  BY DEF Torn
<1>4. Len(s.times) = p
  BY <1>1 DEF Torn
<1>5. StepOf(s) = 1
  <2>1. 1 \in 1..p /\ 2 \in 1..p
    BY <1>1
  <2>2. s.times[1] = first /\ s.times[2] = first + 1
    <3> HIDE DEF p
    <3> QED BY <1>3, <2>1
  <2>3. ~(Len(s.times) < 2)
    BY <1>1, <1>4
  <2> QED BY <2>2, <2>3 DEF StepOf
<1> HIDE DEF p
<1>6. /\ \A i \in 1..p : At(s, s.times[i]) = s.values[i]
      /\ \A t : (\A i \in 1..p : s.times[i] # t) => At(s, t) = NoSum
  <2>1. ASSUME NEW i \in 1..p, NEW j \in 1..p, s.times[i] = s.times[j] PROVE i = j
    <3>1. i \in Int /\ j \in Int
      BY <1>1
    <3>2. Time(i) = Time(j)
      <4> HIDE DEF Time
      <4> QED BY <1>3, <2>1, Zenon
    <3> QED BY <3>1, <3>2
  <2> QED BY <1>2, <2>1, ReadAt
<1>7. ASSUME NEW t \in (first..stop) \ {gap} PROVE At(s, t) = Traffic(h, end, t)
  <2> DEFINE i == IF t > gap THEN t - first ELSE t - first + 1
  <2>1. i \in 1..p /\ Time(i) = t
    BY DEF p
  <2> HIDE DEF i, Time
  <2>2. s.times[i] = t /\ s.values[i] = Traffic(h, end, t)
    BY <1>3, <2>1
  <2> QED BY <1>6, <2>1, <2>2
<1>8. ASSUME NEW t \in Int, t \notin (first..stop) \ {gap} PROVE At(s, t) = NoSum
  <2>1. \A i \in 1..p : s.times[i] # t
    BY <1>3, <1>8 DEF p
  <2> QED BY <1>6, <2>1
<1> QED BY <1>5, <1>7, <1>8 DEF Reads

-----------------------------------------------------------------------------
(* The answers, form by form.                                               *)

FirstAsked(end, weeks) == FirstDay(end, weeks) * Day
LastAsked(end) == (LastDay(end) + 1) * Day - 1

\* The days asked for reach a day past the oldest window and to the end of the newest.
LEMMA DaysAsked ==
    ASSUME NEW end \in Int, NEW weeks \in Nat, Day \in Nat \ {0}
    PROVE /\ FirstAsked(end, weeks) \in Int /\ LastAsked(end) \in Int
          /\ FirstAsked(end, weeks) <= end - 7 * Day * weeks - Day
          /\ end <= LastAsked(end)
<1>1. ASSUME NEW x \in Int PROVE x \div Day \in Int /\ (x \div Day) * Day <= x /\ x < (x \div Day) * Day + Day
  OBVIOUS
<1>2. end - 7 * Day * weeks - Day \in Int
  OBVIOUS
<1>3. /\ FirstAsked(end, weeks) = ((end - 7 * Day * weeks - Day) \div Day) * Day
      /\ FirstAsked(end, weeks) \in Int
  BY <1>1, <1>2 DEF FirstAsked, FirstDay
<1>4. LastAsked(end) = (end \div Day) * Day + Day - 1 /\ LastAsked(end) \in Int
  <2> DEFINE d == end \div Day
  <2>1. d \in Int
    BY <1>1
  <2> HIDE DEF d
  <2>2. (d + 1) * Day = d * Day + Day /\ d * Day \in Int
    BY <2>1
  <2> QED BY <2>2 DEF LastAsked, LastDay, d
<1> QED BY <1>1, <1>2, <1>3, <1>4

LEMMA EarlierWeeks ==
    ASSUME NEW v \in Nat, NEW w \in Nat, v <= w, Day \in Nat
    PROVE 7 * Day * v <= 7 * Day * w /\ 7 * Day * v \in Nat /\ (v < w => 7 * Day * v + 7 * Day <= 7 * Day * w)
<1> DEFINE k == w - v
<1>1. k \in Nat /\ w = v + k
  OBVIOUS
<1> HIDE DEF k
<1>2. Day * w = Day * v + Day * k /\ Day * k \in Nat /\ Day * v \in Nat
  BY <1>1
<1>3. v < w => Day <= Day * k
  <2>1. CASE k >= 1
    <3> DEFINE m == k - 1
    <3>1. m \in Nat /\ k = m + 1
      BY <1>1, <2>1
    <3> HIDE DEF m
    <3>2. Day * k = Day * m + Day /\ Day * m \in Nat
      BY <3>1
    <3> QED BY <3>2
  <2> QED BY <1>1, <2>1
<1>4. 7 * Day * w = 7 * (Day * w) /\ 7 * Day * v = 7 * (Day * v)
  OBVIOUS
<1> QED BY <1>2, <1>3, <1>4

\* What an answer in steps of one interval looks like, with or without its times.
FirstAnswered(form, end, weeks) ==
    IF form = "young" THEN end - 7 * Day - Window ELSE FirstAsked(end, weeks)
LastAnswered(form, end, weeks) ==
    CASE form = "late" -> end - 2
      [] form = "single" -> FirstAnswered(form, end, weeks)
      [] OTHER -> LastAsked(end)

LEMMA SeriesInSteps ==
    ASSUME NEW form, form \notin {"coarse", "torn"}, NEW h, NEW end \in Int, NEW weeks \in Nat,
           NEW first \in Int, NEW stop \in Int, first <= stop,
           first = FirstAnswered(form, end, weeks), stop = LastAnswered(form, end, weeks),
           NEW s, s = FetchByTime(AnswerTo(form, h, end, weeks), FirstDay(end, weeks))
    PROVE InSteps(s, h, end, first, stop)
<1> USE DEF InSteps
<1> DEFINE p == stop - first + 1
           a == AnswerTo(form, h, end, weeks)
           times == [i \in 1..p |-> first + (i - 1)]
           values == [i \in 1..p |-> Traffic(h, end, first + (i - 1))]
<1>1. p \in Nat /\ p >= 1 /\ p = (stop - first) \div 1 + 1
  OBVIOUS
<1>2. \A i \in 1..p : first + (i - 1) * 1 = first + (i - 1)
  BY <1>1
<1>3. a = [times |-> IF form = "untimed" THEN << >> ELSE times, values |-> values]
  <2>1. /\ stop = CASE form = "late" -> end - 2
                    [] form = "single" -> first
                    [] form = "torn" -> (LastDay(end) + 1) * Day - 2
                    [] OTHER -> (LastDay(end) + 1) * Day - 1
        /\ first = IF form = "young" THEN end - 7 * Day - Window ELSE FirstDay(end, weeks) * Day
    BY DEF FirstAnswered, LastAnswered, FirstAsked, LastAsked
  <2> QED BY <1>1, <1>2, <2>1 DEF AnswerTo
<1>4. CASE form # "untimed"
  <2>1. times # << >>
    <3>1. 1 \in DOMAIN times
      BY <1>1
    <3> QED BY <3>1
  <2> HIDE DEF times, values, p
  <2> QED BY <1>3, <1>4, <2>1 DEF FetchByTime, times, values, p
<1>5. CASE form = "untimed"
  <2>1. s = [times |-> [i \in DOMAIN values |-> FirstDay(end, weeks) * Day + (i - 1) * 1], values |-> values]
    BY <1>3, <1>5 DEF FetchByTime, GroupStep
  <2>2. FirstDay(end, weeks) * Day = first
    BY <1>5 DEF FirstAnswered, FirstAsked
  <2>3. DOMAIN values = 1..p
    OBVIOUS
  <2> HIDE DEF p
  <2>4. s.times = [i \in 1..p |-> first + (i - 1) * 1]
    BY <2>1, <2>2, <2>3
  <2>5. s.times = times
    BY <1>2, <2>4
  <2> QED BY <2>1, <2>5 DEF p
<1> QED BY <1>4, <1>5

LEMMA SeriesTorn ==
    ASSUME NEW h, NEW end \in Int, NEW weeks \in Nat, Day \in Nat \ {0},
           NEW first \in Int, NEW stop \in Int, first < stop,
           first = FirstAsked(end, weeks), stop = LastAsked(end),
           NEW gap \in Int, gap = end - 7 * Day - 1,
           NEW s, s = FetchByTime(AnswerTo("torn", h, end, weeks), FirstDay(end, weeks))
    PROVE Torn(s, h, end, first, stop, gap)
<1> DEFINE p == stop - first
           times == [i \in 1..p |-> IF first + (i - 1) >= gap THEN first + (i - 1) + 1 ELSE first + (i - 1)]
           values == [i \in 1..p |-> Traffic(h, end,
                         IF first + (i - 1) >= gap THEN first + (i - 1) + 1 ELSE first + (i - 1))]
<1>1. /\ p \in Nat /\ p >= 1
      /\ (LastDay(end) + 1) * Day - 2 = stop - 1
      /\ ((stop - 1) - first) \div 1 + 1 = p
  <2>1. (LastDay(end) + 1) * Day \in Int /\ (LastDay(end) + 1) * Day - 1 = stop
    BY DEF LastAsked, LastDay
  <2> QED BY <2>1
<1>2. \A i \in 1..p : first + (i - 1) * 1 = first + (i - 1)
  BY <1>1
<1>3. AnswerTo("torn", h, end, weeks) = [times |-> times, values |-> values]
  BY <1>1, <1>2 DEF AnswerTo, FirstAsked
<1>4. times # << >>
  <2>1. 1 \in DOMAIN times
    BY <1>1
  <2> QED BY <2>1
<1> HIDE DEF times, values, p
<1>5. s = [times |-> times, values |-> values]
  BY <1>3, <1>4 DEF FetchByTime
<1>6. s.times = times /\ s.values = values
  BY <1>5
<1> QED BY <1>6 DEF Torn, times, values, p

\* A series that has the windows answered in full, and of each other one not all.
LEMMA WindowsRead ==
    ASSUME NEW s, StepOf(s) = 1, NEW h, DOMAIN h \subseteq Nat, NEW end \in Int, NEW weeks \in Nat,
           \A w \in 0..weeks : w \in DOMAIN h /\ h[w] \in Nat,
           Day \in Nat \ {0}, Window \in 1..Day, NEW C, Reads(s, h, end, C), NEW form,
           \A w \in 0..weeks : IF InFull(form, w) THEN Span(end, w) \subseteq C
                               ELSE \E t \in Span(end, w) : t \notin C
    PROVE \A w \in 0..weeks :
             WindowSum(s, end - 7 * Day * w) = IF InFull(form, w) THEN h[w] ELSE NoSum
<1> SUFFICES ASSUME NEW w \in 0..weeks
             PROVE WindowSum(s, end - 7 * Day * w) = IF InFull(form, w) THEN h[w] ELSE NoSum
  OBVIOUS
<1>1. Span(end, w) \subseteq Int /\ w \in Nat
  BY DEF Span
<1>2. CASE InFull(form, w)
  <2>1. \A t \in Span(end, w) : At(s, t) = Traffic(h, end, t)
    BY <1>1, <1>2 DEF Reads
  <2> QED BY <1>2, <2>1, WindowRead
<1>3. CASE ~InFull(form, w)
  <2>1. PICK t \in Span(end, w) : t \notin C
    BY <1>3
  <2>2. At(s, t) = NoSum
    BY <1>1, <2>1 DEF Reads
  <2> QED BY <1>1, <1>3, <2>2, WindowNotRead
<1> QED BY <1>2, <1>3

\* Reading a series gives back the sums it was answered with: of each window that was
\* answered in full, and of no other.
SumsAreRead ==
    \A h \in Histories, end \in Ends, r \in Rules :
        \E s \in {SeriesOf(h, end, r.weeks)} :
            IF RightStep(s)
            THEN \A w \in 0..r.weeks :
                    WindowSum(s, end - 7 * Day * w) = IF InFull(h.form, w) THEN h.sums[w] ELSE NoSum
            ELSE ~InFull(h.form, 0)

\* It does where the windows are no longer than a day and the step is the one asked for:
\* the day more that is asked for holds the oldest window (fetchSeries, WindowSum).
THEOREM SeriesAreRead == ASSUME WholeWindows PROVE SumsAreRead
<1> SUFFICES ASSUME NEW h \in Histories, NEW end \in Ends, NEW r \in Rules, NEW s,
                    s = SeriesOf(h, end, r.weeks)
             PROVE IF RightStep(s)
                   THEN \A w \in 0..r.weeks :
                           WindowSum(s, end - 7 * Day * w) = IF InFull(h.form, w) THEN h.sums[w] ELSE NoSum
                   ELSE ~InFull(h.form, 0)
  BY DEF SumsAreRead
<1> DEFINE weeks == r.weeks
           first == FirstAsked(end, weeks)
           stop == LastAsked(end)
           sums == h.sums
           form == h.form
           Read == \A w \in 0..weeks :
                      WindowSum(s, end - 7 * Day * w) = IF InFull(form, w) THEN sums[w] ELSE NoSum
<1>1. /\ weeks \in Nat /\ weeks >= 1 /\ end \in Int /\ Day \in Nat \ {0} /\ Window \in 1..Day /\ Step = 1
      /\ DOMAIN sums \subseteq Nat /\ \A w \in 0..weeks : w \in DOMAIN sums /\ sums[w] \in Nat
      /\ weeks > 1 \/ Day > 2
  BY OutboundAssumption DEF WholeWindows, GroupStep, Rule
<1>2. s = FetchByTime(AnswerTo(form, sums, end, weeks), FirstDay(end, weeks))
  BY DEF SeriesOf
<1> HIDE DEF weeks, sums, form
<1>3. /\ first \in Int /\ stop \in Int /\ end <= stop
      /\ first <= end - 7 * Day * weeks - Day
  BY <1>1, DaysAsked
<1>4. /\ \A w \in 0..weeks : 7 * Day * w \in Nat /\ 7 * Day * w <= 7 * Day * weeks
      /\ \A w \in 0..weeks : w >= 1 => 7 * Day * w >= 7 * Day
      /\ \A w \in 0..weeks : w >= 2 => 7 * Day * w >= 14 * Day
      /\ 7 * Day * 0 = 0 /\ 7 * Day * 1 = 7 * Day
  <2>1. ASSUME NEW w \in 0..weeks PROVE 7 * Day * w \in Nat /\ 7 * Day * w <= 7 * Day * weeks
    BY <1>1, EarlierWeeks
  <2>2. ASSUME NEW w \in 0..weeks, w >= 1 PROVE 7 * Day * w >= 7 * Day
    <3>1. w \in Nat /\ 1 \in Nat /\ 7 * Day * 1 = 7 * Day
      BY <1>1
    <3> QED BY <1>1, <2>2, <3>1, EarlierWeeks
  <2>3. ASSUME NEW w \in 0..weeks, w >= 2 PROVE 7 * Day * w >= 14 * Day
    <3>1. w \in Nat /\ 2 \in Nat /\ 7 * Day * 2 = 14 * Day
      BY <1>1
    <3> QED BY <1>1, <2>3, <3>1, EarlierWeeks
  <2> QED BY <1>1, <2>1, <2>2, <2>3
<1>5. \A w \in 0..weeks : Span(end, w) \subseteq first..stop
  <2> SUFFICES ASSUME NEW w \in 0..weeks, NEW t \in Span(end, w) PROVE t \in first..stop
    OBVIOUS
  <2>1. 7 * Day * w \in Nat /\ 7 * Day * w <= 7 * Day * weeks /\ 7 * Day * weeks \in Nat
    BY <1>1, <1>4
  <2>2. t \in Int /\ t >= end - 7 * Day * w - Window /\ t <= end - 7 * Day * w - 1
    BY <1>1, <2>1 DEF Span
  <2> HIDE DEF first, stop
  <2> QED BY <1>1, <1>3, <2>1, <2>2
<1>6. 7 * Day * weeks \in Nat /\ 7 * Day * weeks >= 7 * Day /\ (weeks >= 2 => 7 * Day * weeks >= 14 * Day)
  BY <1>1, <1>4
<1> HIDE DEF first, stop
<1>7. first + 2 < end
  BY <1>1, <1>3, <1>6
<1>8. ASSUME StepOf(s) = 1, NEW C, Reads(s, sums, end, C),
             \A w \in 0..weeks : IF InFull(form, w) THEN Span(end, w) \subseteq C
                                 ELSE \E t \in Span(end, w) : t \notin C
      PROVE RightStep(s) /\ Read
  BY <1>1, <1>8, WindowsRead DEF RightStep
<1>9. CASE form = "single"
  <2>1. first = FirstAnswered(form, end, weeks) /\ first = LastAnswered(form, end, weeks) /\ first <= first
    BY <1>3, <1>9 DEF FirstAnswered, LastAnswered, first
  <2>2. InSteps(s, sums, end, first, first)
    BY <1>1, <1>2, <1>3, <1>9, <2>1, SeriesInSteps
  <2>5. Len(s.times) = 1
    BY <1>3, <2>2 DEF InSteps
  <2>3. StepOf(s) = 0
    BY <2>5 DEF StepOf
  <2>4. Read
    BY <1>9, <2>3 DEF InFull, WindowSum
  <2> QED BY <2>3, <2>4 DEF RightStep, form, weeks, sums
<1>10. CASE form = "coarse"
  <2> DEFINE p == (stop - first) \div 2 + 1
  <2>1. p \in Nat /\ p >= 2
    <3> DEFINE q == stop - first
    <3>1. q \in Int /\ q >= 2
      BY <1>1, <1>3, <1>7
    <3> HIDE DEF q
    <3>2. q \div 2 + 1 \in Nat /\ q \div 2 + 1 >= 2
      BY <3>1
    <3> QED BY <3>2 DEF q
  <2>2. s.times = [i \in 1..p |-> first + (i - 1) * 2]
    <3> DEFINE times == [i \in 1..p |-> first + (i - 1) * 2]
    <3>1. AnswerTo(form, sums, end, weeks).times = times
      BY <1>10 DEF AnswerTo, first, stop, FirstAsked, LastAsked
    <3>2. times # << >>
      <4>1. 1 \in DOMAIN times
        BY <2>1
      <4> QED BY <4>1
    <3> HIDE DEF times
    <3>3. s.times = times
      BY <1>2, <3>1, <3>2 DEF FetchByTime
    <3> QED BY <3>3 DEF times
  <2> HIDE DEF p
  <2>3. Len(s.times) = p /\ s.times[1] = first /\ s.times[2] = first + 2
    BY <1>3, <2>1, <2>2
  <2>4. StepOf(s) = 2
    BY <1>3, <2>1, <2>3 DEF StepOf
  <2>5. ~RightStep(s)
    BY <1>1, <2>4 DEF RightStep
  <2> QED BY <1>10, <2>5 DEF InFull, form
<1>11. CASE form = "young"
  <2> DEFINE start == end - 7 * Day - Window
  <2>1. start \in Int /\ start < stop /\ start <= stop
    BY <1>1, <1>3
  <2> HIDE DEF start
  <2>6. start = FirstAnswered(form, end, weeks) /\ stop = LastAnswered(form, end, weeks)
    BY <1>11 DEF FirstAnswered, LastAnswered, first, stop, start
  <2>2. InSteps(s, sums, end, start, stop)
    BY <1>1, <1>2, <1>3, <1>11, <2>1, <2>6, SeriesInSteps
  <2>3. StepOf(s) = 1 /\ Reads(s, sums, end, start..stop)
    BY <1>1, <1>3, <2>1, <2>2, PlainSeries
  <2>4. ASSUME NEW w \in 0..weeks, InFull(form, w) PROVE Span(end, w) \subseteq start..stop
    <3>1. w = 0 \/ w = 1
      BY <1>11, <2>4 DEF InFull
    <3>2. 7 * Day * w \in Nat /\ 7 * Day * w <= 7 * Day
      BY <1>1, <1>4, <3>1
    <3> QED BY <1>1, <1>3, <3>2 DEF Span, start
  <2>5. ASSUME NEW w \in 0..weeks, ~InFull(form, w) PROVE \E t \in Span(end, w) : t \notin start..stop
    <3>1. 7 * Day * w \in Nat /\ 7 * Day * w >= 14 * Day
      BY <1>4, <1>11, <2>5 DEF InFull
    <3>2. end - 7 * Day * w - Window \in Span(end, w) /\ end - 7 * Day * w - Window < start
      BY <1>1, <3>1 DEF Span, start
    <3> QED BY <1>1, <2>1, <3>1, <3>2
  <2> QED BY <1>8, <2>3, <2>4, <2>5 DEF form, weeks, sums
<1>12. CASE form = "late"
  <2> DEFINE until == end - 2
  <2>1. until \in Int /\ first < until /\ first <= until
    BY <1>1, <1>3, <1>6
  <2> HIDE DEF until
  <2>6. first = FirstAnswered(form, end, weeks) /\ until = LastAnswered(form, end, weeks)
    BY <1>12 DEF FirstAnswered, LastAnswered, first, stop, until
  <2>2. InSteps(s, sums, end, first, until)
    BY <1>1, <1>2, <1>3, <1>12, <2>1, <2>6, SeriesInSteps
  <2>3. StepOf(s) = 1 /\ Reads(s, sums, end, first..until)
    BY <1>1, <1>3, <2>1, <2>2, PlainSeries
  <2>4. ASSUME NEW w \in 0..weeks, InFull(form, w) PROVE Span(end, w) \subseteq first..until
    <3>1. 7 * Day * w \in Nat /\ 7 * Day * w >= 7 * Day
      BY <1>4, <1>12, <2>4 DEF InFull
    <3>2. \A t \in Span(end, w) : t \in Int /\ t <= until
      BY <1>1, <3>1 DEF Span, until
    <3> QED BY <1>3, <1>5, <2>1, <3>2
  <2>5. ASSUME NEW w \in 0..weeks, ~InFull(form, w) PROVE \E t \in Span(end, w) : t \notin first..until
    <3>1. 7 * Day * w = 0
      BY <1>4, <1>12, <2>5 DEF InFull
    <3>2. end - 1 \in Span(end, w)
      BY <1>1, <3>1 DEF Span
    <3> QED BY <1>1, <3>2 DEF until
  <2> QED BY <1>8, <2>3, <2>4, <2>5 DEF form, weeks, sums
<1>13. CASE form = "torn"
  <2> DEFINE gap == end - 7 * Day - 1
  <2>1. gap \in Int /\ first + 1 < gap /\ gap <= stop /\ first < stop
    BY <1>1, <1>3, <1>6
  <2> HIDE DEF gap
  <2>2. Torn(s, sums, end, first, stop, gap)
    BY <1>1, <1>2, <1>3, <1>13, <2>1, SeriesTorn DEF first, stop, gap
  <2>3. StepOf(s) = 1 /\ Reads(s, sums, end, (first..stop) \ {gap})
    BY <1>1, <1>3, <2>1, <2>2, TornSeries
  <2>4. 1 \in 0..weeks /\ gap \in Span(end, 1)
    BY <1>1, <1>4 DEF Span, gap
  <2>5. ASSUME NEW w \in 0..weeks, InFull(form, w) PROVE Span(end, w) \subseteq (first..stop) \ {gap}
    <3>1. w # 1
      BY <1>13, <2>5 DEF InFull
    <3>2. gap \notin Span(end, w)
      BY <1>1, <2>4, <3>1, WeeksApart
    <3> QED BY <1>5, <3>2
  <2>6. ASSUME NEW w \in 0..weeks, ~InFull(form, w)
        PROVE \E t \in Span(end, w) : t \notin (first..stop) \ {gap}
    <3>1. w = 1
      BY <1>13, <2>6 DEF InFull
    <3> QED BY <2>4, <3>1
  <2> QED BY <1>8, <2>3, <2>5, <2>6 DEF form, weeks, sums
<1>14. CASE form \notin {"single", "coarse", "young", "late", "torn"}
  <2>1. first < stop /\ first <= stop
    BY <1>1, <1>3, <1>7
  <2>6. first = FirstAnswered(form, end, weeks) /\ stop = LastAnswered(form, end, weeks)
    BY <1>14 DEF FirstAnswered, LastAnswered, first, stop
  <2>2. InSteps(s, sums, end, first, stop)
    BY <1>1, <1>2, <1>3, <1>14, <2>1, <2>6, SeriesInSteps
  <2>3. StepOf(s) = 1 /\ Reads(s, sums, end, first..stop)
    BY <1>1, <1>3, <2>1, <2>2, PlainSeries
  <2>4. \A w : InFull(form, w)
    BY <1>14 DEF InFull
  <2> QED BY <1>5, <1>8, <2>3, <2>4 DEF form, weeks, sums
<1> QED BY <1>9, <1>10, <1>11, <1>12, <1>13, <1>14

-----------------------------------------------------------------------------
(* The verdicts.                                                            *)

\* What a rule finds where the sums of the windows are those of a history.
LEMMA VerdictOnSums ==
    ASSUME NEW r \in Rule, NEW end \in Nat, NEW s, NEW form, NEW h,
           MinSamples \in Nat \ {0}, Day \in Nat, RightStep(s),
           \A w \in 0..r.weeks : h[w] \in Nat,
           \A w \in 0..r.weeks :
               WindowSum(s, end - 7 * Day * w) = IF InFull(form, w) THEN h[w] ELSE NoSum
    PROVE /\ Verdict(s, end, r) = "fires" <=> Due(r, form, h)
          /\ Verdict(s, end, r) = "error" <=> ~InFull(form, 0)
<1> DEFINE W == {w \in 1..r.weeks : InFull(form, w)}
           n == Cardinality(W)
           low == Min({v \in {h[w] : w \in W} : 2 * Cardinality(UpTo(h, W, v)) >= n})
           high == Max({v \in {h[w] : w \in W} : 2 * Cardinality(From(h, W, v)) >= n})
<1>a. /\ r.weeks \in Nat /\ r.pct \in Nat /\ r.floor \in Nat /\ r.direction \in {"drop", "rise", "both"}
  BY DEF Rule
<1>b. \A w \in 1..r.weeks : h[w] \in Nat
  BY <1>a
<1>c. h[0] \in Nat
  BY <1>a
<1>1. IsFiniteSet(W) /\ n \in Nat
  <2>1. IsFiniteSet(1..r.weeks)
    <3>1. 1 \in Int /\ r.weeks \in Int
      BY <1>a
    <3> QED
      BY <3>1, FS_Interval, Zenon
  <2>2. W \subseteq 1..r.weeks
    OBVIOUS
  <2>3. IsFiniteSet(W)
    BY <2>1, <2>2, FS_Subset
  <2> QED
    BY <2>3, FS_CardinalityType
<1>2. Figures(h, W)
  BY <1>1, <1>b DEF Figures
<1>3. WindowSum(s, end) = IF InFull(form, 0) THEN h[0] ELSE NoSum
  <2>1. 0 \in 0..r.weeks /\ end - 7 * Day * 0 = end
    BY <1>a
  <2> QED
    BY <2>1
<1>4. BuildBaseline(s, end, r.weeks) = [twice |-> Median([w \in W |-> h[w]]), samples |-> n]
  <2> DEFINE sum == [w \in 1..r.weeks |-> WindowSum(s, end - 7 * Day * w)]
             samples == {w \in 1..r.weeks : sum[w] # NoSum}
  <2>1. \A w \in 1..r.weeks : sum[w] = IF InFull(form, w) THEN h[w] ELSE NoSum
    BY <1>a
  <2>2. samples = W
    BY <1>b, <2>1 DEF NoSum
  <2>3. [w \in samples |-> sum[w]] = [w \in W |-> h[w]]
    BY <2>1, <2>2
  <2> QED
    BY <2>2, <2>3 DEF BuildBaseline
<1>5. Due(r, form, h) <=>
        /\ InFull(form, 0) /\ n >= MinSamples
        /\ 2 * r.floor <= low + high
        /\ \/ r.direction # "rise" /\ low + high > 0 /\ 200 * h[0] <= (100 - r.pct) * (low + high)
           \/ r.direction # "drop" /\ h[0] > 0 /\ 200 * h[0] >= (100 + r.pct) * (low + high)
  BY DEF Due, UpTo, From
<1> DEFINE twice == Median([w \in W |-> h[w]])
<1>6. n >= MinSamples => twice = low + high /\ twice \in Nat
  <2>1. n >= MinSamples => W # {}
    BY FS_EmptySet
  <2> HIDE DEF W, n
  <2>2. W # {} => twice = low + high /\ low \in Nat /\ high \in Nat
    BY <1>2, MedianIsTheMiddle DEF n
  <2> QED
    BY <2>1, <2>2
<1> HIDE DEF W, n, low, high, twice
<1>7. ASSUME twice \in Nat
      PROVE  /\ Drops(h[0], twice, r.pct) <=> twice > 0 /\ 200 * h[0] <= (100 - r.pct) * twice
             /\ Rises(h[0], twice, r.pct) <=> h[0] > 0 /\ 200 * h[0] >= (100 + r.pct) * twice
  <2>1. /\ r.pct * twice \in Nat
        /\ (100 - r.pct) * twice = 100 * twice - r.pct * twice
        /\ (100 + r.pct) * twice = 100 * twice + r.pct * twice
    BY <1>a, <1>7
  <2>2. Drops(h[0], twice, r.pct) <=> twice > 0 /\ 200 * h[0] <= (100 - r.pct) * twice
    BY <1>c, <1>7, <2>1 DEF Drops
  <2>3. Rises(h[0], twice, r.pct) <=> h[0] > 0 /\ 200 * h[0] >= (100 + r.pct) * twice
    <3>1. CASE twice = 0
      BY <1>a, <1>c, <3>1 DEF Rises
    <3>2. CASE twice > 0
      <4>1. 200 * h[0] >= (100 + r.pct) * twice => h[0] > 0
        <5>1. (100 + r.pct) * twice > 0
          BY <1>a, <1>7, <2>1, <3>2
        <5>2. h[0] = 0 => 200 * h[0] = 0
          OBVIOUS
        <5>3. (100 + r.pct) * twice \in Nat
          BY <1>a, <1>7, <2>1
        <5> QED
          BY <1>c, <5>1, <5>2, <5>3
      <4> QED
        BY <1>c, <1>7, <2>1, <3>2, <4>1 DEF Rises
    <3> QED
      BY <1>7, <3>1, <3>2
  <2> QED
    BY <2>2, <2>3
<1>8. InFull(form, 0) =>
        (Judge(h[0], BuildBaseline(s, end, r.weeks), r) <=> Due(r, form, h))
  <2> SUFFICES ASSUME InFull(form, 0), n >= MinSamples
               PROVE Judge(h[0], [twice |-> twice, samples |-> n], r) <=> Due(r, form, h)
    BY <1>4, <1>5 DEF Judge, twice
  <2>1. twice = low + high /\ twice \in Nat
    BY <1>6
  <2>2. twice >= 2 * r.floor <=> 2 * r.floor <= twice
    BY <1>a, <2>1
  <2> QED
    BY <1>a, <1>5, <1>7, <2>1, <2>2 DEF Judge
<1>9. CASE InFull(form, 0)
  <2>1. WindowSum(s, end) = h[0] /\ h[0] # NoSum
    BY <1>3, <1>9, <1>c DEF NoSum
  <2> QED
    BY <1>8, <1>9, <2>1 DEF Verdict
<1>10. CASE ~ InFull(form, 0)
  BY <1>3, <1>5, <1>10 DEF Verdict
<1> QED
  BY <1>9, <1>10

\* What is judged is a rule's verdict on some history.
Judged ==
    pc = "judged" =>
        \E h \in Histories, end \in Ends :
            judged = h /\ verdict = Verdict(SeriesOf(h, end, rule.weeks), end, rule)

LEMMA JudgedStep == Control /\ Judged /\ [Next]_vars => Judged'
<1> SUFFICES ASSUME Control, Judged, [Next]_vars, pc' = "judged"
             PROVE \E h \in Histories, end \in Ends :
                       judged' = h /\ verdict' = Verdict(SeriesOf(h, end, rule'.weeks), end, rule')
  BY DEF Judged
<1> USE DEF Goes, End, run, others
<1>1. CASE Judgement
  BY <1>1 DEF Judgement, EvaluateTrigger
<1>2. CASE UNCHANGED <<pc, judged, verdict, rule>>
  BY <1>2 DEF Judged
<1>3. CASE Do \/ Route \/ Cancel \/ UNCHANGED vars
  BY <1>2, <1>3 DEF Do, Route, Cancel, vars
<1>4. CASE Rest \/ Start
  BY <1>4 DEF Rest, Start, RunReports, EvaluateWindow, Reply, Ask
<1>5. CASE RunReportsSteps
  BY <1>5 DEF RunReportsSteps, ReadFails, GetCounter, ListCounters, ListReports, Drop, ReportOne,
              CurrentFails, Current, Compare, Goals, Reaches, URLs, AfterGoals, SaveSnapshot, Reported,
              RunEnds, Ask
<1>6. CASE EvaluateWindowSteps
  BY <1>6 DEF EvaluateWindowSteps, SeriesFails, Quiet, InCooldown, Fires, Alerted, RecordAlert
<1>7. CASE ReplySteps
  BY <1>7 DEF ReplySteps, BeginSending, PartSent, PartFails
<1> QED BY <1>1, <1>3, <1>4, <1>5, <1>6, <1>7 DEF Next, Service, Steps

\* A rule fires exactly if the figures say so, and a window not answered in full is an
\* error (WindowSum, BuildBaseline, median, Judge), whatever the rules, the figures and
\* the weeks, where no window is longer than a day and the step is the one asked for.
THEOREM VerdictsAreSound == ASSUME WholeWindows PROVE Spec => []VerdictSound
<1>1. Init => Judged
  BY DEF Init, Judged
<1>2. Control /\ Judged => VerdictSound
  <2> SUFFICES ASSUME Control, Judged, pc = "judged"
               PROVE /\ verdict = "fires" <=> Due(rule, judged.form, judged.sums)
                     /\ verdict = "error" <=> ~InFull(judged.form, 0)
    BY DEF VerdictSound
  <2>1. PICK h \in Histories, end \in Ends :
            judged = h /\ verdict = Verdict(SeriesOf(h, end, rule.weeks), end, rule)
    BY DEF Judged
  <2>2. rule \in Rules /\ rule \in Rule
    BY OutboundAssumption DEF Control, InRule
  <2> DEFINE s == SeriesOf(h, end, rule.weeks)
  <2>3. /\ \A w \in 0..rule.weeks : h.sums[w] \in Nat
        /\ MinSamples \in Nat \ {0} /\ Day \in Nat /\ end \in Nat
    BY <2>2, OutboundAssumption
  <2>4. IF RightStep(s)
        THEN \A w \in 0..rule.weeks :
                WindowSum(s, end - 7 * Day * w) = IF InFull(h.form, w) THEN h.sums[w] ELSE NoSum
        ELSE ~InFull(h.form, 0)
    BY <2>2, SeriesAreRead DEF SumsAreRead
  <2> HIDE DEF s
  <2>5. CASE RightStep(s)
    <3>1. /\ Verdict(s, end, rule) = "fires" <=> Due(rule, h.form, h.sums)
          /\ Verdict(s, end, rule) = "error" <=> ~InFull(h.form, 0)
      BY <2>2, <2>3, <2>4, <2>5, VerdictOnSums
    <3> QED BY <2>1, <3>1 DEF s
  <2>6. CASE ~ RightStep(s)
    BY <2>1, <2>4, <2>6 DEF s, Verdict, Due
  <2> QED BY <2>5, <2>6
<1> QED BY <1>1, <1>2, JudgedStep, ControlHolds, PTL DEF Spec


-----------------------------------------------------------------------------
(* The parts of a reply.                                                    *)

\* The parts at hand are those of a reply's text, and while parts are sent one is left.
Cut ==
    /\ pc = "cut" => \E r \in Replies :
          reply = [platform |-> r.platform, text |-> r.text, parts |-> Parts(r.platform, r.text)]
    /\ pc \in {"part", "plain"} => rest \in Nat \ {0}

LEMMA RepliesAreSplit ==
    ASSUME NEW r \in Replies
    PROVE  LET parts == Parts(r.platform, r.text)
           IN  /\ Len(parts) \in Nat \ {0}
               /\ WellSplit(r.platform, r.text, IF Len(parts) > 1 THEN Limit - Reserve ELSE Limit, parts)
<1>1. r.text \in Text
  BY OutboundAssumption DEF Text
<1> DEFINE parts == Parts(r.platform, r.text)
<1>2. /\ parts \in Seq(Text) /\ Len(parts) >= 1
      /\ WellSplit(r.platform, r.text, IF Len(parts) > 1 THEN Limit - Reserve ELSE Limit, parts)
  BY <1>1, SplitAssumption, PartsAreWellSplit
<1> HIDE DEF parts
<1>3. Len(parts) \in Nat
  BY <1>2
<1> QED BY <1>2, <1>3 DEF parts

LEMMA CutKept == Cut /\ [Next]_vars => Cut'
<1> SUFFICES ASSUME Cut, [Next]_vars, pc' \in InReply PROVE Cut'
  BY DEF Cut, InReply
<1> USE DEF Goes, End, run, others, InReply
<1>1. CASE UNCHANGED <<pc, reply, rest>>
  BY <1>1 DEF Cut
<1>2. CASE Do \/ Route \/ Cancel \/ UNCHANGED vars
  BY <1>1, <1>2 DEF Do, Route, Cancel, vars
<1>3. CASE Start
  <2>1. PICK r \in Replies : Reply(r)
    BY <1>3 DEF Start, RunReports, EvaluateWindow, Ask
  <2> QED BY <2>1 DEF Reply, Cut
<1>4. CASE RunReportsSteps
  BY <1>4, <1>1 DEF RunReportsSteps, ReadFails, GetCounter, ListCounters, ListReports, Drop, ReportOne,
              CurrentFails, Current, Compare, Goals, Reaches, URLs, AfterGoals, SaveSnapshot, Reported,
              RunEnds, Ask
<1>5. CASE EvaluateWindowSteps
  BY <1>5 DEF EvaluateWindowSteps, SeriesFails, Quiet, InCooldown, Fires, Alerted, RecordAlert
<1>6. CASE ReplySteps
  <2>1. CASE BeginSending
    <3>1. PICK r \in Replies :
              reply = [platform |-> r.platform, text |-> r.text, parts |-> Parts(r.platform, r.text)]
      BY <2>1 DEF BeginSending, Cut
    <3>2. rest' \in Nat \ {0}
      BY <2>1, <3>1, RepliesAreSplit DEF BeginSending
    <3> QED BY <2>1, <3>2 DEF BeginSending, Cut
  <2>2. CASE PartSent
    BY <2>2 DEF PartSent, Cut
  <2>3. CASE PartFails
    BY <2>3 DEF PartFails, Cut
  <2> QED BY <1>6, <2>1, <2>2, <2>3 DEF ReplySteps
<1>7. CASE Rest \/ Judgement
  BY <1>7 DEF Rest, Judgement, EvaluateTrigger
<1> QED BY <1>2, <1>3, <1>4, <1>5, <1>6, <1>7 DEF Next, Service, Steps

\* A reply is sent in full: newlines apart, its parts are its runes in their order, each
\* fits with its marker, and no line that fits is cut, whatever the text and the limits
\* (Bot.reply, splitMessage, hardSplit).
THEOREM RepliesAreWhole == Spec => []PartsWhole
<1>1. Init => Cut
  BY DEF Init, Cut
<1>2. Cut => PartsWhole
  <2> SUFFICES ASSUME Cut PROVE PartsWhole
    OBVIOUS
  <2>1. pc \in {"part", "plain"} => rest > 0
    BY DEF Cut
  <2>2. ASSUME pc = "cut"
        PROVE WellSplit(reply.platform, reply.text,
                        IF Len(reply.parts) > 1 THEN Limit - Reserve ELSE Limit, reply.parts)
    <3>1. PICK r \in Replies :
              reply = [platform |-> r.platform, text |-> r.text, parts |-> Parts(r.platform, r.text)]
      BY <2>2 DEF Cut
    <3>2. reply.platform = r.platform /\ reply.text = r.text /\ reply.parts = Parts(r.platform, r.text)
      BY <3>1
    <3> QED BY <3>2, RepliesAreSplit
  <2> QED BY <2>1, <2>2 DEF PartsWhole
<1> QED BY <1>1, <1>2, CutKept, PTL DEF Spec
=============================================================================
