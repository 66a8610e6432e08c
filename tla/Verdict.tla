--------------------------------- MODULE Verdict ---------------------------------
(***************************************************************************)
(* How a window of traffic is judged: the series that is asked for, the sum *)
(* over a window, the baseline of earlier weeks and the verdict.            *)
(*                                                                         *)
(* Time is counted in the ten minutes of GroupTenMinutes from a midnight    *)
(* and a day has Day of them; the clocks do not change, so slotOf never     *)
(* skips a week.  Figures are whole numbers.  A baseline may be half of     *)
(* one and is kept doubled, and a threshold is compared without dividing:   *)
(* what rounding does to a deviation of exactly the threshold is left out.  *)
(***************************************************************************)
EXTENDS Integers, Sequences, FiniteSetsExt

CONSTANTS
    Day,         \* intervals in a day
    Window,      \* what one measurement covers
    Step,        \* the step the service is configured with
    MinSamples   \* how many weeks a baseline needs

GroupStep == 1      \* the grouping that is requested
NoSum == -1

Rule == [direction : {"drop", "rise", "both"}, pct : Nat, floor : Nat, weeks : Nat]

----
(* The request and what the client makes of the answer. *)

\* The first and the last day asked for: a day past the deepest baseline.
FirstDay(end, weeks) == (end - 7 * Day * weeks - Day) \div Day
LastDay(end) == end \div Day

\* Intervals that the answer does not name are counted from the first day.
FetchByTime(answer, first) ==
    IF answer.times # << >> THEN answer
    ELSE [times |-> [i \in DOMAIN answer.values |-> first * Day + (i - 1) * GroupStep],
          values |-> answer.values]

StepOf(s) == IF Len(s.times) < 2 THEN 0 ELSE s.times[2] - s.times[1]

\* Whether the answer has the step the windows move by; one too short to tell passes.
RightStep(s) == StepOf(s) = 0 \/ StepOf(s) = Step

----
(* The figures. *)

At(s, t) ==
    LET is == {i \in DOMAIN s.times : s.times[i] = t}
    IN  IF is # {} /\ Max(is) \in DOMAIN s.values THEN s.values[Max(is)] ELSE NoSum

Starts(s, end) == {t \in (end - Window)..(end - 1) : (t - (end - Window)) % StepOf(s) = 0}

WindowSum(s, end) ==
    IF StepOf(s) <= 0 \/ \E t \in Starts(s, end) : At(s, t) = NoSum THEN NoSum
    ELSE MapThenSumSet(LAMBDA t : At(s, t), Starts(s, end))

\* The value at place k, counted from 0, of f's values in order.
Nth(f, k) ==
    CHOOSE v \in {f[w] : w \in DOMAIN f} :
        /\ Cardinality({w \in DOMAIN f : f[w] < v}) <= k
        /\ Cardinality({w \in DOMAIN f : f[w] <= v}) > k

\* Mutant: the upper of the two middle values.
MedianUpper(f) == IF DOMAIN f = {} THEN 0 ELSE 2 * Nth(f, Cardinality(DOMAIN f) \div 2)

\* Twice the median.
Median(f) ==
    LET n == Cardinality(DOMAIN f)
    IN  IF n = 0 THEN 0
        ELSE IF n % 2 = 1 THEN 2 * Nth(f, n \div 2)
        ELSE Nth(f, n \div 2 - 1) + Nth(f, n \div 2)

BuildBaseline(s, end, weeks) ==
    LET sum == [w \in 1..weeks |-> WindowSum(s, end - 7 * Day * w)]
        samples == {w \in 1..weeks : sum[w] # NoSum}
    IN  [twice |-> Median([w \in samples |-> sum[w]]), samples |-> Cardinality(samples)]

\* A change from a baseline of zero is no number, or an infinite rise.
Drops(current, twice, pct) == twice > 0 /\ 100 * (2 * current - twice) <= -(pct * twice)
Rises(current, twice, pct) ==
    IF twice = 0 THEN current > 0 ELSE 100 * (2 * current - twice) >= pct * twice

Judge(current, baseline, rule) ==
    /\ baseline.samples >= MinSamples
    /\ baseline.twice >= 2 * rule.floor
    /\ \/ rule.direction \in {"drop", "both"} /\ Drops(current, baseline.twice, rule.pct)
       \/ rule.direction \in {"rise", "both"} /\ Rises(current, baseline.twice, rule.pct)

\* "fires" or "quiet", or "error" for a window the series does not cover.
Verdict(s, end, rule) ==
    LET current == WindowSum(s, end)
    IN  CASE ~RightStep(s) -> "error"
          [] RightStep(s) /\ current = NoSum -> "error"
          [] OTHER -> IF Judge(current, BuildBaseline(s, end, rule.weeks), rule)
                      THEN "fires" ELSE "quiet"
=============================================================================
