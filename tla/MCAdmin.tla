--------------------------------- MODULE MCAdmin ---------------------------------
(* Values for TLC: two administrators and a stranger, databases and files.   *)
EXTENDS Admin, TLC

CONSTANTS c1, cx, n1, blank, l1, l2, tok, none, d1, today, at10, unset

MCCounterInputs == {[cid |-> c, label |-> l1, token |-> tok] : c \in {c1, cx}}
MCRuleInputs == {[name |-> n1, weeks |-> w, floor |-> 10] : w \in {0, 13}}
MCReportInputs == {[name |-> n1, period |-> today]}
MCExportArgs == {[counter |-> 0, safe |-> FALSE], [counter |-> 1, safe |-> TRUE]}
MCActionInputs == {[dest |-> d1, label |-> l1]}

\* A counter with two rules of one name, of which one has fired and one is
\* off, a report, a destination.
Used ==
    [counters |-> 1 :> [cid |-> c1, label |-> l1, token |-> tok, cursor |-> TRUE],
     triggers |-> 1 :> [counter |-> 1, name |-> n1, weeks |-> 4, floor |-> 10, on |-> TRUE]
               @@ 2 :> [counter |-> 1, name |-> n1, weeks |-> 2, floor |-> 0, on |-> FALSE],
     reports |-> 1 :> [counter |-> 1, name |-> n1, period |-> today, on |-> TRUE],
     actions |-> 1 :> [dest |-> d1, label |-> l1],
     cooldowns |-> {1}, alerts |-> {[counter |-> 1, trigger |-> 1]}, snapshots |-> {1},
     schedule |-> unset,
     lastCounter |-> 1, lastTrigger |-> 2, lastReport |-> 1, lastAction |-> 1]

MCStores == {Used}
Symmetry == Permutations(Admins)

\* By hand: a counter without a token and two rules of one name; rules of a
\* counter that may not be there; a counter twice; what no import accepts.
MCHandFiles ==
    LET counter == [kind |-> "counter", cid |-> c1, label |-> l2, token |-> none]
        rule(w) == [kind |-> "trigger", cid |-> c1, name |-> n1, weeks |-> w, floor |-> 0, on |-> TRUE]
        report == [kind |-> "report", cid |-> c1, name |-> n1, period |-> today, on |-> FALSE] IN
    {<<counter, rule(0), rule(2), report>>,
     <<rule(2), report>>,
     <<counter, counter>>,
     <<counter, rule(13)>>}
=============================================================================
