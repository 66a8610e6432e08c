------------------------------- MODULE MCOutbound --------------------------------
(* Values for TLC: two counters, three reports, four destinations.           *)
EXTENDS Outbound, TLC

CONSTANTS Deepest, Sums, TextLength   \* bounds of the histories and the texts

Dest(id, type, addressed) == [id |-> id, type |-> type, addressed |-> addressed]
MCRows == {Dest(1, "telegram", FALSE), Dest(2, "webhook", TRUE)}
MCAdminRows == {Dest(11, "telegram", TRUE), Dest(12, "vkteams", TRUE)}

Row(id, counter, enabled, valid, period, both) ==
    [id |-> id, counter |-> counter, enabled |-> enabled, valid |-> valid, period |-> period,
     goals |-> both, byURL |-> both]
MCReports == {Row(1, 1, TRUE, TRUE, "7d", TRUE), Row(2, 2, TRUE, TRUE, "yesterday", FALSE),
              Row(3, 1, FALSE, TRUE, "today", FALSE)}

MCRules == {[direction |-> d, pct |-> p, floor |-> f, weeks |-> w] :
               d \in {"drop", "rise", "both"}, p \in {50}, f \in {0, 2}, w \in {2, 3}}

MCHistories ==
    [form : {"full"}, sums : [0..Deepest -> Sums]]
    \union
    [form : {"untimed", "coarse", "young", "torn", "late", "single"},
     sums : {h \in [0..Deepest -> {0, Max(Sums)}] : h[Deepest] = 0}]

\* A letter, a newline and what each platform counts in its own way.
MCReplies ==
    [platform : {"telegram"}, text : UNION {[1..n -> {"letter", "newline", "emoji"}] : n \in {TextLength}}]
    \union
    [platform : {"vkteams"}, text : UNION {[1..n -> {"letter", "newline", "mark"}] : n \in {TextLength}}]

\* What OutboundProofs proves VerdictSound from.
ASSUME MCWholeWindows == WholeWindows
=============================================================================
