---------------------------------- MODULE Split ----------------------------------
(***************************************************************************)
(* How a long reply is cut into messages.  A text is a sequence of runes;   *)
(* only what a platform counts for a rune is kept of it: a newline, an      *)
(* emoji, a marker of formatted text, or any other.                         *)
(***************************************************************************)
EXTENDS Integers, Sequences, SequencesExt

CONSTANTS
    Limit,      \* Transport.MaxUnits
    Reserve,    \* room for the marker that tells the part
    TagUnits    \* what VK Teams' tags add to a pair of markers

\* Room is left for the widest rune, of two units, next to the marker.
ASSUME SplitAssumption ==
    Limit \in Nat /\ Reserve \in Nat /\ TagUnits \in Nat /\ Limit - Reserve >= 2

Runes == {"letter", "emoji", "mark", "newline"}

\* Pairs of markers with something in between: VK Teams gets tags for these.
Pairs(text) ==
    FoldLeft(LAMBDA acc, i :
                IF text[i] # "mark" THEN acc
                ELSE IF acc.open = 0 THEN [acc EXCEPT !.open = i]
                ELSE [open |-> 0, pairs |-> acc.pairs + (IF i = acc.open + 1 THEN 0 ELSE 1)],
             [open |-> 0, pairs |-> 0], [i \in DOMAIN text |-> i]).pairs

Measure(platform, text) ==
    IF platform = "telegram"
    THEN Len(text) + Cardinality({i \in DOMAIN text : text[i] = "emoji"})
    ELSE Len(text) + TagUnits * Pairs(text)

\* The lines of a text and the text of some lines.
Lines(text) ==
    FoldLeft(LAMBDA ls, r : IF r = "newline" THEN Append(ls, << >>)
                            ELSE [ls EXCEPT ![Len(ls)] = Append(@, r)],
             << << >> >>, text)

Joined(lines) ==
    IF lines = << >> THEN << >>
    ELSE FoldLeft(LAMBDA t, l : t \o <<"newline">> \o l, Head(lines), Tail(lines))

Flush(acc) ==
    IF acc.current = << >> THEN acc
    ELSE [parts |-> Append(acc.parts, Joined(acc.current)), current |-> << >>]

HardSplit(platform, line, limit) ==
    LET cut(acc, r) ==
            IF Measure(platform, Append(acc.current, r)) > limit /\ acc.current # << >>
            THEN [parts |-> Append(acc.parts, acc.current), current |-> <<r>>]
            ELSE [acc EXCEPT !.current = Append(@, r)]
        all == FoldLeft(cut, [parts |-> << >>, current |-> << >>], line)
    IN  IF all.current = << >> THEN all.parts ELSE Append(all.parts, all.current)

\* Mutant: the line that cannot be kept whole is put before the lines waiting.
TakeLineFirst(platform, limit, acc, line) ==
    IF Measure(platform, line) > limit
    THEN [acc EXCEPT !.parts = @ \o HardSplit(platform, line, limit)]
    ELSE LET full == /\ acc.current # << >>
                     /\ Measure(platform, Joined(Append(acc.current, line))) > limit
         IN  [(IF full THEN Flush(acc) ELSE acc) EXCEPT !.current = Append(@, line)]

\* What one line does to the parts so far.
TakeLine(platform, limit, acc, line) ==
    IF Measure(platform, line) > limit
    THEN LET flushed == Flush(acc)
         IN  [flushed EXCEPT !.parts = @ \o HardSplit(platform, line, limit)]
    ELSE LET full == /\ acc.current # << >>
                     /\ Measure(platform, Joined(Append(acc.current, line))) > limit
         IN  [(IF full THEN Flush(acc) ELSE acc) EXCEPT !.current = Append(@, line)]

SplitMessage(platform, text, limit) ==
    IF limit <= 0 \/ Measure(platform, text) <= limit THEN <<text>>
    ELSE Flush(FoldLeft(LAMBDA acc, l : TakeLine(platform, limit, acc, l),
                        [parts |-> << >>, current |-> << >>], Lines(text))).parts

\* Mutant: no room is left for the marker.
PartsToTheLimit(platform, text) == SplitMessage(platform, text, Limit)

\* The parts of a reply: cut again, with room for the marker, if it takes several.
Parts(platform, text) ==
    IF Len(SplitMessage(platform, text, Limit)) > 1
    THEN SplitMessage(platform, text, Limit - Reserve)
    ELSE SplitMessage(platform, text, Limit)

\* What parts should be: each fits, together they are the runes of the text in their
\* order, but for where lines end, and a line that fits is not cut (splitMessage, hardSplit).
Letters(text) == FoldLeft(LAMBDA t, r : IF r = "newline" THEN t ELSE Append(t, r), << >>, text)
AllLetters(parts) == FoldLeft(LAMBDA t, p : t \o Letters(p), << >>, parts)

WellSplit(platform, text, room, parts) ==
    /\ \A i \in DOMAIN parts : Measure(platform, parts[i]) <= room
    /\ AllLetters(parts) = Letters(text)
    /\ \A line \in ToSet(Lines(text)) :
          Measure(platform, line) <= room => \E i \in DOMAIN parts : line \in ToSet(Lines(parts[i]))
=============================================================================
