------------------------------- MODULE PageText -------------------------------
(***************************************************************************)
(* converter.plainTextToLines: the lines of one page.  What the lines say    *)
(* and where they end comes from the engine's plain text; their font and     *)
(* the gaps between them come from rectangles of the same page, of which a   *)
(* line may need several, put together again by their position.             *)
(*                                                                         *)
(* A rectangle is [words, left, right, y, height, size, padded]: its words,  *)
(* trimmed, as a sequence with " " between two of them (empty for a blank     *)
(* one), the middle of its height, in points, the size of its font (0 if     *)
(* the engine knows none), and whether the untrimmed text begins or ends     *)
(* with a space.  The weight of a font is left out: nobody reads it.          *)
(***************************************************************************)
EXTENDS TextRebuild

CONSTANTS
    Spelling,       \* the words of a text, in lower case, with " " between two
    Han             \* words of Chinese characters

ASSUME SpellingAssumption ==
    /\ DOMAIN Spelling = Texts \ {Blank}
    /\ \A t, u \in DOMAIN Spelling : Spelling[t] = Spelling[u] => t = u

Rectangles ==
    [words : Seq(STRING), left : Int, right : Int, y : Int, height : Nat, size : Nat,
     padded : SUBSET {"start", "end"}]

Larger(a, b) == IF a > b THEN a ELSE b

Distance(a, b) == IF a > b THEN a - b ELSE b - a

\* Those of the rectangles that are in a set, in order.
Those(rects, S) == FlattenSeq([i \in DOMAIN rects |-> IF rects[i] \in S THEN <<rects[i]>> ELSE <<>>])

Visible(rects) == Those(rects, {r \in ToSet(rects) : r.words # <<>>})

\* medianRectFontSize: the size in the middle of the known ones.
MedianRectFontSize(rects) == Middle([i \in DOMAIN rects |-> rects[i].size])

\* A rectangle belongs to the row, of the last four, that is next to it; the
\* row stays where its first rectangle was.
SameRow(row, rect) ==
    Distance(row.y, rect.y) * 100 <= Larger(150, 32 * Larger(row.height, rect.height))

Placed(rows, rect) ==
    LET near == {i \in DOMAIN rows : i > Len(rows) - 4 /\ SameRow(rows[i], rect)}
    IN IF near = {} THEN Append(rows, [y |-> rect.y, height |-> rect.height, rects |-> <<rect>>])
       ELSE [rows EXCEPT ![Max(near)].rects = Append(@, rect)]

\* The rows of the visible rectangles, for every number of them.
Rows(rects) ==
    LET visible == Visible(rects)
        rows[n \in 0..Len(visible)] == IF n = 0 THEN <<>> ELSE Placed(rows[n - 1], visible[n])
    IN rows[Len(visible)]

\* sortFragments inserts one after the other: from left to right, and as they
\* came where that is the same.
Inserted(sorted, r) ==
    InsertAt(sorted, Cardinality({i \in DOMAIN sorted : sorted[i].left <= r.left}) + 1, r)

FromLeft(rects) ==
    LET sorted[n \in 0..Len(rects)] == IF n = 0 THEN <<>> ELSE Inserted(sorted[n - 1], rects[n])
    IN sorted[Len(rects)]

\* needsFragmentSpace.
NeedsSpace(a, b) ==
    \/ "end" \in a.padded \/ "start" \in b.padded
    \/ /\ Last(a.words) \notin Han /\ Head(b.words) \notin Han
       /\ Larger(a.size, b.size) > 0
       /\ (b.left - a.right) * 100 > 12 * Larger(a.size, b.size)

\* The words of a row, and the largest of its sizes.
RowWords(rects) ==
    FlattenSeq([k \in DOMAIN rects |->
        IF k > 1 /\ NeedsSpace(rects[k - 1], rects[k]) THEN <<" ">> \o rects[k].words
                                                        ELSE rects[k].words])

RowSize(rects) == Max({rects[k].size : k \in DOMAIN rects})

\* structuredLines: the rows, and where the gap to the row before is wide.
StructuredLines(rects) ==
    LET rows == Rows(rects)
    IN [i \in DOMAIN rows |->
           [words |-> RowWords(FromLeft(rows[i].rects)),
            size |-> RowSize(rows[i].rects),
            breakBefore |-> i > 1 /\ Distance(rows[i].y, rows[i - 1].y) * 100
                                        > 165 * Larger(rows[i].height, rows[i - 1].height)]]

\* The looks of a text: those of the last row that reads the same, or else of
\* what is usual on the page.
Looks(text, rects) ==
    LET structured == StructuredLines(rects)
        same == {k \in DOMAIN structured : structured[k].words = Spelling[text]}
    IN IF same = {} THEN [size |-> MedianRectFontSize(rects), breakBefore |-> FALSE]
       ELSE [size |-> structured[Max(same)].size, breakBefore |-> structured[Max(same)].breakBefore]

\* plainTextToLines: every line of the text that is not blank, with its looks.
PlainTextToLines(text, rects) ==
    LET PendingBreak(i) == /\ i > 1 /\ text[i - 1] = Blank
                           /\ \E k \in 1..(i - 2) : text[k] # Blank
        Line(i) == [text |-> text[i], size |-> Looks(text[i], rects).size,
                    breakBefore |-> PendingBreak(i) \/ Looks(text[i], rects).breakBefore]
    IN FlattenSeq([i \in DOMAIN text |-> IF text[i] = Blank THEN <<>> ELSE <<Line(i)>>])
=============================================================================
