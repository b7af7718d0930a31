---------------------------- MODULE MCConversion ----------------------------
(***************************************************************************)
(* Conversion of all documents of up to three pages from a catalogue: pages  *)
(* that begin in the middle of a paragraph, with headings told by words and   *)
(* by size, in fragments, lists, page numbers, a running title (three pages  *)
(* make it one), blank pages, scans, scans under a watermark, and            *)
(* illustrations.                                                            *)
(***************************************************************************)
EXTENDS Conversion

Rect(words, left, right, y, size) ==
    [words |-> words, left |-> left, right |-> right, y |-> y, height |-> 10, size |-> size,
     padded |-> {}]

Object(name, coverage, thin) == [name |-> name, coverage |-> coverage, thin |-> thin]

MCTexts == {"", "title", "7", "1. item", "item", "Chapter 1", "Big", "prose", "more", "end."}

MCSpelling ==
    [t \in MCTexts \ {""} |->
        CASE t = "Chapter 1" -> <<"chapter", " ", "1">>
          [] t = "1. item" -> <<"1.", " ", "item">>
          [] t = "Big" -> <<"bi", "g">>
          [] OTHER -> <<t>>]

MCItemText == [t \in {"1. item"} |-> "item"]

PageWith(text, rects, objects) == [text |-> text, rects |-> rects, objects |-> objects]

MCPages == {
    \* A heading by its words, in two parts.
    PageWith(<<"title", "Chapter 1", "prose">>,
             <<Rect(<<"title">>, 0, 20, 100, 10), Rect(<<"chapter">>, 0, 30, 88, 10),
               Rect(<<"1">>, 34, 38, 88, 10), Rect(<<"prose">>, 0, 20, 76, 10)>>, <<>>),
    \* A blank line, and a line the rectangles do not know.
    PageWith(<<"title", "more", "", "prose", "7">>,
             <<Rect(<<"title">>, 0, 20, 100, 10), Rect(<<"pro">>, 0, 10, 88, 10),
               Rect(<<"7">>, 40, 44, 20, 10)>>, <<>>),
    \* A gap instead of a blank line; a padded rectangle; one without a font.
    PageWith(<<"more", "1. item", "end.", "more">>,
             <<[Rect(<<"1.">>, 0, 6, 88, 10) EXCEPT !.padded = {"end"}],
               Rect(<<"item">>, 6, 20, 88, 10), Rect(<<>>, 0, 1, 70, 30),
               Rect(<<"end.">>, 0, 20, 64, 0)>>,
             <<Object("tiny", 10, FALSE), Object("figure", 300, FALSE)>>),
    \* A large line whose parts come from right to left and not quite level,
    \* between lines that read the same.
    PageWith(<<"title", "Big", "end.", "more", "more">>,
             <<Rect(<<"title">>, 0, 20, 100, 10), Rect(<<"g">>, 11, 15, 86, 15),
               Rect(<<"bi">>, 0, 11, 88, 15), Rect(<<"end.">>, 0, 20, 72, 18),
               Rect(<<"more">>, 0, 20, 60, 15), Rect(<<"more">>, 0, 20, 48, 10),
               Rect(<<>>, 0, 20, 36, 10), Rect(<<>>, 0, 20, 24, 10),
               Rect(<<>>, 0, 20, 12, 10)>>, <<>>),
    \* One that is level, with a part that is not large.
    PageWith(<<"Big", "prose", "more">>,
             <<Rect(<<"bi">>, 0, 11, 88, 15), Rect(<<"g">>, 11, 15, 88, 10),
               Rect(<<"prose">>, 0, 20, 70, 10), Rect(<<"more">>, 0, 20, 58, 10),
               Rect(<<>>, 0, 20, 46, 10)>>, <<>>),
    \* Lines in large letters that no part of the page is known to have; one
    \* could be of a list.
    PageWith(<<"more", "1. item">>, <<Rect(<<"mo">>, 0, 10, 88, 15)>>, <<>>),
    \* A large line that the next one comes too close to.
    PageWith(<<"Big", "prose", "more", "title">>,
             <<Rect(<<"bi">>, 0, 11, 88, 15), Rect(<<"g">>, 11, 15, 88, 15),
               Rect(<<"prose">>, 0, 20, 85, 10), Rect(<<"more">>, 0, 20, 66, 10),
               Rect(<<"title">>, 0, 20, 54, 10)>>, <<>>),
    PageWith(<<>>, <<>>, <<>>),
    PageWith(<<"">>, <<>>, <<Object("scan", 1000, FALSE)>>),
    PageWith(<<"prose">>, <<>>, <<Object("scan", 1000, FALSE)>>),
    PageWith(<<>>, <<>>, <<Object("hairline", 30, TRUE), Object("photo", 200, FALSE)>>) }

PDFs(lengths) ==
    [protected : {FALSE}, outline : {<<>>}, pages : UNION {[1..n -> MCPages] : n \in lengths}]

\* A bookmark leads to the last page; a protected and an empty PDF are refused.
MCDocuments ==
    PDFs(1..3)
        \cup {[protected |-> FALSE, pages |-> ps,
               outline |-> <<[title |-> "Bookmark", page |-> Len(ps), level |-> 1]>>] :
                  ps \in [1..2 -> MCPages]}
        \cup [protected : {TRUE}, outline : {<<>>}, pages : [1..1 -> MCPages]]
        \cup [protected : {FALSE}, outline : {<<>>}, pages : {<<>>}]

\* What the code takes for the middle: the known sizes are sorted, and the one
\* at half their number (counted from 0) is picked.
MiddleOfSorted(sizes) ==
    LET known == SortSeq(SelectSeq(sizes, LAMBDA n : n > 0), LAMBDA a, b : a < b)
    IN IF known = <<>> THEN 0 ELSE known[Len(known) \div 2 + 1]

ASSUME MiddleIsPicked ==
    \A n \in 0..6 : \A sizes \in [1..n -> 0..3] : Middle(sizes) = MiddleOfSorted(sizes)

\* A page with two illustrations, where one is the limit.
MCGallery ==
    [protected : {FALSE}, outline : {<<>>},
     pages : UNION {[1..n -> {page \in MCPages : ~Textless(page)}
         \cup {PageWith(<<"prose">>, <<>>,
                        <<Object("left", 200, FALSE), Object("right", 200, FALSE)>>)}] : n \in 1..2}]
=============================================================================
