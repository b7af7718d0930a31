----------------------------- MODULE TextRebuild -----------------------------
(***************************************************************************)
(* Package conversion: how the lines of a document become the sections of a *)
(* book, for both layouts, and where the entries of the outline lead to     *)
(* (package epub).  Pure functions, without a state of their own.           *)
(*                                                                         *)
(* A text is a value that stands for the trimmed, normalised words of a      *)
(* line; sets say how the code's patterns see it, and a function what is left *)
(* of a list item without its marker or number.  The text of a block is      *)
(* the sequence of the texts joined in it: the spaces and hyphens that       *)
(* joinVisualLines settles between two lines are left out, and so are the    *)
(* language, the fonts' names and the size of an image.                     *)
(***************************************************************************)
EXTENDS Integers, FiniteSets, SequencesExt

CONSTANTS
    Texts,
    Blank,              \* the text of an empty line
    PageNumbers,        \* texts matched by pageNumber,
    ListPrefixed,       \* by listPrefix,
    ItemText,           \* text -> what listPrefix leaves of it, once
    HeadingPrefixed,    \* and by headingPrefix
    NeverHeadings,      \* texts too long for a heading or ended by a full stop
    MainText,           \* the outline entry of a book without headings
    OutlineLimit        \* inferred entries at most

ASSUME TextAssumption ==
    /\ Blank \in Texts /\ MainText \notin Texts
    /\ {PageNumbers, ListPrefixed, HeadingPrefixed, NeverHeadings} \subseteq SUBSET (Texts \ {Blank})
    /\ ItemText \in [ListPrefixed -> Texts \ {Blank}]
    /\ OutlineLimit \in Nat \ {0}

\* A line is [text, size, breakBefore]; a page is [lines, images], with the
\* images that were cut out of it; a block is [kind, text, level].
Block(kind, text, level) == [kind |-> kind, text |-> text, level |-> level]

AtMargin(lines, i) == i \in {1, Len(lines)}

\* repeatedMargins: the texts that begin or end enough of the pages.
RepeatedMargins(pages) ==
    LET Margins(page) == {page.lines[i].text : i \in {j \in DOMAIN page.lines : AtMargin(page.lines, j)}}
        Count(t) == Cardinality({p \in DOMAIN pages : t \in Margins(pages[p])})
        fraction == (Len(pages) * 3 + 4) \div 5
        threshold == IF fraction > 3 THEN fraction ELSE 3
    IN {t \in Texts \ {Blank} : Count(t) >= threshold}

Removed(lines, i, repeated) ==
    \/ lines[i].text = Blank
    \/ AtMargin(lines, i) /\ lines[i].text \in PageNumbers \cup repeated

CleanLines(lines, repeated) ==
    FlattenSeq([i \in DOMAIN lines |-> IF Removed(lines, i, repeated) THEN <<>> ELSE <<lines[i]>>])

\* The size in the middle of the known ones, which are positive, when they are
\* sorted: the smallest that more than half of them do not exceed.  0 if none is
\* known.
Middle(sizes) ==
    LET known == {i \in DOMAIN sizes : sizes[i] > 0}
        Within(v) == {i \in known : sizes[i] <= v}
    IN IF known = {} THEN 0
       ELSE Min({v \in ToSet(sizes) : Cardinality(Within(v)) * 2 > Cardinality(known)})

\* medianFontSize, of all lines of the document.
MedianSize(pages) ==
    Middle(FlattenSeq([p \in DOMAIN pages |->
               [i \in DOMAIN pages[p].lines |-> pages[p].lines[i].size]]))

IsHeading(line, median) ==
    /\ line.text \notin NeverHeadings
    /\ \/ line.text \in HeadingPrefixed
       \/ median > 0 /\ line.size * 100 >= median * 128

HeadingLevel(line, median) ==
    IF median > 0 /\ line.size * 100 >= median * 180 THEN 1
    ELSE IF median > 0 /\ line.size * 100 >= median * 145 THEN 2 ELSE 3

KindOf(line, median) ==
    IF IsHeading(line, median) THEN "heading"
    ELSE IF line.text \in ListPrefixed THEN "list_item" ELSE "paragraph"

\* Headings and list items are single lines; a paragraph goes on until one of
\* them, a break, or the end of the page.
StartsBlock(lines, i, median) ==
    \/ i = 1
    \/ lines[i].breakBefore
    \/ KindOf(lines[i], median) # "paragraph"
    \/ KindOf(lines[i - 1], median) # "paragraph"

\* A list item is told without its marker; the book has a bullet of its own.
Wording(line, median) ==
    IF KindOf(line, median) = "list_item" THEN ItemText[line.text] ELSE line.text

BlockOf(line, median) ==
    Block(KindOf(line, median), <<Wording(line, median)>>,
          IF IsHeading(line, median) THEN HeadingLevel(line, median) ELSE 0)

WithLine(blocks, line) == [blocks EXCEPT ![Len(blocks)].text = Append(@, line.text)]

\* The blocks of the first lines, for every number of them.
TextBlocks(lines, median) ==
    LET blocks[n \in 0..Len(lines)] ==
            IF n = 0 THEN <<>>
            ELSE IF StartsBlock(lines, n, median)
            THEN Append(blocks[n - 1], BlockOf(lines[n], median))
            ELSE WithLine(blocks[n - 1], lines[n])
    IN blocks[Len(lines)]

ImageBlocks(images) == [i \in DOMAIN images |-> Block("image", <<images[i]>>, 0)]

\* Mutated form: the paragraph joined to the page before stays.
RestUncut(section) == section

\* What is left of a page whose first paragraph went to the page before.
Rest(section) == [section EXCEPT !.blocks = Tail(@)]

\* mergeAcrossPage: a page that begins with a paragraph goes on with the one
\* the page before ends with, and gives it up.
WithSection(sections, section) ==
    LET n == Len(sections)
        last == sections[n].blocks
        joined == Append(Front(last), [Last(last) EXCEPT !.text = @ \o Head(section.blocks).text])
    IN IF /\ n > 0 /\ section.blocks # <<>> /\ Head(section.blocks).kind = "paragraph"
          /\ last # <<>> /\ Last(last).kind = "paragraph"
       THEN Append([sections EXCEPT ![n].blocks = joined], Rest(section))
       ELSE Append(sections, section)

\* The entries for the headings of a section.
HeadingEntries(section) ==
    LET Entry(b) == [title |-> Head(b.text), page |-> section.page, level |-> b.level]
        blocks == section.blocks
    IN FlattenSeq([k \in DOMAIN blocks |->
           IF blocks[k].kind = "heading" THEN <<Entry(blocks[k])>> ELSE <<>>])

\* inferOutline.
InferOutline(sections) ==
    LET all == FlattenSeq([k \in DOMAIN sections |-> HeadingEntries(sections[k])])
    IN IF all = <<>> /\ sections # <<>>
       THEN <<[title |-> MainText, page |-> sections[1].page, level |-> 1]>>
       ELSE SubSeq(all, 1, IF Len(all) < OutlineLimit THEN Len(all) ELSE OutlineLimit)

Book(layout, sections, outline) == [layout |-> layout, sections |-> sections, outline |-> outline]

\* A page by itself.
Section(pages, p) ==
    [page |-> p,
     blocks |-> TextBlocks(CleanLines(pages[p].lines, RepeatedMargins(pages)), MedianSize(pages))
                    \o ImageBlocks(pages[p].images)]

\* The pages one after the other.
Sections(pages) ==
    LET sections[n \in 0..Len(pages)] ==
            IF n = 0 THEN <<>> ELSE WithSection(sections[n - 1], Section(pages, n))
    IN sections[Len(pages)]

Rebuild(pages, outline) ==
    LET sections == Sections(pages)
    IN Book("reflowable", sections, IF outline = <<>> THEN InferOutline(sections) ELSE outline)

\* FixedLayoutBook: one image to a section.
FixedLayoutBook(pageImages, outline) ==
    LET sections == [p \in DOMAIN pageImages |->
                        [page |-> p, blocks |-> ImageBlocks(<<pageImages[p]>>)]]
    IN Book("fixed", sections,
            IF outline = <<>> /\ sections # <<>>
            THEN <<[title |-> MainText, page |-> 1, level |-> 1]>> ELSE outline)

\* Mutated form: the first section after the page.
SectionIndexAfterPage(sections, page) ==
    LET from == {k \in DOMAIN sections : sections[k].page > page}
    IN IF from = {} THEN Len(sections) ELSE CHOOSE k \in from : \A l \in from : k <= l

\* sectionIndexForPage, counted from 1: where an entry of the outline leads to.
SectionIndexForPage(sections, page) ==
    LET from == {k \in DOMAIN sections : sections[k].page >= page}
    IN IF from = {} THEN Len(sections) ELSE CHOOSE k \in from : \A l \in from : k <= l

=============================================================================
