------------------------------ MODULE Conversion ------------------------------
(***************************************************************************)
(* converter.Service: a conversion from the uploaded PDF to a checked EPUB  *)
(* file, page by page, with what it reports on the way.  The cancel of the  *)
(* job's context, by a user, a deadline or a shutdown, may come between any  *)
(* two steps; a call of the PDF engine, a write or the checker may fail.     *)
(*                                                                         *)
(* A page of a PDF is [text, rects, objects]: its lines as the engine reads  *)
(* them, blank ones included, the rectangles of PageText, and its image      *)
(* objects in order, as [name, coverage, thin], with the coverage in         *)
(* thousandths of the page; a thin one is cut to less than eight pixels.     *)
(* Left out: the cover and the metadata, which fail like any call of the     *)
(* engine.                                                                   *)
(***************************************************************************)
EXTENDS PageText

CONSTANTS
    Documents,          \* PDFs, as [protected, outline, pages]
    MaxPages,
    SampleLimit,        \* 8 in the code
    MaxIllustrations,   \* regions looked at on one page
    RequireEPUBCheck    \* a file that was not checked is none

ASSUME ConversionAssumption ==
    /\ MaxPages \in Nat \ {0} /\ SampleLimit \in Nat \ {0, 1}
    /\ MaxIllustrations \in Nat \ {0} /\ RequireEPUBCheck \in BOOLEAN

\* What the engine says of a page, and extractOutline of the bookmarks: those
\* that lead out of the document are dropped.
ASSUME DocumentAssumption ==
    \A d \in Documents :
        /\ d.pages \in Seq(ToSet(d.pages))
        /\ \A i \in DOMAIN d.outline : d.outline[i].page \in DOMAIN d.pages
        /\ \A p \in DOMAIN d.pages :
              /\ d.pages[p].text \in Seq(Texts)
              /\ d.pages[p].rects \in Seq(Rectangles)
              /\ d.pages[p].objects \in Seq([name : STRING, coverage : Nat, thin : BOOLEAN])

Modes == {"auto", "reflowable", "fixed"}

VARIABLES
    pdf, mode,      \* the request
    place,          \* where Convert is
    done,           \* ctx.Done of the job's context
    layout,
    pages,          \* extracted pages, as [lines, images]
    pageImages,     \* rendered pages of a fixed layout
    warnings,       \* as [code, page]
    book,
    file,           \* of the output on disk: "none", "partial" or "whole"
    reported        \* the last [stage, pages] given to the reporter

conversionVars == <<pdf, mode, place, done, layout, pages, pageImages, warnings, book, file, reported>>

NoBook == Book("none", <<>>, <<>>)

ConversionInit ==
    /\ pdf \in Documents /\ mode \in Modes
    /\ place = "preflight" /\ done = FALSE
    /\ layout = "none" /\ pages = <<>> /\ pageImages = <<>> /\ warnings = <<>>
    /\ book = NoBook /\ file = "none"
    /\ reported = [stage |-> "preflight", pages |-> 0]

Ended == place \in {"succeeded", "failed"}

\* The context is canceled.
CancelContext ==
    /\ ~done /\ ~Ended
    /\ done' = TRUE
    /\ UNCHANGED <<pdf, mode, place, layout, pages, pageImages, warnings, book, file, reported>>

\* An early return with an error; an output file is removed first, if that
\* works.  (The manager's clean-up takes the directory later.)
Fail ==
    /\ place' = "failed"
    /\ file' \in {"none", file}
    /\ UNCHANGED <<pdf, mode, done, layout, pages, pageImages, warnings, book, reported>>

-----------------------------------------------------------------------------
(* The choice of a layout. *)

\* samplePageIndexes, counted from 1: first, last, and evenly in between.
SamplePageIndexes(count) ==
    IF count <= SampleLimit THEN 1..count
    ELSE {(i * (count - 1)) \div (SampleLimit - 1) + 1 : i \in 0..(SampleLimit - 1)}

\* imageRegions: image objects that cover enough, until there are too many.
ImageRegions(page) ==
    LET regions[n \in 0..Len(page.objects)] ==
            IF n = 0 THEN <<>>
            ELSE LET found == regions[n - 1] IN
                 IF page.objects[n].coverage >= 25 /\ Len(found) < MaxIllustrations
                 THEN Append(found, page.objects[n]) ELSE found
    IN regions[Len(page.objects)]

Dominated(page) == \E i \in DOMAIN ImageRegions(page) : ImageRegions(page)[i].coverage >= 550

Words(page) ==
    FlattenSeq([i \in DOMAIN page.text |-> IF page.text[i] = Blank THEN <<>> ELSE <<page.text[i]>>])

Textless(page) == Words(page) = <<>>

\* shouldUseFixedLayout, for the sampled pages.
ShouldUseFixedLayout(samples) ==
    LET n == Cardinality(samples)
        dominated == Cardinality({p \in samples : Dominated(pdf.pages[p])})
        empty == Cardinality({p \in samples : Textless(pdf.pages[p])})
        SameText(p) == Cardinality({q \in samples : Words(pdf.pages[q]) = Words(pdf.pages[p])})
        overlay == \E p \in samples : ~Textless(pdf.pages[p]) /\ SameText(p) * 5 >= n * 4
    IN /\ n > 0
       /\ dominated * 5 >= n * 3
       /\ empty * 2 >= n \/ (n >= 2 /\ overlay)

ImageBased == ShouldUseFixedLayout(SamplePageIndexes(Len(pdf.pages)))

Acceptable == ~pdf.protected /\ Len(pdf.pages) \in 1..MaxPages

\* extract, up to its loops: the checks of the document and selectLayout.
Open ==
    /\ place = "preflight"
    /\ Acceptable /\ ~(mode = "reflowable" /\ ImageBased)
    /\ layout' = IF mode = "fixed" \/ (mode = "auto" /\ ImageBased) THEN "fixed" ELSE "reflowable"
    /\ warnings' = IF layout' = "reflowable" THEN <<>>
                   ELSE <<[code |-> IF mode = "auto" THEN "layout.fixed_auto_selected"
                                    ELSE "layout.fixed_selected", page |-> 0]>>
    /\ place' = "extracting"
    /\ UNCHANGED <<pdf, mode, done, pages, pageImages, book, file, reported>>

-----------------------------------------------------------------------------
(* Extraction. *)

Extracted == Len(pages) + Len(pageImages)

Remaining == place = "extracting" /\ Extracted < Len(pdf.pages)

\* The first report of an iteration; the context is looked at before.
BeginPage ==
    /\ Remaining /\ ~done
    /\ reported' = [stage |-> "extracting", pages |-> Extracted]
    /\ place' = "page"
    /\ UNCHANGED <<pdf, mode, done, layout, pages, pageImages, warnings, book, file>>

\* Mutated form: the first page is no exception, and no other is tested.
MissingTextFirstOnly(page, index) ==
    Textless(page) /\ index = 1 /\ (ImageRegions(page) = <<>> \/ Dominated(page))

\* A page without text is refused if it is a scan or has no image either;
\* not so the first, which becomes the cover.
MissingText(page, index) ==
    Textless(page) /\ index > 1 /\ (ImageRegions(page) = <<>> \/ Dominated(page))

\* renderRegions: the pictures cut out, but for those that are too thin.
CutImages(page) ==
    LET regions == ImageRegions(page)
    IN FlattenSeq([i \in DOMAIN regions |->
           IF regions[i].thin THEN <<>> ELSE <<regions[i].name>>])

\* extractPage of a reflowable document.
ExtractPage ==
    LET index == Extracted + 1
        page == pdf.pages[index] IN
    /\ place = "page" /\ layout = "reflowable"
    /\ ~MissingText(page, index)
    /\ pages' = Append(pages, [lines |-> PlainTextToLines(page.text, page.rects),
                               images |-> CutImages(page)])
    /\ warnings' = IF ImageRegions(page) = <<>> THEN warnings
                   ELSE Append(warnings, [code |-> "content.image_position_approximated",
                                          page |-> index])
    /\ reported' = [reported EXCEPT !.pages = index]
    /\ place' = "extracting"
    /\ UNCHANGED <<pdf, mode, done, layout, pageImages, book, file>>

\* renderFixedPage of one with a fixed layout; the image is named by its page.
RenderFixedPage ==
    /\ place = "page" /\ layout = "fixed"
    /\ pageImages' = Append(pageImages, Extracted + 1)
    /\ reported' = [reported EXCEPT !.pages = Extracted + 1]
    /\ place' = "extracting"
    /\ UNCHANGED <<pdf, mode, done, layout, pages, warnings, book, file>>

-----------------------------------------------------------------------------
(* The book and its file. *)

\* Mutated form: only the pages of a reflowable document are counted.
CountedOnlyText == Len(pages)

\* The pages reported with the stage rebuilding.
Counted == Len(pages) + Len(pageImages)

\* The rest of Convert up to Write; the context is looked at once more.
RebuildBook ==
    /\ place = "extracting" /\ Extracted = Len(pdf.pages) /\ ~done
    /\ reported' = [stage |-> "rebuilding", pages |-> Counted]
    /\ book' = IF layout = "fixed" THEN FixedLayoutBook(pageImages, pdf.outline)
               ELSE Rebuild(pages, pdf.outline)
    /\ place' = "rebuilt"
    /\ UNCHANGED <<pdf, mode, done, layout, pages, pageImages, warnings, file>>

\* Write leaves the whole file or, unless its removal fails, too, none.
WriteFile ==
    /\ place = "rebuilt"
    /\ reported' = [stage |-> "packaging", pages |-> Len(book.sections)]
    /\ \/ file' = "whole" /\ place' = "written"
       \/ file' \in {"none", "partial"} /\ place' = "failed"
    /\ UNCHANGED <<pdf, mode, done, layout, pages, pageImages, warnings, book>>

\* ValidateStructure reads the file back.
ValidateStructure ==
    /\ place = "written"
    /\ \/ /\ reported' = [stage |-> "validating", pages |-> Len(book.sections)]
          /\ place' = "validating"
          /\ UNCHANGED <<pdf, mode, done, layout, pages, pageImages, warnings, book, file>>
       \/ Fail

\* validateEPUB runs EPUBCheck under the context.  Without a command, or without
\* one that is found, there is no check unless one is required, and no look at
\* the context, either.
ValidateEPUB ==
    /\ place = "validating" /\ (RequireEPUBCheck => ~done)
    /\ place' = "checked"
    /\ UNCHANGED <<pdf, mode, done, layout, pages, pageImages, warnings, book, file, reported>>

\* Stat finds the file.  Nobody looks at the context any more: a conversion
\* may succeed although it is canceled.
Succeed ==
    /\ place = "checked"
    /\ place' = "succeeded"
    /\ UNCHANGED <<pdf, mode, done, layout, pages, pageImages, warnings, book, file, reported>>

\* Stat fails, and the file stays where it is.
StatFails ==
    /\ place = "checked"
    /\ place' = "failed"
    /\ UNCHANGED <<pdf, mode, done, layout, pages, pageImages, warnings, book, file, reported>>

\* A call of the engine or the checker fails, a document or a page is refused,
\* or a look at the context finds it canceled.
Stop ==
    /\ place \in {"preflight", "page", "validating"} \/ (place = "extracting" /\ done)
    /\ Fail

ConversionNext ==
    \/ CancelContext
    \/ Open \/ BeginPage \/ ExtractPage \/ RenderFixedPage
    \/ RebuildBook \/ WriteFile \/ ValidateStructure \/ ValidateEPUB
    \/ Succeed \/ StatFails \/ Stop

ConversionSpec == ConversionInit /\ [][ConversionNext]_conversionVars

-----------------------------------------------------------------------------
(* Properties. *)

Built == place \in {"rebuilt", "written", "validating", "checked", "succeeded"}

TextOf(section) ==
    FlattenSeq([k \in DOMAIN section.blocks |->
        IF section.blocks[k].kind = "image" THEN <<>> ELSE section.blocks[k].text])

\* The lines of a page without the page numbers and running titles at its edges.
Kept(p) ==
    LET Texted(page) == [lines |-> [i \in DOMAIN Words(page) |-> [text |-> Words(page)[i]]]]
        running == RepeatedMargins([q \in DOMAIN pdf.pages |-> Texted(pdf.pages[q])])
        kept == CleanLines(Texted(pdf.pages[p]).lines, running)
    IN [i \in DOMAIN kept |-> kept[i].text]

IsHeadingOf(section, text) ==
    \E k \in DOMAIN section.blocks :
        section.blocks[k].kind = "heading" /\ section.blocks[k].text = <<text>>

\* A list item that does not make a heading is told without its marker.
Delivered(p) ==
    LET kept == Kept(p)
        Item(t) == t \in ListPrefixed /\ ~IsHeadingOf(book.sections[p], t)
    IN [i \in DOMAIN kept |-> IF Item(kept[i]) THEN ItemText[kept[i]] ELSE kept[i]]

\* Neither the look at a page nor Rebuild drops, repeats or swaps a line,
\* whatever fragments and blocks the lines are put together from and to, and
\* joined to across pages: read from the first section to the last, a
\* reflowable book has the lines of the PDF, but for page numbers and running
\* titles at the edges of pages.  Of a list item it loses the marker or number
\* and nothing else, and a heading keeps what looks like one.
NothingIsLost ==
    Built /\ layout = "reflowable" =>
        FlattenSeq([k \in DOMAIN book.sections |-> TextOf(book.sections[k])])
            = FlattenSeq([p \in DOMAIN pdf.pages |-> Delivered(p)])

SetLarge(size) == LET median == MedianSize(pages) IN median > 0 /\ size * 100 >= median * 128

\* Two rectangles are level if they are to a quarter of their height, and apart
\* if they are not by half of it.
Level(a, b) == Distance(a.y, b.y) * 4 <= Larger(a.height, b.height)

Apart(a, b) == Distance(a.y, b.y) >= 2 /\ Distance(a.y, b.y) * 2 > Larger(a.height, b.height)

\* A page is laid out clearly if its lines keep apart and the parts of each come
\* one after the other, in any order.
Clear(rects) ==
    LET visible == Visible(rects)
        Same(i, j) == Level(visible[i], visible[j])
    IN \A i, j \in DOMAIN visible :
           /\ Same(i, j) \/ Apart(visible[i], visible[j])
           /\ \A k \in DOMAIN visible :
                 /\ Same(i, j) /\ Same(j, k) => Same(i, k)
                 /\ i < j /\ j < k /\ Same(i, k) => Same(i, j)

\* The line a rectangle stands on, all of its parts, wherever they are.
OnLine(rects, r) ==
    LET visible == Visible(rects) IN Those(visible, {s \in ToSet(visible) : Level(r, s)})

\* Every heading is one by its words, or because a part of it is set large, or,
\* if no line is known to read like it, the middle of its page; and on a page that is
\* laid out clearly, a line of which a part is set large wherever it stands is a
\* heading if it may be one.
HeadingsStandOut ==
    Built /\ layout = "reflowable" => \A p \in DOMAIN pdf.pages :
        LET rects == pdf.pages[p].rects
            visible == ToSet(Visible(rects))
            Reads(t) == {r \in visible : RowWords(FromLeft(OnLine(rects, r))) = Spelling[t]}
        IN \A t \in ToSet(Kept(p)) :
            /\ IsHeadingOf(book.sections[p], t) =>
                  \/ t \in HeadingPrefixed
                  \/ \E r \in visible : SetLarge(r.size) /\ ToSet(r.words) \subseteq ToSet(Spelling[t])
                  \/ /\ SetLarge(MedianRectFontSize(rects))
                     /\ \A line \in ToSet(StructuredLines(rects)) : line.words # Spelling[t]
            /\ /\ t \notin NeverHeadings /\ Clear(rects) /\ Reads(t) # {}
               /\ \A r \in Reads(t) : \E s \in ToSet(OnLine(rects, r)) : SetLarge(s.size)
               => IsHeadingOf(book.sections[p], t)

\* Every entry of the table of contents leads to the section of its page, and
\* an entry that was inferred to one with its heading, although paragraphs move
\* between sections when pages are joined.
EntriesLeadToHeadings ==
    Built => \A i \in DOMAIN book.outline :
        LET entry == book.outline[i]
            target == book.sections[SectionIndexForPage(book.sections, entry.page)]
        IN /\ target.page = entry.page
           /\ pdf.outline = <<>> /\ entry.title # MainText => IsHeadingOf(target, entry.title)

\* The table of contents leads to the headings, and the headings are those of the
\* PDF, although they are told by fonts that the engine gives for fragments.
OutlineLeadsToHeading == EntriesLeadToHeadings /\ HeadingsStandOut

StageOrder == <<"preflight", "extracting", "rebuilding", "packaging", "validating">>

StageIndex(stage) == CHOOSE i \in DOMAIN StageOrder : StageOrder[i] = stage

\* What the user sees of the progress never goes back: neither the stage nor,
\* in either layout, the number of processed pages.
ProgressMovesOn ==
    [][/\ StageIndex(reported.stage) <= StageIndex(reported'.stage)
       /\ reported.pages <= reported'.pages]_conversionVars

Large(page) == {i \in DOMAIN page.objects : page.objects[i].coverage >= 25}

\* A success, whether of a canceled conversion or not, leaves the whole file,
\* with one section for every page, in order, and there is no scanned page in a
\* reflowable book (after the first, and as far as MaxIllustrations lets it look).
DeliveredIsComplete ==
    place = "succeeded" =>
        /\ file = "whole"
        /\ [k \in DOMAIN book.sections |-> book.sections[k].page]
               = [p \in DOMAIN pdf.pages |-> p]
        /\ layout = "reflowable" => \A p \in DOMAIN pdf.pages \ {1} :
              LET page == pdf.pages[p] IN
              Textless(page) /\ Cardinality(Large(page)) <= MaxIllustrations =>
                  \A i \in Large(page) : page.objects[i].coverage < 550

\* Violated: the pictures of a page are kept, or a warning other than the one
\* that says they are kept is shown.  The look at a page's objects ends at the
\* limit, without a trace of what comes after it.
IllustrationsAreKept ==
    place = "succeeded" /\ layout = "reflowable" => \A p \in DOMAIN pdf.pages :
        LET page == pdf.pages[p] IN
        \A i \in Large(page) :
            \/ \E k \in DOMAIN book.sections[p].blocks :
                  /\ book.sections[p].blocks[k].kind = "image"
                  /\ book.sections[p].blocks[k].text = <<page.objects[i].name>>
            \/ \E w \in DOMAIN warnings :
                  /\ warnings[w].page = p
                  /\ warnings[w].code # "content.image_position_approximated"

=============================================================================
