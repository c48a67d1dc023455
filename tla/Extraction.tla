----------------------------- MODULE Extraction -----------------------------
(***************************************************************************)
(* Text extraction: document_processing/pdf_parser.py.  One step is one    *)
(* call into PyMuPDF or one turn of the loop that finds the reading order; *)
(* the child process the parser runs in may be killed between any two.     *)
(*                                                                         *)
(* A page is its layout blocks, numbered as PyMuPDF lists them.  A block   *)
(* is its horizontal extent, its top edge and whether cleaning its text    *)
(* leaves anything.  A file is its size, its first bytes and what PyMuPDF  *)
(* says of the rest, the same at upload and in the worker, which checks    *)
(* the stored bytes against the hash of the uploaded ones.                 *)
(***************************************************************************)
EXTENDS Naturals, Sequences, FiniteSets, SequencesExt

CONSTANTS
    Pdfs,       \* files
    PageWidth,  \* width of every page
    Slack       \* the width times _GUTTER_TOLERANCE

Block == {b \in [x0 : 0..PageWidth, x1 : 0..PageWidth, y0 : Nat, image : BOOLEAN, blank : BOOLEAN] :
            b.x0 < b.x1}

IsPdf(f) ==
    /\ f.size \in Nat /\ {f.magic, f.opens, f.locked} \subseteq BOOLEAN
    /\ f.pages \in Seq(Seq(Block))

ASSUME ExtractionAssumption ==
    /\ PageWidth \in Nat /\ Slack \in Nat
    /\ \A f \in Pdfs : IsPdf(f)

VARIABLES
    pdf,       \* the file
    maxPages,  \* MAX_PDF_PAGES as this worker was started with it
    phase,     \* "idle" until the parser is called, "open", "load", "walk", "done"
    outcome,   \* how the extraction ended
    todo,      \* blocks of this page not yet walked past
    left,      \* left-column blocks of the open band
    right,     \* right-column blocks of the open band
    ordered,   \* this page's blocks read so far
    pages      \* the finished pages

page == <<todo, left, right, ordered>>
extraction == <<pdf, maxPages, phase, outcome, page, pages>>

InitExtraction ==
    /\ phase = "idle" /\ outcome = "running"
    /\ todo = {} /\ left = {} /\ right = {} /\ ordered = <<>>
    /\ pages = <<>>

-----------------------------------------------------------------------------
(* reading_order                                                           *)

\* The page being read.
Page == Len(pages) + 1

\* sorted(key = (y0, x0)), which is stable.
Above(p, a, b) ==
    LET y == pdf.pages[p]
    IN  \/ y[a].y0 < y[b].y0
        \/ y[a].y0 = y[b].y0 /\ y[a].x0 < y[b].x0
        \/ y[a].y0 = y[b].y0 /\ y[a].x0 = y[b].x0 /\ a < b

\* Extends past the middle on both sides by more than the slack.
CrossesMiddle(p, b) == /\ 2 * pdf.pages[p][b].x0 < PageWidth - 2 * Slack
                       /\ 2 * pdf.pages[p][b].x1 > PageWidth + 2 * Slack

InLeftColumn(p, b) == /\ ~CrossesMiddle(p, b)
                      /\ 2 * pdf.pages[p][b].x1 <= PageWidth + 2 * Slack

Sorted(bs) ==
    CHOOSE q \in [1..Cardinality(bs) -> bs] :
        \A i, j \in DOMAIN q : i < j => Above(Page, q[i], q[j])

\* close_band: the left column from the top, then the right one.
Band(ls, rs) == Sorted(ls) \o Sorted(rs)

\* Mutant: a full-width block is read before the columns above it.
WalkEarly ==
    LET b == CHOOSE x \in todo : \A y \in todo \ {x} : Above(Page, x, y)
    IN  /\ phase = "walk" /\ todo # {}
        /\ todo' = todo \ {b}
        /\ \/ /\ CrossesMiddle(Page, b)
              /\ ordered' = Append(ordered, b)
              /\ UNCHANGED <<left, right>>
           \/ InLeftColumn(Page, b) /\ left' = left \cup {b} /\ UNCHANGED <<right, ordered>>
           \/ /\ ~CrossesMiddle(Page, b) /\ ~InLeftColumn(Page, b)
              /\ right' = right \cup {b} /\ UNCHANGED <<left, ordered>>
        /\ UNCHANGED <<pdf, maxPages, phase, outcome, pages>>

\* The loop down the page: a full-width block closes the band above it.
Walk ==
    LET b == CHOOSE x \in todo : \A y \in todo \ {x} : Above(Page, x, y)
    IN  /\ phase = "walk" /\ todo # {}
        /\ todo' = todo \ {b}
        /\ \/ /\ CrossesMiddle(Page, b)
              /\ ordered' = Append(ordered \o Band(left, right), b)
              /\ left' = {} /\ right' = {}
           \/ InLeftColumn(Page, b) /\ left' = left \cup {b} /\ UNCHANGED <<right, ordered>>
           \/ /\ ~CrossesMiddle(Page, b) /\ ~InLeftColumn(Page, b)
              /\ right' = right \cup {b} /\ UNCHANGED <<left, ordered>>
        /\ UNCHANGED <<pdf, maxPages, phase, outcome, pages>>

-----------------------------------------------------------------------------
(* extract_pdf_text, in its process.                                       *)

End(o) == phase' = "done" /\ outcome' = o

\* Mutant: the worker trusts the page count that the upload recorded.
OpenTrusting ==
    /\ phase = "open"
    /\ IF ~pdf.opens THEN End("open_failed")
       ELSE IF pdf.locked THEN End("encrypted")
       ELSE IF Len(pdf.pages) < 1 THEN End("open_failed")
       ELSE phase' = "load" /\ UNCHANGED outcome
    /\ UNCHANGED <<pdf, maxPages, page, pages>>

\* Open, needs_pass and the page count, in that order.
Open ==
    /\ phase = "open"
    /\ IF ~pdf.opens THEN End("open_failed")
       ELSE IF pdf.locked THEN End("encrypted")
       ELSE IF Len(pdf.pages) < 1 THEN End("open_failed")
       ELSE IF Len(pdf.pages) > maxPages THEN End("page_limit_exceeded")
       ELSE phase' = "load" /\ UNCHANGED outcome
    /\ UNCHANGED <<pdf, maxPages, page, pages>>

\* _page_blocks: images, and blocks with nothing left to read, are not blocks.
Kept(p) == {b \in DOMAIN p : ~p[b].image /\ ~p[b].blank}

\* load_page and its blocks; any exception ends the whole extraction.
LoadPage ==
    /\ phase = "load" /\ Len(pages) < Len(pdf.pages)
    /\ \/ phase' = "walk" /\ todo' = Kept(pdf.pages[Page]) /\ UNCHANGED <<left, right, ordered, outcome>>
       \/ End("parse_failed") /\ UNCHANGED page
    /\ UNCHANGED <<pdf, maxPages, pages>>

\* Mutant: the last band of a page is never closed.
EndPageOpen ==
    /\ phase = "walk" /\ todo = {}
    /\ pages' = Append(pages, ordered)
    /\ ordered' = <<>> /\ left' = {} /\ right' = {}
    /\ phase' = "load"
    /\ UNCHANGED <<pdf, maxPages, outcome, todo>>

EndPage ==
    /\ phase = "walk" /\ todo = {}
    /\ pages' = Append(pages, ordered \o Band(left, right))
    /\ ordered' = <<>> /\ left' = {} /\ right' = {}
    /\ phase' = "load"
    /\ UNCHANGED <<pdf, maxPages, outcome, todo>>

Finish ==
    /\ phase = "load" /\ Len(pages) = Len(pdf.pages)
    /\ End("extracted")
    /\ UNCHANGED <<pdf, maxPages, page, pages>>

\* The budget runs out, the process dies, or the job is cancelled: nothing of the
\* process' work comes back (PyMuPDFTextExtractor.extract).
Killed ==
    /\ phase \notin {"idle", "done"}
    /\ \E o \in {"timeout", "parser_unavailable", "cancelled"} : End(o)
    /\ todo' = {} /\ left' = {} /\ right' = {} /\ ordered' = <<>> /\ pages' = <<>>
    /\ UNCHANGED <<pdf, maxPages>>

Extract == Open \/ LoadPage \/ Walk \/ EndPage \/ Finish \/ Killed

-----------------------------------------------------------------------------
(* Properties.                                                             *)

\* How a person reads a two-column page: past a full-width block only downwards,
\* and between two of them the left column before the right one.
ReadBefore(p, a, b) ==
    LET parted(x, y) == \E c \in Kept(pdf.pages[p]) :
            CrossesMiddle(p, c) /\ (c = x \/ Above(p, x, c)) /\ (c = y \/ Above(p, c, y))
    IN  \/ parted(a, b) /\ Above(p, a, b)
        \/ /\ ~parted(a, b) /\ ~parted(b, a)
           /\ \/ InLeftColumn(p, a) /\ ~InLeftColumn(p, b)
              \/ (InLeftColumn(p, a) <=> InLeftColumn(p, b)) /\ Above(p, a, b)

\* The loop with its open band computes the reader's order: any two blocks of a
\* finished page stand as ReadBefore has them.
HumanOrder ==
    \A p \in DOMAIN pages : \A i, j \in DOMAIN pages[p] :
        i < j => ReadBefore(p, pages[p][i], pages[p][j])

\* No text is lost or repeated: a finished page has every readable block once.
AllTextOnce ==
    \A p \in DOMAIN pages :
        /\ {pages[p][i] : i \in DOMAIN pages[p]} = Kept(pdf.pages[p])
        /\ Len(pages[p]) = Cardinality(Kept(pdf.pages[p]))

=============================================================================
