------------------------------ MODULE Chunker ------------------------------
(***************************************************************************)
(* Sections and chunks: document_processing/sections.py and chunker.py,    *)
(* with the settings and the startup check that bound them.  One step is   *)
(* one turn of a loop of the code.                                         *)
(*                                                                         *)
(* Text is its tokens, numbered from 0 through the document; a range of    *)
(* text is the tokens it holds.  A block is what the heading test sees of  *)
(* it.  A reference entry is the position of the token its number begins.  *)
(***************************************************************************)
EXTENDS Integers, Sequences, FiniteSets, FiniteSetsExt

CONSTANTS
    Documents,      \* parsed documents that may be chunked
    Sizes,          \* values the two settings are tried with
    MaxHeadingWords,\* MAX_HEADING_WORDS
    MaxInputTokens, \* what the embedding model reads
    SpecialTokens   \* SPECIAL_TOKENS_PER_SEQUENCE

\* What is_heading looks at: `named` is the pattern that matches, if any; `stop`
\* is set for a block that ends a sentence or is longer than 80 characters.
Shape == [lines : Nat, words : Nat, size : Nat, stop : BOOLEAN,
          named : {"none", "known", "references", "numbered", "roman"}]

\* ends[b] is the position after block b's last token; pages run forwards.
IsDocument(d) ==
    LET n == Len(d.ends)
    IN  /\ d.ends \in Seq(Nat \ {0}) /\ n > 0
        /\ \A b \in 1..(n - 1) : d.ends[b] < d.ends[b + 1]
        /\ d.shape \in [1..n -> Shape]
        /\ d.page \in [1..n -> Nat \ {0}]
        /\ \A b \in 1..(n - 1) : d.page[b] <= d.page[b + 1]
        /\ d.marks \subseteq Nat

ASSUME ChunkerAssumption ==
    /\ \A d \in Documents : IsDocument(d)
    /\ Sizes \subseteq Int
    /\ MaxHeadingWords \in Nat /\ MaxInputTokens \in Nat /\ SpecialTokens \in Nat

VARIABLES
    config,    \* CHUNK_SIZE_TOKENS and CHUNK_OVERLAP_TOKENS
    doc,       \* the document
    sections,  \* the sections closed so far
    block,     \* the block the section loop looks at
    title,     \* the heading in force, 0 before the first
    lo,        \* where the open section, or the one being chunked, begins
    phase,     \* "detect", "section", "entries" or "windows"
    sec,       \* how many sections have been begun
    cursor,    \* where the next entry or window begins
    open,      \* where the entries being packed begin; the cursor if none are
    limit,     \* where the windows end
    chunks     \* the chunks made, in order: a chunk's index is its place

detect == <<sections, block, title, lo>>
vars == <<config, doc, detect, phase, sec, cursor, open, limit, chunks>>

\* Where block b begins, given where the blocks end.
Begin(ends, b) == IF b = 1 THEN 0 ELSE ends[b - 1]

Blocks == DOMAIN doc.ends
Start(b) == Begin(doc.ends, b)
Length == doc.ends[Len(doc.ends)]

-----------------------------------------------------------------------------
(* Settings.                                                               *)

\* Mutant: an overlap as large as the window is let through.
StartableStill(c) ==
    /\ c.size > 0 /\ c.overlap >= 0 /\ c.overlap <= c.size
    /\ c.size + SpecialTokens <= MaxInputTokens

\* What the settings, the constructor and the worker's startup let through.
Startable(c) ==
    /\ c.size > 0 /\ c.overlap >= 0 /\ c.overlap < c.size
    /\ c.size + SpecialTokens <= MaxInputTokens

-----------------------------------------------------------------------------
(* sections.py                                                             *)

\* Tokens set in a size, for the characters set in it.
Weight(d, s) == MapThenSumSet(LAMBDA b : d.ends[b] - Begin(d.ends, b),
                              {b \in DOMAIN d.ends : d.shape[b].size = s})

\* body_font_size: the heaviest size, the smallest of them on a tie.
BodySize(d) ==
    LET sizes == {d.shape[b].size : b \in DOMAIN d.ends}
        heaviest == {s \in sizes : \A t \in sizes : Weight(d, t) <= Weight(d, s)}
    IN  CHOOSE s \in heaviest : \A t \in heaviest : s <= t

\* is_heading: short, and named, numbered or set 15% larger than the body.
IsHeading(s, body) ==
    /\ s.lines = 1
    /\ s.words <= MaxHeadingWords
    /\ \/ s.named # "none"
       \/ body > 0 /\ s.size * 100 >= body * 115 /\ ~s.stop

\* _normalise_heading_spacing: line breaks become spaces, for matching only.
Normalised(s) == [s EXCEPT !.lines = 1]

\* The test as detect_sections makes it.
Heading(b) == IsHeading(Normalised(doc.shape[b]), BodySize(doc))

\* Section.is_references
IsReferences(t) == t # 0 /\ doc.shape[t].named = "references"

Init ==
    /\ config \in {c \in [size : Sizes, overlap : Sizes] : Startable(c)}
    /\ doc \in Documents
    /\ sections = <<>> /\ block = 1 /\ title = 0 /\ lo = 0
    /\ phase = "detect" /\ sec = 0 /\ cursor = 0 /\ open = 0 /\ limit = 0
    /\ chunks = <<>>

\* close(): the open section's blocks end at token `hi`.
Closed(t, hi) ==
    IF lo < hi THEN Append(sections, [title |-> t, lo |-> lo, hi |-> hi]) ELSE sections

\* Mutant: the section is closed after the title has moved on.
NextBlockTitled ==
    /\ phase = "detect" /\ block \in Blocks
    /\ IF Heading(block)
       THEN /\ title' = block
            /\ sections' = Closed(block, Start(block))
            /\ lo' = Start(block)
       ELSE UNCHANGED <<sections, title, lo>>
    /\ block' = block + 1
    /\ UNCHANGED <<config, doc, phase, sec, cursor, open, limit, chunks>>

\* The block loop of detect_sections: a heading closes what came before it.
NextBlock ==
    /\ phase = "detect" /\ block \in Blocks
    /\ IF Heading(block)
       THEN /\ sections' = Closed(title, Start(block))
            /\ title' = block
            /\ lo' = Start(block)
       ELSE UNCHANGED <<sections, title, lo>>
    /\ block' = block + 1
    /\ UNCHANGED <<config, doc, phase, sec, cursor, open, limit, chunks>>

EndOfBlocks ==
    /\ phase = "detect" /\ block \notin Blocks
    /\ sections' = Closed(title, Length)
    /\ phase' = "section"
    /\ UNCHANGED <<config, doc, block, title, lo, sec, cursor, open, limit, chunks>>

-----------------------------------------------------------------------------
(* chunker.py                                                              *)

Marks(s) == {m \in doc.marks : s.lo <= m /\ m < s.hi}

\* Mutant: a reference list is windowed like any other section.
NeverByEntries(s) == FALSE

\* A reference list whose numbering was recognised; others are windowed.
ByEntries(s) == IsReferences(s.title) /\ \E m, n \in Marks(s) : m # n

\* The end of the entry, or the preamble, that begins at token `from`.
EntryEnd(s, from) ==
    CHOOSE e \in Marks(s) \cup {s.hi} :
        from < e /\ \A m \in Marks(s) \cup {s.hi} : from < m => e <= m

\* Mutant: a block the range only borders on is covered too.
TouchingLoose(from, to) == {b \in Blocks : Start(b) <= to /\ doc.ends[b] > from}

\* The blocks a range of the section's text touches.
Touching(from, to) == {b \in Blocks : Start(b) < to /\ doc.ends[b] > from}

\* _pages_covering: the least and the greatest page among them.
PagesCovering(from, to) ==
    LET pages == {doc.page[b] : b \in Touching(from, to)}
    IN  [first |-> CHOOSE p \in pages : \A q \in pages : p <= q,
         last  |-> CHOOSE p \in pages : \A q \in pages : q <= p]

\* A range without text makes no chunk.
With(from, to) ==
    IF from < to
    THEN Append(chunks, [from |-> from, to |-> to, title |-> sections[sec].title,
                         pages |-> PagesCovering(from, to)])
    ELSE chunks

\* chunk(): the next section, by entries or by windows.
NextSection ==
    /\ phase = "section" /\ sec < Len(sections)
    /\ sec' = sec + 1
    /\ LET s == sections[sec + 1]
       IN  /\ phase' = IF ByEntries(s) THEN "entries" ELSE "windows"
           /\ lo' = s.lo /\ cursor' = s.lo /\ open' = s.lo /\ limit' = s.hi
    /\ UNCHANGED <<config, doc, sections, block, title, chunks>>

\* Mutant: what is already packed is compared, not what it would become.
FitsPacked(end) == cursor - open <= config.size

\* Whether the entry ending at `end` joins the entries already packed.
Fits(end) == end - open <= config.size

\* The entry loop of _reference_ranges: an oversized entry is windowed, after
\* what is packed is flushed; one that does not fit begins the next chunk.
NextEntry ==
    LET s == sections[sec]
        end == EntryEnd(s, cursor)
    IN  /\ phase = "entries" /\ cursor < s.hi
        /\ \/ /\ end - cursor > config.size
              /\ chunks' = With(open, cursor)
              /\ phase' = "windows" /\ limit' = end
              /\ UNCHANGED <<cursor, open>>
           \/ /\ end - cursor <= config.size
              /\ IF Fits(end) THEN UNCHANGED <<chunks, open>>
                 ELSE chunks' = With(open, cursor) /\ open' = cursor
              /\ cursor' = end
              /\ UNCHANGED <<phase, limit>>
        /\ UNCHANGED <<config, doc, detect, sec>>

EndOfEntries ==
    /\ phase = "entries" /\ cursor = sections[sec].hi
    /\ chunks' = With(open, cursor)
    /\ phase' = "section"
    /\ UNCHANGED <<config, doc, detect, sec, cursor, open, limit>>

\* The window loop of _window_ranges; the last window is what remains.
NextWindow ==
    LET end == IF cursor + config.size < limit THEN cursor + config.size ELSE limit
    IN  /\ phase = "windows"
        /\ chunks' = With(cursor, end)
        /\ IF end = limit
           THEN /\ phase' = IF ByEntries(sections[sec]) THEN "entries" ELSE "section"
                /\ cursor' = limit /\ open' = limit
           ELSE /\ cursor' = cursor + (config.size - config.overlap)
                /\ UNCHANGED <<phase, open>>
        /\ UNCHANGED <<config, doc, detect, sec, limit>>

Next == NextBlock \/ EndOfBlocks \/ NextSection \/ NextEntry \/ EndOfEntries \/ NextWindow

Spec == Init /\ [][Next]_vars

Done == phase = "section" /\ sec = Len(sections)

-----------------------------------------------------------------------------
(* Properties.                                                             *)

\* No text is lost and every chunk adds some: each chunk ends later than the
\* one before and begins where that one ended, or inside it by exactly the
\* overlap, and the last one ends the document.
Seamless ==
    /\ chunks # <<>> => chunks[1].from = 0
    /\ \A i \in 1..(Len(chunks) - 1) :
          LET a == chunks[i]
              b == chunks[i + 1]
          IN  /\ a.to < b.to
              /\ b.from = a.to \/ (a.title = b.title /\ b.from = a.to - config.overlap)
    /\ Done => chunks # <<>> /\ chunks[Len(chunks)].to = Length

\* The model reads every chunk to its end: with the special tokens it fits.
NeverTruncated ==
    \A i \in DOMAIN chunks :
        /\ chunks[i].from < chunks[i].to
        /\ chunks[i].to - chunks[i].from + SpecialTokens <= MaxInputTokens

\* A chunk lies under one heading, and carries that heading: no heading begins
\* inside it, and its title is the last heading at or before its first token.
UnderItsHeading ==
    \A i \in DOMAIN chunks : \A b \in Blocks : Heading(b) =>
        /\ ~(chunks[i].from < Start(b) /\ Start(b) < chunks[i].to)
        /\ Start(b) <= chunks[i].from => chunks[i].title >= b
        /\ chunks[i].title = b => Start(b) <= chunks[i].from

\* An entry of a recognised reference list that fits a chunk is never split.
EntriesIntact ==
    \A s \in {sections[k] : k \in DOMAIN sections} :
        IsReferences(s.title) /\ Cardinality(Marks(s)) >= 2 =>
        \A m \in Marks(s) : EntryEnd(s, m) - m <= config.size =>
            \A i \in DOMAIN chunks : \A x \in {chunks[i].from, chunks[i].to} :
                ~(m < x /\ x < EntryEnd(s, m))

\* A citation's pages are those of the chunk's first and last token.
CitedPages ==
    \A i \in DOMAIN chunks : \A b \in Blocks :
        /\ Start(b) <= chunks[i].from /\ chunks[i].from < doc.ends[b]
              => chunks[i].pages.first = doc.page[b]
        /\ Start(b) < chunks[i].to /\ chunks[i].to <= doc.ends[b]
              => chunks[i].pages.last = doc.page[b]

=============================================================================
