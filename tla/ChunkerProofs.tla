---------------------------- MODULE ChunkerProofs ----------------------------
(***************************************************************************)
(* Sections and chunks, for documents of any shape and every setting the   *)
(* worker starts with: the model reads every chunk whole, no text is lost, *)
(* a chunk stays under its heading, cites its own pages and splits no      *)
(* reference entry that fits.                                              *)
(***************************************************************************)
EXTENDS Chunker, TLAPS, FiniteSetTheorems, WellFoundedInduction

-----------------------------------------------------------------------------
(* The inductive invariant.                                                *)

SectionType == [title : Nat, lo : Nat, hi : Nat]

ChunkType == [from : Int, to : Int, title : Nat, pages : {PagesCovering(a, b) : a, b \in Int}]

\* The variables' types, with what the settings guarantee.
LoopsOK ==
    /\ doc \in Documents
    /\ config \in [size : Sizes, overlap : Sizes] /\ Startable(config)
    /\ sections \in Seq(SectionType)
    /\ block \in Nat \ {0} /\ title \in Nat /\ lo \in Nat
    /\ phase \in {"detect", "section", "entries", "windows"}
    /\ sec \in 0..Len(sections)
    /\ phase \in {"entries", "windows"} => sec # 0
    /\ cursor \in Int /\ open \in Int /\ limit \in Int
    /\ chunks \in Seq(ChunkType)

\* A section begins with its heading and has no other in it.
SectionOK(s) ==
    /\ s.lo < s.hi
    /\ s.title = 0 \/ (s.title \in Blocks /\ s.lo = Start(s.title))
    /\ \A b \in Blocks : Heading(b) =>
          /\ ~(s.lo < Start(b) /\ Start(b) < s.hi)
          /\ Start(b) <= s.lo => b <= s.title

\* The sections closed so far tile the text from its beginning.
Tiled ==
    /\ \A k \in DOMAIN sections : SectionOK(sections[k])
    /\ \A k \in 1..(Len(sections) - 1) : sections[k + 1].lo = sections[k].hi
    /\ sections # <<>> => sections[1].lo = 0
    /\ phase # "detect" => sections # <<>> /\ sections[Len(sections)].hi = Length

\* While blocks are looked at, the open section begins where the last one ended, and
\* under the last heading seen.
Detecting ==
    phase = "detect" =>
        /\ block <= Len(doc.ends) + 1 /\ sec = 0 /\ chunks = <<>>
        /\ lo = IF sections = <<>> THEN 0 ELSE sections[Len(sections)].hi
        /\ IF title = 0 THEN lo = 0 ELSE title < block /\ lo = Start(title)
        /\ \A b \in Blocks : b < block /\ Heading(b) => b <= title

\* Where entries of a section begin and end.
Bounds(s) == Marks(s) \cup {s.lo, s.hi}

\* No entry of a recognised list that fits a chunk has x inside.
Unsplit(s, x) ==
    ByEntries(s) =>
        \A m \in Marks(s) : EntryEnd(s, m) - m <= config.size => ~(m < x /\ x < EntryEnd(s, m))

\* A chunk is a piece of a section.
PieceOf(s, c) ==
    /\ s.lo <= c.from /\ c.from < c.to /\ c.to <= s.hi
    /\ c.to - c.from <= config.size
    /\ c.title = s.title /\ c.pages = PagesCovering(c.from, c.to)
    /\ Unsplit(s, c.from) /\ Unsplit(s, c.to)

Pieces == \A i \in DOMAIN chunks : \E k \in DOMAIN sections : PieceOf(sections[k], chunks[i])

\* How far the chunks reach.
Reached == IF chunks = <<>> THEN 0 ELSE chunks[Len(chunks)].to

\* The part of Seamless that speaks of neighbours.
Linked ==
    /\ chunks # <<>> => chunks[1].from = 0
    /\ \A i \in 1..(Len(chunks) - 1) :
          /\ chunks[i].to < chunks[i + 1].to
          /\ \/ chunks[i + 1].from = chunks[i].to
             \/ /\ chunks[i].title = chunks[i + 1].title
                /\ chunks[i + 1].from = chunks[i].to - config.overlap

\* Between sections, everything up to the end of the last one is in chunks.
AtSection == phase = "section" => Reached = IF sec = 0 THEN 0 ELSE sections[sec].hi

\* The entries packed but not yet in a chunk are those from `open` to the cursor, and
\* they fit into one.
AtEntries ==
    phase = "entries" =>
        /\ ByEntries(sections[sec])
        /\ cursor \in Bounds(sections[sec]) /\ open \in Bounds(sections[sec])
        /\ sections[sec].lo <= open /\ open <= cursor /\ cursor <= sections[sec].hi
        /\ Reached = open /\ cursor - open <= config.size

\* The windows run to the end of the section, or of an entry too long for a chunk.
\* The next one begins where the chunks end, or by the overlap before that.
AtWindows ==
    phase = "windows" =>
        /\ sections[sec].lo <= cursor /\ cursor < limit /\ limit <= sections[sec].hi
        /\ Reached < limit
        /\ \/ Reached = cursor
           \/ /\ chunks # <<>> /\ chunks[Len(chunks)].title = sections[sec].title
              /\ Reached = cursor + config.overlap
        /\ ~ByEntries(sections[sec]) => limit = sections[sec].hi
        /\ ByEntries(sections[sec]) =>
              \E e \in Bounds(sections[sec]) :
                  /\ e <= cursor /\ e < sections[sec].hi
                  /\ limit = EntryEnd(sections[sec], e) /\ limit - e > config.size

ChunkInv == LoopsOK /\ Tiled /\ Detecting /\ Pieces /\ Linked /\ AtSection /\ AtEntries /\ AtWindows

-----------------------------------------------------------------------------
(* Numbers and blocks.                                                     *)

\* A set of natural numbers that is not empty has a least element.
LEMMA LeastNat == ASSUME NEW T, T \subseteq Nat, T # {} PROVE \E x \in T : \A y \in T : x <= y
<1>1. PICK x \in T : \A y \in T : ~(<<y, x>> \in OpToRel(<, Nat))
  BY NatLessThanWellFounded, WFMin
<1>2. \A y \in T : ~(y < x)
  BY <1>1 DEF OpToRel
<1>. QED
  BY <1>2

\* A sequence of numbers that never goes down from one place to the next never does.
LEMMA Monotone ==
    ASSUME NEW n \in Nat, NEW f, \A i \in 1..n : f[i] \in Int,
           \A i \in 1..(n - 1) : f[i] <= f[i + 1]
    PROVE  \A i, j \in 1..n : i <= j => f[i] <= f[j]
<1> SUFFICES ASSUME NEW i \in 1..n, NEW j \in 1..n, i <= j, ~(f[i] <= f[j]) PROVE FALSE
  OBVIOUS
<1> DEFINE T == {k \in 1..n : i <= k /\ ~(f[i] <= f[k])}
<1>1. PICK k \in T : \A m \in T : k <= m
  <2>1. j \in T /\ T \subseteq Nat
    OBVIOUS
  <2>. QED
    BY <2>1, LeastNat
<1>2. k # i /\ k - 1 \in 1..(n - 1) /\ i <= k - 1
  BY <1>1
<1>3. k - 1 \notin T
  BY <1>1
<1>4. f[i] <= f[k - 1]
  BY <1>2, <1>3
<1>5. f[k - 1] <= f[(k - 1) + 1] /\ (k - 1) + 1 = k
  BY <1>1, <1>2
<1>6. f[k] \in Int /\ f[k - 1] \in Int /\ f[i] \in Int /\ ~(f[i] <= f[k])
  BY <1>1, <1>2
<1>. QED
  BY <1>4, <1>5, <1>6

\* What a document says of its blocks.
LEMMA Boundaries ==
    ASSUME ChunkerAssumption, doc \in Documents
    PROVE  /\ Len(doc.ends) \in Nat \ {0} /\ Blocks = 1..Len(doc.ends)
           /\ Length \in Nat \ {0}
           /\ \A b \in Blocks : /\ Start(b) \in Nat /\ doc.ends[b] \in Nat /\ doc.page[b] \in Nat
                                /\ Start(b) < doc.ends[b] /\ doc.ends[b] <= Length
           /\ \A a, b \in Blocks : a < b => doc.ends[a] <= Start(b) /\ doc.page[a] <= doc.page[b]
           /\ doc.marks \subseteq Nat
<1>1. /\ doc.ends \in Seq(Nat \ {0}) /\ Len(doc.ends) \in Nat /\ Len(doc.ends) > 0
      /\ \A b \in 1..(Len(doc.ends) - 1) : doc.ends[b] < doc.ends[b + 1]
      /\ doc.page \in [1..Len(doc.ends) -> Nat \ {0}]
      /\ \A b \in 1..(Len(doc.ends) - 1) : doc.page[b] <= doc.page[b + 1]
      /\ doc.marks \subseteq Nat
  BY DEF ChunkerAssumption, IsDocument
<1>2. Blocks = 1..Len(doc.ends) /\ \A b \in 1..Len(doc.ends) : doc.ends[b] \in Nat \ {0}
  BY <1>1 DEF Blocks
<1>3. \A a, b \in 1..Len(doc.ends) : a <= b => doc.ends[a] <= doc.ends[b]
  <2>1. \A i \in 1..Len(doc.ends) : doc.ends[i] \in Int
    BY <1>2
  <2>2. \A i \in 1..(Len(doc.ends) - 1) : doc.ends[i] <= doc.ends[i + 1]
    <3> SUFFICES ASSUME NEW i \in 1..(Len(doc.ends) - 1) PROVE doc.ends[i] <= doc.ends[i + 1]
      OBVIOUS
    <3>1. i \in 1..Len(doc.ends) /\ i + 1 \in 1..Len(doc.ends) /\ doc.ends[i] < doc.ends[i + 1]
      BY <1>1
    <3>. QED
      BY <2>1, <3>1
  <2>. QED
    BY <1>1, <2>1, <2>2, Monotone
<1>4. \A a, b \in 1..Len(doc.ends) : a <= b => doc.page[a] <= doc.page[b]
  <2>1. \A i \in 1..Len(doc.ends) : doc.page[i] \in Int
    BY <1>1
  <2>. QED
    BY <1>1, <2>1, Monotone
<1>5. \A b \in 1..Len(doc.ends) : Start(b) = IF b = 1 THEN 0 ELSE doc.ends[b - 1]
  BY DEF Start, Begin
<1>6. \A b \in 1..Len(doc.ends) : Start(b) \in Nat /\ Start(b) < doc.ends[b]
  <2> SUFFICES ASSUME NEW b \in 1..Len(doc.ends) PROVE Start(b) \in Nat /\ Start(b) < doc.ends[b]
    OBVIOUS
  <2>1. CASE b = 1
    BY <1>2, <1>5, <2>1
  <2>2. CASE b # 1
    <3>1. b - 1 \in 1..(Len(doc.ends) - 1) /\ (b - 1) + 1 = b
      BY <1>1, <2>2
    <3>2. doc.ends[b - 1] < doc.ends[(b - 1) + 1] /\ doc.ends[b - 1] \in Nat
      BY <1>1, <1>2, <3>1
    <3>. QED
      BY <1>5, <2>2, <3>1, <3>2
  <2>. QED
    BY <2>1, <2>2
<1>7. \A a, b \in 1..Len(doc.ends) : a < b => doc.ends[a] <= Start(b)
  <2> SUFFICES ASSUME NEW a \in 1..Len(doc.ends), NEW b \in 1..Len(doc.ends), a < b
               PROVE  doc.ends[a] <= Start(b)
    OBVIOUS
  <2>1. b # 1 /\ b - 1 \in 1..Len(doc.ends) /\ a <= b - 1
    BY <1>1
  <2>. QED
    BY <1>3, <1>5, <2>1
<1>8. Length \in Nat \ {0} /\ \A b \in 1..Len(doc.ends) : doc.ends[b] <= Length
  <2>1. Len(doc.ends) \in 1..Len(doc.ends) /\ \A b \in 1..Len(doc.ends) : b <= Len(doc.ends)
    BY <1>1
  <2>. QED
    BY <1>2, <1>3, <2>1 DEF Length
<1>9. \A b \in 1..Len(doc.ends) : doc.page[b] \in Nat
  BY <1>1
<1>10. \A a, b \in 1..Len(doc.ends) : a < b => doc.page[a] <= doc.page[b]
  BY <1>1, <1>4
<1>. QED
  BY <1>1, <1>2, <1>6, <1>7, <1>8, <1>9, <1>10

\* An entry that begins before its section's end goes to the next mark, or to that end.
LEMMA EntryEnds ==
    ASSUME ChunkerAssumption, doc \in Documents, NEW s \in SectionType, NEW from \in Int, from < s.hi
    PROVE  /\ EntryEnd(s, from) \in Marks(s) \cup {s.hi} /\ EntryEnd(s, from) \in Nat
           /\ from < EntryEnd(s, from) /\ EntryEnd(s, from) <= s.hi
           /\ \A m \in Marks(s) \cup {s.hi} : from < m => EntryEnd(s, from) <= m
<1> DEFINE E == Marks(s) \cup {s.hi}
<1>1. E \subseteq Nat /\ s.hi \in E
  BY Boundaries DEF Marks, SectionType
<1>2. PICK e \in {m \in E : from < m} : \A m \in {n \in E : from < n} : e <= m
  BY <1>1, LeastNat
<1>3. e \in E /\ from < e /\ \A m \in E : from < m => e <= m
  BY <1>2
<1>4. /\ EntryEnd(s, from) \in E /\ from < EntryEnd(s, from)
      /\ \A m \in E : from < m => EntryEnd(s, from) <= m
  BY <1>3 DEF EntryEnd
<1>. QED
  BY <1>1, <1>4

-----------------------------------------------------------------------------
(* What the invariant says of each chunk.                                  *)

\* The pages cited for a range are those of its first and its last token.
LEMMA Citations ==
    ASSUME ChunkerAssumption, doc \in Documents, NEW from \in Int, NEW to \in Int, from < to,
           NEW b \in Blocks
    PROVE  /\ Start(b) <= from /\ from < doc.ends[b] => PagesCovering(from, to).first = doc.page[b]
           /\ Start(b) < to /\ to <= doc.ends[b] => PagesCovering(from, to).last = doc.page[b]
<1> DEFINE pages == {doc.page[c] : c \in Touching(from, to)}
<1>1. \A c \in Blocks : Start(c) \in Nat /\ doc.ends[c] \in Nat /\ doc.page[c] \in Nat /\ c \in Nat
  BY Boundaries
<1>2. \A a, c \in Blocks : a < c => doc.ends[a] <= Start(c) /\ doc.page[a] <= doc.page[c]
  BY Boundaries
<1>3. ASSUME Start(b) <= from, from < doc.ends[b] PROVE PagesCovering(from, to).first = doc.page[b]
  <2>1. b \in Touching(from, to)
    BY <1>1, <1>3 DEF Touching
  <2>2. \A c \in Touching(from, to) : c = b \/ b < c
    BY <1>1, <1>2, <1>3 DEF Touching
  <2>3. \A c \in Touching(from, to) : c \in Blocks /\ doc.page[b] <= doc.page[c]
    BY <1>1, <1>2, <2>2 DEF Touching
  <2>4. doc.page[b] \in pages /\ \A q \in pages : q \in Nat /\ doc.page[b] <= q
    BY <1>1, <2>1, <2>3
  <2>5. (CHOOSE p \in pages : \A q \in pages : p <= q) = doc.page[b]
    BY <2>4
  <2>. QED
    BY <2>5 DEF PagesCovering
<1>4. ASSUME Start(b) < to, to <= doc.ends[b] PROVE PagesCovering(from, to).last = doc.page[b]
  <2>1. b \in Touching(from, to)
    BY <1>1, <1>4 DEF Touching
  <2>2. \A c \in Touching(from, to) : c = b \/ c < b
    BY <1>1, <1>2, <1>4 DEF Touching
  <2>3. \A c \in Touching(from, to) : c \in Blocks /\ doc.page[c] <= doc.page[b]
    BY <1>1, <1>2, <2>2 DEF Touching
  <2>4. doc.page[b] \in pages /\ \A q \in pages : q \in Nat /\ q <= doc.page[b]
    BY <1>1, <2>1, <2>3
  <2>5. (CHOOSE p \in pages : \A q \in pages : q <= p) = doc.page[b]
    BY <2>4
  <2>. QED
    BY <2>5 DEF PagesCovering
<1>. QED
  BY <1>3, <1>4

\* Sections follow each other in the text.
LEMMA SectionsInOrder ==
    ASSUME LoopsOK, Tiled
    PROVE  \A j, k \in DOMAIN sections : j < k => sections[j].hi <= sections[k].lo
<1> DEFINE n == Len(sections)
           f == [k \in 1..n |-> sections[k].lo]
<1>1. n \in Nat /\ DOMAIN sections = 1..n /\ \A k \in 1..n : sections[k] \in SectionType
  BY DEF LoopsOK
<1>2. \A k \in 1..n : f[k] = sections[k].lo /\ f[k] \in Nat /\ sections[k].hi \in Nat
  BY <1>1 DEF SectionType
<1>3. \A k \in 1..(n - 1) : f[k] <= f[k + 1] /\ sections[k].hi = f[k + 1]
  <2> SUFFICES ASSUME NEW k \in 1..(n - 1) PROVE f[k] <= f[k + 1] /\ sections[k].hi = f[k + 1]
    OBVIOUS
  <2>1. k \in 1..n /\ k + 1 \in 1..n
    BY <1>1
  <2>2. sections[k].lo < sections[k].hi /\ sections[k + 1].lo = sections[k].hi
    BY <1>1, <2>1 DEF Tiled, SectionOK
  <2>. QED
    BY <1>2, <2>1, <2>2
<1> HIDE DEF f
<1>4. \A i, j \in 1..n : i <= j => f[i] <= f[j]
  <2>1. \A k \in 1..n : f[k] \in Int
    BY <1>2
  <2>. QED
    BY <1>1, <1>3, <2>1, Monotone
<1> SUFFICES ASSUME NEW j \in 1..n, NEW k \in 1..n, j < k PROVE sections[j].hi <= sections[k].lo
  BY <1>1
<1>5. j \in 1..(n - 1) /\ j + 1 \in 1..n /\ j + 1 <= k
  BY <1>1
<1>. QED
  BY <1>2, <1>3, <1>4, <1>5

\* Two marks are two different marks.
LEMMA TwoOfThem == ASSUME NEW S, Cardinality(S) >= 2 PROVE \E m, n \in S : m # n
<1> SUFFICES ASSUME \A m, n \in S : m = n PROVE FALSE
  OBVIOUS
<1>1. CASE S = {}
  BY <1>1, FS_EmptySet
<1>2. ASSUME NEW x \in S PROVE FALSE
  <2>1. S = {x}
    OBVIOUS
  <2>2. Cardinality({x}) = 1
    BY FS_Singleton
  <2>. QED
    BY <2>1, <2>2
<1>. QED
  BY <1>1, <1>2

\* A piece of a section fits the model, stays under the section's heading and cites
\* the right pages.
LEMMA PiecesAreSound == ASSUME ChunkerAssumption, ChunkInv PROVE NeverTruncated /\ UnderItsHeading /\ CitedPages
<1> USE DEF ChunkInv
<1>1. /\ doc \in Documents /\ chunks \in Seq(ChunkType) /\ sections \in Seq(SectionType)
      /\ config.size \in Int /\ config.size + SpecialTokens <= MaxInputTokens
      /\ SpecialTokens \in Nat /\ MaxInputTokens \in Nat
  BY DEF LoopsOK, Startable, ChunkerAssumption
<1>2. ASSUME NEW i \in DOMAIN chunks
      PROVE  /\ chunks[i].from < chunks[i].to
             /\ chunks[i].to - chunks[i].from + SpecialTokens <= MaxInputTokens
             /\ \A b \in Blocks : Heading(b) =>
                   /\ ~(chunks[i].from < Start(b) /\ Start(b) < chunks[i].to)
                   /\ Start(b) <= chunks[i].from => chunks[i].title >= b
                   /\ chunks[i].title = b => Start(b) <= chunks[i].from
             /\ \A b \in Blocks :
                   /\ Start(b) <= chunks[i].from /\ chunks[i].from < doc.ends[b]
                         => chunks[i].pages.first = doc.page[b]
                   /\ Start(b) < chunks[i].to /\ chunks[i].to <= doc.ends[b]
                         => chunks[i].pages.last = doc.page[b]
  <2> DEFINE c == chunks[i]
  <2>1. c \in ChunkType
    BY <1>1
  <2>2. c.from \in Int /\ c.to \in Int /\ c.title \in Nat
    BY <2>1 DEF ChunkType
  <2>3. PICK k \in DOMAIN sections : PieceOf(sections[k], c)
    BY DEF Pieces
  <2> DEFINE s == sections[k]
  <2>4. s \in SectionType /\ SectionOK(s)
    BY <1>1 DEF Tiled
  <2>5. s.lo \in Nat /\ s.hi \in Nat /\ s.title \in Nat
    BY <2>4 DEF SectionType
  <2>6. /\ s.lo <= c.from /\ c.from < c.to /\ c.to <= s.hi /\ c.to - c.from <= config.size
        /\ c.title = s.title /\ c.pages = PagesCovering(c.from, c.to)
    BY <2>3 DEF PieceOf
  <2>7. c.from < c.to /\ c.to - c.from + SpecialTokens <= MaxInputTokens
    BY <1>1, <2>2, <2>6
  <2>8. \A b \in Blocks : Start(b) \in Nat /\ b \in Nat
    BY <1>1, Boundaries
  <2>9. ASSUME NEW b \in Blocks, Heading(b)
        PROVE  /\ ~(c.from < Start(b) /\ Start(b) < c.to)
               /\ Start(b) <= c.from => c.title >= b
               /\ c.title = b => Start(b) <= c.from
    <3>1. /\ ~(s.lo < Start(b) /\ Start(b) < s.hi)
          /\ Start(b) <= s.lo => b <= s.title
          /\ s.title = b /\ b # 0 => s.lo = Start(b)
      BY <2>4, <2>9 DEF SectionOK
    <3>2. Start(b) \in Nat /\ b \in Nat \ {0}
      BY <1>1, Boundaries
    <3> HIDE DEF c, s
    <3>. QED
      BY <2>2, <2>5, <2>6, <3>1, <3>2
  <2>10. ASSUME NEW b \in Blocks
         PROVE  /\ Start(b) <= c.from /\ c.from < doc.ends[b] => c.pages.first = doc.page[b]
                /\ Start(b) < c.to /\ c.to <= doc.ends[b] => c.pages.last = doc.page[b]
    BY <1>1, <2>2, <2>6, Citations
  <2>. QED
    BY <2>7, <2>9, <2>10
<1>. QED
  BY <1>2 DEF NeverTruncated, UnderItsHeading, CitedPages

\* No boundary of a chunk falls into an entry that fits, of its own list or another.
LEMMA EntriesStayWhole == ASSUME ChunkerAssumption, ChunkInv PROVE EntriesIntact
<1> USE DEF ChunkInv
<1>1. doc \in Documents /\ chunks \in Seq(ChunkType) /\ sections \in Seq(SectionType)
  BY DEF LoopsOK
<1> SUFFICES ASSUME NEW k \in DOMAIN sections, IsReferences(sections[k].title),
                    Cardinality(Marks(sections[k])) >= 2,
                    NEW m \in Marks(sections[k]), EntryEnd(sections[k], m) - m <= config.size,
                    NEW i \in DOMAIN chunks, NEW x \in {chunks[i].from, chunks[i].to}
             PROVE  ~(m < x /\ x < EntryEnd(sections[k], m))
  BY DEF EntriesIntact
<1> DEFINE s == sections[k]
<1>2. s \in SectionType /\ s.lo \in Nat /\ s.hi \in Nat
  <2>1. s \in SectionType
    BY <1>1
  <2>. QED
    BY <2>1 DEF SectionType
<1>3. m \in Nat /\ s.lo <= m /\ m < s.hi
  BY <1>1, Boundaries DEF Marks
<1>4. EntryEnd(s, m) \in Nat /\ EntryEnd(s, m) <= s.hi
  BY <1>1, <1>2, <1>3, EntryEnds
<1>5. ByEntries(s)
  BY TwoOfThem DEF ByEntries
<1>6. chunks[i] \in ChunkType
  BY <1>1
<1>7. chunks[i].from \in Int /\ chunks[i].to \in Int /\ x \in Int
  BY <1>6 DEF ChunkType
<1>8. PICK j \in DOMAIN sections : PieceOf(sections[j], chunks[i])
  BY DEF Pieces
<1> DEFINE t == sections[j]
<1>9. t \in SectionType /\ t.lo \in Nat /\ t.hi \in Nat
  <2>1. t \in SectionType
    BY <1>1
  <2>. QED
    BY <2>1 DEF SectionType
<1>10. t.lo <= x /\ x <= t.hi /\ Unsplit(t, x)
  BY <1>7, <1>8, <1>9 DEF PieceOf
<1>11. j \in Nat /\ k \in Nat
  BY <1>1
<1>12. CASE j = k
  BY <1>5, <1>10, <1>12 DEF Unsplit
<1>13. CASE j < k
  <2>1. t.hi <= s.lo
    BY <1>13, SectionsInOrder
  <2>. QED
    BY <1>2, <1>3, <1>7, <1>9, <1>10, <2>1
<1>14. CASE k < j
  <2>1. s.hi <= t.lo
    BY <1>14, SectionsInOrder
  <2>. QED
    BY <1>2, <1>4, <1>7, <1>9, <1>10, <2>1
<1>. QED
  BY <1>11, <1>12, <1>13, <1>14

\* The chunks join up, and reach the end of the text when the last section is done.
LEMMA NothingLost == ASSUME ChunkerAssumption, ChunkInv PROVE Seamless
<1> USE DEF ChunkInv
<1>1. chunks \in Seq(ChunkType) /\ sections \in Seq(SectionType) /\ Length \in Nat \ {0}
  BY Boundaries DEF LoopsOK
<1>2. Done => chunks # <<>> /\ chunks[Len(chunks)].to = Length
  <2> SUFFICES ASSUME Done PROVE chunks # <<>> /\ chunks[Len(chunks)].to = Length
    OBVIOUS
  <2>1. sections # <<>> /\ sections[Len(sections)].hi = Length
    BY DEF Done, Tiled
  <2>2. Len(sections) # 0
    BY <1>1, <2>1
  <2>3. Reached = Length
    BY <2>1, <2>2 DEF Done, AtSection
  <2>. QED
    BY <1>1, <2>3 DEF Reached
<1>. QED
  BY <1>2 DEF Linked, Seamless

-----------------------------------------------------------------------------
(* A step adds a chunk.                                                    *)

\* Between its own marks a section has no boundary of an entry.
LEMMA BoundsDoNotSplit ==
    ASSUME ChunkerAssumption, doc \in Documents, config.size \in Int,
           NEW s \in SectionType, NEW x \in Bounds(s)
    PROVE  x \in Nat /\ Unsplit(s, x)
<1>1. s.lo \in Nat /\ s.hi \in Nat /\ Marks(s) \subseteq Nat
  BY Boundaries DEF SectionType, Marks
<1>2. x \in Nat
  BY <1>1 DEF Bounds
<1>3. ASSUME NEW m \in Marks(s), m < x PROVE EntryEnd(s, m) <= x
  <2>1. m \in Nat /\ s.lo <= m /\ m < s.hi
    BY <1>1 DEF Marks
  <2>2. x \in Marks(s) \cup {s.hi}
    BY <1>1, <1>2, <1>3, <2>1 DEF Bounds
  <2>. QED
    BY <1>3, <2>1, <2>2, EntryEnds
<1>4. \A m \in Marks(s) : EntryEnd(s, m) \in Nat
  <2> TAKE m \in Marks(s)
  <2>1. m \in Int /\ m < s.hi
    BY <1>1 DEF Marks
  <2>. QED
    BY <2>1, EntryEnds
<1>. QED
  BY <1>2, <1>3, <1>4 DEF Unsplit

\* Inside an entry that is too long there is none that fits.
LEMMA LongDoesNotSplit ==
    ASSUME ChunkerAssumption, doc \in Documents, config.size \in Int,
           NEW s \in SectionType, NEW e \in Bounds(s), e < s.hi, EntryEnd(s, e) - e > config.size,
           NEW x \in Int, e <= x, x <= EntryEnd(s, e)
    PROVE  Unsplit(s, x)
<1>1. s.lo \in Nat /\ s.hi \in Nat /\ Marks(s) \subseteq Nat /\ e \in Nat
  BY BoundsDoNotSplit, Boundaries DEF SectionType, Marks
<1>2. /\ EntryEnd(s, e) \in Nat /\ EntryEnd(s, e) \in Bounds(s) /\ e < EntryEnd(s, e)
      /\ \A m \in Marks(s) \cup {s.hi} : e < m => EntryEnd(s, e) <= m
  BY <1>1, EntryEnds DEF Bounds
<1>3. ASSUME NEW m \in Marks(s), EntryEnd(s, m) - m <= config.size, m < x, x < EntryEnd(s, m)
      PROVE  FALSE
  <2>1. m \in Nat /\ s.lo <= m /\ m < s.hi
    BY <1>1 DEF Marks
  <2>2. EntryEnd(s, m) \in Nat /\ \A n \in Marks(s) \cup {s.hi} : m < n => EntryEnd(s, m) <= n
    BY <2>1, EntryEnds
  <2>3. CASE m = e
    BY <1>1, <1>2, <1>3, <2>2, <2>3
  <2>4. CASE e < m
    BY <1>1, <1>2, <1>3, <2>1, <2>4
  <2>5. CASE m < e
    <3>1. e \in Marks(s) \cup {s.hi}
      BY <1>1, <2>1, <2>5 DEF Bounds
    <3>. QED
      BY <1>1, <1>3, <2>2, <2>5, <3>1
  <2>. QED
    BY <1>1, <2>1, <2>3, <2>4, <2>5
<1>. QED
  BY <1>3 DEF Unsplit

\* What is read of the document and the settings stays as it is when they do.
LEMMA Fixed ==
    ASSUME doc' = doc, config' = config
    PROVE  /\ ChunkType' = ChunkType /\ Blocks' = Blocks /\ Length' = Length
           /\ \A b : Start(b)' = Start(b) /\ (Heading(b)' <=> Heading(b))
           /\ \A s : Bounds(s)' = Bounds(s) /\ (ByEntries(s)' <=> ByEntries(s))
           /\ \A s, e : EntryEnd(s, e)' = EntryEnd(s, e)
           /\ \A s, x : Unsplit(s, x)' <=> Unsplit(s, x)
           /\ \A s, c : PieceOf(s, c)' <=> PieceOf(s, c)
           /\ \A s : SectionOK(s)' <=> SectionOK(s)
<1>1. ChunkType' = ChunkType /\ Blocks' = Blocks /\ Length' = Length
  BY DEF ChunkType, PagesCovering, Touching, Blocks, Start, Begin, Length
<1>2. \A b : Start(b)' = Start(b) /\ (Heading(b)' <=> Heading(b))
  BY DEF Start, Begin, Heading
<1>3. \A s : Bounds(s)' = Bounds(s) /\ (ByEntries(s)' <=> ByEntries(s))
  BY DEF Bounds, Marks, ByEntries, IsReferences
<1>4. \A s, e : EntryEnd(s, e)' = EntryEnd(s, e)
  BY DEF EntryEnd, Marks
<1>5. \A s, x : Unsplit(s, x)' <=> Unsplit(s, x)
  BY DEF Unsplit, EntryEnd, Marks, ByEntries, IsReferences
<1>6. \A s, c : PieceOf(s, c)' <=> PieceOf(s, c)
  BY DEF PieceOf, PagesCovering, Touching, Blocks, Start, Begin,
         Unsplit, EntryEnd, Marks, ByEntries, IsReferences
<1>7. \A s : SectionOK(s)' <=> SectionOK(s)
  BY DEF SectionOK, Blocks, Start, Begin, Heading
<1>. QED
  BY <1>1, <1>2, <1>3, <1>4, <1>5, <1>6, <1>7

\* With adds a piece of the section that links up with the chunks already made.
LEMMA Added ==
    ASSUME ChunkerAssumption, LoopsOK, Pieces, Linked, sec # 0, NEW a \in Int, NEW b \in Int,
           sections[sec].lo <= a, b <= sections[sec].hi, b - a <= config.size,
           Unsplit(sections[sec], a), Unsplit(sections[sec], b),
           a < b => Reached < b,
           \/ a = Reached
           \/ /\ chunks # <<>> /\ chunks[Len(chunks)].title = sections[sec].title
              /\ Reached = a + config.overlap,
           chunks' = With(a, b), UNCHANGED <<doc, config, sections>>
    PROVE  /\ chunks' \in Seq(ChunkType) /\ Pieces' /\ Linked'
           /\ Reached' = (IF a < b THEN b ELSE Reached)
           /\ a < b => chunks' # <<>> /\ chunks'[Len(chunks')].title = sections[sec].title
<1> DEFINE s == sections[sec]
           c == [from |-> a, to |-> b, title |-> s.title, pages |-> PagesCovering(a, b)]
<1>1. /\ chunks \in Seq(ChunkType) /\ sections \in Seq(SectionType) /\ config.overlap \in Int
      /\ sec \in DOMAIN sections
  <2>1. config.overlap \in Int
    BY DEF LoopsOK, Startable, ChunkerAssumption
  <2>2. sections \in Seq(SectionType) /\ sec \in 1..Len(sections)
    BY DEF LoopsOK
  <2>. QED
    BY <2>1, <2>2 DEF LoopsOK
<1>2. \A t, d : PieceOf(t, d)' <=> PieceOf(t, d)
  BY Fixed
<1>3. CASE ~(a < b)
  <2>1. chunks' = chunks
    BY <1>3 DEF With
  <2>2. Pieces'
    BY <1>2, <2>1 DEF Pieces
  <2>3. Linked' /\ Reached' = Reached
    BY <2>1 DEF Linked, Reached
  <2>. QED
    BY <1>1, <1>3, <2>1, <2>2, <2>3
<1>4. CASE a < b
  <2>1. s \in SectionType
    BY <1>1
  <2>2. s.title \in Nat /\ s.lo \in Nat /\ s.hi \in Nat
    BY <2>1 DEF SectionType
  <2>3. c \in ChunkType /\ c.from = a /\ c.to = b /\ c.title = s.title /\ c.pages = PagesCovering(a, b)
    BY <2>2 DEF ChunkType
  <2>4. PieceOf(s, c)
    BY <1>4, <2>3 DEF PieceOf
  <2>5. chunks' = Append(chunks, c)
    BY <1>4 DEF With
  <2> HIDE DEF c
  <2>6. /\ chunks' \in Seq(ChunkType) /\ Len(chunks') = Len(chunks) + 1 /\ Len(chunks) \in Nat
        /\ chunks'[Len(chunks')] = c /\ \A i \in DOMAIN chunks : chunks'[i] = chunks[i]
        /\ DOMAIN chunks = 1..Len(chunks) /\ DOMAIN chunks' = 1..Len(chunks')
        /\ chunks' # <<>> /\ (chunks = <<>> <=> Len(chunks) = 0)
    BY <1>1, <2>3, <2>5
  <2>7. Pieces'
    <3> SUFFICES ASSUME NEW i \in DOMAIN chunks'
                 PROVE  \E k \in DOMAIN sections : PieceOf(sections[k], chunks'[i])
      BY <1>2 DEF Pieces
    <3>1. CASE i = Len(chunks')
      BY <1>1, <2>4, <2>6, <3>1
    <3>2. CASE i # Len(chunks')
      <4>1. i \in DOMAIN chunks
        BY <2>6, <3>2
      <4>. QED
        BY <2>6, <4>1 DEF Pieces
    <3>. QED
      BY <3>1, <3>2
  <2>8. chunks'[1].from = 0
    <3>1. CASE chunks = <<>>
      BY <2>3, <2>6, <3>1 DEF Reached
    <3>2. CASE chunks # <<>>
      <4>1. 1 \in DOMAIN chunks
        BY <2>6, <3>2
      <4>. QED
        BY <2>6, <3>2, <4>1 DEF Linked
    <3>. QED
      BY <3>1, <3>2
  <2>9. ASSUME NEW i \in 1..(Len(chunks') - 1)
        PROVE  /\ chunks'[i].to < chunks'[i + 1].to
               /\ \/ chunks'[i + 1].from = chunks'[i].to
                  \/ /\ chunks'[i].title = chunks'[i + 1].title
                     /\ chunks'[i + 1].from = chunks'[i].to - config.overlap
    <3>1. CASE i = Len(chunks)
      <4>1. chunks'[i] = chunks[Len(chunks)] /\ chunks'[i + 1] = c /\ chunks # <<>>
        BY <2>6, <3>1
      <4>2. Reached = chunks[Len(chunks)].to
        BY <4>1 DEF Reached
      <4>3. chunks[Len(chunks)] \in ChunkType
        BY <1>1, <2>6, <4>1
      <4>4. chunks[Len(chunks)].to \in Int
        BY <4>3 DEF ChunkType
      <4>. QED
        BY <1>1, <1>4, <2>3, <4>1, <4>2, <4>4
    <3>2. CASE i # Len(chunks)
      <4>0. Len(chunks') - 1 = Len(chunks) /\ Len(chunks) \in Nat
        BY <2>6
      <4>1. i \in 1..(Len(chunks) - 1)
        BY <3>2, <4>0
      <4>2. i \in 1..Len(chunks) /\ i + 1 \in 1..Len(chunks)
        BY <2>6, <4>1
      <4>. QED
        BY <2>6, <4>1, <4>2 DEF Linked
    <3>. QED
      BY <3>1, <3>2
  <2>10. Linked'
    BY <2>8, <2>9 DEF Linked
  <2>. QED
    BY <1>4, <2>3, <2>6, <2>7, <2>10 DEF Reached
<1>. QED
  BY <1>3, <1>4

-----------------------------------------------------------------------------
(* One lemma per action.                                                   *)

\* A section closed at a heading, or at the end of the text, begins with the heading in
\* force and has no other in it.
LEMMA Closes ==
    ASSUME ChunkerAssumption, ChunkInv, phase = "detect", NEW hi \in Nat, lo <= hi,
           \A b \in Blocks : Heading(b) /\ Start(b) < hi => b < block,
           sections' = Closed(title, hi), UNCHANGED <<doc, config>>
    PROVE  /\ sections' \in Seq(SectionType)
           /\ \A k \in DOMAIN sections' : SectionOK(sections'[k])
           /\ \A k \in 1..(Len(sections') - 1) : sections'[k + 1].lo = sections'[k].hi
           /\ sections' # <<>> => sections'[1].lo = 0
           /\ hi = IF sections' = <<>> THEN 0 ELSE sections'[Len(sections')].hi
<1> USE DEF ChunkInv
<1>1. /\ sections \in Seq(SectionType) /\ title \in Nat /\ lo \in Nat /\ doc \in Documents
      /\ Len(sections) \in Nat
  BY DEF LoopsOK
<1>2. /\ lo = IF sections = <<>> THEN 0 ELSE sections[Len(sections)].hi
      /\ IF title = 0 THEN lo = 0 ELSE title < block /\ lo = Start(title)
      /\ \A b \in Blocks : b < block /\ Heading(b) => b <= title
  BY DEF Detecting
<1>3. CASE ~(lo < hi)
  <2>1. sections' = sections /\ hi = lo
    BY <1>1, <1>3 DEF Closed
  <2>. QED
    BY <1>1, <1>2, <2>1 DEF Tiled
<1>4. CASE lo < hi
  <2> DEFINE s == [title |-> title, lo |-> lo, hi |-> hi]
  <2>1. sections' = Append(sections, s)
    BY <1>4 DEF Closed
  <2>2. s \in SectionType /\ s.title = title /\ s.lo = lo /\ s.hi = hi
    BY <1>1 DEF SectionType
  <2> HIDE DEF s
  <2>3. /\ sections' \in Seq(SectionType) /\ Len(sections') = Len(sections) + 1
        /\ sections'[Len(sections')] = s /\ \A k \in DOMAIN sections : sections'[k] = sections[k]
        /\ DOMAIN sections = 1..Len(sections) /\ DOMAIN sections' = 1..Len(sections')
        /\ sections' # <<>> /\ (sections = <<>> <=> Len(sections) = 0)
    BY <1>1, <2>1, <2>2
  <2>4. SectionOK(s)
    <3>1. \A b \in Blocks : Start(b) \in Nat /\ b \in Nat \ {0}
      BY <1>1, Boundaries
    <3>2. \A a, b \in Blocks : a < b => Start(a) < Start(b)
      BY <1>1, Boundaries
    <3>3. title = 0 \/ (title \in Blocks /\ lo = Start(title))
      <4>1. block <= Len(doc.ends) + 1 /\ block \in Nat
        BY DEF Detecting, LoopsOK
      <4>2. Blocks = 1..Len(doc.ends) /\ Len(doc.ends) \in Nat
        BY <1>1, Boundaries
      <4>. QED
        BY <1>1, <1>2, <4>1, <4>2
    <3>4. ASSUME NEW b \in Blocks, Heading(b)
          PROVE  ~(lo < Start(b) /\ Start(b) < hi) /\ (Start(b) <= lo => b <= title)
      <4>1. Start(b) < hi => b <= title
        BY <1>2, <3>4
      <4>2. b \in Nat \ {0} /\ Start(b) \in Nat
        BY <3>1
      <4>3. b <= title => Start(b) <= lo
        BY <1>1, <3>1, <3>2, <3>3, <4>2
      <4>. QED
        BY <1>1, <1>4, <4>1, <4>2, <4>3
    <3>. QED
      BY <1>4, <2>2, <3>3, <3>4 DEF SectionOK
  <2>5. ASSUME NEW k \in DOMAIN sections' PROVE SectionOK(sections'[k])
    <3>1. CASE k = Len(sections')
      BY <2>3, <2>4, <3>1
    <3>2. CASE k # Len(sections')
      <4>1. k \in DOMAIN sections
        BY <1>1, <2>3, <3>2
      <4>. QED
        BY <2>3, <4>1 DEF Tiled
    <3>. QED
      BY <3>1, <3>2
  <2>6. ASSUME NEW k \in 1..(Len(sections') - 1) PROVE sections'[k + 1].lo = sections'[k].hi
    <3>1. CASE k = Len(sections)
      BY <1>1, <1>2, <2>2, <2>3, <3>1
    <3>2. CASE k # Len(sections)
      <4>0. Len(sections') - 1 = Len(sections)
        BY <1>1, <2>3
      <4>1. k \in 1..(Len(sections) - 1)
        BY <1>1, <3>2, <4>0
      <4>2. k \in 1..Len(sections) /\ k + 1 \in 1..Len(sections)
        BY <1>1, <4>1
      <4>. QED
        BY <2>3, <4>1, <4>2 DEF Tiled
    <3>. QED
      BY <3>1, <3>2
  <2>7. sections'[1].lo = 0
    <3>1. CASE sections = <<>>
      BY <1>2, <2>2, <2>3, <3>1
    <3>2. CASE sections # <<>>
      <4>1. 1 \in DOMAIN sections
        BY <1>1, <2>3, <3>2
      <4>. QED
        BY <2>3, <3>2, <4>1 DEF Tiled
    <3>. QED
      BY <3>1, <3>2
  <2>. QED
    BY <2>2, <2>3, <2>5, <2>6, <2>7
<1>. QED
  BY <1>1, <1>3, <1>4

\* While sections are detected, nothing but them is at stake.
LEMMA StillDetecting ==
    ASSUME ChunkerAssumption, ChunkInv, phase = "detect",
           phase' \in {"detect", "section"}, block' \in Nat \ {0}, title' \in Nat, lo' \in Nat,
           sections' \in Seq(SectionType), UNCHANGED <<config, doc, sec, cursor, open, limit, chunks>>
    PROVE  LoopsOK' /\ Pieces' /\ Linked' /\ AtSection' /\ AtEntries' /\ AtWindows'
<1> USE DEF ChunkInv
<1>1. sec = 0 /\ chunks = <<>>
  BY DEF Detecting
<1>2. LoopsOK'
  <2>1. Len(sections') \in Nat /\ SectionType' = SectionType
    BY DEF SectionType
  <2>2. ChunkType' = ChunkType
    BY Fixed
  <2>. QED
    BY <1>1, <2>1, <2>2 DEF LoopsOK, Startable
<1>3. Pieces' /\ Linked'
  BY <1>1 DEF Pieces, Linked
<1>4. AtSection' /\ AtEntries' /\ AtWindows'
  BY <1>1 DEF AtSection, AtEntries, AtWindows, Reached
<1>. QED
  BY <1>2, <1>3, <1>4

LEMMA NextBlockKeeps == ASSUME ChunkerAssumption, ChunkInv, NextBlock PROVE ChunkInv'
<1> USE DEF ChunkInv
<1>1. /\ phase = "detect" /\ block \in Blocks /\ block' = block + 1
      /\ UNCHANGED <<config, doc, phase, sec, cursor, open, limit, chunks>>
  BY DEF NextBlock
<1>2. /\ doc \in Documents /\ title \in Nat /\ lo \in Nat /\ sections \in Seq(SectionType)
      /\ sec = 0 /\ chunks = <<>>
  BY <1>1 DEF LoopsOK, Detecting
<1>3. /\ Blocks = 1..Len(doc.ends) /\ Len(doc.ends) \in Nat
      /\ \A b \in Blocks : Start(b) \in Nat /\ b \in Nat \ {0}
      /\ \A a, b \in Blocks : a < b => Start(a) < Start(b)
  BY <1>2, Boundaries
<1>4. /\ Blocks' = Blocks /\ \A b : Start(b)' = Start(b) /\ (Heading(b)' <=> Heading(b))
      /\ \A s : SectionOK(s)' <=> SectionOK(s)
  BY <1>1, Fixed
<1>5. block' \in Nat \ {0} /\ block' <= Len(doc.ends) + 1
  BY <1>1, <1>3
<1>6. CASE ~Heading(block)
  <2>1. UNCHANGED <<sections, title, lo>>
    BY <1>6 DEF NextBlock
  <2>2. Tiled'
    BY <1>1, <1>4, <2>1 DEF Tiled
  <2>3. ASSUME NEW b \in Blocks, b < block', Heading(b) PROVE b <= title
    <3>1. b < block
      BY <1>1, <1>3, <1>6, <2>3
    <3>. QED
      BY <1>1, <2>3, <3>1 DEF Detecting
  <2>4. IF title = 0 THEN lo = 0 ELSE title < block /\ lo = Start(title)
    BY <1>1 DEF Detecting
  <2>5. IF title = 0 THEN lo = 0 ELSE title < block' /\ lo = Start(title)
    BY <1>1, <1>2, <1>3, <2>4
  <2>6. Detecting'
    BY <1>1, <1>2, <1>4, <1>5, <2>1, <2>3, <2>5 DEF Detecting
  <2>. QED
    BY <1>1, <1>2, <1>5, <2>1, <2>2, <2>6, StillDetecting
<1>7. CASE Heading(block)
  <2>1. sections' = Closed(title, Start(block)) /\ title' = block /\ lo' = Start(block)
    BY <1>7 DEF NextBlock
  <2>2. lo <= Start(block)
    <3>1. IF title = 0 THEN lo = 0 ELSE title < block /\ lo = Start(title)
      BY <1>1 DEF Detecting
    <3>2. title # 0 => title \in Blocks
      BY <1>1, <1>2, <1>3, <3>1
    <3>. QED
      BY <1>1, <1>3, <3>1, <3>2
  <2>3. \A b \in Blocks : Heading(b) /\ Start(b) < Start(block) => b < block
    BY <1>1, <1>3
  <2>4. Start(block) \in Nat /\ title' \in Nat /\ lo' \in Nat
    BY <1>1, <1>3, <2>1
  <2>5. /\ sections' \in Seq(SectionType)
        /\ \A k \in DOMAIN sections' : SectionOK(sections'[k])
        /\ \A k \in 1..(Len(sections') - 1) : sections'[k + 1].lo = sections'[k].hi
        /\ sections' # <<>> => sections'[1].lo = 0
        /\ Start(block) = IF sections' = <<>> THEN 0 ELSE sections'[Len(sections')].hi
    BY <1>1, <2>1, <2>2, <2>3, <2>4, Closes
  <2>6. Tiled'
    BY <1>1, <1>4, <2>5 DEF Tiled
  <2>7. \A b \in Blocks : b < block' /\ Heading(b) => b <= title'
    BY <1>1, <1>3, <2>1
  <2>8. IF title' = 0 THEN lo' = 0 ELSE title' < block' /\ lo' = Start(title')
    BY <1>1, <1>3, <2>1
  <2>9. Detecting'
    BY <1>1, <1>2, <1>4, <1>5, <2>1, <2>5, <2>7, <2>8 DEF Detecting
  <2>. QED
    BY <1>1, <1>5, <2>4, <2>5, <2>6, <2>9, StillDetecting
<1>. QED
  BY <1>6, <1>7

LEMMA EndOfBlocksKeeps == ASSUME ChunkerAssumption, ChunkInv, EndOfBlocks PROVE ChunkInv'
<1> USE DEF ChunkInv
<1>1. /\ phase = "detect" /\ block \notin Blocks /\ phase' = "section"
      /\ sections' = Closed(title, Length)
      /\ UNCHANGED <<config, doc, block, title, lo, sec, cursor, open, limit, chunks>>
  BY DEF EndOfBlocks
<1>2. doc \in Documents /\ title \in Nat /\ lo \in Nat /\ block \in Nat \ {0}
  BY DEF LoopsOK
<1>3. /\ Blocks = 1..Len(doc.ends) /\ Len(doc.ends) \in Nat /\ Length \in Nat \ {0}
      /\ \A b \in Blocks : Start(b) \in Nat /\ Start(b) < Length
  BY <1>2, Boundaries
<1>4. Length' = Length /\ \A s : SectionOK(s)' <=> SectionOK(s)
  BY <1>1, Fixed
<1>5. IF title = 0 THEN lo = 0 ELSE title < block /\ lo = Start(title)
  BY <1>1 DEF Detecting
<1>6. block = Len(doc.ends) + 1
  BY <1>1, <1>2, <1>3 DEF Detecting
<1>7. lo <= Length
  BY <1>2, <1>3, <1>5, <1>6
<1>8. \A b \in Blocks : Heading(b) /\ Start(b) < Length => b < block
  BY <1>3, <1>6
<1>9. /\ sections' \in Seq(SectionType)
      /\ \A k \in DOMAIN sections' : SectionOK(sections'[k])
      /\ \A k \in 1..(Len(sections') - 1) : sections'[k + 1].lo = sections'[k].hi
      /\ sections' # <<>> => sections'[1].lo = 0
      /\ Length = IF sections' = <<>> THEN 0 ELSE sections'[Len(sections')].hi
  BY <1>1, <1>3, <1>7, <1>8, Closes
<1>10. sections' # <<>>
  BY <1>3, <1>9
<1>11. Tiled'
  BY <1>4, <1>9, <1>10 DEF Tiled
<1>12. Detecting'
  BY <1>1 DEF Detecting
<1>. QED
  BY <1>1, <1>2, <1>9, <1>11, <1>12, StillDetecting

\* While sections are chunked, they stay as they are.
LEMMA StillChunking ==
    ASSUME ChunkerAssumption, ChunkInv, phase # "detect",
           phase' \in {"section", "entries", "windows"}, sec' \in 1..Len(sections), lo' \in Nat,
           cursor' \in Int, open' \in Int, limit' \in Int, chunks' \in Seq(ChunkType),
           UNCHANGED <<config, doc, sections, block, title>>
    PROVE  LoopsOK' /\ Tiled' /\ Detecting'
<1> USE DEF ChunkInv
<1>1. /\ ChunkType' = ChunkType /\ Length' = Length
      /\ \A s : SectionOK(s)' <=> SectionOK(s)
  BY Fixed
<1>2. Tiled' /\ Detecting'
  BY <1>1 DEF Tiled, Detecting
<1>3. sections' \in Seq(SectionType') /\ sec' \in 0..Len(sections') /\ sec' # 0
  <2>1. Len(sections) \in Nat
    BY DEF LoopsOK
  <2>. QED
    BY <2>1 DEF LoopsOK, SectionType
<1>4. LoopsOK'
  BY <1>1, <1>3 DEF LoopsOK, Startable
<1>. QED
  BY <1>2, <1>4

\* The numbers the loops of a section work with.
LEMMA InSection ==
    ASSUME ChunkerAssumption, ChunkInv, NEW k \in 1..Len(sections)
    PROVE  /\ sections[k] \in SectionType /\ k \in DOMAIN sections /\ SectionOK(sections[k])
           /\ sections[k].lo \in Nat /\ sections[k].hi \in Nat /\ sections[k].lo < sections[k].hi
           /\ doc \in Documents /\ cursor \in Int /\ open \in Int /\ limit \in Int /\ lo \in Nat
           /\ config.size \in Int /\ config.overlap \in Int
           /\ config.size > 0 /\ config.overlap >= 0 /\ config.overlap < config.size
<1> USE DEF ChunkInv
<1>1. sections \in Seq(SectionType)
  BY DEF LoopsOK
<1>2. sections[k] \in SectionType /\ k \in DOMAIN sections
  BY <1>1
<1>3. SectionOK(sections[k])
  BY <1>2 DEF Tiled
<1>4. sections[k].lo \in Nat /\ sections[k].hi \in Nat /\ sections[k].lo < sections[k].hi
  BY <1>2, <1>3 DEF SectionType, SectionOK
<1>5. doc \in Documents /\ cursor \in Int /\ open \in Int /\ limit \in Int /\ lo \in Nat
  BY DEF LoopsOK
<1>6. /\ config.size \in Int /\ config.overlap \in Int
      /\ config.size > 0 /\ config.overlap >= 0 /\ config.overlap < config.size
  BY DEF LoopsOK, Startable, ChunkerAssumption
<1>. QED
  BY <1>2, <1>3, <1>4, <1>5, <1>6

LEMMA NextSectionKeeps == ASSUME ChunkerAssumption, ChunkInv, NextSection PROVE ChunkInv'
<1> USE DEF ChunkInv
<1> DEFINE s == sections[sec + 1]
<1>1. /\ phase = "section" /\ sec < Len(sections) /\ sec' = sec + 1
      /\ phase' = (IF ByEntries(s) THEN "entries" ELSE "windows")
      /\ lo' = s.lo /\ cursor' = s.lo /\ open' = s.lo /\ limit' = s.hi
      /\ UNCHANGED <<config, doc, sections, block, title, chunks>>
  BY DEF NextSection
<1>2. sec \in 0..Len(sections) /\ Len(sections) \in Nat /\ sec + 1 \in 1..Len(sections)
  BY <1>1 DEF LoopsOK
<1>3. /\ s.lo \in Nat /\ s.hi \in Nat /\ s.lo < s.hi /\ config.size \in Int /\ config.size > 0
  BY <1>2, InSection
<1>4. LoopsOK' /\ Tiled' /\ Detecting'
  <2>1. chunks' \in Seq(ChunkType)
    BY <1>1 DEF LoopsOK
  <2>2. phase # "detect" /\ phase' \in {"section", "entries", "windows"}
    BY <1>1
  <2>. QED
    BY <1>1, <1>2, <1>3, <2>1, <2>2, StillChunking
<1>5. Reached = s.lo
  <2>1. Reached = IF sec = 0 THEN 0 ELSE sections[sec].hi
    BY <1>1 DEF AtSection
  <2>2. CASE sec = 0
    BY <1>1, <2>1, <2>2 DEF Tiled
  <2>3. CASE sec # 0
    <3>1. sec \in 1..(Len(sections) - 1)
      BY <1>1, <1>2, <2>3
    <3>. QED
      BY <2>1, <2>3, <3>1 DEF Tiled
  <2>. QED
    BY <2>2, <2>3
<1>6. Pieces' /\ Linked' /\ Reached' = Reached
  <2>1. \A t, c : PieceOf(t, c)' <=> PieceOf(t, c)
    BY <1>1, Fixed
  <2>. QED
    BY <1>1, <2>1 DEF Pieces, Linked, Reached
<1>7. \A t : (ByEntries(t)' <=> ByEntries(t)) /\ Bounds(t)' = Bounds(t)
  BY <1>1, Fixed
<1>8. AtSection' /\ AtEntries' /\ AtWindows'
  <2>1. sections'[sec'] = s /\ s.lo \in Bounds(s)
    BY <1>1 DEF Bounds
  <2> HIDE DEF s
  <2>2. CASE ByEntries(s)
    BY <1>1, <1>3, <1>5, <1>6, <1>7, <2>1, <2>2 DEF AtSection, AtEntries, AtWindows
  <2>3. CASE ~ByEntries(s)
    BY <1>1, <1>3, <1>5, <1>6, <1>7, <2>1, <2>3 DEF AtSection, AtEntries, AtWindows
  <2>. QED
    BY <2>2, <2>3
<1>. QED
  BY <1>4, <1>6, <1>8

LEMMA NextEntryKeeps == ASSUME ChunkerAssumption, ChunkInv, NextEntry PROVE ChunkInv'
<1> USE DEF ChunkInv
<1> DEFINE s == sections[sec]
           end == EntryEnd(s, cursor)
<1>1. /\ phase = "entries" /\ cursor < s.hi
      /\ \/ /\ end - cursor > config.size
            /\ chunks' = With(open, cursor)
            /\ phase' = "windows" /\ limit' = end
            /\ UNCHANGED <<cursor, open>>
         \/ /\ end - cursor <= config.size
            /\ IF Fits(end) THEN UNCHANGED <<chunks, open>>
               ELSE chunks' = With(open, cursor) /\ open' = cursor
            /\ cursor' = end
            /\ UNCHANGED <<phase, limit>>
      /\ UNCHANGED <<config, doc, sections, block, title, lo, sec>>
  BY DEF NextEntry, detect
<1>2. sec # 0 /\ sec \in 1..Len(sections)
  BY <1>1 DEF LoopsOK
<1>3. /\ s \in SectionType /\ s.lo \in Nat /\ s.hi \in Nat /\ s.lo < s.hi
      /\ doc \in Documents /\ cursor \in Int /\ open \in Int /\ limit \in Int /\ lo \in Nat
      /\ config.size \in Int /\ config.size > 0
  BY <1>2, InSection
<1>4. /\ ByEntries(s) /\ cursor \in Bounds(s) /\ open \in Bounds(s)
      /\ s.lo <= open /\ open <= cursor /\ cursor <= s.hi
      /\ Reached = open /\ cursor - open <= config.size
  BY <1>1 DEF AtEntries
<1>5. end \in Bounds(s) /\ end \in Nat /\ cursor < end /\ end <= s.hi
  BY <1>1, <1>3, EntryEnds DEF Bounds
<1>6. Unsplit(s, open) /\ Unsplit(s, cursor)
  BY <1>3, <1>4, BoundsDoNotSplit
<1>7. /\ \A t : (ByEntries(t)' <=> ByEntries(t)) /\ Bounds(t)' = Bounds(t)
      /\ \A t, e : EntryEnd(t, e)' = EntryEnd(t, e)
      /\ \A t, c : PieceOf(t, c)' <=> PieceOf(t, c)
  BY <1>1, Fixed
<1>8. chunks' = With(open, cursor) =>
         chunks' \in Seq(ChunkType) /\ Pieces' /\ Linked' /\ Reached' = cursor
  <2> SUFFICES ASSUME chunks' = With(open, cursor)
               PROVE  chunks' \in Seq(ChunkType) /\ Pieces' /\ Linked' /\ Reached' = cursor
    OBVIOUS
  <2>1. /\ chunks' \in Seq(ChunkType) /\ Pieces' /\ Linked'
        /\ Reached' = (IF open < cursor THEN cursor ELSE Reached)
    BY <1>1, <1>2, <1>3, <1>4, <1>6, Added
  <2>. QED
    BY <1>3, <1>4, <2>1
<1>9. sections'[sec'] = s
  BY <1>1
<1>10. CASE end - cursor > config.size
  <2>1. chunks' = With(open, cursor) /\ phase' = "windows" /\ limit' = end /\ UNCHANGED <<cursor, open>>
    BY <1>1, <1>3, <1>5, <1>10
  <2>2. phase # "detect" /\ phase' \in {"section", "entries", "windows"}
    BY <1>1, <2>1
  <2>3. LoopsOK' /\ Tiled' /\ Detecting'
    BY <1>1, <1>2, <1>3, <1>5, <1>8, <2>1, <2>2, StillChunking
  <2>4. AtWindows'
    <3>1. \E e \in Bounds(s) : e <= cursor /\ e < s.hi /\ end = EntryEnd(s, e) /\ end - e > config.size
      BY <1>1, <1>3, <1>4, <1>10
    <3>2. s.lo <= cursor /\ cursor < end /\ end <= s.hi /\ Reached' = cursor
      BY <1>3, <1>4, <1>5, <1>8, <2>1
    <3> HIDE DEF s, end
    <3>. QED
      BY <1>1, <1>4, <1>7, <1>9, <2>1, <3>1, <3>2 DEF AtWindows
  <2>5. AtSection' /\ AtEntries'
    BY <2>1 DEF AtSection, AtEntries
  <2>. QED
    BY <1>8, <2>1, <2>3, <2>4, <2>5
<1>11. CASE end - cursor <= config.size
  <2>1. /\ cursor' = end /\ phase' = "entries" /\ UNCHANGED limit
        /\ IF Fits(end) THEN UNCHANGED <<chunks, open>>
           ELSE chunks' = With(open, cursor) /\ open' = cursor
    BY <1>1, <1>3, <1>5, <1>11
  <2>2. phase # "detect" /\ phase' \in {"section", "entries", "windows"}
    BY <1>1, <2>1
  <2>3. /\ chunks' \in Seq(ChunkType) /\ Pieces' /\ Linked'
        /\ open' \in Bounds(s) /\ s.lo <= open' /\ open' <= end /\ Reached' = open' /\ end - open' <= config.size
    <3>1. CASE Fits(end)
      <4>1. chunks' = chunks /\ open' = open /\ end - open <= config.size
        BY <2>1, <3>1 DEF Fits
      <4>2. chunks' \in Seq(ChunkType) /\ Pieces' /\ Linked' /\ Reached' = Reached
        BY <1>1, <1>7, <4>1 DEF LoopsOK, Pieces, Linked, Reached
      <4>. QED
        BY <1>3, <1>4, <1>5, <4>1, <4>2
    <3>2. CASE ~Fits(end)
      BY <1>3, <1>4, <1>5, <1>8, <1>11, <2>1, <3>2
    <3>. QED
      BY <3>1, <3>2
  <2>4. open' \in Int
    BY <1>3, <2>3, BoundsDoNotSplit
  <2>5. LoopsOK' /\ Tiled' /\ Detecting'
    BY <1>1, <1>2, <1>3, <1>5, <2>1, <2>2, <2>3, <2>4, StillChunking
  <2>6. AtEntries'
    <3> HIDE DEF s, end
    <3>. QED
      BY <1>1, <1>4, <1>5, <1>7, <1>9, <2>1, <2>3 DEF AtEntries
  <2>7. AtSection' /\ AtWindows'
    BY <2>1 DEF AtSection, AtWindows
  <2>. QED
    BY <2>3, <2>5, <2>6, <2>7
<1>. QED
  BY <1>3, <1>5, <1>10, <1>11

LEMMA EndOfEntriesKeeps == ASSUME ChunkerAssumption, ChunkInv, EndOfEntries PROVE ChunkInv'
<1> USE DEF ChunkInv
<1> DEFINE s == sections[sec]
<1>1. /\ phase = "entries" /\ cursor = s.hi /\ phase' = "section" /\ chunks' = With(open, cursor)
      /\ UNCHANGED <<config, doc, sections, block, title, lo, sec, cursor, open, limit>>
  BY DEF EndOfEntries, detect
<1>2. sec # 0 /\ sec \in 1..Len(sections)
  BY <1>1 DEF LoopsOK
<1>3. /\ s \in SectionType /\ s.lo \in Nat /\ s.hi \in Nat
      /\ doc \in Documents /\ cursor \in Int /\ open \in Int /\ limit \in Int /\ lo \in Nat
      /\ config.size \in Int
  BY <1>2, InSection
<1>4. /\ cursor \in Bounds(s) /\ open \in Bounds(s)
      /\ s.lo <= open /\ open <= cursor /\ Reached = open /\ cursor - open <= config.size
  BY <1>1 DEF AtEntries
<1>5. Unsplit(s, open) /\ Unsplit(s, cursor)
  BY <1>3, <1>4, BoundsDoNotSplit
<1>6. /\ chunks' \in Seq(ChunkType) /\ Pieces' /\ Linked'
      /\ Reached' = (IF open < cursor THEN cursor ELSE Reached)
  BY <1>1, <1>2, <1>3, <1>4, <1>5, Added
<1>7. LoopsOK' /\ Tiled' /\ Detecting'
  <2>1. phase # "detect" /\ phase' \in {"section", "entries", "windows"}
    BY <1>1
  <2>. QED
    BY <1>1, <1>2, <1>3, <1>6, <2>1, StillChunking
<1>8. Reached' = s.hi
  BY <1>1, <1>3, <1>4, <1>6
<1>9. AtSection' /\ AtEntries' /\ AtWindows'
  BY <1>1, <1>2, <1>8 DEF AtSection, AtEntries, AtWindows
<1>. QED
  BY <1>6, <1>7, <1>9

LEMMA NextWindowKeeps == ASSUME ChunkerAssumption, ChunkInv, NextWindow PROVE ChunkInv'
<1> USE DEF ChunkInv
<1> DEFINE s == sections[sec]
           end == IF cursor + config.size < limit THEN cursor + config.size ELSE limit
<1>1. /\ phase = "windows" /\ chunks' = With(cursor, end)
      /\ IF end = limit
         THEN /\ phase' = IF ByEntries(s) THEN "entries" ELSE "section"
              /\ cursor' = limit /\ open' = limit
         ELSE /\ cursor' = cursor + (config.size - config.overlap)
              /\ UNCHANGED <<phase, open>>
      /\ UNCHANGED <<config, doc, sections, block, title, lo, sec, limit>>
  BY DEF NextWindow, detect
<1>2. sec # 0 /\ sec \in 1..Len(sections)
  BY <1>1 DEF LoopsOK
<1>3. /\ s \in SectionType /\ s.lo \in Nat /\ s.hi \in Nat
      /\ doc \in Documents /\ cursor \in Int /\ open \in Int /\ limit \in Int /\ lo \in Nat
      /\ config.size \in Int /\ config.overlap \in Int
      /\ config.size > 0 /\ config.overlap >= 0 /\ config.overlap < config.size
  BY <1>2, InSection
<1>4. /\ s.lo <= cursor /\ cursor < limit /\ limit <= s.hi /\ Reached < limit
      /\ \/ Reached = cursor
         \/ /\ chunks # <<>> /\ chunks[Len(chunks)].title = s.title
            /\ Reached = cursor + config.overlap
      /\ ~ByEntries(s) => limit = s.hi
      /\ ByEntries(s) =>
            \E e \in Bounds(s) : /\ e <= cursor /\ e < s.hi
                                /\ limit = EntryEnd(s, e) /\ limit - e > config.size
  BY <1>1 DEF AtWindows
<1>5. end \in Int /\ cursor < end /\ end <= limit /\ end <= s.hi /\ end - cursor <= config.size
  BY <1>3, <1>4
<1>6. Reached < end
  BY <1>3, <1>4
<1>7. /\ Unsplit(s, cursor) /\ Unsplit(s, end)
      /\ ByEntries(s) => limit \in Bounds(s)
  <2>1. CASE ~ByEntries(s)
    BY <2>1 DEF Unsplit
  <2>2. CASE ByEntries(s)
    <3>1. PICK e \in Bounds(s) : /\ e <= cursor /\ e < s.hi
                                 /\ limit = EntryEnd(s, e) /\ limit - e > config.size
      BY <1>4, <2>2
    <3>2. e \in Nat
      BY <1>3, BoundsDoNotSplit
    <3>3. limit \in Bounds(s)
      BY <1>3, <3>1, <3>2, EntryEnds DEF Bounds
    <3>4. e <= end /\ cursor <= limit
      BY <1>3, <1>4, <1>5, <3>1, <3>2
    <3> HIDE DEF s, end
    <3>. QED
      BY <1>3, <1>5, <3>1, <3>3, <3>4, LongDoesNotSplit
  <2>. QED
    BY <2>1, <2>2
<1> HIDE DEF end
<1>8. /\ chunks' \in Seq(ChunkType) /\ Pieces' /\ Linked' /\ Reached' = end
      /\ chunks' # <<>> /\ chunks'[Len(chunks')].title = s.title
  BY <1>1, <1>2, <1>3, <1>4, <1>5, <1>6, <1>7, Added
<1>9. /\ \A t : (ByEntries(t)' <=> ByEntries(t)) /\ Bounds(t)' = Bounds(t)
      /\ \A t, e : EntryEnd(t, e)' = EntryEnd(t, e)
  BY <1>1, Fixed
<1>10. sections'[sec'] = s
  BY <1>1
<1>11. LoopsOK' /\ Tiled' /\ Detecting'
  <2>1. phase # "detect" /\ phase' \in {"section", "entries", "windows"}
    BY <1>1
  <2>2. cursor' \in Int /\ open' \in Int /\ limit' \in Int /\ lo' \in Nat /\ sec' \in 1..Len(sections)
    BY <1>1, <1>2, <1>3
  <2>. QED
    BY <1>1, <1>8, <2>1, <2>2, StillChunking
<1>12. CASE end = limit /\ ByEntries(s)
  <2>1. phase' = "entries" /\ cursor' = limit /\ open' = limit
    BY <1>1, <1>12
  <2>2. AtEntries'
    <3>1. s.lo <= limit /\ limit <= limit /\ limit - limit <= config.size
      BY <1>3, <1>4
    <3> HIDE DEF s
    <3>. QED
      BY <1>1, <1>4, <1>7, <1>8, <1>9, <1>10, <1>12, <2>1, <3>1 DEF AtEntries
  <2>. QED
    BY <1>8, <1>11, <2>1, <2>2 DEF AtSection, AtWindows
<1>13. CASE end = limit /\ ~ByEntries(s)
  <2>1. phase' = "section"
    BY <1>1, <1>13
  <2>2. Reached' = s.hi
    BY <1>4, <1>8, <1>13
  <2>3. AtSection'
    BY <1>1, <1>2, <1>10, <2>2 DEF AtSection
  <2>. QED
    BY <1>8, <1>11, <2>1, <2>3 DEF AtEntries, AtWindows
<1>14. CASE end # limit
  <2>1. /\ phase' = "windows" /\ cursor' = cursor + (config.size - config.overlap)
        /\ end = cursor + config.size /\ end < limit
    BY <1>1, <1>3, <1>5, <1>14 DEF end
  <2>2. /\ s.lo <= cursor' /\ cursor' < limit /\ Reached' < limit /\ cursor <= cursor'
        /\ Reached' = cursor' + config.overlap
    BY <1>3, <1>4, <1>8, <2>1
  <2>3. ByEntries(s) =>
            \E e \in Bounds(s) : /\ e <= cursor' /\ e < s.hi
                                /\ limit = EntryEnd(s, e) /\ limit - e > config.size
    <3> SUFFICES ASSUME ByEntries(s)
                 PROVE  \E e \in Bounds(s) : /\ e <= cursor' /\ e < s.hi
                                             /\ limit = EntryEnd(s, e) /\ limit - e > config.size
      OBVIOUS
    <3>1. PICK e \in Bounds(s) : /\ e <= cursor /\ e < s.hi
                                 /\ limit = EntryEnd(s, e) /\ limit - e > config.size
      BY <1>4
    <3>2. e \in Nat /\ cursor' \in Int
      BY <1>3, <2>1, BoundsDoNotSplit
    <3>3. e <= cursor'
      BY <1>3, <2>2, <3>1, <3>2
    <3>. QED
      BY <3>1, <3>3
  <2>4. AtWindows'
    <3> HIDE DEF s
    <3>. QED
      BY <1>1, <1>4, <1>8, <1>9, <1>10, <2>1, <2>2, <2>3 DEF AtWindows
  <2>. QED
    BY <1>8, <1>11, <2>1, <2>4 DEF AtSection, AtEntries
<1>. QED
  BY <1>12, <1>13, <1>14

-----------------------------------------------------------------------------
(* The theorems.                                                           *)

LEMMA Starts == ASSUME ChunkerAssumption, Init PROVE ChunkInv
<1> USE DEF Init
<1>1. LoopsOK
  <2>1. sections \in Seq(SectionType) /\ chunks \in Seq(ChunkType) /\ Len(sections) = 0
    OBVIOUS
  <2>. QED
    BY <2>1 DEF LoopsOK, Startable
<1>2. Tiled /\ Pieces /\ Linked /\ AtSection /\ AtEntries /\ AtWindows
  BY DEF Tiled, Pieces, Linked, AtSection, AtEntries, AtWindows
<1>3. Detecting
  <2>1. Len(doc.ends) \in Nat /\ Blocks = 1..Len(doc.ends)
    BY Boundaries
  <2>. QED
    BY <2>1 DEF Detecting
<1>. QED
  BY <1>1, <1>2, <1>3 DEF ChunkInv

\* ChunkInv holds throughout detect_sections and chunk.
THEOREM ChunkingIsInductive == Spec => []ChunkInv
<1>1. Init => ChunkInv
  BY ChunkerAssumption, Starts
<1>2. ChunkInv /\ [Next]_vars => ChunkInv'
  <2> SUFFICES ASSUME ChunkInv, [Next]_vars PROVE ChunkInv'
    OBVIOUS
  <2>1. CASE NextBlock
    BY <2>1, ChunkerAssumption, NextBlockKeeps
  <2>2. CASE EndOfBlocks
    BY <2>2, ChunkerAssumption, EndOfBlocksKeeps
  <2>3. CASE NextSection
    BY <2>3, ChunkerAssumption, NextSectionKeeps
  <2>4. CASE NextEntry
    BY <2>4, ChunkerAssumption, NextEntryKeeps
  <2>5. CASE EndOfEntries
    BY <2>5, ChunkerAssumption, EndOfEntriesKeeps
  <2>6. CASE NextWindow
    BY <2>6, ChunkerAssumption, NextWindowKeeps
  <2>7. CASE UNCHANGED vars
    <3>1. UNCHANGED <<config, doc, sections, block, title, lo, phase, sec, cursor, open, limit, chunks>>
      BY <2>7 DEF vars, detect
    <3>2. ChunkType' = ChunkType /\ Blocks' = Blocks /\ Length' = Length
      BY <3>1, Fixed
    <3>3. /\ \A b : Start(b)' = Start(b) /\ (Heading(b)' <=> Heading(b))
          /\ \A s : Bounds(s)' = Bounds(s) /\ (ByEntries(s)' <=> ByEntries(s))
          /\ \A s, e : EntryEnd(s, e)' = EntryEnd(s, e)
          /\ \A s, c : PieceOf(s, c)' <=> PieceOf(s, c)
          /\ \A s : SectionOK(s)' <=> SectionOK(s)
      BY <3>1, Fixed
    <3>4. LoopsOK'
      BY <3>1, <3>2 DEF ChunkInv, LoopsOK, SectionType, Startable
    <3>5. Tiled' /\ Pieces' /\ Linked'
      BY <3>1, <3>2, <3>3 DEF ChunkInv, Tiled, Pieces, Linked
    <3>6. Detecting'
      BY <3>1, <3>2, <3>3 DEF ChunkInv, Detecting
    <3>7. AtSection' /\ AtEntries' /\ AtWindows'
      BY <3>1, <3>3 DEF ChunkInv, AtSection, AtEntries, AtWindows, Reached
    <3>. QED
      BY <3>4, <3>5, <3>6, <3>7 DEF ChunkInv
  <2>. QED
    BY <2>1, <2>2, <2>3, <2>4, <2>5, <2>6, <2>7 DEF Next
<1>. QED
  BY <1>1, <1>2, PTL DEF Spec

\* The embedding model reads every chunk to its end, whatever the settings the worker
\* starts with.
THEOREM ChunksAreReadWhole == Spec => []NeverTruncated
<1>1. ChunkInv => NeverTruncated
  BY ChunkerAssumption, PiecesAreSound
<1>. QED
  BY <1>1, ChunkingIsInductive, PTL

\* chunk loses no text: the chunks join up, by exactly the overlap where they share
\* text, and the last one ends the document.
THEOREM ChunksAreSeamless == Spec => []Seamless
<1>1. ChunkInv => Seamless
  BY ChunkerAssumption, NothingLost
<1>. QED
  BY <1>1, ChunkingIsInductive, PTL

\* A chunk never runs across a heading, and carries the one it lies under.
THEOREM ChunksStayUnderTheirHeading == Spec => []UnderItsHeading
<1>1. ChunkInv => UnderItsHeading
  BY ChunkerAssumption, PiecesAreSound
<1>. QED
  BY <1>1, ChunkingIsInductive, PTL

\* _reference_ranges splits no entry that fits a chunk, wherever the windows of a longer
\* entry leave the cursor.
THEOREM ReferencesStayWhole == Spec => []EntriesIntact
<1>1. ChunkInv => EntriesIntact
  BY ChunkerAssumption, EntriesStayWhole
<1>. QED
  BY <1>1, ChunkingIsInductive, PTL

\* _pages_covering cites the pages of a chunk's first and last token.
THEOREM CitationsAreExact == Spec => []CitedPages
<1>1. ChunkInv => CitedPages
  BY ChunkerAssumption, PiecesAreSound
<1>. QED
  BY <1>1, ChunkingIsInductive, PTL

=============================================================================
