----------------------------- MODULE MCChunker -----------------------------
(***************************************************************************)
(* Instances of Chunker for TLC: every document of up to three blocks and  *)
(* MaxLength tokens over a few kinds of block.                             *)
(***************************************************************************)
EXTENDS Chunker

CONSTANT MaxLength

Block(lines, size, named) ==
    [lines |-> lines, words |-> 1, size |-> size, stop |-> FALSE, named |-> named]

Prose == [Block(3, 10, "none") EXCEPT !.words = 2]
Large == Block(1, 12, "none")
Shout == [Large EXCEPT !.stop = TRUE]
References == Block(1, 11, "references")
Item == Block(2, 10, "numbered")

Shapes == {Prose, Large, Shout, References, Item}

Increasing(n) == {e \in [1..n -> 1..MaxLength] : \A b \in 1..(n - 1) : e[b] < e[b + 1]}

\* Entries are looked for in reference lists only, so marks elsewhere are left out.
DocumentsOf(shapes) ==
    UNION {[ends : Increasing(n), shape : [1..n -> shapes], page : {[b \in 1..n |-> 1 + b \div 3]},
            marks : SUBSET (1..(MaxLength - 1))] : n \in 1..3}

WithMarks(ds) ==
    {d \in ds : /\ \A m \in d.marks : m < d.ends[Len(d.ends)]
                /\ d.marks # {} => \E b \in DOMAIN d.shape : d.shape[b] = References}

MCDocuments == WithMarks(DocumentsOf(Shapes))
MCSizes == -1..4

=============================================================================
