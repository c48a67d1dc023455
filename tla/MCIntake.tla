------------------------------ MODULE MCIntake ------------------------------
(***************************************************************************)
(* Uploads for TLC: every short name with a plain file; files around every *)
(* limit, for an API and a worker with the same or different page caps;    *)
(* and files of every page of four blocks over the extents that matter     *)
(* around the gutter, or of two smaller pages.  Documents from before have *)
(* every file around a limit and any page count in their row, or none.     *)
(***************************************************************************)
EXTENDS Intake

\* Full width, either column, and blocks that reach into the gutter.
Extents == {<<0, 10>>, <<0, 4>>, <<0, 6>>, <<4, 10>>, <<7, 10>>}

Laid(e, y, blank) == [x0 |-> e[1], x1 |-> e[2], y0 |-> y, blank |-> blank, image |-> FALSE]
Text == {Laid(e, y, FALSE) : e \in Extents, y \in 1..2}
Noise == {Laid(<<0, 10>>, 1, TRUE), [Laid(<<0, 10>>, 1, FALSE) EXCEPT !.image = TRUE]}
Small == {<<t>> : t \in Text \cup Noise} \cup {<<>>}

File(ps) == [size |-> 2, magic |-> TRUE, opens |-> TRUE, locked |-> FALSE, pages |-> ps]
Sound == {File(<<p>>) : p \in [1..4 -> Text]} \cup {File(<<p, q>>) : p, q \in Small}
Doubtful == [size : 0..9, magic : BOOLEAN, opens : BOOLEAN, locked : BOOLEAN,
             pages : {[i \in 1..n |-> p] : n \in 0..3, p \in {<<>>, <<Laid(<<0, 10>>, 1, FALSE)>>}}]

MCPdfs == Sound \cup Doubtful

\* Caps below, at and above the page counts of the doubtful files.
Caps == 1..3

MCArrivals ==
    [raw : BoundedSeq(Characters, 4), pdf : {File(<<<<>>>>)}, limit : {2}, maxPages : {2}]
    \cup [raw : {<<"e">>}, pdf : Sound, limit : {2}, maxPages : {2}]
    \cup [raw : {<<"e">>}, pdf : Doubtful, limit : Caps, maxPages : Caps]

MCEarlier == [pdf : {f \in Doubtful : f.size = 2}, recorded : 0..3, maxPages : Caps]

=============================================================================
