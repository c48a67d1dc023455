------------------------------ MODULE MCSearch ------------------------------
(***************************************************************************)
(* Instances of Search for TLC: a document ingested by workers of two      *)
(* versions, searched by its owner and by another user.                    *)
(***************************************************************************)
EXTENDS Search, TLC

CONSTANTS d1, s1, s2, r1, u1, u2, old, new

OneDoc == {d1}
TwoSlots == {s1, s2}
BothVersions == {old, new}
OneSearcher == {r1}
TwoUsers == {u1, u2}

MixedVersions == s1 :> old @@ s2 :> new
Models == old :> "oldModel" @@ new :> "newModel"

\* The old version makes one chunk, the new one two.
MCPoints == {"o1", "n1", "n2"}
MCChunksOf == [v \in Versions |-> IF v = old THEN {"o1"} ELSE {"n1", "n2"}]

Own == [d \in Docs |-> u1]
NoHazard == {{}}
LateOrNot == BOOLEAN

\* Everything is similar to a query; either user asks one, and one is too long.
Request(u, tokens) ==
    [by |-> u, chars |-> 1, tokens |-> tokens, near |-> ChunkIds, docs |-> Docs]
MCQueries == {Request(u1, 2), Request(u2, 2), Request(u1, 3)}

=============================================================================
