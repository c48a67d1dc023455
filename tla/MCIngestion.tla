---------------------------- MODULE MCIngestion ----------------------------
(***************************************************************************)
(* Instances of Ingestion for TLC: documents and points are model values   *)
(* or strings, workers of an old and a new pipeline version.               *)
(***************************************************************************)
EXTENDS Ingestion, TLC

CONSTANTS d1, s1, s2, old, new

OneDoc == {d1}
TwoSlots == {s1, s2}
BothVersions == {old, new}

\* Slot s1 belongs to a worker still running the old version.
MixedVersions == s1 :> old @@ s2 :> new

\* The old version made two chunks, the new one makes one.
MCPoints == {"o1", "o2", "n1"}
MCChunksOf == [v \in Versions |-> IF v = old THEN {"o1", "o2"} ELSE {"n1"}]

\* A chunk of each.
TwoPoints == {"o1", "n1"}
OneChunkOf == [v \in Versions |-> IF v = old THEN {"o1"} ELSE {"n1"}]

OneHazard == {{"overlap"}, {"lostack"}}
BothHazards == {{"overlap", "lostack"}}

=============================================================================
