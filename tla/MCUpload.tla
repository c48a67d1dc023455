------------------------------ MODULE MCUpload ------------------------------
(***************************************************************************)
(* Two or three uploads of the same file by one owner.                     *)
(***************************************************************************)
EXTENDS Upload, TLC

CONSTANTS r1, r2, r3, k1

ThreeRequests == {r1, r2, r3}
TwoRequests == {r1, r2}
OneKey == {k1}
SameFile == [r \in Requests |-> k1]

Interchangeable == Permutations(Requests)

\* Every combination of faults; only errors of the database.
EveryFault == SUBSET {"db", "redis", "storage", "crash", "lostack"}
DbErrors == {{"db"}}

=============================================================================
