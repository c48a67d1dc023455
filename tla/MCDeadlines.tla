---------------------------- MODULE MCDeadlines ----------------------------
(***************************************************************************)
(* Instances of Deadlines for TLC; the unit of time is half a minute.      *)
(***************************************************************************)
EXTENDS Deadlines

\* The defaults (300, 180 and 900 seconds), a threshold longer than the job by the
\* time of a release and a tight one, a parse budget just inside the job, one as
\* long as it, a threshold within it, and zeros.
Usual == {[job |-> 10, parse |-> 6, stale |-> 30], [job |-> 10, parse |-> 6, stale |-> 12],
          [job |-> 10, parse |-> 6, stale |-> 11], [job |-> 10, parse |-> 9, stale |-> 30],
          [job |-> 10, parse |-> 10, stale |-> 30], [job |-> 10, parse |-> 6, stale |-> 7],
          [job |-> 10, parse |-> 0, stale |-> 30], [job |-> 0, parse |-> 6, stale |-> 30]}

\* Each step around the parsing may take a unit, and a release two.
Unit == [s \in {"claim", "read", "record", "release"} |-> IF s = "release" THEN 2 ELSE 1]

=============================================================================
