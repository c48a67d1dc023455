----------------------------- MODULE Migrations -----------------------------
(***************************************************************************)
(* The schema's revisions (alembic/versions) over documents that the       *)
(* application has written.  A revision is one transaction: DDL rolls back *)
(* in PostgreSQL.  An operator may go up and down at any time; the         *)
(* application of this commit runs at the head revision only, and code of  *)
(* an earlier revision may have written rows under that one.               *)
(*                                                                         *)
(* A row is abstracted to its status and to whether its failure reason,    *)
(* storage columns, pages, chunks and a positive chunk count are there.    *)
(* `origin` is history: it tells rows of earlier code from rows of this    *)
(* commit's, and from those a downgrade of the head revision converted.    *)
(***************************************************************************)
EXTENDS Naturals

CONSTANTS
    Docs,     \* documents
    NoRow,    \* a document that has no row
    EraRows   \* rows written by code of earlier revisions

Head == 6

Statuses == {"pending", "processing", "parsed", "chunked", "ready", "failed", "error"}
Row == [status : Statuses, reason : BOOLEAN, stored : BOOLEAN, pages : BOOLEAN,
        chunks : BOOLEAN, counted : BOOLEAN]

ASSUME MigrationsAssumption ==
    /\ NoRow \notin Row
    /\ EraRows \in [1..(Head - 1) -> SUBSET Row]

\* The status `parsed` was introduced with the pages it tells of, and a chunk count
\* was only ever written with the chunks it counts.
ASSUME EraAssumption ==
    \A r \in 1..(Head - 1) : \A x \in EraRows[r] :
        (x.status = "parsed" => x.pages) /\ (x.counted => x.chunks)

VARIABLES
    revision,  \* alembic_version, 0 for an empty database
    row,       \* the rows of each document
    held,      \* the stage a live delivery holds each document's claim for
    origin     \* whose work each row shows

vars == <<revision, row, held, origin>>

Stages == {"parse", "chunk", "embed"}
Origins == {"none", "era", "head", "moved"}

Init ==
    /\ revision = 0
    /\ row = [d \in Docs |-> NoRow]
    /\ held = [d \in Docs |-> "none"]
    /\ origin = [d \in Docs |-> "none"]

-----------------------------------------------------------------------------
(* The constraints each revision leaves on documents.                      *)

InitialStatuses   == {"pending", "processing", "ready", "error"}
LifecycleStatuses == {"pending", "processing", "ready", "failed"}
ParsedStatuses    == LifecycleStatuses \cup {"parsed"}
ChunkedStatuses   == ParsedStatuses \cup {"chunked"}

\* What the CHECK constraints, the columns and the tables of revision r allow.
Allowed(r, x) ==
    /\ x.status \in IF r < 4 THEN InitialStatuses
                    ELSE IF r = 4 THEN LifecycleStatuses
                    ELSE IF r = 5 THEN ParsedStatuses ELSE ChunkedStatuses
    /\ IF r < 4 THEN ~x.reason ELSE (x.status = "failed") = x.reason
    /\ r < 3 => ~x.stored
    /\ r < 5 => ~x.pages

\* The database accepts what is written under its revision.
TypeOK ==
    /\ revision \in 0..Head
    /\ row \in [Docs -> Row \cup {NoRow}]
    /\ \A d \in Docs : row[d] # NoRow => Allowed(revision, row[d])
    /\ held \in [Docs -> Stages \cup {"none"}]
    /\ origin \in [Docs -> Origins]

-----------------------------------------------------------------------------
(* upgrade() and downgrade() of each revision, on one row.                 *)

UpFailureLifecycle(x) ==
    IF x.status = "error" THEN [x EXCEPT !.status = "failed", !.reason = TRUE] ELSE x

DownStorageColumns(x) == [x EXCEPT !.stored = FALSE]

DownFailureLifecycle(x) ==
    [x EXCEPT !.status = IF @ = "failed" THEN "error" ELSE @, !.reason = FALSE]

DownDocumentPages(x) ==
    [x EXCEPT !.pages = FALSE, !.status = IF @ = "parsed" THEN "pending" ELSE @]

\* Mutant: the chunks stay.
DownChunkProvenanceKept(x) ==
    [x EXCEPT !.counted = FALSE, !.status = IF @ = "chunked" THEN "parsed" ELSE @]

\* Mutant: the chunk count is not zeroed.
DownChunkProvenanceUncounted(x) ==
    [x EXCEPT !.chunks = FALSE, !.status = IF @ = "chunked" THEN "parsed" ELSE @]

DownChunkProvenance(x) ==
    [x EXCEPT !.chunks = FALSE, !.counted = FALSE,
              !.status = IF @ = "chunked" THEN "parsed" ELSE @]

\* Revisions that only add nullable columns or tables leave the rows as they are.
Upgraded(r, x) == IF r = 4 THEN UpFailureLifecycle(x) ELSE x

Downgraded(r, x) ==
    CASE r = 6 -> DownChunkProvenance(x)
      [] r = 5 -> DownDocumentPages(x)
      [] r = 4 -> DownFailureLifecycle(x)
      [] r = 3 -> DownStorageColumns(x)
      [] r = 2 -> x
      [] r = 1 -> NoRow

Every(convert(_)) == [d \in Docs |-> IF row[d] = NoRow THEN NoRow ELSE convert(row[d])]

\* Chunks from before provenance existed make 0006 refuse.
RefusesChunks == \E d \in Docs : row[d] # NoRow /\ row[d].chunks

\* A CHECK that is created over rows that break it rolls the revision back.
Fit(r, rows) == \A d \in Docs : rows[d] # NoRow => r > 0 /\ Allowed(r, rows[d])

RowsUp == Every(LAMBDA x : Upgraded(revision + 1, x))
RowsDown == Every(LAMBDA x : Downgraded(revision, x))

Upgrade ==
    /\ revision < Head
    /\ revision + 1 = 6 => ~RefusesChunks
    /\ Fit(revision + 1, RowsUp)
    /\ revision' = revision + 1
    /\ row' = RowsUp
    /\ UNCHANGED <<held, origin>>

\* One revision back, with the workers stopped: their claims stay behind.
Downgrade ==
    /\ revision > 0
    /\ Fit(revision - 1, RowsDown)
    /\ revision' = revision - 1
    /\ row' = RowsDown
    /\ held' = [d \in Docs |-> "none"]
    /\ origin' = [d \in Docs |-> IF origin[d] = "head" THEN "moved" ELSE origin[d]]

-----------------------------------------------------------------------------
(* What writes rows.                                                       *)

\* Code of an earlier revision created a document (external).
EraWrite(d) ==
    /\ revision \in 1..(Head - 1) /\ row[d] = NoRow
    /\ \E x \in EraRows[revision] : Allowed(revision, x) /\ row' = [row EXCEPT ![d] = x]
    /\ origin' = [origin EXCEPT ![d] = "era"]
    /\ UNCHANGED <<revision, held>>

Put(d, x) ==
    /\ revision = Head
    /\ row' = [row EXCEPT ![d] = x]
    /\ origin' = [origin EXCEPT ![d] = "head"]
    /\ UNCHANGED revision

Upload(d) ==
    /\ row[d] = NoRow
    /\ Put(d, [status |-> "pending", reason |-> FALSE, stored |-> TRUE, pages |-> FALSE,
               chunks |-> FALSE, counted |-> FALSE])
    /\ UNCHANGED held

StageOf(s) == IF s = "pending" THEN "parse" ELSE IF s = "parsed" THEN "chunk" ELSE "embed"

\* A delivery claims a document a stage can start from.
Claim(d) ==
    /\ row[d] # NoRow
    /\ row[d].stored /\ row[d].status \in {"pending", "parsed", "chunked"}
    /\ Put(d, [row[d] EXCEPT !.status = "processing"])
    /\ held' = [held EXCEPT ![d] = StageOf(row[d].status)]

\* The claimed stage stores what it made, fails the document, or releases it.
Settle(d) ==
    /\ held[d] # "none"
    /\ \/ held[d] = "parse" /\ Put(d, [row[d] EXCEPT !.status = "parsed", !.pages = TRUE])
       \/ held[d] = "chunk" /\ Put(d, [row[d] EXCEPT !.status = "chunked", !.chunks = TRUE,
                                                     !.counted = TRUE])
       \/ held[d] = "embed" /\ Put(d, [row[d] EXCEPT !.status = "ready"])
       \/ Put(d, [row[d] EXCEPT !.status = "failed", !.reason = TRUE])
       \/ Put(d, [row[d] EXCEPT !.status = IF held[d] = "parse" THEN "pending"
                                           ELSE IF held[d] = "chunk" THEN "parsed"
                                           ELSE "chunked"])
    /\ held' = [held EXCEPT ![d] = "none"]

\* The reaper fails a claim that no delivery holds any more.
Reap(d) ==
    /\ row[d] # NoRow
    /\ row[d].status = "processing" /\ held[d] = "none"
    /\ Put(d, [row[d] EXCEPT !.status = "failed", !.reason = TRUE])
    /\ UNCHANGED held

Next ==
    \/ Upgrade \/ Downgrade
    \/ \E d \in Docs : EraWrite(d) \/ Upload(d) \/ Claim(d) \/ Settle(d) \/ Reap(d)

Spec == Init /\ [][Next]_vars

-----------------------------------------------------------------------------
(* Properties.                                                             *)

\* A revision can be applied to, and taken back from, whatever the application has
\* written and earlier moves have left: no CHECK it puts on the converted rows
\* fails, and 0006 refuses the chunks of no code but that of an earlier revision.
\* What this commit's code chunked never stands in the way of going up again.
NeverStuck ==
    /\ revision < Head => Fit(revision + 1, RowsUp)
    /\ revision > 0 => Fit(revision - 1, RowsDown)
    /\ revision + 1 = 6 =>
            \A d \in Docs : row[d] # NoRow /\ row[d].chunks => origin[d] = "era"

\* After any way down and up again a stage finds what it starts from: a `parsed`
\* document has its pages, a `chunked` one its chunks, and every document counts
\* its chunks as they are.  A `ready` document may be without chunks when it was
\* made ready by earlier code or before a downgrade, which takes the chunks and
\* leaves the status; one that is made ready since has them.
StagesHaveInput ==
    revision = Head =>
        \A d \in Docs : row[d] # NoRow =>
            /\ row[d].status = "parsed" => row[d].pages
            /\ row[d].status = "chunked" => row[d].chunks
            /\ row[d].counted <=> row[d].chunks
            /\ row[d].status = "ready" /\ ~row[d].chunks => origin[d] \in {"era", "moved"}

=============================================================================
