-------------------------- MODULE MigrationsProofs --------------------------
(***************************************************************************)
(* The schema's revisions over any number of documents: no move is refused *)
(* for a row this commit's code wrote, and a stage finds its input after   *)
(* any way down and up.                                                    *)
(***************************************************************************)
EXTENDS Migrations, TLAPS

\* What a row says it has is there.
Honest(x) ==
    /\ x.status = "parsed" => x.pages
    /\ x.status = "chunked" => x.chunks /\ x.pages
    /\ x.counted => x.chunks

\* A claim is live at the head revision only, on a row that is `processing` and has
\* what its stage starts from.
Backed(d) ==
    held[d] # "none" =>
        /\ revision = Head /\ row[d] # NoRow
        /\ row[d].status = "processing"
        /\ held[d] = "chunk" => row[d].pages
        /\ held[d] = "embed" => row[d].pages /\ row[d].chunks

\* Below the head revision only earlier code's rows have chunks; at it a row counts
\* its chunks, and is `ready` without them only from before.
Origin(d) ==
    row[d] # NoRow =>
        /\ origin[d] # "none"
        /\ revision < Head => origin[d] \in {"era", "moved"} /\ (row[d].chunks => origin[d] = "era")
        /\ revision = Head => /\ row[d].chunks => row[d].counted
                              /\ row[d].status = "ready" /\ ~row[d].chunks =>
                                    origin[d] \in {"era", "moved"}

SchemaInv ==
    /\ TypeOK
    /\ \A d \in Docs : row[d] # NoRow => Honest(row[d])
    /\ \A d \in Docs : Backed(d)
    /\ \A d \in Docs : Origin(d)

-----------------------------------------------------------------------------
(* One row.                                                                *)

\* The fields of a row.
LEMMA RowFields ==
    ASSUME NEW x \in Row
    PROVE  /\ x.status \in Statuses
           /\ {x.reason, x.stored, x.pages, x.chunks, x.counted} \subseteq BOOLEAN
BY DEF Row

\* Each revision's upgrade() turns a row its predecessor admits into one it admits,
\* and tells the truth of it still.
LEMMA RowUp ==
    ASSUME NEW r \in 0..(Head - 1), NEW x \in Row, Allowed(r, x), Honest(x)
    PROVE  /\ Upgraded(r + 1, x) \in Row /\ Allowed(r + 1, Upgraded(r + 1, x)) /\ Honest(Upgraded(r + 1, x))
           /\ Upgraded(r + 1, x).chunks = x.chunks
<1> USE DEF Head
<1>1. x.status \in Statuses /\ {x.reason, x.stored, x.pages, x.chunks, x.counted} \subseteq BOOLEAN
  BY RowFields
<1>2. CASE r = 3 /\ x.status = "error"
  <2> DEFINE y == [x EXCEPT !.status = "failed", !.reason = TRUE]
  <2>1. Upgraded(r + 1, x) = y
    BY <1>2 DEF Upgraded, UpFailureLifecycle
  <2>2. /\ y \in Row
        /\ y.status = "failed"
        /\ y.reason = TRUE
        /\ y.stored = x.stored
        /\ y.pages = x.pages
        /\ y.chunks = x.chunks
        /\ y.counted = x.counted
    BY DEF Row, Statuses
  <2> HIDE DEF y
  <2>3. Allowed(r + 1, y)
    <3>1. r + 1 = 4 /\ ~x.pages
      BY <1>2 DEF Allowed
    <3>2. (y.status = "failed") = y.reason
      BY <2>2
    <3>. QED
      BY <2>2, <3>1, <3>2 DEF Allowed, LifecycleStatuses
  <2>4. Honest(y)
    BY <1>1, <1>2, <2>2 DEF Honest
  <2>. QED
    BY <2>1, <2>2, <2>3, <2>4
<1>3. CASE ~(r = 3 /\ x.status = "error")
  <2>1. Upgraded(r + 1, x) = x
    BY <1>3 DEF Upgraded, UpFailureLifecycle
  <2>2. Allowed(r + 1, x)
    BY <1>1, <1>3 DEF Allowed, InitialStatuses, LifecycleStatuses, ParsedStatuses, ChunkedStatuses
  <2>. QED
    BY <2>1, <2>2
<1>. QED
  BY <1>2, <1>3

\* Each downgrade() does the same the other way.
LEMMA RowDown ==
    ASSUME NEW r \in 2..Head, NEW x \in Row, Allowed(r, x), Honest(x)
    PROVE  /\ Downgraded(r, x) \in Row /\ Allowed(r - 1, Downgraded(r, x)) /\ Honest(Downgraded(r, x))
           /\ Downgraded(r, x).chunks => r # Head /\ x.chunks
<1> USE DEF Head
<1>1. x.status \in Statuses /\ {x.reason, x.stored, x.pages, x.chunks, x.counted} \subseteq BOOLEAN
  BY RowFields
<1>2. CASE r = 6
  <2> DEFINE y == DownChunkProvenance(x)
  <2>1. Downgraded(r, x) = y
    BY <1>2 DEF Downgraded
  <2>2. /\ y \in Row
        /\ y.status = (IF x.status = "chunked" THEN "parsed" ELSE x.status)
        /\ y.reason = x.reason
        /\ y.stored = x.stored
        /\ y.pages = x.pages
        /\ y.chunks = FALSE
        /\ y.counted = FALSE
    BY <1>1 DEF DownChunkProvenance, Row, Statuses
  <2> HIDE DEF y
  <2>3. Allowed(r - 1, y)
    BY <1>1, <1>2, <2>2 DEF Allowed, InitialStatuses, LifecycleStatuses, ParsedStatuses, ChunkedStatuses
  <2>4. Honest(y)
    BY <1>2, <2>2 DEF Honest
  <2>. QED
    BY <2>1, <2>2, <2>3, <2>4
<1>3. CASE r = 5
  <2> DEFINE y == DownDocumentPages(x)
  <2>1. Downgraded(r, x) = y
    BY <1>3 DEF Downgraded
  <2>2. /\ y \in Row
        /\ y.status = (IF x.status = "parsed" THEN "pending" ELSE x.status)
        /\ y.reason = x.reason
        /\ y.stored = x.stored
        /\ y.pages = FALSE
        /\ y.chunks = x.chunks
        /\ y.counted = x.counted
    BY <1>1 DEF DownDocumentPages, Row, Statuses
  <2> HIDE DEF y
  <2>3. Allowed(r - 1, y)
    BY <1>1, <1>3, <2>2 DEF Allowed, InitialStatuses, LifecycleStatuses, ParsedStatuses, ChunkedStatuses
  <2>4. Honest(y)
    BY <1>3, <2>2 DEF Honest, Allowed, ParsedStatuses, LifecycleStatuses
  <2>. QED
    BY <1>3, <2>1, <2>2, <2>3, <2>4
<1>4. CASE r = 4
  <2> DEFINE y == DownFailureLifecycle(x)
  <2>1. Downgraded(r, x) = y
    BY <1>4 DEF Downgraded
  <2>2. /\ y \in Row
        /\ y.status = (IF x.status = "failed" THEN "error" ELSE x.status)
        /\ y.reason = FALSE
        /\ y.stored = x.stored
        /\ y.pages = x.pages
        /\ y.chunks = x.chunks
        /\ y.counted = x.counted
    BY <1>1 DEF DownFailureLifecycle, Row, Statuses
  <2> HIDE DEF y
  <2>3. Allowed(r - 1, y)
    BY <1>1, <1>4, <2>2 DEF Allowed, InitialStatuses, LifecycleStatuses, ParsedStatuses, ChunkedStatuses
  <2>4. Honest(y)
    BY <1>4, <2>2 DEF Honest
  <2>. QED
    BY <1>4, <2>1, <2>2, <2>3, <2>4
<1>5. CASE r = 3
  <2> DEFINE y == DownStorageColumns(x)
  <2>1. Downgraded(r, x) = y
    BY <1>5 DEF Downgraded
  <2>2. /\ y \in Row
        /\ y.status = x.status
        /\ y.reason = x.reason
        /\ y.stored = FALSE
        /\ y.pages = x.pages
        /\ y.chunks = x.chunks
        /\ y.counted = x.counted
    BY <1>1 DEF DownStorageColumns, Row, Statuses
  <2> HIDE DEF y
  <2>3. Allowed(r - 1, y)
    BY <1>1, <1>5, <2>2 DEF Allowed, InitialStatuses, LifecycleStatuses, ParsedStatuses, ChunkedStatuses
  <2>4. Honest(y)
    BY <1>5, <2>2 DEF Honest
  <2>. QED
    BY <1>5, <2>1, <2>2, <2>3, <2>4
<1>6. CASE r = 2
  <2>1. Downgraded(r, x) = x
    BY <1>6 DEF Downgraded
  <2>2. Allowed(r - 1, x)
    BY <1>1, <1>6 DEF Allowed, InitialStatuses
  <2>. QED
    BY <1>6, <2>1, <2>2
<1>. QED
  BY <1>2, <1>3, <1>4, <1>5, <1>6

-----------------------------------------------------------------------------
(* Moves of the schema.                                                    *)

\* The next revision takes every row.
LEMMA AllUp ==
    ASSUME SchemaInv, revision < Head
    PROVE  /\ Fit(revision + 1, RowsUp)
           /\ RowsUp \in [Docs -> Row \cup {NoRow}]
           /\ \A d \in Docs : RowsUp[d] # NoRow =>
                /\ Allowed(revision + 1, RowsUp[d]) /\ Honest(RowsUp[d])
                /\ row[d] # NoRow /\ RowsUp[d].chunks = row[d].chunks
<1>1. revision \in 0..(Head - 1) /\ revision + 1 > 0
  BY DEF SchemaInv, TypeOK, Head
<1>2. /\ DOMAIN RowsUp = Docs
      /\ RowsUp = [d \in Docs |-> IF row[d] = NoRow THEN NoRow ELSE Upgraded(revision + 1, row[d])]
  BY DEF RowsUp, Every
<1>3. ASSUME NEW d \in Docs
      PROVE  \/ RowsUp[d] = NoRow
             \/ /\ RowsUp[d] \in Row /\ Allowed(revision + 1, RowsUp[d]) /\ Honest(RowsUp[d])
                /\ row[d] # NoRow /\ RowsUp[d].chunks = row[d].chunks
  <2>1. CASE row[d] = NoRow
    BY <1>2, <2>1
  <2>2. CASE row[d] # NoRow
    <3>1. row[d] \in Row /\ Allowed(revision, row[d]) /\ Honest(row[d])
      BY <2>2 DEF SchemaInv, TypeOK
    <3>2. RowsUp[d] = Upgraded(revision + 1, row[d])
      BY <1>2, <2>2
    <3>. QED
      BY <1>1, <2>2, <3>1, <3>2, RowUp
  <2>. QED
    BY <2>1, <2>2
<1>. QED
  BY <1>1, <1>2, <1>3 DEF Fit

\* So does the previous one; the first revision drops the table.
LEMMA AllDown ==
    ASSUME SchemaInv, revision > 0
    PROVE  /\ Fit(revision - 1, RowsDown)
           /\ RowsDown \in [Docs -> Row \cup {NoRow}]
           /\ \A d \in Docs : RowsDown[d] # NoRow =>
                /\ Allowed(revision - 1, RowsDown[d]) /\ Honest(RowsDown[d])
                /\ row[d] # NoRow /\ (RowsDown[d].chunks => revision # Head /\ row[d].chunks)
<1>1. revision \in 1..Head
  BY DEF SchemaInv, TypeOK, Head
<1>2. /\ DOMAIN RowsDown = Docs
      /\ RowsDown = [d \in Docs |-> IF row[d] = NoRow THEN NoRow ELSE Downgraded(revision, row[d])]
  BY DEF RowsDown, Every
<1>3. ASSUME NEW d \in Docs
      PROVE  \/ RowsDown[d] = NoRow
             \/ /\ revision - 1 > 0 /\ RowsDown[d] \in Row
                /\ Allowed(revision - 1, RowsDown[d]) /\ Honest(RowsDown[d])
                /\ row[d] # NoRow /\ (RowsDown[d].chunks => revision # Head /\ row[d].chunks)
  <2>1. CASE row[d] = NoRow
    BY <1>2, <2>1
  <2>2. CASE row[d] # NoRow /\ revision = 1
    BY <1>2, <2>2 DEF Downgraded
  <2>3. CASE row[d] # NoRow /\ revision # 1
    <3>1. row[d] \in Row /\ Allowed(revision, row[d]) /\ Honest(row[d])
      BY <2>3 DEF SchemaInv, TypeOK
    <3>2. RowsDown[d] = Downgraded(revision, row[d])
      BY <1>2, <2>3
    <3>3. revision \in 2..Head /\ revision - 1 > 0
      BY <1>1, <2>3 DEF Head
    <3>. QED
      BY <2>3, <3>1, <3>2, <3>3, RowDown
  <2>. QED
    BY <2>1, <2>2, <2>3
<1>. QED
  BY <1>2, <1>3 DEF Fit

-----------------------------------------------------------------------------
(* Writes at the head revision.                                            *)

\* A row that counts the chunks it has, and is `ready` only with them.
Counted(x) == (x.chunks => x.counted) /\ (x.status = "ready" => x.chunks)

\* A write of one row keeps the invariant when the row is admitted and honest, and
\* the claim on it, if any, is backed.
LEMMA PutStep ==
    ASSUME SchemaInv, NEW d \in Docs, NEW x \in Row, Put(d, x), Allowed(Head, x), Honest(x), Counted(x),
           held' \in [Docs -> Stages \cup {"none"}],
           \A e \in Docs \ {d} : held'[e] = held[e],
           held'[d] # "none" =>
                /\ x.status = "processing"
                /\ held'[d] = "chunk" => x.pages
                /\ held'[d] = "embed" => x.pages /\ x.chunks
    PROVE  SchemaInv'
<1>1. /\ revision = Head /\ revision' = Head /\ revision \in 0..Head
      /\ row \in [Docs -> Row \cup {NoRow}] /\ row' = [row EXCEPT ![d] = x]
      /\ origin \in [Docs -> Origins] /\ origin' = [origin EXCEPT ![d] = "head"]
  BY DEF Put, SchemaInv, TypeOK
<1>2. /\ row' \in [Docs -> Row \cup {NoRow}] /\ row'[d] = x
      /\ \A e \in Docs \ {d} : row'[e] = row[e]
  BY <1>1
<1>3. x # NoRow
  BY MigrationsAssumption
<1>4. \A e \in Docs : row'[e] # NoRow => Allowed(revision', row'[e]) /\ Honest(row'[e])
  BY <1>1, <1>2 DEF SchemaInv, TypeOK
<1>5. ASSUME NEW e \in Docs PROVE Backed(e)'
  <2>1. CASE e = d
    BY <1>1, <1>2, <1>3, <2>1 DEF Backed
  <2>2. CASE e # d
    BY <1>1, <1>2, <2>2 DEF Backed, SchemaInv
  <2>. QED
    BY <2>1, <2>2
<1>6. /\ origin' \in [Docs -> Origins]
      /\ \A e \in Docs \ {d} : origin'[e] = origin[e]
  BY <1>1 DEF Origins
<1>7. TypeOK'
  BY <1>1, <1>2, <1>4, <1>6 DEF TypeOK
<1>8. ASSUME NEW e \in Docs PROVE Origin(e)'
  <2>0. ~(revision' < Head)
    BY <1>1 DEF Head
  <2>1. CASE e = d
    BY <1>1, <1>2, <2>0, <2>1 DEF Origin, Counted
  <2>2. CASE e # d
    BY <1>1, <1>2, <1>6, <2>0, <2>2 DEF Origin, SchemaInv
  <2>. QED
    BY <2>1, <2>2
<1>. QED
  BY <1>4, <1>5, <1>7, <1>8 DEF SchemaInv

\* The statuses a row may have at the head revision, and when it has a reason.
LEMMA AllowedAtHead ==
    ASSUME NEW x \in Row
    PROVE  Allowed(Head, x) <=> x.status \in ChunkedStatuses /\ (x.status = "failed") = x.reason
BY DEF Allowed, Head

\* A status and nothing else.
LEMMA NewStatus ==
    ASSUME NEW x \in Row, NEW s \in ChunkedStatuses \ {"failed"}, ~x.reason,
           s = "parsed" => x.pages, s = "chunked" => x.chunks /\ x.pages, Honest(x),
           x.chunks => x.counted, s = "ready" => x.chunks
    PROVE  /\ [x EXCEPT !.status = s] \in Row /\ Counted([x EXCEPT !.status = s])
           /\ Allowed(Head, [x EXCEPT !.status = s]) /\ Honest([x EXCEPT !.status = s])
<1> DEFINE y == [x EXCEPT !.status = s]
<1>1. s \in Statuses
  BY DEF Statuses, ChunkedStatuses, ParsedStatuses, LifecycleStatuses
<1>2. /\ y \in Row /\ y.status = s /\ y.reason = x.reason /\ y.pages = x.pages
      /\ y.chunks = x.chunks /\ y.counted = x.counted
  BY <1>1 DEF Row
<1>3. x.reason \in BOOLEAN
  BY RowFields
<1> HIDE DEF y
<1>4. Honest(y) /\ Counted(y)
  BY <1>2 DEF Honest, Counted
<1>5. (y.status = "failed") = y.reason
  BY <1>2, <1>3
<1>6. Allowed(Head, y)
  BY <1>2, <1>5, AllowedAtHead
<1>. QED
  BY <1>2, <1>4, <1>6 DEF y

\* A failure, with its reason.
LEMMA NewFailure ==
    ASSUME NEW x \in Row, Honest(x), x.chunks => x.counted
    PROVE  /\ [x EXCEPT !.status = "failed", !.reason = TRUE] \in Row
           /\ Counted([x EXCEPT !.status = "failed", !.reason = TRUE])
           /\ Allowed(Head, [x EXCEPT !.status = "failed", !.reason = TRUE])
           /\ Honest([x EXCEPT !.status = "failed", !.reason = TRUE])
<1> DEFINE y == [x EXCEPT !.status = "failed", !.reason = TRUE]
<1>1. /\ y \in Row /\ y.status = "failed" /\ y.reason = TRUE /\ y.pages = x.pages
      /\ y.chunks = x.chunks /\ y.counted = x.counted
  BY DEF Row, Statuses
<1> HIDE DEF y
<1>2. Honest(y) /\ Counted(y)
  BY <1>1 DEF Honest, Counted
<1>3. (y.status = "failed") = y.reason /\ y.status \in ChunkedStatuses
  BY <1>1 DEF ChunkedStatuses, ParsedStatuses, LifecycleStatuses
<1>4. Allowed(Head, y)
  BY <1>1, <1>3, AllowedAtHead
<1>. QED
  BY <1>1, <1>2, <1>4 DEF y

-----------------------------------------------------------------------------
(* The actions.                                                            *)

LEMMA UpgradeStep == SchemaInv /\ Upgrade => SchemaInv'
<1> SUFFICES ASSUME SchemaInv, Upgrade PROVE SchemaInv'
  OBVIOUS
<1>1. /\ revision < Head /\ revision' = revision + 1 /\ row' = RowsUp /\ held' = held /\ origin' = origin
      /\ revision' = Head => \A d \in Docs : row[d] # NoRow => ~row[d].chunks
  BY DEF Upgrade, RefusesChunks, Head
<1>2. /\ revision' \in 0..Head /\ held \in [Docs -> Stages \cup {"none"}] /\ origin \in [Docs -> Origins]
      /\ \A d \in Docs : held[d] = "none"
  BY <1>1 DEF SchemaInv, TypeOK, Backed, Head
<1>3. /\ row' \in [Docs -> Row \cup {NoRow}]
      /\ \A d \in Docs : row'[d] # NoRow =>
            /\ Allowed(revision', row'[d]) /\ Honest(row'[d])
            /\ row[d] # NoRow /\ row'[d].chunks = row[d].chunks
  BY <1>1, AllUp
<1>4. TypeOK'
  BY <1>1, <1>2, <1>3 DEF TypeOK
<1>5. \A d \in Docs : Backed(d)'
  BY <1>1, <1>2 DEF Backed
<1>6. \A d \in Docs : Origin(d)'
  BY <1>1, <1>3 DEF SchemaInv, Origin
<1>. QED
  BY <1>3, <1>4, <1>5, <1>6 DEF SchemaInv

LEMMA DowngradeStep == SchemaInv /\ Downgrade => SchemaInv'
<1> SUFFICES ASSUME SchemaInv, Downgrade PROVE SchemaInv'
  OBVIOUS
<1>1. revision > 0 /\ revision' = revision - 1 /\ row' = RowsDown /\ held' = [d \in Docs |-> "none"]
      /\ origin' = [d \in Docs |-> IF origin[d] = "head" THEN "moved" ELSE origin[d]]
  BY DEF Downgrade
<1>2. revision' \in 0..Head /\ held' \in [Docs -> Stages \cup {"none"}] /\ origin \in [Docs -> Origins]
  BY <1>1 DEF SchemaInv, TypeOK, Head
<1>3. /\ row' \in [Docs -> Row \cup {NoRow}]
      /\ \A d \in Docs : row'[d] # NoRow =>
            /\ Allowed(revision', row'[d]) /\ Honest(row'[d])
            /\ row[d] # NoRow /\ (row'[d].chunks => revision # Head /\ row[d].chunks)
  BY <1>1, AllDown
<1>4. TypeOK'
  <2>1. origin' \in [Docs -> Origins]
    BY <1>1, <1>2 DEF Origins
  <2>. QED
    BY <1>2, <1>3, <2>1 DEF TypeOK
<1>5. \A d \in Docs : Backed(d)'
  BY <1>1 DEF Backed
<1>6. ASSUME NEW d \in Docs, row'[d] # NoRow PROVE Origin(d)'
  <2>1. row[d] # NoRow /\ (row'[d].chunks => revision # Head /\ row[d].chunks)
    BY <1>3, <1>6
  <2>2. revision \in 1..Head /\ revision' < Head /\ revision' # Head
    BY <1>1 DEF SchemaInv, TypeOK, Head
  <2>3. revision = Head \/ revision < Head
    BY <2>2 DEF Head
  <2>4. origin[d] \in Origins /\ origin'[d] = IF origin[d] = "head" THEN "moved" ELSE origin[d]
    BY <1>1, <1>2
  <2>5. revision < Head => origin[d] \in {"era", "moved"} /\ (row[d].chunks => origin[d] = "era")
    BY <2>1 DEF SchemaInv, Origin
  <2>6. origin[d] # "none"
    BY <2>1, <2>3, <2>5 DEF SchemaInv, Origin
  <2>. QED
    BY <2>1, <2>2, <2>3, <2>4, <2>5, <2>6 DEF Origin, Origins
<1>7. \A d \in Docs : Origin(d)'
  BY <1>6 DEF Origin
<1>. QED
  BY <1>3, <1>4, <1>5, <1>7 DEF SchemaInv

LEMMA EraWriteStep == ASSUME NEW d \in Docs PROVE SchemaInv /\ EraWrite(d) => SchemaInv'
<1> SUFFICES ASSUME SchemaInv, EraWrite(d) PROVE SchemaInv'
  OBVIOUS
<1>1. PICK x \in EraRows[revision] : Allowed(revision, x) /\ row' = [row EXCEPT ![d] = x]
  BY DEF EraWrite
<1>2. /\ revision \in 1..(Head - 1) /\ revision' = revision /\ held' = held
      /\ origin \in [Docs -> Origins] /\ origin' = [origin EXCEPT ![d] = "era"]
      /\ row \in [Docs -> Row \cup {NoRow}] /\ held \in [Docs -> Stages \cup {"none"}]
  BY DEF EraWrite, SchemaInv, TypeOK
<1>3. x \in Row /\ x # NoRow
  BY <1>2, MigrationsAssumption
<1>4. revision \in 0..Head /\ revision # Head /\ x.status # "chunked"
  BY <1>1, <1>2 DEF Head, Allowed, InitialStatuses, LifecycleStatuses, ParsedStatuses
<1>5. Honest(x)
  BY <1>2, <1>4, EraAssumption DEF Honest
<1>6. /\ row' \in [Docs -> Row \cup {NoRow}] /\ row'[d] = x
      /\ \A e \in Docs \ {d} : row'[e] = row[e]
  BY <1>1, <1>2, <1>3
<1>7. \A e \in Docs : row'[e] # NoRow => Allowed(revision', row'[e]) /\ Honest(row'[e])
  BY <1>1, <1>2, <1>5, <1>6 DEF SchemaInv, TypeOK
<1>8. \A e \in Docs : held[e] = "none"
  BY <1>4 DEF SchemaInv, Backed
<1>9. \A e \in Docs : Backed(e)'
  BY <1>2, <1>8 DEF Backed
<1>10. /\ origin' \in [Docs -> Origins] /\ origin'[d] = "era"
       /\ \A e \in Docs \ {d} : origin'[e] = origin[e]
  BY <1>2 DEF Origins
<1>11. TypeOK'
  BY <1>2, <1>4, <1>6, <1>7, <1>10 DEF TypeOK
<1>12. \A e \in Docs : Origin(e)'
  BY <1>2, <1>4, <1>6, <1>10 DEF SchemaInv, Origin
<1>. QED
  BY <1>7, <1>9, <1>11, <1>12 DEF SchemaInv

LEMMA UploadStep == ASSUME NEW d \in Docs PROVE SchemaInv /\ Upload(d) => SchemaInv'
<1> SUFFICES ASSUME SchemaInv, Upload(d) PROVE SchemaInv'
  OBVIOUS
<1> DEFINE x == [status |-> "pending", reason |-> FALSE, stored |-> TRUE, pages |-> FALSE,
                 chunks |-> FALSE, counted |-> FALSE]
<1>1. Put(d, x) /\ held' = held /\ row[d] = NoRow
  BY DEF Upload
<1>2. x \in Row /\ Honest(x) /\ Counted(x)
  BY DEF Row, Statuses, Honest, Counted
<1>3. x.status = "pending" /\ x.reason = FALSE
  OBVIOUS
<1> HIDE DEF x
<1>4. (x.status = "failed") = x.reason /\ x.status \in ChunkedStatuses
  BY <1>3 DEF ChunkedStatuses, ParsedStatuses, LifecycleStatuses
<1>5. Allowed(Head, x)
  BY <1>2, <1>4, AllowedAtHead
<1>6. held \in [Docs -> Stages \cup {"none"}] /\ held[d] = "none"
  BY <1>1 DEF SchemaInv, TypeOK, Backed
<1>. QED
  BY <1>1, <1>2, <1>5, <1>6, PutStep

LEMMA ClaimStep == ASSUME NEW d \in Docs PROVE SchemaInv /\ Claim(d) => SchemaInv'
<1> SUFFICES ASSUME SchemaInv, Claim(d) PROVE SchemaInv'
  OBVIOUS
<1> DEFINE x == row[d]
           y == [x EXCEPT !.status = "processing"]
           h == StageOf(x.status)
<1>1. /\ Put(d, y) /\ held' = [held EXCEPT ![d] = h] /\ x # NoRow /\ revision = Head
      /\ x.status \in {"pending", "parsed", "chunked"}
      /\ held \in [Docs -> Stages \cup {"none"}]
  BY DEF Claim, Put, SchemaInv, TypeOK
<1>2. x \in Row /\ Allowed(Head, x) /\ Honest(x) /\ (x.chunks => x.counted)
  BY <1>1 DEF SchemaInv, TypeOK, Origin
<1>3. x.reason \in BOOLEAN
  BY <1>2, RowFields
<1>4. ~x.reason
  BY <1>1, <1>2, <1>3, AllowedAtHead
<1>5. y \in Row /\ y.status = "processing" /\ y.pages = x.pages /\ y.chunks = x.chunks
  BY <1>2 DEF Row, Statuses
<1>6. h \in Stages /\ (h = "chunk" => x.pages) /\ (h = "embed" => x.pages /\ x.chunks)
  BY <1>1, <1>2 DEF StageOf, Stages, Honest
<1>7. Allowed(Head, y) /\ Honest(y) /\ Counted(y)
  <2>1. "processing" \in ChunkedStatuses \ {"failed"}
    BY DEF ChunkedStatuses, ParsedStatuses, LifecycleStatuses
  <2>. QED
    BY <1>2, <1>4, <2>1, NewStatus
<1> HIDE DEF x, y, h
<1>8. held' \in [Docs -> Stages \cup {"none"}] /\ held'[d] = h /\ \A e \in Docs \ {d} : held'[e] = held[e]
  BY <1>1, <1>6
<1>. QED
  BY <1>1, <1>5, <1>6, <1>7, <1>8, PutStep

LEMMA SettleStep == ASSUME NEW d \in Docs PROVE SchemaInv /\ Settle(d) => SchemaInv'
<1> SUFFICES ASSUME SchemaInv, Settle(d) PROVE SchemaInv'
  OBVIOUS
<1> DEFINE x == row[d]
<1>1. /\ held[d] # "none" /\ held' = [held EXCEPT ![d] = "none"]
      /\ held \in [Docs -> Stages \cup {"none"}]
  BY DEF Settle, SchemaInv, TypeOK
<1>2. /\ revision = Head /\ x # NoRow /\ x.status = "processing"
      /\ held[d] = "chunk" => x.pages
      /\ held[d] = "embed" => x.pages /\ x.chunks
  BY <1>1 DEF SchemaInv, Backed
<1>3. x \in Row /\ Allowed(Head, x) /\ Honest(x) /\ (x.chunks => x.counted)
  BY <1>2 DEF SchemaInv, TypeOK, Origin
<1>4. x.reason \in BOOLEAN
  BY <1>3, RowFields
<1>5. ~x.reason
  BY <1>2, <1>3, <1>4, AllowedAtHead
<1>6. held' \in [Docs -> Stages \cup {"none"}] /\ held'[d] = "none" /\ \A e \in Docs \ {d} : held'[e] = held[e]
  BY <1>1
<1>7. {"pending", "parsed", "chunked", "ready"} \subseteq ChunkedStatuses \ {"failed"}
  BY DEF ChunkedStatuses, ParsedStatuses, LifecycleStatuses
<1>8. CASE held[d] = "parse" /\ Put(d, [x EXCEPT !.status = "parsed", !.pages = TRUE])
  <2> DEFINE z == [x EXCEPT !.pages = TRUE]
  <2>1. z \in Row /\ z.status = x.status /\ z.reason = x.reason /\ z.chunks = x.chunks /\ z.counted = x.counted /\ z.pages = TRUE
    BY <1>3 DEF Row
  <2>2. [x EXCEPT !.status = "parsed", !.pages = TRUE] = [z EXCEPT !.status = "parsed"]
    BY <1>3 DEF Row
  <2> HIDE DEF z
  <2>3. Honest(z)
    BY <1>3, <2>1 DEF Honest
  <2>4. /\ [z EXCEPT !.status = "parsed"] \in Row
        /\ Allowed(Head, [z EXCEPT !.status = "parsed"]) /\ Honest([z EXCEPT !.status = "parsed"])
        /\ Counted([z EXCEPT !.status = "parsed"])
    BY <1>3, <1>5, <1>7, <2>1, <2>3, NewStatus
  <2>. QED
    BY <1>6, <1>8, <2>2, <2>4, PutStep
<1>9. CASE held[d] = "chunk" /\ Put(d, [x EXCEPT !.status = "chunked", !.chunks = TRUE, !.counted = TRUE])
  <2> DEFINE z == [x EXCEPT !.chunks = TRUE, !.counted = TRUE]
  <2>1. z \in Row /\ z.status = x.status /\ z.reason = x.reason /\ z.chunks = TRUE /\ z.counted = TRUE /\ z.pages = x.pages
    BY <1>3 DEF Row
  <2>2. [x EXCEPT !.status = "chunked", !.chunks = TRUE, !.counted = TRUE] = [z EXCEPT !.status = "chunked"]
    BY <1>3 DEF Row
  <2> HIDE DEF z
  <2>3. Honest(z)
    BY <1>3, <2>1 DEF Honest
  <2>4. /\ [z EXCEPT !.status = "chunked"] \in Row
        /\ Allowed(Head, [z EXCEPT !.status = "chunked"]) /\ Honest([z EXCEPT !.status = "chunked"])
        /\ Counted([z EXCEPT !.status = "chunked"])
    BY <1>2, <1>5, <1>7, <1>9, <2>1, <2>3, NewStatus
  <2>. QED
    BY <1>6, <1>9, <2>2, <2>4, PutStep
<1>10. CASE held[d] = "embed" /\ Put(d, [x EXCEPT !.status = "ready"])
  <2>1. /\ [x EXCEPT !.status = "ready"] \in Row
        /\ Allowed(Head, [x EXCEPT !.status = "ready"]) /\ Honest([x EXCEPT !.status = "ready"])
        /\ Counted([x EXCEPT !.status = "ready"])
    BY <1>2, <1>3, <1>5, <1>7, <1>10, NewStatus
  <2>. QED
    BY <1>6, <1>10, <2>1, PutStep
<1>11. CASE Put(d, [x EXCEPT !.status = "failed", !.reason = TRUE])
  <2>1. /\ [x EXCEPT !.status = "failed", !.reason = TRUE] \in Row
        /\ Allowed(Head, [x EXCEPT !.status = "failed", !.reason = TRUE])
        /\ Honest([x EXCEPT !.status = "failed", !.reason = TRUE])
        /\ Counted([x EXCEPT !.status = "failed", !.reason = TRUE])
    BY <1>3, NewFailure
  <2>. QED
    BY <1>6, <1>11, <2>1, PutStep
<1>12. CASE Put(d, [x EXCEPT !.status = IF held[d] = "parse" THEN "pending"
                                        ELSE IF held[d] = "chunk" THEN "parsed" ELSE "chunked"])
  <2> DEFINE s == IF held[d] = "parse" THEN "pending" ELSE IF held[d] = "chunk" THEN "parsed" ELSE "chunked"
  <2>1. s \in ChunkedStatuses \ {"failed"} /\ s # "ready" /\ (s = "parsed" => x.pages) /\ (s = "chunked" => x.chunks /\ x.pages)
    BY <1>1, <1>2, <1>7 DEF Stages
  <2>2. Put(d, [x EXCEPT !.status = s])
    BY <1>12
  <2> HIDE DEF s
  <2>3. /\ [x EXCEPT !.status = s] \in Row
        /\ Allowed(Head, [x EXCEPT !.status = s]) /\ Honest([x EXCEPT !.status = s])
        /\ Counted([x EXCEPT !.status = s])
    BY <1>3, <1>5, <2>1, NewStatus
  <2>. QED
    BY <1>6, <2>2, <2>3, PutStep
<1>. QED
  BY <1>8, <1>9, <1>10, <1>11, <1>12 DEF Settle

LEMMA ReapStep == ASSUME NEW d \in Docs PROVE SchemaInv /\ Reap(d) => SchemaInv'
<1> SUFFICES ASSUME SchemaInv, Reap(d) PROVE SchemaInv'
  OBVIOUS
<1> DEFINE x == row[d]
<1>1. /\ held[d] = "none" /\ held' = held /\ held \in [Docs -> Stages \cup {"none"}]
      /\ x \in Row /\ Honest(x) /\ (x.chunks => x.counted)
      /\ Put(d, [x EXCEPT !.status = "failed", !.reason = TRUE])
  BY DEF Reap, Put, SchemaInv, TypeOK, Origin
<1>2. /\ [x EXCEPT !.status = "failed", !.reason = TRUE] \in Row
      /\ Allowed(Head, [x EXCEPT !.status = "failed", !.reason = TRUE])
      /\ Honest([x EXCEPT !.status = "failed", !.reason = TRUE])
      /\ Counted([x EXCEPT !.status = "failed", !.reason = TRUE])
  BY <1>1, NewFailure
<1>. QED
  BY <1>1, <1>2, PutStep

LEMMA SchemaInvStep == SchemaInv /\ [Next]_vars => SchemaInv'
<1> SUFFICES ASSUME SchemaInv, [Next]_vars PROVE SchemaInv'
  OBVIOUS
<1>1. CASE Upgrade
  BY <1>1, UpgradeStep
<1>2. CASE Downgrade
  BY <1>2, DowngradeStep
<1>3. ASSUME NEW d \in Docs, EraWrite(d) \/ Upload(d) \/ Claim(d) \/ Settle(d) \/ Reap(d) PROVE SchemaInv'
  BY <1>3, EraWriteStep, UploadStep, ClaimStep, SettleStep, ReapStep
<1>4. CASE UNCHANGED vars
  BY <1>4 DEF vars, SchemaInv, TypeOK, Backed, Origin
<1>. QED
  BY <1>1, <1>2, <1>3, <1>4 DEF Next

-----------------------------------------------------------------------------
(* The theorems.                                                           *)

\* At every revision the rows are what its constraints admit, tell the truth of what
\* is stored, and live claims are at the head revision and backed.
THEOREM SchemaInvariance == Spec => []SchemaInv
<1>1. Init => SchemaInv
  BY DEF Init, SchemaInv, TypeOK, Backed, Origin, Origins, Head, Stages
<1>. QED
  BY <1>1, SchemaInvStep, PTL DEF Spec

\* upgrade() and downgrade() of every revision convert whatever rows there are into
\* rows that the CHECK constraints they create accept, and 0006 refuses no chunks
\* but those that code of an earlier revision wrote.
THEOREM MovesAreNeverStuck == Spec => []NeverStuck
<1>1. SchemaInv => NeverStuck
  <2> SUFFICES ASSUME SchemaInv PROVE NeverStuck
    OBVIOUS
  <2>1. revision + 1 = 6 => revision < Head
    BY DEF Head, SchemaInv, TypeOK
  <2>. QED
    BY <2>1, AllUp, AllDown DEF NeverStuck, SchemaInv, Origin
<1>. QED
  BY <1>1, SchemaInvariance, PTL

\* After any moves of the schema, a stage of the ingestion finds its input, chunk
\* counts are right, and only a row from before is `ready` without its chunks.
THEOREM StagesFindTheirInput == Spec => []StagesHaveInput
<1>1. SchemaInv => StagesHaveInput
  BY DEF SchemaInv, Honest, Origin, StagesHaveInput
<1>. QED
  BY <1>1, SchemaInvariance, PTL

=============================================================================
