----------------------------- MODULE Ingestion -----------------------------
(***************************************************************************)
(* Deliveries of ingestion jobs over one PostgreSQL, one Qdrant and one    *)
(* ARQ queue: backend/services/ingestion_service.py and                    *)
(* backend/ingestion/worker.py.                                            *)
(*                                                                         *)
(* A slot is one place in a worker process that runs deliveries one after  *)
(* another.  Between two awaits that reach a store a delivery does nothing *)
(* another process can see, so a step of the model runs from one committed *)
(* transaction, database read or vector-store call to the next.  The data  *)
(* is abstracted: the extracted pages of a document are present or absent, *)
(* and a chunk is a point (its id is both the row's key and the vector's). *)
(***************************************************************************)
EXTENDS Naturals

CONSTANTS
    Docs,       \* documents that may be uploaded
    NoDoc,      \* what an idle slot works on
    Slots,      \* delivery slots of all worker processes
    Versions,   \* (chunking strategy, tokenizer) pairs; a tokenizer is its model's
    NoVersion,  \* chunk rows whose embedding model is NULL
    VersionOf,  \* the version a slot's worker process is configured with
    Points,     \* chunk ids
    ChunksOf,   \* the chunk ids a version makes from a document
    MaxTries,   \* INGEST_MAX_TRIES
    Scenarios   \* what may happen together: "overlap", a worker is paused past its
                \* deadlines; "lostack", an applied commit is reported as failed

ASSUME ConstantsAssumption ==
    /\ NoDoc \notin Docs
    /\ NoVersion \notin Versions
    /\ VersionOf \in [Slots -> Versions]
    /\ ChunksOf \in [Versions -> SUBSET Points]
    /\ MaxTries \in Nat \ {0}
    /\ Scenarios \subseteq SUBSET {"overlap", "lostack"}

\* A chunker that runs returns at least one chunk or the document fails, and a
\* chunk id is derived from the version, so two versions share no id.
ASSUME ChunksAssumption ==
    /\ \A v \in Versions : ChunksOf[v] # {}
    /\ \A v, w \in Versions : v # w => ChunksOf[v] \cap ChunksOf[w] = {}

VARIABLES
    status,     \* documents.status, "absent" before the upload commits
    deleted,    \* documents whose deleted_at is set
    paged,      \* documents that have their document_pages rows
    chunkRows,  \* document_chunks rows of each document
    embedded,   \* the embedding model recorded on those rows
    vectors,    \* points of each document in the Qdrant collection
    jobs,       \* documents whose ARQ job exists: queued, deferred or running
    tries,      \* ARQ's retry counter of each job
    pc,         \* where each slot's delivery is
    on,         \* the document it delivers
    stage,      \* the stage it runs
    finals,     \* slots whose delivery is the job's final attempt
    got,        \* chunks the delivery has read and embedded
    sweep,      \* documents the recovery sweep has read and not yet handed on
    env         \* whether errors and crashes are over, and the scenario

rows  == <<status, paged, chunkRows, embedded>>
queue == <<jobs, tries>>
local == <<on, stage, finals, got>>
vars  == <<rows, deleted, vectors, queue, pc, local, sweep, env>>

-----------------------------------------------------------------------------
Statuses == {"absent", "pending", "processing", "parsed", "chunked", "ready", "failed"}

\* Mutant: the sweep was not extended when the embed stage was added.
RecoverableBeforeEmbed == {"pending", "parsed"}

RecoverableStatuses == {"pending", "parsed", "chunked"}
Stages == {"parse", "chunk", "embed"}

\* The status a stage is claimed from, and to which a released claim returns.
StartsAt(st) == IF st = "parse" THEN "pending"
                ELSE IF st = "chunk" THEN "parsed" ELSE "chunked"

\* Mutant: the embed stage trusts the chunks it finds, whatever made them.
EntryWithoutProvenance(st) == IF st = "parse" THEN "verify"
                              ELSE IF st = "chunk" THEN "pages" ELSE "chunks"

\* The step a claimed stage begins with.
EntryOf(st) == IF st = "parse" THEN "verify"
               ELSE IF st = "chunk" THEN "pages" ELSE "provenance"

\* Steps a delivery takes while it believes it holds the claim.
ClaimSteps == {"verify", "storeParsed", "pages", "storeChunks", "provenance",
               "rePages", "reDelete", "replace", "chunks", "upsert", "storeReady",
               "fail", "release", "interrupted"}

\* record_given_up: three compare-and-sets in turn; "held" once one has matched.
GiveSteps == {"give1", "give2", "give3", "held2", "held3", "giveCheck", "giveFail"}

Steps == {"idle", "target", "claim", "finish", "retry"} \cup ClaimSteps \cup GiveSteps

TypeOK ==
    /\ status \in [Docs -> Statuses]
    /\ deleted \subseteq Docs
    /\ paged \subseteq Docs
    /\ chunkRows \in [Docs -> SUBSET Points]
    /\ embedded \in [Docs -> Versions \cup {NoVersion}]
    /\ vectors \in [Docs -> SUBSET Points]
    /\ jobs \subseteq Docs
    /\ tries \in [Docs -> 0..MaxTries]
    /\ pc \in [Slots -> Steps]
    /\ on \in [Slots -> Docs \cup {NoDoc}]
    /\ \A s \in Slots : pc[s] # "idle" => on[s] \in Docs
    /\ stage \in [Slots -> Stages]
    /\ finals \subseteq Slots
    /\ got \in [Slots -> SUBSET Points]
    /\ sweep \subseteq Docs
    /\ env \in [calm : BOOLEAN, hazards : Scenarios]

Init ==
    /\ status = [d \in Docs |-> "absent"]
    /\ deleted = {}
    /\ paged = {}
    /\ chunkRows = [d \in Docs |-> {}]
    /\ embedded = [d \in Docs |-> NoVersion]
    /\ vectors = [d \in Docs |-> {}]
    /\ jobs = {}
    /\ tries = [d \in Docs |-> 0]
    /\ pc = [s \in Slots |-> "idle"]
    /\ on = [s \in Slots |-> NoDoc]
    /\ stage = [s \in Slots |-> "parse"]
    /\ finals = {}
    /\ got = [s \in Slots |-> {}]
    /\ sweep = {}
    /\ \E h \in Scenarios : env = [calm |-> FALSE, hazards |-> h]

-----------------------------------------------------------------------------
Faulty == ~env.calm

\* The row a compare-and-set from st on document d would match.
Holds(d, st) == d \notin deleted /\ status[d] = st

Move(d, st) == status' = [status EXCEPT ![d] = st]

Goto(s, p) == pc' = [pc EXCEPT ![s] = p]

\* Mutant: every released claim returns to the start of the pipeline.
GiveBackToPending(s) == "pending"

\* The status a claim the delivery gives up returns to.
GiveBack(s) == StartsAt(stage[s])

\* Where an exception takes a delivery that classifies it as transient.
Transient(s) == IF s \in finals THEN "fail" ELSE "release"

\* Where an exception the service does not classify takes it (ingest_document).
Unclassified(s) == IF s \in finals THEN "give1" ELSE "retry"

\* A compare-and-set that raised: rolled back, or applied with its answer lost.
Raised(d, from, to) ==
    /\ Faulty
    /\ \/ UNCHANGED status
       \/ "lostack" \in env.hazards /\ Holds(d, from) /\ Move(d, to)

\* ARQ would start no delivery of d: one is in progress and its key is alive.
InProgress(d) ==
    /\ \E s \in Slots : on[s] = d
    /\ ~("overlap" \in env.hazards /\ Faulty)

-----------------------------------------------------------------------------
(* ARQ: starting, ending and redelivering a job (external).                *)

Start(s, d) ==
    /\ pc[s] = "idle"
    /\ d \in jobs
    /\ ~InProgress(d)
    /\ tries[d] < MaxTries
    /\ tries' = [tries EXCEPT ![d] = @ + 1]
    /\ finals' = IF tries[d] + 1 >= MaxTries THEN finals \cup {s} ELSE finals
    /\ on' = [on EXCEPT ![s] = d]
    /\ Goto(s, "target")
    /\ UNCHANGED <<rows, vectors, jobs, stage, got>>

\* A job whose attempts were all begun is dropped without being run again.
Exhausted(s, d) ==
    /\ pc[s] = "idle"
    /\ d \in jobs
    /\ ~InProgress(d)
    /\ tries[d] >= MaxTries
    /\ jobs' = jobs \ {d}
    /\ tries' = [tries EXCEPT ![d] = 0]
    /\ UNCHANGED <<rows, vectors, pc, local>>

Leave(s) ==
    /\ Goto(s, "idle")
    /\ on' = [on EXCEPT ![s] = NoDoc]
    /\ stage' = [stage EXCEPT ![s] = "parse"]
    /\ finals' = finals \ {s}
    /\ got' = [got EXCEPT ![s] = {}]

\* The delivery returned or raised for good: the job's keys are deleted.
Finish(s) ==
    /\ pc[s] = "finish"
    /\ jobs' = jobs \ {on[s]}
    /\ tries' = [tries EXCEPT ![on[s]] = 0]
    /\ Leave(s)
    /\ UNCHANGED <<rows, vectors>>

\* The delivery raised Retry, or was cancelled by a shutdown: the job is deferred.
Retry(s) ==
    /\ pc[s] = "retry"
    /\ Leave(s)
    /\ UNCHANGED <<rows, vectors, queue>>

\* The worker process dies; its in-progress key expires and the job runs again.
Crash(s) ==
    /\ Faulty
    /\ pc[s] # "idle"
    /\ Leave(s)
    /\ UNCHANGED <<rows, vectors, queue>>

\* The job timeout or a shutdown cancels the delivery: inside _run the claim is
\* put back first; elsewhere a timeout just ends the job.
Cancel(s) ==
    /\ Faulty
    /\ \/ pc[s] \in ClaimSteps \ {"interrupted"} /\ Goto(s, "interrupted")
       \/ pc[s] \in {"target", "claim"} \cup GiveSteps /\ Goto(s, "finish")
    /\ UNCHANGED <<rows, vectors, queue, local>>

-----------------------------------------------------------------------------
(* IngestionService.ingest and _run.                                       *)

\* ingest: read the document and decide which stage the delivery begins with.
Target(s) ==
    /\ pc[s] = "target"
    /\ \/ \E st \in Stages : /\ Holds(on[s], StartsAt(st))
                             /\ stage' = [stage EXCEPT ![s] = st]
                             /\ Goto(s, "claim")
       \/ /\ \A st \in Stages : ~Holds(on[s], StartsAt(st))
          /\ Goto(s, "finish")
          /\ UNCHANGED stage
       \/ Faulty /\ Goto(s, Unclassified(s)) /\ UNCHANGED stage
    /\ UNCHANGED <<rows, vectors, queue, on, finals, got>>

\* Mutant: the claim matches a document another delivery has claimed.
ClaimAnyway(s) ==
    LET d == on[s]
        free == d \notin deleted /\ status[d] \in {StartsAt(stage[s]), "processing"}
    IN  /\ pc[s] = "claim"
        /\ \/ free /\ Move(d, "processing") /\ Goto(s, EntryOf(stage[s]))
           \/ ~free /\ Goto(s, "finish") /\ UNCHANGED status
        /\ UNCHANGED <<paged, chunkRows, embedded, vectors, queue, local>>

Claim(s) ==
    LET d == on[s]
        from == StartsAt(stage[s])
    IN  /\ pc[s] = "claim"
        /\ \/ Holds(d, from) /\ Move(d, "processing") /\ Goto(s, EntryOf(stage[s]))
           \/ ~Holds(d, from) /\ Goto(s, "finish") /\ UNCHANGED status
           \/ Raised(d, from, "processing") /\ Goto(s, Unclassified(s))
        /\ UNCHANGED <<paged, chunkRows, embedded, vectors, queue, local>>

-----------------------------------------------------------------------------
(* The parse stage.                                                        *)

\* Read the bytes, check their hash, extract the text: they are usable, they can
\* never be, or something failed on the way.
Verify(s) ==
    /\ pc[s] = "verify"
    /\ \/ Goto(s, "storeParsed")
       \/ Goto(s, "fail")
       \/ Faulty /\ Goto(s, Transient(s))
    /\ UNCHANGED <<rows, vectors, queue, local>>

\* The pages and processing -> parsed in one transaction.  Pages already there
\* violate their primary key, which rolls it back.
StoreParsed(s) ==
    LET d == on[s]
        Stored == /\ Holds(d, "processing")
                  /\ d \notin paged
                  /\ Move(d, "parsed")
                  /\ paged' = paged \cup {d}
    IN  /\ pc[s] = "storeParsed"
        /\ \/ Stored /\ stage' = [stage EXCEPT ![s] = "chunk"] /\ Goto(s, "claim")
           \/ /\ ~Holds(d, "processing")
              /\ Goto(s, "finish")
              /\ UNCHANGED <<status, paged, stage>>
           \/ /\ Faulty \/ (Holds(d, "processing") /\ d \in paged)
              /\ Goto(s, Transient(s))
              /\ UNCHANGED <<status, paged, stage>>
           \/ /\ Faulty /\ "lostack" \in env.hazards /\ Stored
              /\ Goto(s, Transient(s))
              /\ UNCHANGED stage
        /\ UNCHANGED <<chunkRows, embedded, vectors, queue, on, finals, got>>

-----------------------------------------------------------------------------
(* The chunk stage.                                                        *)

\* Where reading the pages and chunking them may lead, with `next` the step after.
Chunking(s, next) ==
    \/ \E p \in IF on[s] \in paged THEN {next, "fail"} ELSE {"fail"} : Goto(s, p)
    \/ Faulty /\ Goto(s, Transient(s))
    \/ Faulty /\ Goto(s, Unclassified(s))

Pages(s) ==
    /\ pc[s] = "pages"
    /\ Chunking(s, "storeChunks")
    /\ UNCHANGED <<rows, vectors, queue, local>>

\* The chunks and processing -> chunked in one transaction.  Chunks already there
\* violate the (document_id, chunk_index) constraint, which rolls it back.
StoreChunks(s) ==
    LET d == on[s]
        Stored == /\ Holds(d, "processing")
                  /\ chunkRows[d] = {}
                  /\ Move(d, "chunked")
                  /\ chunkRows' = [chunkRows EXCEPT ![d] = ChunksOf[VersionOf[s]]]
    IN  /\ pc[s] = "storeChunks"
        /\ \/ Stored /\ stage' = [stage EXCEPT ![s] = "embed"] /\ Goto(s, "claim")
           \/ /\ ~Holds(d, "processing")
              /\ Goto(s, "finish")
              /\ UNCHANGED <<status, chunkRows, stage>>
           \/ /\ Faulty \/ (Holds(d, "processing") /\ chunkRows[d] # {})
              /\ Goto(s, Transient(s))
              /\ UNCHANGED <<status, chunkRows, stage>>
           \/ /\ Faulty /\ "lostack" \in env.hazards /\ Stored
              /\ Goto(s, Transient(s))
              /\ UNCHANGED stage
        /\ UNCHANGED <<paged, embedded, vectors, queue, on, finals, got>>

-----------------------------------------------------------------------------
(* The embed stage.                                                        *)

\* The versions that made the document's chunk rows.
ProvenanceOf(d) == {v \in Versions : ChunksOf[v] \cap chunkRows[d] # {}}

Provenance(s) ==
    /\ pc[s] = "provenance"
    /\ \/ Goto(s, IF chunkRows[on[s]] = {} THEN "fail"
                  ELSE IF ProvenanceOf(on[s]) = {VersionOf[s]} THEN "chunks"
                  ELSE "rePages")
       \/ Faulty /\ Goto(s, Unclassified(s))
    /\ UNCHANGED <<rows, vectors, queue, local>>

\* _rechunk: read the pages and chunk them again.
RePages(s) ==
    /\ pc[s] = "rePages"
    /\ Chunking(s, "reDelete")
    /\ UNCHANGED <<rows, vectors, queue, local>>

\* Mutant: the rows are replaced and the old vectors forgotten.
ReDeleteNothing(s) ==
    /\ pc[s] = "reDelete"
    /\ Goto(s, "replace")
    /\ UNCHANGED <<rows, vectors, queue, local>>

\* _rechunk: the old vectors go first.  A call that failed may have deleted them.
ReDelete(s) ==
    LET d == on[s]
    IN  /\ pc[s] = "reDelete"
        /\ \/ vectors' = [vectors EXCEPT ![d] = {}] /\ Goto(s, "replace")
           \/ /\ Faulty
              /\ \E left \in {vectors[d], {}} : vectors' = [vectors EXCEPT ![d] = left]
              /\ Goto(s, Transient(s))
        /\ UNCHANGED <<rows, queue, local>>

\* _replace_chunks: old rows out, new rows in, the document still processing.
Replace(s) ==
    LET d == on[s]
        Replaced == /\ Holds(d, "processing")
                    /\ chunkRows' = [chunkRows EXCEPT ![d] = ChunksOf[VersionOf[s]]]
                    /\ embedded' = [embedded EXCEPT ![d] = NoVersion]
    IN  /\ pc[s] = "replace"
        /\ \/ Replaced /\ Goto(s, "chunks")
           \/ ~Holds(d, "processing") /\ Goto(s, "finish") /\ UNCHANGED <<chunkRows, embedded>>
           \/ Faulty /\ Goto(s, Transient(s)) /\ UNCHANGED <<chunkRows, embedded>>
           \/ Faulty /\ "lostack" \in env.hazards /\ Replaced /\ Goto(s, Transient(s))
        /\ UNCHANGED <<status, paged, vectors, queue, local>>

\* Read the chunks back and embed them.  A vector of the wrong width or a chunk
\* that cannot be cited fails the document.
Chunks(s) ==
    LET d == on[s]
    IN  /\ pc[s] = "chunks"
        /\ \/ /\ chunkRows[d] # {}
              /\ got' = [got EXCEPT ![s] = chunkRows[d]]
              /\ Goto(s, "upsert")
           \/ Goto(s, "fail") /\ UNCHANGED got
           \/ Faulty /\ Goto(s, Transient(s)) /\ UNCHANGED got
           \/ Faulty /\ Goto(s, Unclassified(s)) /\ UNCHANGED got
        /\ UNCHANGED <<rows, vectors, queue, on, stage, finals>>

\* A failed upsert may have stored any part of its points.
Upsert(s) ==
    LET d == on[s]
    IN  /\ pc[s] = "upsert"
        /\ \/ /\ vectors' = [vectors EXCEPT ![d] = @ \cup got[s]]
              /\ Goto(s, "storeReady")
           \/ /\ Faulty
              /\ \E part \in SUBSET got[s] : vectors' = [vectors EXCEPT ![d] = @ \cup part]
              /\ Goto(s, Transient(s))
        /\ UNCHANGED <<rows, queue, local>>

\* processing -> ready and the model on every chunk row, in one transaction.
StoreReady(s) ==
    LET d == on[s]
        Stored == /\ Holds(d, "processing")
                  /\ Move(d, "ready")
                  /\ embedded' = [embedded EXCEPT ![d] = VersionOf[s]]
    IN  /\ pc[s] = "storeReady"
        /\ \/ Stored /\ Goto(s, "finish")
           \/ ~Holds(d, "processing") /\ Goto(s, "finish") /\ UNCHANGED <<status, embedded>>
           \/ Faulty /\ Goto(s, Transient(s)) /\ UNCHANGED <<status, embedded>>
           \/ Faulty /\ "lostack" \in env.hazards /\ Stored /\ Goto(s, Transient(s))
        /\ UNCHANGED <<paged, chunkRows, vectors, queue, local>>

-----------------------------------------------------------------------------
(* How a claimed stage ends badly.                                         *)

\* _fail: processing -> failed; a claim already lost ends the delivery too.
Fail(s) ==
    LET d == on[s]
    IN  /\ pc[s] = "fail"
        /\ \/ Holds(d, "processing") /\ Move(d, "failed") /\ Goto(s, "finish")
           \/ ~Holds(d, "processing") /\ Goto(s, "finish") /\ UNCHANGED status
           \/ Raised(d, "processing", "failed") /\ Goto(s, Unclassified(s))
        /\ UNCHANGED <<paged, chunkRows, embedded, vectors, queue, local>>

\* _transient with attempts left: the claim goes back and the job is retried.
Release(s) ==
    LET d == on[s]
        to == GiveBack(s)
    IN  /\ pc[s] = "release"
        /\ \/ Holds(d, "processing") /\ Move(d, to) /\ Goto(s, "retry")
           \/ ~Holds(d, "processing") /\ Goto(s, "finish") /\ UNCHANGED status
           \/ Raised(d, "processing", to) /\ Goto(s, Unclassified(s))
        /\ UNCHANGED <<paged, chunkRows, embedded, vectors, queue, local>>

\* _release_after_interruption, then ARQ: a timed-out job ends, one cancelled by
\* a shutdown is run again.
Interrupted(s) ==
    LET d == on[s]
        to == GiveBack(s)
    IN  /\ pc[s] = "interrupted"
        /\ \/ Holds(d, "processing") /\ Move(d, to)
           \/ ~Holds(d, "processing") /\ UNCHANGED status
           \/ Raised(d, "processing", to)
        /\ \E p \in {"finish", "retry"} : Goto(s, p)
        /\ UNCHANGED <<paged, chunkRows, embedded, vectors, queue, local>>

-----------------------------------------------------------------------------
(* record_given_up, after an unclassified error on the final attempt.      *)

\* Mutant: the give-up takes a finished document too.
GiveFromReady(p) == IF p = "give1" THEN "pending"
                    ELSE IF p \in {"give2", "held2"} THEN "parsed" ELSE "ready"

\* The status step p of the give-up tries to claim from, and the step after it.
GiveFrom(p) == IF p = "give1" THEN "pending"
               ELSE IF p \in {"give2", "held2"} THEN "parsed" ELSE "chunked"
GiveHit(p) == IF p = "give1" THEN "held2"
              ELSE IF p \in {"give2", "held2"} THEN "held3" ELSE "giveFail"
GiveMiss(p) == IF p = "give1" THEN "give2"
               ELSE IF p = "give2" THEN "give3"
               ELSE IF p = "give3" THEN "giveCheck"
               ELSE IF p = "held2" THEN "held3" ELSE "giveFail"

GiveClaim(s) ==
    LET d == on[s]
        from == GiveFrom(pc[s])
    IN  /\ pc[s] \in {"give1", "give2", "give3", "held2", "held3"}
        /\ \/ Holds(d, from) /\ Move(d, "processing") /\ Goto(s, GiveHit(pc[s]))
           \/ ~Holds(d, from) /\ Goto(s, GiveMiss(pc[s])) /\ UNCHANGED status
           \/ Raised(d, from, "processing") /\ Goto(s, "finish")
        /\ UNCHANGED <<paged, chunkRows, embedded, vectors, queue, local>>

\* _is_processing: nothing was claimed, so is it this delivery's earlier claim?
GiveCheck(s) ==
    /\ pc[s] = "giveCheck"
    /\ \/ Goto(s, IF Holds(on[s], "processing") THEN "giveFail" ELSE "finish")
       \/ Faulty /\ Goto(s, "finish")
    /\ UNCHANGED <<rows, vectors, queue, local>>

GiveFail(s) ==
    LET d == on[s]
    IN  /\ pc[s] = "giveFail"
        /\ \/ Holds(d, "processing") /\ Move(d, "failed")
           \/ ~Holds(d, "processing") /\ UNCHANGED status
           \/ Raised(d, "processing", "failed")
        /\ Goto(s, "finish")
        /\ UNCHANGED <<paged, chunkRows, embedded, vectors, queue, local>>

-----------------------------------------------------------------------------
(* Beside deliveries: the two cron passes and the API.                     *)

\* Mutant: the reaper looks only at documents whose job still exists.
StaleWithJob(d) ==
    /\ Holds(d, "processing")
    /\ d \in jobs
    /\ \A s \in Slots : ~(on[s] = d /\ pc[s] \in ClaimSteps)

\* A claim nothing has moved for the staleness threshold.  The threshold exceeds
\* the job timeout, so a delivery that still holds it must have been paused.
Stale(d) ==
    /\ Holds(d, "processing")
    /\ \/ \A s \in Slots : ~(on[s] = d /\ pc[s] \in ClaimSteps)
       \/ "overlap" \in env.hazards /\ Faulty

\* reap_stale_processing: one UPDATE over every stale claim.
Reap ==
    /\ \E stale \in SUBSET {d \in Docs : Stale(d)} :
          /\ stale # {}
          /\ status' = [d \in Docs |-> IF d \in stale THEN "failed" ELSE status[d]]
    /\ UNCHANGED <<paged, chunkRows, embedded, vectors, queue, pc, local, sweep>>

\* recover_pending: read the candidates in one transaction ...
SweepRead ==
    /\ sweep = {}
    /\ sweep' = {d \in Docs \ deleted : status[d] \in RecoverableStatuses}
    /\ UNCHANGED <<rows, vectors, queue, pc, local>>

\* ... then enqueue them one by one; a document that has a job gets no second one.
SweepEnqueue(d) ==
    /\ d \in sweep
    /\ sweep' = sweep \ {d}
    /\ jobs' = jobs \cup {d}
    /\ UNCHANGED <<rows, vectors, tries, pc, local>>

\* Redis refuses, or the worker dies: the rest of the pass does not happen.
SweepAbort ==
    /\ Faulty
    /\ sweep # {}
    /\ sweep' = {}
    /\ UNCHANGED <<rows, vectors, queue, pc, local>>

\* The upload's commit, and its enqueue unless the API process dies in between.
Upload(d) ==
    /\ status[d] = "absent"
    /\ Move(d, "pending")
    /\ \/ jobs' = jobs \cup {d}
       \/ Faulty /\ UNCHANGED jobs
    /\ UNCHANGED <<paged, chunkRows, embedded, vectors, tries, pc, local, sweep>>

\* delete_document, or the undo of an upload that could not be queued.
Delete(d) ==
    /\ status[d] # "absent"
    /\ d \notin deleted
    /\ deleted' = deleted \cup {d}
    /\ UNCHANGED <<rows, vectors, queue, pc, local, sweep>>

\* Errors, crashes and pauses stop for good (an assumption of liveness only).
CalmDown ==
    /\ Faulty
    /\ env' = [env EXCEPT !.calm = TRUE]
    /\ UNCHANGED <<rows, vectors, queue, pc, local, sweep>>

-----------------------------------------------------------------------------
ParseSteps(s) == Verify(s) \/ StoreParsed(s)
ChunkSteps(s) == Pages(s) \/ StoreChunks(s)
EmbedSteps(s) == \/ Provenance(s) \/ RePages(s) \/ ReDelete(s) \/ Replace(s)
                 \/ Chunks(s) \/ Upsert(s) \/ StoreReady(s)
EndSteps(s)   == \/ Fail(s) \/ Release(s) \/ Interrupted(s)
                 \/ GiveClaim(s) \/ GiveCheck(s) \/ GiveFail(s)
                 \/ Finish(s) \/ Retry(s)

\* What a delivery does by itself once it has been started.
Deliver(s) ==
    /\ \/ Target(s) \/ Claim(s)
       \/ ParseSteps(s) \/ ChunkSteps(s) \/ EmbedSteps(s) \/ EndSteps(s)
    /\ UNCHANGED <<deleted, sweep, env>>

Queue(s) ==
    /\ \/ \E d \in Docs : Start(s, d) \/ Exhausted(s, d)
       \/ Crash(s) \/ Cancel(s)
    /\ UNCHANGED <<deleted, sweep, env>>

Maintain ==
    \/ Reap /\ UNCHANGED <<deleted, env>>
    \/ (SweepRead \/ SweepAbort \/ \E d \in Docs : SweepEnqueue(d)) /\ UNCHANGED <<deleted, env>>

Api(d) == \/ Upload(d) /\ UNCHANGED <<deleted, env>>
          \/ Delete(d) /\ UNCHANGED env

Next ==
    \/ \E s \in Slots : Deliver(s) \/ Queue(s)
    \/ Maintain
    \/ \E d \in Docs : Api(d)
    \/ CalmDown /\ UNCHANGED deleted

Spec == Init /\ [][Next]_vars

\* A started delivery runs on; a queued job is started again and again until it
\* is; the crons fire every minute.  Nothing forces the user, the errors or calm.
Fairness ==
    /\ \A s \in Slots : WF_vars(Deliver(s))
    /\ \A d \in Docs : SF_vars(/\ \E s \in Slots : Start(s, d) \/ Exhausted(s, d)
                               /\ UNCHANGED <<deleted, sweep, env>>)
    /\ WF_vars(Reap /\ UNCHANGED <<deleted, env>>)
    /\ WF_vars(SweepRead /\ UNCHANGED <<deleted, env>>)
    /\ \A d \in Docs : WF_vars(SweepEnqueue(d) /\ UNCHANGED <<deleted, env>>)

FairSpec == Spec /\ Fairness

-----------------------------------------------------------------------------
(* Properties.                                                             *)

\* Slot s works on d in the belief that it holds the claim.
Working(s, d) == on[s] = d /\ pc[s] \in ClaimSteps

\* A live document that is `processing` is worked on by at most one delivery:
\* "only one delivery runs a stage" (_run), whatever crashes, is reaped,
\* redelivered or given up in between.
ClaimExclusive ==
    \A d \in Docs : Holds(d, "processing") =>
        \A s, t \in Slots : Working(s, d) /\ Working(t, d) => s = t

\* The status of a live, unclaimed document tells exactly what is stored: pages
\* come with `parsed` and chunks with `chunked`, never before and never later
\* lost, also after any number of releases, retries and re-chunks.
StageEvidence ==
    \A d \in Docs :
        /\ Holds(d, "pending") => d \notin paged /\ chunkRows[d] = {}
        /\ Holds(d, "parsed")  => d \in paged /\ chunkRows[d] = {}
        /\ Holds(d, "chunked") => d \in paged /\ chunkRows[d] # {}

\* `ready` means searchable (_store_ready): the chunk rows are one version's,
\* the model recorded on them is that version's, and every one of them has its
\* vector in the collection.
ReadyMeansSearchable ==
    \A d \in Docs : Holds(d, "ready") =>
        /\ embedded[d] \in Versions
        /\ chunkRows[d] = ChunksOf[embedded[d]]
        /\ chunkRows[d] \subseteq vectors[d]

\* No vector of a generation of chunks that no longer exists stays behind: a
\* re-chunk removes the old vectors before the rows they were made from, and no
\* delivery writes vectors for rows that have been replaced since it read them.
OneGeneration == \A d \in Docs : vectors[d] \subseteq chunkRows[d]

\* Every behaviour of the deliveries, crons and API is one the lifecycle allows.
DoneStages == [d \in Docs |-> IF d \notin paged THEN 0
                              ELSE IF chunkRows[d] = {} THEN 1
                              ELSE IF status[d] = "ready" THEN 3 ELSE 2]

Lifecycle == INSTANCE DocumentLifecycle WITH done <- DoneStages

RefinesLifecycle == Lifecycle!Spec

\* When errors have stopped, every live document is settled: no lost job, dead
\* worker, exhausted retry budget or abandoned claim leaves it `pending`,
\* `parsed`, `chunked` or `processing` for ever.
Settled(d) == d \in deleted \/ status[d] \in {"ready", "failed"}

EventuallySettled ==
    \A d \in Docs : (env.calm /\ status[d] # "absent") ~> Settled(d)

-----------------------------------------------------------------------------
(* The inductive strengthening of the safety properties, for deliveries    *)
(* that may overlap or lose the answer of a commit, but not both.          *)

NotBoth == \A h \in Scenarios : ~("overlap" \in h /\ "lostack" \in h)

\* A document no compare-and-set but an API read will ever match again.
Dead(d) == d \in deleted \/ status[d] = "failed"

\* Steps that only give the claim up; a lost answer leads here after the status
\* has already moved on.
Ending == {"fail", "release", "interrupted"}

\* Two deliveries in claimed steps of one document means it is dead.
OneWorker ==
    \A s, t \in Slots : pc[s] \in ClaimSteps /\ pc[t] \in ClaimSteps /\ on[s] = on[t]
        => s = t \/ Dead(on[s])

\* A delivery that works on a claim has it, or the document is dead.
WorkerHasClaim ==
    \A s \in Slots : pc[s] \in ClaimSteps /\ (pc[s] \in Ending => "lostack" \notin env.hazards)
        => Holds(on[s], "processing") \/ Dead(on[s])

\* Without overlap ARQ runs one delivery of a document at a time.
OneDelivery ==
    "overlap" \notin env.hazards =>
        \A s, t \in Slots : on[s] = on[t] /\ on[s] # NoDoc => s = t

ClaimInv == OneWorker /\ WorkerHasClaim /\ OneDelivery

\* What is stored agrees with the status ...
RowEvidence ==
    \A d \in Docs :
        /\ chunkRows[d] = {} \/ \E v \in Versions : chunkRows[d] = ChunksOf[v]
        /\ chunkRows[d] # {} => d \in paged
        /\ status[d] \in {"absent", "pending"} => d \notin paged
        /\ status[d] = "parsed" => d \in paged /\ chunkRows[d] = {}
        /\ status[d] = "chunked" => chunkRows[d] # {}

\* ... and, under a claim, with the stage the delivery runs.
ClaimEvidence ==
    \A s \in Slots :
        /\ pc[s] \in {"verify", "storeParsed"} => stage[s] = "parse"
        /\ pc[s] \in {"pages", "storeChunks"} => stage[s] = "chunk"
        /\ pc[s] \in {"provenance", "rePages", "reDelete", "replace", "chunks",
                      "upsert", "storeReady"} => stage[s] = "embed"
        /\ pc[s] \in ClaimSteps /\ Holds(on[s], "processing") =>
              /\ stage[s] = "parse" => on[s] \notin paged
              /\ stage[s] = "chunk" => on[s] \in paged /\ chunkRows[on[s]] = {}
              /\ stage[s] = "embed" => chunkRows[on[s]] # {}

EvidenceInv == RowEvidence /\ ClaimEvidence

\* The chunks a delivery is about to upsert are still the document's.
GotCurrent == \A s \in Slots : pc[s] = "upsert" => got[s] \subseteq chunkRows[on[s]]

\* What the embed stage knows at each step about the rows and the vectors.
EmbedEvidence ==
    \A s \in Slots : pc[s] # "idle" /\ Holds(on[s], "processing") =>
        /\ pc[s] \in {"chunks", "upsert", "storeReady"}
              => chunkRows[on[s]] = ChunksOf[VersionOf[s]]
        /\ pc[s] = "upsert" => got[s] = chunkRows[on[s]]
        /\ pc[s] = "storeReady" => chunkRows[on[s]] \subseteq vectors[on[s]]
        /\ pc[s] = "replace" => vectors[on[s]] = {}

VectorInv == OneGeneration /\ ReadyMeansSearchable /\ GotCurrent /\ EmbedEvidence

Inv == TypeOK /\ ClaimInv /\ EvidenceInv /\ VectorInv

=============================================================================
