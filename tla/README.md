# Verification of ResearchMind's document pipeline

TLA+ specifications of the parts of ResearchMind that carry its own logic:
accounts and sessions, the intake of a PDF, uploading and deleting, ingestion
in three stages by redelivered background jobs, the passes that repair what was
left behind, the timeouts around them, extraction and chunking, search, the
start of workers and API over one vector collection, and the schema's
revisions. TLC checks them on small instances; TLAPS proves every safety
property and a refinement for instances of any size.

Sources are named relative to the repository root.

## 1. Inventory

| Component | State it keeps | Operations | Interacts with |
|---|---|---|---|
| Upload and delete (`backend/services/document_service.py`, `backend/storage/local.py`) | `documents` row, stored file per (owner, content hash) | `upload_and_process`, `_undo_unqueued_upload`, `_discard`, `delete_document` | PostgreSQL, the file store, ARQ through `IngestionQueue` |
| Upload validation (`document_processing/validation.py`) | none; a buffer while reading | `display_filename`, `read_capped`, `validate_pdf` | called before an upload is stored |
| Ingestion (`backend/services/ingestion_service.py`) | `documents.status`, pages, chunks, their model, vectors | `ingest`, `_run`, the parse, chunk and embed stages, `_rechunk`, `_transient`, `_fail`, `record_given_up` | PostgreSQL repositories, Qdrant, file store, extractor, embedder |
| Worker (`backend/ingestion/worker.py`, `worker_settings.py`, `queue.py`) | ARQ's job, attempt counter and in-progress key in Redis | `ingest_document`, `startup`, two crons | ARQ (external), the service above |
| Reaper and sweep (`reap_stale_processing`, `recover_pending`) | none of their own; the sweep holds a batch it read | one UPDATE; read, then one enqueue per document | PostgreSQL, ARQ |
| Repositories (`backend/db/repositories`) | rows, the unique indexes | compare-and-set on status, soft delete, inserts, provenance, `validate_for_retrieval`, `list_for_recovery` | PostgreSQL |
| Search (`backend/services/search_service.py`, `vector_db/qdrant`) | none | embed the query, candidates from Qdrant, validate in PostgreSQL | Qdrant, PostgreSQL |
| PDF extraction (`document_processing/pdf_parser.py`) | a child process | open, load each page's blocks, find the reading order | PyMuPDF (external), called by the worker |
| Sections and chunks (`document_processing/sections.py`, `chunker.py`) | none | `detect_sections`, `chunk` | the tokenizer (external), called by the worker |
| Embedding and startup (`document_processing/embedder.py`, `vector_db/qdrant/repository.py`, `backend/api/composition.py`) | the collection, its width and indexes | load the model, `ensure_collection`, embed batches | Qdrant |
| Authentication and roles (`backend/services/auth_service.py`, `backend/security`) | `users` rows, tokens | register, log in, resolve a principal, require a permission | PostgreSQL |
| Settings (`backend/config/settings.py`) | configuration | validators relating timeouts, chunk size and overlap | read by everything above |
| Migrations (`alembic/versions`) | the schema's revision, every row | six upgrades and downgrades | PostgreSQL |
| Agents, MCP server, frontend | none; stubs | | |

What is hard here: PostgreSQL, Qdrant, Redis and the file system share no
transaction, so every pair of steps can be separated by a crash; a job is
delivered at least once and its attempts can overlap when a worker is paused
past its deadlines; a commit can be applied and still be reported as failed,
and a Qdrant write can be applied after its caller gave it up; two pipeline
versions run side by side during an upgrade; identical uploads share one stored
file; three timeouts race each other; a search reads two stores one after the
other. `PROJECT.json` lists each hazard at its line, with the properties aimed
at it.

What makes each component correct:

* ingestion - one delivery works on a claimed document; the status tells what
  is stored; `ready` means searchable; no vector of a replaced generation of
  chunks remains; every document ends as `ready` or `failed`;
* recovery - a document has one job at most, and the bounded batch keeps no
  sound document from being recovered while it has room for one;
* timeouts - the reaper takes only claims of dead workers; a document that takes
  too long to parse fails as such;
* upload - a failed upload leaves neither row nor file, or, when its undo fails
  too, a row that can still be ingested; a live document has its bytes and its
  job;
* intake and extraction - a stored name is safe to show, memory is bounded, the
  worker decides by its own rules whatever was let in before, text comes once and
  in reading order;
* chunks - the windows cover the text without a gap and fit the model; no chunk
  crosses a heading, none splits a reference entry that fits, pages are cited
  right;
* search - only live chunks of the caller, of the API's own model; what is
  ready is found;
* start - one collection holds vectors of one width; workers and API come up;
* authentication - tokens for those who know the password, answers by what the
  account is now, one owner per address;
* migrations - no revision gets stuck on rows of this commit's code, no stage
  starts without its input.

## 2. Modules

| Module | Models | Built on |
|---|---|---|
| `Ingestion` | deliveries, ARQ, the two crons, the API's effect on a document | |
| `DocumentLifecycle` | what ingestion promises a client: an abstract specification | implemented by `Ingestion` |
| `Search` | searches beside ingestion and deletion | extends `Ingestion` |
| `Upload` | concurrent uploads and deletes over rows, files and the queue | |
| `Recovery` | the sweep's order and batch limit | |
| `Deadlines` | job timeout, parse budget and staleness threshold on a clock | |
| `Extraction` | the parser, page by page and block by block | |
| `Intake` | what an upload is checked for, then the worker's checks and extraction of it, or of a document from before | extends `Extraction` |
| `Chunker` | section detection and the chunk loops | |
| `Startup` | workers and API processes over one collection | |
| `Auth` | registration, sign-in, authorised requests | |
| `Migrations` | the revisions over rows of every era | |
| `IngestionProofs` | theorems about ingestion, its lifecycle and search | extends `Search` |
| `DeadlinesProofs` | theorems about the two crons: the reaper and the sweep | extends `Deadlines` and `Recovery` |
| `IntakeProofs` | theorems about uploads and extraction | extends `Intake` |
| `UploadProofs`, `AuthProofs`, `StartupProofs`, `ChunkerProofs`, `MigrationsProofs` | theorems | the modules they name |
| `MC...` | instances for TLC | |

### Ingestion

The granularity is the await: between two calls that reach a store a delivery
does nothing another process can see, so one action runs from one committed
transaction, database read or vector-store call to the next. `pc[s]` names the
next such call of slot `s`. The statuses and stages keep the source's names.

| Actions | Code |
|---|---|
| `Target`, `Claim` | `ingest`, `_run` |
| `Verify`, `StoreParsed` | `_process_claimed`, `_store_parsed` |
| `Pages`, `StoreChunks` | `_chunk_claimed`, `_store_chunks` |
| `Provenance`, `RePages`, `ReDelete`, `Replace`, `Chunks`, `Upsert`, `StoreReady` | `_embed_claimed`, `_rechunk`, `_replace_chunks`, `_store_ready` |
| `Fail`, `Release`, `Interrupted` | `_fail`, `_transient`, `_release_after_interruption` |
| `GiveClaim`, `GiveCheck`, `GiveFail` | `record_given_up`: three compare-and-sets in turn, `_is_processing`, the failure |
| `Reap`, `SweepRead`, `SweepEnqueue`, `SweepAbort` | the crons |
| `Upload`, `Delete` | the commit and enqueue of an upload, the soft delete |
| `Start`, `Exhausted`, `Finish`, `Retry`, `Crash`, `Cancel` | ARQ and process death, external |

Data is abstracted to what the properties tell apart. A document's pages are there
or not. A chunk is its id: ids are derived from the chunking version, so
`ChunksOf[v]` are disjoint sets, and "the provenance of the rows" is the set of
versions whose ids occur. A version is the code's pair (strategy, tokenizer id);
the tokenizer's id is derived from the model's, so a version has one embedding
model, and `embedded` records the version where the rows record its model. The
vectors of a document are the ids in Qdrant. What parsing or embedding computes is
a choice between usable, permanently unusable and, while the environment is
faulty, a failure.

Errors: each store call may fail until `env.calm`. An exception goes where the
code sends it: `Transient` (the claim released, or the document failed on the
final attempt) or `Unclassified` (`ingest_document`'s last handler). A failed
upsert may have stored any part of its points, a failed delete may have removed
them. Each behaviour picks one of the `Scenarios`, a set of harsher faults: with
`"overlap"` a worker may be paused past its deadlines, so ARQ starts the job
again and the reaper may take the claim beside it; with `"lostack"` a commit may
be applied and reported as failed.

### DocumentLifecycle

Status, stages done and deletion. A claim completes one stage, returns the
document to the status of the stages it has, or fails it. `Ingestion` maps
`done` to what is stored (`DoneStages`: pages, chunks, ready).

### Search

`Ask` is the route up to the query's checks, `EmbedQuery` the model, `IndexRead`
the call of `QdrantVectorStore.search`, `Validate` the SQL statement of
`validate_for_retrieval`, `Respond` the answer. A query is its length, its author,
its `document_ids` and the chunks similar enough; Qdrant returns any `TopK` of
them. `validate_for_retrieval` compares the model recorded on the rows, so any
version with the API's model passes (`ModelOf`, `ApiVersions`): one may differ
from another in the strategy only. `IngestionStep` is every step of `Ingestion`; a
delete or upsert a delivery gave up on goes to `late`, and where `Tardiness`
allows `ApplyLate` applies it at any later moment. `steady` and `gone` are
history, for the properties only.

### Upload

One action per step of `upload_and_process`, with `answer` recording the
outcome already decided while clean-up is under way. A key stands for (owner,
content hash); the row's life is none, live, deleted. `left` has the requests
whose undo failed in its turn: they are answered like any other whose job was
refused. Each behaviour runs under
one of the `Scenarios`: any set of database errors, Redis refusals (which may
have been applied), storage errors (including a file that stays although `put`
raised), the death of the process and lost answers of commits. A property that
needs some of them absent says so itself (`Answered`, `CleansUp`).

### Recovery

The recoverable rows as a sequence in order of `updated_at`. `SweepRead` takes
the first `BatchSize`, `SweepNext` hands one on (a row that cannot make a job is
skipped and keeps its place), `Enqueued` is ARQ's refusal of a second job of the
same name. `OldRows` are the rows from before this code that can make no job.
`StartJob`, `End` and `LoseJob` are ARQ's. A slow document's delivery is
cancelled each time, which puts it back at the end of the order.

### Deadlines

One document parsed under whatever settings `Accepted` (the validators) let
pass. `Tick` advances the clock, but not past a moment at which something is due
(`Overdue`): ARQ's cancellation, the parser's kill. `StepTime` is the longest a
step other than parsing takes; a threshold that exceeds the job's timeout by less
than a release takes is `Tight`.

### Extraction and Intake

`Open`, `LoadPage`, `Walk`, `EndPage`, `Finish` are `extract_pdf_text`,
`_page_blocks` and the loop of `reading_order`; `Killed` is the end of the child
process at any moment. A block is its extent, its top edge and whether its cleaned
text is blank; half the page's width and the gutter's tolerance decide which band
and column it belongs to. `Intake` puts `display_filename` (`Name`), `read_capped`
(`Read`, a chunk at a time) and `validate_pdf` (`Validate`) before it, and around
it what `_process_claimed` checks: the recorded page count before the file is read
(`Verify`), then what was extracted (`Judge`). API and worker are processes with a
`MAX_PDF_PAGES` each (`limit`, `maxPages`), and `Earlier` are documents whose
files and rows predate today's rules. A filename is a sequence over seven kinds of
characters, the ones its rules tell apart; normalisation, path removal, the
stripping of invisible characters and of blanks are modelled by what they do to
them: each picks places of the name (`Pick`) and keeps what stands there, in its
order. `Sorted` is the one listing of a band's blocks that runs from the top.

### Chunker

`NextBlock` and `EndOfBlocks` are the loop of `detect_sections`, `NextSection`,
`NextEntry`, `EndOfEntries` and `NextWindow` those of `chunk`,
`_reference_ranges` and `_window_ranges`. Text is its tokens, counted through the
document; `Startable` is what the settings' validators and the worker's startup
check let pass. `IsHeading` keeps every test of the code, also the one that its
caller makes ineffective (see section 4).

### Startup

`Load` is a worker's `startup` up to Qdrant, then `Exists`, `Describe`, `Create`
and `Index` are the calls of `ensure_collection` and `CallFails` their failures;
`Embed` is the batch check and the upsert of its vectors. `Boot` is
`build_retrieval_resources`. A process that is refused goes down and its
supervisor starts it again; `Deploy` gives it another model.

### Auth

A request goes from `AskRegister` (password policy and hash) through `Flush`
(the INSERT, which waits while another transaction holds the same address) and
`Commit`, from `AskLogin` through `ReadCredentials` and `Compare`, or from `Call`
(the token's check) to `Lookup`, which reads the account and decides. `Respond`
ends it, `Crash` may end it at any step. `since` records every value the
account had during the request: the properties say that the answer was right at
some moment of it. `Operate` is an operator at the database.

### Migrations

`Upgrade` and `Downgrade` convert every row in one transaction and are refused
where a constraint of the target revision (`Allowed`) does not hold of the result,
or where 0006 meets chunks (`RefusesChunks`). `EraWrite` puts down any row an
earlier schema admits and an earlier revision's code can have written
(`EraAssumption`); `Upload`, `Claim`, `Settle` and `Reap` are the application at
the head. `origin` is history: a row shows the work of earlier code (`era`), of
this commit's (`head`), or of this commit's as a downgrade left it (`moved`).

## 3. Runs

| Run | Instance | Shows |
|---|---|---|
| `deliveries` | 1 document, 2 slots of different versions, 2 attempts; deliveries overlap, or answers are lost | `ClaimExclusive`, `StageEvidence`, the inductive `Inv` (types included), the refinement `RefinesLifecycle` |
| `redelivered` | the same with both faults together, one chunk per version, fair | `ReadyMeansSearchable`, `OneGeneration`, `EventuallySettled` after any history of redeliveries |
| `searching` | 1 document, 2 slots of versions with different models, its owner and a stranger, limit 2, late writes or none | `Findable`, `NothingGone`, `OneVectorSpace`, `Isolated` |
| `uploads` | 3 uploads of one file and deletes, under all 32 combinations of faults | `TypeOK`, `FailedUploadIsTakenBack`, `NoOrphanedBlob`, `LiveRowIsHandedOver`, `OnlyTheirCreatorTakesBytes` |
| `lost_bytes` | 2 uploads, database errors | expected violation of `LiveRowHasBlob`, see section 4 |
| `sweeps` | 2 sound and 2 slow documents, 1 or 2 broken ones, 2 sweepers, batches of 2, 2 jobs at a time, fair | `OneJobPerDocument`, `Recovered` |
| `budgets` | the default timeouts, a tight threshold, limits just met, just missed and zero, fair | `ReaperSparesTheLiving`, `TooLongFails` |
| `intakes` | every name of up to 4 characters; files around every limit, under caps of 1 to 3 pages in API and worker; documents from before with any count in their row; every page of 4 blocks, 2 pages of 1 | `NameIsSafe`, `MemoryIsBounded`, `WorkerDecidesAfresh`, `HumanOrder`, `AllTextOnce` |
| `chunks` | every document of up to 3 blocks of 5 kinds and 6 tokens, every accepted size and overlap up to 4 | `Seamless`, `NeverTruncated`, `UnderItsHeading`, `EntriesIntact`, `CitedPages` |
| `starts` | 2 workers and an API process, a model of one width, one that cannot read a whole chunk and whose sessions differ from what it declares, one in no catalogue, 1 redeployment, 1 crash, fair | `OneWidth`, `WorkersComeUp`, `ApiComesUp` |
| `sessions` | 2 clients register one address, one of them signs in and calls routes, demotion and deactivation, fair | `CreatedOwnsTheAccount`, `SignInIsEarned`, `EnrolledCanSignIn`, `AnswersAreCurrent`, `EveryRequestIsAnswered` |
| `schema_moves` | 2 documents, rows of every era | `NeverStuck`, `StagesHaveInput` |

### Bounds

* Ingestion: attempts are the code's own counter, and a job can be created
  again without limit. One document suffices for safety because documents meet
  only in the reaper's single UPDATE and the sweep's batch, which `sweeps` has
  with six; the proofs cover any number. Two slots are the smallest number that
  overlap, two attempts the smallest with a non-final and a final one, two
  versions the smallest that re-chunk. In `deliveries` a version makes two
  chunks, so that a partial upsert differs from none and all; with both faults
  together one chunk each keeps the run small, and a failed upsert still stores
  it or not.
* Search: the version of the API makes two chunks and the limit is two, so that
  a stale vector of the other version can push out a sound one. The owner and
  the stranger ask in turn, one search at a time: searches share no state. That
  versions may also share a model is left to the proofs.
* Uploads: a creator, a second upload that reuses its file and a third beside
  them. Requests are interchangeable, so symmetry is used.
* Recovery: as many documents that return as a batch holds, and rows that make no
  job, fewer than a batch holds or as many; in the latter case they fill it for
  good, which `Recovered` excludes (section 4).
* Deadlines: half a minute is the unit, in which the defaults are 10, 6 and 30; a
  release takes up to two, so that a threshold one above the job's timeout is
  accepted and tight.
* Intakes: the caps lie below, at and above the page counts, in either process.
* Chunks: three blocks give a section before, at and after a heading; six tokens
  are more than two windows at any accepted size, and enough for a packed, an
  oversized and a following entry.
* Starts: one crash and one redeployment may fall at any step of either worker;
  a worker whose startup fails tries again without limit.
* Sessions: one tick of the clock ends a token's life; passwords are two ways of
  typing one, a longer one with the same bytes as far as bcrypt reads, and a
  short one.
* `Upload`, `Chunker`, `Intake`, `Deadlines`, `Startup` and `Migrations` come to
  an end (requests are answered, a document is done, a bound is used up), so
  deadlock is not checked there. `Ingestion`, `Search`, `Recovery` and `Auth`
  never stop.

### Fairness

* `Ingestion`: a started delivery goes on (the event loop runs it); a queued job
  is started again and again until one of its starts succeeds (strong fairness,
  because a slot may be taken by other jobs in between); the reaper and the sweep
  fire each minute (`WorkerSettings.cron_jobs`). Faults may go on for ever;
  `EventuallySettled` speaks of behaviours in which they stop (`env.calm`).
* `Recovery`: the same of jobs, deliveries and crons; Redis is calm in the end.
* `Deadlines`: time passes, a delivery goes on, the crons fire. Nothing is
  assumed of parsing, which may never end.
* `Startup`: a supervisor restarts a process that is down, and a startup goes on.
  `WorkersComeUp` is about the time after Qdrant has become steady; `ApiComesUp`
  needs no such thing.
* `Auth`: the event loop runs each request on; PostgreSQL grants the wait for a
  unique key in turn (strong fairness of `Flush`).

Nothing is assumed of users, operators or crashes.

## 4. Where code and text differ

| Said | The code | Seen in |
|---|---|---|
| the upload race "leaves at worst an orphaned file" (`document_service.py:143`) | a failed upload removes the file an identical upload has just recorded a row for (`:235`) | run `lost_bytes` |
| "No document exists for it" (`document_service.py:79`) | a commit applied with its answer lost leaves a live row, whose file is removed (`:233`) | the condition on lost answers in `FailedUploadIsTakenBack` |
| "the upload has been undone" (`IngestionUnavailable`, `document_service.py:69`) | when the undo's soft delete fails as well, the same error is raised and the document stays, `pending` until the sweep (`:291`; `docs/development/ingestion.md:326` says so) | `left` in `FailedUploadIsTakenBack` |
| "only one delivery runs a stage" (`ingestion_service.py:279`) | when a commit's answer is lost *and* deliveries overlap, a release takes another delivery's claim, since a claim names no owner (`:1053`) | `NotBoth`; `ClaimExclusive` fails under `BothHazards` |
| an unclassified error "is retried while attempts remain" (`docs/development/ingestion.md:191`) | a failed read in a claimed stage keeps the claim, so the retry skips the document and the reaper fails it (`ingestion_service.py:443`) | `Unclassified` |
| the sweep takes "never `chunked`" (`ingestion_service.py:837`) | `RECOVERABLE_STATUSES` contains it; the docstring is out of date | `RecoverableStatuses` |
| "`ready` - which means searchable" (`shared/models/ingestion.py:125`) | nothing orders a timed-out delete of vectors against the retry's upsert: applied late, it empties a ready document (`vector_db/qdrant/repository.py:192`) | the condition on `tardy` in `Findable` |
| "More than one line of text is a paragraph" (`sections.py:109`) | the caller has already made line breaks spaces (`:149`), so the test never fires | `Normalised` in `Chunker` |
| "`ready` means searchable" (revision 0006, `:12`) | its downgrade drops the chunks of `ready` documents and leaves them `ready` (`:119`) | the `moved` rows in `StagesHaveInput` |
| the payload indexes make filtering "a lookup" (`vector_db/qdrant/repository.py:35`) | a worker that dies between the collection and its indexes leaves them missing for good (`:65`) | `Describe` |
| "A collection built for another model is **not** reused" (`:58`) | only the width is compared (`:67`) | `Describe` |
| the batch is "not a bound on what is recovered" (`worker.py:59`) | rows that make no job stay the oldest: a batch full of them starves the rest (`repositories/document.py:418`) | `Unclogged` in `Recovered`, which fails without it |
| "The reaper must never be able to fail a job that is still running" (`settings.py:276`) | the validator asks for more than the timeout, not for the time the release after it takes (`:283`) | `Tight` in `ReaperSparesTheLiving` |
| "must fail *as* too long" (`settings.py:292`) | a budget with no room around it is accepted; the job's timeout then comes first, for ever (`:299`) | `HasRoom` in `TooLongFails` |
| NFC, "so the same visible name is the same stored string" (`validation.py:140`) | invisible characters are removed after it (`:153`) | `DisplayName` |
| "stops at the first byte over the limit" (`validation.py:109`) | the limit is compared after a whole chunk (`:121`) | `MemoryIsBounded` allows one chunk |

## 5. Proofs

The theorems about `Ingestion` hold for every set of documents, slots, versions
and points and every number of attempts, from `ConstantsAssumption` and
`ChunksAssumption`. `TypeCorrect` holds for all scenarios; the others there
assume `NotBoth`: no scenario has both overlap and lost answers. Without it
`ClaimExclusive` is false (section 4).

None of the safety properties is inductive. `Inv` strengthens them with three
groups, proved one after another over every action:

* `ClaimInv` - two deliveries in claimed steps of one document exist only when
  it is dead (failed or deleted: no compare-and-set matches again), and a
  delivery in a claimed step has the claim or the document is dead. With lost
  answers the second part is weakened for the steps that only give the claim up,
  and ARQ's one delivery at a time (`OneDelivery`) takes its place.
* `EvidenceInv` - status, pages and chunks agree in every state, and under a
  claim they agree with the stage its holder runs. This needs `ClaimInv`: the
  holder is the only one to write.
* `VectorInv` - the chunks a delivery is about to upsert are still the
  document's, even if the document is dead, so that no write revives a replaced
  generation; and what is known of rows and vectors at each embed step.

From it follow `ClaimsAreExclusive`, `StatusTellsWhatIsStored`,
`ReadyIsSearchable` and `OneGenerationOnly`.

`ImplementsLifecycle` maps each commit to a lifecycle step: a compare-and-set
into `processing` is a `Claim`, a store is a `Complete`, a release a `PutBack`,
the reaper's UPDATE one `Fail` of a set. It needs `EvidenceInv` to know that the
status a release writes is the one of the stages done.

`UploadProofs` covers any number of requests and keys and any scenarios, from
`RequestsAssumption`; the faults a guarantee does not survive are part of the
property it states (`Answered`, `CleansUp`). The invariants say where the upload
of a live row can be (`RowProgress`), that rows once recorded stay (`RowsStay`),
that a file has a row or a creator still on its way to insert or discard
(`BlobAccounted`), that a creator which still counts on its file, or whose live
row does, has it and is the only one (`OneKeeper`: what makes a document left by a
failed undo one that can be ingested), and that what a failed creator took stays attributed to it
(`BytesOrTaken`, `TakenStays`).

The theorems about `Search` compose searches with every step of `Ingestion` and
with writes applied late, for any number of users, documents and searches.
`Isolated` and `NothingGone` need no condition on the faults: an answer is empty
until it is validated and lies within the candidates (`RequestOK`), and a document
that was gone when the search was asked is still dead (`GoneInv`, from `DeadStep`:
no step of ingestion revives one). `ResultsAreOfOneModel` assumes `NotBoth`: it
rests on `ClaimInv`, `EvidenceInv` and `VersionInv` (a ready document's rows are
those of the version recorded on them), none of which mentions vectors, so a
write applied late cannot disturb it. `ReadyIsFindable` assumes `NotBoth` too, and
does depend on vectors: `Findable` is false with late writes and says so. Its
invariant `FindInv` follows a search: the documents that count as ready all the
while are ready and keep their rows and vectors (`SteadyInv`, `ReadyRowsStay`),
the index has proposed every chunk that has to be found or as many as were asked
for (`Complete`, where no write is late), and validation confirmed those that
were proposed (`Confirmed`).

`AuthProofs` covers any number of clients, addresses and passwords. Beside the
properties `AuthInv` says that a password under way was typed and, where it is to
be stored, valid (`PasswordInv`); that every row's password is one bcrypt reads to
its end, and that a request has met the present row and the one it read
(`RowsInv`: without it a truncated comparison could let two passwords pass for
one: it is what `SignInsAreEarned` and `TheEnrolledSignIn` rest on); that only the
transaction holding an address's key is about to commit (`InsertInv`); and that a
request past the token's check had a good one (`TokenInv`).

`StartupProofs` covers any number of workers, models, deployments and crashes.
`OneWidth` follows with `Agreed`: a worker that is past its check of the
collection has the collection's width, and no step changes that width.

`DeadlinesProofs` takes timeouts and steps of any length. `LivingAreSpared` holds
of every accepted setting that is not `Tight`. The invariant `ClaimAge` bounds a
living claim's age by the job's own timer and, after the cancellation has stopped
it, by the release.

`SweepsNeverDuplicate`, in the same module, is about the other cron: any number
of sweeps, uploads and workers, each acting on a batch it read earlier, over a
queue that also loses jobs. `QueueInv` says that the queue's entries are distinct
and none is running; what is needed of each step is that appending a document that
is in neither keeps that, and so does removing any one place.

`ChunkerProofs` takes documents of any shape and all settings the worker starts
with. Its properties relate finished chunks to the text, so `ChunkInv` has to say
where each loop stands in it: the sections found so far tile the text, each with
one heading, at its beginning (`Tiled`, `Detecting`); every chunk is a piece of one
section that cuts no entry that fits (`Pieces`), and neighbours meet (`Linked`);
between sections the chunks reach to the end of the last one (`AtSection`); in a
reference list the entries packed but not yet in a chunk are those up to the
cursor, and fit into one (`AtEntries`); in the window loop the next window begins
where the chunks end, or by the overlap before it (`AtWindows`). `Seamless`,
`UnderItsHeading`, `EntriesIntact`, `CitedPages` and `NeverTruncated` follow.

`IntakeProofs` takes names of any length, files of any size and pages of any number
of blocks, from `IntakeAssumption` and `ExtractionAssumption`. `IntakeInv` says what
each step of an upload leaves established for the next, and in `WorkerInv` why the
worker goes on with a file or refuses it; nothing in it relates the two page caps,
and only an upload of today's is known to be openable. What a name is cleaned of
is shown by lemmas about `Pick` (`Components`, `Visibles`, `Trims`). For the reading
order, `WalkOK` is the loop's invariant: what is passed is above what is not, what
is read is above the open band, and the last block that was read is a full-width
one below the others. `BandReads` is the argument: a full-width block that parted
two blocks of the open band would have been passed, hence read, hence above both.
No block is read before itself (`ReadOnce`), so a page that has every block in a
reader's order has it once.

`MigrationsProofs` takes any number of documents. `NeverStuck` needs more than the
schema's constraints (`Allowed`): the conversions of one row are shown to take what
one revision admits to what the other does (`RowUp`, `RowDown`), and the writes at
the head to be admitted because a claim under way is on a row that is `processing`
(`Backed`). That 0006 refuses only chunks of earlier code needs `Origin`: below the
head, chunks are on rows of earlier code only, which its own downgrade ensures by
deleting them. `StagesHaveInput` needs that rows tell the truth at every revision, not
just at the head (`Honest`): a downgrade turns `chunked` into `parsed`, which is
right only because a chunked document keeps its pages.

Where a proof needs an induction over numbers (that a finite set can be listed by a
strict order, that the blocks' ends grow) it takes the least counterexample, which
exists because the natural numbers are well founded (`LeastNat`).

Model-checked only: the liveness properties (`EventuallySettled`, `Recovered`,
`TooLongFails`, `WorkersComeUp`, `ApiComesUp`, `EveryRequestIsAnswered`), since
fairness is beyond this prover; and `ReadyMeansSearchable` and `OneGeneration` under
both faults together, where the invariant they are proved from does not hold.

## 6. Not modelled

* Agents, MCP server and frontend: stubs that return constants or raise
  `NotImplementedError`.
* The validators of secrets, CORS origins, DSNs and paths: each judges one
  value, with no state.
* The tokenizer, including that a window cut inside a word is tokenised again by
  the embedder (`embedder.py:60`) and may then count differently; bcrypt and the
  token's encoding; PyMuPDF; inference. They are the constants the modules take.
* Listing and reading documents, health checks, wording of answers and logs:
  they change no state.
* The temporary file inside `LocalStorage._put_sync`: a crash there leaves a
  file nothing names.
* How long ARQ defers a retry, which decides nothing but time.
