------------------------------- MODULE Search -------------------------------
(***************************************************************************)
(* Semantic search beside ingestion: backend/services/search_service.py,   *)
(* the Qdrant adapter it asks and the SQL statement that validates what    *)
(* Qdrant proposed.  A search reads the index in one step and PostgreSQL   *)
(* in a later one; every delivery, cron pass and deletion of Ingestion may *)
(* fall between them.                                                      *)
(*                                                                         *)
(* A chunk id is a pair of a document and a point, because the code        *)
(* derives it from the document.  A query is abstracted to its length and  *)
(* to the chunks whose similarity reaches the score threshold.             *)
(***************************************************************************)
EXTENDS Ingestion, Sequences, FiniteSets

CONSTANTS
    Users,           \* principals
    OwnerOf,         \* documents.user_id
    Searchers,       \* search requests in flight
    ModelOf,         \* a version's embedding model, which its tokenizer's id names
    ApiModel,        \* the embedding model the API has loaded
    Queries,         \* queries that may be asked
    TopK,            \* RETRIEVAL_TOP_K, or the request's top_k
    MaxQueryChars,   \* RETRIEVAL_MAX_QUERY_CHARS
    MaxInputTokens,  \* what the embedding model reads
    SpecialTokens,   \* SPECIAL_TOKENS_PER_SEQUENCE
    Tardiness        \* whether Qdrant may apply a write its caller gave up on

ChunkIds == Docs \X Points

\* A request: the authenticated principal and the query it sent.
Query == [by : Users, chars : Nat, tokens : Nat,
          near : SUBSET ChunkIds, docs : SUBSET Docs]

ASSUME SearchAssumption ==
    /\ OwnerOf \in [Docs -> Users]
    /\ ApiModel \in {ModelOf[v] : v \in Versions}
    /\ Queries \subseteq Query
    /\ TopK \in Nat \ {0}
    /\ MaxQueryChars \in Nat /\ MaxInputTokens \in Nat /\ SpecialTokens \in Nat
    /\ Tardiness \subseteq BOOLEAN

VARIABLES
    phase,   \* where each search is
    query,   \* what it asked, and for whom
    cand,    \* the candidates Qdrant returned, best first
    answer,  \* the validated chunks, each with its rank among the candidates
    steady,  \* documents ready at every moment since the search was asked
    gone,    \* documents that were deleted or failed when it was asked
    late,    \* writes abandoned by their caller that Qdrant has not applied yet
    tardy    \* whether Qdrant still applies such a write

request == <<phase, query, cand, answer>>
history == <<steady, gone>>
searchVars == <<vars, request, history, late, tardy>>

Nothing == [c \in {} |-> 0]

SearchInit ==
    /\ Init
    /\ phase = [r \in Searchers |-> "idle"]
    /\ query = [r \in Searchers |-> {}]
    /\ cand = [r \in Searchers |-> <<>>]
    /\ answer = [r \in Searchers |-> Nothing]
    /\ steady = [r \in Searchers |-> {}]
    /\ gone = [r \in Searchers |-> {}]
    /\ late = {} /\ tardy \in Tardiness

-----------------------------------------------------------------------------
(* What the adapters compute.                                              *)

\* SearchService._acceptable: a query the model would truncate is refused.
Acceptable(q) ==
    /\ q.chars > 0
    /\ q.chars <= MaxQueryChars
    /\ q.tokens + SpecialTokens <= MaxInputTokens

\* Mutant: document_ids replaces the owner condition instead of narrowing it.
OwnedByAnyone(owner, docs) == {c \in ChunkIds : c[1] \in docs}

\* QdrantVectorStore._owned_by: the filter Qdrant evaluates, a conjunction.
OwnedBy(owner, docs) == {c \in ChunkIds : OwnerOf[c[1]] = owner /\ c[1] \in docs}

\* The points stored in the collection.
Stored == {c \in ChunkIds : c[2] \in vectors[c[1]]}

\* Qdrant's answer (external): the best of the matching points, all of them when
\* they fit into the limit.  The service does not rely on ids being distinct.
QueryPoints(matching) ==
    {c \in UNION {[1..n -> matching] : n \in 0..TopK} :
        Len(c) < TopK => \A m \in matching : \E i \in DOMAIN c : c[i] = m}

Found(c) == {c[i] : i \in DOMAIN c}

\* The versions of the API's model: a version may change the chunking strategy only.
ApiVersions == {v \in Versions : ModelOf[v] = ApiModel}

\* Mutant: the model that embedded a chunk is not compared.
ValidateAnyModel(ids, owner) ==
    {c \in ids : /\ c[2] \in chunkRows[c[1]]
                 /\ OwnerOf[c[1]] = owner
                 /\ Holds(c[1], "ready")}

\* Mutant: a soft-deleted document's chunks still join.
ValidateDeleted(ids, owner) ==
    {c \in ids : /\ c[2] \in chunkRows[c[1]]
                 /\ OwnerOf[c[1]] = owner
                 /\ status[c[1]] = "ready"
                 /\ embedded[c[1]] \in ApiVersions}

\* Mutant: `chunked` is taken for searchable and `ready` forgotten.
ValidateChunked(ids, owner) ==
    {c \in ids : /\ c[2] \in chunkRows[c[1]]
                 /\ OwnerOf[c[1]] = owner
                 /\ Holds(c[1], "chunked")
                 /\ embedded[c[1]] \in ApiVersions}

\* DocumentChunkRepository.validate_for_retrieval: one statement over ids alone.
\* It compares the model recorded on the rows (and its dimension), not the version.
ValidateForRetrieval(ids, owner) ==
    {c \in ids : /\ c[2] \in chunkRows[c[1]]
                 /\ OwnerOf[c[1]] = owner
                 /\ Holds(c[1], "ready")
                 /\ embedded[c[1]] \in ApiVersions}

\* `ranked`: each candidate once, with the position (the score) of its first hit.
Ranked(c) == [id \in Found(c) |-> CHOOSE i \in DOMAIN c :
                                     c[i] = id /\ \A j \in 1..(i - 1) : c[j] # id]

-----------------------------------------------------------------------------
(* SearchService.search, one step per await.                               *)

ToPhase(r, p) == phase' = [phase EXCEPT ![r] = p]

\* POST /search: the principal is the authenticated one, never the request's.
Ask(r, q) ==
    /\ phase[r] = "idle"
    /\ ToPhase(r, IF Acceptable(q) THEN "embed" ELSE "invalid")
    /\ query' = [query EXCEPT ![r] = q]
    /\ steady' = [steady EXCEPT ![r] = {d \in Docs : Holds(d, "ready")}]
    /\ gone' = [gone EXCEPT ![r] = {d \in Docs : Dead(d)}]
    /\ UNCHANGED <<cand, answer>>

EmbedQuery(r) ==
    /\ phase[r] = "embed"
    /\ \/ ToPhase(r, "index")
       \/ Faulty /\ ToPhase(r, "unavailable")
    /\ UNCHANGED <<query, cand, answer, history>>

\* QdrantVectorStore.search: a point of another owner is an error, not a miss.
IndexRead(r) ==
    /\ phase[r] = "index"
    /\ \/ \E c \in QueryPoints(Stored \cap query[r].near \cap OwnedBy(query[r].by, query[r].docs)) :
             /\ cand' = [cand EXCEPT ![r] = c]
             /\ ToPhase(r, IF \E id \in Found(c) : OwnerOf[id[1]] # query[r].by THEN "unavailable"
                           ELSE IF c = <<>> THEN "answered" ELSE "validate")
       \/ Faulty /\ ToPhase(r, "unavailable") /\ UNCHANGED cand
    /\ UNCHANGED <<query, answer, history>>

\* The candidates' order, without the ones PostgreSQL does not confirm.
Validate(r) ==
    LET ranked == Ranked(cand[r])
        validated == ValidateForRetrieval(DOMAIN ranked, query[r].by)
    IN  /\ phase[r] = "validate"
        /\ \/ /\ answer' = [answer EXCEPT ![r] = [c \in validated |-> ranked[c]]]
              /\ ToPhase(r, "answered")
           \/ Faulty /\ ToPhase(r, "unavailable") /\ UNCHANGED answer
        /\ UNCHANGED <<query, cand, history>>

\* The response is sent and the request forgotten.
Respond(r) ==
    /\ phase[r] \in {"invalid", "unavailable", "answered"}
    /\ ToPhase(r, "idle")
    /\ query' = [query EXCEPT ![r] = {}]
    /\ cand' = [cand EXCEPT ![r] = <<>>]
    /\ answer' = [answer EXCEPT ![r] = Nothing]
    /\ steady' = [steady EXCEPT ![r] = {}]
    /\ gone' = [gone EXCEPT ![r] = {}]

SearchStep(r) ==
    /\ \/ \E q \in Queries : Ask(r, q)
       \/ EmbedQuery(r) \/ IndexRead(r) \/ Validate(r) \/ Respond(r)
    /\ UNCHANGED <<vars, late>>

-----------------------------------------------------------------------------
(* Ingestion beside it, and the writes Qdrant applies late.                *)

\* What a delivery that left its Qdrant call without an answer may have sent.
Abandoned == {s \in Slots : /\ pc[s] \in {"reDelete", "upsert"}
                            /\ pc'[s] \in {"release", "fail", "interrupted", "idle"}}

Sent(s) == [doc |-> on[s], points |-> IF pc[s] = "upsert" THEN got[s] ELSE {}]

IngestionStep ==
    /\ Next
    /\ late' = IF tardy THEN late \cup {Sent(s) : s \in Abandoned} ELSE late
    /\ steady' = [r \in Searchers |-> {d \in steady[r] : status'[d] = "ready" /\ d \notin deleted'}]
    /\ UNCHANGED <<request, gone>>

\* Qdrant gets round to a write nobody waits for any more (external).
ApplyLate(w) ==
    /\ vectors' = [vectors EXCEPT ![w.doc] = IF w.points = {} THEN {} ELSE @ \cup w.points]
    /\ late' = late \ {w}
    /\ UNCHANGED <<rows, deleted, queue, pc, local, sweep, env, request, history>>

SearchNext ==
    /\ \/ \E r \in Searchers : SearchStep(r)
       \/ IngestionStep
       \/ \E w \in late : ApplyLate(w)
    /\ UNCHANGED tardy

SearchSpec == SearchInit /\ [][SearchNext]_searchVars

-----------------------------------------------------------------------------
(* Properties.                                                             *)

\* `ready` means findable (ADR-0013, ADR-0014): a search finds every similar
\* chunk of a document of its owner that was ready all the while, embedded by
\* the API's model, unless the index had cut it off at the limit.
\* An outage is never passed off as an empty answer.  This needs an index that
\* has done with a write when its caller gives up on it.
Findable ==
    ~tardy => \A r \in Searchers : phase[r] = "answered" =>
        \A d \in steady[r] : \A p \in chunkRows[d] :
            /\ OwnerOf[d] = query[r].by
            /\ d \in query[r].docs
            /\ embedded[d] \in ApiVersions
            /\ <<d, p>> \in query[r].near
            => \/ <<d, p>> \in DOMAIN answer[r]
               \/ Len(cand[r]) = TopK /\ <<d, p>> \notin Found(cand[r])

\* Vectors outlive documents, answers do not: a document deleted or failed
\* before the search was asked is in none of its results.
NothingGone ==
    \A r \in Searchers : \A c \in DOMAIN answer[r] : c[1] \notin gone[r]

\* Results are of one vector space: every chunk returned is one that a version
\* with the API's own model made and embedded, also while documents are re-chunked
\* under the search, by other strategies or for other models.
OneVectorSpace ==
    \A r \in Searchers : \A c \in DOMAIN answer[r] :
        \E v \in ApiVersions : c[2] \in ChunksOf[v]

\* A result is a chunk of the caller's own document, and the adapter's loud
\* refusal of a foreign point never has to fire: the filter keeps them out.
Isolated ==
    \A r \in Searchers : \A id \in Found(cand[r]) \cup DOMAIN answer[r] :
        OwnerOf[id[1]] = query[r].by

=============================================================================
