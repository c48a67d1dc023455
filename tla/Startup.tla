------------------------------ MODULE Startup ------------------------------
(***************************************************************************)
(* How workers and API processes come up over one Qdrant collection.       *)
(*                                                                         *)
(* A worker loads its embedding model, refuses one that cannot read its    *)
(* chunks, and ensures the collection: each call to Qdrant is an action,   *)
(* and several workers start at once.  An API process loads the model and  *)
(* asks Qdrant nothing.  A startup that raises ends the process; its       *)
(* supervisor starts it again (external).                                  *)
(***************************************************************************)
EXTENDS Naturals, Sequences

CONSTANTS
    Workers, Apis,     \* the processes of each kind
    Models,            \* embedding models the configuration may name
    Widths,            \* the widths a session of each model may produce
    Declared,          \* the width its catalogue declares, 0 if it lists none
    InputLimit,        \* the tokens it reads, 0 if it declares no limit
    ChunkSize,         \* CHUNK_SIZE_TOKENS
    SpecialTokens,     \* SPECIAL_TOKENS_PER_SEQUENCE
    MaxDeploys,        \* bound: changes of a process's configured model
    MaxCrashes,        \* bound: process deaths
    NoCollection       \* Qdrant holds no collection yet

Processes == Workers \cup Apis
Fields == <<"user_id", "document_id">>
IndexedFields == {"user_id", "document_id"}

ASSUME StartupAssumption ==
    /\ Workers \cap Apis = {}
    /\ Widths \in [Models -> SUBSET Nat] /\ \A m \in Models : Widths[m] # {}
    /\ Declared \in [Models -> Nat] /\ InputLimit \in [Models -> Nat]
    /\ ChunkSize \in Nat /\ SpecialTokens \in Nat
    /\ MaxDeploys \in Nat /\ MaxCrashes \in Nat
    /\ NoCollection \notin [width : Nat, by : Models]

VARIABLES
    pc,          \* the next call of each process
    model,       \* EMBEDDING_MODEL of each process
    width,       \* the dimension its session measured
    field,       \* the payload field it indexes next
    collection,  \* the collection: its width and the model it was built for
    indexed,     \* its payload indexes
    vectors,     \* its points: the width of each, and the model that made it
    qdrant,      \* "flaky": a call may fail; "steady": none does any more
    deploys, crashes

vars == <<pc, model, width, field, collection, indexed, vectors, qdrant, deploys, crashes>>
bounds == <<deploys, crashes>>

Collection == [width : Nat, by : Models]

TypeOK ==
    /\ pc \in [Processes -> {"down", "exists", "describe", "create", "index", "running"}]
    /\ model \in [Processes -> Models]
    /\ width \in [Processes -> Nat]
    /\ field \in [Processes -> 1..Len(Fields)]
    /\ collection \in Collection \cup {NoCollection}
    /\ indexed \subseteq IndexedFields
    /\ vectors \subseteq Collection
    /\ qdrant \in {"flaky", "steady"}
    /\ deploys \in 0..MaxDeploys /\ crashes \in 0..MaxCrashes

Init ==
    /\ pc = [p \in Processes |-> "down"]
    /\ model \in [Processes -> Models]
    /\ width = [p \in Processes |-> 0]
    /\ field = [p \in Processes |-> 1]
    /\ collection = NoCollection /\ indexed = {} /\ vectors = {}
    /\ qdrant = "flaky" /\ deploys = 0 /\ crashes = 0

-----------------------------------------------------------------------------
(* Loading the model.                                                      *)

\* What the provider's constructor insists on, for a session of width v.
Established(m, v) ==
    /\ InputLimit[m] > 0
    /\ Declared[m] # 0 => Declared[m] = v

\* refuse_chunks_the_model_cannot_read lets the configuration pass.
ReadsWhole(m) == ChunkSize + SpecialTokens <= InputLimit[m]

\* A process goes on to l; one that is down keeps nothing it measured.
Goto(p, l) ==
    /\ pc' = [pc EXCEPT ![p] = l]
    /\ width' = IF l = "down" THEN [width EXCEPT ![p] = 0] ELSE width

\* A process that is down measures the width of its session and goes on to l,
\* unless that width is not an accepted one.
Started(p, l, accepted) ==
    /\ pc[p] = "down"
    /\ \E v \in Widths[model[p]] :
        IF v \in accepted
        THEN /\ pc' = [pc EXCEPT ![p] = l]
             /\ width' = [width EXCEPT ![p] = v]
        ELSE UNCHANGED <<pc, width>>

\* startup() up to its first call of Qdrant; refused, the process stays down.
Load(w) ==
    /\ Started(w, "exists",
               {v \in Widths[model[w]] : Established(model[w], v) /\ ReadsWhole(model[w])})
    /\ field' = [field EXCEPT ![w] = 1]
    /\ UNCHANGED <<model, collection, indexed, vectors, qdrant, bounds>>

\* Mutant: the API asks Qdrant for the collection before it serves.
BootProbing(a) ==
    /\ qdrant = "steady"
    /\ Started(a, "running", {v \in Widths[model[a]] : Established(model[a], v)})
    /\ UNCHANGED <<model, field, collection, indexed, vectors, qdrant, bounds>>

\* build_retrieval_resources: no call of Qdrant.
Boot(a) ==
    /\ Started(a, "running", {v \in Widths[model[a]] : Established(model[a], v)})
    /\ UNCHANGED <<model, field, collection, indexed, vectors, qdrant, bounds>>

-----------------------------------------------------------------------------
(* ensure_collection.                                                      *)

\* Mutant: the collection is created without asking whether it exists.
ExistsUnasked(w) ==
    /\ pc[w] = "exists"
    /\ Goto(w, IF width[w] = 0 THEN "down" ELSE "create")
    /\ UNCHANGED <<model, field, collection, indexed, vectors, qdrant, bounds>>

Exists(w) ==
    /\ pc[w] = "exists"
    /\ Goto(w, IF width[w] = 0 THEN "down"
               ELSE IF collection # NoCollection THEN "describe" ELSE "create")
    /\ UNCHANGED <<model, field, collection, indexed, vectors, qdrant, bounds>>

\* A collection of another width ends the startup; one of this width is taken
\* as it is, its indexes included.
Describe(w) ==
    /\ pc[w] = "describe"
    /\ Goto(w, IF collection.width = width[w] THEN "running" ELSE "down")
    /\ UNCHANGED <<model, field, collection, indexed, vectors, qdrant, bounds>>

\* Mutant: a collection another worker has created meanwhile is not an error.
CreateTolerant(w) ==
    /\ pc[w] = "create"
    /\ collection' = IF collection = NoCollection
                     THEN [width |-> width[w], by |-> model[w]] ELSE collection
    /\ Goto(w, "index")
    /\ UNCHANGED <<model, field, indexed, vectors, qdrant, bounds>>

\* Qdrant refuses to create what another worker has created meanwhile.
Create(w) ==
    /\ pc[w] = "create"
    /\ IF collection = NoCollection
       THEN collection' = [width |-> width[w], by |-> model[w]] /\ Goto(w, "index")
       ELSE UNCHANGED collection /\ Goto(w, "down")
    /\ UNCHANGED <<model, field, indexed, vectors, qdrant, bounds>>

Index(w) ==
    /\ pc[w] = "index"
    /\ indexed' = indexed \cup {Fields[field[w]]}
    /\ IF field[w] = Len(Fields)
       THEN Goto(w, "running") /\ UNCHANGED field
       ELSE field' = [field EXCEPT ![w] = @ + 1] /\ UNCHANGED <<pc, width>>
    /\ UNCHANGED <<model, collection, vectors, qdrant, bounds>>

\* A call of Qdrant raises; a creation may have been applied all the same.
CallFails(w) ==
    /\ qdrant = "flaky"
    /\ pc[w] \in {"exists", "describe", "create", "index"}
    /\ Goto(w, "down")
    /\ \/ UNCHANGED <<collection, indexed>>
       \/ /\ pc[w] = "create" /\ collection = NoCollection
          /\ collection' = [width |-> width[w], by |-> model[w]]
          /\ UNCHANGED indexed
       \/ /\ pc[w] = "index"
          /\ indexed' = indexed \cup {Fields[field[w]]}
          /\ UNCHANGED collection
    /\ UNCHANGED <<model, field, vectors, qdrant, bounds>>

-----------------------------------------------------------------------------
(* A running worker, and what happens to processes.                        *)

\* A batch is embedded and upserted; a width other than the measured one raises.
Embed(w) ==
    /\ w \in Workers /\ pc[w] = "running"
    /\ \E v \in Widths[model[w]] :
        /\ v = width[w]
        /\ vectors' = vectors \cup {[width |-> v, by |-> model[w]]}
    /\ UNCHANGED <<pc, model, width, field, collection, indexed, qdrant, bounds>>

Crash(p) ==
    /\ pc[p] # "down" /\ crashes < MaxCrashes
    /\ crashes' = crashes + 1
    /\ Goto(p, "down")
    /\ UNCHANGED <<model, field, collection, indexed, vectors, qdrant, deploys>>

\* The process is stopped and started with another EMBEDDING_MODEL.
Deploy(p) ==
    /\ deploys < MaxDeploys
    /\ deploys' = deploys + 1
    /\ \E m \in Models : model' = [model EXCEPT ![p] = m]
    /\ Goto(p, "down")
    /\ UNCHANGED <<field, collection, indexed, vectors, qdrant, crashes>>

Steady ==
    /\ qdrant = "flaky" /\ qdrant' = "steady"
    /\ UNCHANGED <<pc, model, width, field, collection, indexed, vectors, bounds>>

Step(w) == Load(w) \/ Exists(w) \/ Describe(w) \/ Create(w) \/ Index(w)

Next ==
    \/ \E w \in Workers : Step(w) \/ CallFails(w) \/ Embed(w)
    \/ \E a \in Apis : Boot(a)
    \/ \E p \in Processes : Crash(p) \/ Deploy(p)
    \/ Steady

Spec == Init /\ [][Next]_vars

\* The supervisor restarts a process that is down, and a startup goes on.
FairSpec ==
    /\ Spec
    /\ \A w \in Workers : WF_vars(Step(w))
    /\ \A a \in Apis : WF_vars(Boot(a))

-----------------------------------------------------------------------------
(* Properties.                                                             *)

\* A collection holds vectors of one width, its own, whichever workers raced to
\* create it and whatever models they were given since (ensure_collection, and
\* the check of each batch in FastEmbedProvider._embed).
OneWidth == \A x \in vectors : collection # NoCollection /\ x.width = collection.width

\* The configured model loads in any session of it, and reads whole chunks.
Loadable(m) == (\A v \in Widths[m] : v > 0 /\ Established(m, v)) /\ ReadsWhole(m)

\* Once Qdrant answers, losing the race to create the collection, or dying in the
\* middle of a startup, keeps no worker down: it runs, or it has a model with a
\* width that the collection refuses.
WorkersComeUp ==
    \A w \in Workers :
        qdrant = "steady" ~>
            \/ pc[w] = "running"
            \/ ~Loadable(model[w])
            \/ collection # NoCollection /\ Widths[model[w]] # {collection.width}

\* The API comes up whether or not Qdrant ever answers.
ApiComesUp == \A a \in Apis : <>[](pc[a] = "running" \/ ~Loadable(model[a]))

=============================================================================
