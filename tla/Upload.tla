------------------------------- MODULE Upload -------------------------------
(***************************************************************************)
(* DocumentService.upload_and_process and delete_document over PostgreSQL, *)
(* LocalStorage and the ARQ queue: concurrent requests, each of which      *)
(* validates, looks for a duplicate, stores the bytes, commits the row and *)
(* enqueues its job in separate steps, and compensates when one fails.     *)
(*                                                                         *)
(* A key is an owner and a content hash: it names the stored file, and the *)
(* partial unique index allows one live row for it.  A document is named   *)
(* by the request that created it.                                         *)
(***************************************************************************)
CONSTANTS
    Requests,   \* upload requests
    Keys,       \* (owner, content hash) pairs
    KeyOf,      \* the key of each request's file
    Scenarios   \* the sets of things that may go wrong together

ASSUME RequestsAssumption ==
    /\ KeyOf \in [Requests -> Keys]
    /\ Scenarios \subseteq SUBSET {"db", "redis", "storage", "crash", "lostack"}

VARIABLES
    pc,        \* where each request is
    answer,    \* what the request answers, or will once it has cleaned up
    row,       \* each request's document row
    blobs,     \* keys with a stored file
    creators,  \* requests whose put created the file
    handed,    \* requests whose job reached the queue
    left,      \* requests whose undo failed: `unqueued_document_left` is logged
    hazards    \* what may go wrong in this behaviour

vars == <<pc, answer, row, blobs, creators, handed, left, hazards>>

-----------------------------------------------------------------------------
Steps == {"validate", "check", "put", "insert", "winner", "discard", "enqueue",
          "undo", "done"}
Answers == {"none", "created", "duplicate", "rejected", "failed", "unqueued", "died"}

TypeOK ==
    /\ pc \in [Requests -> Steps]
    /\ answer \in [Requests -> Answers]
    /\ row \in [Requests -> {"none", "live", "deleted"}]
    /\ blobs \subseteq Keys
    /\ creators \subseteq Requests
    /\ handed \subseteq Requests
    /\ left \subseteq Requests
    /\ hazards \in Scenarios

Init ==
    /\ pc = [r \in Requests |-> "validate"]
    /\ answer = [r \in Requests |-> "none"]
    /\ row = [r \in Requests |-> "none"]
    /\ blobs = {}
    /\ creators = {}
    /\ handed = {}
    /\ left = {}
    /\ hazards \in Scenarios

\* A live document with key k: what the lookup finds and the index refuses.
LiveRow(k) == \E r \in Requests : row[r] = "live" /\ KeyOf[r] = k

Goto(r, p) == pc' = [pc EXCEPT ![r] = p] /\ UNCHANGED answer

\* Go to step p with the answer already decided.
Answer(r, p, a) ==
    /\ pc' = [pc EXCEPT ![r] = p]
    /\ answer' = [answer EXCEPT ![r] = a]

-----------------------------------------------------------------------------
\* Filename, size, magic bytes, page cap: refused before anything is stored.
Validate(r) ==
    /\ pc[r] = "validate"
    /\ Goto(r, "check") \/ Answer(r, "done", "rejected")
    /\ UNCHANGED <<row, blobs, creators, handed, left>>

\* find_live_by_content_hash_for_user.
Check(r) ==
    /\ pc[r] = "check"
    /\ \/ LiveRow(KeyOf[r]) /\ Answer(r, "done", "duplicate")
       \/ ~LiveRow(KeyOf[r]) /\ Goto(r, "put")
       \/ "db" \in hazards /\ Answer(r, "done", "failed")
    /\ UNCHANGED <<row, blobs, creators, handed, left>>

\* LocalStorage._put_sync: os.link creates the file or finds it there.  When the
\* directory's fsync fails after the link, the file stays and put raises.
Put(r) ==
    /\ pc[r] = "put"
    /\ \/ /\ blobs' = blobs \cup {KeyOf[r]}
          /\ creators' = IF KeyOf[r] \in blobs THEN creators ELSE creators \cup {r}
          /\ Goto(r, "insert")
       \/ /\ "storage" \in hazards
          /\ blobs' = blobs \/ blobs' = blobs \cup {KeyOf[r]}
          /\ Answer(r, "done", "failed")
          /\ UNCHANGED creators
    /\ UNCHANGED <<row, handed, left>>

\* Insert the pending row and commit; the unique index refuses a second live one.
Insert(r) ==
    LET Inserted == ~LiveRow(KeyOf[r]) /\ row' = [row EXCEPT ![r] = "live"]
    IN  /\ pc[r] = "insert"
        /\ \/ Inserted /\ Goto(r, "enqueue")
           \/ LiveRow(KeyOf[r]) /\ Goto(r, "winner") /\ UNCHANGED row
           \/ "db" \in hazards /\ Answer(r, "discard", "failed") /\ UNCHANGED row
           \/ "lostack" \in hazards /\ Inserted /\ Answer(r, "discard", "failed")
        /\ UNCHANGED <<blobs, creators, handed, left>>

\* The insert lost to an identical upload: answer with its document, if it is
\* still there.  An error of this second lookup leaves the handler at once.
Winner(r) ==
    /\ pc[r] = "winner"
    /\ \/ LiveRow(KeyOf[r]) /\ Answer(r, "done", "duplicate")
       \/ ~LiveRow(KeyOf[r]) /\ Answer(r, "discard", "failed")
       \/ "db" \in hazards /\ Answer(r, "done", "failed")
    /\ UNCHANGED <<row, blobs, creators, handed, left>>

\* Mutant: a failed upload leaves its file where it is.
DiscardNothing(r) ==
    /\ pc[r] = "discard"
    /\ Goto(r, "done")
    /\ UNCHANGED <<row, blobs, creators, handed, left>>

\* Mutant: a failed upload removes the file even when it only found it there.
DiscardAnyway(r) ==
    /\ pc[r] = "discard"
    /\ blobs' = blobs \ {KeyOf[r]}
    /\ Goto(r, "done")
    /\ UNCHANGED <<row, creators, handed, left>>

\* _discard: remove the file, but only one this request created.
Discard(r) ==
    /\ pc[r] = "discard"
    /\ \/ blobs' = IF r \in creators THEN blobs \ {KeyOf[r]} ELSE blobs
       \/ "storage" \in hazards /\ UNCHANGED blobs
    /\ Goto(r, "done")
    /\ UNCHANGED <<row, creators, handed, left>>

\* Mutant: the refused enqueue is swallowed.
EnqueueAndForget(r) ==
    /\ pc[r] = "enqueue"
    /\ handed' = handed \cup {r} \/ UNCHANGED handed
    /\ Answer(r, "done", "created")
    /\ UNCHANGED <<row, blobs, creators, left>>

\* A refused enqueue may have reached Redis all the same.
Enqueue(r) ==
    /\ pc[r] = "enqueue"
    /\ \/ handed' = handed \cup {r} /\ Answer(r, "done", "created")
       \/ /\ "redis" \in hazards
          /\ handed' = handed \/ handed' = handed \cup {r}
          /\ Answer(r, "undo", "unqueued")
    /\ UNCHANGED <<row, blobs, creators, left>>

\* Mutant: the row is marked failed where it should be soft-deleted.
SoftDeleteAsFailed(d) == row' = [row EXCEPT ![d] = "failed"]

\* The soft delete both _undo_unqueued_upload and delete_document commit.
SoftDelete(d) == row' = IF row[d] = "live" THEN [row EXCEPT ![d] = "deleted"] ELSE row

\* Mutant: the undo removes the file and keeps the document.
UndoFileOnly(r) ==
    /\ pc[r] = "undo"
    /\ Goto(r, "discard")
    /\ UNCHANGED <<row, blobs, creators, handed, left>>

\* _undo_unqueued_upload: when its soft delete fails too, the document is left,
\* its file with it, and the caller still sees the queue's error.
Undo(r) ==
    /\ pc[r] = "undo"
    /\ \/ SoftDelete(r) /\ Goto(r, "discard") /\ UNCHANGED left
       \/ /\ \/ "db" \in hazards /\ UNCHANGED row
             \/ "lostack" \in hazards /\ SoftDelete(r)
          /\ Answer(r, "done", "unqueued")
          /\ left' = left \cup {r}
    /\ UNCHANGED <<blobs, creators, handed>>

\* The API process dies, or the client's disconnect cancels the request.
Die(r) ==
    /\ "crash" \in hazards
    /\ pc[r] # "done"
    /\ Answer(r, "done", "died")
    /\ UNCHANGED <<row, blobs, creators, handed, left>>

\* delete_document, by the owner, on a document an upload answered with.
DeleteDocument(d) ==
    /\ row[d] = "live"
    /\ SoftDelete(d)
    /\ UNCHANGED <<pc, answer, blobs, creators, handed, left>>

Next ==
    /\ \/ \E r \in Requests :
             \/ Validate(r) \/ Check(r) \/ Put(r) \/ Insert(r) \/ Winner(r)
             \/ Discard(r) \/ Enqueue(r) \/ Undo(r) \/ Die(r)
       \/ \E d \in Requests : DeleteDocument(d)
    /\ UNCHANGED hazards

Spec == Init /\ [][Next]_vars

-----------------------------------------------------------------------------
(* Properties.                                                             *)

\* A live document's bytes are stored: the file goes in before the row commits,
\* and clean-up takes "at worst an orphaned file" (upload_and_process), whatever
\* identical uploads run beside it.
LiveRowHasBlob == \A r \in Requests : row[r] = "live" => KeyOf[r] \in blobs

\* No commit's answer is lost and no request dies.
Answered == "lostack" \notin hazards /\ "crash" \notin hazards

\* Files can be written and deleted, and no request dies.
CleansUp == "storage" \notin hazards /\ "crash" \notin hazards

\* "No document exists for it" (UploadPersistenceFailed), "the upload has been
\* undone" (IngestionUnavailable).  While commits are answered, an upload answered
\* with a failure leaves a live row in one case only: its enqueue was refused and
\* its undo failed as well.  It then keeps the file it created, so the recovery
\* sweep has a document it can ingest.
FailedUploadIsTakenBack ==
    Answered => \A r \in Requests :
        pc[r] = "done" /\ answer[r] \in {"failed", "unqueued"} /\ row[r] = "live" =>
            /\ r \in left /\ answer[r] = "unqueued"
            /\ r \in creators => KeyOf[r] \in blobs

\* While processes do not die and files can be deleted, no file is left behind
\* once the uploads of its key are over: some row, live or deleted, refers to it,
\* whichever of the concurrent requests created it and whichever failed.
NoOrphanedBlob ==
    CleansUp => \A k \in blobs :
        (\A r \in Requests : KeyOf[r] = k => pc[r] \in {"validate", "check", "done"})
            => \E r \in Requests : KeyOf[r] = k /\ row[r] # "none"

\* A finished upload's live document had its job queued, unless the undo itself
\* failed, a commit's answer was lost or the request died; one that is answered
\* as a duplicate names a document that was recorded.
LiveRowIsHandedOver ==
    \A r \in Requests : pc[r] = "done" =>
        /\ Answered /\ row[r] = "live" /\ r \notin left => r \in handed
        /\ answer[r] = "duplicate" =>
              \E d \in Requests : KeyOf[d] = KeyOf[r] /\ row[d] # "none"

\* Whatever fails, the bytes of a live document are only ever taken by a failed
\* upload of the same file that itself created them and undid its own row: a
\* request that found the file there never removes it (_discard's `created_blob`).
OnlyTheirCreatorTakesBytes ==
    \A r \in Requests : row[r] = "live" /\ KeyOf[r] \notin blobs =>
        \E c \in creators \ left : /\ KeyOf[c] = KeyOf[r]
                                   /\ pc[c] = "done"
                                   /\ answer[c] \in {"failed", "unqueued"}

-----------------------------------------------------------------------------
(* The inductive strengthening of the properties.                          *)

\* Some document with key k was recorded, live or deleted: rows never go away.
Recorded(k) == \E d \in Requests : KeyOf[d] = k /\ row[d] # "none"

\* An upload that failed took the bytes of key k, which it had created.
Taken(k) == \E c \in creators \ left : /\ KeyOf[c] = k
                                       /\ pc[c] = "done"
                                       /\ answer[c] \in {"failed", "unqueued"}

\* Where a live row's own upload can be, unless a commit's answer was lost or
\* its process died.
RowProgress ==
    \A r \in Requests : row[r] = "live" =>
        \/ pc[r] \in {"enqueue", "undo"}
        \/ pc[r] = "done" /\ answer[r] = "created" /\ r \in handed
        \/ pc[r] = "done" /\ r \in left

\* An upload that met another one's live row is right that it was recorded.
DuplicateRecorded ==
    \A r \in Requests :
        pc[r] = "winner" \/ (pc[r] = "done" /\ answer[r] = "duplicate") => Recorded(KeyOf[r])

\* A stored file has a row, or its creator will insert one or discard it.
BlobAccounted ==
    \A k \in blobs : Recorded(k) \/ \E c \in creators :
        KeyOf[c] = k /\ pc[c] \in {"insert", "winner", "discard"}

\* Bytes an upload counts on, or a live row needs, are there or were taken.
BytesOrTaken ==
    \A r \in Requests : row[r] = "live" \/ pc[r] = "insert" =>
        KeyOf[r] \in blobs \/ Taken(KeyOf[r])

\* Only an upload whose failure is decided discards, or undoes its row; the undo
\* that leaves a document ends the request.
DiscardDecided ==
    \A r \in Requests : /\ pc[r] = "discard" => answer[r] \in {"failed", "unqueued"}
                        /\ pc[r] = "undo" => answer[r] = "unqueued"
                        /\ r \in left => pc[r] = "done" /\ answer[r] = "unqueued"

\* An upload counts as the creator of a file only once it has put it.
CreatedByPut ==
    \A r \in creators : pc[r] \notin {"validate", "check", "put"}

\* A request that holds the file it created: it is not through with it, or a live
\* row of its own refers to it.
Keeper(c) ==
    /\ c \in creators
    /\ \/ pc[c] \in {"insert", "winner", "discard", "enqueue", "undo"}
       \/ pc[c] = "done" /\ row[c] = "live"

\* A kept file is there, and one request keeps it.
OneKeeper ==
    \A c \in Requests : Keeper(c) =>
        /\ KeyOf[c] \in blobs
        /\ \A d \in Requests : Keeper(d) /\ KeyOf[d] = KeyOf[c] => d = c

=============================================================================
