---------------------------- MODULE UploadProofs ----------------------------
(***************************************************************************)
(* Proofs about Upload, for any number of concurrent requests and keys.    *)
(* The properties name the hazards they exclude.                           *)
(***************************************************************************)
EXTENDS Upload, TLAPS

USE RequestsAssumption

-----------------------------------------------------------------------------
\* Every step of an upload or a delete keeps the variables in their types.
LEMMA TypeStep == TypeOK /\ [Next]_vars => TypeOK'
<1> SUFFICES ASSUME TypeOK, [Next]_vars PROVE TypeOK'
  OBVIOUS
<1> USE DEF TypeOK, Steps, Answers, Goto, Answer
<1>h. hazards' = hazards
  BY DEF Next, vars
<1>1. ASSUME NEW r \in Requests,
             Validate(r) \/ Check(r) \/ Put(r) \/ Insert(r) \/ Winner(r)
      PROVE  TypeOK'
  BY <1>1, <1>h DEF Validate, Check, Put, Insert, Winner
<1>2. ASSUME NEW r \in Requests, Discard(r) \/ Enqueue(r) \/ Undo(r) \/ Die(r)
      PROVE  TypeOK'
  BY <1>2, <1>h DEF Discard, Enqueue, Undo, Die, SoftDelete
<1>3. ASSUME NEW d \in Requests, DeleteDocument(d) PROVE TypeOK'
  BY <1>3, <1>h DEF DeleteDocument, SoftDelete
<1>4. CASE UNCHANGED vars
  BY <1>4 DEF vars
<1>. QED
  BY <1>1, <1>2, <1>3, <1>4 DEF Next

\* The variables of Upload are well typed whatever goes wrong.
THEOREM UploadTypeCorrect == Spec => []TypeOK
<1>1. Init => TypeOK
  BY DEF Init, TypeOK, Steps, Answers
<1>. QED
  BY <1>1, TypeStep, PTL DEF Spec

-----------------------------------------------------------------------------
\* A step leaves every row recorded, and never un-deletes one.
LEMMA RowsStay ==
    ASSUME TypeOK, [Next]_vars, NEW k, Recorded(k)
    PROVE  Recorded(k)'
<1>1. ASSUME NEW d \in Requests, row[d] # "none" PROVE row'[d] # "none"
  <2>1. ASSUME NEW r \in Requests,
               Validate(r) \/ Check(r) \/ Put(r) \/ Insert(r) \/ Winner(r)
        PROVE  row'[d] # "none"
    BY <1>1, <2>1 DEF TypeOK, Validate, Check, Put, Insert, Winner
  <2>2. ASSUME NEW r \in Requests, Discard(r) \/ Enqueue(r) \/ Undo(r) \/ Die(r)
        PROVE  row'[d] # "none"
    BY <1>1, <2>2 DEF TypeOK, Discard, Enqueue, Undo, Die, SoftDelete
  <2>3. ASSUME NEW e \in Requests, DeleteDocument(e) PROVE row'[d] # "none"
    BY <1>1, <2>3 DEF TypeOK, DeleteDocument, SoftDelete
  <2>4. CASE UNCHANGED vars
    BY <1>1, <2>4 DEF vars
  <2>. QED
    BY <2>1, <2>2, <2>3, <2>4 DEF Next
<1>. QED
  BY <1>1 DEF Recorded

\* What an upload took stays taken: a finished request moves no more.
LEMMA TakenStays ==
    ASSUME TypeOK, [Next]_vars, NEW k, Taken(k)
    PROVE  Taken(k)'
<1>1. PICK c \in creators \ left : KeyOf[c] = k /\ pc[c] = "done" /\ answer[c] \in {"failed", "unqueued"}
  BY DEF Taken
<1>2. c \in Requests
  BY DEF TypeOK
<1>3. c \in creators' \ left' /\ pc'[c] = pc[c] /\ answer'[c] = answer[c]
  <2> USE DEF TypeOK, Goto, Answer
  <2>1. ASSUME NEW r \in Requests,
               Validate(r) \/ Check(r) \/ Put(r) \/ Insert(r) \/ Winner(r)
        PROVE  <1>3!:
    BY <1>1, <1>2, <2>1 DEF Validate, Check, Put, Insert, Winner
  <2>2. ASSUME NEW r \in Requests, Discard(r) \/ Enqueue(r) \/ Undo(r) \/ Die(r)
        PROVE  <1>3!:
    BY <1>1, <1>2, <2>2 DEF Discard, Enqueue, Undo, Die
  <2>3. ASSUME NEW d \in Requests, DeleteDocument(d) PROVE <1>3!:
    BY <1>1, <1>2, <2>3 DEF DeleteDocument
  <2>4. CASE UNCHANGED vars
    BY <1>1, <1>2, <2>4 DEF vars
  <2>. QED
    BY <2>1, <2>2, <2>3, <2>4 DEF Next
<1>. QED
  BY <1>1, <1>3 DEF Taken

-----------------------------------------------------------------------------
\* An upload that fails is over before its row is live, unless it is a lost
\* answer or a death that ends it.
LEMMA RowProgressStep ==
    ASSUME TypeOK, RowProgress, Answered, [Next]_vars
    PROVE  RowProgress'
<1> USE DEF TypeOK, RowProgress, Goto, Answer, Answered
<1>1. ASSUME NEW r \in Requests, Validate(r) \/ Check(r) \/ Put(r) \/ Winner(r) \/ Discard(r)
      PROVE  RowProgress'
  BY <1>1 DEF Validate, Check, Put, Winner, Discard
<1>2. ASSUME NEW r \in Requests, Insert(r) PROVE RowProgress'
  BY <1>2 DEF Insert
<1>3. ASSUME NEW r \in Requests, Enqueue(r) PROVE RowProgress'
  BY <1>3 DEF Enqueue
<1>4. ASSUME NEW r \in Requests, Undo(r) \/ Die(r) PROVE RowProgress'
  BY <1>4 DEF Undo, Die, SoftDelete
<1>5. ASSUME NEW d \in Requests, DeleteDocument(d) PROVE RowProgress'
  BY <1>5 DEF DeleteDocument, SoftDelete
<1>6. CASE UNCHANGED vars
  BY <1>6 DEF vars
<1>. QED
  BY <1>1, <1>2, <1>3, <1>4, <1>5, <1>6 DEF Next

\* Nobody discards or undoes before its failure is decided.
LEMMA DiscardDecidedStep ==
    ASSUME TypeOK, DiscardDecided, [Next]_vars
    PROVE  DiscardDecided'
<1> USE DEF TypeOK, DiscardDecided, Goto, Answer
<1>1. ASSUME NEW r \in Requests,
             Validate(r) \/ Check(r) \/ Put(r) \/ Insert(r) \/ Winner(r)
      PROVE  DiscardDecided'
  BY <1>1 DEF Validate, Check, Put, Insert, Winner
<1>2. ASSUME NEW r \in Requests, Discard(r) \/ Enqueue(r) \/ Undo(r) \/ Die(r)
      PROVE  DiscardDecided'
  BY <1>2 DEF Discard, Enqueue, Undo, Die
<1>3. ASSUME NEW d \in Requests, DeleteDocument(d) PROVE DiscardDecided'
  BY <1>3 DEF DeleteDocument
<1>4. CASE UNCHANGED vars
  BY <1>4 DEF vars
<1>. QED
  BY <1>1, <1>2, <1>3, <1>4 DEF Next

\* A request becomes a creator by its put.
LEMMA CreatedByPutStep ==
    ASSUME TypeOK, CreatedByPut, [Next]_vars
    PROVE  CreatedByPut'
<1> USE DEF TypeOK, CreatedByPut, Goto, Answer
<1>1. ASSUME NEW r \in Requests,
             Validate(r) \/ Check(r) \/ Put(r) \/ Insert(r) \/ Winner(r)
      PROVE  CreatedByPut'
  BY <1>1 DEF Validate, Check, Put, Insert, Winner
<1>2. ASSUME NEW r \in Requests, Discard(r) \/ Enqueue(r) \/ Undo(r) \/ Die(r)
      PROVE  CreatedByPut'
  BY <1>2 DEF Discard, Enqueue, Undo, Die
<1>3. ASSUME NEW d \in Requests, DeleteDocument(d) PROVE CreatedByPut'
  BY <1>3 DEF DeleteDocument
<1>4. CASE UNCHANGED vars
  BY <1>4 DEF vars
<1>. QED
  BY <1>1, <1>2, <1>3, <1>4 DEF Next

\* A step that makes nobody a keeper, and removes no file, leaves the keepers so.
LEMMA KeepersStay ==
    ASSUME OneKeeper, blobs \subseteq blobs',
           \A c \in Requests : Keeper(c)' => Keeper(c)
    PROVE  OneKeeper'
BY DEF OneKeeper

\* While commits are answered, a file is kept by one request at a time: its put
\* makes it a keeper only where no file was, and only a keeper discards.
LEMMA KeeperStep ==
    ASSUME TypeOK, RowProgress, OneKeeper, CreatedByPut, Answered, [Next]_vars
    PROVE  OneKeeper'
<1> USE DEF TypeOK, Goto, Answer, Answered
<1>1. ASSUME NEW r \in Requests, Validate(r) \/ Check(r) PROVE OneKeeper'
  <2>1. \A c \in Requests : Keeper(c)' => Keeper(c)
    BY <1>1 DEF Validate, Check, Keeper, CreatedByPut
  <2>. QED
    BY <1>1, <2>1, KeepersStay DEF Validate, Check
<1>2. ASSUME NEW r \in Requests, Put(r) PROVE OneKeeper'
  <2>1. r \notin creators
    BY <1>2 DEF Put, CreatedByPut
  <2>2. \A c \in Requests : Keeper(c)' => Keeper(c) \/ (c = r /\ KeyOf[r] \notin blobs)
    BY <1>2, <2>1 DEF Put, Keeper
  <2>3. blobs \subseteq blobs'
    BY <1>2 DEF Put
  <2>4. Keeper(r)' => KeyOf[r] \in blobs'
    BY <1>2, <2>1 DEF Put, Keeper
  <2>. QED
    BY <2>2, <2>3, <2>4 DEF OneKeeper
<1>3. ASSUME NEW r \in Requests, Insert(r) \/ Winner(r) \/ Enqueue(r) \/ Undo(r)
      PROVE  OneKeeper'
  <2>1. \A c \in Requests : Keeper(c)' => Keeper(c)
    BY <1>3 DEF Insert, Winner, Enqueue, Undo, SoftDelete, Keeper
  <2>. QED
    BY <1>3, <2>1, KeepersStay DEF Insert, Winner, Enqueue, Undo
<1>4. ASSUME NEW r \in Requests, Discard(r) PROVE OneKeeper'
  <2>1. ~Keeper(r)'
    BY <1>4 DEF Discard, Keeper, RowProgress
  <2>2. \A c \in Requests : Keeper(c)' => Keeper(c) /\ c # r
    BY <1>4, <2>1 DEF Discard, Keeper
  <2>3. r \in creators => Keeper(r)
    BY <1>4 DEF Discard, Keeper
  <2>4. blobs' = blobs \/ (r \in creators /\ blobs' = blobs \ {KeyOf[r]})
    BY <1>4 DEF Discard
  <2>. QED
    BY <2>2, <2>3, <2>4 DEF OneKeeper
<1>5. ASSUME NEW r \in Requests, Die(r) PROVE OneKeeper'
  BY <1>5 DEF Die
<1>6. ASSUME NEW d \in Requests, DeleteDocument(d) PROVE OneKeeper'
  <2>1. \A c \in Requests : Keeper(c)' => Keeper(c)
    BY <1>6 DEF DeleteDocument, SoftDelete, Keeper
  <2>. QED
    BY <1>6, <2>1, KeepersStay DEF DeleteDocument
<1>7. CASE UNCHANGED vars
  BY <1>7 DEF vars, OneKeeper, Keeper
<1>. QED
  BY <1>1, <1>2, <1>3, <1>4, <1>5, <1>6, <1>7 DEF Next

\* A live row of the key is a recorded one.
LEMMA LiveIsRecorded == ASSUME NEW k, LiveRow(k) PROVE Recorded(k)
BY DEF LiveRow, Recorded

\* Who is sent away as a duplicate met a row that stays recorded.
LEMMA DuplicateStep ==
    ASSUME TypeOK, DuplicateRecorded, DiscardDecided, [Next]_vars
    PROVE  DuplicateRecorded'
<1> SUFFICES ASSUME NEW q \in Requests,
                    (pc[q] = "winner" \/ (pc[q] = "done" /\ answer[q] = "duplicate"))'
             PROVE  Recorded(KeyOf[q])'
  BY DEF DuplicateRecorded
<1> SUFFICES Recorded(KeyOf[q])
  BY RowsStay
<1> USE DEF TypeOK, DuplicateRecorded, Goto, Answer
<1>1. ASSUME NEW r \in Requests, Check(r) \/ Insert(r) \/ Winner(r) PROVE Recorded(KeyOf[q])
  BY <1>1, LiveIsRecorded DEF Check, Insert, Winner
<1>2. ASSUME NEW r \in Requests, Validate(r) \/ Put(r) PROVE Recorded(KeyOf[q])
  BY <1>2 DEF Validate, Put
<1>3. ASSUME NEW r \in Requests, Discard(r) PROVE Recorded(KeyOf[q])
  BY <1>3 DEF Discard, DiscardDecided
<1>4. ASSUME NEW r \in Requests, Enqueue(r) \/ Undo(r) \/ Die(r) PROVE Recorded(KeyOf[q])
  BY <1>4 DEF Enqueue, Undo, Die
<1>5. ASSUME NEW d \in Requests, DeleteDocument(d) PROVE Recorded(KeyOf[q])
  BY <1>5 DEF DeleteDocument
<1>6. CASE UNCHANGED vars
  BY <1>6 DEF vars
<1>. QED
  BY <1>1, <1>2, <1>3, <1>4, <1>5, <1>6 DEF Next

\* While nobody dies and files can be deleted, every stored file is accounted for.
LEMMA BlobStep ==
    ASSUME TypeOK, BlobAccounted, DuplicateRecorded, CleansUp, [Next]_vars
    PROVE  BlobAccounted'
<1> DEFINE Pending(k, c) == c \in creators /\ KeyOf[c] = k /\ pc[c] \in {"insert", "winner", "discard"}
<1> SUFFICES ASSUME NEW k \in blobs' PROVE Recorded(k)' \/ \E c \in Requests : Pending(k, c)'
  BY DEF BlobAccounted
<1>p. k \in blobs => Recorded(k) \/ \E c \in Requests : Pending(k, c)
  BY DEF BlobAccounted, TypeOK
<1>r. Recorded(k) => Recorded(k)'
  BY RowsStay
<1> USE DEF TypeOK, Goto, Answer, CleansUp
<1>1. ASSUME NEW r \in Requests, Validate(r) \/ Check(r) PROVE Recorded(k)' \/ \E c \in Requests : Pending(k, c)'
  BY <1>1, <1>p, <1>r DEF Validate, Check
<1>2. ASSUME NEW r \in Requests, Put(r) PROVE Recorded(k)' \/ \E c \in Requests : Pending(k, c)'
  BY <1>2, <1>p, <1>r DEF Put
<1>3. ASSUME NEW r \in Requests, Insert(r) PROVE Recorded(k)' \/ \E c \in Requests : Pending(k, c)'
  <2>1. k \in blobs
    BY <1>3 DEF Insert
  <2>2. row'[r] = "live" => Recorded(KeyOf[r])'
    BY DEF Recorded
  <2>3. pc'[r] \in {"winner", "discard"} \/ row'[r] = "live"
    BY <1>3 DEF Insert
  <2>. QED
    BY <1>3, <1>p, <1>r, <2>1, <2>2, <2>3 DEF Insert
<1>4. ASSUME NEW r \in Requests, Winner(r) PROVE Recorded(k)' \/ \E c \in Requests : Pending(k, c)'
  <2>1. Recorded(KeyOf[r])
    BY <1>4 DEF Winner, DuplicateRecorded
  <2>. QED
    BY <1>4, <1>p, <1>r, <2>1 DEF Winner
<1>5. ASSUME NEW r \in Requests, Discard(r) PROVE Recorded(k)' \/ \E c \in Requests : Pending(k, c)'
  BY <1>5, <1>p, <1>r DEF Discard
<1>6. ASSUME NEW r \in Requests, Enqueue(r) \/ Undo(r) \/ Die(r)
      PROVE  Recorded(k)' \/ \E c \in Requests : Pending(k, c)'
  BY <1>6, <1>p, <1>r DEF Enqueue, Undo, Die
<1>7. ASSUME NEW d \in Requests, DeleteDocument(d) PROVE Recorded(k)' \/ \E c \in Requests : Pending(k, c)'
  BY <1>7, <1>p, <1>r DEF DeleteDocument
<1>8. CASE UNCHANGED vars
  BY <1>8, <1>p, <1>r DEF vars
<1>. QED
  BY <1>1, <1>2, <1>3, <1>4, <1>5, <1>6, <1>7, <1>8 DEF Next

\* Whatever goes wrong, only a failed creator takes bytes a row or an insert needs.
LEMMA BytesStep ==
    ASSUME TypeOK, BytesOrTaken, DiscardDecided, [Next]_vars
    PROVE  BytesOrTaken'
<1> SUFFICES ASSUME NEW q \in Requests, (row[q] = "live" \/ pc[q] = "insert")'
             PROVE  KeyOf[q] \in blobs' \/ Taken(KeyOf[q])'
  BY DEF BytesOrTaken
<1>t. Taken(KeyOf[q]) => Taken(KeyOf[q])'
  BY TakenStays
<1>b. row[q] = "live" \/ pc[q] = "insert" => KeyOf[q] \in blobs \/ Taken(KeyOf[q])
  BY DEF BytesOrTaken
<1> USE DEF TypeOK, Goto, Answer
<1>1. ASSUME NEW r \in Requests, Validate(r) \/ Check(r) \/ Insert(r) \/ Winner(r)
      PROVE  KeyOf[q] \in blobs' \/ Taken(KeyOf[q])'
  BY <1>1, <1>t, <1>b DEF Validate, Check, Insert, Winner
<1>2. ASSUME NEW r \in Requests, Put(r) PROVE KeyOf[q] \in blobs' \/ Taken(KeyOf[q])'
  BY <1>2, <1>t, <1>b DEF Put
<1>3. ASSUME NEW r \in Requests, Discard(r) PROVE KeyOf[q] \in blobs' \/ Taken(KeyOf[q])'
  <2>1. blobs' = blobs \/ (r \in creators /\ blobs' = blobs \ {KeyOf[r]})
    BY <1>3 DEF Discard
  <2>2. row[q] = "live" \/ pc[q] = "insert"
    BY <1>3 DEF Discard
  <2>3. r \in creators => Taken(KeyOf[r])'
    BY <1>3 DEF Discard, Taken, DiscardDecided
  <2>. QED
    BY <1>t, <1>b, <2>1, <2>2, <2>3
<1>4. ASSUME NEW r \in Requests, Enqueue(r) \/ Undo(r) \/ Die(r)
      PROVE  KeyOf[q] \in blobs' \/ Taken(KeyOf[q])'
  BY <1>4, <1>t, <1>b DEF Enqueue, Undo, Die, SoftDelete
<1>5. ASSUME NEW d \in Requests, DeleteDocument(d) PROVE KeyOf[q] \in blobs' \/ Taken(KeyOf[q])'
  BY <1>5, <1>t, <1>b DEF DeleteDocument, SoftDelete
<1>6. CASE UNCHANGED vars
  BY <1>6, <1>t, <1>b DEF vars
<1>. QED
  BY <1>1, <1>2, <1>3, <1>4, <1>5, <1>6 DEF Next

-----------------------------------------------------------------------------
\* What may go wrong is fixed for a behaviour.
LEMMA HazardsStay == [Next]_vars => (Answered <=> Answered') /\ (CleansUp <=> CleansUp')
BY DEF Next, vars, Answered, CleansUp

\* Without lost answers and deaths, an upload answered with a failure leaves no
\* live row of its own unless its undo failed as well, and then the file it
\* created stays for the sweep, however requests, refusals and deletes interleave.
THEOREM FailedUploadsAreTakenBack == Spec => []FailedUploadIsTakenBack
<1> DEFINE J == (Answered => RowProgress /\ OneKeeper) /\ CreatedByPut /\ DiscardDecided
<1>1. Init => J
  BY DEF Init, RowProgress, OneKeeper, Keeper, CreatedByPut, DiscardDecided
<1>2. TypeOK /\ J /\ [Next]_vars => J'
  BY RowProgressStep, KeeperStep, CreatedByPutStep, DiscardDecidedStep, HazardsStay
<1>3. J => FailedUploadIsTakenBack
  BY DEF RowProgress, OneKeeper, Keeper, DiscardDecided, FailedUploadIsTakenBack
<1> HIDE DEF J
<1>. QED
  BY <1>1, <1>2, <1>3, UploadTypeCorrect, PTL DEF Spec

\* Likewise a finished upload's live document was handed to the queue; and under
\* every hazard a duplicate is answered with a recorded document.
THEOREM LiveRowsAreHandedOver == Spec => []LiveRowIsHandedOver
<1> DEFINE J == (Answered => RowProgress) /\ DuplicateRecorded /\ DiscardDecided
<1>1. Init => J
  BY DEF Init, RowProgress, DuplicateRecorded, DiscardDecided
<1>2. TypeOK /\ J /\ [Next]_vars => J'
  BY RowProgressStep, DuplicateStep, DiscardDecidedStep, HazardsStay
<1>3. J => LiveRowIsHandedOver
  BY DEF RowProgress, DuplicateRecorded, Recorded, LiveRowIsHandedOver
<1> HIDE DEF J
<1>. QED
  BY <1>1, <1>2, <1>3, UploadTypeCorrect, PTL DEF Spec

\* While nobody dies and files can be deleted, no file outlives the uploads of
\* its key without a row, lost answers of commits included.
THEOREM NoBlobIsOrphaned == Spec => []NoOrphanedBlob
<1> DEFINE J == (CleansUp => BlobAccounted) /\ DuplicateRecorded /\ DiscardDecided
<1>1. Init => J
  BY DEF Init, BlobAccounted, DuplicateRecorded, DiscardDecided
<1>2. TypeOK /\ J /\ [Next]_vars => J'
  BY BlobStep, DuplicateStep, DiscardDecidedStep, HazardsStay
<1>3. TypeOK /\ J => NoOrphanedBlob
  BY DEF TypeOK, BlobAccounted, Recorded, NoOrphanedBlob
<1> HIDE DEF J
<1>. QED
  BY <1>1, <1>2, <1>3, UploadTypeCorrect, PTL DEF Spec

\* Under every hazard, the bytes of a live document are only ever taken by a
\* failed upload of the same file that created them.
THEOREM OnlyCreatorsTakeBytes == Spec => []OnlyTheirCreatorTakesBytes
<1> DEFINE J == BytesOrTaken /\ DiscardDecided
<1>1. Init => J
  BY DEF Init, BytesOrTaken, DiscardDecided
<1>2. TypeOK /\ J /\ [Next]_vars => J'
  BY BytesStep, DiscardDecidedStep
<1>3. J => OnlyTheirCreatorTakesBytes
  BY DEF BytesOrTaken, Taken, OnlyTheirCreatorTakesBytes
<1> HIDE DEF J
<1>. QED
  BY <1>1, <1>2, <1>3, UploadTypeCorrect, PTL DEF Spec

=============================================================================
