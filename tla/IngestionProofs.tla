------------------------- MODULE IngestionProofs -------------------------
(***************************************************************************)
(* Proofs about Ingestion, for every set of documents, slots and versions  *)
(* and every retry budget, in three parts: its own invariants, that it     *)
(* implements DocumentLifecycle, and what searches beside it return, for   *)
(* any number of users and searches and with writes Qdrant applies late.   *)
(***************************************************************************)
EXTENDS Search, TLAPS

USE ConstantsAssumption DEF rows, queue, local

-----------------------------------------------------------------------------
(* Type correctness.                                                       *)

\* One step of any delivery, cron or API call keeps every variable in its type.
LEMMA TypeStep == TypeOK /\ [Next]_vars => TypeOK'
<1> SUFFICES ASSUME TypeOK, [Next]_vars PROVE TypeOK'
  OBVIOUS
<1> USE DEF TypeOK, Goto, Steps, ClaimSteps, GiveSteps, Statuses, Stages, Transient, Unclassified
<1>d. ASSUME NEW s \in Slots, Deliver(s) PROVE TypeOK'
  <2>1. CASE Target(s)
    BY <1>d, <2>1 DEF Deliver, Target, StartsAt
  <2>2. CASE Claim(s)
    BY <1>d, <2>2 DEF Deliver, Claim, EntryOf, StartsAt, Raised, Move
  <2>3. CASE Verify(s)
    BY <1>d, <2>3 DEF Deliver, Verify
  <2>4. CASE StoreParsed(s)
    BY <1>d, <2>4 DEF Deliver, StoreParsed, Move
  <2>5. CASE Pages(s)
    BY <1>d, <2>5 DEF Deliver, Pages, Chunking
  <2>6. CASE StoreChunks(s)
    BY <1>d, <2>6 DEF Deliver, StoreChunks, Move
  <2>7. CASE Provenance(s)
    BY <1>d, <2>7 DEF Deliver, Provenance
  <2>8. CASE RePages(s)
    BY <1>d, <2>8 DEF Deliver, RePages, Chunking
  <2>9. CASE ReDelete(s)
    BY <1>d, <2>9 DEF Deliver, ReDelete
  <2>10. CASE Replace(s)
    BY <1>d, <2>10 DEF Deliver, Replace
  <2>11. CASE Chunks(s)
    BY <1>d, <2>11 DEF Deliver, Chunks
  <2>12. CASE Upsert(s)
    BY <1>d, <2>12 DEF Deliver, Upsert
  <2>13. CASE StoreReady(s)
    BY <1>d, <2>13 DEF Deliver, StoreReady, Move
  <2>14. CASE Fail(s)
    BY <1>d, <2>14 DEF Deliver, Fail, Raised, Move
  <2>15. CASE Release(s)
    BY <1>d, <2>15 DEF Deliver, Release, GiveBack, Raised, Move, StartsAt
  <2>16. CASE Interrupted(s)
    BY <1>d, <2>16 DEF Deliver, Interrupted, GiveBack, Raised, Move, StartsAt
  <2>17. CASE GiveClaim(s)
    BY <1>d, <2>17 DEF Deliver, GiveClaim, Raised, Move, GiveFrom, GiveHit, GiveMiss
  <2>18. CASE GiveCheck(s)
    BY <1>d, <2>18 DEF Deliver, GiveCheck
  <2>19. CASE GiveFail(s)
    BY <1>d, <2>19 DEF Deliver, GiveFail, Raised, Move
  <2>20. CASE Finish(s)
    BY <1>d, <2>20 DEF Deliver, Finish, Leave
  <2>21. CASE Retry(s)
    BY <1>d, <2>21 DEF Deliver, Retry, Leave
  <2>. QED
    BY <1>d, <2>1, <2>2, <2>3, <2>4, <2>5, <2>6, <2>7, <2>8, <2>9, <2>10, <2>11, <2>12, <2>13, <2>14, <2>15, <2>16, <2>17, <2>18, <2>19, <2>20, <2>21 DEF Deliver, ParseSteps, ChunkSteps, EmbedSteps, EndSteps
<1>q. ASSUME NEW s \in Slots, Queue(s) PROVE TypeOK'
  <2>1. ASSUME NEW d \in Docs, Start(s, d) PROVE TypeOK'
    BY <1>q, <2>1 DEF Queue, Start
  <2>2. ASSUME NEW d \in Docs, Exhausted(s, d) PROVE TypeOK'
    BY <1>q, <2>2 DEF Queue, Exhausted
  <2>3. CASE Crash(s)
    BY <1>q, <2>3 DEF Queue, Crash, Leave
  <2>4. CASE Cancel(s)
    BY <1>q, <2>4 DEF Queue, Cancel
  <2>. QED
    BY <1>q, <2>1, <2>2, <2>3, <2>4 DEF Queue
<1>m. CASE Maintain
  <2>1. CASE Reap /\ UNCHANGED <<deleted, env>>
    BY <2>1 DEF Reap
  <2>2. CASE SweepRead /\ UNCHANGED <<deleted, env>>
    BY <2>2 DEF SweepRead
  <2>3. CASE SweepAbort /\ UNCHANGED <<deleted, env>>
    BY <2>3 DEF SweepAbort
  <2>4. ASSUME NEW d \in Docs, SweepEnqueue(d), UNCHANGED <<deleted, env>> PROVE TypeOK'
    BY <2>4 DEF SweepEnqueue
  <2>. QED
    BY <1>m, <2>1, <2>2, <2>3, <2>4 DEF Maintain
<1>a. ASSUME NEW d \in Docs, Api(d) PROVE TypeOK'
  BY <1>a DEF Api, Upload, Delete, Move
<1>c. CASE CalmDown /\ UNCHANGED deleted
  BY <1>c DEF CalmDown
<1>u. CASE UNCHANGED vars
  BY <1>u DEF vars
<1>. QED
  BY <1>d, <1>q, <1>m, <1>a, <1>c, <1>u DEF Next

\* Every reachable state is well typed.
THEOREM TypeCorrect == Spec => []TypeOK
<1>1. Init => TypeOK
  BY DEF Init, TypeOK, Statuses, Stages, Steps
<1>. QED
  BY <1>1, TypeStep, PTL DEF Spec

-----------------------------------------------------------------------------
(* Claims.                                                                 *)

\* A step keeps claims exclusive up to dead documents.
LEMMA ClaimStep == NotBoth /\ TypeOK /\ ClaimInv /\ [Next]_vars => ClaimInv'
<1> SUFFICES ASSUME NotBoth, TypeOK, ClaimInv, [Next]_vars PROVE ClaimInv'
  OBVIOUS
<1>n. ~("overlap" \in env.hazards /\ "lostack" \in env.hazards)
  BY DEF NotBoth, TypeOK
<1> USE <1>n
<1> USE DEF TypeOK, Goto, Steps, ClaimSteps, GiveSteps, Statuses, Stages, Transient, Unclassified,
        ClaimInv, OneWorker, WorkerHasClaim, OneDelivery, Holds, Dead, Ending, Faulty
<1>d. ASSUME NEW s \in Slots, Deliver(s) PROVE ClaimInv'
  <2>1. CASE Target(s)
    BY <1>d, <2>1 DEF Deliver, Target, StartsAt
  <2>2. CASE Claim(s)
    BY <1>d, <2>2 DEF Deliver, Claim, EntryOf, StartsAt, Raised, Move
  <2>3. CASE Verify(s)
    BY <1>d, <2>3 DEF Deliver, Verify
  <2>4. CASE StoreParsed(s)
    BY <1>d, <2>4 DEF Deliver, StoreParsed, Move
  <2>5. CASE Pages(s)
    BY <1>d, <2>5 DEF Deliver, Pages, Chunking
  <2>6. CASE StoreChunks(s)
    BY <1>d, <2>6 DEF Deliver, StoreChunks, Move
  <2>7. CASE Provenance(s)
    BY <1>d, <2>7 DEF Deliver, Provenance
  <2>8. CASE RePages(s)
    BY <1>d, <2>8 DEF Deliver, RePages, Chunking
  <2>9. CASE ReDelete(s)
    BY <1>d, <2>9 DEF Deliver, ReDelete
  <2>10. CASE Replace(s)
    BY <1>d, <2>10 DEF Deliver, Replace
  <2>11. CASE Chunks(s)
    BY <1>d, <2>11 DEF Deliver, Chunks
  <2>12. CASE Upsert(s)
    BY <1>d, <2>12 DEF Deliver, Upsert
  <2>13. CASE StoreReady(s)
    BY <1>d, <2>13 DEF Deliver, StoreReady, Move
  <2>14. CASE Fail(s)
    BY <1>d, <2>14 DEF Deliver, Fail, Raised, Move
  <2>15. CASE Release(s)
    BY <1>d, <2>15 DEF Deliver, Release, GiveBack, Raised, Move, StartsAt
  <2>16. CASE Interrupted(s)
    BY <1>d, <2>16 DEF Deliver, Interrupted, GiveBack, Raised, Move, StartsAt
  <2>17. CASE GiveClaim(s)
    BY <1>d, <2>17 DEF Deliver, GiveClaim, Raised, Move, GiveFrom, GiveHit, GiveMiss
  <2>18. CASE GiveCheck(s)
    BY <1>d, <2>18 DEF Deliver, GiveCheck
  <2>19. CASE GiveFail(s)
    BY <1>d, <2>19 DEF Deliver, GiveFail, Raised, Move
  <2>20. CASE Finish(s)
    BY <1>d, <2>20 DEF Deliver, Finish, Leave
  <2>21. CASE Retry(s)
    BY <1>d, <2>21 DEF Deliver, Retry, Leave
  <2>. QED
    BY <1>d, <2>1, <2>2, <2>3, <2>4, <2>5, <2>6, <2>7, <2>8, <2>9, <2>10, <2>11, <2>12, <2>13, <2>14, <2>15, <2>16, <2>17, <2>18, <2>19, <2>20, <2>21
       DEF Deliver, ParseSteps, ChunkSteps, EmbedSteps, EndSteps
<1>q. ASSUME NEW s \in Slots, Queue(s) PROVE ClaimInv'
  <2>1. ASSUME NEW d \in Docs, Start(s, d) PROVE ClaimInv'
    BY <1>q, <2>1 DEF Queue, Start, InProgress
  <2>2. ASSUME NEW d \in Docs, Exhausted(s, d) PROVE ClaimInv'
    BY <1>q, <2>2 DEF Queue, Exhausted
  <2>3. CASE Crash(s)
    BY <1>q, <2>3 DEF Queue, Crash, Leave
  <2>4. CASE Cancel(s)
    BY <1>q, <2>4 DEF Queue, Cancel
  <2>. QED
    BY <1>q, <2>1, <2>2, <2>3, <2>4 DEF Queue
<1>m. CASE Maintain
  <2>1. CASE Reap /\ UNCHANGED <<deleted, env>>
    BY <2>1 DEF Reap, Stale
  <2>2. CASE SweepRead /\ UNCHANGED <<deleted, env>>
    BY <2>2 DEF SweepRead
  <2>3. CASE SweepAbort /\ UNCHANGED <<deleted, env>>
    BY <2>3 DEF SweepAbort
  <2>4. ASSUME NEW d \in Docs, SweepEnqueue(d), UNCHANGED <<deleted, env>> PROVE ClaimInv'
    BY <2>4 DEF SweepEnqueue
  <2>. QED
    BY <1>m, <2>1, <2>2, <2>3, <2>4 DEF Maintain
<1>a. ASSUME NEW d \in Docs, Api(d) PROVE ClaimInv'
  BY <1>a DEF Api, Upload, Delete, Move
<1>c. CASE CalmDown /\ UNCHANGED deleted
  BY <1>c DEF CalmDown
<1>u. CASE UNCHANGED vars
  BY <1>u DEF vars
<1>. QED
  BY <1>d, <1>q, <1>m, <1>a, <1>c, <1>u DEF Next


-----------------------------------------------------------------------------
(* What is stored.                                                         *)

\* A step keeps what is stored in agreement with statuses and claims.
LEMMA EvidenceStep == NotBoth /\ TypeOK /\ ClaimInv /\ EvidenceInv /\ [Next]_vars => EvidenceInv'
<1> SUFFICES ASSUME NotBoth, TypeOK, ClaimInv, EvidenceInv, [Next]_vars PROVE EvidenceInv'
  OBVIOUS
<1>n. ~("overlap" \in env.hazards /\ "lostack" \in env.hazards)
  BY DEF NotBoth, TypeOK
<1> USE <1>n
<1> USE DEF TypeOK, Goto, Steps, ClaimSteps, GiveSteps, Statuses, Stages, Transient, Unclassified,
        ClaimInv, OneWorker, WorkerHasClaim, OneDelivery, Holds, Dead, Ending, Faulty,
        EvidenceInv, RowEvidence, ClaimEvidence
<1>d. ASSUME NEW s \in Slots, Deliver(s) PROVE EvidenceInv'
  <2>1. CASE Target(s)
    BY <1>d, <2>1 DEF Deliver, Target, StartsAt
  <2>2. CASE Claim(s)
    BY <1>d, <2>2 DEF Deliver, Claim, EntryOf, StartsAt, Raised, Move
  <2>3. CASE Verify(s)
    BY <1>d, <2>3 DEF Deliver, Verify
  <2>4. CASE StoreParsed(s)
    BY <1>d, <2>4 DEF Deliver, StoreParsed, Move
  <2>5. CASE Pages(s)
    BY <1>d, <2>5 DEF Deliver, Pages, Chunking
  <2>6. CASE StoreChunks(s)
    <3>1. RowEvidence'
      BY <1>d, <2>6, ChunksAssumption DEF Deliver, StoreChunks, Move
    <3>2. ClaimEvidence'
      BY <1>d, <2>6, ChunksAssumption DEF Deliver, StoreChunks, Move
    <3>. QED
      BY <3>1, <3>2
  <2>7. CASE Provenance(s)
    BY <1>d, <2>7 DEF Deliver, Provenance
  <2>8. CASE RePages(s)
    BY <1>d, <2>8 DEF Deliver, RePages, Chunking
  <2>9. CASE ReDelete(s)
    BY <1>d, <2>9 DEF Deliver, ReDelete
  <2>10. CASE Replace(s)
    BY <1>d, <2>10, ChunksAssumption DEF Deliver, Replace
  <2>11. CASE Chunks(s)
    BY <1>d, <2>11 DEF Deliver, Chunks
  <2>12. CASE Upsert(s)
    BY <1>d, <2>12 DEF Deliver, Upsert
  <2>13. CASE StoreReady(s)
    <3>1. RowEvidence'
      BY <1>d, <2>13 DEF Deliver, StoreReady, Move
    <3>2. ClaimEvidence'
      BY <1>d, <2>13 DEF Deliver, StoreReady, Move
    <3>. QED
      BY <3>1, <3>2
  <2>14. CASE Fail(s)
    BY <1>d, <2>14 DEF Deliver, Fail, Raised, Move
  <2>15. CASE Release(s)
    BY <1>d, <2>15 DEF Deliver, Release, GiveBack, Raised, Move, StartsAt
  <2>16. CASE Interrupted(s)
    BY <1>d, <2>16 DEF Deliver, Interrupted, GiveBack, Raised, Move, StartsAt
  <2>17. CASE GiveClaim(s)
    BY <1>d, <2>17 DEF Deliver, GiveClaim, Raised, Move, GiveFrom, GiveHit, GiveMiss
  <2>18. CASE GiveCheck(s)
    BY <1>d, <2>18 DEF Deliver, GiveCheck
  <2>19. CASE GiveFail(s)
    BY <1>d, <2>19 DEF Deliver, GiveFail, Raised, Move
  <2>20. CASE Finish(s)
    BY <1>d, <2>20 DEF Deliver, Finish, Leave
  <2>21. CASE Retry(s)
    BY <1>d, <2>21 DEF Deliver, Retry, Leave
  <2>. QED
    BY <1>d, <2>1, <2>2, <2>3, <2>4, <2>5, <2>6, <2>7, <2>8, <2>9, <2>10, <2>11, <2>12, <2>13, <2>14, <2>15, <2>16, <2>17, <2>18, <2>19, <2>20, <2>21
       DEF Deliver, ParseSteps, ChunkSteps, EmbedSteps, EndSteps
<1>q. ASSUME NEW s \in Slots, Queue(s) PROVE EvidenceInv'
  <2>1. ASSUME NEW d \in Docs, Start(s, d) PROVE EvidenceInv'
    BY <1>q, <2>1 DEF Queue, Start, InProgress
  <2>2. ASSUME NEW d \in Docs, Exhausted(s, d) PROVE EvidenceInv'
    BY <1>q, <2>2 DEF Queue, Exhausted
  <2>3. CASE Crash(s)
    BY <1>q, <2>3 DEF Queue, Crash, Leave
  <2>4. CASE Cancel(s)
    BY <1>q, <2>4 DEF Queue, Cancel
  <2>. QED
    BY <1>q, <2>1, <2>2, <2>3, <2>4 DEF Queue
<1>m. CASE Maintain
  <2>1. CASE Reap /\ UNCHANGED <<deleted, env>>
    BY <2>1 DEF Reap, Stale
  <2>2. CASE SweepRead /\ UNCHANGED <<deleted, env>>
    BY <2>2 DEF SweepRead
  <2>3. CASE SweepAbort /\ UNCHANGED <<deleted, env>>
    BY <2>3 DEF SweepAbort
  <2>4. ASSUME NEW d \in Docs, SweepEnqueue(d), UNCHANGED <<deleted, env>> PROVE EvidenceInv'
    BY <2>4 DEF SweepEnqueue
  <2>. QED
    BY <1>m, <2>1, <2>2, <2>3, <2>4 DEF Maintain
<1>a. ASSUME NEW d \in Docs, Api(d) PROVE EvidenceInv'
  BY <1>a DEF Api, Upload, Delete, Move
<1>c. CASE CalmDown /\ UNCHANGED deleted
  BY <1>c DEF CalmDown
<1>u. CASE UNCHANGED vars
  BY <1>u DEF vars
<1>. QED
  BY <1>d, <1>q, <1>m, <1>a, <1>c, <1>u DEF Next


-----------------------------------------------------------------------------
(* The vectors.                                                            *)

\* A step keeps the vectors in agreement with the chunk rows.
LEMMA VectorStep == NotBoth /\ TypeOK /\ ClaimInv /\ EvidenceInv /\ VectorInv /\ [Next]_vars => VectorInv'
<1> SUFFICES ASSUME NotBoth, TypeOK, ClaimInv, EvidenceInv, VectorInv, [Next]_vars PROVE VectorInv'
  OBVIOUS
<1>n. ~("overlap" \in env.hazards /\ "lostack" \in env.hazards)
  BY DEF NotBoth, TypeOK
<1> USE <1>n
<1> USE DEF TypeOK, Goto, Steps, ClaimSteps, GiveSteps, Statuses, Stages, Transient, Unclassified,
        ClaimInv, OneWorker, WorkerHasClaim, OneDelivery, Holds, Dead, Ending, Faulty,
        EvidenceInv, RowEvidence, ClaimEvidence, VectorInv, OneGeneration, ReadyMeansSearchable,
        GotCurrent, EmbedEvidence
<1>d. ASSUME NEW s \in Slots, Deliver(s) PROVE VectorInv'
  <2>1. CASE Target(s)
    BY <1>d, <2>1 DEF Deliver, Target, StartsAt
  <2>2. CASE Claim(s)
    BY <1>d, <2>2 DEF Deliver, Claim, EntryOf, StartsAt, Raised, Move
  <2>3. CASE Verify(s)
    BY <1>d, <2>3 DEF Deliver, Verify
  <2>4. CASE StoreParsed(s)
    BY <1>d, <2>4 DEF Deliver, StoreParsed, Move
  <2>5. CASE Pages(s)
    BY <1>d, <2>5 DEF Deliver, Pages, Chunking
  <2>6. CASE StoreChunks(s)
    BY <1>d, <2>6 DEF Deliver, StoreChunks, Move
  <2>7. CASE Provenance(s)
    BY <1>d, <2>7, ChunksAssumption DEF Deliver, Provenance, ProvenanceOf
  <2>8. CASE RePages(s)
    BY <1>d, <2>8 DEF Deliver, RePages, Chunking
  <2>9. CASE ReDelete(s)
    <3>1. OneGeneration'
      BY <1>d, <2>9 DEF Deliver, ReDelete
    <3>2. ReadyMeansSearchable'
      BY <1>d, <2>9 DEF Deliver, ReDelete
    <3>3. GotCurrent'
      BY <1>d, <2>9 DEF Deliver, ReDelete
    <3>4. EmbedEvidence'
      BY <1>d, <2>9 DEF Deliver, ReDelete
    <3>. QED
      BY <3>1, <3>2, <3>3, <3>4
  <2>10. CASE Replace(s)
    <3>1. OneGeneration'
      BY <1>d, <2>10 DEF Deliver, Replace
    <3>2. ReadyMeansSearchable'
      BY <1>d, <2>10 DEF Deliver, Replace
    <3>3. GotCurrent'
      BY <1>d, <2>10 DEF Deliver, Replace
    <3>4. EmbedEvidence'
      BY <1>d, <2>10 DEF Deliver, Replace
    <3>. QED
      BY <3>1, <3>2, <3>3, <3>4
  <2>11. CASE Chunks(s)
    BY <1>d, <2>11 DEF Deliver, Chunks
  <2>12. CASE Upsert(s)
    <3>1. OneGeneration'
      BY <1>d, <2>12 DEF Deliver, Upsert
    <3>2. ReadyMeansSearchable'
      BY <1>d, <2>12 DEF Deliver, Upsert
    <3>3. GotCurrent'
      BY <1>d, <2>12 DEF Deliver, Upsert
    <3>4. EmbedEvidence'
      BY <1>d, <2>12 DEF Deliver, Upsert
    <3>. QED
      BY <3>1, <3>2, <3>3, <3>4
  <2>13. CASE StoreReady(s)
    BY <1>d, <2>13 DEF Deliver, StoreReady, Move
  <2>14. CASE Fail(s)
    BY <1>d, <2>14 DEF Deliver, Fail, Raised, Move
  <2>15. CASE Release(s)
    BY <1>d, <2>15 DEF Deliver, Release, GiveBack, Raised, Move, StartsAt
  <2>16. CASE Interrupted(s)
    BY <1>d, <2>16 DEF Deliver, Interrupted, GiveBack, Raised, Move, StartsAt
  <2>17. CASE GiveClaim(s)
    BY <1>d, <2>17 DEF Deliver, GiveClaim, Raised, Move, GiveFrom, GiveHit, GiveMiss
  <2>18. CASE GiveCheck(s)
    BY <1>d, <2>18 DEF Deliver, GiveCheck
  <2>19. CASE GiveFail(s)
    BY <1>d, <2>19 DEF Deliver, GiveFail, Raised, Move
  <2>20. CASE Finish(s)
    BY <1>d, <2>20 DEF Deliver, Finish, Leave
  <2>21. CASE Retry(s)
    BY <1>d, <2>21 DEF Deliver, Retry, Leave
  <2>. QED
    BY <1>d, <2>1, <2>2, <2>3, <2>4, <2>5, <2>6, <2>7, <2>8, <2>9, <2>10, <2>11, <2>12, <2>13, <2>14, <2>15, <2>16, <2>17, <2>18, <2>19, <2>20, <2>21
       DEF Deliver, ParseSteps, ChunkSteps, EmbedSteps, EndSteps
<1>q. ASSUME NEW s \in Slots, Queue(s) PROVE VectorInv'
  <2>1. ASSUME NEW d \in Docs, Start(s, d) PROVE VectorInv'
    BY <1>q, <2>1 DEF Queue, Start, InProgress
  <2>2. ASSUME NEW d \in Docs, Exhausted(s, d) PROVE VectorInv'
    BY <1>q, <2>2 DEF Queue, Exhausted
  <2>3. CASE Crash(s)
    BY <1>q, <2>3 DEF Queue, Crash, Leave
  <2>4. CASE Cancel(s)
    BY <1>q, <2>4 DEF Queue, Cancel
  <2>. QED
    BY <1>q, <2>1, <2>2, <2>3, <2>4 DEF Queue
<1>m. CASE Maintain
  <2>1. CASE Reap /\ UNCHANGED <<deleted, env>>
    BY <2>1 DEF Reap, Stale
  <2>2. CASE SweepRead /\ UNCHANGED <<deleted, env>>
    BY <2>2 DEF SweepRead
  <2>3. CASE SweepAbort /\ UNCHANGED <<deleted, env>>
    BY <2>3 DEF SweepAbort
  <2>4. ASSUME NEW d \in Docs, SweepEnqueue(d), UNCHANGED <<deleted, env>> PROVE VectorInv'
    BY <2>4 DEF SweepEnqueue
  <2>. QED
    BY <1>m, <2>1, <2>2, <2>3, <2>4 DEF Maintain
<1>a. ASSUME NEW d \in Docs, Api(d) PROVE VectorInv'
  BY <1>a DEF Api, Upload, Delete, Move
<1>c. CASE CalmDown /\ UNCHANGED deleted
  BY <1>c DEF CalmDown
<1>u. CASE UNCHANGED vars
  BY <1>u DEF vars
<1>. QED
  BY <1>d, <1>q, <1>m, <1>a, <1>c, <1>u DEF Next


-----------------------------------------------------------------------------
(* The theorems.                                                           *)

\* The inductive invariant holds in every reachable state, however deliveries
\* overlap, crash, are cancelled, reaped, retried or given up, or, instead of
\* overlapping, have the answer of any commit lost.
THEOREM Invariance == NotBoth => (Spec => []Inv)
<1> SUFFICES ASSUME NotBoth PROVE Spec => []Inv
  OBVIOUS
<1>1. Init => Inv
  <2>1. Init => TypeOK
    BY DEF Init, TypeOK, Statuses, Stages, Steps
  <2>2. Init => ClaimInv
    BY DEF Init, ClaimInv, OneWorker, WorkerHasClaim, OneDelivery, ClaimSteps
  <2>3. Init => EvidenceInv
    BY DEF Init, EvidenceInv, RowEvidence, ClaimEvidence, ClaimSteps
  <2>4. Init => VectorInv
    BY DEF Init, VectorInv, OneGeneration, ReadyMeansSearchable, GotCurrent,
           EmbedEvidence, Holds
  <2>. QED
    BY <2>1, <2>2, <2>3, <2>4 DEF Inv
<1>2. Inv /\ [Next]_vars => Inv'
  BY TypeStep, ClaimStep, EvidenceStep, VectorStep DEF Inv
<1>. QED
  BY <1>1, <1>2, PTL DEF Spec

\* A live `processing` document is worked on by at most one delivery.
THEOREM ClaimsAreExclusive == NotBoth => (Spec => []ClaimExclusive)
<1>1. Inv => ClaimExclusive
  BY DEF Inv, TypeOK, ClaimInv, OneWorker, Dead, ClaimExclusive, Working, Holds
<1>. QED
  BY <1>1, Invariance, PTL

\* The status of a live, unclaimed document tells exactly what is stored for it.
THEOREM StatusTellsWhatIsStored == NotBoth => (Spec => []StageEvidence)
<1>1. Inv => StageEvidence
  BY DEF Inv, TypeOK, EvidenceInv, RowEvidence, StageEvidence, Holds
<1>. QED
  BY <1>1, Invariance, PTL

\* A live `ready` document has the chunks of one version, recorded on them, and the
\* vector of every one of them.
THEOREM ReadyIsSearchable == NotBoth => (Spec => []ReadyMeansSearchable)
<1>1. Inv => ReadyMeansSearchable
  BY DEF Inv, VectorInv
<1>. QED
  BY <1>1, Invariance, PTL

\* No vector of another generation of chunks stays in the collection.
THEOREM OneGenerationOnly == NotBoth => (Spec => []OneGeneration)
<1>1. Inv => OneGeneration
  BY DEF Inv, VectorInv
<1>. QED
  BY <1>1, Invariance, PTL

-----------------------------------------------------------------------------
(* The lifecycle: every committed transaction of a delivery, a cron pass   *)
(* or the API is a step of DocumentLifecycle or leaves its variables alone.*)

\* A transaction that touches neither statuses nor stored work is invisible.
LEMMA Stutter ==
    UNCHANGED <<status, paged, chunkRows, deleted>> => UNCHANGED Lifecycle!vars
BY DEF Lifecycle!vars, DoneStages

\* A compare-and-set into processing from a status that tells what is stored.
LEMMA ClaimMaps ==
    ASSUME TypeOK, EvidenceInv, NEW d \in Docs, NEW from \in RecoverableStatuses,
           Holds(d, from), Move(d, "processing"),
           UNCHANGED <<paged, chunkRows, deleted>>
    PROVE  Lifecycle!Claim(d)
<1>1. DoneStages' = DoneStages
  BY DEF TypeOK, Holds, Move, DoneStages, RecoverableStatuses
<1>2. DoneStages[d] < 3 /\ status[d] = Lifecycle!StatusAfter(DoneStages[d])
  BY DEF EvidenceInv, RowEvidence, Holds, DoneStages, RecoverableStatuses, Lifecycle!StatusAfter
<1>. QED
  BY <1>1, <1>2 DEF Lifecycle!Claim, Lifecycle!Live, Holds, Move

\* Giving a claim back to the status its stage was claimed from.
LEMMA PutBackMaps ==
    ASSUME TypeOK, EvidenceInv, NEW s \in Slots, pc[s] \in ClaimSteps,
           Holds(on[s], "processing"), Move(on[s], StartsAt(stage[s])),
           UNCHANGED <<paged, chunkRows, deleted>>
    PROVE  on[s] \in Docs /\ Lifecycle!PutBack(on[s])
<1>0. on[s] \in Docs
  BY DEF TypeOK, ClaimSteps
<1>1. DoneStages' = DoneStages
  BY <1>0 DEF TypeOK, Holds, Move, DoneStages, StartsAt
<1>2. StartsAt(stage[s]) = Lifecycle!StatusAfter(DoneStages[on[s]])
  BY <1>0 DEF TypeOK, Stages, EvidenceInv, RowEvidence, ClaimEvidence, Holds, DoneStages,
              StartsAt, Lifecycle!StatusAfter
<1>. QED
  BY <1>0, <1>1, <1>2 DEF Lifecycle!PutBack, Lifecycle!Live, Holds, Move

\* Failing one claimed document.
LEMMA FailMaps ==
    ASSUME TypeOK, NEW d \in Docs, Holds(d, "processing"), Move(d, "failed"),
           UNCHANGED <<paged, chunkRows, deleted>>
    PROVE  Lifecycle!Fail({d})
<1>1. DoneStages' = DoneStages
  BY DEF TypeOK, Holds, Move, DoneStages
<1>2. status' = [e \in Docs |-> IF e \in {d} THEN "failed" ELSE status[e]]
  BY DEF TypeOK, Move
<1>. QED
  BY <1>1, <1>2 DEF Lifecycle!Fail, Lifecycle!Live, Holds

\* One more stage of d is done and nothing changes for the others.
LEMMA OneMoreDone ==
    ASSUME NEW d \in Docs, NEW n \in 0..2, DoneStages[d] = n, DoneStages'[d] = n + 1,
           \A e \in Docs : e # d => DoneStages'[e] = DoneStages[e]
    PROVE  DoneStages' = [DoneStages EXCEPT ![d] = @ + 1]
<1> DEFINE next == [e \in Docs |-> IF e = d THEN n + 1 ELSE DoneStages[e]]
<1>1. DOMAIN DoneStages = Docs /\ DOMAIN DoneStages' = Docs
  BY DEF DoneStages
<1>2. DoneStages' = [e \in Docs |-> DoneStages'[e]] /\ DoneStages = [e \in Docs |-> DoneStages[e]]
  BY DEF DoneStages
<1>3. DoneStages' = next
  BY <1>2
<1>4. [DoneStages EXCEPT ![d] = @ + 1] = next
  BY <1>1, <1>2
<1>. QED
  BY <1>3, <1>4

\* Storing a stage's work with the next status.
LEMMA StoreParsedMaps ==
    ASSUME TypeOK, EvidenceInv, NEW s \in Slots, pc[s] = "storeParsed",
           Holds(on[s], "processing"), Move(on[s], "parsed"),
           paged' = paged \cup {on[s]}, UNCHANGED <<chunkRows, deleted>>
    PROVE  on[s] \in Docs /\ Lifecycle!Complete(on[s])
<1>0. on[s] \in Docs
  BY DEF TypeOK
<1>1. on[s] \notin paged /\ chunkRows[on[s]] = {}
  BY <1>0 DEF EvidenceInv, RowEvidence, ClaimEvidence, ClaimSteps, Holds
<1>2. DoneStages[on[s]] = 0 /\ DoneStages'[on[s]] = 0 + 1
  BY <1>0, <1>1 DEF TypeOK, Move, DoneStages, Holds
<1>3. \A e \in Docs : e # on[s] => DoneStages'[e] = DoneStages[e]
  BY <1>0 DEF TypeOK, Move, DoneStages
<1>4. DoneStages' = [DoneStages EXCEPT ![on[s]] = @ + 1]
  BY <1>0, <1>2, <1>3, OneMoreDone
<1>. QED
  BY <1>0, <1>2, <1>4 DEF Lifecycle!Complete, Lifecycle!Live, Lifecycle!StatusAfter, Holds, Move

LEMMA StoreChunksMaps ==
    ASSUME TypeOK, EvidenceInv, NEW s \in Slots, pc[s] = "storeChunks",
           Holds(on[s], "processing"), Move(on[s], "chunked"),
           chunkRows' = [chunkRows EXCEPT ![on[s]] = ChunksOf[VersionOf[s]]],
           UNCHANGED <<paged, deleted>>
    PROVE  on[s] \in Docs /\ Lifecycle!Complete(on[s])
<1>0. on[s] \in Docs
  BY DEF TypeOK
<1>1. on[s] \in paged /\ chunkRows[on[s]] = {}
  BY <1>0 DEF EvidenceInv, ClaimEvidence, ClaimSteps, Holds
<1>2. ChunksOf[VersionOf[s]] # {}
  BY ChunksAssumption
<1>3. DoneStages[on[s]] = 1 /\ DoneStages'[on[s]] = 1 + 1
  BY <1>0, <1>1, <1>2 DEF TypeOK, Move, DoneStages, Holds
<1>4. \A e \in Docs : e # on[s] => DoneStages'[e] = DoneStages[e]
  BY <1>0 DEF TypeOK, Move, DoneStages
<1>5. DoneStages' = [DoneStages EXCEPT ![on[s]] = @ + 1]
  BY <1>0, <1>3, <1>4, OneMoreDone
<1>. QED
  BY <1>0, <1>3, <1>5 DEF Lifecycle!Complete, Lifecycle!Live, Lifecycle!StatusAfter, Holds, Move

LEMMA StoreReadyMaps ==
    ASSUME TypeOK, EvidenceInv, NEW s \in Slots, pc[s] = "storeReady",
           Holds(on[s], "processing"), Move(on[s], "ready"),
           UNCHANGED <<paged, chunkRows, deleted>>
    PROVE  on[s] \in Docs /\ Lifecycle!Complete(on[s])
<1>0. on[s] \in Docs
  BY DEF TypeOK
<1>1. on[s] \in paged /\ chunkRows[on[s]] # {}
  BY <1>0 DEF EvidenceInv, RowEvidence, ClaimEvidence, ClaimSteps, Holds
<1>2. DoneStages[on[s]] = 2 /\ DoneStages'[on[s]] = 2 + 1
  BY <1>0, <1>1 DEF TypeOK, Move, DoneStages, Holds
<1>3. \A e \in Docs : e # on[s] => DoneStages'[e] = DoneStages[e]
  BY <1>0 DEF TypeOK, Move, DoneStages
<1>4. DoneStages' = [DoneStages EXCEPT ![on[s]] = @ + 1]
  BY <1>0, <1>2, <1>3, OneMoreDone
<1>. QED
  BY <1>0, <1>2, <1>4 DEF Lifecycle!Complete, Lifecycle!Live, Lifecycle!StatusAfter, Holds, Move

\* Re-chunking replaces chunks by chunks: the same stages are done.
LEMMA ReplaceMaps ==
    ASSUME TypeOK, EvidenceInv, NEW s \in Slots, pc[s] = "replace",
           Holds(on[s], "processing"),
           chunkRows' = [chunkRows EXCEPT ![on[s]] = ChunksOf[VersionOf[s]]],
           UNCHANGED <<status, paged, deleted>>
    PROVE  UNCHANGED Lifecycle!vars
<1>0. on[s] \in Docs
  BY DEF TypeOK
<1>1. on[s] \in paged /\ chunkRows[on[s]] # {}
  BY <1>0 DEF EvidenceInv, RowEvidence, ClaimEvidence, ClaimSteps, Holds
<1>2. ChunksOf[VersionOf[s]] # {}
  BY ChunksAssumption
<1>3. DoneStages' = DoneStages
  BY <1>0, <1>1, <1>2 DEF TypeOK, DoneStages
<1>. QED
  BY <1>3 DEF Lifecycle!vars

-----------------------------------------------------------------------------
\* Every step of Ingestion is a lifecycle step or invisible in it.
LEMMA LifecycleStep == Inv /\ [Next]_vars => [Lifecycle!Next]_(Lifecycle!vars)
<1> SUFFICES ASSUME Inv, [Next]_vars PROVE Lifecycle!Next \/ UNCHANGED Lifecycle!vars
  OBVIOUS
<1>t. TypeOK /\ EvidenceInv
  BY DEF Inv
<1> DEFINE Mapped == Lifecycle!Next \/ UNCHANGED Lifecycle!vars
<1>e. ASSUME NEW d \in Docs, Lifecycle!Claim(d) \/ Lifecycle!Complete(d) \/ Lifecycle!PutBack(d)
                               \/ Lifecycle!Create(d) \/ Lifecycle!Delete(d) \/ Lifecycle!Fail({d})
      PROVE Mapped
  BY <1>e DEF Lifecycle!Next
<1>d. ASSUME NEW s \in Slots, Deliver(s) PROVE Mapped
  <2>d. pc[s] # "idle" => on[s] \in Docs
    BY <1>t DEF TypeOK
  <2>u. UNCHANGED <<status, paged, chunkRows>> => Mapped
    BY <1>d, Stutter DEF Deliver
  <2> HIDE DEF Mapped
  <2>1. CASE Claim(s)
    <3>1. StartsAt(stage[s]) \in RecoverableStatuses
      BY DEF StartsAt, RecoverableStatuses
    <3>2. Holds(on[s], StartsAt(stage[s])) /\ Move(on[s], "processing") => Mapped
      BY <1>d, <1>e, <1>t, <2>1, <2>d, <3>1, ClaimMaps DEF Claim, Deliver
    <3>. QED
      BY <2>1, <2>u, <3>2 DEF Claim, Raised
  <2>2. CASE StoreParsed(s)
    BY <1>d, <1>e, <1>t, <2>2, <2>u, StoreParsedMaps DEF StoreParsed, Deliver
  <2>3. CASE StoreChunks(s)
    BY <1>d, <1>e, <1>t, <2>3, <2>u, StoreChunksMaps DEF StoreChunks, Deliver
  <2>4. CASE Replace(s)
    <3>1. UNCHANGED Lifecycle!vars => Mapped
      BY DEF Mapped
    <3>. QED
      BY <1>d, <1>t, <2>4, <2>u, <3>1, ReplaceMaps DEF Replace, Deliver
  <2>5. CASE StoreReady(s)
    BY <1>d, <1>e, <1>t, <2>5, <2>u, StoreReadyMaps DEF StoreReady, Deliver
  <2>6. CASE Fail(s) \/ GiveFail(s)
    BY <1>d, <1>e, <1>t, <2>6, <2>d, <2>u, FailMaps DEF Fail, GiveFail, Raised, Deliver
  <2>7. CASE Release(s) \/ Interrupted(s)
    BY <1>d, <1>e, <1>t, <2>7, <2>u, PutBackMaps
       DEF Release, Interrupted, GiveBack, Raised, Deliver, ClaimSteps
  <2>8. CASE GiveClaim(s)
    <3>1. GiveFrom(pc[s]) \in RecoverableStatuses
      BY DEF GiveFrom, RecoverableStatuses
    <3>2. Holds(on[s], GiveFrom(pc[s])) /\ Move(on[s], "processing") => Mapped
      BY <1>d, <1>e, <1>t, <2>8, <2>d, <3>1, ClaimMaps DEF GiveClaim, Deliver
    <3>. QED
      BY <2>8, <2>u, <3>2 DEF GiveClaim, Raised
  <2>9. CASE \/ Target(s) \/ Verify(s) \/ Pages(s) \/ Provenance(s) \/ RePages(s) \/ ReDelete(s)
             \/ Chunks(s) \/ Upsert(s) \/ GiveCheck(s) \/ Finish(s) \/ Retry(s)
    BY <2>9, <2>u DEF Target, Verify, Pages, Provenance, RePages, ReDelete, Chunks, Upsert,
                      GiveCheck, Finish, Retry
  <2>. QED
    BY <1>d, <2>1, <2>2, <2>3, <2>4, <2>5, <2>6, <2>7, <2>8, <2>9
       DEF Deliver, ParseSteps, ChunkSteps, EmbedSteps, EndSteps
<1>q. ASSUME NEW s \in Slots, Queue(s) PROVE Mapped
  BY <1>q, Stutter DEF Queue, Start, Exhausted, Crash, Cancel
<1>m. CASE Maintain
  <2>1. CASE Reap /\ UNCHANGED <<deleted, env>>
    <3>1. PICK stale \in SUBSET {d \in Docs : Stale(d)} :
             stale # {} /\ status' = [d \in Docs |-> IF d \in stale THEN "failed" ELSE status[d]]
      BY <2>1 DEF Reap
    <3>2. stale \in SUBSET Docs /\ \A d \in stale : Holds(d, "processing")
      BY DEF Stale
    <3>3. DoneStages' = DoneStages
      BY <1>t, <2>1, <3>1, <3>2 DEF Reap, TypeOK, DoneStages, Holds
    <3>4. Lifecycle!Fail(stale)
      BY <2>1, <3>1, <3>2, <3>3 DEF Lifecycle!Fail, Lifecycle!Live, Holds
    <3>. QED
      BY <3>2, <3>4 DEF Lifecycle!Next
  <2>2. CASE \/ SweepRead /\ UNCHANGED <<deleted, env>>
             \/ SweepAbort /\ UNCHANGED <<deleted, env>>
             \/ (\E d \in Docs : SweepEnqueue(d)) /\ UNCHANGED <<deleted, env>>
    BY <2>2, Stutter DEF SweepRead, SweepAbort, SweepEnqueue
  <2>. QED
    BY <1>m, <2>1, <2>2 DEF Maintain
<1>a. ASSUME NEW d \in Docs, Api(d) PROVE Mapped
  <2>1. CASE Upload(d) /\ UNCHANGED <<deleted, env>>
    <3>1. DoneStages' = DoneStages
      BY <1>t, <2>1 DEF Upload, Move, TypeOK, DoneStages
    <3>2. Lifecycle!Create(d)
      BY <2>1, <3>1 DEF Upload, Move, Lifecycle!Create
    <3>. QED
      BY <1>e, <3>2
  <2>2. CASE Delete(d) /\ UNCHANGED env
    <3>1. Lifecycle!Delete(d)
      BY <2>2 DEF Delete, DoneStages, Lifecycle!Delete, Lifecycle!Live
    <3>. QED
      BY <1>e, <3>1
  <2>. QED
    BY <1>a, <2>1, <2>2 DEF Api
<1>c. CASE CalmDown /\ UNCHANGED deleted
  BY <1>c, Stutter DEF CalmDown
<1>u. CASE UNCHANGED vars
  BY <1>u, Stutter DEF vars
<1>. QED
  BY <1>d, <1>q, <1>m, <1>a, <1>c, <1>u DEF Next

\* Ingestion implements the lifecycle its statuses promise to clients.
THEOREM ImplementsLifecycle == NotBoth => (Spec => RefinesLifecycle)
<1>1. Init => Lifecycle!Init
  BY DEF Init, Lifecycle!Init, DoneStages
<1>. QED
  BY <1>1, LifecycleStep, Invariance, PTL DEF Spec, RefinesLifecycle, Lifecycle!Spec

-----------------------------------------------------------------------------
(* What searches see of Ingestion in PostgreSQL.                           *)

\* Once failed or deleted, a document stays so.
DeadStay == \A x \in Docs : Dead(x) => Dead(x)'

\* No delivery, cron or API call brings a dead document back.
LEMMA DeadStep == TypeOK /\ [Next]_vars => DeadStay
<1> SUFFICES ASSUME TypeOK, [Next]_vars PROVE DeadStay
  OBVIOUS
<1> USE DEF TypeOK, Goto, Steps, ClaimSteps, GiveSteps, Statuses, Stages, Transient, Unclassified,
        DeadStay, Dead, Holds, Faulty
<1>d. ASSUME NEW s \in Slots, Deliver(s) PROVE DeadStay
  <2>1. CASE Target(s)
    BY <1>d, <2>1 DEF Deliver, Target, StartsAt
  <2>2. CASE Claim(s)
    BY <1>d, <2>2 DEF Deliver, Claim, EntryOf, StartsAt, Raised, Move
  <2>3. CASE Verify(s)
    BY <1>d, <2>3 DEF Deliver, Verify
  <2>4. CASE StoreParsed(s)
    BY <1>d, <2>4 DEF Deliver, StoreParsed, Move
  <2>5. CASE Pages(s)
    BY <1>d, <2>5 DEF Deliver, Pages, Chunking
  <2>6. CASE StoreChunks(s)
    BY <1>d, <2>6 DEF Deliver, StoreChunks, Move
  <2>7. CASE Provenance(s)
    BY <1>d, <2>7 DEF Deliver, Provenance
  <2>8. CASE RePages(s)
    BY <1>d, <2>8 DEF Deliver, RePages, Chunking
  <2>9. CASE ReDelete(s)
    BY <1>d, <2>9 DEF Deliver, ReDelete
  <2>10. CASE Replace(s)
    BY <1>d, <2>10 DEF Deliver, Replace
  <2>11. CASE Chunks(s)
    BY <1>d, <2>11 DEF Deliver, Chunks
  <2>12. CASE Upsert(s)
    BY <1>d, <2>12 DEF Deliver, Upsert
  <2>13. CASE StoreReady(s)
    BY <1>d, <2>13 DEF Deliver, StoreReady, Move
  <2>14. CASE Fail(s)
    BY <1>d, <2>14 DEF Deliver, Fail, Raised, Move
  <2>15. CASE Release(s)
    BY <1>d, <2>15 DEF Deliver, Release, GiveBack, Raised, Move, StartsAt
  <2>16. CASE Interrupted(s)
    BY <1>d, <2>16 DEF Deliver, Interrupted, GiveBack, Raised, Move, StartsAt
  <2>17. CASE GiveClaim(s)
    BY <1>d, <2>17 DEF Deliver, GiveClaim, Raised, Move, GiveFrom, GiveHit, GiveMiss
  <2>18. CASE GiveCheck(s)
    BY <1>d, <2>18 DEF Deliver, GiveCheck
  <2>19. CASE GiveFail(s)
    BY <1>d, <2>19 DEF Deliver, GiveFail, Raised, Move
  <2>20. CASE Finish(s)
    BY <1>d, <2>20 DEF Deliver, Finish, Leave
  <2>21. CASE Retry(s)
    BY <1>d, <2>21 DEF Deliver, Retry, Leave
  <2>. QED
    BY <1>d, <2>1, <2>2, <2>3, <2>4, <2>5, <2>6, <2>7, <2>8, <2>9, <2>10,
        <2>11, <2>12, <2>13, <2>14, <2>15, <2>16, <2>17, <2>18, <2>19, <2>20, <2>21
       DEF Deliver, ParseSteps, ChunkSteps, EmbedSteps, EndSteps
<1>q. ASSUME NEW s \in Slots, Queue(s) PROVE DeadStay
  <2>1. ASSUME NEW d \in Docs, Start(s, d) PROVE DeadStay
    BY <1>q, <2>1 DEF Queue, Start, InProgress
  <2>2. ASSUME NEW d \in Docs, Exhausted(s, d) PROVE DeadStay
    BY <1>q, <2>2 DEF Queue, Exhausted
  <2>3. CASE Crash(s)
    BY <1>q, <2>3 DEF Queue, Crash, Leave
  <2>4. CASE Cancel(s)
    BY <1>q, <2>4 DEF Queue, Cancel
  <2>. QED
    BY <1>q, <2>1, <2>2, <2>3, <2>4 DEF Queue
<1>m. CASE Maintain
  <2>1. CASE Reap /\ UNCHANGED <<deleted, env>>
    BY <2>1 DEF Reap, Stale
  <2>2. CASE SweepRead /\ UNCHANGED <<deleted, env>>
    BY <2>2 DEF SweepRead
  <2>3. CASE SweepAbort /\ UNCHANGED <<deleted, env>>
    BY <2>3 DEF SweepAbort
  <2>4. ASSUME NEW d \in Docs, SweepEnqueue(d), UNCHANGED <<deleted, env>> PROVE DeadStay
    BY <2>4 DEF SweepEnqueue
  <2>. QED
    BY <1>m, <2>1, <2>2, <2>3, <2>4 DEF Maintain
<1>a. ASSUME NEW d \in Docs, Api(d) PROVE DeadStay
  BY <1>a DEF Api, Upload, Delete, Move
<1>c. CASE CalmDown /\ UNCHANGED deleted
  BY <1>c DEF CalmDown
<1>u. CASE UNCHANGED vars
  BY <1>u DEF vars
<1>. QED
  BY <1>d, <1>q, <1>m, <1>a, <1>c, <1>u DEF Next

\* The rows of a live, ready document are those of the version recorded with them,
\* and a delivery past the provenance check works on rows of its own version.
ReadyVersion == \A d \in Docs : Holds(d, "ready") => chunkRows[d] = ChunksOf[embedded[d]]

WorkVersion ==
    \A s \in Slots : pc[s] \in {"chunks", "upsert", "storeReady"} /\ Holds(on[s], "processing")
        => chunkRows[on[s]] = ChunksOf[VersionOf[s]]

VersionInv == ReadyVersion /\ WorkVersion

\* A step keeps versions and rows in agreement.
LEMMA VersionStep == NotBoth /\ TypeOK /\ ClaimInv /\ EvidenceInv /\ VersionInv /\ [Next]_vars => VersionInv'
<1> SUFFICES ASSUME NotBoth, TypeOK, ClaimInv, EvidenceInv, VersionInv, [Next]_vars PROVE VersionInv'
  OBVIOUS
<1>n. ~("overlap" \in env.hazards /\ "lostack" \in env.hazards)
  BY DEF NotBoth, TypeOK
<1> USE <1>n
<1> USE DEF TypeOK, Goto, Steps, ClaimSteps, GiveSteps, Statuses, Stages, Transient, Unclassified,
        ClaimInv, OneWorker, WorkerHasClaim, OneDelivery, Holds, Dead, Ending, Faulty,
        EvidenceInv, RowEvidence, ClaimEvidence, VersionInv, ReadyVersion, WorkVersion
<1>d. ASSUME NEW s \in Slots, Deliver(s) PROVE VersionInv'
  <2>1. CASE Target(s)
    BY <1>d, <2>1 DEF Deliver, Target, StartsAt
  <2>2. CASE Claim(s)
    BY <1>d, <2>2 DEF Deliver, Claim, EntryOf, StartsAt, Raised, Move
  <2>3. CASE Verify(s)
    BY <1>d, <2>3 DEF Deliver, Verify
  <2>4. CASE StoreParsed(s)
    BY <1>d, <2>4 DEF Deliver, StoreParsed, Move
  <2>5. CASE Pages(s)
    BY <1>d, <2>5 DEF Deliver, Pages, Chunking
  <2>6. CASE StoreChunks(s)
    BY <1>d, <2>6 DEF Deliver, StoreChunks, Move
  <2>7. CASE Provenance(s)
    BY <1>d, <2>7, ChunksAssumption DEF Deliver, Provenance, ProvenanceOf
  <2>8. CASE RePages(s)
    BY <1>d, <2>8 DEF Deliver, RePages, Chunking
  <2>9. CASE ReDelete(s)
    BY <1>d, <2>9 DEF Deliver, ReDelete
  <2>10. CASE Replace(s)
    <3>1. ReadyVersion'
      BY <1>d, <2>10 DEF Deliver, Replace
    <3>2. WorkVersion'
      BY <1>d, <2>10 DEF Deliver, Replace
    <3>. QED
      BY <3>1, <3>2
  <2>11. CASE Chunks(s)
    BY <1>d, <2>11 DEF Deliver, Chunks
  <2>12. CASE Upsert(s)
    BY <1>d, <2>12 DEF Deliver, Upsert
  <2>13. CASE StoreReady(s)
    BY <1>d, <2>13 DEF Deliver, StoreReady, Move
  <2>14. CASE Fail(s)
    BY <1>d, <2>14 DEF Deliver, Fail, Raised, Move
  <2>15. CASE Release(s)
    BY <1>d, <2>15 DEF Deliver, Release, GiveBack, Raised, Move, StartsAt
  <2>16. CASE Interrupted(s)
    BY <1>d, <2>16 DEF Deliver, Interrupted, GiveBack, Raised, Move, StartsAt
  <2>17. CASE GiveClaim(s)
    BY <1>d, <2>17 DEF Deliver, GiveClaim, Raised, Move, GiveFrom, GiveHit, GiveMiss
  <2>18. CASE GiveCheck(s)
    BY <1>d, <2>18 DEF Deliver, GiveCheck
  <2>19. CASE GiveFail(s)
    BY <1>d, <2>19 DEF Deliver, GiveFail, Raised, Move
  <2>20. CASE Finish(s)
    BY <1>d, <2>20 DEF Deliver, Finish, Leave
  <2>21. CASE Retry(s)
    BY <1>d, <2>21 DEF Deliver, Retry, Leave
  <2>. QED
    BY <1>d, <2>1, <2>2, <2>3, <2>4, <2>5, <2>6, <2>7, <2>8, <2>9, <2>10,
        <2>11, <2>12, <2>13, <2>14, <2>15, <2>16, <2>17, <2>18, <2>19, <2>20, <2>21
       DEF Deliver, ParseSteps, ChunkSteps, EmbedSteps, EndSteps
<1>q. ASSUME NEW s \in Slots, Queue(s) PROVE VersionInv'
  <2>1. ASSUME NEW d \in Docs, Start(s, d) PROVE VersionInv'
    BY <1>q, <2>1 DEF Queue, Start, InProgress
  <2>2. ASSUME NEW d \in Docs, Exhausted(s, d) PROVE VersionInv'
    BY <1>q, <2>2 DEF Queue, Exhausted
  <2>3. CASE Crash(s)
    BY <1>q, <2>3 DEF Queue, Crash, Leave
  <2>4. CASE Cancel(s)
    BY <1>q, <2>4 DEF Queue, Cancel
  <2>. QED
    BY <1>q, <2>1, <2>2, <2>3, <2>4 DEF Queue
<1>m. CASE Maintain
  <2>1. CASE Reap /\ UNCHANGED <<deleted, env>>
    BY <2>1 DEF Reap, Stale
  <2>2. CASE SweepRead /\ UNCHANGED <<deleted, env>>
    BY <2>2 DEF SweepRead
  <2>3. CASE SweepAbort /\ UNCHANGED <<deleted, env>>
    BY <2>3 DEF SweepAbort
  <2>4. ASSUME NEW d \in Docs, SweepEnqueue(d), UNCHANGED <<deleted, env>> PROVE VersionInv'
    BY <2>4 DEF SweepEnqueue
  <2>. QED
    BY <1>m, <2>1, <2>2, <2>3, <2>4 DEF Maintain
<1>a. ASSUME NEW d \in Docs, Api(d) PROVE VersionInv'
  BY <1>a DEF Api, Upload, Delete, Move
<1>c. CASE CalmDown /\ UNCHANGED deleted
  BY <1>c DEF CalmDown
<1>u. CASE UNCHANGED vars
  BY <1>u DEF vars
<1>. QED
  BY <1>d, <1>q, <1>m, <1>a, <1>c, <1>u DEF Next

-----------------------------------------------------------------------------
(* The searches.                                                           *)

\* Writes still under way are well typed.
LateOK == late \subseteq [doc : Docs, points : SUBSET Points]

\* What a search holds in each phase.
RequestOK ==
    /\ DOMAIN phase = Searchers /\ DOMAIN query = Searchers /\ DOMAIN cand = Searchers
    /\ DOMAIN answer = Searchers /\ DOMAIN gone = Searchers
    /\ \A r \in Searchers :
        /\ phase[r] \in {"idle", "embed", "index", "invalid"} => Found(cand[r]) = {}
        /\ phase[r] # "answered" => DOMAIN answer[r] = {}
        /\ Found(cand[r]) \subseteq ChunkIds
        /\ DOMAIN answer[r] \subseteq Found(cand[r])

\* What was gone when a search was asked is still dead.
GoneInv == \A r \in Searchers : gone[r] \subseteq {d \in Docs : Dead(d)}

\* The inductive invariant of the searches, whatever the scenario.
SearchInv == TypeOK /\ LateOK /\ RequestOK /\ GoneInv /\ Isolated /\ NothingGone

\* Qdrant returns nothing but matching points.
LEMMA QueryFound == ASSUME NEW M, NEW c \in QueryPoints(M) PROVE Found(c) \subseteq M
BY SearchAssumption DEF QueryPoints, Found

\* A step of a search: the invariant survives it, and what it adds to an answer is
\* a chunk PostgreSQL confirmed in that same step.
LEMMA SearchStepInv == ASSUME SearchInv, NEW r \in Searchers, SearchStep(r)
                       PROVE  RequestOK' /\ GoneInv' /\ Isolated' /\ NothingGone'
<1> USE DEF SearchInv, RequestOK, GoneInv, Isolated, NothingGone, ToPhase, history
<1>u. UNCHANGED vars
  BY DEF SearchStep
<1>d. \A d \in Docs : Dead(d)' <=> Dead(d)
  BY <1>u DEF vars, Dead
<1>1. ASSUME NEW q \in Queries, Ask(r, q) PROVE RequestOK' /\ GoneInv' /\ Isolated' /\ NothingGone'
  BY <1>1, <1>d DEF Ask
<1>2. CASE EmbedQuery(r)
  BY <1>2, <1>d DEF EmbedQuery
<1>3. CASE IndexRead(r)
  <2>1. CASE UNCHANGED cand
    BY <1>3, <1>d, <2>1 DEF IndexRead
  <2>2. ASSUME NEW c \in QueryPoints(Stored \cap query[r].near \cap OwnedBy(query[r].by, query[r].docs)),
               cand' = [cand EXCEPT ![r] = c]
        PROVE  RequestOK' /\ GoneInv' /\ Isolated' /\ NothingGone'
    <3>1. Found(c) \subseteq OwnedBy(query[r].by, query[r].docs)
      BY <2>2, QueryFound
    <3>2. \A id \in Found(c) : id \in ChunkIds /\ OwnerOf[id[1]] = query[r].by
      BY <3>1 DEF OwnedBy
    <3>3. \A t \in Searchers : cand'[t] = IF t = r THEN c ELSE cand[t]
      BY <2>2
    <3>4. answer' = answer /\ query' = query /\ gone' = gone /\ DOMAIN answer[r] = {}
      BY <1>3 DEF IndexRead
    <3>5. /\ phase'[r] \in {"unavailable", "answered", "validate"}
          /\ DOMAIN phase' = Searchers
          /\ \A t \in Searchers \ {r} : phase'[t] = phase[t]
      BY <1>3 DEF IndexRead
    <3>. QED
      BY <1>d, <2>2, <3>2, <3>3, <3>4, <3>5
  <2>. QED
    BY <1>3, <2>1, <2>2 DEF IndexRead
<1>4. CASE Validate(r)
  <2>1. CASE UNCHANGED answer
    BY <1>4, <1>d, <2>1 DEF Validate
  <2>2. ASSUME NEW ids, ids = ValidateForRetrieval(DOMAIN Ranked(cand[r]), query[r].by),
               answer' = [answer EXCEPT ![r] = [c \in ids |-> Ranked(cand[r])[c]]],
               ToPhase(r, "answered")
        PROVE  RequestOK' /\ GoneInv' /\ Isolated' /\ NothingGone'
    <3>1. /\ DOMAIN answer' = Searchers /\ DOMAIN answer'[r] = ids
          /\ \A t \in Searchers \ {r} : answer'[t] = answer[t]
      BY <2>2
    <3>2. ids \subseteq Found(cand[r]) /\ \A c \in ids : Holds(c[1], "ready")
      BY <2>2 DEF ValidateForRetrieval, Ranked
    <3>3. \A c \in ids : c[1] \in Docs /\ ~Dead(c[1])
      BY <3>2 DEF Holds, Dead, ChunkIds, TypeOK
    <3>. QED
      BY <1>4, <1>d, <2>2, <3>1, <3>2, <3>3 DEF Validate
  <2>. QED
    BY <1>4, <2>1, <2>2 DEF Validate
<1>5. CASE Respond(r)
  <2>1. /\ DOMAIN answer' = Searchers /\ DOMAIN answer'[r] = {}
        /\ DOMAIN cand' = Searchers /\ Found(cand'[r]) = {}
        /\ DOMAIN gone' = Searchers /\ gone'[r] = {}
    BY <1>5 DEF Respond, Nothing, Found
  <2>2. \A t \in Searchers \ {r} : /\ answer'[t] = answer[t] /\ cand'[t] = cand[t]
                                  /\ gone'[t] = gone[t] /\ query'[t] = query[t]
    BY <1>5 DEF Respond
  <2>. QED
    BY <1>5, <1>d, <2>1, <2>2 DEF Respond
<1>. QED
  BY <1>1, <1>2, <1>3, <1>4, <1>5 DEF SearchStep

\* Every step of searches, ingestion and Qdrant keeps the invariant.
LEMMA SearchInvStep == SearchInv /\ [SearchNext]_searchVars => SearchInv'
<1> SUFFICES ASSUME SearchInv, [SearchNext]_searchVars PROVE SearchInv'
  OBVIOUS
<1>1. ASSUME NEW r \in Searchers, SearchStep(r) PROVE SearchInv'
  <2>1. UNCHANGED <<vars, late>>
    BY <1>1 DEF SearchStep
  <2>2. TypeOK' /\ LateOK'
    BY <2>1 DEF SearchInv, TypeOK, LateOK, vars
  <2>. QED
    BY <1>1, <2>2, SearchStepInv DEF SearchInv
<1>2. CASE IngestionStep
  <2>1. TypeOK' /\ DeadStay
    BY <1>2, TypeStep, DeadStep DEF IngestionStep, SearchInv
  <2>2. UNCHANGED <<phase, query, cand, answer, gone>>
    BY <1>2 DEF IngestionStep, request
  <2>3. LateOK'
    <3>1. \A s \in Abandoned : Sent(s) \in [doc : Docs, points : SUBSET Points]
      BY DEF Abandoned, Sent, SearchInv, TypeOK
    <3>. QED
      BY <1>2, <3>1 DEF IngestionStep, SearchInv, LateOK
  <2>4. GoneInv'
    BY <2>1, <2>2 DEF SearchInv, GoneInv, DeadStay
  <2>5. RequestOK' /\ Isolated' /\ NothingGone'
    BY <2>2 DEF SearchInv, RequestOK, Isolated, NothingGone
  <2>. QED
    BY <2>1, <2>3, <2>4, <2>5 DEF SearchInv
<1>3. ASSUME NEW w \in late, ApplyLate(w) PROVE SearchInv'
  <2>1. w.doc \in Docs /\ w.points \subseteq Points
    BY DEF SearchInv, LateOK
  <2>2. TypeOK' /\ LateOK'
    BY <1>3, <2>1 DEF ApplyLate, SearchInv, TypeOK, LateOK
  <2>3. GoneInv' /\ RequestOK' /\ Isolated' /\ NothingGone'
    BY <1>3 DEF ApplyLate, request, history, SearchInv, GoneInv, Dead, RequestOK, Isolated, NothingGone
  <2>. QED
    BY <2>2, <2>3 DEF SearchInv
<1>4. CASE UNCHANGED searchVars
  BY <1>4 DEF searchVars, vars, request, history, SearchInv, TypeOK, LateOK, RequestOK,
              GoneInv, Dead, Isolated, NothingGone
<1>. QED
  BY <1>1, <1>2, <1>3, <1>4 DEF SearchNext

\* At the start no search is under way and nothing is late.
LEMMA SearchInvInit == SearchInit => SearchInv
<1>1. SearchInit => TypeOK
  BY DEF SearchInit, Init, TypeOK, Statuses, Stages, Steps
<1>2. SearchInit => LateOK /\ RequestOK /\ GoneInv /\ Isolated /\ NothingGone
  BY DEF SearchInit, LateOK, RequestOK, GoneInv, Isolated, NothingGone, Nothing, Found
<1>. QED
  BY <1>1, <1>2 DEF SearchInv

\* The inductive invariant holds in every reachable state.
THEOREM SearchInvariance == SearchSpec => []SearchInv
BY SearchInvInit, SearchInvStep, PTL DEF SearchSpec

\* Every candidate and every result is a chunk of the caller's own documents,
\* whatever is deleted, re-chunked, embedded or applied late meanwhile.
THEOREM CallersSeeTheirOwn == SearchSpec => []Isolated
<1>1. SearchInv => Isolated
  BY DEF SearchInv
<1>. QED
  BY <1>1, SearchInvariance, PTL

\* No result is of a document that was deleted or failed when the search was asked.
THEOREM TheGoneStayGone == SearchSpec => []NothingGone
<1>1. SearchInv => NothingGone
  BY DEF SearchInv
<1>. QED
  BY <1>1, SearchInvariance, PTL

-----------------------------------------------------------------------------
(* The results' version.                                                   *)

\* What is known about rows and claims holds with searches and late writes beside.
RowsInv == SearchInv /\ ClaimInv /\ EvidenceInv /\ VersionInv

LEMMA RowsInvInit == SearchInit => RowsInv
<1>1. SearchInit => SearchInv
  BY SearchInvInit
<1>2. SearchInit => ClaimInv
  BY DEF SearchInit, Init, ClaimInv, OneWorker, WorkerHasClaim, OneDelivery, ClaimSteps
<1>3. SearchInit => EvidenceInv
  BY DEF SearchInit, Init, EvidenceInv, RowEvidence, ClaimEvidence, ClaimSteps
<1>4. SearchInit => VersionInv
  BY DEF SearchInit, Init, VersionInv, ReadyVersion, WorkVersion, Holds
<1>. QED
  BY <1>1, <1>2, <1>3, <1>4 DEF RowsInv

\* Late writes touch vectors only, searches nothing of ingestion's.
LEMMA RowsInvStep == NotBoth /\ RowsInv /\ [SearchNext]_searchVars => RowsInv'
<1> SUFFICES ASSUME NotBoth, RowsInv, [SearchNext]_searchVars PROVE RowsInv'
  OBVIOUS
<1>1. SearchInv'
  BY SearchInvStep DEF RowsInv
<1>2. CASE IngestionStep
  <2>1. ClaimInv'
    BY <1>2, ClaimStep DEF IngestionStep, RowsInv, SearchInv
  <2>2. EvidenceInv'
    BY <1>2, EvidenceStep DEF IngestionStep, RowsInv, SearchInv
  <2>3. VersionInv'
    BY <1>2, VersionStep DEF IngestionStep, RowsInv, SearchInv
  <2>. QED
    BY <1>1, <2>1, <2>2, <2>3 DEF RowsInv
<1>3. CASE UNCHANGED <<rows, deleted, queue, pc, local, sweep, env>>
  <2>1. ClaimInv'
    BY <1>3 DEF RowsInv, ClaimInv, OneWorker, WorkerHasClaim, OneDelivery, Holds, Dead
  <2>2. EvidenceInv'
    BY <1>3 DEF RowsInv, EvidenceInv, RowEvidence, ClaimEvidence, Holds
  <2>3. VersionInv'
    BY <1>3 DEF RowsInv, VersionInv, ReadyVersion, WorkVersion, Holds
  <2>. QED
    BY <1>1, <2>1, <2>2, <2>3 DEF RowsInv
<1>. QED
  BY <1>2, <1>3 DEF SearchNext, SearchStep, ApplyLate, searchVars, vars

\* What a search adds to its answer is of the API's version.
LEMMA AnswerStep == RowsInv /\ OneVectorSpace /\ [SearchNext]_searchVars => OneVectorSpace'
<1> SUFFICES ASSUME RowsInv, OneVectorSpace, [SearchNext]_searchVars PROVE OneVectorSpace'
  OBVIOUS
<1> USE DEF RowsInv, SearchInv, RequestOK, OneVectorSpace
<1>1. CASE UNCHANGED answer
  BY <1>1
<1>2. ASSUME NEW r \in Searchers, Respond(r) PROVE OneVectorSpace'
  <2>1. DOMAIN answer'[r] = {} /\ \A t \in Searchers \ {r} : answer'[t] = answer[t]
    BY <1>2 DEF Respond, Nothing
  <2>. QED
    BY <2>1
<1>3. ASSUME NEW r \in Searchers, NEW ids,
             ids = ValidateForRetrieval(DOMAIN Ranked(cand[r]), query[r].by),
             answer' = [answer EXCEPT ![r] = [c \in ids |-> Ranked(cand[r])[c]]]
      PROVE  OneVectorSpace'
  <2>1. DOMAIN answer'[r] = ids /\ \A t \in Searchers \ {r} : answer'[t] = answer[t]
    BY <1>3
  <2>2. ids \subseteq Found(cand[r])
    BY <1>3 DEF ValidateForRetrieval, Ranked
  <2>3. \A c \in ids : /\ c[1] \in Docs /\ c[2] \in chunkRows[c[1]]
                       /\ Holds(c[1], "ready") /\ embedded[c[1]] \in ApiVersions
    BY <1>3, <2>2 DEF ValidateForRetrieval, ChunkIds
  <2>4. \A c \in ids : \E v \in ApiVersions : c[2] \in ChunksOf[v]
    BY <2>3 DEF VersionInv, ReadyVersion
  <2>. QED
    BY <2>1, <2>4
<1>4. ASSUME NEW r \in Searchers, Validate(r) PROVE OneVectorSpace'
  BY <1>1, <1>3, <1>4 DEF Validate
<1>5. ASSUME NEW r \in Searchers, SearchStep(r), ~Validate(r), ~Respond(r) PROVE UNCHANGED answer
  BY <1>5 DEF SearchStep, Ask, EmbedQuery, IndexRead
<1>6. CASE \E r \in Searchers : SearchStep(r)
  BY <1>1, <1>2, <1>4, <1>5, <1>6
<1>7. CASE IngestionStep \/ (\E w \in late : ApplyLate(w)) \/ UNCHANGED searchVars
  BY <1>1, <1>7 DEF IngestionStep, ApplyLate, request, searchVars
<1>. QED
  BY <1>6, <1>7 DEF SearchNext

\* Unless answers are lost while deliveries overlap, every result is a chunk
\* made and embedded by a version with the API's model, which embedded the query, also while documents are re-chunked and
\* whatever Qdrant still applies late.
THEOREM ResultsAreOfOneModel == NotBoth => (SearchSpec => []OneVectorSpace)
<1> SUFFICES ASSUME NotBoth PROVE SearchSpec => []OneVectorSpace
  OBVIOUS
<1>1. SearchInit => RowsInv /\ OneVectorSpace
  <2>1. SearchInit => OneVectorSpace
    BY DEF SearchInit, OneVectorSpace, Nothing
  <2>. QED
    BY <2>1, RowsInvInit
<1>2. RowsInv /\ OneVectorSpace /\ [SearchNext]_searchVars => (RowsInv /\ OneVectorSpace)'
  BY RowsInvStep, AnswerStep
<1>. QED
  BY <1>1, <1>2, PTL DEF SearchSpec

-----------------------------------------------------------------------------
(* What a search finds.                                                    *)

\* The rows of a ready document stay as they are: every write of chunks or of their
\* model needs the document to be processing.
LEMMA ReadyRowsStay ==
    TypeOK /\ [Next]_vars => \A d \in Docs : Holds(d, "ready") =>
        chunkRows'[d] = chunkRows[d] /\ embedded'[d] = embedded[d]
<1> SUFFICES ASSUME TypeOK, [Next]_vars, NEW d \in Docs, Holds(d, "ready")
             PROVE  chunkRows'[d] = chunkRows[d] /\ embedded'[d] = embedded[d]
  OBVIOUS
<1> USE DEF TypeOK, Holds
<1>1. CASE UNCHANGED <<chunkRows, embedded>>
  BY <1>1
<1>2. ASSUME NEW s \in Slots, StoreChunks(s) \/ Replace(s) \/ StoreReady(s)
      PROVE  chunkRows'[d] = chunkRows[d] /\ embedded'[d] = embedded[d]
  <2>1. CASE StoreChunks(s)
    BY <2>1 DEF StoreChunks
  <2>2. CASE Replace(s)
    BY <2>2 DEF Replace
  <2>3. CASE StoreReady(s)
    BY <2>3 DEF StoreReady
  <2>. QED
    BY <1>2, <2>1, <2>2, <2>3
<1>3. ASSUME NEW s \in Slots, Deliver(s), ~(StoreChunks(s) \/ Replace(s) \/ StoreReady(s))
      PROVE  UNCHANGED <<chunkRows, embedded>>
  <2>1. Target(s) \/ Claim(s) \/ Verify(s) \/ StoreParsed(s) => UNCHANGED <<chunkRows, embedded>>
    BY DEF Target, Claim, Verify, StoreParsed
  <2>2. Pages(s) \/ Provenance(s) \/ RePages(s) \/ ReDelete(s) \/ Chunks(s) \/ Upsert(s)
            => UNCHANGED <<chunkRows, embedded>>
    BY DEF Pages, Provenance, RePages, ReDelete, Chunks, Upsert
  <2>3. EndSteps(s) => UNCHANGED <<chunkRows, embedded>>
    BY DEF EndSteps, Fail, Release, Interrupted, GiveClaim, GiveCheck, GiveFail, Finish, Retry
  <2>. QED
    BY <1>3, <2>1, <2>2, <2>3 DEF Deliver, ParseSteps, ChunkSteps, EmbedSteps
<1>4. ASSUME NEW s \in Slots, Queue(s) PROVE UNCHANGED <<chunkRows, embedded>>
  BY <1>4 DEF Queue, Start, Exhausted, Crash, Cancel
<1>5. Maintain \/ CalmDown \/ (\E x \in Docs : Api(x)) \/ UNCHANGED vars => UNCHANGED <<chunkRows, embedded>>
  BY DEF Maintain, Reap, SweepRead, SweepAbort, SweepEnqueue, CalmDown, Api, Upload, Delete, vars
<1>. QED
  BY <1>1, <1>2, <1>3, <1>4, <1>5 DEF Next

\* A document counted as ready all the while is ready.
SteadyInv ==
    /\ DOMAIN steady = Searchers
    /\ \A r \in Searchers : \A d \in steady[r] : d \in Docs /\ Holds(d, "ready")

\* The chunks a search has to find.
Sought(r) ==
    {c \in ChunkIds : /\ c[1] \in steady[r] /\ c[2] \in chunkRows[c[1]]
                      /\ OwnerOf[c[1]] = query[r].by /\ c[1] \in query[r].docs
                      /\ c \in query[r].near}

\* The index proposed all of them, or as many chunks as were asked for.
Complete ==
    \A r \in Searchers : phase[r] \in {"validate", "answered"} =>
        Sought(r) \subseteq Found(cand[r]) \/ Len(cand[r]) = TopK

\* The answer holds those the index proposed, if the API's model embedded them.
Confirmed ==
    \A r \in Searchers : phase[r] = "answered" =>
        \A c \in Sought(r) \cap Found(cand[r]) :
            embedded[c[1]] \in ApiVersions => c \in DOMAIN answer[r]

\* An index that has done with a write when its caller gives up on it.
Prompt == ~tardy => late = {} /\ VectorInv /\ Complete

FindInv == RowsInv /\ SteadyInv /\ Confirmed /\ Prompt

\* What is asked for and found, as the index answers.
LEMMA QueryComplete ==
    ASSUME NEW M, NEW c \in QueryPoints(M)
    PROVE  /\ M \subseteq Found(c) \/ Len(c) = TopK
           /\ c = <<>> => M = {} /\ Found(c) = {}
<1>1. PICK n \in 0..TopK : c \in [1..n -> M]
  BY DEF QueryPoints
<1>2. c \in Seq(M) /\ Len(c) = n /\ DOMAIN c = 1..n
  BY <1>1
<1>3. n < TopK => M \subseteq Found(c)
  BY <1>2 DEF QueryPoints, Found
<1>4. c = <<>> => n = 0
  BY <1>2
<1>5. TopK \in Nat \ {0}
  BY SearchAssumption
<1>6. c = <<>> => Found(c) = {}
  BY <1>2, <1>4 DEF Found
<1>. QED
  BY <1>1, <1>2, <1>3, <1>4, <1>5, <1>6

\* A search leaves the others' requests alone.
LEMMA OthersStay ==
    ASSUME SearchInv, SteadyInv, NEW r \in Searchers, SearchStep(r), NEW t \in Searchers, t # r
    PROVE  /\ phase'[t] = phase[t] /\ cand'[t] = cand[t] /\ answer'[t] = answer[t]
           /\ query'[t] = query[t] /\ steady'[t] = steady[t]
           /\ Sought(t)' = Sought(t)
<1> USE DEF SearchInv, RequestOK, SteadyInv
<1>1. ASSUME NEW q \in Queries, Ask(r, q)
      PROVE  /\ phase'[t] = phase[t] /\ cand'[t] = cand[t] /\ answer'[t] = answer[t]
             /\ query'[t] = query[t] /\ steady'[t] = steady[t]
  BY <1>1 DEF Ask, ToPhase
<1>2. ASSUME EmbedQuery(r) \/ IndexRead(r) \/ Validate(r) \/ Respond(r)
      PROVE  /\ phase'[t] = phase[t] /\ cand'[t] = cand[t] /\ answer'[t] = answer[t]
             /\ query'[t] = query[t] /\ steady'[t] = steady[t]
  BY <1>2 DEF EmbedQuery, IndexRead, Validate, Respond, ToPhase, history
<1>3. /\ phase'[t] = phase[t] /\ cand'[t] = cand[t] /\ answer'[t] = answer[t]
      /\ query'[t] = query[t] /\ steady'[t] = steady[t]
  BY <1>1, <1>2 DEF SearchStep
<1>4. chunkRows' = chunkRows
  BY DEF SearchStep, vars
<1>. QED
  BY <1>3, <1>4 DEF Sought

\* A step of a search: what it counts as ready is, and what it confirms it answers.
LEMMA SearchStepFinds ==
    ASSUME FindInv, NEW r \in Searchers, SearchStep(r)
    PROVE  SteadyInv' /\ Confirmed' /\ (~tardy => Complete')
<1> USE DEF FindInv, RowsInv, SearchInv
<1>v. UNCHANGED <<status, deleted, chunkRows, embedded, vectors>>
  BY DEF SearchStep, vars
<1>1. SteadyInv'
  <2>1. \A d \in Docs : Holds(d, "ready")' <=> Holds(d, "ready")
    BY <1>v DEF Holds
  <2>2. ASSUME NEW q \in Queries, Ask(r, q) PROVE SteadyInv'
    BY <2>1, <2>2 DEF Ask, SteadyInv
  <2>3. ASSUME EmbedQuery(r) \/ IndexRead(r) \/ Validate(r) PROVE SteadyInv'
    BY <2>1, <2>3 DEF EmbedQuery, IndexRead, Validate, history, SteadyInv
  <2>4. ASSUME Respond(r) PROVE SteadyInv'
    BY <2>1, <2>4 DEF Respond, SteadyInv
  <2>. QED
    BY <2>2, <2>3, <2>4 DEF SearchStep
<1>2. ASSUME NEW t \in Searchers, t # r
      PROVE  /\ phase'[t] = phase[t] /\ cand'[t] = cand[t] /\ answer'[t] = answer[t]
             /\ Sought(t)' = Sought(t)
  BY <1>2, OthersStay
<1>3. SUFFICES /\ phase'[r] = "answered" =>
                      \A c \in Sought(r)' \cap Found(cand'[r]) :
                          embedded[c[1]] \in ApiVersions => c \in DOMAIN answer'[r]
               /\ ~tardy /\ phase'[r] \in {"validate", "answered"} =>
                      Sought(r)' \subseteq Found(cand'[r]) \/ Len(cand'[r]) = TopK
  <2> SUFFICES ASSUME /\ phase'[r] = "answered" =>
                             \A c \in Sought(r)' \cap Found(cand'[r]) :
                                 embedded[c[1]] \in ApiVersions => c \in DOMAIN answer'[r]
                      /\ ~tardy /\ phase'[r] \in {"validate", "answered"} =>
                             Sought(r)' \subseteq Found(cand'[r]) \/ Len(cand'[r]) = TopK
               PROVE  Confirmed' /\ (~tardy => Complete')
    BY <1>1
  <2>1. ASSUME NEW t \in Searchers, phase'[t] = "answered", NEW c \in Sought(t)' \cap Found(cand'[t]),
               embedded[c[1]] \in ApiVersions
        PROVE  c \in DOMAIN answer'[t]
    BY <1>2, <2>1 DEF Confirmed
  <2>2. Confirmed'
    BY <1>v, <2>1 DEF Confirmed, Found
  <2>3. ASSUME ~tardy, NEW t \in Searchers, phase'[t] \in {"validate", "answered"}
        PROVE  Sought(t)' \subseteq Found(cand'[t]) \/ Len(cand'[t]) = TopK
    BY <1>2, <2>3 DEF Complete, Prompt
  <2>4. ~tardy => Complete'
    BY <2>3 DEF Complete, Found
  <2>. QED
    BY <2>2, <2>4
<1> USE DEF RequestOK
<1>4. ASSUME NEW q \in Queries, Ask(r, q) PROVE phase'[r] \notin {"validate", "answered"}
  BY <1>4 DEF Ask, ToPhase
<1>5. ASSUME EmbedQuery(r) \/ Respond(r) PROVE phase'[r] \notin {"validate", "answered"}
  BY <1>5 DEF EmbedQuery, Respond, ToPhase
<1>6. ASSUME IndexRead(r), phase'[r] \in {"validate", "answered"}
      PROVE  /\ phase'[r] = "answered" => Found(cand'[r]) = {}
             /\ ~tardy => Sought(r)' \subseteq Found(cand'[r]) \/ Len(cand'[r]) = TopK
  <2> DEFINE M == Stored \cap query[r].near \cap OwnedBy(query[r].by, query[r].docs)
  <2>1. PICK c \in QueryPoints(M) : /\ cand' = [cand EXCEPT ![r] = c]
                                    /\ ToPhase(r, IF \E id \in Found(c) : OwnerOf[id[1]] # query[r].by
                                                  THEN "unavailable"
                                                  ELSE IF c = <<>> THEN "answered" ELSE "validate")
    BY <1>6 DEF IndexRead, ToPhase
  <2>2. cand'[r] = c /\ (phase'[r] = "answered" => c = <<>>)
    BY <2>1 DEF ToPhase
  <2>3. ~tardy => Sought(r)' \subseteq M
    <3> SUFFICES ASSUME ~tardy, NEW x \in Sought(r)' PROVE x \in M
      OBVIOUS
    <3>1. query' = query /\ steady' = steady
      BY <1>6 DEF IndexRead, history
    <3>2. /\ x \in ChunkIds /\ x[1] \in steady[r] /\ x[2] \in chunkRows[x[1]]
          /\ OwnerOf[x[1]] = query[r].by /\ x[1] \in query[r].docs /\ x \in query[r].near
      BY <1>v, <3>1 DEF Sought
    <3>3. x[1] \in Docs /\ Holds(x[1], "ready")
      BY <3>2 DEF SteadyInv
    <3>4. x[2] \in vectors[x[1]]
      BY <3>2, <3>3 DEF Prompt, VectorInv, ReadyMeansSearchable
    <3>. QED
      BY <3>2, <3>4 DEF Stored, OwnedBy
  <2> HIDE DEF M
  <2>. QED
    BY <2>1, <2>2, <2>3, QueryComplete
<1>7. ASSUME Validate(r), phase'[r] \in {"validate", "answered"}
      PROVE  /\ \A c \in Sought(r)' \cap Found(cand'[r]) :
                   embedded[c[1]] \in ApiVersions => c \in DOMAIN answer'[r]
             /\ ~tardy => Sought(r)' \subseteq Found(cand'[r]) \/ Len(cand'[r]) = TopK
  <2>1. UNCHANGED <<query, cand, steady>> /\ phase[r] = "validate"
    BY <1>7 DEF Validate, history
  <2>2. Sought(r)' = Sought(r)
    BY <1>v, <2>1 DEF Sought
  <2>3. DOMAIN answer'[r] = ValidateForRetrieval(Found(cand[r]), query[r].by)
    <3>1. /\ DOMAIN Ranked(cand[r]) = Found(cand[r])
          /\ phase' = [phase EXCEPT ![r] = "answered"] \/ phase' = [phase EXCEPT ![r] = "unavailable"]
      BY <1>7 DEF Validate, ToPhase, Ranked
    <3>2. phase'[r] # "unavailable"
      BY <1>7
    <3>3. answer' = [answer EXCEPT ![r] = [c \in ValidateForRetrieval(DOMAIN Ranked(cand[r]), query[r].by)
                                             |-> Ranked(cand[r])[c]]]
      BY <1>7, <3>2 DEF Validate, ToPhase
    <3>. QED
      BY <3>1, <3>3
  <2>4. \A c \in Sought(r) \cap Found(cand[r]) :
            embedded[c[1]] \in ApiVersions => c \in ValidateForRetrieval(Found(cand[r]), query[r].by)
    BY DEF Sought, SteadyInv, ValidateForRetrieval
  <2>5. ~tardy => Sought(r) \subseteq Found(cand[r]) \/ Len(cand[r]) = TopK
    BY <2>1 DEF Prompt, Complete
  <2>. QED
    BY <2>1, <2>2, <2>3, <2>4, <2>5
<1>. QED
  BY <1>4, <1>5, <1>6, <1>7 DEF SearchStep

\* Every step keeps what the searches find.
LEMMA FindInvStep == NotBoth /\ FindInv /\ [SearchNext]_searchVars => FindInv'
<1> SUFFICES ASSUME NotBoth, FindInv, [SearchNext]_searchVars PROVE FindInv'
  OBVIOUS
<1> USE DEF FindInv
<1>1. RowsInv'
  BY RowsInvStep
<1>t. tardy' = tardy
  BY DEF SearchNext, searchVars
<1>2. ASSUME NEW r \in Searchers, SearchStep(r) PROVE FindInv'
  <2>1. SteadyInv' /\ Confirmed' /\ (~tardy => Complete')
    BY <1>2, SearchStepFinds
  <2>2. UNCHANGED vars /\ late' = late
    BY <1>2 DEF SearchStep
  <2>3. VectorInv' <=> VectorInv
    BY <2>2 DEF vars, VectorInv, OneGeneration, ReadyMeansSearchable, GotCurrent, EmbedEvidence, Holds
  <2>. QED
    BY <1>1, <1>t, <2>1, <2>2, <2>3 DEF Prompt
<1>3. CASE IngestionStep
  <2>1. [Next]_vars /\ TypeOK /\ UNCHANGED <<phase, query, cand, answer>>
    BY <1>3 DEF IngestionStep, request, RowsInv, SearchInv
  <2>2. steady' = [r \in Searchers |-> {d \in steady[r] : status'[d] = "ready" /\ d \notin deleted'}]
    BY <1>3 DEF IngestionStep
  <2>3. SteadyInv' /\ \A r \in Searchers : steady'[r] \subseteq steady[r]
    BY <2>2 DEF SteadyInv, Holds
  <2>4. \A r \in Searchers : \A d \in steady[r] :
            d \in Docs /\ chunkRows'[d] = chunkRows[d] /\ embedded'[d] = embedded[d]
    BY <2>1, ReadyRowsStay DEF SteadyInv
  <2>5. \A r \in Searchers : Sought(r)' \subseteq Sought(r) /\ \A c \in Sought(r) : c[1] \in steady[r]
    BY <2>1, <2>3, <2>4 DEF Sought
  <2>6. Confirmed'
    <3> SUFFICES ASSUME NEW r \in Searchers, phase[r] = "answered", NEW c \in Sought(r)' \cap Found(cand[r]),
                        embedded'[c[1]] \in ApiVersions
                 PROVE  c \in DOMAIN answer[r]
      BY <2>1 DEF Confirmed, Found
    <3>1. c \in Sought(r) /\ embedded[c[1]] \in ApiVersions
      BY <2>4, <2>5
    <3>. QED
      BY <3>1 DEF Confirmed
  <2>7. Complete => Complete'
    <3> SUFFICES ASSUME Complete, NEW r \in Searchers, phase[r] \in {"validate", "answered"}
                 PROVE  Sought(r)' \subseteq Found(cand[r]) \/ Len(cand[r]) = TopK
      BY <2>1 DEF Complete, Found
    <3>. QED
      BY <2>5 DEF Complete
  <2>8. VectorInv => VectorInv'
    BY <2>1, VectorStep DEF RowsInv, SearchInv
  <2>9. ~tardy => late' = late
    BY <1>3 DEF IngestionStep
  <2>. QED
    BY <1>1, <1>t, <2>3, <2>6, <2>7, <2>8, <2>9 DEF Prompt
<1>4. ASSUME NEW w \in late, ApplyLate(w) PROVE FindInv'
  <2>1. tardy
    BY <1>4 DEF Prompt
  <2>2. UNCHANGED <<status, deleted, chunkRows, embedded, phase, query, cand, answer, steady>>
    BY <1>4 DEF ApplyLate, request, history
  <2>3. SteadyInv' /\ Confirmed'
    BY <2>2 DEF SteadyInv, Confirmed, Sought, Holds, Found
  <2>. QED
    BY <1>1, <1>t, <2>1, <2>3 DEF Prompt
<1>5. CASE UNCHANGED searchVars
  <2>1. UNCHANGED <<vars, phase, query, cand, answer, steady, late>>
    BY <1>5 DEF searchVars, request, history
  <2>2. SteadyInv' /\ Confirmed' /\ (Complete' <=> Complete)
    BY <2>1 DEF vars, SteadyInv, Confirmed, Complete, Sought, Holds, Found
  <2>3. VectorInv' <=> VectorInv
    BY <2>1 DEF vars, VectorInv, OneGeneration, ReadyMeansSearchable, GotCurrent, EmbedEvidence, Holds
  <2>. QED
    BY <1>1, <1>t, <2>1, <2>2, <2>3 DEF Prompt
<1>. QED
  BY <1>2, <1>3, <1>4, <1>5 DEF SearchNext

\* A search finds every similar chunk of a document that was ready all the while and
\* embedded by the API's model, unless the index had cut it off: also while other
\* documents are re-chunked, deleted or embedded between the index and PostgreSQL.
THEOREM ReadyIsFindable == NotBoth => (SearchSpec => []Findable)
<1> SUFFICES ASSUME NotBoth PROVE SearchSpec => []Findable
  OBVIOUS
<1>1. SearchInit => FindInv
  <2>1. SearchInit => RowsInv
    BY RowsInvInit
  <2>2. SearchInit => SteadyInv /\ Confirmed /\ Complete /\ late = {}
    BY DEF SearchInit, SteadyInv, Confirmed, Complete
  <2>3. SearchInit => VectorInv
    BY DEF SearchInit, Init, VectorInv, OneGeneration, ReadyMeansSearchable, GotCurrent,
           EmbedEvidence, Holds
  <2>. QED
    BY <2>1, <2>2, <2>3 DEF FindInv, Prompt
<1>2. FindInv /\ [SearchNext]_searchVars => FindInv'
  BY FindInvStep
<1>3. FindInv => Findable
  <2> SUFFICES ASSUME FindInv, ~tardy, NEW r \in Searchers, phase[r] = "answered",
                      NEW d \in steady[r], NEW p \in chunkRows[d],
                      OwnerOf[d] = query[r].by, d \in query[r].docs, embedded[d] \in ApiVersions,
                      <<d, p>> \in query[r].near
               PROVE  \/ <<d, p>> \in DOMAIN answer[r]
                      \/ Len(cand[r]) = TopK /\ <<d, p>> \notin Found(cand[r])
    BY DEF Findable
  <2>1. d \in Docs /\ p \in Points
    BY DEF FindInv, SteadyInv, RowsInv, SearchInv, TypeOK
  <2>2. <<d, p>> \in Sought(r)
    BY <2>1 DEF Sought, ChunkIds
  <2>3. Sought(r) \subseteq Found(cand[r]) \/ Len(cand[r]) = TopK
    BY DEF FindInv, Prompt, Complete
  <2>4. <<d, p>> \in Found(cand[r]) => <<d, p>> \in DOMAIN answer[r]
    BY <2>2 DEF FindInv, Confirmed
  <2>. QED
    BY <2>2, <2>3, <2>4
<1>. QED
  BY <1>1, <1>2, <1>3, PTL DEF SearchSpec

=============================================================================
