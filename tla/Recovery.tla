------------------------------ MODULE Recovery ------------------------------
(***************************************************************************)
(* The recovery sweep in detail: it reads at most a batch of recoverable   *)
(* documents, the least recently updated first, and hands each that can    *)
(* make a job to ARQ.  Ingestion's sweep takes every recoverable document  *)
(* at once; here it is the order and the limit that matter.                *)
(*                                                                         *)
(* A document is sound (its delivery settles it), slow (every delivery is  *)
(* cancelled at the job's deadline, which puts the claim back and is not   *)
(* retried) or broken (its row cannot make a valid job).                   *)
(***************************************************************************)
EXTENDS Naturals, FiniteSets, Sequences, SequencesExt

CONSTANTS
    Sound, Slow, Broken,   \* the documents of each kind
    OldRows,               \* the broken rows there may be, by updated_at
    Sweepers,              \* workers whose cron may sweep at the same time
    BatchSize,             \* RECOVERY_BATCH_SIZE
    MaxJobs                \* ARQ_MAX_JOBS

Docs == Sound \cup Slow \cup Broken

ASSUME RecoveryAssumption ==
    /\ Sound \cap Slow = {} /\ Sound \cap Broken = {} /\ Slow \cap Broken = {}
    /\ OldRows \subseteq Seq(Broken)
    /\ BatchSize \in Nat \ {0} /\ MaxJobs \in Nat \ {0}

VARIABLES
    waiting,   \* recoverable documents, by updated_at
    queued,    \* ARQ's queue, a job per entry
    running,   \* the jobs being run
    settled,   \* documents that are `ready` or `failed`
    batch,     \* what each sweep still has to hand on
    env        \* "flaky": a call to Redis may fail; "calm"

recoveryVars == <<waiting, queued, running, settled, batch, env>>

RecoveryTypeOK ==
    /\ waiting \in Seq(Docs)
    /\ queued \in Seq(Docs)
    /\ running \subseteq Docs /\ settled \subseteq Docs
    /\ batch \in [Sweepers -> BoundedSeq(Docs, BatchSize)]
    /\ env \in {"flaky", "calm"}

\* Broken rows are older than this code; the others are uploaded.
RecoveryInit ==
    /\ waiting \in OldRows
    /\ queued = <<>> /\ running = {} /\ settled = {}
    /\ batch = [s \in Sweepers |-> <<>>]
    /\ env = "flaky"

-----------------------------------------------------------------------------
(* ARQ.                                                                    *)

\* Mutant: jobs are queued without the document's job id.
EnqueuedUnnamed(d) == Append(queued, d)

\* enqueue_job with the document's job id: refused while that id exists.
Enqueued(d) == IF d \in Range(queued) \cup running THEN queued ELSE Append(queued, d)

\* A worker takes the job that was queued first.
StartJob ==
    /\ queued # <<>>
    /\ Cardinality(running) < MaxJobs
    /\ running' = running \cup {Head(queued)}
    /\ queued' = Tail(queued)
    \* the claim: the document is `processing`, no longer recoverable
    /\ waiting' = Remove(waiting, Head(queued))
    /\ UNCHANGED <<settled, batch, env>>

\* A delivery ends: it settles the document, or was cancelled at its deadline.
\* Putting the claim back touches updated_at.
End(d) ==
    /\ d \in running
    /\ running' = running \ {d}
    /\ \/ d \in Sound /\ settled' = settled \cup {d} /\ UNCHANGED waiting
       \/ d \in Slow /\ waiting' = Append(waiting, d) /\ UNCHANGED settled
    /\ UNCHANGED <<queued, batch, env>>

\* Redis loses a queued job.
LoseJob(i) ==
    /\ env = "flaky"
    /\ queued' = RemoveAt(queued, i)
    /\ UNCHANGED <<waiting, running, settled, batch, env>>

-----------------------------------------------------------------------------
(* Uploads and the sweep.                                                  *)

\* An upload commits its row and queues its job, or dies in between.
Upload(d) ==
    /\ d \notin Range(waiting) \cup running \cup settled \cup Broken
    /\ waiting' = Append(waiting, d)
    /\ \/ queued' = Enqueued(d)
       \/ env = "flaky" /\ UNCHANGED queued
    /\ UNCHANGED <<running, settled, batch, env>>

\* Mutant: candidates in a fixed order, not by when they were last updated.
OldestFixed(rows) ==
    LET byKind == SetToSeq(Slow) \o SetToSeq(Broken) \o SetToSeq(Sound)
        found  == SelectSeq(byKind, LAMBDA d : d \in Range(rows))
    IN  SubSeq(found, 1, IF Len(found) < BatchSize THEN Len(found) ELSE BatchSize)

\* list_for_recovery: ORDER BY updated_at LIMIT BatchSize.
Oldest(rows) == SubSeq(rows, 1, IF Len(rows) < BatchSize THEN Len(rows) ELSE BatchSize)

SweepRead(s) ==
    /\ batch[s] = <<>>
    /\ batch' = [batch EXCEPT ![s] = Oldest(waiting)]
    /\ UNCHANGED <<waiting, queued, running, settled, env>>

\* _job_from_row: the row's fields make a job, and its key is the derived one.
MakesJob(d) == d \notin Broken

\* The next candidate: skipped, queued, or found to have a job already.
SweepNext(s) ==
    /\ batch[s] # <<>>
    /\ queued' = IF MakesJob(Head(batch[s])) THEN Enqueued(Head(batch[s])) ELSE queued
    /\ batch' = [batch EXCEPT ![s] = Tail(@)]
    /\ UNCHANGED <<waiting, running, settled, env>>

\* Redis raises, or the worker dies: the rest of the batch is left.
SweepAbort(s) ==
    /\ env = "flaky" /\ batch[s] # <<>>
    /\ batch' = [batch EXCEPT ![s] = <<>>]
    /\ UNCHANGED <<waiting, queued, running, settled, env>>

Calm ==
    /\ env = "flaky" /\ env' = "calm"
    /\ UNCHANGED <<waiting, queued, running, settled, batch>>

RecoveryNext ==
    \/ StartJob \/ Calm
    \/ \E d \in Docs : End(d) \/ Upload(d)
    \/ \E i \in DOMAIN queued : LoseJob(i)
    \/ \E s \in Sweepers : SweepRead(s) \/ SweepNext(s) \/ SweepAbort(s)

\* Workers run, deliveries end by their deadline, and the cron fires each minute.
Fairness ==
    /\ WF_recoveryVars(StartJob)
    /\ \A d \in Docs : WF_recoveryVars(End(d))
    /\ \A s \in Sweepers : WF_recoveryVars(SweepRead(s)) /\ WF_recoveryVars(SweepNext(s))

RecoverySpec == RecoveryInit /\ [][RecoveryNext]_recoveryVars
FairRecovery == RecoverySpec /\ Fairness

-----------------------------------------------------------------------------
(* Properties.                                                             *)

\* "A document with a job already queued, deferred or running gets no second one,
\* however many sweeps race", against uploads and the end of the job they race.
OneJobPerDocument ==
    /\ \A i, j \in DOMAIN queued : queued[i] = queued[j] => i = j
    /\ Range(queued) \cap running = {}

\* A row that makes no job keeps its updated_at, so it never leaves the head of the
\* batch.  Fewer of them than the batch holds leave room in it.
Unclogged == Cardinality(Broken \cap Range(waiting)) < BatchSize

\* The batch is "a bound on the work a single minute's sweep does, not on what is
\* recovered": while rows that make no job do not fill it, once Redis is calm every
\* sound document settles, however many slow documents are older and return again
\* and again.
Recovered ==
    \A d \in Sound : env = "calm" /\ Unclogged /\ d \in Range(waiting) ~> d \in settled

=============================================================================
