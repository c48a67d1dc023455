--------------------------- MODULE DeadlinesProofs ---------------------------
(***************************************************************************)
(* The two crons of the worker.  How far the reaper's threshold has to     *)
(* exceed the job's timeout, for settings of any size, steps of any length *)
(* and any number of crashes; and that however many sweeps race, they      *)
(* never give a document a second job.                                     *)
(***************************************************************************)
EXTENDS Deadlines, Recovery, TLAPS

\* The steps of a delivery that has the claim.
Holding == {"read", "parse", "record", "release"}

Runs == (job = "running") <=> (pc # "idle")

\* Why a claim is younger than the job: its age is at most what the job's own timer
\* shows, and after the cancellation, which stops that timer, what the release took.
ClaimAge ==
    status = "processing" /\ ~died =>
        /\ pc \in Holding
        /\ claimed <= ran + (IF pc = "release" THEN spent ELSE 0)

InTime == pc = "release" => spent <= StepTime["release"]

AgeInv ==
    /\ TypeOK /\ Accepted(settings)
    /\ Runs /\ ClaimAge /\ InTime
    /\ ReaperSparesTheLiving

\* The clocks and the statuses keep their types.
LEMMA TypeStep == ASSUME DeadlinesAssumption, TypeOK, Runs, [Next]_vars PROVE TypeOK' /\ Runs'
<1> USE DEF DeadlinesAssumption, TypeOK, Runs, Goto, Finished, clocks
<1>s. settings.job \in Nat /\ settings.stale \in Nat
  OBVIOUS
<1>1. CASE Start
  BY <1>1, <1>s DEF Start
<1>2. CASE Claim
  BY <1>2, <1>s DEF Claim
<1>3. CASE Read
  BY <1>3, <1>s DEF Read
<1>4. CASE Killed
  BY <1>4, <1>s DEF Killed
<1>5. CASE Record
  BY <1>5, <1>s DEF Record
<1>6. CASE Cancel
  BY <1>6, <1>s DEF Cancel, Cancellable
<1>7. CASE Release
  BY <1>7, <1>s DEF Release
<1>8. CASE Parsed
  BY <1>8, <1>s DEF Parsed
<1>9. CASE Crash
  BY <1>9, <1>s DEF Crash
<1>10. CASE Reap
  BY <1>10, <1>s DEF Reap, Stale
<1>11. CASE Sweep
  BY <1>11, <1>s DEF Sweep
<1>12. CASE Tick
  BY <1>12, <1>s DEF Tick, Overdue, Stale, Cancellable
<1>13. CASE UNCHANGED vars
  BY <1>13 DEF vars
<1>. QED
  BY <1>1, <1>2, <1>3, <1>4, <1>5, <1>6, <1>7, <1>8, <1>9, <1>10, <1>11, <1>12, <1>13
     DEF Next, Step

\* A claim held by a living delivery never outgrows the job's timer.
LEMMA AgeStep == ASSUME DeadlinesAssumption, AgeInv, [Next]_vars PROVE AgeInv'
<1>t. TypeOK' /\ Runs'
  BY TypeStep DEF AgeInv
<1>a. settings' = settings
  BY DEF Next, Step, Start, Claim, Read, Killed, Record, Cancel, Release, Parsed, Crash,
         Reap, Sweep, Tick, vars
<1>b. Accepted(settings)'
  BY <1>a DEF AgeInv, Accepted, Positive, OutlivesJob, FitsInsideJob
<1> USE DEF DeadlinesAssumption, TypeOK, Runs, AgeInv, ClaimAge, InTime, Holding,
            ReaperSparesTheLiving, Tight, Goto, Finished, clocks
<1>c. ClaimAge' /\ InTime' /\ ReaperSparesTheLiving'
  <2>1. CASE Start
    BY <2>1 DEF Start
  <2>2. CASE Claim
    BY <2>2 DEF Claim
  <2>3. CASE Read
    BY <2>3 DEF Read
  <2>4. CASE Killed
    BY <2>4 DEF Killed
  <2>5. CASE Record
    BY <2>5 DEF Record
  <2>6. CASE Cancel
    BY <2>6 DEF Cancel, Cancellable
  <2>7. CASE Release
    BY <2>7 DEF Release
  <2>8. CASE Parsed
    BY <2>8 DEF Parsed
  <2>9. CASE Crash
    BY <2>9 DEF Crash
  <2>10. CASE Reap
    <3>1. settings.stale > settings.job /\ settings.job \in Nat /\ settings.stale \in Nat
      BY DEF Accepted, OutlivesJob
    <3>2. ~Tight => settings.job + StepTime["release"] <= settings.stale
      BY <3>1
    <3>3. ~Tight => died
      BY <2>10, <3>1, <3>2 DEF Reap, Stale
    <3>. QED
      BY <2>10, <3>3 DEF Reap
  <2>11. CASE Sweep
    BY <2>11 DEF Sweep
  <2>12. CASE Tick
    BY <2>12 DEF Tick, Overdue, Cancellable
  <2>13. CASE UNCHANGED vars
    BY <2>13 DEF vars
  <2>. QED
    BY <2>1, <2>2, <2>3, <2>4, <2>5, <2>6, <2>7, <2>8, <2>9, <2>10, <2>11, <2>12, <2>13
       DEF Next, Step
<1>. QED
  BY <1>t, <1>b, <1>c

\* "The reaper must never be able to fail a job that is still running": it takes only
\* the claims of workers that have died, under every accepted setting but a threshold
\* that exceeds the timeout by less than a release takes.
THEOREM LivingAreSpared == Spec => []ReaperSparesTheLiving
<1>1. Init => AgeInv
  <2> SUFFICES ASSUME Init PROVE AgeInv
    OBVIOUS
  <2>1. settings.job \in Nat /\ settings.stale \in Nat /\ Accepted(settings)
    BY DeadlinesAssumption DEF DeadlinesAssumption, Init
  <2>2. TypeOK
    <3>1. ran \in 0..settings.job /\ claimed \in 0..(settings.stale + 1) /\ crashes \in 0..MaxCrashes
      BY <2>1, DeadlinesAssumption DEF DeadlinesAssumption, Init
    <3>2. (status = "failed") = (reason # "none")
      BY DEF Init
    <3>3. died \in BOOLEAN /\ endless \in BOOLEAN /\ spent \in Nat /\ settings \in Candidates
      BY DEF Init
    <3>. QED
      BY <3>1, <3>2, <3>3 DEF Init, TypeOK
  <2>3. Runs /\ ClaimAge /\ InTime /\ ReaperSparesTheLiving
    BY DEF Init, Runs, ClaimAge, InTime, ReaperSparesTheLiving
  <2>. QED
    BY <2>1, <2>2, <2>3 DEF AgeInv
<1>2. AgeInv /\ [Next]_vars => AgeInv'
  BY DeadlinesAssumption, AgeStep
<1>3. AgeInv => ReaperSparesTheLiving
  BY DEF AgeInv
<1>. QED
  BY <1>1, <1>2, <1>3, PTL DEF Spec

-----------------------------------------------------------------------------
(* The recovery sweep, with any number of sweepers, documents and jobs.    *)

\* No two places of q have the same document.
Distinct(q) == \A i, j \in DOMAIN q : q[i] = q[j] => i = j

Entries(q) == {q[i] : i \in DOMAIN q}

\* The queue is a queue, of whatever documents, with a job for each.
QueueInv ==
    /\ queued \in Seq(Entries(queued))
    /\ Distinct(queued)
    /\ Entries(queued) \cap running = {}

\* A new document at the end.
LEMMA AppendDistinct ==
    ASSUME NEW q, q \in Seq(Entries(q)), Distinct(q), NEW d, d \notin Entries(q)
    PROVE  /\ Append(q, d) \in Seq(Entries(Append(q, d)))
           /\ Distinct(Append(q, d))
           /\ Entries(Append(q, d)) = Entries(q) \cup {d}
<1> DEFINE S == Entries(q) \cup {d}
           r == Append(q, d)
<1>1. q \in Seq(S) /\ d \in S /\ DOMAIN q = 1..Len(q) /\ Len(q) \in Nat
  OBVIOUS
<1>2. \A i \in DOMAIN q : q[i] \in Entries(q)
  BY DEF Entries
<1> HIDE DEF S
<1>3. /\ r \in Seq(S) /\ DOMAIN r = 1..(Len(q) + 1)
      /\ \A i \in 1..Len(q) : r[i] = q[i]
      /\ r[Len(q) + 1] = d
  BY <1>1
<1>4. \A i \in 1..(Len(q) + 1) : i \in 1..Len(q) \/ i = Len(q) + 1
  BY <1>1
<1> HIDE DEF r
<1>5. Entries(r) = Entries(q) \cup {d}
  <2>1. \A x \in Entries(r) : x \in Entries(q) \cup {d}
    BY <1>1, <1>3, <1>4 DEF Entries
  <2>2. \A x \in Entries(q) : x \in Entries(r)
    BY <1>1, <1>3 DEF Entries
  <2>3. d \in Entries(r)
    BY <1>1, <1>3 DEF Entries
  <2>. QED
    BY <2>1, <2>2, <2>3
<1>6. Distinct(r)
  BY <1>1, <1>2, <1>3, <1>4 DEF Distinct
<1>. QED
  BY <1>3, <1>5, <1>6 DEF r, S

\* A queue without one of its places, every other where it was or one earlier.
LEMMA ShorterDistinct ==
    ASSUME NEW q, q \in Seq(Entries(q)), Distinct(q), NEW k \in 1..Len(q),
           NEW r, r \in Seq(Entries(q)), Len(r) = Len(q) - 1,
           \A i \in 1..Len(r) : r[i] = q[IF i < k THEN i ELSE i + 1]
    PROVE  /\ r \in Seq(Entries(r)) /\ Distinct(r)
           /\ Entries(r) \subseteq Entries(q) \ {q[k]}
<1>1. DOMAIN q = 1..Len(q) /\ Len(q) \in Nat /\ DOMAIN r = 1..Len(r) /\ Len(r) \in Nat
  OBVIOUS
<1> DEFINE at(i) == IF i < k THEN i ELSE i + 1
<1>2. \A i \in 1..Len(r) : at(i) \in 1..Len(q) /\ at(i) # k /\ r[i] = q[at(i)]
  BY <1>1
<1>3. \A i, j \in 1..Len(r) : at(i) = at(j) => i = j
  BY <1>1
<1> HIDE DEF at
<1>4. Distinct(r)
  BY <1>1, <1>2, <1>3 DEF Distinct
<1>5. \A i \in 1..Len(r) : q[at(i)] \in Entries(q) /\ q[at(i)] # q[k]
  BY <1>1, <1>2 DEF Entries, Distinct
<1>6. Entries(r) \subseteq Entries(q) \ {q[k]}
  <2> SUFFICES ASSUME NEW x \in Entries(r) PROVE x \in Entries(q) \ {q[k]}
    OBVIOUS
  <2>1. PICK i \in 1..Len(r) : x = r[i]
    BY <1>1 DEF Entries
  <2>. QED
    BY <1>2, <1>5, <2>1
<1>7. r \in Seq(Entries(r))
  <2>1. \A i \in 1..Len(r) : r[i] \in Entries(r)
    BY <1>1 DEF Entries
  <2>. QED
    BY <1>1, <2>1
<1>. QED
  BY <1>4, <1>6, <1>7

\* enqueue_job, under the document's job id.
LEMMA EnqueuedOnce ==
    ASSUME QueueInv, NEW d
    PROVE  /\ Enqueued(d) \in Seq(Entries(Enqueued(d)))
           /\ Distinct(Enqueued(d))
           /\ Entries(Enqueued(d)) \cap running = {}
<1>1. Enqueued(d) = IF d \in Entries(queued) \cup running THEN queued ELSE Append(queued, d)
  BY DEF Enqueued, Range, Entries
<1>2. CASE d \in Entries(queued) \cup running
  BY <1>1, <1>2 DEF QueueInv
<1>3. CASE d \notin Entries(queued) \cup running
  BY <1>1, <1>3, AppendDistinct DEF QueueInv
<1>. QED
  BY <1>2, <1>3

\* The later part of two sequences joined.
LEMMA JoinedAt ==
    ASSUME NEW S, NEW u \in Seq(S), NEW v \in Seq(S), NEW i \in Nat, i > Len(u), i <= Len(u) + Len(v)
    PROVE  (u \o v)[i] = v[i - Len(u)]
<1>1. i \in 1..(Len(u) + Len(v)) /\ ~(i <= Len(u))
  OBVIOUS
<1>. QED
  BY <1>1

\* Every step keeps a job per document.
LEMMA QueueStep == QueueInv /\ [RecoveryNext]_recoveryVars => QueueInv'
<1> SUFFICES ASSUME QueueInv, [RecoveryNext]_recoveryVars PROVE QueueInv'
  OBVIOUS
<1>1. queued \in Seq(Entries(queued)) /\ Distinct(queued) /\ Entries(queued) \cap running = {}
  BY DEF QueueInv
<1>2. CASE StartJob
  <2>1. queued # <<>> /\ running' = running \cup {Head(queued)} /\ queued' = Tail(queued)
    BY <1>2 DEF StartJob
  <2>2. /\ queued' \in Seq(Entries(queued)) /\ Len(queued') = Len(queued) - 1 /\ 1 \in 1..Len(queued)
        /\ Head(queued) = queued[1]
    BY <1>1, <2>1
  <2>3. \A i \in 1..Len(queued') : queued'[i] = queued[IF i < 1 THEN i ELSE i + 1]
    BY <1>1, <2>1, <2>2
  <2>4. /\ queued' \in Seq(Entries(queued')) /\ Distinct(queued')
        /\ Entries(queued') \subseteq Entries(queued) \ {queued[1]}
    BY <1>1, <2>2, <2>3, ShorterDistinct
  <2>5. Entries(queued') \cap running' = {}
    BY <1>1, <2>1, <2>2, <2>4
  <2>. QED
    BY <2>4, <2>5 DEF QueueInv
<1>3. ASSUME NEW d, End(d) PROVE QueueInv'
  <2>1. queued' = queued /\ running' \subseteq running
    BY <1>3 DEF End
  <2>. QED
    BY <1>1, <2>1 DEF QueueInv
<1>4. ASSUME NEW k \in DOMAIN queued, LoseJob(k) PROVE QueueInv'
  <2>1. running' = running /\ queued' = SubSeq(queued, 1, k - 1) \o SubSeq(queued, k + 1, Len(queued))
    BY <1>4 DEF LoseJob, RemoveAt
  <2> DEFINE S == Entries(queued)
             u == SubSeq(queued, 1, k - 1)
             v == SubSeq(queued, k + 1, Len(queued))
  <2>2. k \in 1..Len(queued) /\ Len(queued) \in Nat /\ queued \in Seq(S)
    BY <1>1, <1>4
  <2> HIDE DEF S
  <2>3. u \in Seq(S) /\ Len(u) = k - 1 /\ \A i \in 1..(k - 1) : u[i] = queued[i]
    BY <2>2
  <2>4. /\ v \in Seq(S) /\ Len(v) = Len(queued) - k
        /\ \A i \in 1..(Len(queued) - k) : v[i] = queued[k + i]
    BY <2>2
  <2>5. queued' = u \o v
    BY <2>1
  <2> HIDE DEF u, v
  <2>6. queued' \in Seq(S) /\ Len(queued') = Len(queued) - 1
    BY <2>2, <2>3, <2>4, <2>5
  <2>7. ASSUME NEW i \in 1..Len(queued') PROVE queued'[i] = queued[IF i < k THEN i ELSE i + 1]
    <3>1. CASE i < k
      <4>1. i \in 1..(k - 1)
        BY <2>2, <2>6, <3>1
      <4>. QED
        BY <2>3, <2>4, <2>5, <3>1, <4>1
    <3>2. CASE ~(i < k)
      <4>1. i - (k - 1) \in 1..(Len(queued) - k) /\ k + (i - (k - 1)) = i + 1 /\ i > Len(u) /\ i \in 1..(Len(u) + Len(v))
        BY <2>2, <2>3, <2>4, <2>6, <3>2
      <4>2. i \in Nat /\ i <= Len(u) + Len(v)
        BY <4>1
      <4>3. (u \o v)[i] = v[i - Len(u)]
        BY <2>3, <2>4, <4>1, <4>2, JoinedAt
      <4>. QED
        BY <2>3, <2>4, <2>5, <3>2, <4>1, <4>3
    <3>. QED
      BY <3>1, <3>2
  <2>8. /\ queued' \in Seq(Entries(queued')) /\ Distinct(queued')
        /\ Entries(queued') \subseteq Entries(queued) \ {queued[k]}
    BY <1>1, <2>2, <2>6, <2>7, ShorterDistinct DEF S
  <2>. QED
    BY <1>1, <2>1, <2>8 DEF QueueInv
<1>5. ASSUME NEW d, queued' = Enqueued(d), running' = running PROVE QueueInv'
  BY <1>5, EnqueuedOnce DEF QueueInv
<1>6. ASSUME queued' = queued, running' = running PROVE QueueInv'
  BY <1>1, <1>6 DEF QueueInv
<1>7. ASSUME NEW d, Upload(d) PROVE QueueInv'
  BY <1>5, <1>6, <1>7 DEF Upload
<1>8. ASSUME NEW s, SweepRead(s) \/ SweepAbort(s) PROVE QueueInv'
  BY <1>6, <1>8 DEF SweepRead, SweepAbort
<1>9. ASSUME NEW s, SweepNext(s) PROVE QueueInv'
  <2>1. running' = running /\ (queued' = queued \/ queued' = Enqueued(Head(batch[s])))
    BY <1>9 DEF SweepNext
  <2>. QED
    BY <1>5, <1>6, <2>1
<1>10. CASE Calm
  BY <1>6, <1>10 DEF Calm
<1>11. CASE UNCHANGED recoveryVars
  BY <1>6, <1>11 DEF recoveryVars
<1>. QED
  BY <1>2, <1>3, <1>4, <1>7, <1>8, <1>9, <1>10, <1>11 DEF RecoveryNext

\* "A document with a job already queued, deferred or running gets no second one,
\* however many sweeps race": for any number of sweeps, uploads, workers and lost
\* jobs.
THEOREM SweepsNeverDuplicate == RecoverySpec => []OneJobPerDocument
<1>1. RecoveryInit => QueueInv
  BY DEF RecoveryInit, QueueInv, Entries, Distinct
<1>2. QueueInv => OneJobPerDocument
  BY DEF QueueInv, Entries, Distinct, OneJobPerDocument, Range
<1>. QED
  BY <1>1, <1>2, QueueStep, PTL DEF RecoverySpec

=============================================================================
