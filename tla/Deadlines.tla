----------------------------- MODULE Deadlines -----------------------------
(***************************************************************************)
(* The three timeouts of ingestion against a clock: the job's (ARQ cancels *)
(* the delivery), the parse budget inside it (the parser is killed and the *)
(* document fails as `pdf_timeout`) and the age past which the reaper      *)
(* takes a claim.  Settings validates how they relate; here one document   *)
(* is parsed under whatever it accepts.  The document may be one whose     *)
(* parsing never ends.                                                     *)
(***************************************************************************)
EXTENDS Naturals

CONSTANTS
    Candidates,    \* settings an operator may write down
    StepTime,      \* how long a step other than parsing may take
    MaxCrashes     \* bound: deaths of the worker

ASSUME DeadlinesAssumption ==
    /\ Candidates \subseteq [job : Nat, parse : Nat, stale : Nat]
    /\ StepTime \in [{"claim", "read", "record", "release"} -> Nat]
    /\ MaxCrashes \in Nat

VARIABLES
    settings,   \* INGEST_{JOB_TIMEOUT,PARSE_TIMEOUT,STALE_PROCESSING}_SECONDS
    endless,    \* whether parsing this document never ends
    status, reason,
    job,        \* ARQ: "none", "queued", "running"
    pc,         \* the step the running delivery is in
    outcome,    \* what it is about to record
    ran, spent, claimed,  \* time in the job, in the step, since the claim
    died,       \* a worker has died holding the claim
    crashes

clocks == <<ran, spent, claimed>>
vars == <<settings, endless, status, reason, job, pc, outcome, clocks, died, crashes>>

-----------------------------------------------------------------------------
(* Settings.                                                               *)

Positive(s) == s.job > 0 /\ s.parse > 0 /\ s.stale > 0

\* Mutant: the threshold is not compared with the job's timeout.
OutlivesJobUnchecked(s) == TRUE

OutlivesJob(s) == s.stale > s.job

FitsInsideJob(s) == s.parse < s.job

Accepted(s) == Positive(s) /\ OutlivesJob(s) /\ FitsInsideJob(s)

TypeOK ==
    /\ settings \in Candidates /\ endless \in BOOLEAN
    /\ status \in {"pending", "processing", "parsed", "failed"}
    /\ reason \in {"none", "pdf_timeout", "stale_processing"}
    /\ (status = "failed") = (reason # "none")
    /\ job \in {"none", "queued", "running"}
    /\ pc \in {"idle", "claim", "read", "parse", "record", "release"}
    /\ outcome \in {"none", "parsed", "pdf_timeout"}
    /\ ran \in 0..settings.job
    /\ spent \in Nat /\ claimed \in 0..(settings.stale + 1)
    /\ died \in BOOLEAN /\ crashes \in 0..MaxCrashes

Init ==
    /\ settings \in {s \in Candidates : Accepted(s)}
    /\ endless \in BOOLEAN
    /\ status = "pending" /\ reason = "none"
    /\ job = "queued" /\ pc = "idle" /\ outcome = "none"
    /\ ran = 0 /\ spent = 0 /\ claimed = 0
    /\ died = FALSE /\ crashes = 0

-----------------------------------------------------------------------------
(* A delivery.                                                             *)

Goto(l) == pc' = l /\ spent' = 0

\* The delivery returns: keep_result = 0, so the job id is free again.
Finished == job' = "none" /\ pc' = "idle" /\ outcome' = "none" /\ spent' = 0 /\ ran' = 0

Start ==
    /\ job = "queued" /\ job' = "running" /\ ran' = 0 /\ Goto("claim")
    /\ UNCHANGED <<settings, endless, status, reason, outcome, claimed, died, crashes>>

\* The compare-and-set of _run; updated_at starts the claim's age.
Claim ==
    /\ pc = "claim"
    /\ IF status = "pending"
       THEN status' = "processing" /\ claimed' = 0 /\ Goto("read") /\ UNCHANGED <<job, outcome, ran>>
       ELSE Finished /\ UNCHANGED <<status, claimed>>
    /\ UNCHANGED <<settings, endless, reason, died, crashes>>

\* The bytes are read and verified.
Read ==
    /\ pc = "read" /\ Goto("parse")
    /\ UNCHANGED <<settings, endless, status, reason, job, outcome, ran, claimed, died, crashes>>

Parsed ==
    /\ pc = "parse" /\ ~endless
    /\ outcome' = "parsed" /\ Goto("record")
    /\ UNCHANGED <<settings, endless, status, reason, job, ran, claimed, died, crashes>>

\* Mutant: the killed parser is an interruption, and the claim is put back.
KilledPutBack ==
    /\ pc = "parse" /\ spent = settings.parse
    /\ Goto("release")
    /\ UNCHANGED <<settings, endless, status, reason, job, outcome, ran, claimed, died, crashes>>

\* anyio.fail_after: the parsing process is killed.
Killed ==
    /\ pc = "parse" /\ spent = settings.parse
    /\ outcome' = "pdf_timeout" /\ Goto("record")
    /\ UNCHANGED <<settings, endless, status, reason, job, ran, claimed, died, crashes>>

\* _store_parsed or _fail, by compare-and-set on the claim.
Record ==
    /\ pc = "record"
    /\ IF status # "processing" THEN UNCHANGED <<status, reason>>
       ELSE IF outcome = "parsed" THEN status' = "parsed" /\ UNCHANGED reason
       ELSE status' = "failed" /\ reason' = "pdf_timeout"
    /\ Finished
    /\ UNCHANGED <<settings, endless, claimed, died, crashes>>

Cancellable == pc \in {"claim", "read", "parse", "record"}

\* ARQ cancels the job at its timeout: no retry follows.
Cancel ==
    /\ Cancellable /\ ran = settings.job
    /\ IF pc = "claim" THEN Finished
       ELSE Goto("release") /\ outcome' = "none" /\ UNCHANGED <<job, ran>>
    /\ UNCHANGED <<settings, endless, status, reason, claimed, died, crashes>>

\* _release_after_interruption, shielded.
Release ==
    /\ pc = "release"
    /\ status' = IF status = "processing" THEN "pending" ELSE status
    /\ Finished
    /\ UNCHANGED <<settings, endless, reason, claimed, died, crashes>>

\* The worker dies; ARQ delivers the job again.
Crash ==
    /\ job = "running" /\ crashes < MaxCrashes
    /\ crashes' = crashes + 1
    /\ died' = (died \/ pc # "claim")
    /\ job' = "queued" /\ pc' = "idle" /\ outcome' = "none" /\ spent' = 0
    /\ UNCHANGED <<settings, endless, status, reason, ran, claimed>>

-----------------------------------------------------------------------------
(* The crons and the clock.                                                *)

Stale == status = "processing" /\ claimed > settings.stale

Reap ==
    /\ Stale
    /\ status' = "failed" /\ reason' = "stale_processing"
    /\ UNCHANGED <<settings, endless, job, pc, outcome, clocks, died, crashes>>

Sweep ==
    /\ status = "pending" /\ job = "none"
    /\ job' = "queued"
    /\ UNCHANGED <<settings, endless, status, reason, pc, outcome, clocks, died, crashes>>

\* A timer that has run out fires before more time passes, and no step but
\* parsing takes longer than StepTime.
Overdue ==
    \/ Cancellable /\ ran = settings.job
    \/ pc = "parse" /\ spent = settings.parse
    \/ pc \in DOMAIN StepTime /\ spent = StepTime[pc]

Tick ==
    /\ ~Overdue
    /\ ran' = IF Cancellable THEN ran + 1 ELSE ran
    /\ spent' = IF pc # "idle" THEN spent + 1 ELSE spent
    /\ claimed' = IF status = "processing" /\ ~Stale THEN claimed + 1 ELSE claimed
    /\ UNCHANGED <<settings, endless, status, reason, job, pc, outcome, died, crashes>>

Step == Start \/ Claim \/ Read \/ Killed \/ Record \/ Cancel \/ Release

Next == Step \/ Parsed \/ Crash \/ Reap \/ Sweep \/ Tick

Spec == Init /\ [][Next]_vars

\* Time passes, a delivery goes on, and the crons fire each minute.  Nothing is
\* assumed of parsing.
FairSpec == Spec /\ WF_vars(Tick) /\ WF_vars(Step) /\ WF_vars(Reap) /\ WF_vars(Sweep)

-----------------------------------------------------------------------------
(* Properties.                                                             *)

\* A threshold longer than the job's timeout, but by less than putting a cancelled
\* claim back may take.  Settings asks for `stale > job` and no more.
Tight ==
    settings.stale > settings.job /\ settings.stale < settings.job + StepTime["release"]

\* "The reaper must never be able to fail a job that is still running": it takes a
\* claim only when the worker that made it has died, unless the threshold is tight.
ReaperSparesTheLiving == reason = "stale_processing" /\ ~Tight => died

\* The job's timeout leaves room for the steps around the parsing.
HasRoom ==
    StepTime["claim"] + StepTime["read"] + settings.parse + StepTime["record"] < settings.job

\* "A document that takes too long to parse must fail *as* too long": where the
\* timeouts leave room and no worker dies, parsing that never ends is recorded as
\* such, and is not put back and swept up "again, and again".
TooLongFails ==
    HasRoom => <>(status \in {"parsed", "failed"} /\ (endless /\ ~died => reason = "pdf_timeout"))

=============================================================================
