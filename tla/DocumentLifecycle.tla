------------------------- MODULE DocumentLifecycle -------------------------
(***************************************************************************)
(* What ingestion promises the owner of a document (DocumentStatus,        *)
(* ADR-0009): an uploaded document passes through three stages, one claim  *)
(* and one stage at a time; its status always tells how many stages are    *)
(* done; a claim ends by completing its stage, by putting the document     *)
(* back where it was, or by failing it; ready and failed are final.        *)
(***************************************************************************)
EXTENDS Naturals

CONSTANT Docs

VARIABLES
    status,    \* the status a client reads
    done,      \* stages whose work is stored
    deleted    \* documents their owner can no longer see

vars == <<status, done, deleted>>

\* The status of a document nobody is working on, by the stages it has behind it.
StatusAfter(n) == IF n = 0 THEN "pending"
                  ELSE IF n = 1 THEN "parsed"
                  ELSE IF n = 2 THEN "chunked" ELSE "ready"

Live(d) == d \notin deleted

Init ==
    /\ status = [d \in Docs |-> "absent"]
    /\ done = [d \in Docs |-> 0]
    /\ deleted = {}

Create(d) ==
    /\ status[d] = "absent"
    /\ status' = [status EXCEPT ![d] = "pending"]
    /\ UNCHANGED <<done, deleted>>

Claim(d) ==
    /\ Live(d)
    /\ done[d] < 3
    /\ status[d] = StatusAfter(done[d])
    /\ status' = [status EXCEPT ![d] = "processing"]
    /\ UNCHANGED <<done, deleted>>

\* The claimed stage's work and the new status become visible together.
Complete(d) ==
    /\ Live(d)
    /\ status[d] = "processing"
    /\ done' = [done EXCEPT ![d] = @ + 1]
    /\ status' = [status EXCEPT ![d] = StatusAfter(done[d] + 1)]
    /\ UNCHANGED deleted

PutBack(d) ==
    /\ Live(d)
    /\ status[d] = "processing"
    /\ status' = [status EXCEPT ![d] = StatusAfter(done[d])]
    /\ UNCHANGED <<done, deleted>>

\* Abandoned claims may be failed together.
Fail(ds) ==
    /\ ds # {}
    /\ \A d \in ds : Live(d) /\ status[d] = "processing"
    /\ status' = [d \in Docs |-> IF d \in ds THEN "failed" ELSE status[d]]
    /\ UNCHANGED <<done, deleted>>

Delete(d) ==
    /\ Live(d)
    /\ status[d] # "absent"
    /\ deleted' = deleted \cup {d}
    /\ UNCHANGED <<status, done>>

Next ==
    \/ \E d \in Docs : Create(d) \/ Claim(d) \/ Complete(d) \/ PutBack(d) \/ Delete(d)
    \/ \E ds \in SUBSET Docs : Fail(ds)

Spec == Init /\ [][Next]_vars

=============================================================================
