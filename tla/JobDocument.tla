---- MODULE JobDocument ----
(***************************************************************************)
(* The durable job document of src/jobs/durable.py.  DurableJobStore       *)
(* changes it one update at a time; each operator below is the document    *)
(* after one such update, the update's filter included: where the filter   *)
(* does not match, the document stays as it is.  A whole operation of the  *)
(* store is one of them, except mark_failed and claim_for_run, which read  *)
(* the attempt count first: the reader passes what it saw.                 *)
(***************************************************************************)
EXTENDS Naturals

CONSTANTS
    MaxAttempts,   \* max_attempts of the job
    Workflows,     \* Temporal workflow ids
    NoWorkflow     \* workflow_id of a job that has none

ASSUME JobAssumption ==
    /\ MaxAttempts \in Nat \ {0}
    /\ NoWorkflow \notin Workflows

Terminal == {"succeeded", "dead_letter", "cancelled"}

(* "absent" is a document that was never inserted. *)
Status == {"absent", "queued", "running", "failed"} \cup Terminal

(* Only attempt_count >= max_attempts is ever asked of the count, so it    *)
(* stops at the maximum here.                                              *)
Document == [status: Status, attempts: 0..MaxAttempts,
             workflow: Workflows \cup {NoWorkflow}]

OneMore(n) == IF n < MaxAttempts THEN n + 1 ELSE MaxAttempts

Absent == [status |-> "absent", attempts |-> 0, workflow |-> NoWorkflow]

(* enqueue: a unique index keeps the document that is already there. *)
Enqueued(job) ==
    IF job.status = "absent" THEN [job EXCEPT !.status = "queued"] ELSE job

(* Mutant: the workflow_id test of the filter is forgotten. *)
StartableTwice(job) == job.status = "queued"

(* reserve_workflow_start, and whether it modifies the document. *)
Startable(job) == job.status = "queued" /\ job.workflow = NoWorkflow

Claimed(job, w) ==
    IF Startable(job) THEN [job EXCEPT !.workflow = w] ELSE job

(* record_workflow: no filter but the id. *)
Recorded(job, w) == [job EXCEPT !.workflow = w]

Open(job) == job.status \notin Terminal

(* mark_running *)
Running(job) ==
    IF Open(job)
    THEN [job EXCEPT !.status = "running", !.attempts = OneMore(@)]
    ELSE job

(* Mutant: the update has no status filter. *)
EndedUnfiltered(job, status) == [job EXCEPT !.status = status]

(* mark_dead_letter, mark_cancelled, mark_succeeded *)
Ended(job, status) ==
    IF Open(job) THEN [job EXCEPT !.status = status] ELSE job

(* Mutant: one attempt less. *)
FailedStatusEarly(n) ==
    IF n + 1 >= MaxAttempts THEN "dead_letter" ELSE "failed"

(* mark_failed, by a caller that read the attempt count n. *)
FailedStatus(n) == IF n >= MaxAttempts THEN "dead_letter" ELSE "failed"

Failed(job, n) == Ended(job, FailedStatus(n))

(* Mutant: the status is not put back. *)
ResetKeepingStatus(job, clearWorkflow) ==
    [job EXCEPT !.workflow = IF clearWorkflow THEN NoWorkflow ELSE @]

(* reset_for_retry: no filter but the id. *)
Reset(job, clearWorkflow) ==
    [job EXCEPT !.status = "queued",
                !.workflow = IF clearWorkflow THEN NoWorkflow ELSE @]

(* Mutant: the claim takes any job that has not ended. *)
RunnableOpen(job) == Open(job)

(* claim_for_run, by a runner that read the attempt count n. *)
Runnable(job) == job.status = "queued"

TakenToRun(job, n) ==
    IF Runnable(job)
    THEN [job EXCEPT !.status = "running", !.attempts = OneMore(n)]
    ELSE job
====
