---- MODULE JobWorkflow ----
(***************************************************************************)
(* One durable v2 job from its submission to its end: the HTTP handlers    *)
(* that submit, retry and cancel it (src/api/routes/v2/memory.py, jobs.py, *)
(* temporal_client.py), the Temporal workflows they start (workflows.py,   *)
(* activities.py), the job document they share (JobDocument) and the       *)
(* credits held for it (CreditHold).  The id of a job is a hash of its     *)
(* content, so every submission of the same content meets the same         *)
(* document and the same reservation.                                      *)
(*                                                                         *)
(* A handler awaits each call to the job store, the billing store and      *)
(* Temporal in turn, and anything may happen between two calls: each call  *)
(* is one action.  What was read earlier is kept in the handler's state.   *)
(***************************************************************************)
EXTENDS JobDocument, CreditHold, FiniteSets

CONSTANTS
    Submitters,    \* calls of POST /v2/memory/ingest or batch-ingest
    Retriers,      \* calls of POST /v2/jobs/{id}/retry
    Cancellers,    \* calls of POST /v2/jobs/{id}/cancel
    ActivityTries, \* maximum_attempts of the activity retry policy
    Faults         \* what may go wrong in this run

Handlers == Submitters \cup Retriers \cup Cancellers

FaultKinds ==
    {"no_credits",        \* the wallet lacks the credits to hold or to debit
     "store_fails",       \* a call to the job or billing store raises
     "start_fails",       \* start_workflow raises, nothing started
     "reply_lost",        \* start_workflow raises though it started
     "signal_fails",      \* cancelling the workflow raises
     "work_fails",        \* the pipeline raises
     "activity_lost",     \* an attempt's worker or its answer is lost
     "activity_timeout",  \* an attempt times out and runs on
     "api_crash"}         \* the API process dies under a handler

ASSUME WorkflowAssumption ==
    /\ ActivityTries \in Nat \ {0}
    /\ Faults \subseteq FaultKinds
    /\ Submitters \cap Retriers = {}
    /\ Cancellers \cap (Submitters \cup Retriers) = {}

VARIABLES
    job,           \* the job document
    handler,       \* per handler: where it is and what it has read
    flow           \* per workflow id: its run

vars == <<job, hold, debits, handler, flow>>

HandlerSteps ==
    {"ready", "enqueue", "claim", "reserve", "reset", "reread", "start",
     "record", "read_attempts", "fail", "refund", "signal", "mark",
     "release", "done"}

(* created: this call took the hold; seen: workflow id it read or made;    *)
(* attempts: attempt count mark_failed read.                               *)
Handler == [step: HandlerSteps, created: BOOLEAN,
            seen: Workflows \cup {NoWorkflow}, attempts: 0..MaxAttempts]

(* The steps of a workflow: one per store call of its activities, and one  *)
(* for the pipeline.                                                       *)
FlowSteps == {"run", "work", "commit", "succeed", "release", "bury"}

(* at: step of the live attempt; tries: attempts of this activity that     *)
(* failed; cancelled: a cancellation was requested; stray: step of an      *)
(* attempt that runs on though the workflow has given it up (at most one   *)
(* per workflow is followed).                                              *)
Flow == [at: FlowSteps \cup {"none", "closed"}, tries: 0..ActivityTries,
         cancelled: BOOLEAN, stray: FlowSteps \cup {"none"}]

Init ==
    /\ job = Absent
    /\ HoldInit
    /\ handler = [h \in Handlers |->
                    [step |-> "ready", created |-> FALSE,
                     seen |-> NoWorkflow, attempts |-> 0]]
    /\ flow = [w \in Workflows |->
                 [at |-> "none", tries |-> 0, cancelled |-> FALSE,
                  stray |-> "none"]]

-----------------------------------------------------------------------------
(* Handlers. *)

At(h, step) == handler[h].step = step

Go(h, step) == handler' = [handler EXCEPT ![h].step = step]

Live(w) == flow[w].at \in FlowSteps

(* A workflow id made of a new attempt id. *)
Fresh(w) == /\ flow[w].at = "none"
            /\ job.workflow # w
            /\ \A h \in Handlers : handler[h].seen # w

(* Mutant: a refused reservation does not end the call. *)
HoldCreditsIfAny(h, next) ==
    /\ TakeHold \/ UNCHANGED holdVars
    /\ handler' = [handler EXCEPT ![h].step = next, ![h].created = hold # hold']
    /\ UNCHANGED <<job, flow>>

(* reserve_job_credits / reserve_credits: take the hold, or be handed the  *)
(* one that exists; without credits the call ends with 402.                *)
HoldCredits(h, next) ==
    /\ \/ /\ TakeHold
          /\ handler' = [handler EXCEPT ![h].step = next, ![h].created = TRUE]
       \/ /\ hold \in {"active", "committed"}
          /\ Go(h, next)
          /\ UNCHANGED holdVars
       \/ /\ "no_credits" \in Faults /\ hold \in {"none", "released"}
          /\ Go(h, "done")
          /\ UNCHANGED holdVars
    /\ UNCHANGED <<job, flow>>

(* release_job_reservation / release_job_billing: an active hold goes back. *)
GiveBack == ReleaseHold \/ (hold # "active" /\ UNCHANGED holdVars)

SubmitReserve(h) == At(h, "ready") /\ HoldCredits(h, "enqueue")

(* _enqueue_and_start: enqueue, and start what is new or still unstarted. *)
SubmitEnqueue(h) ==
    /\ At(h, "enqueue")
    /\ job' = Enqueued(job)
    /\ Go(h, IF job.status = "absent" \/ Startable(job)
             THEN "claim" ELSE "done")
    /\ UNCHANGED <<holdVars, flow>>

(* reserve_workflow_start under a fresh id; the loser only reads the job. *)
SubmitClaim(h) ==
    /\ At(h, "claim")
    /\ \/ \E w \in Workflows : Fresh(w) /\ Startable(job)
                               /\ job' = Claimed(job, w)
          /\ Go(h, "reread")
       \/ ~Startable(job) /\ Go(h, "done") /\ UNCHANGED job
    /\ UNCHANGED <<holdVars, flow>>

(* retry_job: only a failed, dead-lettered or cancelled job. *)
RetryRead(h) ==
    /\ At(h, "ready")
    /\ Go(h, IF job.status \in {"failed", "dead_letter", "cancelled"}
             THEN "reserve" ELSE "done")
    /\ UNCHANGED <<job, holdVars, flow>>

RetryReserve(h) == At(h, "reserve") /\ HoldCredits(h, "reset")

RetryReset(h) ==
    /\ At(h, "reset")
    /\ job' = Reset(job, TRUE)
    /\ Go(h, "reread")
    /\ UNCHANGED <<holdVars, flow>>

(* The job is read again; start_job_workflow goes by what is read here. *)
Reread(h) ==
    /\ At(h, "reread")
    /\ handler' = [handler EXCEPT ![h].step = "start",
                                  ![h].seen = job.workflow]
    /\ UNCHANGED <<job, holdVars, flow>>

(* Where a handler goes when starting the workflow raises: a submission    *)
(* marks the job failed and then gives its hold back, a retry gives the    *)
(* hold back first.                                                        *)
AfterStartError(h) == IF h \in Submitters THEN "read_attempts" ELSE "refund"

Begun(w) ==
    [flow EXCEPT ![w].at = "run", ![w].tries = 0, ![w].cancelled = FALSE]

(* start_workflow with the job's workflow id, or a fresh one: refused      *)
(* while a workflow of that id is open.                                    *)
StartWorkflow(h) ==
    /\ At(h, "start")
    /\ \E w \in Workflows :
          /\ IF handler[h].seen = NoWorkflow THEN Fresh(w)
                                             ELSE w = handler[h].seen
          /\ \/ /\ ~Live(w)
                /\ flow' = Begun(w)
                /\ \/ handler' = [handler EXCEPT ![h].step = "record",
                                                 ![h].seen = w]
                   \/ "reply_lost" \in Faults /\ Go(h, AfterStartError(h))
             \/ /\ Live(w) \/ "start_fails" \in Faults
                /\ Go(h, AfterStartError(h))
                /\ UNCHANGED flow
    /\ UNCHANGED <<job, holdVars>>

(* A submission then reads the job once more, and when that raises it gives *)
(* its hold back though the workflow runs.                                 *)
RecordWorkflow(h) ==
    /\ At(h, "record")
    /\ job' = Recorded(job, handler[h].seen)
    /\ \/ Go(h, "done")
       \/ "store_fails" \in Faults /\ h \in Submitters /\ Go(h, "refund")
    /\ UNCHANGED <<holdVars, flow>>

(* mark_failed reads the job and leaves a terminal one alone ... *)
FailRead(h) ==
    LET after == IF h \in Submitters THEN "refund" ELSE "done" IN
    /\ At(h, "read_attempts")
    /\ handler' = [handler EXCEPT
          ![h].step = IF Open(job) THEN "fail" ELSE after,
          ![h].attempts = job.attempts]
    /\ UNCHANGED <<job, holdVars, flow>>

(* ... and then writes the status that the count it read stands for. *)
FailWrite(h) ==
    /\ At(h, "fail")
    /\ job' = Failed(job, handler[h].attempts)
    /\ Go(h, IF h \in Submitters THEN "refund" ELSE "done")
    /\ UNCHANGED <<holdVars, flow>>

(* A hold this call took goes back; one it was handed stays. *)
Refund(h) ==
    /\ At(h, "refund")
    /\ IF handler[h].created THEN GiveBack ELSE UNCHANGED holdVars
    /\ Go(h, IF h \in Submitters THEN "done" ELSE "read_attempts")
    /\ UNCHANGED <<job, flow>>

(* cancel_job: only a queued, running or cancelled job; a cancelled one    *)
(* only has its hold given back again.                                     *)
CancelRead(h) ==
    /\ At(h, "ready")
    /\ handler' = [handler EXCEPT
          ![h].seen = job.workflow,
          ![h].step = CASE job.status \in {"queued", "running"} -> "signal"
                        [] job.status = "cancelled" -> "release"
                        [] OTHER -> "done"]
    /\ UNCHANGED <<job, holdVars, flow>>

(* cancel_job_workflow: nothing to do without an id, and no error when the *)
(* workflow is unknown or closed.                                          *)
CancelSignal(h) ==
    LET w == handler[h].seen IN
    /\ At(h, "signal")
    /\ \/ /\ Go(h, "mark")
          /\ flow' = IF w # NoWorkflow /\ Live(w)
                     THEN [flow EXCEPT ![w].cancelled = TRUE] ELSE flow
       \/ /\ "signal_fails" \in Faults /\ w # NoWorkflow
          /\ Go(h, "done")
          /\ UNCHANGED flow
    /\ UNCHANGED <<job, holdVars>>

CancelMark(h) ==
    /\ At(h, "mark")
    /\ job' = Ended(job, "cancelled")
    /\ Go(h, "release")
    /\ UNCHANGED <<holdVars, flow>>

CancelRelease(h) ==
    /\ At(h, "release")
    /\ GiveBack
    /\ Go(h, "done")
    /\ UNCHANGED <<job, flow>>

(* A call to a store raises: the handler's own except clause takes over.   *)
StoreFails(h) ==
    LET step == handler[h].step IN
    /\ "store_fails" \in Faults
    /\ \/ /\ h \in Submitters
          /\ step \in {"enqueue", "claim", "reread", "read_attempts", "fail"}
          /\ Go(h, "refund")
       \/ /\ h \in Retriers /\ step \in {"reserve", "reset", "reread"}
          /\ Go(h, "refund")
       \/ step = "record" /\ Go(h, AfterStartError(h))
       \/ h \in Retriers /\ step = "refund" /\ Go(h, "read_attempts")
       \/ h \in Submitters /\ step = "refund" /\ Go(h, "done")
       \/ /\ h \in Retriers /\ step \in {"read_attempts", "fail"}
          /\ Go(h, "done")
       \/ h \in Cancellers /\ step \in {"mark", "release"} /\ Go(h, "done")
    /\ UNCHANGED <<job, holdVars, flow>>

Crash(h) ==
    /\ "api_crash" \in Faults
    /\ handler[h].step \notin {"ready", "done"}
    /\ Go(h, "done")
    /\ UNCHANGED <<job, holdVars, flow>>

Arrive(h) ==
    \/ h \in Submitters /\ SubmitReserve(h)
    \/ h \in Retriers /\ RetryRead(h)
    \/ h \in Cancellers /\ CancelRead(h)

Continue(h) ==
    \/ SubmitEnqueue(h) \/ SubmitClaim(h)
    \/ h \in Retriers /\ (RetryReserve(h) \/ RetryReset(h))
    \/ Reread(h) \/ StartWorkflow(h) \/ RecordWorkflow(h)
    \/ FailRead(h) \/ FailWrite(h) \/ Refund(h)
    \/ CancelSignal(h) \/ CancelMark(h) \/ CancelRelease(h)

-----------------------------------------------------------------------------
(* Workflows.  Each runs its activities in turn: mark the job running, the *)
(* pipeline, then commit the billing and mark the job succeeded; what the  *)
(* except clause runs is: release the billing, mark the job dead-lettered. *)

(* The store call an attempt makes at a step.  Committing needs an active  *)
(* hold, or finds the debit already there; otherwise it raises, and so it  *)
(* does when the wallet cannot pay what the job cost beyond its hold.      *)
CanCommit == hold \in {"active", "committed"}

MayRefuse == ~CanCommit \/ (hold = "active" /\ "no_credits" \in Faults)

Perform(step) ==
    \/ step = "run" /\ job' = Running(job) /\ UNCHANGED holdVars
    \/ step = "work" /\ UNCHANGED <<job, holdVars>>
    \/ /\ step = "commit"
       /\ CommitHold \/ (hold = "committed" /\ UNCHANGED holdVars)
       /\ UNCHANGED job
    \/ step = "succeed" /\ job' = Ended(job, "succeeded")
                        /\ UNCHANGED holdVars
    \/ step = "release" /\ GiveBack /\ UNCHANGED job
    \/ step = "bury" /\ job' = Ended(job, "dead_letter")
                     /\ UNCHANGED holdVars

(* Mutants: success is recorded before it is paid for; the except clause   *)
(* ends after releasing the billing.                                       *)
AfterPayingLast(step) ==
    CASE step = "run" -> "work"
      [] step = "work" -> "succeed"
      [] step = "succeed" -> "commit"
      [] step = "release" -> "bury"
      [] OTHER -> "closed"

AfterWithoutBurying(step) ==
    CASE step = "run" -> "work"
      [] step = "work" -> "commit"
      [] step = "commit" -> "succeed"
      [] OTHER -> "closed"

After(step) ==
    CASE step = "run" -> "work"
      [] step = "work" -> "commit"
      [] step = "commit" -> "succeed"
      [] step = "release" -> "bury"
      [] OTHER -> "closed"

(* The steps that end an activity, and the step its next attempt begins at. *)
Last == {"run", "work", "succeed", "bury"}

First(step) ==
    CASE step = "succeed" -> "commit"
      [] step = "bury" -> "release"
      [] OTHER -> step

(* Mutant: the except clause only marks the job. *)
RetriedWithoutRelease(f) ==
    IF f.tries + 1 < ActivityTries
    THEN [f EXCEPT !.at = First(@), !.tries = @ + 1]
    ELSE [f EXCEPT !.at = IF @ = "bury" THEN "closed" ELSE "bury",
                   !.tries = 0]

(* The workflow's next step when an attempt failed: another attempt, the   *)
(* except clause, or the workflow fails when it is that clause that fails. *)
Retried(f) ==
    LET failed == IF f.at \in {"release", "bury"} THEN "closed" ELSE "release"
    IN  IF f.tries + 1 < ActivityTries
        THEN [f EXCEPT !.at = First(@), !.tries = @ + 1]
        ELSE [f EXCEPT !.at = failed, !.tries = 0]

FlowStep(w) ==
    LET step == flow[w].at IN
    /\ Live(w)
    /\ Perform(step)
    /\ flow' = [flow EXCEPT
          ![w].at = After(step),
          ![w].tries = IF step \in Last THEN 0 ELSE @]
    /\ UNCHANGED handler

CommitRefused(w) ==
    /\ flow[w].at = "commit" /\ MayRefuse
    /\ flow' = [flow EXCEPT ![w] = Retried(@)]
    /\ UNCHANGED <<job, holdVars, handler>>

(* An attempt fails before its call, or its answer is lost after it. *)
AttemptFails(w) ==
    /\ Live(w)
    /\ \/ /\ \/ "activity_lost" \in Faults
             \/ "work_fails" \in Faults /\ flow[w].at = "work"
          /\ UNCHANGED <<job, holdVars>>
       \/ /\ "activity_lost" \in Faults /\ flow[w].at \in Last
          /\ Perform(flow[w].at)
    /\ flow' = [flow EXCEPT ![w] = Retried(@)]
    /\ UNCHANGED handler

(* An attempt times out: the next one begins while it runs on. *)
AttemptTimesOut(w) ==
    /\ "activity_timeout" \in Faults
    /\ Live(w) /\ flow[w].stray = "none"
    /\ flow' = [flow EXCEPT ![w] = [Retried(@) EXCEPT !.stray = flow[w].at]]
    /\ UNCHANGED <<job, holdVars, handler>>

(* A cancellation reaches the workflow: the attempt under way is given up  *)
(* and may run on.  The workflow is cancelled, or the error the attempt is *)
(* given up with takes it to the except clause (once).                     *)
FlowCancelled(w) ==
    /\ Live(w) /\ flow[w].cancelled
    /\ \E stray \in {flow[w].stray}
                      \cup (IF flow[w].stray = "none"
                            THEN {flow[w].at} ELSE {}),
          next \in {"closed"} \cup (IF flow[w].at \in {"release", "bury"}
                                    THEN {} ELSE {"release"}) :
          flow' = [flow EXCEPT
             ![w] = [at |-> next, tries |-> 0, cancelled |-> FALSE,
                     stray |-> stray]]
    /\ UNCHANGED <<job, holdVars, handler>>

(* An attempt that was given up goes on to the end of its activity. *)
StrayStep(w) ==
    LET step == flow[w].stray
        GoTo(next) == flow' = [flow EXCEPT ![w].stray = next] IN
    /\ step \in FlowSteps
    /\ \/ /\ Perform(step)
          /\ GoTo(IF step \in Last THEN "none" ELSE After(step))
       \/ /\ step = "commit" /\ MayRefuse
          /\ GoTo("none")
          /\ UNCHANGED <<job, holdVars>>
    /\ UNCHANGED handler

Progress(w) == FlowStep(w) \/ CommitRefused(w) \/ FlowCancelled(w)

(* What happens while the stores answer and the API process lives ... *)
SteadyNext ==
    \/ \E h \in Handlers : Arrive(h) \/ Continue(h)
    \/ \E w \in Workflows :
          Progress(w) \/ StrayStep(w) \/ AttemptFails(w) \/ AttemptTimesOut(w)

(* ... and what happens when they do not. *)
Next ==
    \/ SteadyNext
    \/ \E h \in Handlers : StoreFails(h) \/ Crash(h)

Spec == Init /\ [][Next]_vars

SteadySpec == Init /\ [][SteadyNext]_vars

(* A handler that has begun goes on and a workflow that was started is     *)
(* run; nobody has to submit, retry or cancel anything.                    *)
FairSpec ==
    /\ Spec
    /\ \A h \in Handlers : WF_vars(Continue(h))
    /\ \A w \in Workflows : WF_vars(Progress(w)) /\ WF_vars(StrayStep(w))

-----------------------------------------------------------------------------
TypeOK ==
    /\ job \in Document
    /\ hold \in HoldStatus
    /\ debits \in Nat
    /\ handler \in [Handlers -> Handler]
    /\ flow \in [Workflows -> Flow]

(* A job that succeeded was paid for, whatever was retried, resubmitted,   *)
(* cancelled or repeated on the way there.                                 *)
SucceededIsPaid == job.status = "succeeded" => hold = "committed"

(* A job leaves a terminal status only by a retry's reset: late workflow   *)
(* updates, cancellations and failures of starts never reopen it.          *)
TerminalUntilReset ==
    [][job.status \in Terminal /\ job'.status # job.status
         => \E h \in Retriers : RetryReset(h)]_vars

Started(w) == flow[w].at # "none"

(* However many submissions of the same content race, at most one workflow *)
(* is started for the job as long as nobody retries it.                    *)
OneWorkflow ==
    (\A h \in Retriers : At(h, "ready"))
    => Cardinality({w \in Workflows : Started(w)}) <= 1

(* Until somebody cancels or retries the job, no workflow works on it      *)
(* without credits held for it or already debited.                         *)
WorkIsFunded ==
    (\A h \in Retriers \cup Cancellers : At(h, "ready"))
    => \A w \in Workflows :
          flow[w].at \in {"run", "work", "commit", "succeed"} => CanCommit

(* Nothing is going on any more. *)
Quiet == /\ \A h \in Handlers : handler[h].step \in {"ready", "done"}
         /\ \A w \in Workflows : ~Live(w) /\ flow[w].stray = "none"

(* When everybody is done with a job that has ended, its credits are not   *)
(* held any more: they were debited or went back.  (So it is while the     *)
(* stores answer and the process lives, and one call submits the job.)     *)
NoForgottenHold ==
    Quiet /\ job.status \in Terminal \cup {"failed"} => hold # "active"

(* A job that is queued or running ends one way or another, unless it is   *)
(* both cancelled and retried: then the cancelled workflow may still mark  *)
(* the job that was reset running, and end without another word.           *)
JobEnds ==
    job.status \in {"queued", "running"}
      ~> \/ job.status \in Terminal \cup {"failed"}
         \/ /\ \E h \in Retriers : ~At(h, "ready")
            /\ \E h \in Cancellers : ~At(h, "ready")

(* Held credits are settled. *)
HoldIsSettled == (hold = "active") ~> (hold # "active")

(* Neither the job nor its hold is left hanging. *)
JobsSettle == JobEnds /\ HoldIsSettled
====
