---- MODULE JobRunner ----
(***************************************************************************)
(* run_job of src/jobs/durable.py: the in-process queue behind the v1      *)
(* routes.  Every request that finds its job queued starts another runner  *)
(* for it, in any API process, and POST /v2/jobs/{id}/cancel marks the     *)
(* same document.  Each call a runner awaits is one action.                *)
(***************************************************************************)
EXTENDS JobDocument, FiniteSets, Combinatorics

CONSTANTS
    Runners,       \* tasks started for the job
    Cancellers,    \* cancellations that reach the job
    Faults         \* what may go wrong in this run

FaultKinds ==
    {"handler_fails",     \* the handler raises or times out
     "store_fails",       \* storing the result raises
     "runner_lost"}       \* the runner's process or task dies

ASSUME RunnerAssumption ==
    /\ Faults \subseteq FaultKinds
    /\ IsFiniteSet(Runners)

VARIABLES
    job,           \* the job document
    runner,        \* per runner: where it is and the attempt count it read
    cancelling,    \* per canceller: where it is
    executions     \* how often the handler was started

vars == <<job, runner, cancelling, executions>>

RunnerSteps == {"idle", "look", "read", "claim", "work", "succeed",
                "read_attempts", "fail", "reset", "done", "lost"}

Init ==
    /\ job = Enqueued(Absent)
    /\ runner = [r \in Runners |-> [step |-> "idle", attempts |-> 0]]
    /\ cancelling = [c \in Cancellers |-> "idle"]
    /\ executions = 0

At(r, step) == runner[r].step = step

Go(r, step) == runner' = [runner EXCEPT ![r].step = step]

(* A request schedules a runner for a job it saw queued. *)
Schedule(r) ==
    /\ At(r, "idle") /\ job.status = "queued"
    /\ Go(r, "look")
    /\ UNCHANGED <<job, cancelling, executions>>

(* The runner gives up a job that has ended ... *)
Look(r) ==
    /\ At(r, "look")
    /\ Go(r, IF Open(job) THEN "read" ELSE "done")
    /\ UNCHANGED <<job, cancelling, executions>>

(* ... and claims any other: claim_for_run reads the attempt count and     *)
(* takes the job if it is queued, with one attempt more than it read.      *)
ClaimRead(r) ==
    /\ At(r, "read")
    /\ runner' = [runner EXCEPT ![r].step = "claim",
                                ![r].attempts = job.attempts]
    /\ UNCHANGED <<job, cancelling, executions>>

Claim(r) ==
    /\ At(r, "claim")
    /\ job' = TakenToRun(job, runner[r].attempts)
    /\ IF Runnable(job)
       THEN Go(r, "work") /\ executions' = executions + 1
       ELSE Go(r, "done") /\ UNCHANGED executions
    /\ UNCHANGED cancelling

(* The handler answers, or it raises or its time is up. *)
HandlerEnds(r) ==
    /\ At(r, "work")
    /\ \/ Go(r, "succeed")
       \/ "handler_fails" \in Faults /\ Go(r, "read_attempts")
    /\ UNCHANGED <<job, cancelling, executions>>

(* mark_succeeded; an error there counts as a failure of the handler. *)
Succeed(r) ==
    /\ At(r, "succeed")
    /\ \/ job' = Ended(job, "succeeded") /\ Go(r, "done")
       \/ "store_fails" \in Faults /\ Go(r, "read_attempts") /\ UNCHANGED job
    /\ UNCHANGED <<cancelling, executions>>

(* mark_failed reads the job; of one that has ended it only tells the      *)
(* status, and every status but dead_letter means another round.           *)
FailRead(r) ==
    LET known == IF job.status = "dead_letter" THEN "done" ELSE "reset" IN
    /\ At(r, "read_attempts")
    /\ runner' = [runner EXCEPT
          ![r].step = IF Open(job) THEN "fail" ELSE known,
          ![r].attempts = job.attempts]
    /\ UNCHANGED <<job, cancelling, executions>>

(* It then writes the failure, unless the job has ended since. *)
FailWrite(r) ==
    /\ At(r, "fail")
    /\ job' = Failed(job, runner[r].attempts)
    /\ Go(r, IF job'.status = "dead_letter" THEN "done" ELSE "reset")
    /\ UNCHANGED <<cancelling, executions>>

(* After the delay the job is queued again, whatever it has become. *)
ResetForRetry(r) ==
    /\ At(r, "reset")
    /\ job' = Reset(job, FALSE)
    /\ Go(r, "look")
    /\ UNCHANGED <<cancelling, executions>>

(* Its process dies, or a store call outside the try raises. *)
RunnerLost(r) ==
    /\ "runner_lost" \in Faults
    /\ runner[r].step \notin {"idle", "done", "lost"}
    /\ Go(r, "lost")
    /\ UNCHANGED <<job, cancelling, executions>>

(* cancel_job reads the job, and marks it cancelled if it was queued or    *)
(* running then.                                                           *)
CancelRead(c) ==
    /\ cancelling[c] = "idle"
    /\ cancelling' = [cancelling EXCEPT
          ![c] = IF job.status \in {"queued", "running"}
                 THEN "mark" ELSE "done"]
    /\ UNCHANGED <<job, runner, executions>>

CancelMark(c) ==
    /\ cancelling[c] = "mark"
    /\ job' = Ended(job, "cancelled")
    /\ cancelling' = [cancelling EXCEPT ![c] = "done"]
    /\ UNCHANGED <<runner, executions>>

Continue(r) ==
    \/ Look(r) \/ ClaimRead(r) \/ Claim(r) \/ HandlerEnds(r) \/ Succeed(r)
    \/ FailRead(r) \/ FailWrite(r) \/ ResetForRetry(r)

Next ==
    \/ \E r \in Runners : Schedule(r) \/ Continue(r) \/ RunnerLost(r)
    \/ \E c \in Cancellers : CancelRead(c) \/ CancelMark(c)

Spec == Init /\ [][Next]_vars

(* A runner that was scheduled goes on: the event loop serves it, and the  *)
(* handler's time is limited.                                              *)
FairSpec == Spec /\ \A r \in Runners : WF_vars(Continue(r))

-----------------------------------------------------------------------------
TypeOK ==
    /\ job \in Document
    /\ runner \in [Runners -> [step: RunnerSteps, attempts: 0..MaxAttempts]]
    /\ cancelling \in [Cancellers -> {"idle", "mark", "done"}]
    /\ executions \in Nat

Working(r) == runner[r].step \in {"work", "succeed", "read_attempts", "fail"}

(* However many runners are started for the job, one at a time has it.     *)
OneRunnerAtWork == \A r, s \in Runners : Working(r) /\ Working(s) => r = s

Begun == {r \in Runners : ~At(r, "idle")}

(* Nobody has cancelled the job. *)
Uncancelled == \A c \in Cancellers : cancelling[c] = "idle"

(* One runner alone makes max_attempts executions at most.  Several make   *)
(* more: an attempt counts from what its runner read before the claim, so  *)
(* a runner that was slow to claim puts the count back to where it was     *)
(* when it read, and the attempts beyond it are made again.                *)
BoundedExecutions ==
    Uncancelled =>
        executions <= choose(Cardinality(Begun) + MaxAttempts - 1,
                             MaxAttempts - 1)

(* A job is given up only after all its attempts were made. *)
NoEarlyDeadLetter == job.status = "dead_letter" => executions >= MaxAttempts

(* Together: the handler runs neither more often than its runners allow    *)
(* nor, for a job that was given up, less often than it should.            *)
AttemptsAreCounted == BoundedExecutions /\ NoEarlyDeadLetter

(* A job that was taken to run ends, however runners and cancellations     *)
(* interleave - unless a runner is lost, for nothing takes its job over.   *)
JobEnds ==
    job.status \in {"running", "failed"}
      ~> job.status \in Terminal \/ \E r \in Runners : At(r, "lost")

(* "Terminal jobs are not overwritten by late workflow updates"            *)
(* (tests/test_durable_jobs.py): a cancelled job stays cancelled, as long  *)
(* as nobody asks for a retry - and nobody does here.                      *)
CancelledIsFinal ==
    [][job.status = "cancelled" => job'.status = "cancelled"]_vars
====
