---- MODULE ScannerJob ----
(***************************************************************************)
(* Control of one repository scan, api/routes/scanner.py: start, pause and *)
(* resume, and cancellation through the v2 route.  What the dashboard      *)
(* shows is one scanner_jobs document; every start or resume has a durable *)
(* job of its own, whose runner (run_job) runs the pipeline: phase 1       *)
(* indexes, phase 2 enriches, each in an executor thread beside the event  *)
(* loop.  A pause is an in-process flag that the threads look at.          *)
(* run_job's own races are JobRunner's; here a durable job has one runner. *)
(***************************************************************************)
EXTENDS JobDocument, FiniteSets

CONSTANTS
    Starters,      \* calls of POST /scan, all for one commit
    Resumers,      \* calls of POST /resume, each with a durable job of its own
    Pausers,       \* calls of POST /pause
    Cancellers,    \* calls of POST /v2/jobs/{id}/cancel
    StartJob,      \* the durable job every start of this commit finds
    Faults         \* what may go wrong in this run

FaultKinds ==
    {"phase_fails",      \* a phase raises
     "timeout",          \* run_job gives up on the pipeline, not its thread
     "server_crash"}     \* the API process dies, once

ASSUME ScannerAssumption ==
    /\ StartJob \notin Resumers
    /\ Faults \subseteq FaultKinds
    /\ Starters \cap Resumers = {}
    /\ Pausers \cap (Starters \cup Resumers) = {}
    /\ Cancellers \cap (Starters \cup Resumers \cup Pausers) = {}

Jobs == Resumers \cup {StartJob}
Handlers == Starters \cup Resumers \cup Pausers \cup Cancellers

VARIABLES
    doc,           \* the scanner_jobs document
    flag,          \* _cancel_flags[job_id]
    durable,       \* the durable job documents
    run,           \* per durable job: its runner and pipeline
    handler,       \* per call: where it is and what it has read
    catalog,       \* what _can_reuse_index finds for the commit
    indexed,       \* somebody has indexed the repository
    past           \* history: what has happened that upsets a scan

vars == <<doc, flag, durable, run, handler, catalog, indexed, past>>

-----------------------------------------------------------------------------
PhaseStatus == {"not_started", "pending", "running", "complete", "paused",
                "failed", "cancelled"}
Phases == [phase1: PhaseStatus, phase2: PhaseStatus]

NotStarted == [phase1 |-> "not_started", phase2 |-> "not_started"]

(* The document while phase n is in a state: phase 2 is still to come      *)
(* during phase 1, and phase 1 is complete during phase 2.                 *)
Shown(n, status) ==
    IF n = 1 THEN [phase1 |-> status, phase2 |-> "pending"]
             ELSE [phase1 |-> "complete", phase2 |-> status]

Shows(d, status) == d.phase1 = status \/ d.phase2 = status

(* Runners.  from: the phase the pipeline begins with; phase: the one its  *)
(* thread is in; pause: whether a pause was accepted since the pipeline    *)
(* began, and whether its thread has seen it and gone on; stray: the phase *)
(* of a thread that was given up at a timeout, 0 if there is none.         *)
Steps == {"none", "claim", "begin", "work", "ended", "judge", "succeed",
          "fail", "requeue"}
Outcome == {"ok", "paused", "failed"}
Run == [at: Steps, from: 1..2, phase: 1..2, outcome: Outcome,
        pause: {"none", "asked", "seen"}, stray: 0..2]
Between(step, from, stray) ==
    [at |-> step, from |-> from, phase |-> 1, outcome |-> "ok",
     pause |-> "none", stray |-> stray]
NoRun == Between("none", 1, 0)

HandlerSteps == {"ready", "reuse", "accept", "mark", "look", "show", "done"}
Handler == [step: HandlerSteps, seen: Phases, queued: BOOLEAN, job: Jobs]
Call == [step |-> "ready", seen |-> NotStarted, queued |-> FALSE,
         job |-> StartJob]

Init ==
    /\ doc = NotStarted
    /\ flag = FALSE
    /\ durable = [d \in Jobs |-> Absent]
    /\ run = [d \in Jobs |-> NoRun]
    /\ handler = [h \in Handlers |-> Call]
    /\ catalog \in {"none", "pending", "complete"}
    /\ indexed = (catalog # "none")
    /\ past = {}

At(h, step) == handler[h].step = step
Go(h, step) == handler' = [handler EXCEPT ![h].step = step]
Return(h) == handler' = [handler EXCEPT ![h] = [Call EXCEPT !.step = "done"]]
RunAt(d, step) == run[d].at = step
RunTo(d, step) == run' = [run EXCEPT ![d].at = step]
Ready(d, step) ==
    run' = [run EXCEPT ![d] = Between(step, run[d].from, run[d].stray)]

(* _schedule_durable_job starts run_job for a job it was told is queued. A *)
(* second runner beside one that is there finds the job claimed and ends.  *)
Scheduled(d, n) ==
    IF RunAt(d, "none")
    THEN [run EXCEPT ![d].at = "claim", ![d].from = n]
    ELSE run

-----------------------------------------------------------------------------
(* start_scan.  A scan that is shown running is left alone if the document *)
(* was updated in the last 30 seconds, as it need not be.                  *)
StartLook(h) ==
    /\ h \in Starters /\ At(h, "ready")
    /\ \/ doc.phase1 = "running" /\ Return(h)
       \/ Go(h, "reuse")
    /\ UNCHANGED <<doc, flag, durable, run, catalog, indexed, past>>

(* An index of this commit that lacks nothing is only connected ... *)
StartReuse(h) ==
    /\ h \in Starters /\ At(h, "reuse") /\ catalog = "complete"
    /\ doc' = Shown(2, "complete")
    /\ Return(h)
    /\ UNCHANGED <<flag, durable, run, catalog, indexed, past>>

(* ... and one that lacks enrichment only needs phase 2.  The durable      *)
(* job is the one of the first start, whatever has become of it.           *)
StartPhase == IF catalog = "pending" THEN 2 ELSE 1

StartEnqueue(h) ==
    /\ h \in Starters /\ At(h, "reuse") /\ catalog # "complete"
    /\ durable' = [durable EXCEPT ![StartJob] = Enqueued(@)]
    /\ handler' = [handler EXCEPT ![h].step = "accept",
          ![h].queued = (durable'[StartJob].status = "queued")]
    /\ UNCHANGED <<doc, flag, run, catalog, indexed, past>>

StartAccept(h) ==
    /\ h \in Starters /\ At(h, "accept")
    /\ doc' = Shown(StartPhase, "running")
    /\ run' = IF handler[h].queued THEN Scheduled(StartJob, StartPhase)
                                    ELSE run
    /\ past' = IF handler[h].queued /\ durable[StartJob].status = "queued"
               THEN past ELSE past \cup {"started_in_vain"}
    /\ Return(h)
    /\ UNCHANGED <<flag, durable, catalog, indexed>>

(* Mutant: a scan that is running can be resumed, too. *)
ResumeLookRunning(h) ==
    /\ h \in Resumers /\ At(h, "ready")
    /\ IF Shows(doc, "paused") \/ Shows(doc, "running")
       THEN /\ handler' = [handler EXCEPT
                   ![h].step = "accept", ![h].seen = doc]
            /\ durable' = [durable EXCEPT ![h] = Enqueued(@)]
       ELSE Return(h) /\ UNCHANGED durable
    /\ UNCHANGED <<doc, flag, run, catalog, indexed, past>>

(* resume_scan reads the document and awaits the enqueue of a fresh durable *)
(* job, which nobody knows of before; then it goes by what it has read.    *)
ResumeLook(h) ==
    /\ h \in Resumers /\ At(h, "ready")
    /\ IF Shows(doc, "paused")
       THEN /\ handler' = [handler EXCEPT
                   ![h].step = "accept", ![h].seen = doc]
            /\ durable' = [durable EXCEPT ![h] = Enqueued(@)]
       ELSE Return(h) /\ UNCHANGED durable
    /\ UNCHANGED <<doc, flag, run, catalog, indexed, past>>

(* Mutant: a resumed scan always goes on with phase 2. *)
ResumePhaseTwo(h) == 2

ResumePhase(h) == IF handler[h].seen.phase1 = "paused" THEN 1 ELSE 2

ResumeAccept(h) ==
    /\ h \in Resumers /\ At(h, "accept")
    /\ doc' = Shown(ResumePhase(h), "running")
    /\ run' = Scheduled(h, ResumePhase(h))
    /\ past' = IF doc = handler[h].seen THEN past
                ELSE past \cup {"stale_resume"}
    /\ Return(h)
    /\ UNCHANGED <<flag, durable, catalog, indexed>>

(* pause_scan *)
Pause(h) ==
    /\ h \in Pausers /\ At(h, "ready") /\ Shows(doc, "running")
    /\ flag' = TRUE
    /\ run' = [d \in Jobs |->
          IF run[d].at \in {"work", "ended"} /\ run[d].pause = "none"
          THEN [run[d] EXCEPT !.pause = "asked"] ELSE run[d]]
    /\ Return(h)
    /\ UNCHANGED <<doc, durable, catalog, indexed, past>>

(* cancel_job: it reads the durable job, marks it, and then shows what ran *)
(* as cancelled, by one read and one write in a thread.                    *)
CancelRead(h) ==
    /\ h \in Cancellers /\ At(h, "ready")
    /\ \E d \in Jobs :
          /\ durable[d].status \in {"queued", "running"}
          /\ handler' = [handler EXCEPT ![h].step = "mark", ![h].job = d]
    /\ UNCHANGED <<doc, flag, durable, run, catalog, indexed, past>>

CancelMark(h) ==
    /\ h \in Cancellers /\ At(h, "mark")
    /\ durable' = [durable EXCEPT ![handler[h].job] = Ended(@, "cancelled")]
    /\ Go(h, "look")
    /\ UNCHANGED <<doc, flag, run, catalog, indexed, past>>

CancelLook(h) ==
    /\ h \in Cancellers /\ At(h, "look")
    /\ IF doc = NotStarted
       THEN Return(h)
       ELSE handler' = [handler EXCEPT ![h].step = "show", ![h].seen = doc]
    /\ UNCHANGED <<doc, flag, durable, run, catalog, indexed, past>>

CancelShow(h) ==
    LET shown(status) == IF status = "running" THEN "cancelled" ELSE status IN
    /\ h \in Cancellers /\ At(h, "show")
    /\ doc' = [phase1 |-> shown(handler[h].seen.phase1),
               phase2 |-> shown(handler[h].seen.phase2)]
    /\ past' = IF doc = handler[h].seen THEN past
                ELSE past \cup {"stale_cancel"}
    /\ Return(h)
    /\ UNCHANGED <<flag, durable, run, catalog, indexed>>

-----------------------------------------------------------------------------
(* The runner claims its job if it is queued, and calls the pipeline. *)
Claim(d) ==
    /\ RunAt(d, "claim")
    /\ durable' = [durable EXCEPT ![d] = TakenToRun(@, @.attempts)]
    /\ RunTo(d, IF Runnable(durable[d]) THEN "begin" ELSE "none")
    /\ UNCHANGED <<doc, flag, handler, catalog, indexed, past>>

(* Mutant: the flag is left as the scan before has left it. *)
BeginKeepingFlag(d) ==
    /\ RunAt(d, "begin")
    /\ run' = [run EXCEPT ![d].at = "work", ![d].phase = run[d].from,
                          ![d].pause = "none"]
    /\ UNCHANGED <<doc, flag, durable, handler, catalog, indexed, past>>

(* The pipeline drops a pause that was asked for before it. *)
Begin(d) ==
    /\ RunAt(d, "begin")
    /\ flag' = FALSE
    /\ run' = [run EXCEPT ![d].at = "work", ![d].phase = run[d].from,
                          ![d].pause = "none"]
    /\ UNCHANGED <<doc, durable, handler, catalog, indexed, past>>

(* The thread's progress callback. *)
Progress(d) ==
    /\ RunAt(d, "work") /\ ~flag
    /\ doc' = Shown(run[d].phase, "running")
    /\ UNCHANGED <<flag, durable, run, handler, catalog, indexed, past>>

(* With the flag up it raises ScanCancelled, which ends the phase ... *)
StopForPause(d) ==
    /\ RunAt(d, "work") /\ flag
    /\ run' = [run EXCEPT ![d].at = "ended", ![d].outcome = "paused"]
    /\ UNCHANGED <<doc, flag, durable, handler, catalog, indexed, past>>

(* ... unless it was called for a symbol, a file or a directory, whose     *)
(* errors are skipped.                                                     *)
SkipPause(d) ==
    /\ RunAt(d, "work") /\ flag
    /\ run' = [run EXCEPT ![d].pause = "seen"]
    /\ UNCHANGED <<doc, flag, durable, handler, catalog, indexed, past>>

(* The phase is through; enrich_repo reports once more before it returns. *)
CompletePhase(d) ==
    /\ RunAt(d, "work")
    /\ run[d].phase = 2 => ~flag
    /\ run' = [run EXCEPT ![d].at = "ended", ![d].outcome = "ok"]
    /\ doc' = IF run[d].phase = 2 THEN Shown(2, "running") ELSE doc
    /\ indexed' = (indexed \/ run[d].phase = 1)
    /\ UNCHANGED <<flag, durable, handler, catalog, past>>

FailPhase(d) ==
    /\ "phase_fails" \in Faults /\ RunAt(d, "work")
    /\ run' = [run EXCEPT ![d].at = "ended", ![d].outcome = "failed"]
    /\ UNCHANGED <<doc, flag, durable, handler, catalog, indexed, past>>

(* Back on the event loop phase 2 follows phase 1 ... *)
StartEnriching(d) ==
    /\ RunAt(d, "ended") /\ run[d].outcome = "ok" /\ run[d].phase = 1
    /\ doc' = Shown(2, "running")
    /\ run' = [run EXCEPT ![d].at = "work", ![d].phase = 2]
    /\ UNCHANGED <<flag, durable, handler, catalog, indexed, past>>

(* Mutant: a pause is not shown. *)
ResultUnpaused(d) ==
    CASE run[d].outcome = "ok"     -> "complete"
      [] run[d].outcome = "paused" -> "running"
      [] run[d].outcome = "failed" -> "failed"

Result(d) ==
    CASE run[d].outcome = "ok"     -> "complete"
      [] run[d].outcome = "paused" -> "paused"
      [] run[d].outcome = "failed" -> "failed"

(* ... and otherwise the outcome is shown, and a pause is over. *)
EndPipeline(d) ==
    /\ RunAt(d, "ended") /\ ~(run[d].outcome = "ok" /\ run[d].phase = 1)
    /\ flag' = (flag /\ run[d].outcome # "paused")
    /\ doc' = Shown(run[d].phase, Result(d))
    /\ RunTo(d, "judge")
    /\ UNCHANGED <<durable, handler, catalog, indexed, past>>

(* Whether the durable job has failed is read back from the document. The  *)
(* event loop does nothing else meanwhile, but the thread of a cancelled   *)
(* call or of another pipeline may have updated the document.              *)
Judge(d) ==
    /\ RunAt(d, "judge")
    /\ Ready(d, IF \/ doc.phase2 = "failed"
                   \/ run[d].from = 1 /\ doc.phase1 = "failed"
                 THEN "fail" ELSE "succeed")
    /\ UNCHANGED <<doc, flag, durable, handler, catalog, indexed, past>>

LoopIsFree == \A d \in Jobs : ~RunAt(d, "judge")

(* The runner stores the result, or the failure and tries again. *)
Succeed(d) ==
    /\ RunAt(d, "succeed")
    /\ durable' = [durable EXCEPT ![d] = Ended(@, "succeeded")]
    /\ Ready(d, "none")
    /\ UNCHANGED <<doc, flag, handler, catalog, indexed, past>>

Fail(d) ==
    /\ RunAt(d, "fail")
    /\ durable' = [durable EXCEPT ![d] = Failed(@, @.attempts)]
    /\ Ready(d, IF durable'[d].status = "dead_letter" THEN "none"
                                                      ELSE "requeue")
    /\ UNCHANGED <<doc, flag, handler, catalog, indexed, past>>

Requeue(d) ==
    /\ RunAt(d, "requeue")
    /\ durable' = [durable EXCEPT ![d] = Reset(@, FALSE)]
    /\ RunTo(d, "claim")
    /\ UNCHANGED <<doc, flag, handler, catalog, indexed, past>>

(* The time is up: the pipeline is cancelled, not its thread. *)
Timeout(d) ==
    /\ "timeout" \in Faults /\ RunAt(d, "work") /\ run[d].stray = 0
    /\ run' = [run EXCEPT ![d] = Between("fail", run[d].from, run[d].phase)]
    /\ past' = past \cup {"timeout"}
    /\ UNCHANGED <<doc, flag, durable, handler, catalog, indexed>>

StrayProgress(d) ==
    /\ run[d].stray # 0 /\ ~flag
    /\ doc' = Shown(run[d].stray, "running")
    /\ UNCHANGED <<flag, durable, run, handler, catalog, indexed, past>>

StrayEnds(d) ==
    /\ run[d].stray # 0
    /\ run' = [run EXCEPT ![d].stray = 0]
    /\ indexed' \in {indexed, indexed \/ run[d].stray = 1}
    /\ UNCHANGED <<doc, flag, durable, handler, catalog, past>>

(* Documents survive the process; flag, runners, threads and calls do not. *)
ServerCrash ==
    /\ "server_crash" \in Faults \ past
    /\ flag' = FALSE
    /\ run' = [d \in Jobs |-> NoRun]
    /\ handler' = [h \in Handlers |->
          IF At(h, "ready") THEN Call ELSE [Call EXCEPT !.step = "done"]]
    /\ past' = past \cup {"server_crash"}
    /\ UNCHANGED <<doc, durable, catalog, indexed>>

-----------------------------------------------------------------------------
Arrive(h) ==
    LoopIsFree /\ (StartLook(h) \/ ResumeLook(h) \/ Pause(h) \/ CancelRead(h))

(* What the event loop does next, a call's thread, and a runner. *)
Continue(h) ==
    \/ LoopIsFree /\ (StartReuse(h) \/ StartAccept(h) \/ ResumeAccept(h))
    \/ StartEnqueue(h) \/ CancelMark(h) \/ CancelLook(h) \/ CancelShow(h)

RunnerStep(d) ==
    \/ LoopIsFree /\ (Begin(d) \/ StartEnriching(d) \/ EndPipeline(d))
    \/ Claim(d) \/ Judge(d) \/ Succeed(d) \/ Fail(d) \/ Requeue(d)

(* The ways a thread's phase ends. *)
PhaseEnds(d) == CompletePhase(d) \/ StopForPause(d) \/ FailPhase(d)

Next ==
    \/ \E h \in Handlers : Arrive(h) \/ Continue(h)
    \/ \E d \in Jobs :
          \/ RunnerStep(d) \/ PhaseEnds(d) \/ Progress(d) \/ SkipPause(d)
          \/ LoopIsFree /\ Timeout(d)
          \/ StrayProgress(d) \/ StrayEnds(d)
    \/ ServerCrash

Spec == Init /\ [][Next]_vars

(* Calls and runners go on and the work of a thread is finite.  Nobody has *)
(* to call anything, and nothing has to fail.                              *)
FairSpec ==
    /\ Spec
    /\ \A h \in Handlers : WF_vars(Continue(h))
    /\ \A d \in Jobs : WF_vars(RunnerStep(d)) /\ WF_vars(PhaseEnds(d))
                         /\ WF_vars(StrayEnds(d))

-----------------------------------------------------------------------------
Upsets == {"started_in_vain", "stale_resume", "stale_cancel", "timeout",
           "server_crash"}

TypeOK ==
    /\ doc \in Phases
    /\ flag \in BOOLEAN
    /\ durable \in [Jobs -> Document]
    /\ run \in [Jobs -> Run]
    /\ handler \in [Handlers -> Handler]
    /\ catalog \in {"none", "pending", "complete"}
    /\ indexed \in BOOLEAN
    /\ past \subseteq Upsets

Busy(d) == run[d].at \in {"begin", "work", "ended"}

Free(upsets) == past \cap upsets = {}

(* No call has gone by a document that changed while it waited. *)
Calm == Free({"stale_resume", "stale_cancel"})

(* However starts, resumes and retries follow each other, one pipeline at  *)
(* a time works on the repository - as long as no call goes by a document  *)
(* that changed while it waited.                                           *)
OneScanAtATime ==
    Calm => \A d, e \in Jobs : Busy(d) /\ Busy(e) => d = e

(* While a scan is shown paused no pipeline works on it, so that it can be *)
(* resumed; only a thread given up at a timeout may not have ended yet.    *)
PausedMeansStopped ==
    Calm /\ Shows(doc, "paused") => \A d \in Jobs : ~Busy(d)

(* A pipeline stops only for a pause that was accepted since it began: a   *)
(* resumed scan is not stopped again by the pause before it.               *)
PausesAreFresh ==
    \A d \in Jobs :
        RunAt(d, "ended") /\ run[d].outcome = "paused" => run[d].pause # "none"

(* A scan that skipped over a pause does not complete for all that: the    *)
(* flag stays up until the scan stops.                                     *)
SeenPausePrevails ==
    Calm =>
        \A d \in Jobs :
            RunAt(d, "ended") /\ run[d].outcome = "ok" /\ run[d].phase = 2
              => run[d].pause # "seen"

(* Together: a pause that was accepted stops the scan, and a pause that    *)
(* was not, or not for this scan, does not.                                *)
PausesHold == PausedMeansStopped /\ PausesAreFresh /\ SeenPausePrevails

(* The chat answers from a repository whose phase 1 is shown complete: it  *)
(* has been indexed.                                                       *)
IndexIsThere == doc.phase1 = "complete" => indexed

(* A scan that is shown running is so for some time only - unless it was   *)
(* started on a job that had ended, cancelled, given up or forgotten in a  *)
(* crash.                                                                  *)
ScanSettles ==
    Shows(doc, "running")
      ~> \/ ~Shows(doc, "running")
         \/ ~Free({"started_in_vain", "timeout", "server_crash"})
         \/ \E d \in Jobs : durable[d].status = "cancelled"

(* "The scan will stop at the next checkpoint." *)
SeenPauseStops ==
    \A d \in Jobs : RunAt(d, "work") => run[d].pause # "seen"
====
