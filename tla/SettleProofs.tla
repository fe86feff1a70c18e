---- MODULE SettleProofs ----
(***************************************************************************)
(* Proofs about the two parts of MCSettles: JobWorkflow, for any number of *)
(* submissions, retries, cancellations and workflows, any retry limits and *)
(* any faults; and the payments, for any users, things to buy and requests *)
(* served at the same time, however often payments are verified and events *)
(* sent again, and wherever a call fails.                                  *)
(***************************************************************************)
EXTENDS MCSettles, FiniteSetTheorems, TLAPS

(* A tame update leaves a terminal status alone and makes no job a         *)
(* success.                                                                *)
Tame(j, k) ==
    /\ k \in Document
    /\ j.status \in Terminal => k.status = j.status
    /\ k.status = "succeeded" => j.status = "succeeded"

LEMMA CountsAreCounts ==
    ASSUME NEW n \in 0..MaxAttempts PROVE OneMore(n) \in 0..MaxAttempts
  BY JobAssumption DEF OneMore

LEMMA EnqueuedIsTame ==
    ASSUME NEW j \in Document PROVE Tame(j, Enqueued(j))
  BY DEF Tame, Document, Status, Terminal, Enqueued

LEMMA ClaimedIsTame ==
    ASSUME NEW j \in Document, NEW w \in Workflows
    PROVE  Tame(j, Claimed(j, w))
  BY DEF Tame, Document, Status, Terminal, Claimed, Startable

LEMMA RecordedIsTame ==
    ASSUME NEW j \in Document, NEW w \in Workflows \cup {NoWorkflow}
    PROVE  Tame(j, Recorded(j, w))
  BY DEF Tame, Document, Status, Terminal, Recorded

LEMMA RunningIsTame ==
    ASSUME NEW j \in Document PROVE Tame(j, Running(j))
<1>1. j.attempts \in 0..MaxAttempts
  BY DEF Document
<1>2. OneMore(j.attempts) \in 0..MaxAttempts
  BY <1>1, CountsAreCounts
<1> QED
  BY <1>2 DEF Tame, Document, Status, Terminal, Running, Open

LEMMA EndedIsTame ==
    ASSUME NEW j \in Document, NEW s \in {"dead_letter", "cancelled"}
    PROVE  Tame(j, Ended(j, s))
  BY DEF Tame, Document, Status, Terminal, Ended, Open

LEMMA FailedIsTame ==
    ASSUME NEW j \in Document, NEW n \in 0..MaxAttempts
    PROVE  Tame(j, Failed(j, n))
  BY DEF Tame, Document, Status, Terminal, Failed, FailedStatus, Ended, Open

LEMMA SucceededKeepsEnds ==
    ASSUME NEW j \in Document
    PROVE  /\ Ended(j, "succeeded") \in Document
           /\ j.status \in Terminal => Ended(j, "succeeded") = j
  BY DEF Document, Status, Terminal, Ended, Open

LEMMA ResetQueues ==
    ASSUME NEW j \in Document, NEW clear \in BOOLEAN
    PROVE  /\ Reset(j, clear) \in Document
           /\ Reset(j, clear).status = "queued"
           /\ Reset(j, clear).attempts = j.attempts
  BY DEF Document, Status, Terminal, Reset

(* What the billing store does to a hold: a committed one stays.           *)
LEMMA HoldSteps ==
    ASSUME hold \in HoldStatus, debits \in Nat,
           \/ TakeHold \/ CommitHold \/ ReleaseHold \/ UNCHANGED holdVars
    PROVE  /\ hold' \in HoldStatus
           /\ debits' \in Nat
           /\ hold = "committed" => hold' = "committed"
  BY DEF HoldStatus, TakeHold, CommitHold, ReleaseHold, holdVars

(* What any attempt does to job and hold at a step.                        *)
LEMMA AttemptSteps ==
    ASSUME TypeOK, NEW step \in FlowSteps, Perform(step)
    PROVE  /\ job' \in Document /\ hold' \in HoldStatus /\ debits' \in Nat
           /\ hold = "committed" => hold' = "committed"
           /\ step = "commit" => hold' = "committed"
           /\ job.status \in Terminal => job'.status = job.status
           /\ job'.status = "succeeded" =>
                job.status = "succeeded" \/ step = "succeed"
<1>1. job \in Document /\ hold \in HoldStatus /\ debits \in Nat
  BY DEF TypeOK
<1>2. CASE step = "run"
  <2>1. job' = Running(job) /\ UNCHANGED holdVars
    BY <1>2 DEF Perform
  <2> QED
    BY <1>1, <1>2, <2>1, HoldSteps, RunningIsTame DEF Tame
<1>3. CASE step = "work"
  <2>1. job' = job /\ UNCHANGED holdVars
    BY <1>3 DEF Perform
  <2> QED
    BY <1>1, <1>3, <2>1, HoldSteps
<1>4. CASE step = "commit"
  <2>1. job' = job /\ (CommitHold \/ (hold = "committed" /\ UNCHANGED holdVars))
    BY <1>4 DEF Perform
  <2>2. hold' = "committed"
    BY <2>1 DEF CommitHold, holdVars
  <2> QED
    BY <1>1, <1>4, <2>1, <2>2, HoldSteps
<1>5. CASE step = "succeed"
  <2>1. job' = Ended(job, "succeeded") /\ UNCHANGED holdVars
    BY <1>5 DEF Perform
  <2> QED
    BY <1>1, <1>5, <2>1, HoldSteps, SucceededKeepsEnds
<1>6. CASE step = "release"
  <2>1. job' = job /\ (ReleaseHold \/ UNCHANGED holdVars)
    BY <1>6 DEF Perform, GiveBack
  <2> QED
    BY <1>1, <1>6, <2>1, HoldSteps
<1>7. CASE step = "bury"
  <2>1. job' = Ended(job, "dead_letter") /\ UNCHANGED holdVars
    BY <1>7 DEF Perform
  <2> QED
    BY <1>1, <1>7, <2>1, HoldSteps, EndedIsTame DEF Tame
<1> QED
  BY <1>2, <1>3, <1>4, <1>5, <1>6, <1>7 DEF FlowSteps

LEMMA GoKeepsType ==
    ASSUME handler \in [Handlers -> Handler], NEW h \in Handlers,
           NEW step \in HandlerSteps, Go(h, step)
    PROVE  handler' \in [Handlers -> Handler]
  BY DEF Go, Handler

(* A step that is a cancelled or failed attempt is followed by a step.     *)
LEMMA NextSteps ==
    ASSUME NEW step \in FlowSteps
    PROVE  /\ After(step) \in FlowSteps \cup {"closed"}
           /\ step \notin Last => After(step) \in FlowSteps
           /\ First(step) \in FlowSteps
           /\ First(step) # "succeed"
           /\ After(step) = "succeed" => step = "commit"
  BY DEF After, First, Last, FlowSteps

LEMMA RetriedFlows ==
    ASSUME NEW f \in Flow, f.at \in FlowSteps
    PROVE  /\ Retried(f) \in Flow
           /\ Retried(f).at # "succeed"
           /\ Retried(f).stray = f.stray
<1>1. CASE f.tries + 1 < ActivityTries
  <2>1. Retried(f) = [f EXCEPT !.at = First(f.at), !.tries = f.tries + 1]
    BY <1>1 DEF Retried
  <2>2. f.tries + 1 \in 0..ActivityTries
    BY <1>1, WorkflowAssumption DEF Flow
  <2> QED
    BY <2>1, <2>2, NextSteps DEF Flow
<1>2. CASE ~(f.tries + 1 < ActivityTries)
  <2>1. PICK at \in {"closed", "release"} :
          Retried(f) = [f EXCEPT !.at = at, !.tries = 0]
    BY <1>2 DEF Retried
  <2>2. 0 \in 0..ActivityTries
    BY WorkflowAssumption
  <2> QED
    BY <2>1, <2>2 DEF Flow, FlowSteps
<1> QED
  BY <1>1, <1>2

-----------------------------------------------------------------------------
(* A workflow with an attempt, live or stray, that is about to mark the    *)
(* job succeeded.                                                          *)
Succeeding(w) == flow[w].at = "succeed" \/ flow[w].stray = "succeed"

(* Whoever is about to mark the job succeeded has committed its billing.   *)
PaidInv ==
    /\ TypeOK
    /\ SucceededIsPaid
    /\ \A w \in Workflows : Succeeding(w) => hold = "committed"

(* What every step keeps; the invariant and the action property follow.    *)
Keeps ==
    /\ TypeOK'
    /\ hold = "committed" => hold' = "committed"
    /\ \/ job.status \in Terminal => job'.status = job.status
       \/ \E h \in Retriers : RetryReset(h)
    /\ job'.status = "succeeded" =>
         \/ job.status = "succeeded"
         \/ \E w \in Workflows : Succeeding(w)
    /\ \A w \in Workflows :
         Succeeding(w)' => Succeeding(w) \/ hold' = "committed"

HoldKept == \/ TakeHold \/ CommitHold \/ ReleaseHold \/ UNCHANGED holdVars

(* A step that leaves the workflows alone, updates the job tamely and goes *)
(* from one step of a handler to another.                                  *)
LEMMA TameStepKeeps ==
    ASSUME TypeOK, handler' \in [Handlers -> Handler], Tame(job, job'),
           HoldKept, UNCHANGED flow
    PROVE  Keeps
<1>1. /\ hold' \in HoldStatus /\ debits' \in Nat
      /\ hold = "committed" => hold' = "committed"
  BY HoldSteps DEF HoldKept, TypeOK
<1> QED
  BY <1>1 DEF Keeps, TypeOK, Tame, Succeeding

LEMMA SameJobIsTame == job \in Document => Tame(job, job)
  BY DEF Tame

LEMMA HoldCreditsKeeps ==
    ASSUME TypeOK, NEW h \in Handlers, NEW next \in {"enqueue", "reset"},
           HoldCredits(h, next)
    PROVE  Keeps
<1>1. /\ UNCHANGED <<job, flow>>
      /\ HoldKept
  BY DEF HoldCredits, HoldKept
<1>2. handler' \in [Handlers -> Handler]
  <2>1. next \in HandlerSteps /\ "done" \in HandlerSteps
    BY DEF HandlerSteps
  <2>2. handler \in [Handlers -> Handler]
    BY DEF TypeOK
  <2>3. CASE handler' = [handler EXCEPT ![h].step = next, ![h].created = TRUE]
    BY <2>1, <2>2, <2>3 DEF Handler
  <2>4. CASE Go(h, next) \/ Go(h, "done")
    BY <2>1, <2>2, <2>4, GoKeepsType
  <2> QED
    BY <2>3, <2>4 DEF HoldCredits
<1> QED
  BY <1>1, <1>2, TameStepKeeps, SameJobIsTame DEF TypeOK

(* Calls that only read, or that move a hold: the job stays.               *)
LEMMA QuietCallsKeep ==
    ASSUME TypeOK, NEW h \in Handlers, NEW step \in HandlerSteps,
           Go(h, step), HoldKept, UNCHANGED <<job, flow>>
    PROVE  Keeps
  BY GoKeepsType, TameStepKeeps, SameJobIsTame DEF TypeOK

(* Calls that update the job tamely.                                       *)
LEMMA UpdatingCallsKeep ==
    ASSUME TypeOK, NEW h \in Handlers, NEW step \in HandlerSteps,
           Go(h, step), Tame(job, job'), UNCHANGED <<holdVars, flow>>
    PROVE  Keeps
  BY GoKeepsType, TameStepKeeps DEF TypeOK, HoldKept

(* Every call of a submission, a retry or a cancellation.                  *)
LEMMA HandlersKeep ==
    ASSUME TypeOK, NEW h \in Handlers,
           Arrive(h) \/ Continue(h) \/ StoreFails(h) \/ Crash(h)
    PROVE  Keeps
<1> USE DEF HandlerSteps
<1>1. /\ job \in Document
      /\ handler \in [Handlers -> Handler]
      /\ flow \in [Workflows -> Flow]
      /\ handler[h] \in Handler
      /\ job.workflow \in Workflows \cup {NoWorkflow}
      /\ job.attempts \in 0..MaxAttempts
  BY DEF TypeOK, Document
<1>2. CASE SubmitReserve(h) \/ RetryReserve(h)
  BY <1>2, HoldCreditsKeeps DEF SubmitReserve, RetryReserve
<1>3. CASE RetryRead(h)
  BY <1>3, QuietCallsKeep DEF RetryRead, HoldKept
<1>4. CASE CancelRead(h)
  <2>1. PICK step \in HandlerSteps :
          handler' = [handler EXCEPT ![h].seen = job.workflow,
                                     ![h].step = step]
    <3> DEFINE step == CASE job.status \in {"queued", "running"} -> "signal"
                         [] job.status = "cancelled" -> "release"
                         [] OTHER -> "done"
    <3>1. step \in HandlerSteps
      OBVIOUS
    <3>2. handler' = [handler EXCEPT ![h].seen = job.workflow,
                                     ![h].step = step]
      BY <1>4 DEF CancelRead
    <3> QED
      BY <3>1, <3>2
  <2>2. handler' \in [Handlers -> Handler]
    BY <1>1, <2>1 DEF Handler
  <2> QED
    BY <1>1, <1>4, <2>2, TameStepKeeps, SameJobIsTame
    DEF CancelRead, HoldKept
<1>5. CASE SubmitEnqueue(h)
  <2>1. Tame(job, job')
    BY <1>1, <1>5, EnqueuedIsTame DEF SubmitEnqueue
  <2> QED
    BY <1>5, <2>1, UpdatingCallsKeep DEF SubmitEnqueue
<1>6. CASE SubmitClaim(h)
  <2>1. Tame(job, job')
    BY <1>1, <1>6, ClaimedIsTame, SameJobIsTame DEF SubmitClaim
  <2>2. Go(h, "reread") \/ Go(h, "done")
    BY <1>6 DEF SubmitClaim
  <2>3. UNCHANGED <<holdVars, flow>>
    BY <1>6 DEF SubmitClaim
  <2> QED
    BY <2>1, <2>2, <2>3, UpdatingCallsKeep
<1>7. CASE h \in Retriers /\ RetryReset(h)
  <2>1. job' \in Document /\ job'.status = "queued"
    BY <1>1, <1>7, ResetQueues DEF RetryReset
  <2>2. handler' \in [Handlers -> Handler]
    BY <1>1, <1>7, GoKeepsType DEF RetryReset
  <2>3. UNCHANGED <<holdVars, flow>>
    BY <1>7 DEF RetryReset
  <2>4. TypeOK'
    BY <2>1, <2>2, <2>3 DEF TypeOK, holdVars
  <2> QED
    BY <1>7, <2>1, <2>3, <2>4 DEF Keeps, Succeeding, holdVars
<1>8. CASE Reread(h)
  <2>1. handler' \in [Handlers -> Handler]
    BY <1>1, <1>8 DEF Reread, Handler
  <2> QED
    BY <1>1, <1>8, <2>1, TameStepKeeps, SameJobIsTame DEF Reread, HoldKept
<1>9. CASE StartWorkflow(h)
  <2>1. PICK w \in Workflows :
          \/ /\ flow' = Begun(w)
             /\ \/ handler' = [handler EXCEPT ![h].step = "record",
                                              ![h].seen = w]
                \/ Go(h, AfterStartError(h))
          \/ Go(h, AfterStartError(h)) /\ UNCHANGED flow
    BY <1>9 DEF StartWorkflow
  <2>2. UNCHANGED <<job, holdVars>>
    BY <1>9 DEF StartWorkflow
  <2>3. AfterStartError(h) \in HandlerSteps
    BY DEF AfterStartError
  <2>4. handler' \in [Handlers -> Handler]
    <3>1. CASE handler' = [handler EXCEPT ![h].step = "record",
                                          ![h].seen = w]
      BY <1>1, <3>1 DEF Handler
    <3> QED
      BY <1>1, <2>1, <2>3, <3>1, GoKeepsType
  <2>5. CASE UNCHANGED flow
    BY <1>1, <2>2, <2>4, <2>5, TameStepKeeps, SameJobIsTame DEF HoldKept
  <2>6. CASE flow' = Begun(w)
    <3>1. 0 \in 0..ActivityTries
      BY WorkflowAssumption
    <3>2. /\ flow' \in [Workflows -> Flow]
          /\ \A v \in Workflows : flow'[v].at = "succeed" => flow[v].at = "succeed"
          /\ \A v \in Workflows : flow'[v].stray = flow[v].stray
      <4> DEFINE new == [flow[w] EXCEPT !.at = "run", !.tries = 0, !.cancelled = FALSE]
      <4>1. flow \in [Workflows -> Flow] /\ flow[w] \in Flow
        BY <1>1 DEF TypeOK
      <4>2. new \in Flow /\ new.at = "run" /\ new.stray = flow[w].stray
        BY <3>1, <4>1 DEF Flow, FlowSteps
      <4>3. flow' = [flow EXCEPT ![w] = new]
        BY <2>6, <4>1 DEF Begun
      <4> HIDE DEF new
      <4> QED
        BY <4>1, <4>2, <4>3
    <3> QED
      BY <2>2, <2>4, <3>2 DEF Keeps, TypeOK, Succeeding, holdVars
  <2> QED
    BY <2>1, <2>5, <2>6
<1>10. CASE RecordWorkflow(h)
  <2>1. Tame(job, job')
    BY <1>1, <1>10, RecordedIsTame DEF RecordWorkflow, Handler
  <2>2. Go(h, "done") \/ Go(h, "refund")
    BY <1>10 DEF RecordWorkflow
  <2>3. UNCHANGED <<holdVars, flow>>
    BY <1>10 DEF RecordWorkflow
  <2> QED
    BY <2>1, <2>2, <2>3, UpdatingCallsKeep
<1>11. CASE FailRead(h)
  <2>1. PICK step \in HandlerSteps :
          handler' = [handler EXCEPT ![h].step = step,
                                     ![h].attempts = job.attempts]
    <3> DEFINE after == IF h \in Submitters THEN "refund" ELSE "done"
               step == IF Open(job) THEN "fail" ELSE after
    <3>1. step \in HandlerSteps
      OBVIOUS
    <3>2. handler' = [handler EXCEPT ![h].step = step,
                                     ![h].attempts = job.attempts]
      BY <1>11 DEF FailRead
    <3> QED
      BY <3>1, <3>2
  <2>2. handler' \in [Handlers -> Handler]
    BY <1>1, <2>1 DEF Handler
  <2> QED
    BY <1>1, <1>11, <2>2, TameStepKeeps, SameJobIsTame DEF FailRead, HoldKept
<1>12. CASE FailWrite(h)
  <2>1. Tame(job, job')
    BY <1>1, <1>12, FailedIsTame DEF FailWrite, Handler
  <2>2. Go(h, "refund") \/ Go(h, "done")
    BY <1>12 DEF FailWrite
  <2>3. UNCHANGED <<holdVars, flow>>
    BY <1>12 DEF FailWrite
  <2> QED
    BY <2>1, <2>2, <2>3, UpdatingCallsKeep
<1>13. CASE Refund(h)
  <2>1. HoldKept
    BY <1>13 DEF Refund, GiveBack, HoldKept
  <2>2. Go(h, "done") \/ Go(h, "read_attempts")
    BY <1>13 DEF Refund
  <2>3. UNCHANGED <<job, flow>>
    BY <1>13 DEF Refund
  <2> QED
    BY <2>1, <2>2, <2>3, QuietCallsKeep
<1>14. CASE CancelSignal(h)
  <2>1. Go(h, "mark") \/ Go(h, "done")
    BY <1>14 DEF CancelSignal
  <2>2. handler' \in [Handlers -> Handler]
    BY <1>1, <2>1, GoKeepsType
  <2>3. UNCHANGED <<job, holdVars>>
    BY <1>14 DEF CancelSignal
  <2>4. \/ UNCHANGED flow
        \/ flow' = [flow EXCEPT ![handler[h].seen].cancelled = TRUE]
    BY <1>14 DEF CancelSignal
  <2>5. CASE UNCHANGED flow
    BY <1>1, <2>2, <2>3, <2>5, TameStepKeeps, SameJobIsTame DEF HoldKept
  <2>6. CASE flow' = [flow EXCEPT ![handler[h].seen].cancelled = TRUE]
    <3>1. /\ flow' \in [Workflows -> Flow]
          /\ \A v \in Workflows : /\ flow'[v].at = flow[v].at
                                  /\ flow'[v].stray = flow[v].stray
      BY <1>1, <2>6 DEF Flow
    <3> QED
      BY <2>2, <2>3, <3>1 DEF Keeps, TypeOK, Succeeding, holdVars
  <2> QED
    BY <2>4, <2>5, <2>6
<1>15. CASE CancelMark(h)
  <2>1. Tame(job, job')
    BY <1>1, <1>15, EndedIsTame DEF CancelMark
  <2> QED
    BY <1>15, <2>1, UpdatingCallsKeep DEF CancelMark
<1>16. CASE CancelRelease(h)
  <2>1. HoldKept
    BY <1>16 DEF CancelRelease, GiveBack, HoldKept
  <2> QED
    BY <1>16, <2>1, QuietCallsKeep DEF CancelRelease
<1>17. CASE StoreFails(h)
  <2>1. PICK step \in HandlerSteps : Go(h, step)
    BY <1>17 DEF StoreFails, AfterStartError
  <2> QED
    BY <1>17, <2>1, QuietCallsKeep DEF StoreFails, HoldKept
<1>18. CASE Crash(h)
  BY <1>18, QuietCallsKeep DEF Crash, HoldKept
<1> QED
  BY <1>2, <1>3, <1>4, <1>5, <1>6, <1>7, <1>8, <1>9, <1>10, <1>11, <1>12,
     <1>13, <1>14, <1>15, <1>16, <1>17, <1>18 DEF Arrive, Continue

(* A step of workflow w that moves its record to f, with an update of job  *)
(* and hold that an attempt at the given step may make (or none).          *)
LEMMA FlowChangeKeeps ==
    ASSUME TypeOK, NEW w \in Workflows, NEW f \in Flow,
           flow' = [flow EXCEPT ![w] = f], UNCHANGED handler,
           \/ UNCHANGED <<job, holdVars>>
           \/ \E step \in {flow[w].at, flow[w].stray} \cap FlowSteps :
                Perform(step),
           f.at = "succeed" => Succeeding(w) \/ hold' = "committed",
           f.stray = "succeed" => Succeeding(w) \/ hold' = "committed"
    PROVE  Keeps
<1>1. /\ job \in Document /\ hold \in HoldStatus /\ debits \in Nat
      /\ handler \in [Handlers -> Handler] /\ flow \in [Workflows -> Flow]
  BY DEF TypeOK
<1>2. /\ job' \in Document /\ hold' \in HoldStatus /\ debits' \in Nat
      /\ hold = "committed" => hold' = "committed"
      /\ job.status \in Terminal => job'.status = job.status
      /\ job'.status = "succeeded" =>
           job.status = "succeeded" \/ Succeeding(w)
  <2>1. CASE UNCHANGED <<job, holdVars>>
    BY <1>1, <2>1 DEF holdVars
  <2>2. CASE \E step \in {flow[w].at, flow[w].stray} \cap FlowSteps :
                Perform(step)
    <3>1. PICK step \in FlowSteps : /\ step \in {flow[w].at, flow[w].stray}
                                    /\ Perform(step)
      BY <2>2
    <3> QED
      BY <3>1, AttemptSteps DEF Succeeding
  <2> QED
    BY <2>1, <2>2
<1>3. TypeOK'
  BY <1>1, <1>2 DEF TypeOK
<1>4. \A v \in Workflows :
        Succeeding(v)' => Succeeding(v) \/ hold' = "committed"
  BY <1>1 DEF Succeeding
<1> QED
  BY <1>2, <1>3, <1>4 DEF Keeps

LEMMA FlowsKeep ==
    ASSUME TypeOK, NEW w \in Workflows,
           Progress(w) \/ StrayStep(w) \/ AttemptFails(w) \/ AttemptTimesOut(w)
    PROVE  Keeps
<1>1. /\ flow \in [Workflows -> Flow] /\ flow[w] \in Flow
      /\ 0 \in 0..ActivityTries
  BY WorkflowAssumption DEF TypeOK
<1>2. CASE FlowStep(w)
  <2> DEFINE step == flow[w].at
             tries == IF step \in Last THEN 0 ELSE flow[w].tries
             f == [flow[w] EXCEPT !.at = After(step), !.tries = tries]
  <2>1. step \in FlowSteps /\ Perform(step) /\ UNCHANGED handler
    BY <1>2 DEF FlowStep, Live
  <2>2. flow' = [flow EXCEPT ![w] = f]
    BY <1>1, <1>2 DEF FlowStep, Flow
  <2>3. f \in Flow /\ f.at = After(step) /\ f.stray = flow[w].stray
    BY <1>1, <2>1, NextSteps DEF Flow
  <2>4. f.at = "succeed" => hold' = "committed"
    BY <2>1, <2>3, NextSteps, AttemptSteps
  <2> QED
    BY <2>1, <2>2, <2>3, <2>4, FlowChangeKeeps DEF Succeeding
<1>3. CASE CommitRefused(w)
  <2>1. flow[w].at \in FlowSteps
    BY <1>3 DEF CommitRefused, FlowSteps
  <2>2. /\ Retried(flow[w]) \in Flow
        /\ Retried(flow[w]).at # "succeed"
        /\ Retried(flow[w]).stray = flow[w].stray
    BY <1>1, <2>1, RetriedFlows
  <2> QED
    BY <1>1, <1>3, <2>2, FlowChangeKeeps DEF CommitRefused, Succeeding
<1>4. CASE AttemptFails(w)
  <2>1. flow[w].at \in FlowSteps
    BY <1>4 DEF AttemptFails, Live
  <2>2. /\ Retried(flow[w]) \in Flow
        /\ Retried(flow[w]).at # "succeed"
        /\ Retried(flow[w]).stray = flow[w].stray
    BY <1>1, <2>1, RetriedFlows
  <2>3. /\ UNCHANGED handler
        /\ flow' = [flow EXCEPT ![w] = Retried(flow[w])]
        /\ UNCHANGED <<job, holdVars>> \/ Perform(flow[w].at)
    BY <1>1, <1>4 DEF AttemptFails
  <2> QED
    BY <2>1, <2>2, <2>3, FlowChangeKeeps DEF Succeeding
<1>5. CASE AttemptTimesOut(w)
  <2> DEFINE f == [Retried(flow[w]) EXCEPT !.stray = flow[w].at]
  <2>1. flow[w].at \in FlowSteps
    BY <1>5 DEF AttemptTimesOut, Live
  <2>2. /\ Retried(flow[w]) \in Flow
        /\ Retried(flow[w]).at # "succeed"
    BY <1>1, <2>1, RetriedFlows
  <2>3. f \in Flow /\ f.at # "succeed" /\ f.stray = flow[w].at
    BY <2>1, <2>2 DEF Flow
  <2>4. /\ UNCHANGED <<job, holdVars, handler>>
        /\ flow' = [flow EXCEPT ![w] = f]
    BY <1>1, <1>5 DEF AttemptTimesOut
  <2> QED
    BY <2>3, <2>4, FlowChangeKeeps DEF Succeeding
<1>6. CASE FlowCancelled(w)
  <2>1. PICK stray \in {flow[w].stray, flow[w].at},
             next \in {"closed", "release"} :
          flow' = [flow EXCEPT
             ![w] = [at |-> next, tries |-> 0, cancelled |-> FALSE,
                     stray |-> stray]]
    BY <1>6 DEF FlowCancelled
  <2>2. flow[w].at \in FlowSteps
    BY <1>6 DEF FlowCancelled, Live
  <2> DEFINE f == [at |-> next, tries |-> 0, cancelled |-> FALSE,
                   stray |-> stray]
  <2>3. f \in Flow
    BY <1>1, <2>2 DEF Flow, FlowSteps
  <2> QED
    BY <1>6, <2>1, <2>3, FlowChangeKeeps DEF FlowCancelled, Succeeding
<1>7. CASE StrayStep(w)
  <2> DEFINE step == flow[w].stray
  <2>1. step \in FlowSteps /\ UNCHANGED handler
    BY <1>7 DEF StrayStep
  <2>2. CASE Perform(step) /\ flow' = [flow EXCEPT ![w].stray =
                               IF step \in Last THEN "none" ELSE After(step)]
    <3> DEFINE next == IF step \in Last THEN "none" ELSE After(step)
               f == [flow[w] EXCEPT !.stray = next]
    <3>1. next \in FlowSteps \cup {"none"}
      BY <2>1, NextSteps
    <3>2. f \in Flow /\ f.at = flow[w].at /\ f.stray = next
      BY <1>1, <3>1 DEF Flow
    <3>3. flow' = [flow EXCEPT ![w] = f]
      BY <1>1, <2>2
    <3>4. next = "succeed" => hold' = "committed"
      BY <2>1, <2>2, NextSteps, AttemptSteps
    <3> QED
      BY <2>1, <2>2, <3>2, <3>3, <3>4, FlowChangeKeeps DEF Succeeding
  <2>3. CASE /\ flow' = [flow EXCEPT ![w].stray = "none"]
             /\ UNCHANGED <<job, holdVars>>
    <3> DEFINE f == [flow[w] EXCEPT !.stray = "none"]
    <3>1. f \in Flow /\ f.at = flow[w].at /\ f.stray = "none"
      BY <1>1 DEF Flow
    <3>2. flow' = [flow EXCEPT ![w] = f]
      BY <1>1, <2>3
    <3> QED
      BY <2>1, <2>3, <3>1, <3>2, FlowChangeKeeps DEF Succeeding
  <2> QED
    BY <1>7, <2>2, <2>3 DEF StrayStep
<1> QED
  BY <1>2, <1>3, <1>4, <1>5, <1>6, <1>7 DEF Progress

LEMMA StutteringKeeps == TypeOK /\ UNCHANGED vars => Keeps
  BY DEF TypeOK, vars, Keeps, Succeeding

LEMMA StepsKeep == TypeOK /\ [Next]_vars => Keeps
  BY HandlersKeep, FlowsKeep, StutteringKeeps DEF Next, SteadyNext

LEMMA PaidInitially == Init => PaidInv
<1> SUFFICES ASSUME Init PROVE PaidInv
  OBVIOUS
<1>1. job \in Document /\ job.status = "absent"
  BY JobAssumption DEF Init, Absent, Document, Status
<1>2. handler \in [Handlers -> Handler]
  BY JobAssumption DEF Init, Handler, HandlerSteps
<1>3. /\ flow \in [Workflows -> Flow]
      /\ \A w \in Workflows : ~Succeeding(w)
  BY WorkflowAssumption DEF Init, Flow, Succeeding
<1>4. hold \in HoldStatus /\ debits \in Nat
  BY DEF Init, HoldInit, HoldStatus
<1> QED
  BY <1>1, <1>2, <1>3, <1>4 DEF PaidInv, TypeOK, SucceededIsPaid

LEMMA PaidPreserved == PaidInv /\ [Next]_vars => PaidInv'
<1> SUFFICES ASSUME PaidInv, [Next]_vars PROVE PaidInv'
  OBVIOUS
<1>1. Keeps
  BY StepsKeep DEF PaidInv
<1>2. SucceededIsPaid'
  BY <1>1 DEF Keeps, PaidInv, SucceededIsPaid
<1>3. \A w \in Workflows : Succeeding(w)' => hold' = "committed"
  BY <1>1 DEF Keeps, PaidInv
<1> QED
  BY <1>1, <1>2, <1>3 DEF Keeps, PaidInv

(* The job, its hold, its handlers and its workflows keep their types.     *)
THEOREM TypesAreKept == Spec => []TypeOK
<1>1. PaidInv => TypeOK
  BY DEF PaidInv
<1> QED
  BY <1>1, PaidInitially, PaidPreserved, PTL DEF Spec

(* A job marked succeeded has been debited (activities.py commits before   *)
(* it marks), whatever races with it.                                      *)
THEOREM SuccessIsPaidFor == Spec => []SucceededIsPaid
<1>1. PaidInv => SucceededIsPaid
  BY DEF PaidInv
<1> QED
  BY <1>1, PaidInitially, PaidPreserved, PTL DEF Spec

(* The status filters of the job store: only a retry's reset leaves a      *)
(* terminal status.                                                        *)
THEOREM OnlyRetriesReopen == Spec => TerminalUntilReset
<1>1. PaidInv /\ [Next]_vars =>
        [job.status \in Terminal /\ job'.status # job.status
           => \E h \in Retriers : RetryReset(h)]_vars
  BY StepsKeep DEF PaidInv, Keeps
<1> QED
  BY <1>1, PaidInitially, PaidPreserved, PTL DEF Spec, TerminalUntilReset

-----------------------------------------------------------------------------
(* Where each call of a handler takes it; the other handlers stay.         *)
MovesTo(h, steps) ==
    /\ handler'[h].step \in steps
    /\ \A g \in Handlers \ {h} : handler'[g] = handler[g]

LEMMA CallsMove ==
    ASSUME TypeOK, NEW h \in Handlers
    PROVE  /\ SubmitReserve(h) => MovesTo(h, {"enqueue", "done"})
           /\ SubmitEnqueue(h) => MovesTo(h, {"claim", "done"})
           /\ SubmitClaim(h) =>
                \/ MovesTo(h, {"reread"}) /\ Startable(job)
                \/ MovesTo(h, {"done"}) /\ UNCHANGED job
           /\ RetryRead(h) => MovesTo(h, {"reserve", "done"})
           /\ RetryReserve(h) => MovesTo(h, {"reset", "done"})
           /\ RetryReset(h) => MovesTo(h, {"reread"})
           /\ Reread(h) => MovesTo(h, {"start"})
           /\ StartWorkflow(h) =>
                MovesTo(h, {"record", AfterStartError(h)})
           /\ RecordWorkflow(h) => MovesTo(h, {"refund", "done"})
           /\ FailRead(h) => MovesTo(h, {"fail", "refund", "done"})
           /\ FailWrite(h) => MovesTo(h, {"refund", "done"})
           /\ Refund(h) => MovesTo(h, {"read_attempts", "done"})
           /\ CancelRead(h) => MovesTo(h, {"signal", "release", "done"})
           /\ CancelSignal(h) => MovesTo(h, {"mark", "done"})
           /\ CancelMark(h) => MovesTo(h, {"release"})
           /\ CancelRelease(h) => MovesTo(h, {"done"})
           /\ StoreFails(h) => MovesTo(h, {"refund", "read_attempts", "done"})
           /\ Crash(h) => MovesTo(h, {"done"})
<1>1. handler \in [Handlers -> Handler]
  BY DEF TypeOK
<1>2. \A step : Go(h, step) => MovesTo(h, {step})
  BY <1>1 DEF Go, MovesTo, Handler
<1> USE DEF MovesTo
<1>3. SubmitReserve(h) => MovesTo(h, {"enqueue", "done"})
  <2>1. ASSUME handler' = [handler EXCEPT ![h].step = "enqueue",
                                          ![h].created = TRUE]
        PROVE  MovesTo(h, {"enqueue"})
    BY <1>1, <2>1 DEF Handler
  <2> QED
    BY <1>2, <2>1 DEF SubmitReserve, HoldCredits
<1>4. SubmitEnqueue(h) => MovesTo(h, {"claim", "done"})
  BY <1>2 DEF SubmitEnqueue
<1>5. SubmitClaim(h) =>
        \/ MovesTo(h, {"reread"}) /\ Startable(job)
        \/ MovesTo(h, {"done"}) /\ UNCHANGED job
  BY <1>2 DEF SubmitClaim
<1>6. RetryRead(h) => MovesTo(h, {"reserve", "done"})
  BY <1>2 DEF RetryRead
<1>7. RetryReserve(h) => MovesTo(h, {"reset", "done"})
  <2>1. ASSUME handler' = [handler EXCEPT ![h].step = "reset",
                                          ![h].created = TRUE]
        PROVE  MovesTo(h, {"reset"})
    BY <1>1, <2>1 DEF Handler
  <2> QED
    BY <1>2, <2>1 DEF RetryReserve, HoldCredits
<1>8. RetryReset(h) => MovesTo(h, {"reread"})
  BY <1>2 DEF RetryReset
<1>9. Reread(h) => MovesTo(h, {"start"})
  BY <1>1 DEF Reread, Handler
<1>10. StartWorkflow(h) => MovesTo(h, {"record", AfterStartError(h)})
  <2>1. ASSUME NEW w,
               handler' = [handler EXCEPT ![h].step = "record", ![h].seen = w]
        PROVE  MovesTo(h, {"record"})
    BY <1>1, <2>1 DEF Handler
  <2> QED
    BY <1>2, <2>1 DEF StartWorkflow
<1>11. RecordWorkflow(h) => MovesTo(h, {"refund", "done"})
  BY <1>2 DEF RecordWorkflow
<1>12. FailRead(h) => MovesTo(h, {"fail", "refund", "done"})
  BY <1>1 DEF FailRead, Handler
<1>13. FailWrite(h) => MovesTo(h, {"refund", "done"})
  BY <1>2 DEF FailWrite
<1>14. Refund(h) => MovesTo(h, {"read_attempts", "done"})
  BY <1>2 DEF Refund
<1>15. CancelRead(h) => MovesTo(h, {"signal", "release", "done"})
  BY <1>1 DEF CancelRead, Handler
<1>16. CancelSignal(h) => MovesTo(h, {"mark", "done"})
  BY <1>2 DEF CancelSignal
<1>17. CancelMark(h) => MovesTo(h, {"release"})
  BY <1>2 DEF CancelMark
<1>18. CancelRelease(h) => MovesTo(h, {"done"})
  BY <1>2 DEF CancelRelease
<1>19. StoreFails(h) => MovesTo(h, {"refund", "read_attempts", "done"})
  BY <1>2 DEF StoreFails, AfterStartError
<1>20. Crash(h) => MovesTo(h, {"done"})
  BY <1>2 DEF Crash
<1> QED
  BY <1>3, <1>4, <1>5, <1>6, <1>7, <1>8, <1>9, <1>10, <1>11, <1>12, <1>13,
     <1>14, <1>15, <1>16, <1>17, <1>18, <1>19, <1>20

-----------------------------------------------------------------------------
(* One workflow for one job.  Until somebody retries the job it is given   *)
(* a workflow id once, by the update with which one submission claims it;  *)
(* so one handler at most ever starts a workflow, and one workflow.        *)

Unretried == \A h \in Retriers : At(h, "ready")

(* Going to start a workflow, or to record the one it started.             *)
GoingToStart(h) == handler[h].step \in {"reread", "start"}
Starting(h) == GoingToStart(h) \/ At(h, "record")

StartInv ==
    Unretried =>
      /\ \A g, h \in Handlers : Starting(g) /\ Starting(h) => g = h
      /\ \A h \in Handlers : Starting(h) => job.workflow # NoWorkflow
      /\ \A h \in Handlers : At(h, "record") => handler[h].seen # NoWorkflow
      /\ \A h \in Handlers, w \in Workflows : GoingToStart(h) => ~Started(w)
      /\ \A v, w \in Workflows : Started(v) /\ Started(w) => v = w
      /\ \A w \in Workflows : Started(w) => job.workflow # NoWorkflow

(* A step after which nobody starts a workflow who was not about to.       *)
NobodyNewStarts ==
    /\ job'.workflow = job.workflow
    /\ \A w \in Workflows : Started(w)' => Started(w)
    /\ \A h \in Handlers :
          handler'[h].step \in {"reread", "start", "record"}
            => handler'[h] = handler[h]

(* The steps of handlers that are not on the way to a workflow.            *)
OtherCalls(h) ==
    \/ Arrive(h) \/ StoreFails(h) \/ Crash(h) \/ SubmitEnqueue(h)
    \/ h \in Retriers /\ RetryReserve(h)
    \/ FailRead(h) \/ FailWrite(h) \/ Refund(h)
    \/ CancelSignal(h) \/ CancelMark(h) \/ CancelRelease(h)

LEMMA OtherCallsStartNothing ==
    ASSUME TypeOK, NEW h \in Handlers, OtherCalls(h)
    PROVE  NobodyNewStarts
<1>1. job \in Document /\ flow \in [Workflows -> Flow]
  BY DEF TypeOK
<1>2. MovesTo(h, {"enqueue", "claim", "reset", "reserve", "signal", "mark",
                  "release", "read_attempts", "fail", "refund", "done"})
  BY CallsMove DEF OtherCalls, Arrive, MovesTo
<1>3. job'.workflow = job.workflow
  <2>1. CASE SubmitEnqueue(h)
    BY <1>1, <2>1 DEF SubmitEnqueue, Enqueued, Document
  <2>2. CASE FailWrite(h) \/ CancelMark(h)
    BY <1>1, <2>2 DEF FailWrite, CancelMark, Failed, Ended, Document
  <2>3. CASE ~(SubmitEnqueue(h) \/ FailWrite(h) \/ CancelMark(h))
    BY <2>3 DEF OtherCalls, Arrive, SubmitReserve, RetryRead, CancelRead,
       RetryReserve, HoldCredits, StoreFails, Crash, FailRead, Refund,
       CancelSignal, CancelRelease
  <2> QED
    BY <2>1, <2>2, <2>3
<1>4. \A w \in Workflows : flow'[w].at = flow[w].at
  <2>1. CASE CancelSignal(h)
    BY <1>1, <2>1 DEF CancelSignal, Flow
  <2>2. CASE ~CancelSignal(h)
    BY <2>2 DEF OtherCalls, Arrive, SubmitReserve, RetryRead, CancelRead,
       RetryReserve, HoldCredits, StoreFails, Crash, SubmitEnqueue, FailRead,
       FailWrite, Refund, CancelMark, CancelRelease
  <2> QED
    BY <2>1, <2>2
<1> QED
  BY <1>2, <1>3, <1>4 DEF NobodyNewStarts, Started, MovesTo

LEMMA FlowsStartNothing ==
    ASSUME TypeOK, NEW w \in Workflows,
           Progress(w) \/ StrayStep(w) \/ AttemptFails(w) \/ AttemptTimesOut(w)
    PROVE  /\ NobodyNewStarts /\ UNCHANGED handler
           /\ \A v \in Workflows \ {w} : flow'[v] = flow[v]
<1>1. /\ job \in Document /\ flow \in [Workflows -> Flow]
  BY DEF TypeOK
<1>2. /\ UNCHANGED handler
      /\ \A v \in Workflows \ {w} : flow'[v] = flow[v]
  <2>1. CASE Progress(w)
    BY <1>1, <2>1 DEF Progress, FlowStep, CommitRefused, FlowCancelled
  <2>2. CASE StrayStep(w)
    BY <1>1, <2>2 DEF StrayStep
  <2>3. CASE AttemptFails(w) \/ AttemptTimesOut(w)
    BY <1>1, <2>3 DEF AttemptFails, AttemptTimesOut
  <2> QED
    BY <2>1, <2>2, <2>3
<1>3. Started(w)' => Started(w)
  <2>1. CASE StrayStep(w)
    BY <1>1, <2>1 DEF StrayStep, Started, Flow
  <2>2. CASE ~StrayStep(w)
    BY <2>2 DEF Progress, FlowStep, CommitRefused, FlowCancelled, AttemptFails,
       AttemptTimesOut, Live, Started, FlowSteps
  <2> QED
    BY <2>1, <2>2
<1>4. ASSUME NEW step, Perform(step)
      PROVE  job'.workflow = job.workflow
  BY <1>1, <1>4 DEF Perform, Running, Ended, Document
<1>5. job'.workflow = job.workflow
  BY <1>4 DEF Progress, FlowStep, CommitRefused, FlowCancelled, StrayStep,
     AttemptFails, AttemptTimesOut
<1> QED
  BY <1>2, <1>3, <1>5 DEF NobodyNewStarts, Started

LEMMA StartKept ==
    ASSUME StartInv, NobodyNewStarts, Unretried' => Unretried
    PROVE  StartInv'
  BY DEF StartInv, NobodyNewStarts, Starting, GoingToStart, At

LEMMA StartersKeep ==
    ASSUME TypeOK, StartInv, NEW h \in Handlers, Unretried,
           SubmitClaim(h) \/ Reread(h) \/ StartWorkflow(h) \/ RecordWorkflow(h)
    PROVE  StartInv'
<1>1. /\ job \in Document /\ handler \in [Handlers -> Handler]
      /\ flow \in [Workflows -> Flow]
  BY DEF TypeOK
<1>2. CASE SubmitClaim(h)
  <2>1. CASE MovesTo(h, {"done"}) /\ UNCHANGED job
    <3>1. flow' = flow
      BY <1>2 DEF SubmitClaim
    <3> QED
      BY <2>1, <3>1, StartKept DEF NobodyNewStarts, Started, MovesTo
  <2>2. CASE MovesTo(h, {"reread"}) /\ Startable(job)
    <3>1. PICK w \in Workflows : job' = Claimed(job, w)
      BY <1>2, <2>2 DEF SubmitClaim
    <3>2. job.workflow = NoWorkflow /\ job'.workflow # NoWorkflow
      BY <1>1, <2>2, <3>1, JobAssumption DEF Claimed, Startable, Document
    <3>3. flow' = flow
      BY <1>2 DEF SubmitClaim
    <3>4. /\ \A g \in Handlers : ~Starting(g)
          /\ \A v \in Workflows : ~Started(v)
      BY <3>2 DEF StartInv
    <3> QED
      BY <2>2, <3>2, <3>3, <3>4
         DEF StartInv, Starting, GoingToStart, At, Started, MovesTo
  <2> QED
    BY <1>2, <2>1, <2>2, CallsMove
<1>3. CASE Reread(h)
  <2>1. /\ GoingToStart(h) /\ handler'[h].step = "start"
        /\ job' = job /\ flow' = flow
        /\ \A g \in Handlers \ {h} : handler'[g] = handler[g]
    BY <1>3, CallsMove DEF Reread, GoingToStart, At, MovesTo
  <2> QED
    BY <2>1 DEF StartInv, Starting, GoingToStart, At, Started
<1>4. CASE StartWorkflow(h)
  <2>1. PICK w \in Workflows :
          \/ /\ flow' = Begun(w)
             /\ \/ handler' = [handler EXCEPT ![h].step = "record",
                                              ![h].seen = w]
                \/ Go(h, AfterStartError(h))
          \/ Go(h, AfterStartError(h)) /\ UNCHANGED flow
    BY <1>4 DEF StartWorkflow
  <2>2. /\ handler'[h].step \in {"record", "read_attempts", "refund"}
        /\ \A g \in Handlers \ {h} : handler'[g] = handler[g]
    BY <1>4, CallsMove DEF MovesTo, AfterStartError
  <2>3. \A v \in Workflows \ {w} : flow'[v].at = flow[v].at
    BY <1>1, <2>1 DEF Begun
  <2>4. GoingToStart(h) /\ Starting(h) /\ job' = job
    BY <1>4 DEF StartWorkflow, GoingToStart, Starting, At
  <2>5. /\ \A v \in Workflows : ~Started(v)
        /\ job.workflow # NoWorkflow
        /\ \A g \in Handlers \ {h} : ~Starting(g)
    BY <2>4 DEF StartInv
  <2>6. \A v \in Workflows \ {w} : ~Started(v)'
    BY <2>3, <2>5 DEF Started
  <2>7. \A g \in Handlers \ {h} : ~Starting(g)'
    BY <2>2, <2>5 DEF Starting, GoingToStart, At
  <2>8. handler'[h].step = "record" => handler'[h].seen # NoWorkflow
    <3>1. CASE handler' = [handler EXCEPT ![h].step = "record", ![h].seen = w]
      BY <1>1, <3>1, JobAssumption DEF Handler
    <3>2. CASE Go(h, AfterStartError(h))
      BY <1>1, <3>2 DEF Go, AfterStartError, Handler
    <3> QED
      BY <2>1, <3>1, <3>2
  <2> QED
    BY <2>2, <2>4, <2>5, <2>6, <2>7, <2>8 DEF StartInv, Starting, GoingToStart, At
<1>5. CASE RecordWorkflow(h)
  <2>1. /\ handler'[h].step \in {"refund", "done"} /\ flow' = flow
        /\ job' = [job EXCEPT !.workflow = handler[h].seen]
        /\ \A g \in Handlers \ {h} : handler'[g] = handler[g]
        /\ At(h, "record")
    BY <1>5, CallsMove DEF RecordWorkflow, Recorded, MovesTo
  <2>2. job'.workflow = handler[h].seen /\ handler[h].seen # NoWorkflow
    BY <1>1, <2>1 DEF StartInv, Document
  <2> QED
    BY <2>1, <2>2 DEF StartInv, Starting, GoingToStart, At, Started
<1> QED
  BY <1>2, <1>3, <1>4, <1>5

(* A call that has begun stays begun.                                      *)
LEMMA NobodyReturns ==
    ASSUME TypeOK, [Next]_vars, NEW r \in Handlers, ~At(r, "ready")
    PROVE  ~At(r, "ready")'
<1>2. ASSUME NEW w \in Workflows,
             \/ Progress(w) \/ StrayStep(w) \/ AttemptFails(w)
             \/ AttemptTimesOut(w)
      PROVE  ~At(r, "ready")'
  BY <1>2, FlowsStartNothing DEF At
<1>3. ASSUME NEW h \in Handlers,
             Arrive(h) \/ Continue(h) \/ StoreFails(h) \/ Crash(h)
      PROVE  ~At(r, "ready")'
  <2>1. /\ handler'[h].step # "ready"
        /\ \A g \in Handlers \ {h} : handler'[g] = handler[g]
    <3>1. CASE Arrive(h) \/ StoreFails(h) \/ Crash(h)
      BY <3>1, CallsMove DEF Arrive, MovesTo
    <3>2. CASE StartWorkflow(h)
      BY <3>2, CallsMove DEF MovesTo, AfterStartError
    <3>3. CASE Continue(h) /\ ~StartWorkflow(h)
      BY <3>3, CallsMove DEF Continue, MovesTo
    <3> QED
      BY <1>3, <3>1, <3>2, <3>3
  <2> QED
    BY <2>1 DEF At
<1>4. CASE UNCHANGED vars
  BY <1>4 DEF vars, At
<1> QED
  BY <1>2, <1>3, <1>4 DEF Next, SteadyNext

LEMMA StaysUnretried == TypeOK /\ [Next]_vars /\ Unretried' => Unretried
  BY NobodyReturns DEF Unretried, Handlers

LEMMA StartPreserved == TypeOK /\ StartInv /\ [Next]_vars => StartInv'
<1> SUFFICES ASSUME TypeOK, StartInv, [Next]_vars, Unretried'
             PROVE  StartInv'
  BY DEF StartInv
<1>1. Unretried
  BY StaysUnretried
<1>2. ASSUME NEW w \in Workflows,
             \/ Progress(w) \/ StrayStep(w) \/ AttemptFails(w)
             \/ AttemptTimesOut(w)
      PROVE  StartInv'
  BY <1>1, <1>2, FlowsStartNothing, StartKept
<1>3. ASSUME NEW h \in Handlers,
             Arrive(h) \/ Continue(h) \/ StoreFails(h) \/ Crash(h)
      PROVE  StartInv'
  <2>1. CASE OtherCalls(h)
    BY <1>1, <2>1, OtherCallsStartNothing, StartKept
  <2>2. CASE \/ SubmitClaim(h) \/ Reread(h) \/ StartWorkflow(h)
             \/ RecordWorkflow(h)
    BY <1>1, <2>2, StartersKeep
  <2>3. ~(h \in Retriers /\ RetryReset(h))
    BY <1>1 DEF RetryReset, Unretried, At
  <2> QED
    BY <1>3, <2>1, <2>2, <2>3 DEF Continue, OtherCalls
<1>4. CASE UNCHANGED vars
  BY <1>1, <1>4, StartKept DEF vars, NobodyNewStarts, Started
<1> QED
  BY <1>2, <1>3, <1>4 DEF Next, SteadyNext

LEMMA StartInitially == Init => StartInv
  BY DEF Init, StartInv, Starting, GoingToStart, At, Started

LEMMA StartAlways == Spec => []StartInv
  BY StartInitially, StartPreserved, TypesAreKept, PTL DEF Spec

(* However many submissions of one content race, are cancelled or fail, at *)
(* most one workflow is started for the job until somebody retries it:     *)
(* reserve_workflow_start matches only a document without a workflow id.   *)
THEOREM SubmissionsStartOneWorkflow == Spec => []OneWorkflow
<1>1. StartInv => OneWorkflow
  <2> SUFFICES ASSUME StartInv, Unretried
               PROVE  Cardinality({w \in Workflows : Started(w)}) <= 1
    BY DEF OneWorkflow, Unretried
  <2> DEFINE S == {w \in Workflows : Started(w)}
  <2>1. CASE S = {}
    BY <2>1, FS_EmptySet
  <2>2. CASE S # {}
    <3>1. PICK w : w \in S
      BY <2>2
    <3>2. S = {w}
      BY <3>1 DEF StartInv
    <3> QED
      BY <3>2, FS_Singleton
  <2> QED
    BY <2>1, <2>2
<1> QED
  BY <1>1, StartAlways, PTL

-----------------------------------------------------------------------------
(* Work is funded.  While nobody cancels or retries the job, its hold is   *)
(* given back only by a submission that claimed the job and could not      *)
(* start its workflow, or by the workflow itself once its work has failed. *)

Untouched == \A h \in Retriers \cup Cancellers : At(h, "ready")

FundedSteps == {"run", "work", "commit", "succeed"}

(* The claimed job could not be started: it is failed and its hold goes.   *)
Failing(h) == handler[h].step \in {"read_attempts", "fail", "refund"}

SubmitSteps == {"ready", "enqueue", "claim", "reread", "start", "record",
                "read_attempts", "fail", "refund", "done"}

FundInv ==
    Untouched =>
      /\ \A h \in Handlers : handler[h].step \in SubmitSteps
      /\ \A h \in Handlers : Failing(h) =>
            /\ job.workflow # NoWorkflow
            /\ \A g \in Handlers : ~Starting(g)
            /\ \A w \in Workflows : ~Started(w)
      /\ hold = "none" =>
            /\ \A h \in Handlers : handler[h].step \in {"ready", "done"}
            /\ \A w \in Workflows : ~Started(w)
      /\ hold = "released" =>
            /\ job.workflow # NoWorkflow
            /\ \A h \in Handlers : ~GoingToStart(h)
            /\ \A w \in Workflows : flow[w].at \notin FundedSteps
      /\ \A w \in Workflows :
            /\ ~flow[w].cancelled
            /\ flow[w].stray # "none" => Started(w)
            /\ flow[w].stray \in {"release", "bury"} =>
                  flow[w].at \notin FundedSteps

LEMMA HoldIsNeverNew ==
    ASSUME hold \in HoldStatus, HoldKept
    PROVE  /\ hold' = "none" => hold = "none"
           /\ hold' = "released" => hold = "released" \/ ReleaseHold
  BY DEF HoldKept, HoldStatus, TakeHold, CommitHold, ReleaseHold, holdVars

(* A workflow whose work has failed does not work again.                   *)
LEMMA ClausesEnd ==
    /\ \A step \in {"release", "bury"} : After(step) \notin FundedSteps
    /\ \A f \in Flow :
          /\ f.at \in {"release", "bury"} => Retried(f).at \notin FundedSteps
          /\ Retried(f).cancelled = f.cancelled
          /\ Retried(f).stray = f.stray
<1>1. \A step \in {"release", "bury"} :
        After(step) \notin FundedSteps /\ First(step) \notin FundedSteps
  BY DEF After, First, FundedSteps
<1>2. ASSUME NEW f \in Flow
      PROVE  /\ f.at \in {"release", "bury"} =>
                   Retried(f).at \notin FundedSteps
             /\ Retried(f).cancelled = f.cancelled
             /\ Retried(f).stray = f.stray
  <2>1. CASE f.tries + 1 < ActivityTries
    <3>1. Retried(f) = [f EXCEPT !.at = First(f.at), !.tries = f.tries + 1]
      BY <2>1 DEF Retried
    <3> QED
      BY <1>1, <3>1 DEF Flow
  <2>2. CASE ~(f.tries + 1 < ActivityTries)
    <3>1. Retried(f) =
            [f EXCEPT !.at = IF f.at \in {"release", "bury"}
                             THEN "closed" ELSE "release",
                      !.tries = 0]
      BY <2>2 DEF Retried
    <3> QED
      BY <3>1 DEF Flow, FundedSteps
  <2> QED
    BY <2>1, <2>2
<1> QED
  BY <1>1, <1>2

(* What a step of an uncancelled workflow does to it and to the hold.      *)
LEMMA FlowsMove ==
    ASSUME TypeOK, NEW w \in Workflows, ~flow[w].cancelled,
           Progress(w) \/ StrayStep(w) \/ AttemptFails(w) \/ AttemptTimesOut(w)
    PROVE  /\ Live(w) \/ flow[w].stray # "none"
           /\ ~flow'[w].cancelled
           /\ flow[w].at \notin FundedSteps => flow'[w].at \notin FundedSteps
           /\ flow[w].at # "none" => flow'[w].at # "none"
           /\ flow'[w].stray # "none" => flow[w].stray # "none" \/ Live(w)
           /\ flow'[w].stray \in {"release", "bury"} =>
                \/ flow[w].stray \in {"release", "bury"}
                \/ flow[w].at \in {"release", "bury"}
           /\ hold' = "none" => hold = "none"
           /\ hold' = "released" =>
                \/ hold = "released"
                \/ flow[w].at = "release" \/ flow[w].stray = "release"
<1>1. /\ flow \in [Workflows -> Flow] /\ flow[w] \in Flow
      /\ hold \in HoldStatus
  BY DEF TypeOK
<1>2. ASSUME NEW step, Perform(step)
      PROVE  /\ hold' = "none" => hold = "none"
             /\ hold' = "released" => hold = "released" \/ step = "release"
  <2>1. HoldKept
    BY <1>2 DEF Perform, HoldKept, GiveBack
  <2>2. step # "release" => \/ CommitHold \/ UNCHANGED holdVars
    BY <1>2 DEF Perform
  <2> QED
    BY <1>1, <2>1, <2>2, HoldIsNeverNew DEF CommitHold, holdVars
<1>3. \A step \in FlowSteps \ FundedSteps : step \in {"release", "bury"}
  BY DEF FlowSteps, FundedSteps
<1>4. \A step \in FlowSteps : After(step) # "none"
  BY DEF After, FlowSteps
<1>5. ASSUME Live(w)
      PROVE  Retried(flow[w]).at # "none"
  <2>1. Retried(flow[w]).at \in {First(flow[w].at), "closed", "release"}
    BY <1>1 DEF Retried, Flow
  <2> QED
    BY <1>5, <2>1 DEF First, Live, FlowSteps
<1>6. CASE FlowStep(w)
  <2>1. /\ Live(w) /\ Perform(flow[w].at)
        /\ flow'[w].at = After(flow[w].at)
        /\ flow'[w].cancelled = flow[w].cancelled
        /\ flow'[w].stray = flow[w].stray
    BY <1>1, <1>6 DEF FlowStep, Flow
  <2> QED
    BY <1>2, <1>3, <1>4, <2>1, ClausesEnd DEF Live
<1>7. CASE CommitRefused(w) \/ AttemptFails(w)
  <2>1. Live(w) /\ flow'[w] = Retried(flow[w])
    BY <1>1, <1>7 DEF CommitRefused, AttemptFails, Live, FlowSteps
  <2>2. hold' = hold \/ (Perform(flow[w].at) /\ flow[w].at \in Last)
    BY <1>7 DEF CommitRefused, AttemptFails, holdVars
  <2>3. "release" \notin Last
    BY DEF Last
  <2> QED
    BY <1>1, <1>2, <1>3, <1>5, <2>1, <2>2, <2>3, ClausesEnd DEF Live
<1>8. CASE AttemptTimesOut(w)
  <2>1. /\ Live(w) /\ hold' = hold
        /\ flow'[w] = [Retried(flow[w]) EXCEPT !.stray = flow[w].at]
    BY <1>1, <1>8 DEF AttemptTimesOut, holdVars
  <2>2. Retried(flow[w]) \in Flow
    BY <1>1, <2>1, RetriedFlows DEF Live
  <2>3. /\ flow'[w].at = Retried(flow[w]).at
        /\ flow'[w].cancelled = Retried(flow[w]).cancelled
        /\ flow'[w].stray = flow[w].at
    BY <2>1, <2>2 DEF Flow
  <2> QED
    BY <1>1, <1>3, <1>5, <2>1, <2>3, ClausesEnd DEF Live
<1>9. CASE FlowCancelled(w)
  BY <1>9 DEF FlowCancelled
<1>10. CASE StrayStep(w)
  <2> DEFINE step == flow[w].stray
  <2>1. /\ step \in FlowSteps /\ step # "none"
        /\ flow'[w].at = flow[w].at
        /\ flow'[w].cancelled = flow[w].cancelled
        /\ flow'[w].stray \in {"none", After(step)}
        /\ hold' = hold \/ Perform(step)
    BY <1>1, <1>10 DEF StrayStep, Flow, FlowSteps, holdVars
  <2>2. After(step) \in {"release", "bury"} => step \in {"release", "bury"}
    BY DEF After
  <2> QED
    BY <1>2, <2>1, <2>2
<1> QED
  BY <1>6, <1>7, <1>8, <1>9, <1>10 DEF Progress

LEMMA FlowsKeepFunds ==
    ASSUME TypeOK, StartInv, FundInv, Untouched, NEW w \in Workflows,
           Progress(w) \/ StrayStep(w) \/ AttemptFails(w) \/ AttemptTimesOut(w)
    PROVE  FundInv'
<1>1. Unretried
  BY DEF Untouched, Unretried
<1>2. ~flow[w].cancelled
  BY DEF FundInv
<1>3. /\ UNCHANGED handler /\ job'.workflow = job.workflow
      /\ \A v \in Workflows \ {w} : flow'[v] = flow[v]
  BY FlowsStartNothing DEF NobodyNewStarts
<1>4. Started(w)
  BY <1>2, FlowsMove DEF FundInv, Live, Started, FlowSteps
<1>5. /\ hold # "none" /\ job.workflow # NoWorkflow
      /\ \A h \in Handlers : ~Failing(h) /\ ~GoingToStart(h)
      /\ \A v \in Workflows \ {w} : ~Started(v)
  BY <1>1, <1>4 DEF FundInv, StartInv
<1>6. \A v \in Workflows \ {w} : flow'[v].at \notin FundedSteps
  BY <1>3, <1>5 DEF Started, FundedSteps
<1>7. /\ flow'[w].at # "none" /\ ~flow'[w].cancelled
      /\ flow'[w].stray \in {"release", "bury"} =>
            flow'[w].at \notin FundedSteps
      /\ hold' # "none"
      /\ hold' = "released" => flow'[w].at \notin FundedSteps
  <2>1. flow[w].at \in {"release", "bury"} => flow[w].at \notin FundedSteps
    BY DEF FundedSteps
  <2> QED
    BY <1>2, <1>4, <1>5, <2>1, FlowsMove DEF FundInv, Started
<1>8. \A h \in Handlers : handler'[h] = handler[h]
  BY <1>3
<1> QED
  BY <1>3, <1>5, <1>6, <1>7, <1>8 DEF FundInv, Failing, Starting, GoingToStart,
     At, Started

(* A submission's calls, when a start that raises has started nothing and  *)
(* the stores answer.                                                      *)
LEMMA SubmissionsKeepFunds ==
    ASSUME TypeOK, StartInv, StartInv', FundInv, Untouched, Untouched',
           Faults \cap {"reply_lost", "store_fails"} = {},
           NEW h \in Handlers,
           Arrive(h) \/ Continue(h) \/ StoreFails(h) \/ Crash(h)
    PROVE  FundInv'
<1>1. /\ job \in Document /\ hold \in HoldStatus
      /\ flow \in [Workflows -> Flow] /\ handler \in [Handlers -> Handler]
  BY DEF TypeOK
<1>2. Unretried /\ Unretried'
  BY DEF Untouched, Unretried
<1>3. h \in Submitters /\ h \notin Retriers /\ h \notin Cancellers
  <2>1. \A s \in HandlerSteps : s # "ready" /\ MovesTo(h, {s}) =>
          h \notin Retriers \cup Cancellers
    BY DEF MovesTo, Untouched, At
  <2>2. handler'[h].step # "ready"
    <3>1. CASE Arrive(h) \/ StoreFails(h) \/ Crash(h)
      BY <3>1, CallsMove DEF Arrive, MovesTo
    <3>2. CASE StartWorkflow(h)
      BY <3>2, CallsMove DEF MovesTo, AfterStartError
    <3>3. CASE Continue(h) /\ ~StartWorkflow(h)
      BY <3>3, CallsMove DEF Continue, MovesTo
    <3> QED
      BY <3>1, <3>2, <3>3
  <2> QED
    BY <2>2 DEF Untouched, At, Handlers
<1>4. /\ \A g \in Handlers : handler[g].step \in SubmitSteps
      /\ handler[h].step \in SubmitSteps
  BY DEF FundInv
<1>5. AfterStartError(h) = "read_attempts"
  BY <1>3 DEF AfterStartError
<1> USE DEF Failing, Starting, GoingToStart, At, Started
<1>6. CASE SubmitReserve(h)
  <2>1. /\ MovesTo(h, {"enqueue", "done"}) /\ UNCHANGED <<job, flow>>
        /\ HoldKept /\ ~ReleaseHold
        /\ handler'[h].step = "enqueue" => hold' # "none"
    <3>1. MovesTo(h, {"enqueue", "done"}) /\ UNCHANGED <<job, flow>>
      BY <1>6, CallsMove DEF SubmitReserve, HoldCredits
    <3>2. HoldKept /\ ~ReleaseHold
      BY <1>6 DEF SubmitReserve, HoldCredits, HoldKept, TakeHold, ReleaseHold,
         holdVars
    <3>3. ASSUME handler'[h].step = "enqueue"
          PROVE  hold' # "none"
      <4>1. Go(h, "done") => handler'[h].step = "done"
        BY <1>1 DEF Go, Handler
      <4> QED
        BY <1>6, <3>3, <4>1
           DEF SubmitReserve, HoldCredits, TakeHold, holdVars
    <3> QED
      BY <3>1, <3>2, <3>3
  <2>2. /\ hold' = "none" => hold = "none"
        /\ hold' = "released" => hold = "released"
    BY <1>1, <2>1, HoldIsNeverNew
  <2> QED
    BY <2>1, <2>2 DEF FundInv, MovesTo, SubmitSteps
<1>7. CASE SubmitEnqueue(h)
  <2>1. /\ MovesTo(h, {"claim", "done"}) /\ UNCHANGED <<hold, flow>>
        /\ handler[h].step = "enqueue"
        /\ job'.workflow = job.workflow
    BY <1>1, <1>7, CallsMove DEF SubmitEnqueue, Enqueued, Document, holdVars
  <2> QED
    BY <2>1 DEF FundInv, MovesTo, SubmitSteps
<1>8. CASE SubmitClaim(h)
  <2>1. UNCHANGED <<hold, flow>> /\ handler[h].step = "claim"
    BY <1>8 DEF SubmitClaim, holdVars
  <2>2. CASE MovesTo(h, {"done"}) /\ UNCHANGED job
    BY <2>1, <2>2 DEF FundInv, MovesTo, SubmitSteps
  <2>3. CASE MovesTo(h, {"reread"}) /\ Startable(job)
    <3>1. job.workflow = NoWorkflow
      BY <2>3 DEF Startable
    <3>2. /\ hold # "none" /\ hold # "released"
          /\ \A g \in Handlers : ~Failing(g)
      BY <2>1, <3>1 DEF FundInv
    <3> QED
      BY <2>1, <2>3, <3>2 DEF FundInv, MovesTo, SubmitSteps
  <2> QED
    BY <1>8, <2>2, <2>3, CallsMove
<1>9. CASE Reread(h)
  <2>1. /\ MovesTo(h, {"start"}) /\ UNCHANGED <<job, hold, flow>>
        /\ handler[h].step = "reread"
    BY <1>9, CallsMove DEF Reread, holdVars
  <2> QED
    BY <2>1 DEF FundInv, MovesTo, SubmitSteps
<1>10. CASE StartWorkflow(h)
  <2>1. /\ MovesTo(h, {"record", "read_attempts"}) /\ UNCHANGED <<job, hold>>
        /\ handler[h].step = "start"
    BY <1>5, <1>10, CallsMove DEF StartWorkflow, holdVars
  <2>2. /\ hold # "none" /\ hold # "released"
        /\ job.workflow # NoWorkflow
        /\ \A v \in Workflows : ~Started(v)
        /\ \A g \in Handlers \ {h} : ~Starting(g)
        /\ \A g \in Handlers : ~Failing(g)
    BY <1>2, <2>1 DEF FundInv, StartInv
  <2>3. \/ UNCHANGED flow
        \/ /\ handler'[h].step = "record"
           /\ \E w \in Workflows : flow' = Begun(w)
    <3>1. \A w : handler' = [handler EXCEPT ![h].step = "record",
                                            ![h].seen = w]
            => handler'[h].step = "record"
      BY <1>1 DEF Handler
    <3> QED
      BY <1>10, <3>1 DEF StartWorkflow
  <2>4. CASE UNCHANGED flow
    BY <2>1, <2>2, <2>4 DEF FundInv, MovesTo, SubmitSteps
  <2>5. CASE /\ handler'[h].step = "record"
             /\ \E w \in Workflows : flow' = Begun(w)
    <3>1. PICK w \in Workflows : flow' = Begun(w)
      BY <2>5
    <3>2. /\ flow'[w].at = "run" /\ ~flow'[w].cancelled
          /\ flow'[w].stray = flow[w].stray
          /\ \A v \in Workflows \ {w} : flow'[v] = flow[v]
      BY <1>1, <3>1 DEF Begun, Flow
    <3>3. flow[w].stray = "none"
      BY <2>2 DEF FundInv
    <3> QED
      BY <2>1, <2>2, <2>5, <3>2, <3>3 DEF FundInv, MovesTo, SubmitSteps
  <2> QED
    BY <2>3, <2>4, <2>5
<1>11. CASE RecordWorkflow(h)
  <2>1. /\ handler[h].step = "record" /\ UNCHANGED <<hold, flow>>
        /\ MovesTo(h, {"done"})
    <3>1. Go(h, "done")
      BY <1>11 DEF RecordWorkflow
    <3>2. MovesTo(h, {"done"})
      BY <1>1, <3>1 DEF Go, MovesTo
    <3> QED
      BY <1>11, <3>2 DEF RecordWorkflow, holdVars
  <2>2. job'.workflow # NoWorkflow
    <3>1. job'.workflow = handler[h].seen
      BY <1>1, <1>11 DEF RecordWorkflow, Recorded, Document
    <3> QED
      BY <1>2, <2>1, <3>1 DEF StartInv
  <2> QED
    BY <2>1, <2>2 DEF FundInv, MovesTo, SubmitSteps
<1>12. CASE FailRead(h) \/ FailWrite(h)
  <2>1. /\ MovesTo(h, {"fail", "refund"}) /\ UNCHANGED <<hold, flow>>
        /\ Failing(h) /\ job'.workflow = job.workflow
    <3>1. CASE FailRead(h)
      <4>1. handler'[h].step \in {"fail", "refund"}
        BY <1>1, <1>3, <3>1 DEF FailRead, Handler
      <4> QED
        BY <3>1, <4>1, CallsMove DEF FailRead, MovesTo, holdVars
    <3>2. CASE FailWrite(h)
      <4>1. Go(h, "refund") /\ job'.workflow = job.workflow
        BY <1>1, <1>3, <3>2 DEF FailWrite, Failed, Ended, Document
      <4>2. MovesTo(h, {"refund"})
        BY <1>1, <4>1 DEF Go, MovesTo
      <4> QED
        BY <3>2, <4>1, <4>2 DEF FailWrite, MovesTo, holdVars
    <3> QED
      BY <1>12, <3>1, <3>2
  <2> QED
    BY <2>1 DEF FundInv, MovesTo, SubmitSteps
<1>13. CASE Refund(h)
  <2>1. /\ MovesTo(h, {"done"}) /\ UNCHANGED <<job, flow>>
        /\ Failing(h) /\ HoldKept
    <3>1. Go(h, "done")
      BY <1>3, <1>13 DEF Refund
    <3>2. MovesTo(h, {"done"})
      BY <1>1, <3>1 DEF Go, MovesTo
    <3> QED
      BY <1>13, <3>2 DEF Refund, GiveBack, HoldKept
  <2>2. /\ job.workflow # NoWorkflow
        /\ \A g \in Handlers : ~Starting(g)
        /\ \A w \in Workflows : ~Started(w)
    BY <2>1 DEF FundInv
  <2>3. hold' = "none" => hold = "none"
    BY <1>1, <2>1, HoldIsNeverNew
  <2> QED
    BY <2>1, <2>2, <2>3 DEF FundInv, MovesTo, SubmitSteps, FundedSteps
<1>14. CASE Crash(h)
  <2>1. MovesTo(h, {"done"}) /\ UNCHANGED <<job, hold, flow>>
    BY <1>14, CallsMove DEF Crash, holdVars
  <2> QED
    BY <2>1 DEF FundInv, MovesTo, SubmitSteps
<1>15. ~StoreFails(h)
  BY DEF StoreFails
<1>16. ~(CancelSignal(h) \/ CancelMark(h) \/ CancelRelease(h))
  BY <1>4 DEF CancelSignal, CancelMark, CancelRelease, SubmitSteps
<1> QED
  BY <1>3, <1>6, <1>7, <1>8, <1>9, <1>10, <1>11, <1>12, <1>13, <1>14, <1>15,
     <1>16 DEF Arrive, Continue

LEMMA StaysUntouched == TypeOK /\ [Next]_vars /\ Untouched' => Untouched
<1> SUFFICES ASSUME TypeOK, [Next]_vars, NEW r \in Handlers, ~At(r, "ready")
             PROVE  ~At(r, "ready")'
  BY DEF Untouched, Handlers
<1> QED
  BY NobodyReturns

LEMMA FundPreserved ==
    ASSUME Faults \cap {"reply_lost", "store_fails"} = {}
    PROVE  TypeOK /\ StartInv /\ StartInv' /\ FundInv /\ [Next]_vars
             => FundInv'
<1> SUFFICES ASSUME TypeOK, StartInv, StartInv', FundInv, [Next]_vars,
                    Untouched'
             PROVE  FundInv'
  BY DEF FundInv
<1>1. Untouched
  BY StaysUntouched
<1>2. CASE UNCHANGED vars
  BY <1>1, <1>2 DEF vars, FundInv, Failing, Starting, GoingToStart, At,
     Started, holdVars
<1> QED
  BY <1>1, <1>2, FlowsKeepFunds, SubmissionsKeepFunds DEF Next, SteadyNext

LEMMA FundInitially == Init => FundInv
  BY DEF Init, HoldInit, FundInv, SubmitSteps, Failing, Started

(* Unless starting a workflow raises although it started, or a call to a   *)
(* store raises, no workflow works on a job without credits held for it or *)
(* already debited, however many submissions race, whatever becomes of     *)
(* their starts and of the activities, and wherever the API process dies.  *)
(* (With such a fault the submission gives the hold of a running workflow  *)
(* back, and it does so after a cancellation or a retry of the job.)       *)
THEOREM FundsArriveBeforeWork ==
    ASSUME Faults \cap {"reply_lost", "store_fails"} = {}
    PROVE  Spec => []WorkIsFunded
<1>1. TypeOK /\ FundInv => WorkIsFunded
  <2> SUFFICES ASSUME TypeOK, FundInv, Untouched, NEW w \in Workflows,
                      flow[w].at \in FundedSteps
               PROVE  CanCommit
    BY DEF WorkIsFunded, Untouched, FundedSteps
  <2>1. Started(w)
    BY DEF Started, FundedSteps
  <2>2. hold \in HoldStatus
    BY DEF TypeOK
  <2> QED
    BY <2>1, <2>2 DEF FundInv, CanCommit, HoldStatus
<1>2. TypeOK /\ StartInv /\ StartInv' /\ FundInv /\ [Next]_vars => FundInv'
  BY FundPreserved
<1>3. Spec => []FundInv
  BY <1>2, FundInitially, StartAlways, TypesAreKept, PTL DEF Spec
<1> QED
  BY <1>1, <1>3, TypesAreKept, PTL

-----------------------------------------------------------------------------
(* No hold is forgotten.  With one submission, and while no call to a      *)
(* store raises, the API process lives and no activity is lost, there is   *)
(* always somebody on the way to settle an active hold: the submission     *)
(* that has not claimed its job yet, a call that took the hold and may     *)
(* still fail to start a workflow, a cancellation that has reached the     *)
(* workflow, or a workflow, or an attempt it gave up, that has yet to      *)
(* commit or release the hold.  Whoever leaves that list hands over to     *)
(* another on it or settles the hold.                                      *)

Steady ==
    /\ \A g, h \in Submitters : g = h
    /\ Faults \cap {"store_fails", "api_crash", "activity_lost"} = {}

RetrySteps == {"ready", "reserve", "reset", "reread", "start", "record",
               "refund", "read_attempts", "fail", "done"}
CancelSteps == {"ready", "signal", "mark", "release", "done"}

(* Each kind of call keeps to its own steps.                               *)
StepsInv ==
    /\ \A h \in Submitters : handler[h].step \in SubmitSteps
    /\ \A h \in Retriers : handler[h].step \in RetrySteps
    /\ \A h \in Cancellers : handler[h].step \in CancelSteps

Idle ==
    /\ \A r \in Retriers : handler[r].step \in {"ready", "done"}
    /\ \A w \in Workflows : flow[w].at = "none" /\ flow[w].stray = "none"

Unsubmitted ==
    /\ Idle /\ job = Absent /\ hold = "none"
    /\ \A c \in Cancellers : handler[c].step \in {"ready", "done"}

Unclaimed(s) ==
    /\ Idle
    /\ \/ At(s, "enqueue") /\ job = Absent
       \/ At(s, "claim") /\ Startable(job)

GivesBack(h) ==
    \/ h \in Submitters /\ handler[h].step \in
          {"reread", "start", "read_attempts", "fail", "refund"}
    \/ h \in Retriers /\ handler[h].step \in
          {"reset", "reread", "start", "refund"}

Responsible(h) ==
    \/ handler[h].created /\ GivesBack(h)
    \/ h \in Cancellers /\ handler[h].step \in {"mark", "release"}

Settles(w) ==
    \/ /\ flow[w].at \in {"run", "work", "commit", "release"}
       /\ ~flow[w].cancelled
    \/ flow[w].stray = "release"

SomebodySettles ==
    \/ \E s \in Submitters : handler[s].created /\ Unclaimed(s)
    \/ \E h \in Handlers : Responsible(h)
    \/ \E w \in Workflows : Settles(w)

SettleInv ==
    /\ \A s \in Submitters : At(s, "ready") => Unsubmitted
    /\ hold = "active" => SomebodySettles

LEMMA StepsPreserved == TypeOK /\ StepsInv /\ [Next]_vars => StepsInv'
<1> SUFFICES ASSUME TypeOK, StepsInv, [Next]_vars PROVE StepsInv'
  OBVIOUS
<1>1. ASSUME NEW w \in Workflows,
             \/ Progress(w) \/ StrayStep(w) \/ AttemptFails(w)
             \/ AttemptTimesOut(w)
      PROVE  StepsInv'
  BY <1>1, FlowsStartNothing DEF StepsInv
<1>2. ASSUME NEW h \in Handlers,
             Arrive(h) \/ Continue(h) \/ StoreFails(h) \/ Crash(h)
      PROVE  StepsInv'
  <2>1. /\ \A g \in Handlers \ {h} : handler'[g] = handler[g]
        /\ h \in Submitters => handler'[h].step \in SubmitSteps
        /\ h \in Retriers => handler'[h].step \in RetrySteps
        /\ h \in Cancellers => handler'[h].step \in CancelSteps
    <3> USE CallsMove, WorkflowAssumption
        DEF StepsInv, MovesTo, SubmitSteps, RetrySteps, CancelSteps, At
    <3>0. /\ h \in Submitters => h \notin Retriers /\ h \notin Cancellers
          /\ h \in Retriers => h \notin Cancellers
      OBVIOUS
    <3>1. CASE Arrive(h)
      <4>1. CASE h \in Submitters /\ SubmitReserve(h)
        BY <3>0, <4>1
      <4>2. CASE h \in Retriers /\ RetryRead(h)
        BY <3>0, <4>2
      <4>3. CASE h \in Cancellers /\ CancelRead(h)
        BY <3>0, <4>3
      <4> QED
        BY <3>1, <4>1, <4>2, <4>3 DEF Arrive
    <3>2. CASE StoreFails(h)
      <4>1. MovesTo(h, {"refund", "read_attempts", "done"})
        BY <3>2
      <4>2. h \in Cancellers => handler'[h].step = "done"
        <5>1. h \in Cancellers => Go(h, "done")
          BY <3>0, <3>2 DEF StoreFails
        <5>2. Go(h, "done") => handler'[h].step = "done"
          BY DEF Go, TypeOK, Handler
        <5> QED
          BY <5>1, <5>2
      <4> QED
        BY <4>1, <4>2
    <3>3. CASE Crash(h)
      BY <3>3
    <3>4. CASE SubmitEnqueue(h) \/ SubmitClaim(h)
      BY <3>4 DEF SubmitEnqueue, SubmitClaim
    <3>5. CASE h \in Retriers /\ (RetryReserve(h) \/ RetryReset(h))
      BY <3>5
    <3>6. CASE Reread(h) \/ StartWorkflow(h) \/ RecordWorkflow(h)
      BY <3>6 DEF Reread, StartWorkflow, RecordWorkflow, AfterStartError
    <3>7. CASE FailRead(h) \/ FailWrite(h) \/ Refund(h)
      BY <3>7 DEF FailRead, FailWrite, Refund
    <3>8. CASE CancelSignal(h) \/ CancelMark(h) \/ CancelRelease(h)
      BY <3>8 DEF CancelSignal, CancelMark, CancelRelease
    <3> QED
      BY <1>2, <3>1, <3>2, <3>3, <3>4, <3>5, <3>6, <3>7, <3>8 DEF Continue
  <2> QED
    BY <2>1 DEF StepsInv, Handlers
<1>3. CASE UNCHANGED vars
  BY <1>3 DEF vars, StepsInv
<1> QED
  BY <1>1, <1>2, <1>3 DEF Next, SteadyNext

LEMMA StepsInitially == Init => StepsInv
  BY DEF Init, StepsInv, SubmitSteps, RetrySteps, CancelSteps, Handlers

(* Only the call that asks for the hold changes whether a call took it.    *)
LEMMA CallsRemember ==
    ASSUME TypeOK, NEW h \in Handlers,
           Arrive(h) \/ Continue(h), ~SubmitReserve(h), ~RetryReserve(h)
    PROVE  handler'[h].created = handler[h].created
<1>1. handler \in [Handlers -> Handler]
  BY DEF TypeOK
<1>2. \A step : Go(h, step) => handler'[h].created = handler[h].created
  BY <1>1 DEF Go, Handler
<1>3. CASE Reread(h) \/ FailRead(h) \/ CancelRead(h)
  BY <1>1, <1>3 DEF Reread, FailRead, CancelRead, Handler
<1>4. CASE StartWorkflow(h)
  <2>1. ASSUME NEW w,
               handler' = [handler EXCEPT ![h].step = "record", ![h].seen = w]
        PROVE  handler'[h].created = handler[h].created
    BY <1>1, <2>1 DEF Handler
  <2> QED
    BY <1>2, <1>4, <2>1 DEF StartWorkflow
<1>5. CASE ~(Reread(h) \/ FailRead(h) \/ CancelRead(h) \/ StartWorkflow(h))
  BY <1>2, <1>5 DEF Arrive, Continue, RetryRead, SubmitEnqueue, SubmitClaim,
     RetryReset, RecordWorkflow, FailWrite, Refund, CancelSignal, CancelMark,
     CancelRelease
<1> QED
  BY <1>3, <1>4, <1>5

(* What stays settled by others stays so, whatever a call that settles     *)
(* nothing does.                                                           *)
LEMMA OthersSettle ==
    ASSUME NEW h \in Handlers, SomebodySettles, flow' = flow,
           \A g \in Handlers \ {h} : handler'[g] = handler[g],
           \A s \in Submitters :
              Unclaimed(s) => handler'[s] = handler[s] /\ Unclaimed(s)',
           Responsible(h) => Responsible(h)'
    PROVE  SomebodySettles'
  BY DEF SomebodySettles, Responsible, GivesBack, Settles

(* A call that is past its claim, or retries, is alone with the hold.      *)
LEMMA BusyCalls ==
    ASSUME Steady, StepsInv, SettleInv, NEW h \in Handlers,
           handler[h].step \in {"reserve", "reset", "reread", "start",
                                "record", "read_attempts", "fail", "refund"}
    PROVE  /\ \A s \in Submitters : ~Unclaimed(s)
           /\ \A s \in Submitters : ~At(s, "ready")
<1>1. h \in Submitters \/ h \in Retriers
  BY DEF Handlers, StepsInv, CancelSteps
<1>2. CASE h \in Submitters
  BY <1>2 DEF Steady, Unclaimed, At
<1>3. CASE h \in Retriers
  <2>1. ~Idle
    BY <1>3 DEF Idle
  <2> QED
    BY <2>1 DEF Unclaimed, SettleInv, Unsubmitted
<1> QED
  BY <1>1, <1>2, <1>3

LEMMA CallsSettle ==
    ASSUME TypeOK, Steady, StepsInv, SettleInv, NEW h \in Handlers,
           Arrive(h) \/ Continue(h)
    PROVE  SettleInv'
<1>1. /\ job \in Document /\ handler \in [Handlers -> Handler]
      /\ flow \in [Workflows -> Flow]
  BY DEF TypeOK
<1>2. /\ h \in Submitters => h \notin Retriers /\ h \notin Cancellers
      /\ h \in Retriers => h \notin Cancellers
      /\ h \in Submitters \/ h \in Retriers \/ h \in Cancellers
  BY WorkflowAssumption DEF Handlers
<1>3. /\ \A s \in Submitters : At(s, "ready") => Unsubmitted
      /\ hold = "active" => SomebodySettles
  BY DEF SettleInv
<1>4. CASE SubmitReserve(h) /\ h \in Submitters
  <2>1. Unsubmitted
    BY <1>3, <1>4 DEF SubmitReserve
  <2>2. /\ MovesTo(h, {"enqueue", "done"}) /\ UNCHANGED <<job, flow>>
    BY <1>4, CallsMove DEF SubmitReserve, HoldCredits
  <2>3. \A s \in Submitters : ~At(s, "ready")'
    BY <1>4, <2>2 DEF Steady, MovesTo, At
  <2>4. ASSUME hold' = "active"
        PROVE  SomebodySettles'
    <3>1. handler' = [handler EXCEPT ![h].step = "enqueue",
                                     ![h].created = TRUE]
      BY <1>4, <2>1, <2>4 DEF SubmitReserve, HoldCredits, Unsubmitted,
         holdVars
    <3>2. handler'[h].step = "enqueue" /\ handler'[h].created
      BY <1>1, <3>1 DEF Handler
    <3>3. Unclaimed(h)'
      BY <1>2, <1>4, <2>1, <2>2, <3>2
         DEF Unclaimed, Unsubmitted, Idle, At, MovesTo, Absent, Handlers
    <3> QED
      BY <1>4, <3>2, <3>3 DEF SomebodySettles
  <2> QED
    BY <2>3, <2>4 DEF SettleInv
<1>5. CASE (RetryRead(h) /\ h \in Retriers) \/ (CancelRead(h) /\ h \in Cancellers)
  <2>1. /\ UNCHANGED <<job, flow, hold>> /\ handler[h].step = "ready"
        /\ \A g \in Handlers \ {h} : handler'[g] = handler[g]
    BY <1>5, CallsMove DEF RetryRead, CancelRead, MovesTo, holdVars, At
  <2>2. \A g \in Submitters : handler'[g] = handler[g]
    BY <1>2, <1>5, <2>1 DEF Handlers
  <2>3. job.status \in {"absent", "queued"} /\ h \in Retriers
           => handler'[h].step = "done"
    <3>1. Go(h, "done") => handler'[h].step = "done"
      BY <1>1 DEF Go, Handler
    <3> QED
      BY <1>2, <1>5, <3>1 DEF RetryRead
  <2>4. job.status = "absent" => handler'[h].step = "done"
    <3>1. CASE CancelRead(h)
      BY <1>1, <3>1 DEF CancelRead, Handler
    <3>2. CASE RetryRead(h)
      BY <1>5, <2>3, <3>1 DEF RetryRead, Go
    <3> QED
      BY <1>5, <3>1, <3>2
  <2>5. job.status \in {"absent", "queued"} /\ Idle => Idle'
    BY <2>1, <2>3 DEF Idle, Handlers
  <2>6. Unsubmitted => Unsubmitted'
    <3>1. job = Absent => job.status = "absent"
      BY DEF Absent
    <3> QED
      BY <2>1, <2>4, <2>5, <3>1 DEF Unsubmitted, Handlers
  <2>7. ASSUME NEW s \in Submitters, Unclaimed(s)
        PROVE  Unclaimed(s)'
    <3>1. job.status \in {"absent", "queued"}
      BY <2>7 DEF Unclaimed, Absent, Startable
    <3> QED
      BY <2>1, <2>2, <2>5, <2>7, <3>1 DEF Unclaimed, At
  <2>8. ~Responsible(h)
    BY <2>1 DEF Responsible, GivesBack
  <2>9. SomebodySettles => SomebodySettles'
    BY <2>1, <2>2, <2>7, <2>8, OthersSettle
  <2> QED
    BY <1>3, <2>1, <2>2, <2>6, <2>9 DEF SettleInv, At
<1>6. CASE SubmitEnqueue(h) \/ SubmitClaim(h)
  <2>1. /\ UNCHANGED <<flow, hold>> /\ handler[h].step \in {"enqueue", "claim"}
        /\ MovesTo(h, {"claim", "reread", "done"})
        /\ handler'[h].created = handler[h].created
    <3>1. /\ UNCHANGED <<flow, hold>>
          /\ handler[h].step \in {"enqueue", "claim"}
          /\ ~SubmitReserve(h) /\ ~RetryReserve(h)
      BY <1>6 DEF SubmitEnqueue, SubmitClaim, holdVars, At, SubmitReserve,
         RetryReserve
    <3> QED
      BY <1>6, <3>1, CallsMove, CallsRemember DEF Continue, MovesTo
  <2>2. h \in Submitters
    BY <2>1 DEF StepsInv, RetrySteps, CancelSteps, Handlers
  <2>3. \A s \in Submitters : s = h
    BY <2>2 DEF Steady
  <2>4. \A g \in Retriers \cup Cancellers : handler'[g] = handler[g]
    BY <1>2, <2>1, <2>2 DEF MovesTo, Handlers
  <2>5. \A s \in Submitters : ~At(s, "ready")'
    BY <2>1, <2>3 DEF MovesTo, At
  <2>6. ~Responsible(h)
    BY <1>2, <2>1, <2>2 DEF Responsible, GivesBack
  <2>7. ASSUME Unclaimed(h), handler[h].created
        PROVE  SomebodySettles'
    <3>1. Idle'
      BY <2>1, <2>4, <2>7 DEF Unclaimed, Idle
    <3>2. CASE SubmitEnqueue(h)
      <4>1. /\ job = Absent /\ job' = Enqueued(job)
            /\ handler'[h].step = "claim"
        <5>1. At(h, "enqueue") /\ job' = Enqueued(job)
          BY <3>2 DEF SubmitEnqueue
        <5>2. job = Absent
          BY <2>7, <5>1 DEF Unclaimed, At
        <5>3. Go(h, "claim")
          BY <3>2, <5>2 DEF SubmitEnqueue, Absent
        <5> QED
          BY <1>1, <5>1, <5>2, <5>3 DEF Go, Handler
      <4>2. Startable(job)'
        BY <4>1 DEF Startable, Enqueued, Absent
      <4> QED
        BY <2>1, <2>2, <2>7, <3>1, <4>1, <4>2
           DEF SomebodySettles, Unclaimed, At
    <3>3. CASE SubmitClaim(h)
      <4>1. Startable(job)
        BY <2>7, <3>3 DEF Unclaimed, SubmitClaim, At
      <4>2. Go(h, "reread")
        BY <3>3, <4>1 DEF SubmitClaim
      <4>3. handler'[h].step = "reread"
        BY <1>1, <4>2 DEF Go, Handler
      <4>4. Responsible(h)'
        BY <2>1, <2>2, <2>7, <4>3 DEF Responsible, GivesBack
      <4> QED
        BY <4>4 DEF SomebodySettles
    <3> QED
      BY <1>6, <3>2, <3>3
  <2>8. SomebodySettles => SomebodySettles'
    <3>1. CASE \E s \in Submitters : handler[s].created /\ Unclaimed(s)
      BY <2>3, <2>7, <3>1
    <3>2. CASE \E g \in Handlers : Responsible(g)
      BY <2>1, <2>6, <3>2 DEF SomebodySettles, Responsible, GivesBack, MovesTo
    <3>3. CASE \E w \in Workflows : Settles(w)
      BY <2>1, <3>3 DEF SomebodySettles, Settles
    <3> QED
      BY <3>1, <3>2, <3>3 DEF SomebodySettles
  <2> QED
    BY <1>3, <2>1, <2>5, <2>8 DEF SettleInv
<1>7. CASE RetryReserve(h) /\ h \in Retriers
  <2>1. /\ UNCHANGED flow /\ handler[h].step = "reserve"
        /\ \A g \in Handlers \ {h} : handler'[g] = handler[g]
    BY <1>7, CallsMove DEF RetryReserve, HoldCredits, At, MovesTo
  <2>2. /\ \A s \in Submitters : ~Unclaimed(s)
        /\ \A s \in Submitters : ~At(s, "ready")
    BY <2>1, BusyCalls
  <2>3. \A s \in Submitters : ~At(s, "ready")'
    BY <1>2, <1>7, <2>1, <2>2 DEF At, Handlers
  <2>4. ~Responsible(h)
    BY <1>2, <1>7, <2>1 DEF Responsible, GivesBack
  <2>5. ASSUME hold' = "active"
        PROVE  SomebodySettles'
    <3>1. CASE hold = "active"
      BY <1>3, <2>1, <2>2, <2>4, <3>1, OthersSettle
    <3>2. CASE hold # "active"
      <4>1. handler' = [handler EXCEPT ![h].step = "reset",
                                       ![h].created = TRUE]
        BY <1>7, <2>5, <3>2 DEF RetryReserve, HoldCredits, holdVars
      <4>2. handler'[h].step = "reset" /\ handler'[h].created
        BY <1>1, <4>1 DEF Handler
      <4> QED
        BY <1>7, <4>2 DEF SomebodySettles, Responsible, GivesBack
    <3> QED
      BY <3>1, <3>2
  <2> QED
    BY <2>3, <2>5 DEF SettleInv
<1>8. CASE \/ RetryReset(h) /\ h \in Retriers
           \/ Reread(h) \/ RecordWorkflow(h) \/ FailRead(h) \/ FailWrite(h)
  <2>1. /\ UNCHANGED <<flow, hold>>
        /\ handler[h].step \in
             {"reset", "reread", "record", "read_attempts", "fail"}
    BY <1>8 DEF RetryReset, Reread, RecordWorkflow, FailRead, FailWrite, At,
       holdVars
  <2>2. /\ handler'[h].created = handler[h].created
        /\ handler'[h].step # "ready"
        /\ \A g \in Handlers \ {h} : handler'[g] = handler[g]
    <3>1. ~SubmitReserve(h) /\ ~RetryReserve(h)
      BY <2>1 DEF SubmitReserve, RetryReserve, At
    <3> QED
      BY <1>8, <3>1, CallsMove, CallsRemember DEF Continue, MovesTo
  <2>3. /\ \A s \in Submitters : ~Unclaimed(s)
        /\ \A s \in Submitters : ~At(s, "ready")
    BY <2>1, BusyCalls
  <2>4. \A s \in Submitters : ~At(s, "ready")'
    BY <2>2, <2>3 DEF At, Handlers
  <2>5. GivesBack(h) => GivesBack(h)'
    <3>1. CASE RetryReset(h) /\ h \in Retriers
      BY <3>1, CallsMove DEF GivesBack, MovesTo
    <3>2. CASE Reread(h)
      BY <3>2, CallsMove DEF GivesBack, MovesTo
    <3>3. CASE RecordWorkflow(h)
      BY <3>3 DEF GivesBack, RecordWorkflow, At
    <3>4. CASE FailRead(h)
      <4>1. h \in Submitters => handler'[h].step \in {"fail", "refund"}
        BY <1>1, <3>4 DEF FailRead, Handler
      <4> QED
        BY <3>4, <4>1 DEF GivesBack, FailRead, At
    <3>5. CASE FailWrite(h)
      <4>1. h \in Submitters => handler'[h].step = "refund"
        BY <1>1, <3>5 DEF FailWrite, Go, Handler
      <4> QED
        BY <3>5, <4>1 DEF GivesBack, FailWrite, At
    <3> QED
      BY <1>8, <3>1, <3>2, <3>3, <3>4, <3>5
  <2>6. Responsible(h) => Responsible(h)'
    <3>1. ~(h \in Cancellers)
      BY <2>1 DEF StepsInv, CancelSteps
    <3> QED
      BY <2>2, <2>5, <3>1 DEF Responsible
  <2> QED
    BY <1>3, <2>1, <2>2, <2>3, <2>4, <2>6, OthersSettle DEF SettleInv
<1>9. CASE StartWorkflow(h)
  <2>1. /\ UNCHANGED hold /\ handler[h].step = "start"
        /\ h \in Submitters \cup Retriers
    BY <1>9 DEF StartWorkflow, At, holdVars, StepsInv, CancelSteps, Handlers
  <2>2. /\ handler'[h].created = handler[h].created
        /\ handler'[h].step \in {"record", AfterStartError(h)}
        /\ \A g \in Handlers \ {h} : handler'[g] = handler[g]
    <3>1. ~SubmitReserve(h) /\ ~RetryReserve(h)
      BY <2>1 DEF SubmitReserve, RetryReserve, At
    <3> QED
      BY <1>9, <3>1, CallsMove, CallsRemember DEF Continue, MovesTo
  <2>3. /\ \A s \in Submitters : ~Unclaimed(s)
        /\ \A s \in Submitters : ~At(s, "ready")
    BY <2>1, BusyCalls
  <2>4. \A s \in Submitters : ~At(s, "ready")'
    BY <2>2, <2>3 DEF At, Handlers, AfterStartError
  <2>5. CASE \E w \in Workflows : flow' = Begun(w)
    <3>1. PICK w \in Workflows : flow' = Begun(w)
      BY <2>5
    <3>2. flow'[w].at = "run" /\ ~flow'[w].cancelled
      BY <1>1, <3>1 DEF Begun, Flow
    <3> QED
      BY <2>4, <3>2 DEF SettleInv, SomebodySettles, Settles
  <2>6. CASE UNCHANGED flow /\ Go(h, AfterStartError(h))
    <3>1. handler'[h].step = AfterStartError(h)
      BY <1>1, <2>6 DEF Go, Handler
    <3>2. Responsible(h) => Responsible(h)'
      BY <1>2, <2>1, <2>2, <3>1 DEF Responsible, GivesBack, AfterStartError
    <3> QED
      BY <1>3, <2>1, <2>2, <2>3, <2>4, <2>6, <3>2, OthersSettle
         DEF SettleInv
  <2> QED
    BY <1>9, <2>5, <2>6 DEF StartWorkflow
<1>10. CASE Refund(h)
  <2>1. /\ UNCHANGED flow /\ handler[h].step = "refund"
        /\ handler'[h].step # "ready"
        /\ \A g \in Handlers \ {h} : handler'[g] = handler[g]
    BY <1>10, CallsMove DEF Refund, At, MovesTo
  <2>2. /\ \A s \in Submitters : ~Unclaimed(s)
        /\ \A s \in Submitters : ~At(s, "ready")
    BY <2>1, BusyCalls
  <2>3. \A s \in Submitters : ~At(s, "ready")'
    BY <2>1, <2>2 DEF At, Handlers
  <2>4. hold' = "active" => hold = "active" /\ ~handler[h].created
    BY <1>10 DEF Refund, GiveBack, ReleaseHold, holdVars
  <2>5. ~handler[h].created => ~Responsible(h)
    BY <2>1 DEF Responsible
  <2> QED
    BY <1>3, <2>1, <2>2, <2>3, <2>4, <2>5, OthersSettle DEF SettleInv
<1>11. CASE CancelSignal(h) \/ CancelMark(h) \/ CancelRelease(h)
  <2>1. /\ handler[h].step \in {"signal", "mark", "release"}
        /\ h \in Cancellers /\ h \notin Submitters /\ h \notin Retriers
        /\ handler'[h].step # "ready"
        /\ \A g \in Handlers \ {h} : handler'[g] = handler[g]
    <3>1. handler[h].step \in {"signal", "mark", "release"}
      BY <1>11 DEF CancelSignal, CancelMark, CancelRelease, At
    <3> QED
      BY <1>2, <1>11, <3>1, CallsMove
         DEF MovesTo, StepsInv, SubmitSteps, RetrySteps
  <2>2. \A s \in Submitters : ~At(s, "ready")
    BY <1>3, <2>1 DEF Unsubmitted
  <2>3. \A s \in Submitters : handler'[s] = handler[s] /\ ~At(s, "ready")'
    BY <2>1, <2>2 DEF At, Handlers
  <2>4. CASE handler'[h].step \in {"mark", "release"}
    BY <2>1, <2>3, <2>4 DEF SettleInv, SomebodySettles, Responsible
  <2>5. CASE CancelSignal(h) /\ handler'[h].step \notin {"mark", "release"}
    <3>1. UNCHANGED <<job, flow, hold>> /\ handler[h].step = "signal"
      <4>1. Go(h, "mark") => handler'[h].step = "mark"
        BY <1>1 DEF Go, Handler
      <4> QED
        BY <2>5, <4>1 DEF CancelSignal, holdVars, At
    <3>2. ~Responsible(h)
      BY <2>1, <3>1 DEF Responsible, GivesBack
    <3>3. \A s \in Submitters : Unclaimed(s) => Unclaimed(s)'
      BY <2>1, <2>3, <3>1 DEF Unclaimed, Idle, At, Handlers
    <3>4. SomebodySettles => SomebodySettles'
      BY <2>1, <2>3, <3>1, <3>2, <3>3, OthersSettle
    <3> QED
      BY <1>3, <2>3, <3>1, <3>4 DEF SettleInv
  <2>6. CASE CancelRelease(h)
    <3>1. hold' # "active"
      BY <2>6 DEF CancelRelease, GiveBack, ReleaseHold, holdVars
    <3> QED
      BY <2>3, <3>1 DEF SettleInv
  <2>7. CancelMark(h) => handler'[h].step = "release"
    BY CallsMove DEF MovesTo
  <2> QED
    BY <1>11, <2>4, <2>5, <2>6, <2>7
<1> QED
  BY <1>4, <1>5, <1>6, <1>7, <1>8, <1>9, <1>10, <1>11 DEF Arrive, Continue

(* Whatever a workflow or a stray attempt does with an active hold but     *)
(* commit or release it, it leaves somebody to do it.                      *)
LEMMA FlowsSettle ==
    ASSUME TypeOK, Steady, SettleInv, NEW w \in Workflows,
           Progress(w) \/ StrayStep(w) \/ AttemptFails(w) \/ AttemptTimesOut(w)
    PROVE  SettleInv'
<1>1. /\ flow \in [Workflows -> Flow] /\ flow[w] \in Flow
      /\ hold \in HoldStatus
  BY DEF TypeOK
<1>2. /\ UNCHANGED handler
      /\ \A v \in Workflows \ {w} : flow'[v] = flow[v]
  BY FlowsStartNothing
<1>3. flow[w].at # "none" \/ flow[w].stray # "none"
  BY DEF Progress, FlowStep, CommitRefused, FlowCancelled, StrayStep,
     AttemptFails, AttemptTimesOut, Live, FlowSteps
<1>4. ~Idle
  BY <1>3 DEF Idle
<1>5. \A s \in Submitters : ~At(s, "ready")'
  BY <1>2, <1>4 DEF SettleInv, Unsubmitted, At
<1>6. ASSUME NEW step, Perform(step), hold' = "active"
      PROVE  hold = "active" /\ step # "commit" /\ step # "release"
  BY <1>6 DEF Perform, CommitHold, GiveBack, ReleaseHold, holdVars
<1>7. hold' = "active" => hold = "active"
  BY <1>6 DEF Progress, FlowStep, CommitRefused, FlowCancelled, StrayStep,
     AttemptFails, AttemptTimesOut, holdVars
<1>8. ASSUME hold' = "active", Settles(w)
      PROVE  Settles(w)'
  <2>1. ASSUME flow[w].at \in {"run", "work", "commit"}
        PROVE  Retried(flow[w]).at \in {"run", "work", "commit", "release"}
    <3>1. Retried(flow[w]).at \in {First(flow[w].at), "release"}
      BY <1>1, <2>1 DEF Retried, Flow
    <3> QED
      BY <2>1, <3>1 DEF First
  <2>2. /\ Retried(flow[w]).cancelled = flow[w].cancelled
        /\ Retried(flow[w]).stray = flow[w].stray
    BY <1>1, ClausesEnd
  <2>3. CASE FlowStep(w)
    <3>1. /\ Perform(flow[w].at)
          /\ flow'[w].at = After(flow[w].at)
          /\ flow'[w].cancelled = flow[w].cancelled
          /\ flow'[w].stray = flow[w].stray
      BY <1>1, <2>3 DEF FlowStep, Flow
    <3>2. flow[w].at # "commit" /\ flow[w].at # "release"
      BY <1>6, <1>8, <3>1
    <3> QED
      BY <1>8, <3>1, <3>2 DEF Settles, After
  <2>4. CASE CommitRefused(w) \/ AttemptFails(w)
    <3>1. /\ flow'[w] = Retried(flow[w])
          /\ flow[w].at \in {"commit", "work"}
      BY <1>1, <2>4 DEF CommitRefused, AttemptFails, Steady
    <3> QED
      BY <1>8, <2>1, <2>2, <3>1 DEF Settles
  <2>5. CASE AttemptTimesOut(w)
    <3>1. /\ Live(w) /\ flow[w].stray = "none"
          /\ flow'[w] = [Retried(flow[w]) EXCEPT !.stray = flow[w].at]
      BY <1>1, <2>5 DEF AttemptTimesOut
    <3>2. Retried(flow[w]) \in Flow
      BY <1>1, <3>1, RetriedFlows DEF Live
    <3>3. /\ flow'[w].at = Retried(flow[w]).at
          /\ flow'[w].cancelled = Retried(flow[w]).cancelled
          /\ flow'[w].stray = flow[w].at
      BY <3>1, <3>2 DEF Flow
    <3>4. flow[w].at \in {"run", "work", "commit", "release"}
            /\ ~flow[w].cancelled
      BY <1>8, <3>1 DEF Settles
    <3> QED
      BY <2>1, <2>2, <3>3, <3>4 DEF Settles
  <2>6. CASE FlowCancelled(w)
    <3>1. flow[w].stray = "release"
      BY <1>8, <2>6 DEF FlowCancelled, Settles
    <3>2. flow'[w].stray = "release"
      BY <1>1, <2>6, <3>1 DEF FlowCancelled
    <3> QED
      BY <3>2 DEF Settles
  <2>7. CASE StrayStep(w)
    <3>1. /\ flow'[w].at = flow[w].at
          /\ flow'[w].cancelled = flow[w].cancelled
          /\ flow[w].stray = "release" => Perform(flow[w].stray)
      BY <1>1, <2>7 DEF StrayStep, Flow
    <3>2. flow[w].stray # "release"
      BY <1>6, <1>8, <3>1
    <3> QED
      BY <1>8, <3>1, <3>2 DEF Settles
  <2> QED
    BY <2>3, <2>4, <2>5, <2>6, <2>7 DEF Progress
<1>9. hold' = "active" => SomebodySettles'
  <2> SUFFICES ASSUME hold' = "active" PROVE SomebodySettles'
    OBVIOUS
  <2>1. CASE \E g \in Handlers : Responsible(g)
    BY <1>2, <2>1 DEF SomebodySettles, Responsible, GivesBack
  <2>2. CASE \E v \in Workflows : Settles(v)
    <3>1. PICK v \in Workflows : Settles(v)
      BY <2>2
    <3>2. Settles(v)'
      BY <1>2, <1>8, <3>1 DEF Settles
    <3> QED
      BY <3>2 DEF SomebodySettles
  <2>3. \A s \in Submitters : ~Unclaimed(s)
    BY <1>4 DEF Unclaimed
  <2> QED
    BY <1>7, <2>1, <2>2, <2>3 DEF SettleInv, SomebodySettles
<1> QED
  BY <1>5, <1>9 DEF SettleInv

LEMMA SettlePreserved ==
    ASSUME Steady
    PROVE  TypeOK /\ StepsInv /\ SettleInv /\ [Next]_vars => SettleInv'
<1> SUFFICES ASSUME TypeOK, StepsInv, SettleInv, [Next]_vars
             PROVE  SettleInv'
  OBVIOUS
<1>1. \A h \in Handlers : ~StoreFails(h) /\ ~Crash(h)
  BY DEF Steady, StoreFails, Crash
<1>2. CASE UNCHANGED vars
  BY <1>2 DEF vars, holdVars, SettleInv, SomebodySettles, Unsubmitted,
     Unclaimed, Idle, Responsible, GivesBack, Settles, At
<1> QED
  BY <1>1, <1>2, CallsSettle, FlowsSettle DEF Next, SteadyNext

LEMMA SettleInitially == Init => SettleInv
  BY DEF Init, HoldInit, SettleInv, Unsubmitted, Idle, Handlers

(* When everybody is done with a job that has ended, its credits are not   *)
(* held any more, for any number of retries, cancellations and workflows,  *)
(* whatever fails to start, is cancelled late, is refused or times out.    *)
(* Each hypothesis is needed: a second submission drops the hold of the    *)
(* first, and so do a store that raises, a process that dies and an except *)
(* clause whose only activity is lost.                                     *)
THEOREM HoldsAreNotForgotten ==
    ASSUME Steady
    PROVE  Spec => []NoForgottenHold
<1>1. SettleInv => NoForgottenHold
  BY DEF SettleInv, NoForgottenHold, Quiet, SomebodySettles, Unclaimed,
     Responsible, GivesBack, Settles, Live, FlowSteps, At, Handlers
<1>2. Init => StepsInv /\ SettleInv
  BY StepsInitially, SettleInitially
<1>3. TypeOK /\ StepsInv /\ SettleInv /\ [Next]_vars => StepsInv' /\ SettleInv'
  BY StepsPreserved, SettlePreserved
<1>4. Spec => [](StepsInv /\ SettleInv)
  BY <1>2, <1>3, TypesAreKept, PTL DEF Spec
<1> QED
  BY <1>1, <1>4, PTL

-----------------------------------------------------------------------------
(* Payments, checkouts and events are what their names say. *)

LEMMA PartsOfPayments ==
    ASSUME P!PaymentsConstants
    PROVE  /\ \A p \in P!Payments :
                P!Checkout(p) \in P!Checkouts /\ P!SentFor(p) \subseteq P!Names
           /\ \A c \in P!Checkouts :
                /\ P!Owner(c) \in Users /\ P!Package(c) \in {"pro", "topup"}
                /\ <<c, 1>> \in P!Payments /\ P!Checkout(<<c, 1>>) = c
<1>1. \A p \in P!Payments : P!Checkout(p) \in P!Checkouts
  BY DEF P!Payments, P!Checkout
<1>2. \A p \in P!Payments : P!SentFor(p) \subseteq P!Names
  BY DEF P!SentFor, P!Names
<1>3. ASSUME NEW c \in P!Checkouts
      PROVE  /\ P!Owner(c) \in Users /\ P!Package(c) \in {"pro", "topup"}
             /\ <<c, 1>> \in P!Payments /\ P!Checkout(<<c, 1>>) = c
  <2>1. P!Owner(c) \in Users /\ P!Package(c) \in {"pro", "topup"}
    BY DEF P!Checkouts, P!Owner, P!Package
  <2>2. <<c, 1>> \in P!Payments
    BY DEF P!Payments, P!PaymentsConstants
  <2> QED
    BY <2>1, <2>2 DEF P!Checkout
<1> QED
  BY <1>1, <1>2, <1>3

-----------------------------------------------------------------------------
(* The inductive invariant.  The properties look at what is granted and    *)
(* marked; that they stay true depends on what each request has already    *)
(* done when it comes to its next call, and on nobody undoing it.          *)

Notified(r) == r.step = "mark" /\ P!HasNotes(r.payment, r.name)

(* What each path may be at, and whom and what it is about. *)
Formed(r) ==
    \/ r = P!Idle
    \/ /\ r \in P!Requests
       /\ r.user = P!Owner(P!Checkout(r.payment))
       /\ \/ /\ r.path = "checkout"
             /\ r.step \in {"account", "trial", "save"}
             /\ r.payment = <<P!Checkout(r.payment), 1>>
          \/ /\ r.path = "verify"
             /\ r.step \in {"account", "plan", "grant", "invoice", "close",
                            "trial"}
          \/ /\ r.path = "webhook"
             /\ r.step \in {"account", "plan", "grant", "invoice", "close",
                            "mark"}
             /\ r.name \in P!Names
             /\ r.step # "mark" => P!HasNotes(r.payment, r.name)

Planned(p) ==
    P!Package(P!Checkout(p)) = "pro" => account[P!Owner(P!Checkout(p))].plan = "pro"
Credited(p) == \E g \in ledger : g.payment = p
Closed(p) == checkouts[P!Checkout(p)] = "paid"
Settled(p) == Planned(p) /\ Credited(p) /\ p \in invoices /\ Closed(p)

(* What a request that grants credits has done before the step it is at. *)
Along(r) ==
    /\ r.payment \in paid
    /\ r.step \in {"grant", "invoice", "close"} => Planned(r.payment)
    /\ r.step \in {"invoice", "close"} => Credited(r.payment)
    /\ r.step = "close" => r.payment \in invoices
    /\ Notified(r) => Settled(r.payment)

Serving(r) ==
    /\ Formed(r)
    /\ r.path = "checkout" => checkouts[P!Checkout(r.payment)] = "none"
    /\ r.path \in {"verify", "webhook"} => Along(r)

AllServed ==
    \A h \in Servers, r \in P!Requests \cup {P!Idle} :
        server[h] = r => Serving(r)

(* One request at a time asks for a checkout. *)
AskedOnce ==
    \A x, y \in Servers :
        /\ server[x].path = "checkout" /\ server[y].path = "checkout"
        /\ server[x].payment = server[y].payment
        => x = y

MarksHold == \A e \in marked : P!HasNotes(e[1], e[2]) => Settled(e[1])

PaymentInv ==
    /\ P!PaidOnce
    /\ \A p \in paid : checkouts[P!Checkout(p)] # "none"
    /\ AllServed
    /\ AskedOnce
    /\ MarksHold

-----------------------------------------------------------------------------
(* What a call of one request leaves to the others: nothing they rely on   *)
(* is undone.                                                              *)
Grows ==
    /\ paid \subseteq paid' /\ invoices \subseteq invoices'
    /\ \A p \in P!Payments :
         /\ Planned(p) => Planned(p)'
         /\ Credited(p) => Credited(p)'
         /\ Closed(p) => Closed(p)'
    /\ \A c \in P!Checkouts :
         checkouts[c] # "none" => checkouts'[c] # "none"

LEMMA OthersAreServed ==
    ASSUME P!PaymentsConstants, NEW r, Serving(r), Grows,
           r.path = "checkout" =>
               checkouts'[P!Checkout(r.payment)] = "none"
    PROVE  Serving(r)'
<1>1. Formed(r)'
  BY DEF Serving, Formed
<1>2. ASSUME r.path \in {"verify", "webhook"}
      PROVE  Along(r)'
  <2>1. Along(r)
    BY <1>2 DEF Serving
  <2>2. r.payment \in P!Payments
    BY <1>2 DEF Serving, Formed, P!Requests, P!Idle
  <2>3. /\ Planned(r.payment) => Planned(r.payment)'
        /\ Credited(r.payment) => Credited(r.payment)'
        /\ Closed(r.payment) => Closed(r.payment)'
        /\ r.payment \in paid => r.payment \in paid'
        /\ r.payment \in invoices => r.payment \in invoices'
    BY <2>2 DEF Grows
  <2> QED
    BY <2>1, <2>3 DEF Along, Settled, Notified
<1> QED
  BY <1>1, <1>2 DEF Serving

LEMMA KnownAndMarked ==
    ASSUME P!PaymentsConstants, P!TypeOK, PaymentInv, Grows, paid' = paid
    PROVE  /\ \A p \in paid' : checkouts'[P!Checkout(p)] # "none"
           /\ marked' = marked => MarksHold'
<1>1. \A p \in paid' : checkouts'[P!Checkout(p)] # "none"
  BY PartsOfPayments DEF PaymentInv, P!TypeOK, Grows
<1>2. ASSUME marked' = marked, NEW e \in marked, P!HasNotes(e[1], e[2])
      PROVE  Settled(e[1])'
  <2>1. e[1] \in P!Payments
    BY DEF P!TypeOK
  <2>2. Settled(e[1])
    BY <1>2 DEF PaymentInv, MarksHold
  <2> QED
    BY <2>1, <2>2 DEF Settled, Grows
<1> QED
  BY <1>1, <1>2 DEF MarksHold

-----------------------------------------------------------------------------
(* A request's own next record.                                            *)

Account == [plan: {"none", "free", "pro"}, until: 0..MaxTime]

Steps == {"idle", "account", "trial", "save", "plan", "grant", "invoice",
          "close", "mark"}

(* The record of a request that has come to another step. *)
LEMMA OnlyTheStep ==
    ASSUME NEW r \in P!Requests, NEW s \in Steps
    PROVE  /\ [r EXCEPT !.step = s] \in P!Requests
           /\ [r EXCEPT !.step = s].step = s
           /\ [r EXCEPT !.step = s].path = r.path
           /\ [r EXCEPT !.step = s].user = r.user
           /\ [r EXCEPT !.step = s].payment = r.payment
           /\ [r EXCEPT !.step = s].name = r.name
BY DEF P!Requests, Steps

(* One request gets a new record, of the same checkout if it asks for one. *)
LEMMA OneIsServed ==
    ASSUME P!PaymentsConstants, P!TypeOK, PaymentInv, Grows,
           NEW h \in Servers, NEW new \in P!Requests \cup {P!Idle},
           server' = [server EXCEPT ![h] = new],
           Serving(new)',
           new.path = "checkout" =>
               \A x \in Servers \ {h} :
                   ~(server[x].path = "checkout"
                       /\ server[x].payment = new.payment),
           \A x \in Servers \ {h} : server[x].path = "checkout" =>
               checkouts'[P!Checkout(server[x].payment)] = "none"
    PROVE  /\ server' \in [Servers -> P!Requests \cup {P!Idle}]
           /\ AllServed' /\ AskedOnce'
<1>1. server' \in [Servers -> P!Requests \cup {P!Idle}]
  BY DEF P!TypeOK
<1>2. /\ server'[h] = new
      /\ \A x \in Servers \ {h} : server'[x] = server[x]
  BY DEF P!TypeOK
<1>3. ASSUME NEW x \in Servers, NEW r \in P!Requests \cup {P!Idle},
             server'[x] = r
      PROVE  Serving(r)'
  <2>1. CASE x = h
    <3>1. r = new
      BY <1>2, <1>3, <2>1
    <3> QED
      BY <3>1
  <2>2. CASE x # h
    <3>1. server[x] = r
      BY <1>2, <1>3, <2>2
    <3>2. Serving(r)
      BY <3>1 DEF PaymentInv, AllServed
    <3>3. r.path = "checkout" => checkouts'[P!Checkout(r.payment)] = "none"
      BY <2>2, <3>1
    <3> QED
      BY <3>2, <3>3, OthersAreServed
  <2> QED
    BY <2>1, <2>2
<1>4. AskedOnce'
  BY <1>2 DEF PaymentInv, AskedOnce
<1> QED
  BY <1>1, <1>3, <1>4 DEF AllServed

(* What is known of a request that is being served.                        *)
LEMMA ServedRequest ==
    ASSUME P!TypeOK, PaymentInv, NEW h \in Servers, server[h].step # "idle"
    PROVE  /\ server[h] \in P!Requests
           /\ Serving(server[h])
           /\ server[h].path = "checkout" =>
                \A x \in Servers \ {h} :
                   ~(server[x].path = "checkout"
                       /\ server[x].payment = server[h].payment)
           /\ \A x \in Servers : server[x].path = "checkout" =>
                /\ checkouts[P!Checkout(server[x].payment)] = "none"
                /\ server[x] \in P!Requests
                /\ server[x].payment = <<P!Checkout(server[x].payment), 1>>
<1>1. ASSUME NEW x \in Servers
      PROVE  Serving(server[x]) /\ server[x] \in P!Requests \cup {P!Idle}
  BY DEF P!TypeOK, PaymentInv, AllServed
<1>2. server[h] \in P!Requests
  BY <1>1 DEF P!Idle
<1>3. server[h].path = "checkout" =>
        \A x \in Servers \ {h} :
           ~(server[x].path = "checkout"
               /\ server[x].payment = server[h].payment)
  BY DEF PaymentInv, AskedOnce
<1>4. ASSUME NEW x \in Servers, server[x].path = "checkout"
      PROVE  /\ checkouts[P!Checkout(server[x].payment)] = "none"
             /\ server[x] \in P!Requests
             /\ server[x].payment = <<P!Checkout(server[x].payment), 1>>
  BY <1>1, <1>4 DEF Serving, Formed, P!Idle
<1> QED
  BY <1>1, <1>2, <1>3, <1>4

(* A call that leaves the checkouts asked for alone, after which its       *)
(* request goes on at the step s.                                          *)
LEMMA RequestGoesOn ==
    ASSUME P!PaymentsConstants, P!TypeOK, PaymentInv, Grows,
           NEW h \in Servers, NEW s \in Steps, P!Go(h, s),
           NEW r \in P!Requests, server[h] = r, r.step # "idle",
           \A c \in P!Checkouts :
              checkouts[c] = "none" => checkouts'[c] = "none",
           Formed([r EXCEPT !.step = s]),
           r.path \in {"verify", "webhook"} => Along([r EXCEPT !.step = s])'
    PROVE  /\ server' \in [Servers -> P!Requests \cup {P!Idle}]
           /\ AllServed' /\ AskedOnce'
<1> DEFINE new == [r EXCEPT !.step = s]
<1>1. /\ new \in P!Requests
      /\ new.path = r.path /\ new.payment = r.payment
  BY OnlyTheStep
<1>2. server' = [server EXCEPT ![h] = new]
  BY DEF P!Go, P!TypeOK
<1>3. \A x \in Servers : server[x].path = "checkout" =>
        checkouts'[P!Checkout(server[x].payment)] = "none"
  <2> SUFFICES ASSUME NEW x \in Servers, server[x].path = "checkout"
               PROVE  checkouts'[P!Checkout(server[x].payment)] = "none"
    OBVIOUS
  <2>1. /\ checkouts[P!Checkout(server[x].payment)] = "none"
        /\ server[x] \in P!Requests
    BY ServedRequest
  <2>2. server[x].payment \in P!Payments
    BY <2>1 DEF P!Requests
  <2> QED
    BY <2>1, <2>2, PartsOfPayments
<1>4. Formed(new)'
  <2>1. Formed(new)
    OBVIOUS
  <2> QED
    BY <2>1 DEF Formed
<1>5. r.path \in {"verify", "webhook"} => Along(new)'
  OBVIOUS
<1> HIDE DEF new
<1>6. Serving(new)'
  BY <1>1, <1>3, <1>4, <1>5 DEF Serving
<1> QED
  BY <1>1, <1>2, <1>3, <1>6, OneIsServed, ServedRequest

(* A call after which its request is over. *)
LEMMA RequestEnds ==
    ASSUME P!PaymentsConstants, P!TypeOK, PaymentInv, Grows,
           NEW h \in Servers, P!Done(h),
           \A x \in Servers \ {h} : server[x].path = "checkout" =>
               checkouts'[P!Checkout(server[x].payment)] = "none"
    PROVE  /\ server' \in [Servers -> P!Requests \cup {P!Idle}]
           /\ AllServed' /\ AskedOnce'
<1>1. /\ server' = [server EXCEPT ![h] = P!Idle]
      /\ P!Idle.path # "checkout"
  BY DEF P!Done, P!Idle
<1>2. Serving(P!Idle)'
  BY DEF Serving, Formed, P!Idle
<1> QED
  BY <1>1, <1>2, OneIsServed

LEMMA NothingIsUndone ==
    ASSUME paid \subseteq paid', invoices' = invoices, ledger' = ledger,
           checkouts' = checkouts, account' = account
    PROVE  Grows
BY DEF Grows, Planned, Credited, Closed

-----------------------------------------------------------------------------
(* One lemma for each action. *)

LEMMA AskCheckoutKeeps ==
    ASSUME P!PaymentsConstants, P!TypeOK, PaymentInv,
           NEW h \in Servers, NEW c \in P!Checkouts, P!AskCheckout(h, c)
    PROVE  P!TypeOK' /\ PaymentInv'
<1> DEFINE new == [path |-> "checkout", step |-> "account",
                   user |-> P!Owner(c), payment |-> <<c, 1>>, name |-> "none"]
<1> USE DEF P!AskCheckout
<1>1. server' = [server EXCEPT ![h] = new]
  BY DEF P!Begin
<1>2. UNCHANGED <<paid, captured, answered, checkouts, invoices, marked,
                  account, trials, ledger, faults, now>>
  BY DEF P!razorpay, P!store
<1>3. Grows
  BY <1>2, NothingIsUndone
<1>4. /\ new \in P!Requests /\ P!Checkout(new.payment) = c
      /\ new.user = P!Owner(P!Checkout(new.payment))
  BY PartsOfPayments DEF P!Requests
<1>5. checkouts[c] = "none"
  BY DEF P!Asked
<1>6. Serving(new)'
  BY <1>2, <1>4, <1>5 DEF Serving, Formed
<1>7. \A x \in Servers \ {h} :
        ~(server[x].path = "checkout" /\ server[x].payment = new.payment)
  BY DEF P!Asked
<1>8. \A x \in Servers \ {h} : server[x].path = "checkout" =>
        checkouts'[P!Checkout(server[x].payment)] = "none"
  BY <1>2 DEF PaymentInv, AllServed, P!TypeOK, Serving
<1>9. server' \in [Servers -> P!Requests \cup {P!Idle}] /\ AllServed' /\ AskedOnce'
  <2> HIDE DEF new
  <2> QED
    BY <1>1, <1>3, <1>4, <1>6, <1>7, <1>8, OneIsServed
<1>10. P!TypeOK'
  BY <1>2, <1>9 DEF P!TypeOK
<1> QED
  BY <1>2, <1>3, <1>9, <1>10, KnownAndMarked DEF PaymentInv, P!PaidOnce

LEMMA VerifyKeeps ==
    ASSUME P!PaymentsConstants, P!TypeOK, PaymentInv,
           NEW h \in Servers, NEW u \in Users, NEW p \in P!Payments,
           P!Verify(h, u, p)
    PROVE  P!TypeOK' /\ PaymentInv'
<1> DEFINE new == [path |-> "verify", step |-> "account", user |-> u,
                   payment |-> p, name |-> "none"]
<1> USE DEF P!Verify
<1>1. server' = [server EXCEPT ![h] = new]
  BY DEF P!Begin
<1>2. UNCHANGED <<paid, captured, answered, checkouts, invoices, marked,
                  account, trials, ledger, faults, now>>
  BY DEF P!razorpay, P!store
<1>3. Grows
  BY <1>2, NothingIsUndone
<1>4. new \in P!Requests
  BY DEF P!Requests
<1>5. Serving(new)'
  <2>1. Formed(new)'
    BY <1>4 DEF Formed
  <2>2. Along(new)'
    BY <1>2 DEF Along, Notified
  <2> QED
    BY <2>1, <2>2 DEF Serving
<1>6. \A x \in Servers \ {h} : server[x].path = "checkout" =>
        checkouts'[P!Checkout(server[x].payment)] = "none"
  BY <1>2 DEF PaymentInv, AllServed, P!TypeOK, Serving
<1>7. server' \in [Servers -> P!Requests \cup {P!Idle}] /\ AllServed' /\ AskedOnce'
  <2>1. new.path # "checkout"
    OBVIOUS
  <2> HIDE DEF new
  <2> QED
    BY <1>1, <1>3, <1>4, <1>5, <1>6, <2>1, OneIsServed
<1>8. P!TypeOK'
  BY <1>2, <1>7 DEF P!TypeOK
<1> QED
  BY <1>2, <1>3, <1>7, <1>8, KnownAndMarked DEF PaymentInv, P!PaidOnce

LEMMA DeliverKeeps ==
    ASSUME P!PaymentsConstants, P!TypeOK, PaymentInv,
           NEW h \in Servers, NEW p \in P!Payments, NEW name \in P!SentFor(p),
           P!Deliver(h, p, name)
    PROVE  P!TypeOK' /\ PaymentInv'
<1> DEFINE s == IF P!HasNotes(p, name) THEN "account" ELSE "mark"
           new == [path |-> "webhook", step |-> s,
                   user |-> P!Owner(P!Checkout(p)), payment |-> p, name |-> name]
<1> USE DEF P!Deliver
<1>1. UNCHANGED <<paid, captured, checkouts, invoices, marked, account,
                  trials, ledger, faults, now>>
  BY DEF P!store
<1>2. name \in P!Names /\ p \in paid
  BY PartsOfPayments DEF P!TypeOK
<1>3. Grows
  BY <1>1, NothingIsUndone
<1>4. answered' \subseteq P!Payments \X P!Names
  BY <1>2 DEF P!TypeOK
<1>5. CASE <<p, name>> \in marked
  <2>1. server' = server
    BY <1>5
  <2>2. P!TypeOK'
    BY <1>1, <1>4, <2>1 DEF P!TypeOK
  <2>3. AllServed' /\ AskedOnce'
    <3>1. ASSUME NEW x \in Servers, NEW r \in P!Requests \cup {P!Idle},
                 server'[x] = r
          PROVE  Serving(r)'
      <4>1. Serving(r)
        BY <2>1, <3>1 DEF PaymentInv, AllServed
      <4>2. r.path = "checkout" => checkouts'[P!Checkout(r.payment)] = "none"
        BY <1>1, <4>1 DEF Serving
      <4> QED
        BY <1>3, <4>1, <4>2, OthersAreServed
    <3> QED
      BY <2>1, <3>1 DEF AllServed, PaymentInv, AskedOnce
  <2> QED
    BY <1>1, <1>3, <2>2, <2>3, KnownAndMarked DEF PaymentInv, P!PaidOnce
<1>6. CASE <<p, name>> \notin marked
  <2>1. server' = [server EXCEPT ![h] = new]
    BY <1>6 DEF P!Begin
  <2>2. new \in P!Requests
    BY <1>2, PartsOfPayments DEF P!Requests
  <2>3. Serving(new)'
    <3>1. Formed(new)'
      BY <1>2, <2>2 DEF Formed
    <3>2. Along(new)'
      BY <1>1, <1>2 DEF Along, Notified
    <3> QED
      BY <3>1, <3>2 DEF Serving
  <2>4. \A x \in Servers \ {h} : server[x].path = "checkout" =>
          checkouts'[P!Checkout(server[x].payment)] = "none"
    BY <1>1 DEF PaymentInv, AllServed, P!TypeOK, Serving
  <2>5. server' \in [Servers -> P!Requests \cup {P!Idle}] /\ AllServed' /\ AskedOnce'
    <3>1. new.path # "checkout"
      OBVIOUS
    <3> HIDE DEF new
    <3> QED
      BY <1>3, <2>1, <2>2, <2>3, <2>4, <3>1, OneIsServed
  <2>6. P!TypeOK'
    BY <1>1, <1>4, <2>5 DEF P!TypeOK
  <2> QED
    BY <1>1, <1>3, <2>5, <2>6, KnownAndMarked DEF PaymentInv, P!PaidOnce
<1> QED
  BY <1>5, <1>6

LEMMA EnsureAccountKeeps ==
    ASSUME P!PaymentsConstants, P!TypeOK, PaymentInv,
           NEW h \in Servers, P!EnsureAccount(h)
    PROVE  P!TypeOK' /\ PaymentInv'
<1>1. PICK r : r = server[h]
  OBVIOUS
<1> USE DEF P!EnsureAccount, P!At
<1>2. r \in P!Requests /\ Serving(r) /\ r.step = "account"
  BY <1>1, ServedRequest
<1>3. UNCHANGED <<paid, captured, answered, checkouts, invoices, marked,
                  trials, ledger, faults, now>>
  BY DEF P!razorpay
<1>4. account' = [account EXCEPT ![r.user].plan =
                     IF @ = "none" THEN "free" ELSE @]
  BY <1>1
<1>5. account' \in [Users -> Account]
  <2>1. account \in [Users -> Account] /\ r.user \in Users
    BY <1>2 DEF P!TypeOK, Account, P!Requests
  <2>2. PICK a \in Account : a = account[r.user]
    BY <2>1
  <2>3. PICK plan : plan = IF a.plan = "none" THEN "free" ELSE a.plan
    OBVIOUS
  <2>4. [a EXCEPT !.plan = plan] \in Account
    BY <2>3 DEF Account
  <2>5. account' = [account EXCEPT ![r.user] = [a EXCEPT !.plan = plan]]
    BY <1>4, <2>1, <2>2, <2>3
  <2> QED
    BY <2>1, <2>4, <2>5
<1>6. \A u \in Users : account[u].plan = "pro" => account'[u].plan = "pro"
  BY <1>2, <1>4 DEF P!TypeOK, P!Requests
<1>7. Grows
  BY <1>3, <1>6, PartsOfPayments DEF Grows, Planned, Credited, Closed
<1>8. PICK s : s = CASE r.path = "checkout" -> "trial"
               [] r.path # "checkout" /\ P!Package(P!Checkout(r.payment)) = "pro"
                    -> "plan"
               [] OTHER -> "grant"
  OBVIOUS
<1>9. P!Go(h, s) /\ s \in Steps
  BY <1>1, <1>8 DEF Steps
<1>10. Formed([r EXCEPT !.step = s])
  BY <1>2, <1>8, <1>9, OnlyTheStep DEF Serving, Formed, P!Idle
<1>11. ASSUME r.path \in {"verify", "webhook"}
       PROVE  Along([r EXCEPT !.step = s])'
  <2>1. PICK new : new = [r EXCEPT !.step = s]
    OBVIOUS
  <2>2. new.step = s /\ new.payment = r.payment
    BY <1>2, <1>9, <2>1, OnlyTheStep
  <2>3. r.payment \in paid'
    BY <1>2, <1>3, <1>11 DEF Serving, Along
  <2>4. s \in {"plan", "grant"}
        /\ (s = "grant" => P!Package(P!Checkout(r.payment)) # "pro")
    BY <1>8, <1>11
  <2>5. s = "grant" => Planned(r.payment)'
    BY <2>4 DEF Planned
  <2>6. Along(new)'
    BY <2>2, <2>3, <2>4, <2>5 DEF Along, Notified
  <2> QED
    BY <2>1, <2>6
<1>12. server' \in [Servers -> P!Requests \cup {P!Idle}] /\ AllServed' /\ AskedOnce'
  BY <1>1, <1>2, <1>3, <1>7, <1>9, <1>10, <1>11, RequestGoesOn
<1>13. P!TypeOK'
  BY <1>3, <1>5, <1>12 DEF P!TypeOK, Account
<1> QED
  BY <1>3, <1>7, <1>12, <1>13, KnownAndMarked DEF PaymentInv, P!PaidOnce

LEMMA GrantTrialKeeps ==
    ASSUME P!PaymentsConstants, P!TypeOK, PaymentInv,
           NEW h \in Servers, P!GrantTrial(h)
    PROVE  P!TypeOK' /\ PaymentInv'
<1>1. PICK r : r = server[h]
  OBVIOUS
<1> USE DEF P!GrantTrial, P!At
<1>2. r \in P!Requests /\ Serving(r) /\ r.step = "trial"
  BY <1>1, ServedRequest
<1>3. UNCHANGED <<paid, captured, answered, checkouts, invoices, marked,
                  account, ledger, faults, now>>
  BY DEF P!razorpay
<1>4. trials' \subseteq Users
  BY <1>1, <1>2 DEF P!TypeOK, P!Requests
<1>5. Grows
  BY <1>3, NothingIsUndone
<1>6. server' \in [Servers -> P!Requests \cup {P!Idle}] /\ AllServed' /\ AskedOnce'
  <2>1. CASE r.path = "checkout"
    <3>1. P!Go(h, "save") /\ "save" \in Steps
      BY <1>1, <2>1 DEF Steps
    <3>2. Formed([r EXCEPT !.step = "save"])
      BY <1>2, <2>1, <3>1, OnlyTheStep DEF Serving, Formed, P!Idle
    <3> QED
      BY <1>1, <1>2, <1>3, <1>5, <2>1, <3>1, <3>2, RequestGoesOn
  <2>2. CASE r.path # "checkout"
    <3>1. P!Done(h)
      BY <1>1, <2>2
    <3>2. \A x \in Servers : server[x].path = "checkout" =>
            checkouts'[P!Checkout(server[x].payment)] = "none"
      BY <1>1, <1>2, <1>3, ServedRequest
    <3> QED
      BY <1>5, <3>1, <3>2, RequestEnds
  <2> QED
    BY <2>1, <2>2
<1>7. P!TypeOK'
  BY <1>3, <1>4, <1>6 DEF P!TypeOK
<1> QED
  BY <1>3, <1>5, <1>6, <1>7, KnownAndMarked DEF PaymentInv, P!PaidOnce

LEMMA SaveCheckoutKeeps ==
    ASSUME P!PaymentsConstants, P!TypeOK, PaymentInv,
           NEW h \in Servers, P!SaveCheckout(h)
    PROVE  P!TypeOK' /\ PaymentInv'
<1>1. PICK r : r = server[h]
  OBVIOUS
<1> USE DEF P!SaveCheckout, P!At
<1>2. r \in P!Requests /\ Serving(r) /\ r.step = "save"
  BY <1>1, ServedRequest
<1>3. PICK c : c = P!Checkout(r.payment)
  OBVIOUS
<1>4. /\ r.path = "checkout" /\ c \in P!Checkouts /\ checkouts[c] = "none"
      /\ r.payment = <<c, 1>>
  BY <1>2, <1>3, PartsOfPayments DEF Serving, Formed, P!Idle, P!Requests
<1>5. UNCHANGED <<paid, captured, answered, invoices, marked, account,
                  trials, ledger, faults, now>>
  BY DEF P!razorpay
<1>6. checkouts' = [checkouts EXCEPT ![c] = "created"]
  BY <1>1, <1>3
<1>7. /\ checkouts' \in [P!Checkouts -> {"none", "created", "paid"}]
      /\ checkouts'[c] = "created"
      /\ \A d \in P!Checkouts \ {c} : checkouts'[d] = checkouts[d]
  BY <1>4, <1>6 DEF P!TypeOK
<1>8. Grows
  <2>1. \A p \in P!Payments : Closed(p) => Closed(p)'
    BY <1>4, <1>7, PartsOfPayments DEF Closed
  <2> QED
    BY <1>5, <1>7, <2>1 DEF Grows, Planned, Credited
<1>9. \A x \in Servers \ {h} : server[x].path = "checkout" =>
        checkouts'[P!Checkout(server[x].payment)] = "none"
  <2> SUFFICES ASSUME NEW x \in Servers \ {h}, server[x].path = "checkout"
               PROVE  checkouts'[P!Checkout(server[x].payment)] = "none"
    OBVIOUS
  <2>1. PICK d : d = P!Checkout(server[x].payment)
    OBVIOUS
  <2>2. /\ checkouts[d] = "none" /\ server[x].payment = <<d, 1>>
        /\ server[x] \in P!Requests
    BY <1>1, <1>2, <2>1, ServedRequest
  <2>3. d \in P!Checkouts
    BY <2>1, <2>2, PartsOfPayments DEF P!Requests
  <2>4. d # c
    BY <1>1, <1>2, <1>4, <2>2, ServedRequest
  <2> QED
    BY <1>7, <2>1, <2>2, <2>3, <2>4
<1>10. server' \in [Servers -> P!Requests \cup {P!Idle}] /\ AllServed' /\ AskedOnce'
  BY <1>8, <1>9, RequestEnds
<1>11. P!TypeOK'
  BY <1>5, <1>7, <1>10 DEF P!TypeOK
<1> QED
  BY <1>5, <1>8, <1>10, <1>11, KnownAndMarked DEF PaymentInv, P!PaidOnce

LEMMA UpdateAccountKeeps ==
    ASSUME P!PaymentsConstants, P!TypeOK, PaymentInv,
           NEW h \in Servers, P!UpdateAccount(h)
    PROVE  P!TypeOK' /\ PaymentInv'
<1>1. PICK r : r = server[h]
  OBVIOUS
<1> USE DEF P!UpdateAccount, P!At
<1>2. r \in P!Requests /\ Serving(r) /\ r.step = "plan"
  BY <1>1, ServedRequest
<1>3. /\ r.path \in {"verify", "webhook"}
      /\ r.user = P!Owner(P!Checkout(r.payment)) /\ r.user \in Users
  BY <1>2 DEF Serving, Formed, P!Idle, P!Requests
<1>4. UNCHANGED <<paid, captured, answered, checkouts, invoices, marked,
                  trials, ledger, faults, now>>
  BY DEF P!razorpay
<1>5. account' = [account EXCEPT ![r.user] = [plan |-> "pro", until |-> now]]
  BY <1>1
<1>6. /\ account' \in [Users -> Account]
      /\ account'[r.user].plan = "pro"
      /\ \A u \in Users : account[u].plan = "pro" => account'[u].plan = "pro"
  <2>1. PICK a : a = [plan |-> "pro", until |-> now]
    OBVIOUS
  <2>2. a \in Account /\ a.plan = "pro"
    BY <2>1 DEF P!TypeOK, Account
  <2>3. account \in [Users -> Account]
    BY DEF P!TypeOK, Account
  <2>4. account' = [account EXCEPT ![r.user] = a]
    BY <1>5, <2>1
  <2> QED
    BY <1>3, <2>2, <2>3, <2>4
<1>7. Grows
  BY <1>4, <1>6, PartsOfPayments DEF Grows, Planned, Credited, Closed
<1>8. P!Go(h, "grant") /\ "grant" \in Steps
  BY DEF Steps
<1>9. Formed([r EXCEPT !.step = "grant"])
  BY <1>2, <1>3, <1>8, OnlyTheStep DEF Serving, Formed, P!Idle
<1>10. Along([r EXCEPT !.step = "grant"])'
  <2>1. PICK new : new = [r EXCEPT !.step = "grant"]
    OBVIOUS
  <2>2. new.step = "grant" /\ new.payment = r.payment
    BY <1>2, <1>8, <2>1, OnlyTheStep
  <2>3. r.payment \in paid'
    BY <1>2, <1>3, <1>4 DEF Serving, Along
  <2>4. Planned(r.payment)'
    BY <1>3, <1>6 DEF Planned
  <2>5. Along(new)'
    BY <2>2, <2>3, <2>4 DEF Along, Notified
  <2> QED
    BY <2>1, <2>5
<1>11. server' \in [Servers -> P!Requests \cup {P!Idle}] /\ AllServed' /\ AskedOnce'
  BY <1>1, <1>2, <1>4, <1>7, <1>8, <1>9, <1>10, RequestGoesOn
<1>12. P!TypeOK'
  BY <1>4, <1>6, <1>11 DEF P!TypeOK, Account
<1> QED
  BY <1>4, <1>7, <1>11, <1>12, KnownAndMarked DEF PaymentInv, P!PaidOnce

LEMMA GrantCreditsKeeps ==
    ASSUME P!PaymentsConstants, P!TypeOK, PaymentInv,
           NEW h \in Servers, P!GrantCredits(h)
    PROVE  P!TypeOK' /\ PaymentInv'
<1>1. PICK r : r = server[h]
  OBVIOUS
<1> USE DEF P!GrantCredits, P!At
<1>2. r \in P!Requests /\ Serving(r) /\ r.step = "grant"
  BY <1>1, ServedRequest
<1>3. PICK p \in P!Payments : p = r.payment
  BY <1>2 DEF P!Requests
<1>4. /\ r.path \in {"verify", "webhook"} /\ r.user = P!Owner(P!Checkout(p))
      /\ p \in paid /\ Planned(p)
  BY <1>2, <1>3 DEF Serving, Formed, Along, P!Idle
<1>5. UNCHANGED <<paid, captured, answered, checkouts, invoices, marked,
                  account, trials, faults, now>>
  BY DEF P!razorpay
<1>6. PICK new : new = [payment |-> p, checkout |-> P!Checkout(p),
                        user |-> P!Owner(P!Checkout(p)),
                        package |-> P!Package(P!Checkout(p)), expires |-> now]
  OBVIOUS
<1>7. /\ new \in P!Grant /\ new.payment = p /\ new.checkout = P!Checkout(p)
      /\ new.user = P!Owner(P!Checkout(p)) /\ new.package = P!Package(P!Checkout(p))
  BY <1>6, PartsOfPayments DEF P!Grant, P!TypeOK
<1>8. ledger' = IF \E g \in ledger : g.payment = p /\ g.checkout = P!Checkout(p)
                THEN ledger ELSE ledger \cup {new}
  BY <1>1, <1>3, <1>4, <1>6 DEF P!Granted, P!NewGrant
<1>9. /\ ledger' \subseteq P!Grant /\ ledger \subseteq ledger'
      /\ \E g \in ledger' : g.payment = p
  BY <1>7, <1>8 DEF P!TypeOK
<1>10. P!PaidOnce'
  <2>1. \A g \in ledger' :
          /\ g.payment \in paid'
          /\ g.checkout = P!Checkout(g.payment)
          /\ g.user = P!Owner(g.checkout) /\ g.package = P!Package(g.checkout)
    BY <1>4, <1>5, <1>7, <1>8 DEF PaymentInv, P!PaidOnce
  <2>2. \A g, other \in ledger' : other.payment = g.payment => other = g
    BY <1>7, <1>8 DEF PaymentInv, P!PaidOnce
  <2> QED
    BY <2>1, <2>2 DEF P!PaidOnce
<1>11. Grows
  BY <1>5, <1>9 DEF Grows, Planned, Credited, Closed
<1>12. P!Go(h, "invoice") /\ "invoice" \in Steps
  BY DEF Steps
<1>13. Formed([r EXCEPT !.step = "invoice"])
  BY <1>2, <1>4, <1>12, OnlyTheStep DEF Serving, Formed, P!Idle
<1>14. Along([r EXCEPT !.step = "invoice"])'
  <2>1. PICK then : then = [r EXCEPT !.step = "invoice"]
    OBVIOUS
  <2>2. then.step = "invoice" /\ then.payment = p
    BY <1>2, <1>3, <1>12, <2>1, OnlyTheStep
  <2>3. Planned(p)' /\ Credited(p)'
    BY <1>4, <1>9, <1>11 DEF Grows, Credited
  <2>4. Along(then)'
    BY <1>4, <1>5, <2>2, <2>3 DEF Along, Notified
  <2> QED
    BY <2>1, <2>4
<1>15. server' \in [Servers -> P!Requests \cup {P!Idle}] /\ AllServed' /\ AskedOnce'
  BY <1>1, <1>2, <1>5, <1>11, <1>12, <1>13, <1>14, RequestGoesOn
<1>16. P!TypeOK'
  BY <1>5, <1>9, <1>15 DEF P!TypeOK
<1> QED
  BY <1>5, <1>10, <1>11, <1>15, <1>16, KnownAndMarked DEF PaymentInv

LEMMA RecordInvoiceKeeps ==
    ASSUME P!PaymentsConstants, P!TypeOK, PaymentInv,
           NEW h \in Servers, P!RecordInvoice(h)
    PROVE  P!TypeOK' /\ PaymentInv'
<1>1. PICK r : r = server[h]
  OBVIOUS
<1> USE DEF P!RecordInvoice, P!At
<1>2. r \in P!Requests /\ Serving(r) /\ r.step = "invoice"
  BY <1>1, ServedRequest
<1>3. PICK p \in P!Payments : p = r.payment
  BY <1>2 DEF P!Requests
<1>4. /\ r.path \in {"verify", "webhook"}
      /\ p \in paid /\ Planned(p) /\ Credited(p)
  BY <1>2, <1>3 DEF Serving, Formed, Along, P!Idle
<1>5. UNCHANGED <<paid, captured, answered, checkouts, marked, account,
                  trials, ledger, faults, now>>
  BY DEF P!razorpay
<1>6. invoices' = invoices \cup {p}
  BY <1>1, <1>3
<1>7. Grows
  BY <1>5, <1>6 DEF Grows, Planned, Credited, Closed
<1>8. P!Go(h, "close") /\ "close" \in Steps
  BY DEF Steps
<1>9. Formed([r EXCEPT !.step = "close"])
  BY <1>2, <1>4, <1>8, OnlyTheStep DEF Serving, Formed, P!Idle
<1>10. Along([r EXCEPT !.step = "close"])'
  <2>1. PICK new : new = [r EXCEPT !.step = "close"]
    OBVIOUS
  <2>2. new.step = "close" /\ new.payment = p
    BY <1>2, <1>3, <1>8, <2>1, OnlyTheStep
  <2>3. Planned(p)' /\ Credited(p)'
    BY <1>4, <1>7 DEF Grows
  <2>4. Along(new)'
    BY <1>4, <1>5, <1>6, <2>2, <2>3 DEF Along, Notified
  <2> QED
    BY <2>1, <2>4
<1>11. server' \in [Servers -> P!Requests \cup {P!Idle}] /\ AllServed' /\ AskedOnce'
  BY <1>1, <1>2, <1>5, <1>7, <1>8, <1>9, <1>10, RequestGoesOn
<1>12. P!TypeOK'
  BY <1>5, <1>6, <1>11 DEF P!TypeOK
<1> QED
  BY <1>5, <1>7, <1>11, <1>12, KnownAndMarked DEF PaymentInv, P!PaidOnce

LEMMA CloseCheckoutKeeps ==
    ASSUME P!PaymentsConstants, P!TypeOK, PaymentInv,
           NEW h \in Servers, P!CloseCheckout(h)
    PROVE  P!TypeOK' /\ PaymentInv'
<1>1. PICK r : r = server[h]
  OBVIOUS
<1> USE DEF P!CloseCheckout, P!At
<1>2. r \in P!Requests /\ Serving(r) /\ r.step = "close"
  BY <1>1, ServedRequest
<1>3. PICK p \in P!Payments : p = r.payment
  BY <1>2 DEF P!Requests
<1>4. PICK c \in P!Checkouts : c = P!Checkout(p)
  BY PartsOfPayments
<1>5. /\ r.path \in {"verify", "webhook"}
      /\ r.path = "webhook" => r.name \in P!Names
      /\ p \in paid /\ Planned(p) /\ Credited(p) /\ p \in invoices
  BY <1>2, <1>3 DEF Serving, Formed, Along, P!Idle
<1>6. UNCHANGED <<paid, captured, answered, invoices, marked, account,
                  trials, ledger, faults, now>>
  BY DEF P!razorpay
<1>7. checkouts[c] # "none"
  BY <1>4, <1>5 DEF PaymentInv
<1>8. checkouts' = [checkouts EXCEPT ![c] = "paid"]
  BY <1>1, <1>3, <1>4, <1>7
<1>9. /\ checkouts' \in [P!Checkouts -> {"none", "created", "paid"}]
      /\ checkouts'[c] = "paid"
      /\ \A d \in P!Checkouts \ {c} : checkouts'[d] = checkouts[d]
  BY <1>8 DEF P!TypeOK
<1>10. Grows
  <2>1. \A q \in P!Payments : Closed(q) => Closed(q)'
    BY <1>9, PartsOfPayments DEF Closed
  <2> QED
    BY <1>6, <1>7, <1>9, <2>1 DEF Grows, Planned, Credited
<1>11. \A d \in P!Checkouts : checkouts[d] = "none" => checkouts'[d] = "none"
  BY <1>7, <1>9
<1>12. PICK s : s = IF r.path = "verify" THEN "trial" ELSE "mark"
  OBVIOUS
<1>13. P!Go(h, s) /\ s \in Steps
  BY <1>1, <1>12 DEF Steps
<1>14. Formed([r EXCEPT !.step = s])
  BY <1>2, <1>5, <1>12, <1>13, OnlyTheStep DEF Serving, Formed, P!Idle
<1>15. Along([r EXCEPT !.step = s])'
  <2>1. PICK new : new = [r EXCEPT !.step = s]
    OBVIOUS
  <2>2. new.step = s /\ new.payment = p
    BY <1>2, <1>3, <1>13, <2>1, OnlyTheStep
  <2>3. Settled(p)'
    BY <1>4, <1>5, <1>6, <1>9, <1>10 DEF Grows, Settled, Closed
  <2>4. Along(new)'
    BY <1>5, <1>6, <1>12, <2>2, <2>3 DEF Along, Notified
  <2> QED
    BY <2>1, <2>4
<1>16. server' \in [Servers -> P!Requests \cup {P!Idle}] /\ AllServed' /\ AskedOnce'
  BY <1>1, <1>2, <1>10, <1>11, <1>13, <1>14, <1>15, RequestGoesOn
<1>17. P!TypeOK'
  BY <1>6, <1>9, <1>16 DEF P!TypeOK
<1> QED
  BY <1>6, <1>10, <1>16, <1>17, KnownAndMarked DEF PaymentInv, P!PaidOnce

LEMMA MarkEventKeeps ==
    ASSUME P!PaymentsConstants, P!TypeOK, PaymentInv,
           NEW h \in Servers, P!MarkEvent(h)
    PROVE  P!TypeOK' /\ PaymentInv'
<1>1. PICK r : r = server[h]
  OBVIOUS
<1> USE DEF P!MarkEvent, P!At
<1>2. r \in P!Requests /\ Serving(r) /\ r.step = "mark"
  BY <1>1, ServedRequest
<1>3. PICK p \in P!Payments : p = r.payment
  BY <1>2 DEF P!Requests
<1>4. PICK name \in P!Names : name = r.name
  BY <1>2 DEF Serving, Formed, P!Idle
<1>5. P!HasNotes(p, name) => Settled(p)
  BY <1>2, <1>3, <1>4 DEF Serving, Formed, P!Idle, Along, Notified
<1>6. UNCHANGED <<paid, captured, checkouts, invoices, account, trials,
                  ledger, faults, now>>
  OBVIOUS
<1>7. /\ marked' = marked \cup {<<p, name>>}
      /\ answered' = answered \cup {<<p, name>>}
  BY <1>1, <1>3, <1>4
<1>8. Grows
  BY <1>6, NothingIsUndone
<1>9. MarksHold'
  <2> SUFFICES ASSUME NEW e \in marked', P!HasNotes(e[1], e[2])
               PROVE  Settled(e[1])'
    BY DEF MarksHold
  <2>1. e[1] \in P!Payments /\ Settled(e[1])
    BY <1>5, <1>7 DEF P!TypeOK, PaymentInv, MarksHold
  <2> QED
    BY <1>6, <2>1 DEF Settled, Grows, Planned, Credited, Closed
<1>10. \A x \in Servers : server[x].path = "checkout" =>
         checkouts'[P!Checkout(server[x].payment)] = "none"
  BY <1>1, <1>2, <1>6, ServedRequest
<1>11. server' \in [Servers -> P!Requests \cup {P!Idle}] /\ AllServed' /\ AskedOnce'
  BY <1>8, <1>10, RequestEnds
<1>12. P!TypeOK'
  BY <1>6, <1>7, <1>11 DEF P!TypeOK
<1> QED
  BY <1>6, <1>8, <1>9, <1>11, <1>12, KnownAndMarked DEF PaymentInv, P!PaidOnce

LEMMA FailKeeps ==
    ASSUME P!PaymentsConstants, P!TypeOK, PaymentInv,
           NEW h \in Servers, P!Fail(h)
    PROVE  P!TypeOK' /\ PaymentInv'
<1> USE DEF P!Fail, P!At
<1>1. UNCHANGED <<paid, captured, answered, checkouts, invoices, marked,
                  account, trials, ledger, now>>
  BY DEF P!razorpay, P!store
<1>2. Grows
  BY <1>1, NothingIsUndone
<1>3. \A x \in Servers : server[x].path = "checkout" =>
        checkouts'[P!Checkout(server[x].payment)] = "none"
  BY <1>1, ServedRequest
<1>4. server' \in [Servers -> P!Requests \cup {P!Idle}] /\ AllServed' /\ AskedOnce'
  BY <1>2, <1>3, RequestEnds
<1>5. faults' \in 0..MaxFaults
  BY DEF P!TypeOK, P!PaymentsConstants
<1>6. P!TypeOK'
  BY <1>1, <1>4, <1>5 DEF P!TypeOK
<1> QED
  BY <1>1, <1>2, <1>4, <1>6, KnownAndMarked DEF PaymentInv, P!PaidOnce

(* What happens outside of the server, and standing still. *)
LEMMA OutsideKeeps ==
    ASSUME P!PaymentsConstants, P!TypeOK, PaymentInv,
           \/ \E p \in P!Payments : P!Pay(p) \/ P!Capture(p)
           \/ P!Tick
           \/ UNCHANGED P!vars
    PROVE  P!TypeOK' /\ PaymentInv'
<1>1. UNCHANGED <<checkouts, invoices, marked, account, trials, ledger,
                  server, faults>>
  BY DEF P!Pay, P!Capture, P!Tick, P!store, P!razorpay, P!vars
<1>2. paid \subseteq paid'
  BY DEF P!Pay, P!Capture, P!Tick, P!razorpay, P!vars
<1>3. Grows
  BY <1>1, <1>2, NothingIsUndone
<1>4. P!TypeOK'
  <2>1. CASE \E p \in P!Payments : P!Pay(p) \/ P!Capture(p)
    BY <1>1, <2>1 DEF P!TypeOK, P!Pay, P!Capture
  <2>2. CASE P!Tick \/ UNCHANGED P!vars
    BY <1>1, <2>2 DEF P!TypeOK, P!Tick, P!razorpay, P!vars, P!PaymentsConstants
  <2> QED
    BY <2>1, <2>2
<1>5. \A p \in paid' : checkouts'[P!Checkout(p)] # "none"
  BY <1>1 DEF PaymentInv, P!Pay, P!Capture, P!Tick, P!razorpay, P!vars
<1>6. AllServed'
  <2> SUFFICES ASSUME NEW x \in Servers, NEW r \in P!Requests \cup {P!Idle},
                      server'[x] = r
               PROVE  Serving(r)'
    BY DEF AllServed
  <2>1. Serving(r)
    BY <1>1 DEF PaymentInv, AllServed
  <2>2. r.path = "checkout" => checkouts'[P!Checkout(r.payment)] = "none"
    BY <1>1, <2>1 DEF Serving
  <2> QED
    BY <1>3, <2>1, <2>2, OthersAreServed
<1>7. AskedOnce'
  BY <1>1 DEF PaymentInv, AskedOnce
<1>8. MarksHold'
  BY <1>1 DEF PaymentInv, MarksHold, Settled, Planned, Credited, Closed
<1>9. P!PaidOnce'
  BY <1>1, <1>2 DEF PaymentInv, P!PaidOnce
<1> QED
  BY <1>4, <1>5, <1>6, <1>7, <1>8, <1>9 DEF PaymentInv

-----------------------------------------------------------------------------
(* The payments keep their types and their invariant. *)
THEOREM RequestsGoAlong == P!Spec => [](P!TypeOK /\ PaymentInv)
<1> USE PaymentsAssumption
<1>1. P!Init => P!TypeOK /\ PaymentInv
  <2> SUFFICES ASSUME P!Init
               PROVE  P!TypeOK /\ PaymentInv
    OBVIOUS
  <2> USE DEF P!Init
  <2>1. P!TypeOK
    BY DEF P!TypeOK, P!PaymentsConstants
  <2>2. AllServed
    BY DEF AllServed, Serving, Formed, P!Idle
  <2>3. AskedOnce
    BY DEF AskedOnce, P!Idle
  <2> QED
    BY <2>1, <2>2, <2>3 DEF PaymentInv, P!PaidOnce, MarksHold
<1>2. P!TypeOK /\ PaymentInv /\ [P!Next]_(P!vars) => P!TypeOK' /\ PaymentInv'
  <2> SUFFICES ASSUME P!TypeOK, PaymentInv, [P!Next]_(P!vars)
               PROVE  P!TypeOK' /\ PaymentInv'
    OBVIOUS
  <2>1. ASSUME NEW h \in Servers, P!Call(h) \/ P!Fail(h)
        PROVE  P!TypeOK' /\ PaymentInv'
    BY <2>1, EnsureAccountKeeps, GrantTrialKeeps, SaveCheckoutKeeps,
       UpdateAccountKeeps, GrantCreditsKeeps, RecordInvoiceKeeps,
       CloseCheckoutKeeps, MarkEventKeeps, FailKeeps DEF P!Call
  <2>2. ASSUME NEW h \in Servers, NEW c \in P!Checkouts, P!AskCheckout(h, c)
        PROVE  P!TypeOK' /\ PaymentInv'
    BY <2>2, AskCheckoutKeeps
  <2>3. ASSUME NEW h \in Servers, NEW u \in Users, NEW p \in P!Payments,
               P!Verify(h, u, p)
        PROVE  P!TypeOK' /\ PaymentInv'
    BY <2>3, VerifyKeeps
  <2>4. ASSUME P!Delivery
        PROVE  P!TypeOK' /\ PaymentInv'
    BY <2>4, DeliverKeeps DEF P!Delivery
  <2>5. ASSUME \/ \E p \in P!Payments : P!Pay(p) \/ P!Capture(p)
               \/ P!Tick
               \/ UNCHANGED P!vars
        PROVE  P!TypeOK' /\ PaymentInv'
    BY <2>5, OutsideKeeps
  <2> QED
    BY <2>1, <2>2, <2>3, <2>4, <2>5 DEF P!Next
<1> QED
  BY <1>1, <1>2, PTL DEF P!Spec

(* In MCSettles the payments move by their own rules. *)
LEMMA PaymentsKeepTheirSpec == AllSpec => P!Spec
<1>1. AllInit => P!Init
  BY DEF AllInit
<1>2. [AllNext]_allVars => [P!Next]_(P!vars)
  BY DEF AllNext, allVars, Workflow, Payment, payVars, P!vars, P!Next, P!Delivery
<1> QED
  BY <1>1, <1>2, PTL DEF AllSpec, P!Spec

(* However often a payment is verified and its events are sent again, and  *)
(* wherever a call fails, the payment is granted once, to the owner of its *)
(* checkout, and an event that is marked as handled has had its effect.    *)
THEOREM PaymentsSettleOnce == AllSpec => []PaymentsAreSettled
<1>1. P!TypeOK /\ PaymentInv => PaymentsAreSettled
  BY DEF PaymentInv, PaymentsAreSettled, P!PaymentsAreSettled, P!MarkedIsSettled,
         MarksHold, Settled, Planned, Credited, Closed
<1> QED
  BY <1>1, RequestsGoAlong, PaymentsKeepTheirSpec, PTL
====
