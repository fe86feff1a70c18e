---- MODULE ScannerJobProofs ----
(***************************************************************************)
(* Proofs about ScannerJob, for any numbers of starts, resumes, pauses and *)
(* cancellations, any faults and any max_attempts.                         *)
(***************************************************************************)
EXTENDS ScannerJob, TLAPS

(* What the updates a runner makes do to the status and the attempt count. *)
LEMMA CountsAreCounts ==
    ASSUME NEW n \in 0..MaxAttempts PROVE OneMore(n) \in 0..MaxAttempts
  BY JobAssumption DEF OneMore

LEMMA EnqueuedIsDocument ==
    ASSUME NEW j \in Document PROVE Enqueued(j) \in Document
  BY DEF Document, Status, Terminal, Enqueued

LEMMA FailedIsDocument ==
    ASSUME NEW j \in Document, NEW n \in 0..MaxAttempts
    PROVE  Failed(j, n) \in Document
  BY DEF Document, Status, Terminal, Failed, FailedStatus, Ended, Open

LEMMA ResetQueues ==
    ASSUME NEW j \in Document, NEW clear \in BOOLEAN
    PROVE  /\ Reset(j, clear) \in Document
           /\ Reset(j, clear).status = "queued"
           /\ Reset(j, clear).attempts = j.attempts
  BY DEF Document, Status, Terminal, Reset

LEMMA EndedStatus ==
    ASSUME NEW j \in Document, NEW s \in {"cancelled", "succeeded"}
    PROVE  /\ Ended(j, s) \in Document
           /\ Ended(j, s).attempts = j.attempts
           /\ Ended(j, s).status \in {j.status, s}
  BY DEF Document, Status, Terminal, Ended

LEMMA FailedStatusOf ==
    ASSUME NEW j \in Document, NEW n \in 0..MaxAttempts
    PROVE  /\ Failed(j, n).attempts = j.attempts
           /\ Failed(j, n).status = "queued" => j.status = "queued"
           /\ Failed(j, n).status = "dead_letter"
                => j.status = "dead_letter" \/ n >= MaxAttempts
  BY JobAssumption DEF Document, Status, Terminal, Open, Failed, Ended,
                       FailedStatus

LEMMA TakenStatus ==
    ASSUME NEW j \in Document, NEW n \in 0..MaxAttempts
    PROVE  /\ TakenToRun(j, n) \in Document
           /\ j.status # "queued" => TakenToRun(j, n) = j
           /\ j.status = "queued" =>
                /\ TakenToRun(j, n).status = "running"
                /\ TakenToRun(j, n).attempts <= n + 1
<1>1. TakenToRun(j, n) \in Document
  BY CountsAreCounts DEF Document, Status, Terminal, TakenToRun, Runnable
<1> QED
  BY <1>1, JobAssumption DEF Document, Status, Terminal, TakenToRun,
                             Runnable, OneMore

(* What the handlers of the routes do to the types. *)
LEMMA HandlersTyped ==
    ASSUME TypeOK, NEW h \in Handlers, Arrive(h) \/ Continue(h)
    PROVE  TypeOK'
<1>1. /\ doc \in Phases /\ flag \in BOOLEAN
      /\ durable \in [Jobs -> Document]
      /\ run \in [Jobs -> Run]
      /\ handler \in [Handlers -> Handler]
      /\ catalog \in {"none", "pending", "complete"}
      /\ indexed \in BOOLEAN /\ past \subseteq Upsets
  BY DEF TypeOK
<1>2. \A s \in HandlerSteps : [handler EXCEPT ![h].step = s]
                                 \in [Handlers -> Handler]
  BY <1>1 DEF Handler
<1>3. StartJob \in Jobs /\ StartPhase \in 1..2
  BY DEF Jobs, StartPhase
<1>4. NotStarted \in Phases
  BY DEF NotStarted, Phases, PhaseStatus
<1>5. Return(h) => handler' \in [Handlers -> Handler]
  BY <1>1, <1>3, <1>4 DEF Return, Call, Handler, HandlerSteps
<1>6. \A n \in 1..2, s \in PhaseStatus : Shown(n, s) \in Phases
  BY DEF Shown, Phases, PhaseStatus
<1>7. \A d \in Jobs, n \in 1..2 : Scheduled(d, n) \in [Jobs -> Run]
  <2> SUFFICES ASSUME NEW d \in Jobs, NEW n \in 1..2
               PROVE  Scheduled(d, n) \in [Jobs -> Run]
    OBVIOUS
  <2> DEFINE begun == [run[d] EXCEPT !.at = "claim", !.from = n]
  <2>1. begun \in Run
    BY <1>1 DEF Run, Steps
  <2>2. [run EXCEPT ![d].at = "claim", ![d].from = n] = [run EXCEPT ![d] = begun]
    BY <1>1
  <2> QED
    BY <1>1, <2>1, <2>2 DEF Scheduled
<1>8. \A d \in Jobs : [durable EXCEPT ![d] = Enqueued(@)] \in [Jobs -> Document]
  BY <1>1, EnqueuedIsDocument
<1>9. CASE StartLook(h)
  BY <1>1, <1>2, <1>5, <1>9 DEF StartLook, Go, HandlerSteps, TypeOK
<1>10. CASE StartReuse(h)
  BY <1>1, <1>5, <1>6, <1>10 DEF StartReuse, PhaseStatus, TypeOK
<1>11. CASE StartEnqueue(h)
  <2>1. durable' \in [Jobs -> Document]
    BY <1>3, <1>8, <1>11 DEF StartEnqueue
  <2>2. handler' \in [Handlers -> Handler]
    <3> DEFINE queued == durable'[StartJob].status = "queued"
               waiting == [handler[h] EXCEPT !.step = "accept", !.queued = queued]
    <3>1. waiting \in Handler
      BY <1>1 DEF Handler, HandlerSteps
    <3>2. handler' = [handler EXCEPT ![h] = waiting]
      BY <1>1, <1>11 DEF StartEnqueue
    <3> QED
      BY <1>1, <3>1, <3>2
  <2> QED
    BY <1>1, <1>11, <2>1, <2>2 DEF StartEnqueue, TypeOK
<1>12. CASE StartAccept(h)
  <2>1. doc' \in Phases
    BY <1>3, <1>6, <1>12 DEF StartAccept, PhaseStatus
  <2>2. run' \in [Jobs -> Run]
    BY <1>1, <1>3, <1>7, <1>12 DEF StartAccept
  <2>3. past' \subseteq Upsets
    BY <1>1, <1>12 DEF StartAccept, Upsets
  <2> QED
    BY <1>1, <1>5, <1>12, <2>1, <2>2, <2>3 DEF StartAccept, TypeOK
<1>13. CASE ResumeLook(h)
  <2>1. h \in Jobs
    BY <1>13 DEF ResumeLook, Jobs
  <2>2. durable' \in [Jobs -> Document]
    BY <1>1, <1>8, <1>13, <2>1 DEF ResumeLook
  <2>3. [handler EXCEPT ![h].step = "accept", ![h].seen = doc]
          \in [Handlers -> Handler]
    BY <1>1 DEF Handler, HandlerSteps
  <2> QED
    BY <1>1, <1>5, <1>13, <2>2, <2>3 DEF ResumeLook, TypeOK
<1>14. CASE ResumeAccept(h)
  <2>1. h \in Jobs /\ ResumePhase(h) \in 1..2
    BY <1>14 DEF ResumeAccept, Jobs, ResumePhase
  <2>2. doc' \in Phases
    BY <1>6, <1>14, <2>1 DEF ResumeAccept, PhaseStatus
  <2>3. run' \in [Jobs -> Run]
    BY <1>7, <1>14, <2>1 DEF ResumeAccept
  <2>4. past' \subseteq Upsets
    BY <1>1, <1>14 DEF ResumeAccept, Upsets
  <2> QED
    BY <1>1, <1>5, <1>14, <2>2, <2>3, <2>4 DEF ResumeAccept, TypeOK
<1>15. CASE Pause(h)
  <2>1. run' \in [Jobs -> Run]
    BY <1>1, <1>15 DEF Pause, Run
  <2> QED
    BY <1>1, <1>5, <1>15, <2>1 DEF Pause, TypeOK
<1>16. CASE CancelRead(h)
  <2>1. handler' \in [Handlers -> Handler]
    <3>1. PICK d \in Jobs :
            handler' = [handler EXCEPT ![h].step = "mark", ![h].job = d]
      BY <1>16 DEF CancelRead
    <3> DEFINE marking == [handler[h] EXCEPT !.step = "mark", !.job = d]
    <3>2. marking \in Handler
      BY <1>1 DEF Handler, HandlerSteps
    <3>3. handler' = [handler EXCEPT ![h] = marking]
      BY <1>1, <3>1
    <3> QED
      BY <1>1, <3>2, <3>3
  <2> QED
    BY <1>1, <1>16, <2>1 DEF CancelRead, TypeOK
<1>17. CASE CancelMark(h)
  <2>1. handler[h].job \in Jobs
    BY <1>1 DEF Handler
  <2>2. durable' \in [Jobs -> Document]
    BY <1>1, <1>17, <2>1, EndedStatus DEF CancelMark
  <2> QED
    BY <1>1, <1>2, <1>17, <2>2 DEF CancelMark, Go, HandlerSteps, TypeOK
<1>18. CASE CancelLook(h)
  <2>1. [handler EXCEPT ![h].step = "show", ![h].seen = doc]
          \in [Handlers -> Handler]
    BY <1>1 DEF Handler, HandlerSteps
  <2> QED
    BY <1>1, <1>5, <1>18, <2>1 DEF CancelLook, TypeOK
<1>19. CASE CancelShow(h)
  <2>1. handler[h].seen \in Phases
    BY <1>1 DEF Handler
  <2>2. doc' \in Phases
    BY <1>19, <2>1 DEF CancelShow, Phases, PhaseStatus
  <2>3. past' \subseteq Upsets
    BY <1>1, <1>19 DEF CancelShow, Upsets
  <2> QED
    BY <1>1, <1>5, <1>19, <2>2, <2>3 DEF CancelShow, TypeOK
<1> QED
  BY <1>9, <1>10, <1>11, <1>12, <1>13, <1>14, <1>15, <1>16, <1>17, <1>18, <1>19
     DEF Arrive, Continue

(* The steps of a durable job's runner, its pipeline and its threads.      *)
JobStep(d) ==
    \/ RunnerStep(d) \/ PhaseEnds(d) \/ Progress(d) \/ SkipPause(d)
    \/ Timeout(d) \/ StrayProgress(d) \/ StrayEnds(d)

LEMMA JobStepsTyped ==
    ASSUME TypeOK, NEW d \in Jobs, JobStep(d)
    PROVE  TypeOK'
<1>1. /\ doc \in Phases /\ flag \in BOOLEAN
      /\ durable \in [Jobs -> Document]
      /\ run \in [Jobs -> Run]
      /\ handler \in [Handlers -> Handler]
      /\ catalog \in {"none", "pending", "complete"}
      /\ indexed \in BOOLEAN /\ past \subseteq Upsets
  BY DEF TypeOK
<1>2. /\ durable[d] \in Document /\ durable[d].attempts \in 0..MaxAttempts
      /\ run[d] \in Run
  BY <1>1 DEF Document
<1>3. \A s \in Steps : [run EXCEPT ![d].at = s] \in [Jobs -> Run]
  BY <1>1 DEF Run
<1>4. ASSUME NEW s \in Steps, Ready(d, s) PROVE run' \in [Jobs -> Run]
  <2>1. Between(s, run[d].from, run[d].stray) \in Run
    BY <1>2, <1>4 DEF Run, Between, Outcome
  <2> QED
    BY <1>1, <1>4, <2>1 DEF Ready
<1>5. \A n \in 1..2, s \in PhaseStatus : Shown(n, s) \in Phases
  BY DEF Shown, Phases, PhaseStatus
<1>6. /\ run[d].phase \in 1..2 /\ run[d].stray \in 0..2
      /\ run[d].from \in 1..2
      /\ run[d].outcome \in {"ok", "paused", "failed"}
  BY <1>2 DEF Run, Outcome
<1>7. ASSUME NEW o \in Outcome,
             run' = [run EXCEPT ![d].at = "ended", ![d].outcome = o]
      PROVE  run' \in [Jobs -> Run]
  <2> DEFINE ended == [run[d] EXCEPT !.at = "ended", !.outcome = o]
  <2>1. ended \in Run
    BY <1>2, <1>7 DEF Run, Steps
  <2> QED
    BY <1>1, <1>7, <2>1
<1>10. CASE Claim(d)
  <2>1. durable' \in [Jobs -> Document]
    BY <1>1, <1>2, <1>10, TakenStatus DEF Claim
  <2>2. run' \in [Jobs -> Run]
    BY <1>3, <1>10 DEF Claim, RunTo, Steps
  <2> QED
    BY <1>1, <1>10, <2>1, <2>2 DEF Claim, TypeOK
<1>11. CASE Begin(d)
  <2> DEFINE begun == [run[d] EXCEPT !.at = "work", !.phase = run[d].from,
                                     !.pause = "none"]
  <2>1. begun \in Run
    BY <1>2, <1>6 DEF Run, Steps
  <2>2. run' = [run EXCEPT ![d] = begun]
    BY <1>1, <1>11 DEF Begin
  <2> QED
    BY <1>1, <1>11, <2>1, <2>2 DEF Begin, TypeOK
<1>12. CASE Progress(d)
  BY <1>1, <1>5, <1>6, <1>12 DEF Progress, PhaseStatus, TypeOK
<1>13. CASE StopForPause(d)
  BY <1>1, <1>7, <1>13 DEF StopForPause, Outcome, TypeOK
<1>14. CASE SkipPause(d)
  BY <1>1, <1>14 DEF SkipPause, Run, TypeOK
<1>15. CASE CompletePhase(d)
  <2>1. run' \in [Jobs -> Run]
    BY <1>7, <1>15 DEF CompletePhase, Outcome
  <2>2. doc' \in Phases
    BY <1>1, <1>5, <1>15 DEF CompletePhase, PhaseStatus
  <2> QED
    BY <1>1, <1>15, <2>1, <2>2 DEF CompletePhase, TypeOK
<1>16. CASE FailPhase(d)
  BY <1>1, <1>7, <1>16 DEF FailPhase, Outcome, TypeOK
<1>17. CASE StartEnriching(d)
  <2> DEFINE enriching == [run[d] EXCEPT !.at = "work", !.phase = 2]
  <2>1. enriching \in Run
    <3>1. 2 \in 1..2 /\ "work" \in Steps
      BY DEF Steps
    <3> QED
      BY <1>2, <3>1 DEF Run
  <2>2. run' = [run EXCEPT ![d] = enriching]
    BY <1>1, <1>17 DEF StartEnriching
  <2> QED
    BY <1>1, <1>5, <1>17, <2>1, <2>2 DEF StartEnriching, PhaseStatus, TypeOK
<1>18. CASE EndPipeline(d)
  <2>1. doc' \in Phases
    BY <1>5, <1>6, <1>18 DEF EndPipeline, Result, PhaseStatus
  <2>2. run' \in [Jobs -> Run]
    BY <1>3, <1>18 DEF EndPipeline, RunTo, Steps
  <2> QED
    BY <1>1, <1>18, <2>1, <2>2 DEF EndPipeline, TypeOK
<1>19. CASE Judge(d)
  <2>1. run' \in [Jobs -> Run]
    BY <1>4, <1>19 DEF Judge, Steps
  <2> QED
    BY <1>1, <1>19, <2>1 DEF Judge, TypeOK
<1>20. CASE Succeed(d)
  <2>1. durable' \in [Jobs -> Document]
    BY <1>1, <1>2, <1>20, EndedStatus DEF Succeed
  <2>2. run' \in [Jobs -> Run]
    BY <1>4, <1>20 DEF Succeed, Steps
  <2> QED
    BY <1>1, <1>20, <2>1, <2>2 DEF Succeed, TypeOK
<1>21. CASE Fail(d)
  <2>1. durable' \in [Jobs -> Document]
    BY <1>1, <1>2, <1>21, FailedIsDocument DEF Fail
  <2>2. run' \in [Jobs -> Run]
    BY <1>4, <1>21 DEF Fail, Steps
  <2> QED
    BY <1>1, <1>21, <2>1, <2>2 DEF Fail, TypeOK
<1>22. CASE Requeue(d)
  <2>1. durable' \in [Jobs -> Document]
    BY <1>1, <1>2, <1>22, ResetQueues DEF Requeue
  <2>2. run' \in [Jobs -> Run]
    BY <1>3, <1>22 DEF Requeue, RunTo, Steps
  <2> QED
    BY <1>1, <1>22, <2>1, <2>2 DEF Requeue, TypeOK
<1>23. CASE Timeout(d)
  <2>1. Between("fail", run[d].from, run[d].phase) \in Run
    BY <1>6 DEF Run, Between, Outcome, Steps
  <2>2. run' \in [Jobs -> Run]
    BY <1>1, <1>23, <2>1 DEF Timeout
  <2>3. past' \subseteq Upsets
    BY <1>1, <1>23 DEF Timeout, Upsets
  <2> QED
    BY <1>1, <1>23, <2>2, <2>3 DEF Timeout, TypeOK
<1>24. CASE StrayProgress(d)
  BY <1>1, <1>5, <1>6, <1>24 DEF StrayProgress, PhaseStatus, TypeOK
<1>25. CASE StrayEnds(d)
  <2>1. run' \in [Jobs -> Run]
    BY <1>1, <1>25 DEF StrayEnds, Run
  <2> QED
    BY <1>1, <1>25, <2>1 DEF StrayEnds, TypeOK
<1> QED
  BY <1>10, <1>11, <1>12, <1>13, <1>14, <1>15, <1>16, <1>17, <1>18, <1>19,
     <1>20, <1>21, <1>22, <1>23, <1>24, <1>25
     DEF JobStep, RunnerStep, PhaseEnds

LEMMA CrashTyped == TypeOK /\ ServerCrash => TypeOK'
<1> SUFFICES ASSUME TypeOK, ServerCrash PROVE TypeOK'
  OBVIOUS
<1>1. NoRun \in Run
  BY DEF NoRun, Between, Run, Steps, Outcome
<1>2. Call \in Handler /\ [Call EXCEPT !.step = "done"] \in Handler
  BY DEF Call, Handler, HandlerSteps, NotStarted, Phases, PhaseStatus, Jobs
<1>3. past' \subseteq Upsets
  BY DEF ServerCrash, TypeOK, Upsets
<1> QED
  BY <1>1, <1>2, <1>3 DEF ServerCrash, TypeOK

(* A step is one of a call, of a durable job, or a crash.                  *)
LEMMA StepsOf ==
    ASSUME [Next]_vars
    PROVE  \/ \E h \in Handlers : Arrive(h) \/ Continue(h)
           \/ \E d \in Jobs : JobStep(d)
           \/ ServerCrash
           \/ UNCHANGED vars
  BY DEF Next, JobStep

LEMMA TypePreserved == TypeOK /\ [Next]_vars => TypeOK'
<1> SUFFICES ASSUME TypeOK, [Next]_vars PROVE TypeOK'
  OBVIOUS
<1>1. CASE UNCHANGED vars
  BY <1>1 DEF vars, TypeOK
<1> QED
  BY <1>1, StepsOf, HandlersTyped, JobStepsTyped, CrashTyped

LEMMA TypeInitially == Init => TypeOK
<1> SUFFICES ASSUME Init PROVE TypeOK
  OBVIOUS
<1>1. NoRun \in Run
  BY DEF NoRun, Between, Run, Steps, Outcome
<1>2. NotStarted \in Phases /\ Call \in Handler
  BY DEF Call, Handler, HandlerSteps, NotStarted, Phases, PhaseStatus, Jobs
<1>3. Absent \in Document
  BY JobAssumption DEF Absent, Document, Status
<1> QED
  BY <1>1, <1>2, <1>3 DEF Init, TypeOK

(* The scan's document, its durable jobs and their runners, and the calls  *)
(* keep their types.                                                       *)
THEOREM TypesAreKept == Spec => []TypeOK
  BY TypeInitially, TypePreserved, PTL DEF Spec

-----------------------------------------------------------------------------
(* While the flag is up every pipeline at work has been asked to pause.    *)
HeardInv ==
    /\ TypeOK
    /\ flag => \A d \in Jobs :
          run[d].at \in {"work", "ended"} => run[d].pause # "none"
    /\ PausesAreFresh

LEMMA HeardPreserved == HeardInv /\ [Next]_vars => HeardInv'
<1> SUFFICES ASSUME HeardInv, [Next]_vars PROVE HeardInv'
  OBVIOUS
<1>1. TypeOK /\ TypeOK' /\ run \in [Jobs -> Run]
  BY TypePreserved DEF HeardInv, TypeOK
<1> USE DEF HeardInv, PausesAreFresh, RunAt
<1>2. ASSUME NEW h \in Handlers, Arrive(h) \/ Continue(h) PROVE HeardInv'
  <2>1. CASE Pause(h)
    BY <1>1, <2>1 DEF Pause
  <2>2. CASE StartAccept(h)
    BY <1>1, <2>2 DEF StartAccept, Scheduled
  <2>3. CASE ResumeAccept(h)
    BY <1>1, <2>3 DEF ResumeAccept, Scheduled
  <2>4. CASE UNCHANGED <<flag, run>>
    BY <1>1, <2>4
  <2> QED
    BY <1>2, <2>1, <2>2, <2>3, <2>4
       DEF Arrive, Continue, StartLook, ResumeLook, CancelRead, StartReuse,
           StartEnqueue, CancelMark, CancelLook, CancelShow
<1>3. ASSUME NEW d \in Jobs, JobStep(d) PROVE HeardInv'
  <2>1. CASE Claim(d)
    BY <1>1, <2>1 DEF Claim, RunTo
  <2>2. CASE Begin(d)
    BY <1>1, <2>2 DEF Begin
  <2>3. CASE Requeue(d)
    BY <1>1, <2>3 DEF Requeue, RunTo
  <2>4. CASE Progress(d)
    BY <1>1, <2>4 DEF Progress
  <2>5. CASE SkipPause(d)
    BY <1>1, <2>5 DEF SkipPause
  <2>6. CASE StrayProgress(d)
    BY <1>1, <2>6 DEF StrayProgress
  <2>7. CASE CompletePhase(d)
    BY <1>1, <2>7 DEF CompletePhase
  <2>8. CASE StopForPause(d)
    BY <1>1, <2>8 DEF StopForPause
  <2>9. CASE FailPhase(d)
    BY <1>1, <2>9 DEF FailPhase
  <2>10. CASE StartEnriching(d)
    BY <1>1, <2>10 DEF StartEnriching
  <2>11. CASE EndPipeline(d)
    <3>1. flag' => flag
      BY <2>11 DEF EndPipeline
    <3>2. run' = [run EXCEPT ![d].at = "judge"]
      BY <2>11 DEF EndPipeline, RunTo
    <3> QED
      BY <1>1, <3>1, <3>2
  <2>12. CASE Judge(d)
    BY <1>1, <2>12 DEF Judge, Ready, Between
  <2>13. CASE Succeed(d)
    BY <1>1, <2>13 DEF Succeed, Ready, Between
  <2>14. CASE Fail(d)
    BY <1>1, <2>14 DEF Fail, Ready, Between
  <2>15. CASE Timeout(d)
    BY <1>1, <2>15 DEF Timeout, Between
  <2>16. CASE StrayEnds(d)
    BY <1>1, <2>16 DEF StrayEnds
  <2> QED
    BY <1>3, <2>1, <2>2, <2>3, <2>4, <2>5, <2>6, <2>7, <2>8,
       <2>9, <2>10, <2>11, <2>12, <2>13, <2>14, <2>15, <2>16
       DEF JobStep, RunnerStep, PhaseEnds
<1>4. CASE ServerCrash
  BY <1>1, <1>4 DEF ServerCrash, NoRun, Between
<1>5. CASE UNCHANGED vars
  BY <1>1, <1>5 DEF vars
<1> QED
  BY <1>2, <1>3, <1>4, <1>5, StepsOf

(* A scan is never stopped by a pause that was accepted before it began.   *)
THEOREM PausesStopTheirScan == Spec => []PausesAreFresh
<1>1. Init => HeardInv
  BY TypeInitially DEF Init, HeardInv, PausesAreFresh, RunAt, NoRun, Between
<1>2. HeardInv => PausesAreFresh
  BY DEF HeardInv
<1> QED
  BY <1>1, <1>2, HeardPreserved, PTL DEF Spec

-----------------------------------------------------------------------------
(* A document, or what a call has read of it, whose phase 1 is over; and a *)
(* runner that will not index before it shows phase 1 complete.            *)
Reached(p) ==
    p.phase1 = "complete" \/ p.phase2 \notin {"not_started", "pending"}

TakesIndex(d) ==
    \/ run[d].from = 2 \/ run[d].phase = 2 \/ run[d].stray = 2
    \/ RunAt(d, "ended") /\ run[d].outcome = "ok"

(* A resume that goes on has read of a pause. *)
ResumesPaused ==
    \A r \in Resumers : At(r, "accept") => Shows(handler[r].seen, "paused")

Untouched ==
    /\ ~Reached(doc) /\ catalog = "none"
    /\ \A h \in Handlers : ~Reached(handler[h].seen)
    /\ \A d \in Jobs : ~TakesIndex(d)

IndexInv ==
    /\ TypeOK
    /\ ResumesPaused
    /\ indexed \/ Untouched

LEMMA ResumesPausedPreserved ==
    TypeOK /\ ResumesPaused /\ [Next]_vars => ResumesPaused'
<1> SUFFICES ASSUME TypeOK, ResumesPaused, [Next]_vars PROVE ResumesPaused'
  OBVIOUS
<1>1. handler \in [Handlers -> Handler] /\ Resumers \subseteq Handlers
  BY DEF TypeOK, Handlers
<1> USE DEF ResumesPaused, At
<1>2. ASSUME NEW h \in Handlers, Return(h) PROVE ResumesPaused'
  BY <1>1, <1>2 DEF Return, Call
<1>3. ASSUME NEW h \in Handlers, Arrive(h) \/ Continue(h) PROVE ResumesPaused'
  <2>1. CASE StartLook(h)
    <3>1. CASE Return(h)
      BY <1>2, <3>1
    <3>2. CASE handler' = [handler EXCEPT ![h].step = "reuse"]
      BY <1>1, <3>2
    <3> QED
      BY <2>1, <3>1, <3>2 DEF StartLook, Go
  <2>2. CASE StartEnqueue(h)
    BY <1>1, <2>2, ScannerAssumption DEF StartEnqueue
  <2>3. CASE ResumeLook(h)
    <3>1. CASE Return(h)
      BY <1>2, <3>1
    <3>2. CASE /\ handler' = [handler EXCEPT ![h].step = "accept", ![h].seen = doc]
               /\ Shows(doc, "paused")
      BY <1>1, <3>2
    <3> QED
      BY <2>3, <3>1, <3>2 DEF ResumeLook
  <2>4. CASE CancelRead(h)
    <3>1. PICK d \in Jobs :
            handler' = [handler EXCEPT ![h].step = "mark", ![h].job = d]
      BY <2>4 DEF CancelRead
    <3> QED
      BY <1>1, <3>1
  <2>5. CASE CancelMark(h)
    BY <1>1, <2>5 DEF CancelMark, Go
  <2>6. CASE CancelLook(h)
    <3>1. CASE Return(h)
      BY <1>2, <3>1
    <3>2. CASE /\ handler' = [handler EXCEPT ![h].step = "show", ![h].seen = doc]
               /\ h \in Cancellers
      BY <1>1, <3>2, ScannerAssumption
    <3> QED
      BY <2>6, <3>1, <3>2 DEF CancelLook
  <2>7. CASE StartReuse(h) \/ StartAccept(h) \/ ResumeAccept(h)
    BY <1>2, <2>7 DEF StartReuse, StartAccept, ResumeAccept
  <2>8. CASE Pause(h) \/ CancelShow(h)
    BY <1>2, <2>8 DEF Pause, CancelShow
  <2> QED
    BY <1>3, <2>1, <2>2, <2>3, <2>4, <2>5, <2>6, <2>7, <2>8
       DEF Arrive, Continue
<1>4. ASSUME NEW d \in Jobs, JobStep(d) PROVE ResumesPaused'
  <2>1. UNCHANGED handler
    BY <1>4 DEF JobStep, RunnerStep, PhaseEnds, Claim, Begin, Requeue, Progress,
                SkipPause, StrayProgress, CompletePhase, StopForPause,
                FailPhase, StartEnriching, EndPipeline, Judge, Succeed, Fail,
                Timeout, StrayEnds
  <2> QED
    BY <2>1
<1>5. CASE ServerCrash
  BY <1>1, <1>5 DEF ServerCrash, Call
<1>6. CASE UNCHANGED vars
  BY <1>6 DEF vars
<1> QED
  BY <1>3, <1>4, <1>5, <1>6, StepsOf

LEMMA IndexStays == TypeOK /\ [Next]_vars /\ indexed => indexed'
<1> SUFFICES ASSUME TypeOK, [Next]_vars, indexed PROVE indexed'
  OBVIOUS
<1>1. ASSUME NEW h \in Handlers, Arrive(h) \/ Continue(h) PROVE indexed'
  BY <1>1 DEF Arrive, Continue, StartLook, StartReuse, StartEnqueue,
              StartAccept, ResumeLook, ResumeAccept, Pause, CancelRead,
              CancelMark, CancelLook, CancelShow
<1>2. ASSUME NEW d \in Jobs, JobStep(d) PROVE indexed'
  <2>1. CASE CompletePhase(d)
    BY <2>1 DEF CompletePhase
  <2>2. CASE StrayEnds(d)
    BY <2>2 DEF StrayEnds
  <2> QED
    BY <1>2, <2>1, <2>2
       DEF JobStep, RunnerStep, PhaseEnds, Claim, Begin, Requeue, Progress,
           SkipPause, StrayProgress, StopForPause, FailPhase, StartEnriching,
           EndPipeline, Judge, Succeed, Fail, Timeout
<1>3. CASE ServerCrash \/ UNCHANGED vars
  BY <1>3 DEF ServerCrash, vars
<1> QED
  BY <1>1, <1>2, <1>3, StepsOf

LEMMA IndexPreserved == IndexInv /\ [Next]_vars => IndexInv'
<1> SUFFICES ASSUME IndexInv, [Next]_vars, Untouched, ~indexed, ~indexed'
             PROVE  Untouched'
  BY TypePreserved, ResumesPausedPreserved, IndexStays DEF IndexInv
<1>1. /\ TypeOK /\ run \in [Jobs -> Run] /\ doc \in Phases
      /\ handler \in [Handlers -> Handler] /\ ResumesPaused
      /\ Resumers \subseteq Handlers
  BY DEF IndexInv, TypeOK, Handlers
<1>2. \A d \in Jobs : /\ run[d] \in Run
                      /\ run[d].phase = 1 /\ run[d].from = 1
                      /\ run[d].stray \in 0..1
                      /\ ~(run[d].at = "ended" /\ run[d].outcome = "ok")
  <2> SUFFICES ASSUME NEW d \in Jobs
               PROVE  /\ run[d] \in Run
                      /\ run[d].phase = 1 /\ run[d].from = 1
                      /\ run[d].stray \in 0..1
                      /\ ~(run[d].at = "ended" /\ run[d].outcome = "ok")
    OBVIOUS
  <2>1. run[d] \in Run /\ ~TakesIndex(d)
    BY <1>1 DEF Untouched
  <2> QED
    BY <2>1 DEF TakesIndex, Run, RunAt
<1>3. /\ doc.phase1 # "complete" /\ doc.phase2 \in {"not_started", "pending"}
      /\ catalog = "none"
      /\ \A h \in Handlers :
            /\ handler[h].seen.phase1 # "complete"
            /\ handler[h].seen.phase2 \in {"not_started", "pending"}
  BY DEF Untouched, Reached
<1>4. ASSUME NEW h \in Handlers, Return(h)
      PROVE  \A k \in Handlers : ~Reached(handler'[k].seen)
  BY <1>1, <1>3, <1>4 DEF Return, Call, NotStarted, Reached
<1>5. ASSUME NEW h \in Handlers, Arrive(h) \/ Continue(h) PROVE Untouched'
  <2>1. /\ catalog' = "none"
        /\ \A d \in Jobs : ~TakesIndex(d)'
    <3>1. CASE StartAccept(h)
      BY <1>1, <1>2, <1>3, <3>1
         DEF StartAccept, StartPhase, Scheduled, TakesIndex, RunAt
    <3>2. CASE ResumeAccept(h)
      <4>1. ResumePhase(h) = 1
        BY <1>1, <1>3, <3>2 DEF ResumeAccept, ResumePhase, ResumesPaused, Shows
      <4> QED
        BY <1>1, <1>2, <1>3, <3>2, <4>1
           DEF ResumeAccept, Scheduled, TakesIndex, RunAt
    <3>3. CASE Pause(h)
      BY <1>1, <1>2, <1>3, <3>3 DEF Pause, TakesIndex, RunAt
    <3>4. CASE UNCHANGED <<run, catalog>>
      BY <1>2, <1>3, <3>4 DEF TakesIndex, RunAt
    <3> QED
      BY <1>5, <3>1, <3>2, <3>3, <3>4
         DEF Arrive, Continue, StartLook, StartReuse, StartEnqueue, ResumeLook,
             CancelRead, CancelMark, CancelLook, CancelShow
  <2>2. ~Reached(doc')
    <3>1. CASE StartReuse(h)
      BY <1>3, <3>1 DEF StartReuse
    <3>2. CASE StartAccept(h)
      BY <1>3, <3>2 DEF StartAccept, StartPhase, Shown, Reached
    <3>3. CASE ResumeAccept(h)
      BY <1>1, <1>3, <3>3 DEF ResumeAccept, ResumePhase, ResumesPaused, Shows,
                              Shown, Reached
    <3>4. CASE CancelShow(h)
      BY <1>3, <3>4 DEF CancelShow, Reached
    <3>5. CASE UNCHANGED doc
      BY <1>3, <3>5 DEF Reached
    <3> QED
      BY <1>5, <3>1, <3>2, <3>3, <3>4, <3>5
         DEF Arrive, Continue, StartLook, StartEnqueue, ResumeLook, Pause,
             CancelRead, CancelMark, CancelLook
  <2>3. \A k \in Handlers : ~Reached(handler'[k].seen)
    <3>1. CASE StartLook(h)
      <4>1. CASE Return(h)
        BY <1>4, <4>1
      <4>2. CASE handler' = [handler EXCEPT ![h].step = "reuse"]
        BY <1>1, <1>3, <4>2 DEF Reached
      <4> QED
        BY <3>1, <4>1, <4>2 DEF StartLook, Go
    <3>2. CASE StartEnqueue(h)
      <4> DEFINE queued == durable'[StartJob].status = "queued"
      <4>1. handler' = [handler EXCEPT ![h].step = "accept",
                                       ![h].queued = queued]
        BY <3>2 DEF StartEnqueue
      <4> HIDE DEF queued
      <4> QED
        BY <1>1, <1>3, <4>1 DEF Reached
    <3>3. CASE ResumeLook(h)
      <4>1. CASE Return(h)
        BY <1>4, <4>1
      <4>2. CASE handler' = [handler EXCEPT ![h].step = "accept", ![h].seen = doc]
        BY <1>1, <1>3, <4>2 DEF Reached
      <4> QED
        BY <3>3, <4>1, <4>2 DEF ResumeLook
    <3>4. CASE CancelRead(h)
      <4>1. PICK d \in Jobs :
              handler' = [handler EXCEPT ![h].step = "mark", ![h].job = d]
        BY <3>4 DEF CancelRead
      <4> QED
        BY <1>1, <1>3, <4>1 DEF Reached
    <3>5. CASE CancelMark(h)
      BY <1>1, <1>3, <3>5 DEF CancelMark, Go, Reached
    <3>6. CASE CancelLook(h)
      <4>1. CASE Return(h)
        BY <1>4, <4>1
      <4>2. CASE handler' = [handler EXCEPT ![h].step = "show", ![h].seen = doc]
        BY <1>1, <1>3, <4>2 DEF Reached
      <4> QED
        BY <3>6, <4>1, <4>2 DEF CancelLook
    <3> QED
      BY <1>4, <1>5, <3>1, <3>2, <3>3, <3>4, <3>5, <3>6
         DEF Arrive, Continue, StartReuse, StartAccept, ResumeAccept, Pause,
             CancelShow
  <2> QED
    BY <2>1, <2>2, <2>3 DEF Untouched, Reached
<1>6. ASSUME NEW d \in Jobs, JobStep(d) PROVE Untouched'
  <2> USE DEF Untouched, Reached, TakesIndex, RunAt
  <2>1. CASE Claim(d)
    BY <1>1, <1>2, <1>3, <2>1 DEF Claim, RunTo
  <2>2. CASE Begin(d)
    BY <1>1, <1>2, <1>3, <2>2 DEF Begin
  <2>3. CASE Requeue(d)
    BY <1>1, <1>2, <1>3, <2>3 DEF Requeue, RunTo
  <2>4. CASE Progress(d)
    BY <1>1, <1>2, <1>3, <2>4 DEF Progress, Shown
  <2>5. CASE SkipPause(d)
    BY <1>1, <1>2, <1>3, <2>5 DEF SkipPause
  <2>6. CASE StrayProgress(d)
    BY <1>1, <1>2, <1>3, <2>6 DEF StrayProgress, Shown
  <2>7. CASE CompletePhase(d)
    BY <1>1, <1>2, <1>3, <2>7 DEF CompletePhase
  <2>8. CASE StopForPause(d)
    BY <1>1, <1>2, <1>3, <2>8 DEF StopForPause
  <2>9. CASE FailPhase(d)
    BY <1>1, <1>2, <1>3, <2>9 DEF FailPhase
  <2>10. CASE StartEnriching(d)
    BY <1>1, <1>2, <1>3, <2>10 DEF StartEnriching
  <2>11. CASE EndPipeline(d)
    <3>1. run[d].outcome \in {"paused", "failed"}
      BY <1>2, <2>11 DEF EndPipeline, Run, Outcome
    <3>2. doc' = Shown(1, Result(d)) /\ Result(d) \in {"paused", "failed"}
      BY <1>2, <2>11, <3>1 DEF EndPipeline, Result
    <3>3. run' = [run EXCEPT ![d].at = "judge"] /\ UNCHANGED <<handler, catalog>>
      BY <2>11 DEF EndPipeline, RunTo
    <3>4. ~Reached(doc')
      BY <3>2 DEF Shown
    <3> QED
      BY <1>1, <1>2, <1>3, <3>3, <3>4
  <2>12. CASE Judge(d)
    BY <1>1, <1>2, <1>3, <2>12 DEF Judge, Ready, Between
  <2>13. CASE Succeed(d)
    BY <1>1, <1>2, <1>3, <2>13 DEF Succeed, Ready, Between
  <2>14. CASE Fail(d)
    BY <1>1, <1>2, <1>3, <2>14 DEF Fail, Ready, Between
  <2>15. CASE Timeout(d)
    BY <1>1, <1>2, <1>3, <2>15 DEF Timeout, Between
  <2>16. CASE StrayEnds(d)
    BY <1>1, <1>2, <1>3, <2>16 DEF StrayEnds
  <2> QED
    BY <1>6, <2>1, <2>2, <2>3, <2>4, <2>5, <2>6, <2>7, <2>8,
       <2>9, <2>10, <2>11, <2>12, <2>13, <2>14, <2>15, <2>16
       DEF JobStep, RunnerStep, PhaseEnds
<1>7. CASE ServerCrash
  BY <1>1, <1>3, <1>7 DEF ServerCrash, NoRun, Between, Call, NotStarted,
                          Untouched, Reached, TakesIndex, RunAt, At
<1>8. CASE UNCHANGED vars
  BY <1>8 DEF vars, Untouched, Reached, TakesIndex, RunAt
<1> QED
  BY <1>5, <1>6, <1>7, <1>8, StepsOf

(* However pauses, resumes, failures and restarts follow each other, phase *)
(* 1 is shown complete only of a repository that has been indexed.         *)
THEOREM CompleteIsIndexed == Spec => []IndexIsThere
<1>1. Init => IndexInv
  <2> SUFFICES ASSUME Init PROVE IndexInv
    OBVIOUS
  <2>1. TypeOK
    BY TypeInitially
  <2> QED
    <3>1. ResumesPaused
      BY DEF Init, ResumesPaused, At, Call, Handlers
    <3>2. catalog = "none" => Untouched
      BY DEF Init, Untouched, Reached, TakesIndex, RunAt, NoRun, Between,
             Call, NotStarted
    <3>3. catalog # "none" => indexed
      BY DEF Init
    <3> QED
      BY <2>1, <3>1, <3>2, <3>3 DEF IndexInv
<1>2. IndexInv => IndexIsThere
  BY DEF IndexInv, IndexIsThere, Untouched, Reached
<1> QED
  BY <1>1, <1>2, IndexPreserved, PTL DEF Spec

-----------------------------------------------------------------------------
(* A durable job is engaged while a pipeline works for it or is going to   *)
(* without another call: it is claimed or queued again after a failure, or *)
(* it is the queued job of a start, which any start may schedule.          *)
Engaged(d) ==
    \/ run[d].at \in {"begin", "work", "ended", "fail", "requeue"}
    \/ run[d].at = "judge" /\ run[d].outcome = "failed"
    \/ run[d].at = "claim" /\ durable[d].status = "queued"
    \/ d = StartJob /\ durable[d].status = "queued"

(* A resume's durable job has no runner before the resume has gone on, and *)
(* a job a runner has is there and not queued.                             *)
FreshResumes ==
    \A r \in Resumers :
        handler[r].step \in {"ready", "accept"} => run[r].at = "none"

WorkIsClaimed ==
    \A d \in Jobs :
        run[d].at \notin {"none", "claim"}
          => durable[d].status \notin {"absent", "queued"}

(* The next five hold while the scan is calm: one job is engaged, none     *)
(* while the scan is shown paused or has never been started, a pipeline is *)
(* not taken for failed that has not failed, and a pause that a thread has *)
(* seen is still asked for.                                                *)
OneEngaged == \A d, e \in Jobs : Engaged(d) /\ Engaged(e) => d = e

PausedIsFree == Shows(doc, "paused") => \A d \in Jobs : ~Engaged(d)

FirstStart ==
    durable[StartJob].status = "absent"
      => ~Shows(doc, "paused") /\ \A d \in Jobs : ~Engaged(d)

JudgedFairly ==
    \A d \in Jobs :
        run[d].at = "judge" /\ run[d].outcome # "failed" => ~Shows(doc, "failed")

InHand(d) ==
    run[d].at = "work" \/ (run[d].at = "ended" /\ run[d].outcome = "ok")

SeenIsAsked == \A d \in Jobs : run[d].pause = "seen" /\ InHand(d) => flag

CalmInv ==
    /\ OneEngaged /\ PausedIsFree /\ FirstStart
    /\ JudgedFairly /\ SeenIsAsked /\ SeenPausePrevails

ScanInv ==
    /\ TypeOK /\ ResumesPaused /\ FreshResumes /\ WorkIsClaimed
    /\ Calm => CalmInv

(* A job's step leaves the other jobs, the calls and what is counted as    *)
(* stale alone.                                                            *)
LEMMA Elsewhere ==
    ASSUME TypeOK, NEW d \in Jobs, JobStep(d)
    PROVE  /\ \A e \in Jobs \ {d} : run'[e] = run[e] /\ durable'[e] = durable[e]
           /\ UNCHANGED handler
<1>1. run \in [Jobs -> Run] /\ durable \in [Jobs -> Document]
  BY DEF TypeOK
<1>2. CASE Claim(d)
  BY <1>1, <1>2 DEF Claim, RunTo
<1>3. CASE Begin(d)
  BY <1>1, <1>3 DEF Begin
<1>4. CASE Requeue(d)
  BY <1>1, <1>4 DEF Requeue, RunTo
<1>5. CASE Progress(d)
  BY <1>1, <1>5 DEF Progress
<1>6. CASE SkipPause(d)
  BY <1>1, <1>6 DEF SkipPause
<1>7. CASE StrayProgress(d)
  BY <1>1, <1>7 DEF StrayProgress
<1>8. CASE CompletePhase(d)
  BY <1>1, <1>8 DEF CompletePhase
<1>9. CASE StopForPause(d)
  BY <1>1, <1>9 DEF StopForPause
<1>10. CASE FailPhase(d)
  BY <1>1, <1>10 DEF FailPhase
<1>11. CASE StartEnriching(d)
  BY <1>1, <1>11 DEF StartEnriching
<1>12. CASE EndPipeline(d)
  BY <1>1, <1>12 DEF EndPipeline, RunTo
<1>13. CASE Judge(d)
  BY <1>1, <1>13 DEF Judge, Ready
<1>14. CASE Succeed(d)
  BY <1>1, <1>14 DEF Succeed, Ready
<1>15. CASE Fail(d)
  BY <1>1, <1>15 DEF Fail, Ready
<1>16. CASE Timeout(d)
  BY <1>1, <1>16 DEF Timeout
<1>17. CASE StrayEnds(d)
  BY <1>1, <1>17 DEF StrayEnds
<1> QED
  BY <1>2, <1>3, <1>4, <1>5, <1>6, <1>7, <1>8, <1>9, <1>10,
     <1>11, <1>12, <1>13, <1>14, <1>15, <1>16, <1>17
     DEF JobStep, RunnerStep, PhaseEnds

LEMMA ScheduledRuns ==
    ASSUME TypeOK, NEW d \in Jobs, NEW n \in 1..2
    PROVE  /\ \A e \in Jobs \ {d} : Scheduled(d, n)[e] = run[e]
           /\ Scheduled(d, n)[d].at = IF run[d].at = "none" THEN "claim"
                                                         ELSE run[d].at
           /\ run[d].at # "none" => Scheduled(d, n) = run
<1>1. run \in [Jobs -> Run]
  BY DEF TypeOK
<1>2. CASE run[d].at = "none"
  <2> DEFINE claiming == [run[d] EXCEPT !.at = "claim", !.from = n]
  <2>1. claiming.at = "claim"
    BY <1>1 DEF Run
  <2>2. Scheduled(d, n) = [run EXCEPT ![d] = claiming]
    BY <1>1, <1>2 DEF Scheduled, RunAt
  <2> QED
    BY <1>1, <1>2, <2>1, <2>2
<1>3. CASE run[d].at # "none"
  BY <1>3 DEF Scheduled, RunAt
<1> QED
  BY <1>2, <1>3

LEMMA StaysCalm == [Next]_vars /\ Calm' => Calm
<1> SUFFICES ASSUME [Next]_vars PROVE past \subseteq past'
  BY DEF Calm, Free
<1>1. ASSUME NEW h \in Handlers, Arrive(h) \/ Continue(h)
      PROVE  past \subseteq past'
  BY <1>1 DEF Arrive, Continue, StartLook, StartReuse, StartEnqueue,
              StartAccept, ResumeLook, ResumeAccept, Pause, CancelRead,
              CancelMark, CancelLook, CancelShow
<1>2. ASSUME NEW d \in Jobs, JobStep(d) PROVE past \subseteq past'
  BY <1>2 DEF JobStep, RunnerStep, PhaseEnds, Claim, Begin, Requeue, Progress,
              SkipPause, StrayProgress, CompletePhase, StopForPause,
              FailPhase, StartEnriching, EndPipeline, Judge, Succeed, Fail,
              Timeout, StrayEnds
<1>3. CASE ServerCrash \/ UNCHANGED vars
  BY <1>3 DEF ServerCrash, vars
<1> QED
  BY <1>1, <1>2, <1>3, StepsOf

LEMMA FreshResumesPreserved ==
    TypeOK /\ FreshResumes /\ [Next]_vars => FreshResumes'
<1> SUFFICES ASSUME TypeOK, FreshResumes, [Next]_vars PROVE FreshResumes'
  OBVIOUS
<1>1. /\ handler \in [Handlers -> Handler] /\ Resumers \subseteq Handlers
      /\ run \in [Jobs -> Run] /\ Resumers \subseteq Jobs
      /\ StartJob \in Jobs \ Resumers
  BY ScannerAssumption DEF TypeOK, Handlers, Jobs
<1> USE DEF FreshResumes
<1>2. ASSUME NEW h \in Handlers, Arrive(h) \/ Continue(h) PROVE FreshResumes'
  <2>1. CASE h \in Resumers
    <3>1. CASE ResumeLook(h)
      <4>1. UNCHANGED run
        BY <3>1 DEF ResumeLook
      <4>2. CASE Return(h)
        BY <1>1, <4>1, <4>2 DEF Return, Call
      <4>3. CASE handler' = [handler EXCEPT ![h].step = "accept", ![h].seen = doc]
        BY <1>1, <3>1, <4>1, <4>3 DEF ResumeLook, At
      <4> QED
        BY <3>1, <4>2, <4>3 DEF ResumeLook
    <3>2. CASE ResumeAccept(h)
      BY <1>1, <3>2 DEF ResumeAccept, Scheduled, Return, Call
    <3> QED
      BY <1>2, <2>1, <3>1, <3>2, ScannerAssumption
         DEF Arrive, Continue, StartLook, StartReuse, StartEnqueue, StartAccept,
             Pause, CancelRead, CancelMark, CancelLook, CancelShow
  <2>2. CASE h \notin Resumers
    <3>1. \A r \in Resumers : handler'[r] = handler[r]
      <4>1. ASSUME Return(h) PROVE \A r \in Resumers : handler'[r] = handler[r]
        BY <1>1, <2>2, <4>1 DEF Return
      <4>2. CASE StartLook(h) \/ StartReuse(h) \/ StartAccept(h)
        BY <1>1, <2>2, <4>1, <4>2 DEF StartLook, StartReuse, StartAccept, Go
      <4>3. CASE StartEnqueue(h)
        BY <1>1, <2>2, <4>3 DEF StartEnqueue
      <4>4. CASE Pause(h) \/ CancelShow(h)
        BY <4>1, <4>4 DEF Pause, CancelShow
      <4>5. CASE CancelRead(h) \/ CancelMark(h) \/ CancelLook(h)
        BY <1>1, <2>2, <4>1, <4>5 DEF CancelRead, CancelMark, CancelLook, Go
      <4> QED
        BY <1>2, <2>2, <4>2, <4>3, <4>4, <4>5
           DEF Arrive, Continue, ResumeLook, ResumeAccept
    <3>2. \A r \in Resumers : run'[r].at = run[r].at
      <4>1. CASE StartAccept(h)
        BY <1>1, <4>1 DEF StartAccept, Scheduled
      <4>2. CASE Pause(h)
        BY <1>1, <4>2 DEF Pause
      <4>3. CASE UNCHANGED run
        BY <4>3
      <4> QED
        BY <1>2, <2>2, <4>1, <4>2, <4>3
           DEF Arrive, Continue, ResumeLook, ResumeAccept, StartLook,
               StartReuse, StartEnqueue, CancelRead, CancelMark, CancelLook,
               CancelShow
    <3> QED
      BY <3>1, <3>2
  <2> QED
    BY <2>1, <2>2
<1>3. ASSUME NEW d \in Jobs, JobStep(d) PROVE FreshResumes'
  <2>1. run[d].at = "none" => run'[d].at = "none"
    <3>1. CASE StrayEnds(d)
      BY <1>1, <3>1 DEF StrayEnds
    <3>2. CASE StrayProgress(d)
      BY <3>2 DEF StrayProgress
    <3>3. CASE ~StrayEnds(d) /\ ~StrayProgress(d)
      <4>1. run[d].at # "none"
        BY <1>3, <3>3
           DEF JobStep, RunnerStep, PhaseEnds, RunAt, Claim, Begin, Requeue,
               Progress, SkipPause, CompletePhase, StopForPause, FailPhase,
               StartEnriching, EndPipeline, Judge, Succeed, Fail, Timeout
      <4> QED
        BY <4>1
    <3> QED
      BY <3>1, <3>2, <3>3
  <2> QED
    BY <1>1, <1>3, <2>1, Elsewhere
<1>4. CASE ServerCrash
  BY <1>1, <1>4 DEF ServerCrash, NoRun, Between
<1>5. CASE UNCHANGED vars
  BY <1>5 DEF vars
<1> QED
  BY <1>2, <1>3, <1>4, <1>5, StepsOf


LEMMA WorkIsClaimedPreserved ==
    TypeOK /\ FreshResumes /\ WorkIsClaimed /\ [Next]_vars => WorkIsClaimed'
<1> SUFFICES ASSUME TypeOK, FreshResumes, WorkIsClaimed, [Next]_vars
             PROVE  WorkIsClaimed'
  OBVIOUS
<1>1. /\ run \in [Jobs -> Run] /\ durable \in [Jobs -> Document]
      /\ handler \in [Handlers -> Handler]
      /\ \A d \in Jobs : durable[d] \in Document
                        /\ durable[d].attempts \in 0..MaxAttempts
      /\ StartJob \in Jobs /\ Resumers \subseteq Jobs
  BY DEF TypeOK, Document, Jobs
<1> USE DEF WorkIsClaimed, RunAt, At
<1>2. ASSUME NEW h \in Handlers, Arrive(h) \/ Continue(h) PROVE WorkIsClaimed'
  <2>1. CASE StartEnqueue(h)
    BY <1>1, <2>1 DEF StartEnqueue, Enqueued
  <2>2. CASE ResumeLook(h)
    <3>1. h \in Jobs /\ run[h].at = "none" /\ run' = run
      BY <1>1, <2>2 DEF ResumeLook, FreshResumes
    <3>2. \A e \in Jobs \ {h} : durable'[e] = durable[e]
      BY <1>1, <2>2 DEF ResumeLook
    <3> QED
      BY <1>1, <3>1, <3>2
  <2>3. CASE CancelMark(h)
    <3>1. \A e \in Jobs : durable'[e].status \in {durable[e].status, "cancelled"}
      BY <1>1, <2>3, EndedStatus DEF CancelMark
    <3> QED
      BY <2>3, <3>1 DEF CancelMark
  <2>4. CASE StartAccept(h) \/ ResumeAccept(h)
    <3>1. PICK d \in Jobs, n \in 1..2 : run' \in {run, Scheduled(d, n)}
      <4>1. CASE StartAccept(h)
        <5>1. /\ run' \in {run, Scheduled(StartJob, StartPhase)}
              /\ StartPhase \in 1..2
          BY <4>1 DEF StartAccept, StartPhase
        <5> QED
          BY <1>1, <5>1
      <4>2. CASE ResumeAccept(h)
        <5>1. /\ run' = Scheduled(h, ResumePhase(h))
              /\ h \in Jobs /\ ResumePhase(h) \in 1..2
          BY <1>1, <4>2 DEF ResumeAccept, ResumePhase
        <5> QED
          BY <5>1
      <4> QED
        BY <2>4, <4>1, <4>2
    <3>2. \A e \in Jobs : run'[e].at \in {run[e].at, "claim"}
      BY <3>1, ScheduledRuns
    <3>3. durable' = durable
      BY <2>4 DEF StartAccept, ResumeAccept
    <3> QED
      BY <3>2, <3>3
  <2>5. CASE Pause(h)
    BY <1>1, <2>5 DEF Pause
  <2>6. CASE UNCHANGED <<run, durable>>
    BY <2>6
  <2> QED
    BY <1>2, <2>1, <2>2, <2>3, <2>4, <2>5, <2>6
       DEF Arrive, Continue, StartLook, StartReuse, CancelRead, CancelLook,
           CancelShow
<1>3. ASSUME NEW d \in Jobs, JobStep(d) PROVE WorkIsClaimed'
  <2>0. \A e \in Jobs \ {d} : run'[e] = run[e] /\ durable'[e] = durable[e]
    BY <1>3, Elsewhere
  <2> SUFFICES run'[d].at \notin {"none", "claim"}
                 => durable'[d].status \notin {"absent", "queued"}
    BY <2>0
  <2>1. CASE Claim(d)
    BY <1>1, <2>1, TakenStatus DEF Claim, RunTo, Runnable
  <2>2. CASE Begin(d)
    BY <1>1, <2>2 DEF Begin
  <2>3. CASE Requeue(d)
    BY <1>1, <2>3 DEF Requeue, RunTo
  <2>4. CASE Progress(d)
    BY <1>1, <2>4 DEF Progress
  <2>5. CASE SkipPause(d)
    BY <1>1, <2>5 DEF SkipPause
  <2>6. CASE StrayProgress(d)
    BY <1>1, <2>6 DEF StrayProgress
  <2>7. CASE CompletePhase(d)
    BY <1>1, <2>7 DEF CompletePhase
  <2>8. CASE StopForPause(d)
    BY <1>1, <2>8 DEF StopForPause
  <2>9. CASE FailPhase(d)
    BY <1>1, <2>9 DEF FailPhase
  <2>10. CASE StartEnriching(d)
    BY <1>1, <2>10 DEF StartEnriching
  <2>11. CASE EndPipeline(d)
    BY <1>1, <2>11 DEF EndPipeline, RunTo
  <2>12. CASE Judge(d)
    BY <1>1, <2>12 DEF Judge, Ready, Between
  <2>13. CASE Succeed(d)
    BY <1>1, <2>13 DEF Succeed, Ready, Between
  <2>14. CASE Fail(d)
    BY <1>1, <2>14, FailedStatusOf DEF Fail, Ready, Between, Failed, Ended,
                                           FailedStatus
  <2>15. CASE Timeout(d)
    BY <1>1, <2>15 DEF Timeout, Between
  <2>16. CASE StrayEnds(d)
    BY <1>1, <2>16 DEF StrayEnds
  <2> QED
    BY <1>3, <2>1, <2>2, <2>3, <2>4, <2>5, <2>6, <2>7, <2>8,
       <2>9, <2>10, <2>11, <2>12, <2>13, <2>14, <2>15, <2>16
       DEF JobStep, RunnerStep, PhaseEnds
<1>4. CASE ServerCrash
  BY <1>1, <1>4 DEF ServerCrash, NoRun, Between
<1>5. CASE UNCHANGED vars
  BY <1>5 DEF vars
<1> QED
  BY <1>2, <1>3, <1>4, <1>5, StepsOf

(* A call engages a job only as the first start or by resuming a scan that *)
(* is shown paused.                                                        *)
LEMMA CallsEngage ==
    ASSUME ScanInv, NEW h \in Handlers, Arrive(h) \/ Continue(h)
    PROVE  \A e \in Jobs : Engaged(e)' =>
              \/ Engaged(e)
              \/ StartEnqueue(h) /\ durable[StartJob].status = "absent"
              \/ ResumeAccept(h) /\ e = h
<1>1. /\ TypeOK /\ run \in [Jobs -> Run] /\ durable \in [Jobs -> Document]
      /\ handler \in [Handlers -> Handler]
      /\ StartJob \in Jobs \ Resumers /\ Resumers \subseteq Jobs
  BY ScannerAssumption DEF ScanInv, TypeOK, Jobs
<1> SUFFICES ASSUME NEW e \in Jobs, Engaged(e)'
             PROVE  \/ Engaged(e)
                    \/ StartEnqueue(h) /\ durable[StartJob].status = "absent"
                    \/ ResumeAccept(h) /\ e = h
  OBVIOUS
<1>2. CASE StartEnqueue(h)
  BY <1>1, <1>2 DEF StartEnqueue, Enqueued, Engaged
<1>3. CASE StartAccept(h)
  <2>1. run' \in {run, Scheduled(StartJob, StartPhase)} /\ durable' = durable
        /\ StartPhase \in 1..2
    BY <1>3 DEF StartAccept, StartPhase
  <2>2. \/ run'[e] = run[e]
        \/ e = StartJob /\ run'[e].at = "claim"
    BY <1>1, <2>1, ScheduledRuns
  <2> QED
    BY <2>1, <2>2 DEF Engaged
<1>4. CASE ResumeLook(h)
  <2>1. /\ h \in Resumers /\ run[h].at = "none" /\ run' = run
        /\ \A d \in Jobs \ {h} : durable'[d] = durable[d]
    BY <1>1, <1>4 DEF ResumeLook, ScanInv, FreshResumes, At
  <2> QED
    BY <1>1, <2>1 DEF Engaged
<1>5. CASE ResumeAccept(h)
  <2>1. /\ h \in Jobs /\ ResumePhase(h) \in 1..2 /\ durable' = durable
        /\ run' = Scheduled(h, ResumePhase(h))
    BY <1>1, <1>5 DEF ResumeAccept, ResumePhase
  <2>2. e # h => run'[e] = run[e]
    BY <1>1, <2>1, ScheduledRuns
  <2> QED
    BY <1>5, <2>1, <2>2 DEF Engaged
<1>6. CASE Pause(h)
  <2>1. run'[e].at = run[e].at /\ run'[e].outcome = run[e].outcome
        /\ durable' = durable
    BY <1>1, <1>6 DEF Pause
  <2> QED
    BY <2>1 DEF Engaged
<1>7. CASE CancelMark(h)
  <2>1. durable'[e].status \in {durable[e].status, "cancelled"} /\ run' = run
    BY <1>1, <1>7, EndedStatus DEF CancelMark
  <2> QED
    BY <2>1 DEF Engaged
<1>8. CASE UNCHANGED <<run, durable>>
  BY <1>8 DEF Engaged
<1> QED
  BY <1>2, <1>3, <1>4, <1>5, <1>6, <1>7, <1>8
     DEF Arrive, Continue, StartLook, StartReuse, CancelRead, CancelLook,
         CancelShow

(* What a call does to the document while nothing is stale.                *)
LEMMA CallsShow ==
    ASSUME ScanInv, Calm', NEW h \in Handlers, Arrive(h) \/ Continue(h)
    PROVE  /\ Shows(doc', "paused") => Shows(doc, "paused")
           /\ ResumeAccept(h) => Shows(doc, "paused") /\ ~Shows(doc', "paused")
           /\ ~LoopIsFree /\ Shows(doc', "failed") => Shows(doc, "failed")
<1>1. /\ handler[h].seen \in Phases /\ doc \in Phases
      /\ Resumers \subseteq Handlers
  BY DEF ScanInv, TypeOK, Handler, Handlers
<1>2. CASE LoopIsFree /\ StartReuse(h)
  BY <1>2, ScannerAssumption DEF StartReuse, ResumeAccept, Shown, Shows
<1>3. CASE LoopIsFree /\ StartAccept(h)
  BY <1>3, ScannerAssumption DEF StartAccept, StartPhase, ResumeAccept, Shown, Shows
<1>4. CASE LoopIsFree /\ ResumeAccept(h)
  <2>1. Shows(handler[h].seen, "paused")
    BY <1>4 DEF ResumeAccept, ScanInv, ResumesPaused
  <2>2. doc = handler[h].seen
    BY <1>4 DEF ResumeAccept, Calm, Free
  <2>3. ~Shows(doc', "paused")
    BY <1>4 DEF ResumeAccept, ResumePhase, Shown, Shows
  <2> QED
    BY <1>4, <2>1, <2>2, <2>3
<1>5. CASE CancelShow(h)
  <2>1. doc = handler[h].seen
    BY <1>5 DEF CancelShow, Calm, Free
  <2>2. /\ Shows(doc', "paused") => Shows(doc, "paused")
        /\ Shows(doc', "failed") => Shows(doc, "failed")
    BY <1>5, <2>1 DEF CancelShow, Shows
  <2>3. ~ResumeAccept(h)
    BY <1>5, ScannerAssumption DEF CancelShow, ResumeAccept
  <2> QED
    BY <2>2, <2>3
<1>6. CASE ~ResumeAccept(h) /\ UNCHANGED doc
  BY <1>6 DEF Shows
<1> QED
  BY <1>2, <1>3, <1>4, <1>5, <1>6, ScannerAssumption
     DEF Arrive, Continue, StartLook, StartEnqueue, ResumeLook, ResumeAccept,
         Pause, CancelRead, CancelMark, CancelLook, At

LEMMA CallsKeepCalm ==
    ASSUME ScanInv, Calm, Calm', NEW h \in Handlers, Arrive(h) \/ Continue(h)
    PROVE  CalmInv'
<1>1. /\ TypeOK /\ run \in [Jobs -> Run] /\ durable \in [Jobs -> Document]
      /\ handler \in [Handlers -> Handler] /\ StartJob \in Jobs \ Resumers
  BY ScannerAssumption DEF ScanInv, TypeOK, Jobs
<1>2. CalmInv
  BY DEF ScanInv
<1>3. (\E e \in Jobs : Engaged(e)' /\ ~Engaged(e)) => \A e \in Jobs : ~Engaged(e)
  BY <1>2, CallsEngage, CallsShow DEF CalmInv, PausedIsFree, FirstStart
<1>4. OneEngaged'
  <2> SUFFICES ASSUME NEW d \in Jobs, NEW e \in Jobs, Engaged(d)', Engaged(e)'
               PROVE  d = e
    BY DEF OneEngaged
  <2>1. CASE Engaged(d) /\ Engaged(e)
    BY <1>2, <2>1 DEF CalmInv, OneEngaged
  <2>2. CASE ~Engaged(d) /\ ~Engaged(e)
    <3>1. CASE StartEnqueue(h)
      BY <1>1, <2>2, <3>1 DEF StartEnqueue, Engaged
    <3>2. CASE ~StartEnqueue(h)
      BY <2>2, <3>2, CallsEngage
    <3> QED
      BY <3>1, <3>2
  <2> QED
    BY <1>3, <2>1, <2>2
<1>5. PausedIsFree'
  <2> SUFFICES ASSUME Shows(doc', "paused"), NEW e \in Jobs, Engaged(e)'
               PROVE  FALSE
    BY DEF PausedIsFree
  <2>1. Shows(doc, "paused") /\ ~ResumeAccept(h)
    BY CallsShow
  <2>2. ~Engaged(e) /\ durable[StartJob].status # "absent"
    BY <1>2, <2>1 DEF CalmInv, PausedIsFree, FirstStart
  <2> QED
    BY <2>1, <2>2, CallsEngage
<1>6. FirstStart'
  <2> SUFFICES ASSUME durable'[StartJob].status = "absent"
               PROVE  ~Shows(doc', "paused") /\ \A e \in Jobs : ~Engaged(e)'
    BY DEF FirstStart
  <2>1. durable[StartJob].status = "absent" /\ ~StartEnqueue(h)
    <3>1. CASE StartEnqueue(h)
      BY <1>1, <3>1 DEF StartEnqueue, Enqueued
    <3>2. CASE ResumeLook(h)
      BY <1>1, <3>2, ScannerAssumption DEF ResumeLook, StartEnqueue
    <3>3. CASE CancelMark(h)
      BY <1>1, <3>3, ScannerAssumption DEF CancelMark, Ended, StartEnqueue
    <3>4. CASE UNCHANGED durable /\ ~StartEnqueue(h)
      BY <3>4
    <3> QED
      BY <3>1, <3>2, <3>3, <3>4
         DEF Arrive, Continue, StartLook, StartReuse, StartAccept, ResumeAccept,
             Pause, CancelRead, CancelLook, CancelShow
  <2> QED
    BY <1>2, <2>1, CallsEngage, CallsShow DEF CalmInv, FirstStart
<1>7. \A d \in Jobs :
        /\ run'[d].at \in {"work", "ended", "judge"} =>
             /\ run'[d].at = run[d].at /\ run'[d].outcome = run[d].outcome
             /\ run'[d].phase = run[d].phase
             /\ run'[d].pause = "seen" => run[d].pause = "seen"
  <2> SUFFICES ASSUME NEW d \in Jobs,
                      run'[d].at \in {"work", "ended", "judge"}
               PROVE  /\ run'[d].at = run[d].at
                      /\ run'[d].outcome = run[d].outcome
                      /\ run'[d].phase = run[d].phase
                      /\ run'[d].pause = "seen" => run[d].pause = "seen"
    OBVIOUS
  <2>1. CASE StartAccept(h)
    <3>1. run' \in {run, Scheduled(StartJob, StartPhase)} /\ StartPhase \in 1..2
      BY <2>1 DEF StartAccept, StartPhase
    <3> QED
      BY <1>1, <3>1, ScheduledRuns
  <2>2. CASE ResumeAccept(h)
    <3>1. /\ run' = Scheduled(h, ResumePhase(h)) /\ ResumePhase(h) \in 1..2
          /\ h \in Jobs
      BY <2>2 DEF ResumeAccept, ResumePhase, Jobs
    <3> QED
      BY <1>1, <3>1, ScheduledRuns
  <2>3. CASE Pause(h)
    BY <1>1, <2>3 DEF Pause
  <2>4. CASE UNCHANGED run
    BY <2>4
  <2> QED
    BY <2>1, <2>2, <2>3, <2>4
       DEF Arrive, Continue, StartLook, StartReuse, StartEnqueue, ResumeLook,
           CancelRead, CancelMark, CancelLook, CancelShow
<1>8. flag => flag'
  BY DEF Arrive, Continue, StartLook, StartReuse, StartEnqueue, StartAccept,
         ResumeLook, ResumeAccept, Pause, CancelRead, CancelMark, CancelLook,
         CancelShow
<1>9. JudgedFairly'
  BY <1>2, <1>7, CallsShow DEF CalmInv, JudgedFairly, LoopIsFree, RunAt
<1>10. SeenIsAsked'
  BY <1>2, <1>7, <1>8 DEF CalmInv, SeenIsAsked, InHand
<1>11. SeenPausePrevails'
  BY <1>2, <1>7 DEF CalmInv, SeenPausePrevails, RunAt
<1> QED
  BY <1>4, <1>5, <1>6, <1>9, <1>10, <1>11 DEF CalmInv

(* No step of a job engages it.                                            *)
LEMMA JobsDoNotEngage ==
    ASSUME ScanInv, Calm, NEW d \in Jobs, JobStep(d)
    PROVE  \A e \in Jobs : Engaged(e)' => Engaged(e)
<1>1. /\ TypeOK /\ run \in [Jobs -> Run] /\ durable \in [Jobs -> Document]
      /\ durable[d] \in Document /\ durable[d].attempts \in 0..MaxAttempts
  BY DEF ScanInv, TypeOK, Document
<1>2. \A e \in Jobs \ {d} : run'[e] = run[e] /\ durable'[e] = durable[e]
  BY <1>1, Elsewhere
<1>3. run[d].at \notin {"none", "claim"}
        => durable[d].status \notin {"absent", "queued"}
  BY DEF ScanInv, WorkIsClaimed
<1> SUFFICES Engaged(d)' => Engaged(d)
  BY <1>2 DEF Engaged
<1> USE DEF RunAt
<1>4. CASE Claim(d)
  BY <1>1, <1>4, TakenStatus DEF Claim, RunTo, Runnable, Engaged
<1>5. CASE Begin(d)
  BY <1>1, <1>5 DEF Begin, Engaged
<1>6. CASE Requeue(d)
  BY <1>1, <1>6 DEF Requeue, RunTo, Engaged
<1>7. CASE Progress(d)
  BY <1>7 DEF Progress, Engaged
<1>8. CASE SkipPause(d)
  BY <1>1, <1>8 DEF SkipPause, Engaged
<1>9. CASE StrayProgress(d)
  BY <1>9 DEF StrayProgress, Engaged
<1>10. CASE PhaseEnds(d)
  BY <1>1, <1>10 DEF PhaseEnds, CompletePhase, StopForPause, FailPhase, Engaged
<1>11. CASE StartEnriching(d)
  BY <1>1, <1>11 DEF StartEnriching, Engaged
<1>12. CASE EndPipeline(d)
  BY <1>1, <1>12 DEF EndPipeline, RunTo, Engaged
<1>13. CASE Judge(d)
  <2>1. run[d].at = "judge" /\ durable' = durable
    BY <1>13 DEF Judge
  <2>2. CASE run[d].outcome = "failed"
    BY <2>1, <2>2 DEF Engaged
  <2>3. CASE run[d].outcome # "failed"
    <3>1. ~Shows(doc, "failed")
      BY <2>1, <2>3 DEF ScanInv, CalmInv, JudgedFairly
    <3>2. run'[d].at = "succeed"
      BY <1>1, <1>13, <3>1 DEF Judge, Ready, Between, Shows
    <3> QED
      BY <1>3, <2>1, <3>2 DEF Engaged
  <2> QED
    BY <2>2, <2>3
<1>14. CASE Succeed(d)
  <2>1. run'[d].at = "none"
    BY <1>1, <1>14 DEF Succeed, Ready, Between
  <2>2. durable'[d].status # "queued"
    BY <1>1, <1>3, <1>14, EndedStatus DEF Succeed
  <2> QED
    BY <2>1, <2>2 DEF Engaged
<1>15. CASE Fail(d)
  BY <1>15 DEF Fail, Engaged
<1>16. CASE Timeout(d)
  BY <1>16 DEF Timeout, Engaged
<1>17. CASE StrayEnds(d)
  BY <1>1, <1>17 DEF StrayEnds, Engaged
<1> QED
  BY <1>4, <1>5, <1>6, <1>7, <1>8, <1>9, <1>10, <1>11, <1>12,
     <1>13, <1>14, <1>15, <1>16, <1>17 DEF JobStep, RunnerStep

(* What a job's step does to the document and to the flag, and from where  *)
(* a pipeline gets to its last steps.                                      *)
LEMMA JobsShow ==
    ASSUME TypeOK, NEW d \in Jobs, JobStep(d)
    PROVE  \/ LoopIsFree /\ EndPipeline(d)
           \/ /\ \A s \in {"paused", "failed"} : Shows(doc', s) => Shows(doc, s)
              /\ \A e \in Jobs : run'[e].at = "judge" =>
                    run[e].at = "judge" /\ run'[e].outcome = run[e].outcome
              /\ flag => flag' \/ Begin(d)
<1>1. run \in [Jobs -> Run]
  BY DEF TypeOK
<1>2. \A n \in 1..2, s \in {"paused", "failed"} : ~Shows(Shown(n, "running"), s)
  BY DEF Shows, Shown
<1> USE DEF RunAt
<1>3. CASE Claim(d)
  BY <1>1, <1>3 DEF Claim, RunTo
<1>4. CASE Begin(d)
  BY <1>1, <1>4 DEF Begin
<1>5. CASE Requeue(d)
  BY <1>1, <1>5 DEF Requeue, RunTo
<1>6. CASE Progress(d)
  BY <1>1, <1>2, <1>6 DEF Progress, Run
<1>7. CASE SkipPause(d)
  BY <1>1, <1>7 DEF SkipPause
<1>8. CASE StrayProgress(d)
  BY <1>1, <1>2, <1>8 DEF StrayProgress, Run
<1>9. CASE CompletePhase(d)
  BY <1>1, <1>2, <1>9 DEF CompletePhase
<1>10. CASE StopForPause(d)
  BY <1>1, <1>10 DEF StopForPause
<1>17. CASE FailPhase(d)
  BY <1>1, <1>17 DEF FailPhase
<1>11. CASE StartEnriching(d)
  BY <1>1, <1>2, <1>11 DEF StartEnriching
<1>12. CASE Judge(d)
  BY <1>1, <1>12 DEF Judge, Ready, Between
<1>13. CASE Succeed(d)
  BY <1>1, <1>13 DEF Succeed, Ready, Between
<1>14. CASE Fail(d)
  BY <1>1, <1>14 DEF Fail, Ready, Between
<1>15. CASE Timeout(d)
  BY <1>1, <1>15 DEF Timeout, Between
<1>16. CASE StrayEnds(d)
  BY <1>1, <1>16 DEF StrayEnds
<1> QED
  BY <1>3, <1>4, <1>5, <1>6, <1>7, <1>8, <1>9, <1>10, <1>11,
     <1>12, <1>13, <1>14, <1>15, <1>16, <1>17 DEF JobStep, RunnerStep, PhaseEnds

(* A thread's work that a job's step leaves in hand was in hand before.    *)
LEMMA JobsGoOn ==
    ASSUME TypeOK, NEW d \in Jobs, JobStep(d)
    PROVE  \/ Begin(d) \/ SkipPause(d) \/ EndPipeline(d)
           \/ /\ InHand(d)' => InHand(d) /\ run'[d].pause = run[d].pause
              /\ \/ CompletePhase(d)
                 \/ InHand(d)' /\ run'[d].at = "ended" =>
                       run[d].at = "ended" /\ run'[d].phase = run[d].phase
<1>1. run \in [Jobs -> Run]
  BY DEF TypeOK
<1> USE DEF RunAt, InHand
<1>2. CASE Claim(d)
  BY <1>1, <1>2 DEF Claim, RunTo
<1>3. CASE Requeue(d)
  BY <1>1, <1>3 DEF Requeue, RunTo
<1>4. CASE Progress(d)
  BY <1>4 DEF Progress
<1>5. CASE StrayProgress(d)
  BY <1>5 DEF StrayProgress
<1>6. CASE CompletePhase(d)
  BY <1>1, <1>6 DEF CompletePhase
<1>7. CASE StopForPause(d)
  BY <1>1, <1>7 DEF StopForPause
<1>8. CASE FailPhase(d)
  BY <1>1, <1>8 DEF FailPhase
<1>9. CASE StartEnriching(d)
  BY <1>1, <1>9 DEF StartEnriching
<1>10. CASE Judge(d)
  BY <1>1, <1>10 DEF Judge, Ready, Between
<1>11. CASE Succeed(d)
  BY <1>1, <1>11 DEF Succeed, Ready, Between
<1>12. CASE Fail(d)
  BY <1>1, <1>12 DEF Fail, Ready, Between
<1>13. CASE Timeout(d)
  BY <1>1, <1>13 DEF Timeout, Between
<1>14. CASE StrayEnds(d)
  BY <1>1, <1>14 DEF StrayEnds
<1> QED
  BY <1>2, <1>3, <1>4, <1>5, <1>6, <1>7, <1>8, <1>9, <1>10, <1>11,
     <1>12, <1>13, <1>14 DEF JobStep, RunnerStep, PhaseEnds

LEMMA JobsKeepCalm ==
    ASSUME ScanInv, Calm, NEW d \in Jobs, JobStep(d)
    PROVE  CalmInv'
<1>1. /\ TypeOK /\ run \in [Jobs -> Run] /\ durable \in [Jobs -> Document]
      /\ durable[d] \in Document /\ durable[d].attempts \in 0..MaxAttempts
      /\ StartJob \in Jobs
  BY DEF ScanInv, TypeOK, Document, Jobs
<1>2. CalmInv
  BY DEF ScanInv
<1>3. /\ \A e \in Jobs \ {d} : run'[e] = run[e] /\ durable'[e] = durable[e]
      /\ \A e \in Jobs : Engaged(e)' => Engaged(e)
  BY <1>1, Elsewhere, JobsDoNotEngage
<1>4. EndPipeline(d) =>
        /\ run[d].at = "ended" /\ run'[d].at = "judge"
        /\ run'[d].outcome = run[d].outcome
        /\ durable' = durable
        /\ doc' = Shown(run[d].phase, Result(d))
  BY <1>1 DEF EndPipeline, RunTo, RunAt
<1>5. OneEngaged'
  BY <1>2, <1>3 DEF CalmInv, OneEngaged
<1>6. PausedIsFree'
  <2> SUFFICES ASSUME Shows(doc', "paused"), NEW e \in Jobs, Engaged(e)'
               PROVE  FALSE
    BY DEF PausedIsFree
  <2>1. ~Shows(doc, "paused") /\ Engaged(e)
    BY <1>2, <1>3 DEF CalmInv, PausedIsFree
  <2>2. EndPipeline(d)
    BY <1>1, <2>1, JobsShow
  <2>3. e = d
    BY <1>2, <1>4, <2>1, <2>2 DEF CalmInv, OneEngaged, Engaged
  <2>4. run[d].outcome = "paused"
    BY <1>1, <1>4, <2>2 DEF Result, Shown, Shows, Run, Outcome
  <2>5. durable'[d].status # "queued"
    BY <1>4, <2>2 DEF ScanInv, WorkIsClaimed
  <2> QED
    BY <1>4, <2>2, <2>3, <2>4, <2>5 DEF Engaged
<1>7. FirstStart'
  <2> SUFFICES ASSUME durable'[StartJob].status = "absent"
               PROVE  ~Shows(doc', "paused") /\ \A e \in Jobs : ~Engaged(e)'
    BY DEF FirstStart
  <2>1. durable[StartJob].status = "absent"
    <3>1. CASE Claim(d)
      BY <1>1, <3>1, TakenStatus DEF Claim
    <3>2. CASE Requeue(d)
      BY <1>1, <3>2 DEF Requeue, Reset, Document
    <3>3. CASE Succeed(d)
      BY <1>1, <3>3, EndedStatus DEF Succeed
    <3>4. CASE Fail(d)
      BY <1>1, <3>4 DEF Fail, Failed, Ended, FailedStatus, Document
    <3>5. CASE UNCHANGED durable
      BY <3>5
    <3> QED
      BY <3>1, <3>2, <3>3, <3>4, <3>5
         DEF JobStep, RunnerStep, PhaseEnds, Begin, Progress, SkipPause,
             StrayProgress, CompletePhase, StopForPause, FailPhase,
             StartEnriching, EndPipeline, Judge, Timeout, StrayEnds
  <2>2. ~Shows(doc, "paused") /\ \A e \in Jobs : ~Engaged(e)
    BY <1>2, <2>1 DEF CalmInv, FirstStart
  <2>3. ~EndPipeline(d)
    BY <1>4, <2>2 DEF Engaged
  <2> QED
    BY <1>1, <1>3, <2>2, <2>3, JobsShow
<1>8. JudgedFairly'
  <2> SUFFICES ASSUME NEW e \in Jobs, run'[e].at = "judge",
                      run'[e].outcome # "failed"
               PROVE  ~Shows(doc', "failed")
    BY DEF JudgedFairly
  <2>1. CASE LoopIsFree /\ EndPipeline(d)
    <3>1. e = d
      BY <1>3, <2>1 DEF LoopIsFree, RunAt
    <3>2. run[d].outcome # "failed"
      BY <1>4, <2>1, <3>1
    <3> QED
      BY <1>1, <1>4, <2>1, <3>2 DEF Result, Shown, Shows, Run, Outcome
  <2>2. CASE ~(LoopIsFree /\ EndPipeline(d))
    BY <1>1, <1>2, <2>2, JobsShow DEF CalmInv, JudgedFairly
  <2> QED
    BY <2>1, <2>2
<1>9. SeenIsAsked'
  <2> SUFFICES ASSUME NEW e \in Jobs, run'[e].pause = "seen", InHand(e)'
               PROVE  flag'
    BY DEF SeenIsAsked
  <2>1. CASE e # d
    <3>1. flag /\ Engaged(e)
      BY <1>2, <1>3, <2>1 DEF CalmInv, SeenIsAsked, InHand, Engaged
    <3>2. ~Engaged(d)
      BY <1>2, <2>1, <3>1 DEF CalmInv, OneEngaged
    <3> QED
      BY <1>1, <1>4, <3>1, <3>2, JobsShow DEF Begin, RunAt, Engaged
  <2>2. CASE e = d
    <3>1. CASE Begin(d)
      BY <1>1, <2>2, <3>1 DEF Begin
    <3>2. CASE SkipPause(d)
      BY <3>2 DEF SkipPause
    <3>3. CASE ~Begin(d) /\ ~SkipPause(d) /\ ~EndPipeline(d)
      <4>1. run[d].pause = "seen" /\ InHand(d)
        BY <1>1, <2>2, <3>3, JobsGoOn
      <4>2. flag
        BY <1>2, <4>1 DEF CalmInv, SeenIsAsked
      <4> QED
        BY <1>1, <3>3, <4>2, JobsShow
    <3> QED
      BY <1>4, <2>2, <3>1, <3>2, <3>3 DEF InHand
  <2> QED
    BY <2>1, <2>2
<1>10. SeenPausePrevails'
  <2> SUFFICES ASSUME NEW e \in Jobs, run'[e].at = "ended",
                      run'[e].outcome = "ok", run'[e].phase = 2
               PROVE  run'[e].pause # "seen"
    BY DEF SeenPausePrevails, RunAt
  <2>1. CASE run'[e] = run[e]
    BY <1>2, <2>1 DEF CalmInv, SeenPausePrevails, RunAt
  <2>2. CASE e = d /\ CompletePhase(d)
    <3>1. run[d].at = "work" /\ ~flag /\ run'[d].pause = run[d].pause
      BY <1>1, <2>2 DEF CompletePhase, RunAt
    <3> QED
      BY <1>2, <2>2, <3>1 DEF CalmInv, SeenIsAsked, InHand
  <2>3. CASE e = d /\ ~CompletePhase(d)
    <3>1. ~Begin(d) /\ ~SkipPause(d) /\ ~EndPipeline(d)
      <4>1. ASSUME Begin(d) PROVE run'[d].at = "work"
        BY <1>1, <4>1 DEF Begin
      <4>2. ASSUME SkipPause(d) PROVE run'[d].at = "work"
        BY <1>1, <4>2 DEF SkipPause, RunAt
      <4> QED
        BY <1>4, <2>3, <4>1, <4>2
    <3>2. /\ run[d].at = "ended" /\ run[d].outcome = "ok"
          /\ run'[d].phase = run[d].phase /\ run'[d].pause = run[d].pause
      BY <1>1, <2>3, <3>1, JobsGoOn DEF InHand
    <3> QED
      BY <1>2, <2>3, <3>2 DEF CalmInv, SeenPausePrevails, RunAt
  <2> QED
    BY <1>3, <2>1, <2>2, <2>3
<1> QED
  BY <1>5, <1>6, <1>7, <1>8, <1>9, <1>10 DEF CalmInv

LEMMA ScanPreserved == ScanInv /\ [Next]_vars => ScanInv'
<1> SUFFICES ASSUME ScanInv, [Next]_vars PROVE ScanInv'
  OBVIOUS
<1>1. TypeOK /\ ResumesPaused /\ FreshResumes /\ WorkIsClaimed
  BY DEF ScanInv
<1>2. TypeOK' /\ ResumesPaused' /\ FreshResumes' /\ WorkIsClaimed'
  BY <1>1, TypePreserved, ResumesPausedPreserved, FreshResumesPreserved,
     WorkIsClaimedPreserved
<1>3. ASSUME Calm' PROVE CalmInv'
  <2>1. Calm /\ CalmInv
    BY <1>3, StaysCalm DEF ScanInv
  <2>2. ASSUME NEW h \in Handlers, Arrive(h) \/ Continue(h) PROVE CalmInv'
    BY <1>3, <2>1, <2>2, CallsKeepCalm
  <2>3. ASSUME NEW d \in Jobs, JobStep(d) PROVE CalmInv'
    BY <2>1, <2>3, JobsKeepCalm
  <2>4. CASE ServerCrash
    <3>1. /\ \A d \in Jobs : run'[d].at = "none" /\ run'[d].pause = "none"
          /\ UNCHANGED <<doc, durable>>
      BY <2>4 DEF ServerCrash, NoRun, Between
    <3>2. \A d \in Jobs : Engaged(d)' => Engaged(d)
      BY <3>1 DEF Engaged
    <3> QED
      BY <2>1, <3>1, <3>2
         DEF CalmInv, OneEngaged, PausedIsFree, FirstStart, JudgedFairly,
             SeenIsAsked, SeenPausePrevails, Shows, RunAt
  <2>5. CASE UNCHANGED vars
    BY <2>1, <2>5
       DEF vars, CalmInv, OneEngaged, PausedIsFree, FirstStart, JudgedFairly,
           SeenIsAsked, SeenPausePrevails, InHand, Engaged, Shows, RunAt, Calm,
           Free
  <2> QED
    BY <2>2, <2>3, <2>4, <2>5, StepsOf
<1> QED
  BY <1>2, <1>3 DEF ScanInv

LEMMA ScanInitially == Init => ScanInv
<1> SUFFICES ASSUME Init PROVE ScanInv
  OBVIOUS
<1>1. TypeOK
  BY TypeInitially
<1>2. /\ \A d \in Jobs : run[d].at = "none" /\ run[d].pause = "none"
      /\ \A d \in Jobs : durable[d].status = "absent"
      /\ ~Shows(doc, "paused")
  BY DEF Init, NoRun, Between, Absent, NotStarted, Shows
<1>3. ResumesPaused
  BY DEF Init, ResumesPaused, At, Call, Handlers
<1>4. \A d \in Jobs : ~Engaged(d)
  BY <1>2 DEF Engaged
<1> QED
  BY <1>1, <1>2, <1>3, <1>4
     DEF ScanInv, FreshResumes, WorkIsClaimed, CalmInv, OneEngaged,
         PausedIsFree, FirstStart, JudgedFairly, SeenIsAsked,
         SeenPausePrevails, RunAt, Jobs

LEMMA ScanAlways == Spec => []ScanInv
  BY ScanInitially, ScanPreserved, PTL DEF Spec

(* However many starts, resumes and retries a scan has, its pipelines work *)
(* one at a time, as long as no call goes by a document that changed while *)
(* it waited.                                                              *)
THEOREM ScansExcludeEachOther == Spec => []OneScanAtATime
<1>1. ScanInv => OneScanAtATime
  BY DEF ScanInv, CalmInv, OneEngaged, Engaged, OneScanAtATime, Busy
<1> QED
  BY <1>1, ScanAlways, PTL

(* A scan that is shown paused, and so can be resumed, has no pipeline at  *)
(* work, under the same condition.                                         *)
THEOREM PausedScansRest == Spec => []PausedMeansStopped
<1>1. ScanInv => PausedMeansStopped
  BY DEF ScanInv, CalmInv, PausedIsFree, Engaged, PausedMeansStopped, Busy
<1> QED
  BY <1>1, ScanAlways, PTL

(* A pipeline whose thread went on over a pause does not get through phase *)
(* 2, under the same condition: it stops with the pause.                   *)
THEOREM SkippedPausesStopTheScan == Spec => []SeenPausePrevails
<1>1. ScanInv => SeenPausePrevails
  BY DEF ScanInv, CalmInv, SeenPausePrevails
<1> QED
  BY <1>1, ScanAlways, PTL

(* The three together: a pause that was accepted stops the scan it was     *)
(* meant for, and no other.                                                *)
THEOREM PausesAreHeeded == Spec => []PausesHold
BY PausedScansRest, PausesStopTheirScan, SkippedPausesStopTheScan, PTL
DEF PausesHold
====
