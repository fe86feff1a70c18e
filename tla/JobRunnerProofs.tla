---- MODULE JobRunnerProofs ----
(***************************************************************************)
(* Proofs about JobRunner, for any number of runners and cancellations and *)
(* any max_attempts.                                                       *)
(***************************************************************************)
EXTENDS JobRunner, TLAPS

(* What the updates a runner makes do to the status and the attempt count. *)
LEMMA CountsAreCounts ==
    ASSUME NEW n \in 0..MaxAttempts PROVE OneMore(n) \in 0..MaxAttempts
  BY JobAssumption DEF OneMore

LEMMA FailedIsDocument ==
    ASSUME NEW j \in Document, NEW n \in 0..MaxAttempts
    PROVE  Failed(j, n) \in Document
  BY DEF Document, Status, Terminal, Failed, FailedStatus, Ended, Open

LEMMA ResetQueues ==
    ASSUME NEW j \in Document, NEW clear \in BOOLEAN
    PROVE  /\ Reset(j, clear) \in Document
           /\ Reset(j, clear).status = "queued"
           /\ Reset(j, clear).attempts = j.attempts
  BY DEF Document, Status, Terminal, Reset

LEMMA EndedStatus ==
    ASSUME NEW j \in Document, NEW s \in {"cancelled", "succeeded"}
    PROVE  /\ Ended(j, s) \in Document
           /\ Ended(j, s).attempts = j.attempts
           /\ Ended(j, s).status \in {j.status, s}
  BY DEF Document, Status, Terminal, Ended

LEMMA FailedStatusOf ==
    ASSUME NEW j \in Document, NEW n \in 0..MaxAttempts
    PROVE  /\ Failed(j, n).attempts = j.attempts
           /\ Failed(j, n).status = "queued" => j.status = "queued"
           /\ Failed(j, n).status = "dead_letter"
                => j.status = "dead_letter" \/ n >= MaxAttempts
  BY JobAssumption DEF Document, Status, Terminal, Open, Failed, Ended,
                       FailedStatus

LEMMA TakenStatus ==
    ASSUME NEW j \in Document, NEW n \in 0..MaxAttempts
    PROVE  /\ TakenToRun(j, n) \in Document
           /\ j.status # "queued" => TakenToRun(j, n) = j
           /\ j.status = "queued" =>
                /\ TakenToRun(j, n).status = "running"
                /\ TakenToRun(j, n).attempts <= n + 1
<1>1. TakenToRun(j, n) \in Document
  BY CountsAreCounts DEF Document, Status, Terminal, TakenToRun, Runnable
<1> QED
  BY <1>1, JobAssumption DEF Document, Status, Terminal, TakenToRun,
                             Runnable, OneMore

(* The attempt counts runners read are counts; steps are RunnerSteps.      *)
LEMMA TypePreserved == TypeOK /\ [Next]_vars => TypeOK'
<1> SUFFICES ASSUME TypeOK, [Next]_vars
             PROVE  TypeOK'
  OBVIOUS
<1> USE DEF TypeOK
<1>1. job.attempts \in 0..MaxAttempts
  BY DEF Document
<1>2. ASSUME NEW r \in Runners, Schedule(r) PROVE TypeOK'
  BY <1>2 DEF Schedule, At, Go, RunnerSteps
<1>3. ASSUME NEW r \in Runners, Look(r) PROVE TypeOK'
  BY <1>3 DEF Look, At, Go, RunnerSteps
<1>4. ASSUME NEW r \in Runners, ClaimRead(r) PROVE TypeOK'
  BY <1>1, <1>4 DEF ClaimRead, At, RunnerSteps
<1>5. ASSUME NEW r \in Runners, Claim(r) PROVE TypeOK'
  <2>1. job' \in Document
    BY <1>5, TakenStatus DEF Claim
  <2> QED
    BY <1>5, <2>1 DEF Claim, At, Go, RunnerSteps
<1>6. ASSUME NEW r \in Runners, HandlerEnds(r) PROVE TypeOK'
  BY <1>6 DEF HandlerEnds, At, Go, RunnerSteps
<1>7. ASSUME NEW r \in Runners, Succeed(r) PROVE TypeOK'
  <2>1. job' \in Document
    BY <1>7, EndedStatus DEF Succeed
  <2> QED
    BY <1>7, <2>1 DEF Succeed, At, Go, RunnerSteps
<1>8. ASSUME NEW r \in Runners, FailRead(r) PROVE TypeOK'
  <2>1. PICK next \in RunnerSteps :
           runner' = [runner EXCEPT ![r].step = next,
                                    ![r].attempts = job.attempts]
    <3> DEFINE next == IF Open(job) THEN "fail" ELSE
                         IF job.status = "dead_letter" THEN "done" ELSE "reset"
    <3>1. next \in RunnerSteps
      BY DEF RunnerSteps
    <3>2. runner' = [runner EXCEPT ![r].step = next,
                                   ![r].attempts = job.attempts]
      BY <1>8 DEF FailRead
    <3> QED
      BY <3>1, <3>2
  <2>2. runner' \in [Runners -> [step: RunnerSteps, attempts: 0..MaxAttempts]]
    BY <1>1, <2>1
  <2> QED
    BY <1>8, <2>2 DEF FailRead
<1>9. ASSUME NEW r \in Runners, FailWrite(r) PROVE TypeOK'
  <2>1. job' \in Document
    BY <1>9, FailedIsDocument DEF FailWrite
  <2> QED
    BY <1>9, <2>1 DEF FailWrite, At, Go, RunnerSteps
<1>10. ASSUME NEW r \in Runners, ResetForRetry(r) PROVE TypeOK'
  <2>1. job' \in Document
    BY <1>10, ResetQueues DEF ResetForRetry
  <2> QED
    BY <1>10, <2>1 DEF ResetForRetry, At, Go, RunnerSteps
<1>11. ASSUME NEW r \in Runners, RunnerLost(r) PROVE TypeOK'
  BY <1>11 DEF RunnerLost, Go, RunnerSteps
<1>12. ASSUME NEW c \in Cancellers, CancelRead(c) PROVE TypeOK'
  BY <1>12 DEF CancelRead
<1>13. ASSUME NEW c \in Cancellers, CancelMark(c) PROVE TypeOK'
  <2>1. job' \in Document
    BY <1>13, EndedStatus DEF CancelMark
  <2> QED
    BY <1>13, <2>1 DEF CancelMark
<1>14. CASE UNCHANGED vars
  BY <1>14 DEF vars
<1> QED
  BY <1>2, <1>3, <1>4, <1>5, <1>6, <1>7, <1>8, <1>9, <1>10, <1>11, <1>12,
     <1>13, <1>14 DEF Next, Continue

LEMMA TypeInitially == Init => TypeOK
<1> SUFFICES ASSUME Init PROVE TypeOK
  OBVIOUS
<1>1. job \in Document
  BY JobAssumption DEF Init, Enqueued, Absent, Document, Status, Terminal
<1> QED
  BY <1>1, JobAssumption DEF Init, TypeOK, RunnerSteps

(* The state of the runners and of the job stays within its types.         *)
THEOREM TypesAreKept == Spec => []TypeOK
  BY TypeInitially, TypePreserved, PTL DEF Spec

-----------------------------------------------------------------------------
(* A runner is busy from its claim until it has put the job back.          *)
Busy(r) ==
    runner[r].step \in {"work", "succeed", "read_attempts", "fail", "reset"}

(* The job is queued only while nobody is busy with it, so the claim lets  *)
(* one runner through; and no count is ahead of the executions.            *)
RunnerInv ==
    /\ TypeOK
    /\ \A r, s \in Runners : Busy(r) /\ Busy(s) => r = s
    /\ \A r \in Runners : Busy(r) => job.status # "queued"
    /\ job.attempts <= executions
    /\ \A r \in Runners : runner[r].attempts <= executions
    /\ NoEarlyDeadLetter

LEMMA RunnerInvPreserved == RunnerInv /\ [Next]_vars => RunnerInv'
<1> SUFFICES ASSUME RunnerInv, [Next]_vars
             PROVE  RunnerInv'
  OBVIOUS
<1> USE DEF RunnerInv, TypeOK, Busy, NoEarlyDeadLetter, At, Go
<1>1. TypeOK'
  BY TypePreserved
<1>2. /\ job \in Document /\ job.attempts \in Nat /\ MaxAttempts \in Nat
      /\ 0 \in 0..MaxAttempts
      /\ \A r \in Runners : runner[r].attempts \in 0..MaxAttempts
  BY JobAssumption DEF Document
<1> HIDE DEF TypeOK
<1>a. runner \in [Runners -> [step: RunnerSteps, attempts: 0..MaxAttempts]]
      /\ executions \in Nat
  BY DEF TypeOK
<1>3. ASSUME NEW r \in Runners, Schedule(r) PROVE RunnerInv'
  BY <1>1, <1>2, <1>a, <1>3 DEF Schedule
<1>4. ASSUME NEW r \in Runners, Look(r) PROVE RunnerInv'
  BY <1>1, <1>2, <1>a, <1>4 DEF Look
<1>5. ASSUME NEW r \in Runners, ClaimRead(r) PROVE RunnerInv'
  BY <1>1, <1>2, <1>a, <1>5 DEF ClaimRead
<1>6. ASSUME NEW r \in Runners, Claim(r) PROVE RunnerInv'
  <2>1. CASE job.status = "queued"
    <3>1. /\ job'.status = "running"
          /\ job'.attempts <= runner[r].attempts + 1
      BY <1>2, <1>6, <2>1, TakenStatus DEF Claim
    <3>2. executions' = executions + 1
          /\ runner' = [runner EXCEPT ![r].step = "work"]
      BY <1>6, <2>1 DEF Claim, Runnable
    <3>3. \A s \in Runners : ~Busy(s)
      BY <2>1
    <3>4. job'.attempts \in Nat
      BY <1>1, JobAssumption DEF TypeOK, Document
    <3>5. job'.attempts <= executions'
      BY <1>2, <1>a, <3>1, <3>2, <3>4
    <3>6. \A s \in Runners : runner'[s].attempts <= executions'
      BY <1>2, <1>a, <3>2
    <3> QED
      BY <1>1, <1>a, <3>1, <3>2, <3>3, <3>5, <3>6
  <2>2. CASE job.status # "queued"
    <3>1. job' = job /\ runner' = [runner EXCEPT ![r].step = "done"]
          /\ executions' = executions
      BY <1>2, <1>6, <2>2, TakenStatus DEF Claim, Runnable
    <3> QED
      BY <1>1, <1>2, <1>a, <3>1
  <2> QED
    BY <2>1, <2>2
<1>7. ASSUME NEW r \in Runners, HandlerEnds(r) PROVE RunnerInv'
  BY <1>1, <1>2, <1>a, <1>7 DEF HandlerEnds
<1>8. ASSUME NEW r \in Runners, Succeed(r) PROVE RunnerInv'
  <2>1. job'.attempts = job.attempts
        /\ job'.status \in {job.status, "succeeded"}
    BY <1>2, <1>8, EndedStatus DEF Succeed
  <2> QED
    BY <1>1, <1>2, <1>a, <1>8, <2>1 DEF Succeed
<1>9. ASSUME NEW r \in Runners, FailRead(r) PROVE RunnerInv'
  BY <1>1, <1>2, <1>a, <1>9 DEF FailRead
<1>10. ASSUME NEW r \in Runners, FailWrite(r) PROVE RunnerInv'
  <2>1. /\ job'.attempts = job.attempts
        /\ job'.status = "queued" => job.status = "queued"
        /\ job'.status = "dead_letter" =>
             job.status = "dead_letter" \/ runner[r].attempts >= MaxAttempts
    BY <1>2, <1>10, FailedStatusOf DEF FailWrite
  <2> QED
    BY <1>1, <1>2, <1>a, <1>10, <2>1 DEF FailWrite
<1>11. ASSUME NEW r \in Runners, ResetForRetry(r) PROVE RunnerInv'
  <2>1. job'.attempts = job.attempts /\ job'.status = "queued"
    BY <1>2, <1>11, ResetQueues DEF ResetForRetry
  <2>2. \A s \in Runners \ {r} : ~Busy(s)
    BY <1>11 DEF ResetForRetry
  <2> QED
    BY <1>1, <1>2, <1>a, <1>11, <2>1, <2>2 DEF ResetForRetry
<1>12. ASSUME NEW r \in Runners, RunnerLost(r) PROVE RunnerInv'
  BY <1>1, <1>2, <1>a, <1>12 DEF RunnerLost
<1>13. ASSUME NEW c \in Cancellers, CancelRead(c) PROVE RunnerInv'
  BY <1>1, <1>13 DEF CancelRead
<1>14. ASSUME NEW c \in Cancellers, CancelMark(c) PROVE RunnerInv'
  <2>1. job'.attempts = job.attempts
        /\ job'.status \in {job.status, "cancelled"}
    BY <1>2, <1>14, EndedStatus DEF CancelMark
  <2> QED
    BY <1>1, <1>2, <1>14, <2>1 DEF CancelMark
<1>15. CASE UNCHANGED vars
  BY <1>1, <1>15 DEF vars
<1> QED
  BY <1>3, <1>4, <1>5, <1>6, <1>7, <1>8, <1>9, <1>10, <1>11, <1>12, <1>13,
     <1>14, <1>15 DEF Next, Continue

LEMMA RunnerInvInitially == Init => RunnerInv
  BY TypeInitially, JobAssumption
  DEF Init, RunnerInv, Busy, NoEarlyDeadLetter, Enqueued, Absent

(* Never two runners execute the job at once: claim_for_run moves the      *)
(* document to running only from queued, and nothing queues a job that a   *)
(* runner has but that runner itself once it is done with it, so a         *)
(* second claim of a claimed job finds nothing.                            *)
THEOREM RunnersExcludeEachOther == Spec => []OneRunnerAtWork
<1>1. RunnerInv => OneRunnerAtWork
  BY DEF RunnerInv, OneRunnerAtWork, Busy, Working
<1> QED
  BY <1>1, RunnerInvInitially, RunnerInvPreserved, PTL DEF Spec

(* A job is dead-lettered only after max_attempts executions: mark_failed  *)
(* compares the document's attempt count, which each claim raises by one.  *)
THEOREM DeadLettersWereTried == Spec => []NoEarlyDeadLetter
<1>1. RunnerInv => NoEarlyDeadLetter
  BY DEF RunnerInv
<1> QED
  BY <1>1, RunnerInvInitially, RunnerInvPreserved, PTL DEF Spec

-----------------------------------------------------------------------------
(* A runner that has the job to itself.                                    *)
Lone ==
    /\ Uncancelled
    /\ \A r, s \in Runners : ~At(r, "idle") /\ ~At(s, "idle") => r = s

(* Nobody races with the only runner of a job that nobody cancels: the     *)
(* handler runs at most max_attempts times.                                *)
LoneRunnerIsBounded == Lone => executions <= MaxAttempts

(* Until the only runner begins the job waits as it was enqueued; from     *)
(* then on the count it reads is the document's, the document counts every *)
(* execution, and an execution begins only while the count is too small.   *)
LoneRunner(r) ==
    /\ runner[r].step \in {"look", "read", "claim"} =>
          job.status = "queued" /\ job.attempts < MaxAttempts
    /\ runner[r].step \in {"work", "succeed", "read_attempts", "fail"} =>
          job.status = "running"
    /\ runner[r].step \in {"claim", "fail"} =>
          runner[r].attempts = job.attempts
    /\ At(r, "reset") => job.attempts < MaxAttempts

LoneInv ==
    Lone =>
      /\ executions = job.attempts
      /\ (\A r \in Runners : At(r, "idle")) =>
            job.status = "queued" /\ job.attempts = 0
      /\ \A r \in Runners : LoneRunner(r)

LEMMA LonePreserved == TypeOK /\ LoneInv /\ [Next]_vars => LoneInv'
<1> SUFFICES ASSUME TypeOK, LoneInv, [Next]_vars, Lone'
             PROVE  /\ executions' = job'.attempts
                    /\ (\A r \in Runners : At(r, "idle")') =>
                          job'.status = "queued" /\ job'.attempts = 0
                    /\ \A r \in Runners : LoneRunner(r)'
  BY DEF LoneInv
<1>1. /\ job \in Document /\ job.attempts \in Nat /\ MaxAttempts \in Nat
      /\ MaxAttempts > 0 /\ job.attempts \in 0..MaxAttempts
      /\ job.status \in Status
      /\ runner \in [Runners -> [step: RunnerSteps, attempts: 0..MaxAttempts]]
      /\ cancelling \in [Cancellers -> {"idle", "mark", "done"}]
      /\ executions \in Nat
  BY JobAssumption DEF TypeOK, Document
<1>c. ASSUME NEW c \in Cancellers, CancelRead(c) \/ CancelMark(c)
      PROVE  FALSE
  <2>1. cancelling'[c] # "idle"
    BY <1>1, <1>c DEF CancelRead, CancelMark
  <2> QED
    BY <2>1 DEF Lone, Uncancelled
<1>k. CASE UNCHANGED vars
  BY <1>k DEF vars, LoneInv, Lone, Uncancelled, At, LoneRunner
<1>r. ASSUME NEW r \in Runners, Schedule(r) \/ Continue(r) \/ RunnerLost(r)
      PROVE  /\ executions' = job'.attempts
             /\ (\A s \in Runners : At(s, "idle")') =>
                   job'.status = "queued" /\ job'.attempts = 0
             /\ \A s \in Runners : LoneRunner(s)'
  <2>1. /\ runner'[r].step # "idle" /\ UNCHANGED cancelling
        /\ \A s \in Runners \ {r} : runner'[s] = runner[s]
    <3> USE DEF At, Go
    <3>1. CASE Schedule(r) \/ Look(r) \/ ResetForRetry(r) \/ RunnerLost(r)
      BY <1>1, <3>1 DEF Schedule, Look, ResetForRetry, RunnerLost
    <3>2. CASE ClaimRead(r)
      BY <1>1, <3>2 DEF ClaimRead
    <3>3. CASE Claim(r) \/ HandlerEnds(r)
      BY <1>1, <3>3 DEF Claim, HandlerEnds
    <3>4. CASE Succeed(r) \/ FailWrite(r)
      BY <1>1, <3>4 DEF Succeed, FailWrite
    <3>5. CASE FailRead(r)
      BY <1>1, <3>5 DEF FailRead
    <3> QED
      BY <1>r, <3>1, <3>2, <3>3, <3>4, <3>5 DEF Continue
  <2>2. \A s \in Runners \ {r} : At(s, "idle") /\ At(s, "idle")'
    BY <2>1 DEF Lone, At
  <2>3. Lone
    BY <2>1, <2>2 DEF Lone, Uncancelled, At
  <2>4. /\ executions = job.attempts /\ LoneRunner(r)
        /\ At(r, "idle") => job.status = "queued" /\ job.attempts = 0
    BY <2>2, <2>3 DEF LoneInv
  <2>5. \A s \in Runners \ {r} : LoneRunner(s)'
    BY <2>2 DEF LoneRunner, At
  <2> SUFFICES executions' = job'.attempts /\ LoneRunner(r)'
    BY <2>1, <2>5 DEF At
  <2> USE DEF LoneRunner, At, Go
  <2>6. CASE Schedule(r)
    BY <1>1, <2>4, <2>6 DEF Schedule
  <2>7. CASE Look(r)
    BY <1>1, <2>4, <2>7 DEF Look
  <2>8. CASE ClaimRead(r)
    BY <1>1, <2>4, <2>8 DEF ClaimRead
  <2>9. CASE Claim(r)
    <3>1. /\ job.status = "queued" /\ job.attempts < MaxAttempts
          /\ runner[r].attempts = job.attempts
      BY <2>4, <2>9 DEF Claim
    <3>2. /\ job' = [job EXCEPT !.status = "running",
                                !.attempts = job.attempts + 1]
          /\ executions' = executions + 1
          /\ runner' = [runner EXCEPT ![r].step = "work"]
      BY <1>1, <2>9, <3>1 DEF Claim, TakenToRun, Runnable, OneMore
    <3>3. job'.attempts = job.attempts + 1 /\ job'.status = "running"
      BY <1>1, <3>2 DEF Document
    <3> QED
      BY <1>1, <2>4, <3>2, <3>3
  <2>10. CASE HandlerEnds(r)
    BY <1>1, <2>4, <2>10 DEF HandlerEnds
  <2>11. CASE Succeed(r)
    <3>1. /\ job' = job \/ runner'[r].step = "done"
          /\ job'.attempts = job.attempts
      BY <1>1, <2>11, EndedStatus DEF Succeed
    <3> QED
      BY <1>1, <2>4, <2>11, <3>1 DEF Succeed
  <2>12. CASE FailRead(r)
    <3>1. runner' = [runner EXCEPT ![r].step = "fail",
                                   ![r].attempts = job.attempts]
      BY <2>4, <2>12 DEF FailRead, Open, Terminal
    <3> QED
      BY <1>1, <2>4, <2>12, <3>1 DEF FailRead
  <2>13. CASE FailWrite(r)
    <3>1. job.status = "running" /\ runner[r].attempts = job.attempts
      BY <2>4, <2>13 DEF FailWrite
    <3>2. /\ job'.attempts = job.attempts
          /\ job'.status = FailedStatus(job.attempts)
      BY <1>1, <2>13, <3>1
         DEF FailWrite, Failed, Ended, Open, Terminal, Document
    <3>3. job.attempts >= MaxAttempts => job'.status = "dead_letter"
      BY <3>2 DEF FailedStatus
    <3> QED
      BY <1>1, <2>4, <2>13, <3>2, <3>3 DEF FailWrite
  <2>14. CASE ResetForRetry(r)
    <3>1. job'.attempts = job.attempts /\ job'.status = "queued"
      BY <1>1, <2>14, ResetQueues DEF ResetForRetry
    <3> QED
      BY <1>1, <2>4, <2>14, <3>1 DEF ResetForRetry
  <2>15. CASE RunnerLost(r)
    BY <1>1, <2>4, <2>15 DEF RunnerLost
  <2> QED
    BY <1>r, <2>6, <2>7, <2>8, <2>9, <2>10, <2>11, <2>12, <2>13, <2>14, <2>15
       DEF Continue
<1> QED
  BY <1>c, <1>k, <1>r DEF Next

LEMMA LoneInitially == Init => LoneInv
  BY JobAssumption
  DEF Init, LoneInv, LoneRunner, At, Enqueued, Absent

(* A runner that is alone with its job executes it max_attempts times at   *)
(* most, whatever the handler or the store does and wherever it dies: what *)
(* takes a job beyond its attempts is only a second runner or a            *)
(* cancellation that its first runner undoes.                              *)
THEOREM LoneRunnersStopInTime == Spec => []LoneRunnerIsBounded
<1>1. TypeOK /\ LoneInv => LoneRunnerIsBounded
  BY JobAssumption DEF TypeOK, LoneInv, LoneRunnerIsBounded, Document
<1>2. Spec => []LoneInv
  BY LoneInitially, LonePreserved, TypesAreKept, PTL DEF Spec
<1> QED
  BY <1>1, <1>2, TypesAreKept, PTL
====
