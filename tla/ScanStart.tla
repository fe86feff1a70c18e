---- MODULE ScanStart ----
(***************************************************************************)
(* POST /v2/scanner/scan: one user's dashboard document of one branch of   *)
(* one repository (src/api/routes/v2/scanner.py), the durable jobs that    *)
(* the commits of the branch stand for and the workflows that scan for     *)
(* them.  A request awaits five times: between its steps other requests    *)
(* of the same user run, and the Temporal worker, a process of its own,    *)
(* writes the same dashboard.  The dashboard's thirty seconds of freshness *)
(* are a choice of Look.  A pause has no action: its flag is a variable of *)
(* the API's process, which the worker never reads.                        *)
(***************************************************************************)
EXTENDS Integers, FiniteSets

CONSTANTS
    Handlers,      \* requests of the user that are served at the same time
    Commits,       \* commits the branch can point to
    NoCommit,      \* a tip that could not be resolved, an index of nothing
    MaxMoves,      \* bound: pushes to the branch and legacy scans
    MaxFaults,     \* bound: failures of GitHub, Temporal and the scanner
    MaxRequests,   \* bound: requests
    MaxAttempts    \* attempts of the scanning activity (ACTIVITY_RETRY)

ASSUME ScanStartAssumption ==
    {MaxMoves, MaxFaults, MaxRequests, MaxAttempts} \subseteq Nat

VARIABLES
    tip,           \* the commit the branch points to
    legacy,        \* scan_runs: the commit of the last scan, and whether
                   \* symbols of it wait for enrichment
    jobs,          \* durable_jobs, by commit and phase2_only
    dashboard,     \* scanner_jobs: the phases the user is shown
    requests,      \* the requests, by handler
    scans,         \* the workflows, by job
    index,         \* the commit the graph was last built from
    moves, faults, served

vars == <<tip, legacy, jobs, dashboard, requests, scans, index, moves, faults,
          served>>

Keys == (Commits \cup {NoCommit}) \X BOOLEAN

Terminal == {"succeeded", "dead_letter", "cancelled"}

Phases == {"not_started", "pending", "running", "complete", "failed",
           "cancelled"}

Job == [status: {"none", "queued", "running", "failed"} \cup Terminal,
        workflow: BOOLEAN]

NoRequest ==
    [pc |-> "idle", key |-> <<NoCommit, FALSE>>, created |-> FALSE,
     seen |-> [status |-> "none", workflow |-> FALSE], reserved |-> FALSE]

Running == {"mark", "phase1", "phase2", "end"}

TypeOK ==
    /\ tip \in Commits /\ index \in Commits \cup {NoCommit}
    /\ legacy \in [sha: Commits \cup {NoCommit}, pending: BOOLEAN]
    /\ jobs \in [Keys -> Job]
    /\ dashboard \in [phase1: Phases, phase2: Phases]
    /\ \A h \in Handlers : /\ requests[h].key \in Keys
                           /\ requests[h].seen \in Job
    /\ scans \in [Keys -> [pc: {"none", "done"} \cup Running,
                           tries: 0..MaxAttempts, started: Nat,
                           cancelled: BOOLEAN]]
    /\ moves \in 0..MaxMoves /\ faults \in 0..MaxFaults
    /\ served \in 0..MaxRequests

Init ==
    /\ tip \in Commits /\ index = NoCommit
    /\ legacy = [sha |-> NoCommit, pending |-> FALSE]
    /\ jobs = [k \in Keys |-> [status |-> "none", workflow |-> FALSE]]
    /\ dashboard = [phase1 |-> "not_started", phase2 |-> "not_started"]
    /\ requests = [h \in Handlers |-> NoRequest]
    /\ scans = [k \in Keys |-> [pc |-> "none", tries |-> 0, started |-> 0,
                             cancelled |-> FALSE]]
    /\ moves = 0 /\ faults = 0 /\ served = 0

Show(p1, p2) == dashboard' = [phase1 |-> p1, phase2 |-> p2]

Finish(h) == requests' = [requests EXCEPT ![h] = NoRequest]

Fault == /\ faults < MaxFaults /\ faults' = faults + 1

-----------------------------------------------------------------------------
(* The world: a push, also a forced one back to an older commit, and the   *)
(* nightly runner of the old scanner, the only writer of scan_runs.        *)
Push(c) ==
    /\ moves < MaxMoves /\ c # tip
    /\ tip' = c /\ moves' = moves + 1
    /\ UNCHANGED <<legacy, jobs, dashboard, requests, scans, index, faults,
                   served>>

LegacyScan(pending) ==
    /\ moves < MaxMoves /\ moves' = moves + 1
    /\ legacy' = [sha |-> tip, pending |-> pending]
    /\ UNCHANGED <<tip, jobs, dashboard, requests, scans, index, faults,
                   served>>

-----------------------------------------------------------------------------
(* start_scan_v2, up to its first await.  A dashboard that says running is *)
(* the end of the request only while it is fresh.                          *)
Look(h) ==
    /\ requests[h].pc = "idle" /\ served < MaxRequests
    /\ served' = served + 1
    /\ \/ requests' = [requests EXCEPT ![h].pc = "inspect"]
       \/ dashboard.phase1 = "running" /\ UNCHANGED requests
    /\ UNCHANGED <<tip, legacy, jobs, dashboard, scans, index, moves, faults>>

(* _can_reuse_index: whether the old scanner's last run already did this   *)
(* commit, wholly or all but its enrichment.                               *)
WhollyReusable(sha) == sha # NoCommit /\ legacy.sha = sha /\ ~legacy.pending

Phase2Only(sha) == sha # NoCommit /\ legacy.sha = sha /\ legacy.pending

(* The tip is read from GitHub; _get_branch_tip_sha swallows every failure *)
(* and answers None, so the handler's own except clause never runs.        *)
Inspect(h) ==
    /\ requests[h].pc = "inspect"
    /\ \E sha \in {tip, NoCommit} :
         /\ IF sha = NoCommit THEN Fault ELSE UNCHANGED faults
         /\ IF WhollyReusable(sha)
            THEN Finish(h) /\ Show("complete", "complete")
            ELSE /\ requests' = [requests EXCEPT
                       ![h].pc = "enqueue", ![h].key = <<sha, Phase2Only(sha)>>]
                 /\ UNCHANGED dashboard
    /\ UNCHANGED <<tip, legacy, jobs, scans, index, moves, served>>

(* enqueue: a new document, or the one this user, branch, commit and kind  *)
(* of scan already have, whatever became of it.                            *)
Enqueue(h, pat) ==
    LET r == requests[h]
        new == jobs[r.key].status = "none"
        job == IF new THEN [status |-> "queued", workflow |-> FALSE]
               ELSE jobs[r.key] IN
    /\ r.pc = "enqueue"
    /\ jobs' = [jobs EXCEPT ![r.key] = job]
    /\ requests' = [requests EXCEPT
          ![h].pc = IF pat THEN "credential" ELSE "reserve",
          ![h].created = new, ![h].seen = job]
    /\ UNCHANGED <<tip, legacy, dashboard, scans, index, moves, faults, served>>

(* mark_failed: a job that never ran has attempts left, so it is "failed", *)
(* which is not terminal.                                                  *)
MarkedFailed(j) == IF j.status \in Terminal THEN j ELSE [j EXCEPT !.status = "failed"]

(* store_scanner_pat and update_payload; when they fail the job does.      *)
StoreCredential(h) ==
    LET k == requests[h].key IN
    /\ requests[h].pc = "credential"
    /\ \/ /\ requests' = [requests EXCEPT ![h].pc = "reserve",
                                          ![h].seen = jobs[k]]
          /\ UNCHANGED <<jobs, faults>>
       \/ /\ Fault /\ Finish(h)
          /\ jobs' = [jobs EXCEPT ![k] = MarkedFailed(@)]
    /\ UNCHANGED <<tip, legacy, dashboard, scans, index, moves, served>>

(* Mutant: reserve_workflow_start does not look at the workflow id. *)
ReserveAny(h) ==
    LET r == requests[h]
        should == r.created \/ (r.seen.status = "queued" /\ ~r.seen.workflow)
        free == jobs[r.key].status = "queued" IN
    /\ r.pc = "reserve"
    /\ jobs' = IF should /\ free THEN [jobs EXCEPT ![r.key].workflow = TRUE]
               ELSE jobs
    /\ requests' = [requests EXCEPT ![h].pc = "show",
          ![h].seen = IF should THEN jobs'[r.key] ELSE @,
          ![h].reserved = should /\ free]
    /\ UNCHANGED <<tip, legacy, dashboard, scans, index, moves, faults, served>>

(* should_start, reserve_workflow_start and the job read after it.         *)
Reserve(h) ==
    LET r == requests[h]
        should == r.created \/ (r.seen.status = "queued" /\ ~r.seen.workflow)
        free == jobs[r.key].status = "queued" /\ ~jobs[r.key].workflow IN
    /\ r.pc = "reserve"
    /\ jobs' = IF should /\ free THEN [jobs EXCEPT ![r.key].workflow = TRUE]
               ELSE jobs
    /\ requests' = [requests EXCEPT ![h].pc = "show",
          ![h].seen = IF should THEN jobs'[r.key] ELSE @,
          ![h].reserved = should /\ free]
    /\ UNCHANGED <<tip, legacy, dashboard, scans, index, moves, faults, served>>

(* _scanner_phase_status_from_durable. *)
ShownFor(status, phase2Only) ==
    LET word == IF status \in {"failed", "dead_letter"} THEN "failed"
                ELSE IF status = "cancelled" THEN "cancelled"
                ELSE "running" IN
    IF status = "succeeded" THEN <<"complete", "complete">>
    ELSE IF phase2Only THEN <<"complete", word>> ELSE <<word, "pending">>

(* The dashboard is written from the job as it was read, which may be some *)
(* time ago; without a reservation the request ends here.                  *)
ShowJob(h) ==
    LET r == requests[h]
        shown == ShownFor(r.seen.status, r.key[2]) IN
    /\ r.pc = "show"
    /\ Show(shown[1], shown[2])
    /\ IF r.reserved THEN requests' = [requests EXCEPT ![h].pc = "launch"]
                     ELSE Finish(h)
    /\ UNCHANGED <<tip, legacy, jobs, scans, index, moves, faults, served>>

(* start_job_workflow. *)
Launch(h) ==
    /\ requests[h].pc = "launch"
    /\ Finish(h)
    /\ scans' = [scans EXCEPT ![requests[h].key].pc = "mark",
                              ![requests[h].key].started = @ + 1]
    /\ UNCHANGED <<tip, legacy, jobs, dashboard, index, moves, faults, served>>

LaunchFails(h) ==
    /\ requests[h].pc = "launch" /\ Fault
    /\ jobs' = [jobs EXCEPT ![requests[h].key] = MarkedFailed(@)]
    /\ requests' = [requests EXCEPT ![h].pc = "fail"]
    /\ UNCHANGED <<tip, legacy, dashboard, scans, index, moves, served>>

ShowFailure(h) ==
    LET shown == ShownFor("failed", requests[h].key[2]) IN
    /\ requests[h].pc = "fail"
    /\ Show(shown[1], shown[2]) /\ Finish(h)
    /\ UNCHANGED <<tip, legacy, jobs, scans, index, moves, faults, served>>

-----------------------------------------------------------------------------
(* POST /v2/jobs/{job_id}/cancel on a scan: the workflow, the job, the     *)
(* dashboard, in this order.  The activity sends no heartbeats, so the     *)
(* scan itself goes on.                                                    *)
CancelWorkflow(h, k) ==
    /\ requests[h].pc = "idle" /\ served < MaxRequests
    /\ jobs[k].status \in {"queued", "running"}
    /\ served' = served + 1
    /\ scans' = [scans EXCEPT
          ![k].cancelled = jobs[k].workflow /\ scans[k].pc \in Running]
    /\ requests' = [requests EXCEPT ![h].pc = "mark cancelled", ![h].key = k]
    /\ UNCHANGED <<tip, legacy, jobs, dashboard, index, moves, faults>>

MarkCancelled(h) ==
    LET k == requests[h].key IN
    /\ requests[h].pc = "mark cancelled"
    /\ jobs' = [jobs EXCEPT ![k].status = IF @ \in Terminal THEN @ ELSE "cancelled"]
    /\ requests' = [requests EXCEPT ![h].pc = "show cancelled"]
    /\ UNCHANGED <<tip, legacy, dashboard, scans, index, moves, faults, served>>

(* _mark_scanner_job_cancelled. *)
ShowCancelled(h) ==
    LET Stopped(p) == IF p = "running" THEN "cancelled" ELSE p IN
    /\ requests[h].pc = "show cancelled"
    /\ Show(Stopped(dashboard.phase1), Stopped(dashboard.phase2))
    /\ Finish(h)
    /\ UNCHANGED <<tip, legacy, jobs, scans, index, moves, faults, served>>

-----------------------------------------------------------------------------
(* The workflow: mark_running, the scanning activity, the final mark.      *)
MarkRunning(k) ==
    /\ scans[k].pc = "mark" /\ ~scans[k].cancelled
    /\ jobs' = [jobs EXCEPT ![k].status = IF @ \in Terminal THEN @ ELSE "running"]
    /\ scans' = [scans EXCEPT ![k].pc = IF k[2] THEN "phase2" ELSE "phase1"]
    /\ UNCHANGED <<tip, legacy, dashboard, requests, index, moves, faults,
                   served>>

(* _progress writes the dashboard while a phase runs. *)
Progress(k) ==
    /\ scans[k].pc \in {"phase1", "phase2"}
    /\ IF scans[k].pc = "phase1" THEN Show("running", "pending")
                                 ELSE Show("complete", "running")
    /\ UNCHANGED <<tip, legacy, jobs, requests, scans, index, moves, faults,
                   served>>

(* Phase 1 clones the branch as it is by then, not the job's commit.       *)
Phase1(k) ==
    /\ scans[k].pc = "phase1"
    /\ scans' = [scans EXCEPT ![k].pc = "phase2"]
    /\ index' = tip /\ Show("complete", "running")
    /\ UNCHANGED <<tip, legacy, jobs, requests, moves, faults, served>>

Phase2(k) ==
    /\ scans[k].pc = "phase2"
    /\ scans' = [scans EXCEPT ![k].pc = "end"]
    /\ Show("complete", "complete")
    /\ UNCHANGED <<tip, legacy, jobs, requests, index, moves, faults, served>>

(* A phase that fails writes so and returns: only the dashboard tells.     *)
PhaseFails(k) ==
    /\ scans[k].pc \in {"phase1", "phase2"} /\ Fault
    /\ IF scans[k].pc = "phase1" THEN Show("failed", "pending")
                                 ELSE Show("complete", "failed")
    /\ scans' = [scans EXCEPT ![k].pc = "end"]
    /\ UNCHANGED <<tip, legacy, jobs, requests, index, moves, served>>

(* resolve_scanner_pat fails: the activity says so and raises. *)
CredentialLost(k) ==
    /\ scans[k].pc = "phase1" /\ Fault
    /\ Show("failed", dashboard.phase2)
    /\ scans' = [scans EXCEPT ![k].pc = "end"]
    /\ UNCHANGED <<tip, legacy, jobs, requests, index, moves, served>>

FailureShown(k) ==
    \/ dashboard.phase2 = "failed"
    \/ ~k[2] /\ dashboard.phase1 = "failed"

(* _run_scan_job reads the dashboard back: a failure raises, and the       *)
(* activity runs again while it has attempts.                              *)
Retry(k) ==
    /\ scans[k].pc = "end" /\ FailureShown(k) /\ ~scans[k].cancelled
    /\ scans[k].tries + 1 < MaxAttempts
    /\ scans' = [scans EXCEPT
          ![k].pc = IF k[2] THEN "phase2" ELSE "phase1", ![k].tries = @ + 1]
    /\ UNCHANGED <<tip, legacy, jobs, dashboard, requests, index, moves,
                   faults, served>>

Marked(k, status) ==
    jobs' = [jobs EXCEPT ![k].status = IF @ \in Terminal THEN @ ELSE status]

GiveUp(k) ==
    /\ scans[k].pc = "end" /\ FailureShown(k) /\ ~scans[k].cancelled
    /\ scans[k].tries + 1 >= MaxAttempts
    /\ scans' = [scans EXCEPT ![k].pc = "done"]
    /\ Marked(k, "dead_letter")
    /\ UNCHANGED <<tip, legacy, dashboard, requests, index, moves, faults,
                   served>>

Succeed(k) ==
    /\ scans[k].pc = "end" /\ ~FailureShown(k) /\ ~scans[k].cancelled
    /\ scans' = [scans EXCEPT ![k].pc = "done"]
    /\ Marked(k, "succeeded")
    /\ UNCHANGED <<tip, legacy, dashboard, requests, index, moves, faults,
                   served>>

(* A cancelled workflow marks nothing more. *)
Stop(k) ==
    /\ scans[k].pc \in {"mark", "end"} /\ scans[k].cancelled
    /\ scans' = [scans EXCEPT ![k].pc = "done"]
    /\ UNCHANGED <<tip, legacy, jobs, dashboard, requests, index, moves,
                   faults, served>>

-----------------------------------------------------------------------------
Request(h) ==
    \/ Look(h) \/ Inspect(h) \/ \E pat \in BOOLEAN : Enqueue(h, pat)
    \/ StoreCredential(h) \/ Reserve(h) \/ ShowJob(h)
    \/ Launch(h) \/ LaunchFails(h) \/ ShowFailure(h)
    \/ \E k \in Keys : CancelWorkflow(h, k)
    \/ MarkCancelled(h) \/ ShowCancelled(h)

Scan(k) ==
    \/ MarkRunning(k) \/ Progress(k) \/ Phase1(k) \/ Phase2(k)
    \/ PhaseFails(k) \/ CredentialLost(k) \/ Retry(k) \/ GiveUp(k) \/ Succeed(k) \/ Stop(k)

Next ==
    \/ \E c \in Commits : Push(c)
    \/ \E pending \in BOOLEAN : LegacyScan(pending)
    \/ \E h \in Handlers : Request(h)
    \/ \E k \in Keys : Scan(k)

Spec == Init /\ [][Next]_vars

-----------------------------------------------------------------------------
(* However many requests ask for the same commit at once, its job's        *)
(* workflow is started once.                                               *)
OneScanPerJob == \A k \in Keys : scans[k].started <= 1

(* A job that is waiting to run is in somebody's hands: a request that is  *)
(* still going to start its workflow, or the workflow.  Otherwise the user *)
(* polls a job nobody will ever run.                                       *)
Cares(h, k) ==
    /\ requests[h].key = k
    /\ requests[h].pc \in
         {"credential", "reserve", "show", "launch", "mark cancelled"}

QueuedIsOwned ==
    \A k \in Keys :
        jobs[k].status = "queued" =>
            \/ scans[k].pc = "mark" /\ ~scans[k].cancelled
            \/ \E h \in Handlers : Cares(h, k)

====
