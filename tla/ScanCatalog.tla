---- MODULE ScanCatalog ----
(***************************************************************************)
(* Who may see, query and star the index of a repository, and what is kept *)
(* of it on disk: the catalog half of src/api/routes/scanner.py over       *)
(* src/scanner/code_store.py.  A scan writes its user's dashboard document *)
(* from a thread or from the worker's process; every other operation here  *)
(* is a handler without an await, so the event loop runs it whole: the     *)
(* clean-up of the clones is two steps only because scans go on during it. *)
(***************************************************************************)
EXTENDS Integers, FiniteSets

CONSTANTS
    Users, Repos,
    MaxScans,      \* bound: dashboard scans and scans of the nightly runner
    MaxRequests    \* bound: changes of sharing and stars, clean-ups

VARIABLES
    dashboards,    \* scanner_jobs: the phases, by user and repository
    runs,          \* scan_runs: status of the nightly runner's last scan
    share,         \* scanner_index_visibility, "unset" without a document
    stars,         \* scanner_community_stars
    scans,         \* the dashboard scans under way: where each is
    clones,        \* repositories with a clone under /tmp/xmem_repos_v1
    cleaner,       \* cleanup_clones: what it found tracked
    started, asked

vars == <<dashboards, runs, share, stars, scans, clones, cleaner, started,
          asked>>

Index == Users \X Repos

Phase == {"not_started", "pending", "running", "failed", "complete", "paused"}

Nothing == [phase1 |-> "none", phase2 |-> "none"]

Busy == {"clone", "phase1", "phase2"}

TypeOK ==
    /\ dashboards \in [Index -> [phase1: Phase, phase2: Phase] \cup {Nothing}]
    /\ runs \in [Repos -> {"none", "running", "completed", "failed"}]
    /\ share \in [Repos -> {"unset", "public", "private"}]
    /\ stars \subseteq Index
    /\ scans \in [Index -> Busy \cup {"none"}]
    /\ clones \subseteq Repos
    /\ cleaner \in [busy: BOOLEAN, tracked: SUBSET Repos]
    /\ started \in 0..MaxScans /\ asked \in 0..MaxRequests

(* A clone may be left by a scan whose documents are gone. *)
Init ==
    /\ dashboards = [i \in Index |-> Nothing]
    /\ runs = [r \in Repos |-> "none"]
    /\ share = [r \in Repos |-> "unset"]
    /\ stars = {} /\ clones \in SUBSET Repos
    /\ scans = [i \in Index |-> "none"]
    /\ cleaner = [busy |-> FALSE, tracked |-> {}]
    /\ started = 0 /\ asked = 0

Started == /\ started < MaxScans /\ started' = started + 1

(* A handler runs when no other one holds the event loop. *)
Asked == /\ ~cleaner.busy /\ asked < MaxRequests /\ asked' = asked + 1

-----------------------------------------------------------------------------
(* Reading.  get_scanner_index_visibility: shared unless it was set.       *)
Shared(r) == share[r] # "private"

(* _phase_rank, in the order the code lists the words; others count as the *)
(* first.                                                                  *)
Rank(p) == CASE p = "pending" -> 1 [] p = "running" -> 2 [] p = "failed" -> 3
             [] p = "complete" -> 4 [] OTHER -> 0

JobsOf(r) == {u \in Users : dashboards[u, r] # Nothing}

(* _pick_best_scanner_job; the last change decides between equal ones,     *)
(* which show the same phases.                                             *)
Better(d, e) ==
    \/ Rank(d.phase1) > Rank(e.phase1)
    \/ Rank(d.phase1) = Rank(e.phase1) /\ Rank(d.phase2) >= Rank(e.phase2)

Best(r) ==
    dashboards[CHOOSE u \in JobsOf(r) : \A v \in JobsOf(r) :
                 Better(dashboards[u, r], dashboards[v, r]), r]

(* Mutant: the best job of all users counts as the user's own. *)
SnapshotOfAll(u, r) ==
    IF JobsOf(r) # {}
    THEN [source |-> "user_job", phase1 |-> Best(r).phase1]
    ELSE [source |-> "none", phase1 |-> "not_started"]

(* get_catalog_repo_snapshot: the user's own job, else the best of all,    *)
(* else the nightly runner's.                                              *)
Snapshot(u, r) ==
    IF dashboards[u, r] # Nothing
    THEN [source |-> "user_job", phase1 |-> dashboards[u, r].phase1]
    ELSE IF JobsOf(r) # {}
    THEN [source |-> "catalog", phase1 |-> Best(r).phase1]
    ELSE IF runs[r] = "completed"
    THEN [source |-> "scan_runs", phase1 |-> "complete"]
    ELSE [source |-> "none", phase1 |-> "not_started"]

(* _scanner_chat_allowed. *)
ChatAllowed(u, r) ==
    LET snap == Snapshot(u, r) IN
    /\ snap.phase1 = "complete"
    /\ Shared(r) \/ snap.source = "user_job"

(* user_has_completed_scanner_job. *)
Completed(u, r) == dashboards[u, r].phase1 = "complete"

(* list_community_catalog_page: the nightly runner's completed scans, and  *)
(* the repositories somebody shared on purpose and completed; not those    *)
(* that were made private.                                                 *)
Catalog ==
    {r \in Repos :
        /\ \/ runs[r] = "completed"
           \/ share[r] = "public" /\ \E u \in Users : Completed(u, r)
        /\ Shared(r)}

(* cleanup_clones: what one of the three collections still names.          *)
Tracked == {r \in Repos : JobsOf(r) # {} \/ runs[r] # "none"}

-----------------------------------------------------------------------------
(* Mutant: the dashboard is written once the scan has something to show. *)
StartScanLater(u, r) ==
    /\ ~cleaner.busy /\ scans[u, r] = "none" /\ Started
    /\ scans' = [scans EXCEPT ![<<u, r>>] = "clone"]
    /\ UNCHANGED <<dashboards, runs, share, stars, clones, cleaner, asked>>

(* start_scan: the dashboard is written before the scan begins.            *)
StartScan(u, r) ==
    /\ ~cleaner.busy /\ scans[u, r] = "none" /\ Started
    /\ dashboards' = [dashboards EXCEPT
          ![<<u, r>>] = [phase1 |-> "running", phase2 |-> "pending"]]
    /\ scans' = [scans EXCEPT ![<<u, r>>] = "clone"]
    /\ UNCHANGED <<runs, share, stars, clones, cleaner, asked>>

(* A commit the nightly runner has already done is shown without a scan.   *)
Connect(u, r) ==
    /\ ~cleaner.busy /\ scans[u, r] = "none" /\ Started
    /\ runs[r] = "completed"
    /\ dashboards' = [dashboards EXCEPT
          ![<<u, r>>] = [phase1 |-> "complete", phase2 |-> "complete"]]
    /\ UNCHANGED <<runs, share, stars, scans, clones, cleaner, asked>>

Clone(u, r) ==
    /\ scans[u, r] = "clone"
    /\ scans' = [scans EXCEPT ![<<u, r>>] = "phase1"]
    /\ clones' = clones \cup {r}
    /\ UNCHANGED <<dashboards, runs, share, stars, cleaner, started, asked>>

(* _persist_job after a phase; _cleanup_clone unless the scan was paused.  *)
EndPhase(u, r, result) ==
    LET first == scans[u, r] = "phase1"
        on == first /\ result = "complete" IN
    /\ scans[u, r] \in {"phase1", "phase2"}
    /\ result \in {"complete", "failed", "paused"}
    /\ dashboards' = [dashboards EXCEPT ![<<u, r>>] =
          [phase1 |-> IF first THEN result ELSE "complete",
           phase2 |-> IF on THEN "running"
                      ELSE IF first THEN "pending" ELSE result]]
    /\ scans' = [scans EXCEPT ![<<u, r>>] = IF on THEN "phase2" ELSE "none"]
    /\ clones' = IF on \/ result = "paused" THEN clones ELSE clones \ {r}
    /\ UNCHANGED <<runs, share, stars, cleaner, started, asked>>

(* start_scan, complete_scan and fail_scan of the nightly runner. *)
Nightly(r) ==
    /\ \/ runs[r] # "running" /\ runs' = [runs EXCEPT ![r] = "running"] /\ Started
       \/ /\ runs[r] = "running"
          /\ \E s \in {"completed", "failed"} : runs' = [runs EXCEPT ![r] = s]
          /\ UNCHANGED started
    /\ UNCHANGED <<dashboards, share, stars, scans, clones, cleaner, asked>>

-----------------------------------------------------------------------------
(* set_index_visibility. *)
SetVisibility(u, r, word) ==
    /\ Asked /\ Completed(u, r)
    /\ share' = [share EXCEPT ![r] = word]
    /\ UNCHANGED <<dashboards, runs, stars, scans, clones, cleaner, started>>

(* community_star and set_community_star: one document per user.           *)
MayStar(u, r) == Shared(r) /\ Snapshot(u, r).phase1 = "complete"

Star(u, r, on) ==
    /\ Asked /\ MayStar(u, r)
    /\ stars' = IF on THEN stars \cup {<<u, r>>} ELSE stars \ {<<u, r>>}
    /\ UNCHANGED <<dashboards, runs, share, scans, clones, cleaner, started>>

(* cleanup_clones: the tracked names are read, then the directories are    *)
(* visited one by one.                                                     *)
CleanUp ==
    /\ Asked
    /\ cleaner' = [busy |-> TRUE, tracked |-> Tracked]
    /\ UNCHANGED <<dashboards, runs, share, stars, scans, clones, started>>

RemoveClone(r) ==
    /\ cleaner.busy /\ r \in clones \ cleaner.tracked
    /\ clones' = clones \ {r}
    /\ UNCHANGED <<dashboards, runs, share, stars, scans, cleaner, started,
                   asked>>

CleanedUp ==
    /\ cleaner.busy
    /\ cleaner' = [busy |-> FALSE, tracked |-> {}]
    /\ UNCHANGED <<dashboards, runs, share, stars, scans, clones, started,
                   asked>>

Next ==
    \/ \E u \in Users, r \in Repos :
         \/ StartScan(u, r) \/ Connect(u, r) \/ Clone(u, r)
         \/ \E result \in Phase : EndPhase(u, r, result)
         \/ \E word \in {"public", "private"} : SetVisibility(u, r, word)
         \/ \E on \in BOOLEAN : Star(u, r, on)
    \/ \E r \in Repos : Nightly(r) \/ RemoveClone(r)
    \/ CleanUp \/ CleanedUp

Spec == Init /\ [][Next]_vars

-----------------------------------------------------------------------------
(* Once a repository is private, only users who completed a scan of it     *)
(* themselves may query it, whatever the nightly runner or others did.     *)
PrivateIsForMembers ==
    \A u \in Users, r \in Repos :
        share[r] = "private" /\ ChatAllowed(u, r) => Completed(u, r)

(* The clean-up never takes a clone from under a dashboard scan that is    *)
(* reading it, though scans go on, and clone, while it runs.               *)
CleanupSparesScans ==
    [][\A r \in Repos : RemoveClone(r) =>
          \A u \in Users : scans[u, r] \notin {"phase1", "phase2"}]_vars

====
