---- MODULE CodeProofs ----
(***************************************************************************)
(* Proofs about MCCode: of the start of a scan, for any requests at the    *)
(* same time, commits and failures; of the catalog of what was scanned,    *)
(* for any members and repositories; and of the chat, for any tools and    *)
(* rounds.  The indexes are in IndexProofs.                                *)
(***************************************************************************)
EXTENDS MCCode, Sequences, FiniteSetTheorems, TLAPS

-----------------------------------------------------------------------------
(* The inductive invariant.  That a workflow starts once rests on the      *)
(* reservation in the job's document; that a queued job is never left      *)
(* behind, on what its reader saw of it: a request that read the job       *)
(* queued and without a workflow will reserve it, and one that read        *)
(* anything else may leave, for then somebody else has it.                 *)

RequestSteps == {"idle", "inspect", "enqueue", "credential", "reserve",
                 "show", "launch", "fail", "mark cancelled",
                 "show cancelled"}

RequestType == [pc: RequestSteps, key: Keys, created: BOOLEAN, seen: Job,
                reserved: BOOLEAN]

ScanType == [pc: {"none", "done"} \cup Running, tries: Nat, started: Nat,
             cancelled: BOOLEAN]

Typed ==
    /\ requests \in [Handlers -> RequestType]
    /\ jobs \in [Keys -> Job]
    /\ scans \in [Keys -> ScanType]
    /\ tip \in Commits

(* A request that reserved the start of its job's workflow and has not     *)
(* started it yet, ...                                                     *)
Starting(h) == requests[h].reserved /\ requests[h].pc \in {"show", "launch"}

(* ... one that will try to reserve it, and one that cancels the job.      *)
Willing(r) ==
    /\ r.pc \in {"credential", "reserve"}
    /\ r.created \/ (r.seen.status = "queued" /\ ~r.seen.workflow)

Cancelling(h) == requests[h].pc = "mark cancelled"

(* The workflow id on a job's document says that its start is reserved;    *)
(* nobody takes it off again.                                              *)
ReservedOnce ==
    /\ \A k \in Keys :
         /\ jobs[k].status = "none" => ~jobs[k].workflow
         /\ ~jobs[k].workflow => scans[k].started = 0
         /\ scans[k].started = 0 => scans[k].pc = "none" /\ ~scans[k].cancelled
         /\ scans[k].started <= 1
    /\ \A h \in Handlers :
         /\ requests[h].pc = "launch" => requests[h].reserved
         /\ Starting(h) => /\ jobs[requests[h].key].workflow
                           /\ scans[requests[h].key].started = 0
    /\ \A h, g \in Handlers :
         Starting(h) /\ Starting(g) /\ requests[h].key = requests[g].key
           => h = g

(* Whose turn it is with a queued job: the workflow's or whoever reserved  *)
(* its start, before that a request that will try to, or a canceller.      *)
Owned(k) ==
    \/ /\ jobs[k].workflow
       /\ \/ scans[k].pc = "mark" /\ ~scans[k].cancelled
          \/ \E h \in Handlers : requests[h].key = k /\ Starting(h)
    \/ /\ ~jobs[k].workflow
       /\ \E h \in Handlers : requests[h].key = k /\ Willing(requests[h])
    \/ \E h \in Handlers : requests[h].key = k /\ Cancelling(h)

StartInv ==
    /\ ReservedOnce
    /\ \A k \in Keys : jobs[k].status = "queued" => Owned(k)

-----------------------------------------------------------------------------
(* What does not touch a job leaves it in the hands it is in.              *)

LEMMA StaysOwned ==
    ASSUME Typed, NEW h \in Handlers, NEW k \in Keys, Owned(k),
           \A g \in Handlers \ {h} : requests'[g] = requests[g],
           requests[h].key = k =>
              ~Starting(h) /\ ~Willing(requests[h]) /\ ~Cancelling(h),
           jobs'[k].workflow = jobs[k].workflow,
           (scans[k].pc = "mark" /\ ~scans[k].cancelled) =>
              (scans'[k].pc = "mark" /\ ~scans'[k].cancelled)
    PROVE  Owned(k)'
<1>1. ASSUME NEW g \in Handlers, requests[g].key = k,
             Starting(g) \/ Willing(requests[g]) \/ Cancelling(g)
      PROVE  g # h /\ requests'[g] = requests[g]
  BY <1>1
<1> QED
  BY <1>1 DEF Owned, Starting, Willing, Cancelling

LEMMA StaysReserved ==
    ASSUME Typed, ReservedOnce, NEW h \in Handlers,
           \A g \in Handlers \ {h} : requests'[g] = requests[g],
           ~Starting(h)', requests'[h].pc # "launch",
           \A k \in Keys :
              /\ jobs'[k].workflow = jobs[k].workflow
              /\ jobs'[k].status = "none" => jobs[k].status = "none"
              /\ scans'[k].started = scans[k].started
              /\ scans[k].started = 0 =>
                    scans'[k].pc = "none" /\ ~scans'[k].cancelled
    PROVE  ReservedOnce'
<1>1. \A g \in Handlers :
         Starting(g)' => g # h /\ Starting(g) /\ requests'[g] = requests[g]
  BY DEF Starting
<1>2. \A g \in Handlers : requests[g].key \in Keys
  BY DEF Typed, RequestType
<1>3. \A k \in Keys :
         /\ jobs'[k].status = "none" => ~jobs'[k].workflow
         /\ ~jobs'[k].workflow => scans'[k].started = 0
         /\ scans'[k].started = 0 => scans'[k].pc = "none" /\ ~scans'[k].cancelled
         /\ scans'[k].started <= 1
  BY DEF ReservedOnce
<1>4. \A g \in Handlers :
         /\ requests'[g].pc = "launch" => requests'[g].reserved
         /\ Starting(g)' => /\ jobs'[requests'[g].key].workflow
                            /\ scans'[requests'[g].key].started = 0
  BY <1>1, <1>2 DEF ReservedOnce
<1>5. \A f, g \in Handlers :
         Starting(f)' /\ Starting(g)' /\ requests'[f].key = requests'[g].key
           => f = g
  BY <1>1 DEF ReservedOnce
<1> QED
  BY <1>3, <1>4, <1>5 DEF ReservedOnce

(* The records of a handler, of a job and of a workflow. *)
LEMMA Records ==
    ASSUME Typed
    PROVE  /\ \A h \in Handlers :
                /\ requests[h] \in RequestType /\ requests[h].key \in Keys
                /\ requests[h].pc \in RequestSteps /\ requests[h].seen \in Job
                /\ requests[h].created \in BOOLEAN
                /\ requests[h].reserved \in BOOLEAN
           /\ \A k \in Keys :
                /\ jobs[k] \in Job /\ jobs[k].workflow \in BOOLEAN
                /\ scans[k] \in ScanType /\ scans[k].started \in Nat
                /\ scans[k].tries \in Nat /\ scans[k].cancelled \in BOOLEAN
BY DEF Typed, RequestType, Job, ScanType

LEMMA NoRequestIsOne == NoRequest \in RequestType
BY DEF NoRequest, RequestType, RequestSteps, Job, Keys

-----------------------------------------------------------------------------
(* Requests. *)

(* A request that has nothing to do with its job, before and after. *)
LEMMA ElsewhereKeeps ==
    ASSUME Typed, StartInv, NEW h \in Handlers, UNCHANGED <<jobs, scans, tip>>,
           requests' \in [Handlers -> RequestType],
           \A g \in Handlers \ {h} : requests'[g] = requests[g],
           requests[h].pc \in
               {"idle", "inspect", "enqueue", "fail", "show cancelled"},
           requests'[h].pc \notin {"show", "launch"}
    PROVE  Typed' /\ StartInv'
<1>1. Typed'
  BY DEF Typed
<1>2. ReservedOnce'
  <2>1. ~Starting(h)' /\ requests'[h].pc # "launch"
    BY DEF Starting
  <2> QED
    BY <2>1, StaysReserved DEF StartInv, ReservedOnce
<1>3. ASSUME NEW k \in Keys, jobs'[k].status = "queued"
      PROVE  Owned(k)'
  <2>1. Owned(k)
    BY <1>3 DEF StartInv
  <2>2. ~Starting(h) /\ ~Willing(requests[h]) /\ ~Cancelling(h)
    BY DEF Starting, Willing, Cancelling
  <2> QED
    BY <2>1, <2>2, StaysOwned
<1> QED
  BY <1>1, <1>2, <1>3 DEF StartInv

LEMMA LookInspectShowKeep ==
    ASSUME Typed, StartInv, NEW h \in Handlers,
           Look(h) \/ Inspect(h) \/ ShowFailure(h) \/ ShowCancelled(h)
    PROVE  Typed' /\ StartInv'
<1>1. PICK r \in RequestType : r = requests[h]
  BY Records
<1>2. CASE Look(h)
  <2>1. CASE requests' = [requests EXCEPT ![h].pc = "inspect"]
    <3>1. PICK new : new = [r EXCEPT !.pc = "inspect"]
      OBVIOUS
    <3>2. new \in RequestType /\ new.pc = "inspect"
      BY <3>1 DEF RequestType, RequestSteps
    <3>3. requests' = [requests EXCEPT ![h] = new]
      BY <1>1, <2>1, <3>1 DEF Typed
    <3> QED
      BY <1>2, <3>2, <3>3, ElsewhereKeeps DEF Look, Typed
  <2>2. CASE UNCHANGED requests
    BY <1>2, <2>2, ElsewhereKeeps DEF Look, Typed
  <2> QED
    BY <1>2, <2>1, <2>2 DEF Look
<1>3. CASE Inspect(h)
  <2>1. PICK sha \in {tip, NoCommit} :
           IF WhollyReusable(sha)
           THEN Finish(h)
           ELSE requests' = [requests EXCEPT ![h].pc = "enqueue",
                                   ![h].key = <<sha, Phase2Only(sha)>>]
    BY <1>3 DEF Inspect
  <2>2. tip \in Commits /\ UNCHANGED <<jobs, scans, tip>> /\ r.pc = "inspect"
    BY <1>1, <1>3 DEF Inspect, Typed
  <2>3. <<sha, Phase2Only(sha)>> \in Keys
    BY <2>2 DEF Keys, Phase2Only
  <2>4. CASE WhollyReusable(sha)
    <3>1. requests' = [requests EXCEPT ![h] = NoRequest]
      BY <2>1, <2>4 DEF Finish
    <3> QED
      BY <1>1, <2>2, <3>1, NoRequestIsOne, ElsewhereKeeps DEF Typed, NoRequest
  <2>5. CASE ~WhollyReusable(sha)
    <3>1. PICK new : new = [r EXCEPT !.pc = "enqueue",
                                     !.key = <<sha, Phase2Only(sha)>>]
      OBVIOUS
    <3>2. new \in RequestType /\ new.pc = "enqueue"
      BY <2>3, <3>1 DEF RequestType, RequestSteps
    <3>3. requests' = [requests EXCEPT ![h] = new]
      BY <1>1, <2>1, <2>5, <3>1 DEF Typed
    <3> QED
      BY <1>1, <2>2, <3>2, <3>3, ElsewhereKeeps DEF Typed
  <2> QED
    BY <2>4, <2>5
<1>4. CASE ShowFailure(h) \/ ShowCancelled(h)
  <2>1. /\ requests' = [requests EXCEPT ![h] = NoRequest]
        /\ UNCHANGED <<jobs, scans, tip>>
        /\ requests[h].pc \in {"fail", "show cancelled"}
    BY <1>4 DEF ShowFailure, ShowCancelled, Finish
  <2> QED
    BY <2>1, NoRequestIsOne, ElsewhereKeeps DEF Typed, NoRequest
<1> QED
  BY <1>2, <1>3, <1>4

(* The request that enqueues a job, or finds it queued, is there for it,   *)
(* or somebody else was before.                                            *)
LEMMA EnqueueKeeps ==
    ASSUME Typed, StartInv, NEW h \in Handlers, NEW pat \in BOOLEAN,
           Enqueue(h, pat)
    PROVE  Typed' /\ StartInv'
<1> USE DEF Enqueue
<1>1. PICK r \in RequestType, k \in Keys : r = requests[h] /\ k = r.key
  BY Records
<1>2. PICK new, job :
        /\ new = (jobs[k].status = "none")
        /\ job = IF new THEN [status |-> "queued", workflow |-> FALSE]
                 ELSE jobs[k]
        /\ jobs' = [jobs EXCEPT ![k] = job]
        /\ requests' = [requests EXCEPT
               ![h].pc = IF pat THEN "credential" ELSE "reserve",
               ![h].created = new, ![h].seen = job]
  BY <1>1
<1>3. PICK s \in {"credential", "reserve"} :
        s = IF pat THEN "credential" ELSE "reserve"
  OBVIOUS
<1>4. job \in Job /\ new \in BOOLEAN
  BY <1>2, Records DEF Job
<1>5. PICK then : then = [r EXCEPT !.pc = s, !.created = new, !.seen = job]
  OBVIOUS
<1>6. /\ then \in RequestType /\ then.pc = s /\ then.key = k
      /\ then.created = new /\ then.seen = job
  BY <1>1, <1>3, <1>4, <1>5 DEF RequestType, RequestSteps
<1>7. requests' = [requests EXCEPT ![h] = then]
  BY <1>1, <1>2, <1>3, <1>5 DEF Typed
<1>8. Typed'
  <2>1. jobs' = [jobs EXCEPT ![k] = job] /\ scans' = scans /\ tip' = tip
    BY <1>2
  <2>2. jobs' \in [Keys -> Job]
    BY <1>4, <2>1 DEF Typed
  <2>3. requests' \in [Handlers -> RequestType]
    BY <1>6, <1>7 DEF Typed
  <2> QED
    BY <2>1, <2>2, <2>3 DEF Typed
<1>9. /\ requests'[h] = then /\ r.pc = "enqueue"
      /\ \A g \in Handlers \ {h} : requests'[g] = requests[g]
      /\ jobs'[k] = job /\ \A l \in Keys \ {k} : jobs'[l] = jobs[l]
      /\ scans' = scans
  BY <1>1, <1>2, <1>7 DEF Typed
<1>10. \A l \in Keys : jobs'[l].workflow = jobs[l].workflow
  <2>1. new => jobs[k].workflow = FALSE
    BY <1>2, Records DEF StartInv, ReservedOnce
  <2>2. new => job.workflow = FALSE
    BY <1>2
  <2>3. ~new => job = jobs[k]
    BY <1>2
  <2> QED
    BY <1>9, <2>1, <2>2, <2>3
<1>11. ReservedOnce'
  <2>1. ~Starting(h)' /\ requests'[h].pc # "launch"
    BY <1>3, <1>6, <1>9 DEF Starting
  <2>2. \A l \in Keys : jobs'[l].status = "none" => jobs[l].status = "none"
    BY <1>2, <1>9
  <2>3. ReservedOnce
    BY DEF StartInv
  <2>4. \A l \in Keys : scans[l].started = 0 =>
                       scans'[l].pc = "none" /\ ~scans'[l].cancelled
    BY <1>9, <2>3 DEF ReservedOnce
  <2> QED
    BY <1>9, <1>10, <2>1, <2>2, <2>3, <2>4, StaysReserved
<1>12. ASSUME NEW l \in Keys, jobs'[l].status = "queued"
       PROVE  Owned(l)'
  <2>1. CASE l = k /\ new
    <3>1. job.workflow = FALSE
      BY <1>2, <2>1
    <3>2. Willing(then)
      BY <1>3, <1>6, <2>1 DEF Willing
    <3>3. ~jobs'[k].workflow /\ requests'[h].key = k /\ Willing(requests[h])'
      BY <1>6, <1>9, <3>1, <3>2 DEF Willing
    <3> QED
      BY <2>1, <3>3 DEF Owned
  <2>2. CASE ~(l = k /\ new)
    <3>1. Owned(l)
      BY <1>2, <1>9, <1>12, <2>2 DEF StartInv
    <3>2. ~Starting(h) /\ ~Willing(requests[h]) /\ ~Cancelling(h)
      BY <1>1, <1>9 DEF Starting, Willing, Cancelling
    <3> QED
      BY <1>9, <1>10, <3>1, <3>2, StaysOwned
  <2> QED
    BY <2>1, <2>2
<1> QED
  BY <1>8, <1>11, <1>12 DEF StartInv

(* A step of a request that leaves no job queued but those that were, and  *)
(* not the request's own.                                                  *)
LEMMA LeavesUnqueued ==
    ASSUME Typed, StartInv, NEW h \in Handlers, NEW k \in Keys,
           requests[h].key = k, Typed', scans' = scans,
           \A g \in Handlers \ {h} : requests'[g] = requests[g],
           requests'[h].pc \notin {"show", "launch"},
           \A l \in Keys \ {k} : jobs'[l] = jobs[l],
           jobs'[k].workflow = jobs[k].workflow,
           jobs'[k].status # "queued",
           jobs'[k].status = "none" => jobs[k].status = "none"
    PROVE  Typed' /\ StartInv'
<1>1. ReservedOnce'
  <2>1. ~Starting(h)' /\ requests'[h].pc # "launch"
    BY DEF Starting
  <2>2. ReservedOnce
    BY DEF StartInv
  <2>3. \A l \in Keys : scans[l].started = 0 =>
                       scans'[l].pc = "none" /\ ~scans'[l].cancelled
    BY <2>2 DEF ReservedOnce
  <2>4. \A l \in Keys :
           /\ jobs'[l].workflow = jobs[l].workflow
           /\ jobs'[l].status = "none" => jobs[l].status = "none"
    OBVIOUS
  <2> QED
    BY <2>1, <2>2, <2>3, <2>4, StaysReserved
<1>2. ASSUME NEW l \in Keys, jobs'[l].status = "queued"
      PROVE  Owned(l)'
  <2>1. l # k /\ jobs'[l] = jobs[l]
    BY <1>2
  <2>2. Owned(l)
    BY <1>2, <2>1 DEF StartInv
  <2> QED
    BY <2>1, <2>2, StaysOwned
<1> QED
  BY <1>1, <1>2 DEF StartInv

(* Before the reservation the job is read again; when storing the token    *)
(* fails the job does, so that it is not queued any more.                  *)
LEMMA StoreCredentialKeeps ==
    ASSUME Typed, StartInv, NEW h \in Handlers, StoreCredential(h)
    PROVE  Typed' /\ StartInv'
<1> USE DEF StoreCredential
<1>1. PICK r \in RequestType, k \in Keys : r = requests[h] /\ k = r.key
  BY Records
<1>2. r.pc = "credential" /\ scans' = scans /\ tip' = tip
  BY <1>1
<1>3. PICK j \in Job : j = jobs[k]
  BY Records
<1>4. CASE /\ requests' = [requests EXCEPT ![h].pc = "reserve", ![h].seen = j]
           /\ jobs' = jobs
  <2>1. PICK then : then = [r EXCEPT !.pc = "reserve", !.seen = j]
    OBVIOUS
  <2>2. /\ then \in RequestType /\ then.pc = "reserve" /\ then.key = k
        /\ then.seen = j
    BY <1>1, <2>1 DEF RequestType, RequestSteps
  <2>3. requests' = [requests EXCEPT ![h] = then]
    BY <1>1, <1>4, <2>1 DEF Typed
  <2>4. Typed'
    BY <1>2, <1>4, <2>2, <2>3 DEF Typed
  <2>5. /\ requests'[h] = then
        /\ \A g \in Handlers \ {h} : requests'[g] = requests[g]
    BY <2>3 DEF Typed
  <2>6. ReservedOnce'
    <3>1. ~Starting(h)' /\ requests'[h].pc # "launch"
      BY <2>2, <2>5 DEF Starting
    <3>2. ReservedOnce
      BY DEF StartInv
    <3>3. \A l \in Keys : scans[l].started = 0 =>
                         scans'[l].pc = "none" /\ ~scans'[l].cancelled
      BY <1>2, <3>2 DEF ReservedOnce
    <3> QED
      BY <1>2, <1>4, <2>5, <3>1, <3>2, <3>3, StaysReserved
  <2>7. ASSUME NEW l \in Keys, jobs'[l].status = "queued"
        PROVE  Owned(l)'
    <3>1. CASE l = k /\ ~jobs[k].workflow
      <4>1. Willing(then)
        BY <1>3, <1>4, <2>2, <2>7, <3>1 DEF Willing
      <4>2. ~jobs'[k].workflow /\ requests'[h].key = k /\ Willing(requests[h])'
        BY <1>4, <2>2, <2>5, <3>1, <4>1 DEF Willing
      <4> QED
        BY <3>1, <4>2 DEF Owned
    <3>2. CASE l = k /\ jobs[k].workflow
      <4>1. Owned(k)
        BY <1>4, <2>7, <3>2 DEF StartInv
      <4>2. \/ scans[k].pc = "mark" /\ ~scans[k].cancelled
            \/ \E g \in Handlers \ {h} : requests[g].key = k /\ Starting(g)
            \/ \E g \in Handlers \ {h} : requests[g].key = k /\ Cancelling(g)
        BY <1>1, <1>2, <3>2, <4>1 DEF Owned, Starting, Cancelling
      <4> QED
        BY <1>2, <1>4, <2>5, <3>2, <4>2 DEF Owned, Starting, Cancelling
    <3>3. CASE l # k
      <4>1. Owned(l)
        BY <1>4, <2>7 DEF StartInv
      <4>2. requests[h].key # l
        BY <1>1, <3>3
      <4> QED
        BY <1>2, <1>4, <2>5, <4>1, <4>2, StaysOwned
    <3> QED
      BY <3>1, <3>2, <3>3
  <2> QED
    BY <2>4, <2>6, <2>7 DEF StartInv
<1>5. CASE /\ requests' = [requests EXCEPT ![h] = NoRequest]
           /\ jobs' = [jobs EXCEPT ![k] = MarkedFailed(j)]
  <2>1. PICK job : job = MarkedFailed(j)
    OBVIOUS
  <2>2. /\ job \in Job /\ job.workflow = j.workflow /\ job.status # "queued"
        /\ job.status = "none" => j.status = "none"
    BY <1>3, <2>1 DEF MarkedFailed, Job, Terminal
  <2>3. /\ jobs'[k] = job /\ \A l \in Keys \ {k} : jobs'[l] = jobs[l]
        /\ requests'[h] = NoRequest
        /\ \A g \in Handlers \ {h} : requests'[g] = requests[g]
    BY <1>5, <2>1 DEF Typed
  <2>4. Typed'
    BY <1>2, <1>5, <2>1, <2>2, NoRequestIsOne DEF Typed
  <2> QED
    BY <1>1, <1>2, <1>3, <2>2, <2>3, <2>4, LeavesUnqueued DEF NoRequest
<1> QED
  BY <1>1, <1>3, <1>4, <1>5 DEF Finish

(* A job that is queued and has no workflow is reserved by the first that  *)
(* comes to it; any other request leaves it to whoever was first.          *)
LEMMA ReserveKeeps ==
    ASSUME Typed, StartInv, NEW h \in Handlers, Reserve(h)
    PROVE  Typed' /\ StartInv'
<1> USE DEF Reserve
<1>1. PICK r \in RequestType, k \in Keys : r = requests[h] /\ k = r.key
  BY Records
<1>2. r.pc = "reserve" /\ scans' = scans /\ tip' = tip
  BY <1>1
<1>3. ReservedOnce
  BY DEF StartInv
<1> DEFINE should == r.created \/ (r.seen.status = "queued" /\ ~r.seen.workflow)
           free == jobs[k].status = "queued" /\ ~jobs[k].workflow
<1>4. /\ jobs' = IF should /\ free THEN [jobs EXCEPT ![k].workflow = TRUE]
                 ELSE jobs
      /\ requests' = [requests EXCEPT ![h].pc = "show",
             ![h].seen = IF should THEN jobs'[k] ELSE @,
             ![h].reserved = should /\ free]
  BY <1>1
<1>5. PICK won \in BOOLEAN : won = (should /\ free)
  OBVIOUS
<1>6. /\ jobs' \in [Keys -> Job]
      /\ \A l \in Keys \ {k} : jobs'[l] = jobs[l]
      /\ jobs'[k].status = jobs[k].status
      /\ won => jobs'[k].workflow = TRUE
      /\ ~won => jobs' = jobs
  <2>1. PICK j \in Job : j = jobs[k]
    BY Records
  <2>2. PICK with : with = [j EXCEPT !.workflow = TRUE]
    OBVIOUS
  <2>3. with \in Job /\ with.status = j.status /\ with.workflow = TRUE
    BY <2>2 DEF Job
  <2>4. CASE won
    <3>1. jobs' = [jobs EXCEPT ![k] = with]
      BY <1>4, <1>5, <2>1, <2>2, <2>4 DEF Typed
    <3> QED
      BY <2>1, <2>3, <2>4, <3>1 DEF Typed
  <2>5. CASE ~won
    BY <1>4, <1>5, <2>5 DEF Typed
  <2> QED
    BY <2>4, <2>5
<1>7. PICK seen \in Job : seen = IF should THEN jobs'[k] ELSE r.seen
  BY <1>6, <1>1 DEF RequestType
<1>8. PICK then : then = [r EXCEPT !.pc = "show", !.seen = seen,
                                   !.reserved = won]
  OBVIOUS
<1>9. /\ then \in RequestType /\ then.pc = "show" /\ then.key = k
      /\ then.reserved = won
  BY <1>1, <1>8 DEF RequestType, RequestSteps
<1>10. requests' = [requests EXCEPT ![h] = then]
  BY <1>1, <1>4, <1>5, <1>7, <1>8 DEF Typed
<1>11. /\ requests'[h] = then
       /\ \A g \in Handlers \ {h} : requests'[g] = requests[g]
  BY <1>10 DEF Typed
<1>12. Typed'
  <2>1. requests' \in [Handlers -> RequestType]
    BY <1>9, <1>10 DEF Typed
  <2> QED
    BY <1>2, <1>6, <2>1 DEF Typed
<1>13. Starting(h)' <=> won
  BY <1>9, <1>11 DEF Starting
<1>14. ~Starting(h) /\ ~Cancelling(h)
  BY <1>1, <1>2 DEF Starting, Cancelling
<1>15. CASE won
  <2>1. jobs[k].status = "queued" /\ ~jobs[k].workflow /\ scans[k].started = 0
    BY <1>3, <1>5, <1>15 DEF ReservedOnce
  <2>2. \A g \in Handlers : Starting(g) => requests[g].key # k
    BY <1>3, <2>1 DEF ReservedOnce
  <2>3. ASSUME NEW g \in Handlers \ {h}
        PROVE  Starting(g)' <=> Starting(g)
    BY <1>11 DEF Starting
  <2>4. ReservedOnce'
    <3>1. \A l \in Keys :
            /\ jobs'[l].status = "none" => ~jobs'[l].workflow
            /\ ~jobs'[l].workflow => scans'[l].started = 0
            /\ scans'[l].started = 0 => scans'[l].pc = "none" /\ ~scans'[l].cancelled
            /\ scans'[l].started <= 1
      BY <1>2, <1>3, <1>6, <1>15, <2>1 DEF ReservedOnce
    <3>2. \A g \in Handlers :
            /\ requests'[g].pc = "launch" => requests'[g].reserved
            /\ Starting(g)' => /\ jobs'[requests'[g].key].workflow
                               /\ scans'[requests'[g].key].started = 0
      <4>1. jobs'[k].workflow /\ scans'[k].started = 0
        BY <1>2, <1>6, <1>15, <2>1
      <4>2. ASSUME NEW g \in Handlers \ {h}
            PROVE  /\ requests'[g].pc = "launch" => requests'[g].reserved
                   /\ Starting(g)' => /\ jobs'[requests'[g].key].workflow
                                      /\ scans'[requests'[g].key].started = 0
        <5>1. requests'[g] = requests[g]
          BY <1>11
        <5>2. requests'[g].pc = "launch" => requests'[g].reserved
          BY <1>3, <5>1 DEF ReservedOnce
        <5>3. ASSUME Starting(g)
              PROVE  /\ jobs'[requests[g].key].workflow
                     /\ scans'[requests[g].key].started = 0
          <6>1. requests[g].key \in Keys \ {k}
            BY <2>2, <5>3, Records
          <6>2. jobs'[requests[g].key] = jobs[requests[g].key]
            BY <1>6, <6>1
          <6> QED
            BY <1>2, <1>3, <5>3, <6>2 DEF ReservedOnce
        <5> QED
          BY <2>3, <5>1, <5>2, <5>3
      <4> QED
        BY <1>9, <1>11, <4>1, <4>2
    <3>3. \A f, g \in Handlers :
            Starting(f)' /\ Starting(g)' /\ requests'[f].key = requests'[g].key
              => f = g
      <4>1. ASSUME NEW g \in Handlers \ {h}, Starting(g)'
            PROVE  Starting(g) /\ requests'[g] = requests[g] /\ requests'[g].key # k
        BY <1>11, <2>2, <2>3, <4>1
      <4>2. requests'[h].key = k
        BY <1>9, <1>11
      <4> QED
        BY <1>3, <4>1, <4>2 DEF ReservedOnce
    <3> QED
      BY <3>1, <3>2, <3>3 DEF ReservedOnce
  <2>5. ASSUME NEW l \in Keys, jobs'[l].status = "queued"
        PROVE  Owned(l)'
    <3>1. CASE l = k
      BY <1>6, <1>9, <1>11, <1>13, <1>15, <3>1 DEF Owned
    <3>2. CASE l # k
      <4>1. Owned(l) /\ requests[h].key # l /\ jobs'[l] = jobs[l]
        BY <1>1, <1>6, <2>5, <3>2 DEF StartInv
      <4> QED
        BY <1>2, <1>11, <4>1, StaysOwned
    <3> QED
      BY <3>1, <3>2
  <2> QED
    BY <1>12, <2>4, <2>5 DEF StartInv
<1>16. CASE ~won
  <2>1. jobs' = jobs
    BY <1>6, <1>16
  <2>2. ReservedOnce'
    <3>1. ~Starting(h)' /\ requests'[h].pc # "launch"
      BY <1>9, <1>11, <1>13, <1>16
    <3>2. \A l \in Keys : scans[l].started = 0 =>
                         scans'[l].pc = "none" /\ ~scans'[l].cancelled
      BY <1>2, <1>3 DEF ReservedOnce
    <3> QED
      BY <1>2, <1>3, <1>11, <2>1, <3>1, <3>2, StaysReserved
  <2>3. ASSUME NEW l \in Keys, jobs'[l].status = "queued"
        PROVE  Owned(l)'
    <3>1. Owned(l)
      BY <2>1, <2>3 DEF StartInv
    <3>2. CASE l = k /\ Willing(r)
      <4>1. jobs[k].workflow
        BY <1>2, <1>5, <1>16, <2>1, <2>3, <3>2 DEF Willing
      <4>2. \/ scans[k].pc = "mark" /\ ~scans[k].cancelled
            \/ \E g \in Handlers \ {h} : requests[g].key = k /\ Starting(g)
            \/ \E g \in Handlers \ {h} : requests[g].key = k /\ Cancelling(g)
        BY <1>14, <3>1, <3>2, <4>1 DEF Owned
      <4> QED
        BY <1>2, <1>11, <2>1, <3>2, <4>1, <4>2 DEF Owned, Starting, Cancelling
    <3>3. CASE ~(l = k /\ Willing(r))
      BY <1>1, <1>2, <1>11, <1>14, <2>1, <3>1, <3>3, StaysOwned
    <3> QED
      BY <3>2, <3>3
  <2> QED
    BY <1>12, <2>2, <2>3 DEF StartInv
<1> QED
  BY <1>15, <1>16

(* A request without a reservation ends here; one with it goes on.         *)
LEMMA ShowJobKeeps ==
    ASSUME Typed, StartInv, NEW h \in Handlers, ShowJob(h)
    PROVE  Typed' /\ StartInv'
<1> USE DEF ShowJob
<1>1. PICK r \in RequestType, k \in Keys : r = requests[h] /\ k = r.key
  BY Records
<1>2. /\ r.pc = "show" /\ jobs' = jobs /\ scans' = scans /\ tip' = tip
      /\ requests' = IF r.reserved THEN [requests EXCEPT ![h].pc = "launch"]
                     ELSE [requests EXCEPT ![h] = NoRequest]
  BY <1>1 DEF Finish
<1>3. ReservedOnce
  BY DEF StartInv
<1>4. CASE r.reserved
  <2>1. PICK then : then = [r EXCEPT !.pc = "launch"]
    OBVIOUS
  <2>2. /\ then \in RequestType /\ then.pc = "launch" /\ then.key = k
        /\ then.reserved = r.reserved
    BY <1>1, <2>1 DEF RequestType, RequestSteps
  <2>3. requests' = [requests EXCEPT ![h] = then]
    BY <1>1, <1>2, <1>4, <2>1 DEF Typed
  <2>4. Typed'
    BY <1>2, <2>2, <2>3 DEF Typed
  <2>5. /\ requests'[h] = then
        /\ \A g \in Handlers \ {h} : requests'[g] = requests[g]
    BY <2>3 DEF Typed
  <2>6. \A g \in Handlers :
          /\ Starting(g)' <=> Starting(g)
          /\ requests'[g].key = requests[g].key
    BY <1>1, <1>2, <1>4, <2>2, <2>5 DEF Starting
  <2>7. ReservedOnce'
    <3>1. \A g \in Handlers : requests'[g].pc = "launch" => requests'[g].reserved
      BY <1>3, <1>4, <2>2, <2>5 DEF ReservedOnce
    <3> QED
      BY <1>2, <1>3, <2>6, <3>1 DEF ReservedOnce
  <2>8. ASSUME NEW l \in Keys, jobs'[l].status = "queued"
        PROVE  Owned(l)'
    <3>1. Owned(l)
      BY <1>2, <2>8 DEF StartInv
    <3>2. ~Willing(requests[h]) /\ ~Cancelling(h)
      BY <1>1, <1>2 DEF Willing, Cancelling
    <3>3. \A g \in Handlers :
            /\ Willing(requests[g]) => Willing(requests[g])'
            /\ Cancelling(g) => Cancelling(g)'
      BY <2>5, <3>2 DEF Willing, Cancelling
    <3> QED
      BY <1>2, <2>6, <3>1, <3>3 DEF Owned
  <2> QED
    BY <2>4, <2>7, <2>8 DEF StartInv
<1>5. CASE ~r.reserved
  <2>1. /\ requests' = [requests EXCEPT ![h] = NoRequest]
        /\ requests'[h] = NoRequest
        /\ \A g \in Handlers \ {h} : requests'[g] = requests[g]
    BY <1>2, <1>5 DEF Typed
  <2>2. Typed'
    BY <1>2, <2>1, NoRequestIsOne DEF Typed
  <2>3. ReservedOnce'
    <3>1. ~Starting(h)' /\ requests'[h].pc # "launch"
      BY <2>1 DEF Starting, NoRequest
    <3>2. \A l \in Keys : scans[l].started = 0 =>
                         scans'[l].pc = "none" /\ ~scans'[l].cancelled
      BY <1>2, <1>3 DEF ReservedOnce
    <3> QED
      BY <1>2, <1>3, <2>1, <3>1, <3>2, StaysReserved
  <2>4. ASSUME NEW l \in Keys, jobs'[l].status = "queued"
        PROVE  Owned(l)'
    <3>1. Owned(l)
      BY <1>2, <2>4 DEF StartInv
    <3>2. ~Starting(h) /\ ~Willing(requests[h]) /\ ~Cancelling(h)
      BY <1>1, <1>2, <1>5 DEF Starting, Willing, Cancelling
    <3> QED
      BY <1>2, <2>1, <3>1, <3>2, StaysOwned
  <2> QED
    BY <2>2, <2>3, <2>4 DEF StartInv
<1> QED
  BY <1>4, <1>5

(* The one request that reserved the start starts the workflow, once. *)
LEMMA LaunchKeeps ==
    ASSUME Typed, StartInv, NEW h \in Handlers, Launch(h)
    PROVE  Typed' /\ StartInv'
<1> USE DEF Launch
<1>1. PICK r \in RequestType, k \in Keys : r = requests[h] /\ k = r.key
  BY Records
<1>2. PICK s \in ScanType : s = scans[k]
  BY Records
<1>3. PICK then : then = [s EXCEPT !.pc = "mark", !.started = s.started + 1]
  OBVIOUS
<1>4. /\ then \in ScanType /\ then.pc = "mark"
      /\ then.started = s.started + 1 /\ then.cancelled = s.cancelled
  <2>1. s.started \in Nat /\ s.started + 1 \in Nat
    BY DEF ScanType
  <2>2. /\ then.pc = "mark" /\ then.started = s.started + 1
        /\ then.cancelled = s.cancelled /\ then.tries = s.tries
    BY <1>3 DEF ScanType
  <2>3. then \in ScanType
    BY <1>3, <2>1 DEF ScanType, Running
  <2> QED
    BY <2>2, <2>3
<1>5. /\ r.pc = "launch" /\ jobs' = jobs /\ tip' = tip
      /\ scans' = [scans EXCEPT ![k] = then]
      /\ requests' = [requests EXCEPT ![h] = NoRequest]
  <2>1. scans' = [scans EXCEPT ![k] = then]
    BY <1>1, <1>2, <1>3 DEF Typed
  <2> QED
    BY <1>1, <2>1 DEF Finish
<1>6. /\ requests'[h] = NoRequest
      /\ \A g \in Handlers \ {h} : requests'[g] = requests[g]
      /\ scans'[k] = then /\ \A l \in Keys \ {k} : scans'[l] = scans[l]
  BY <1>5 DEF Typed
<1>7. Typed'
  <2>1. requests' \in [Handlers -> RequestType]
    BY <1>5, NoRequestIsOne DEF Typed
  <2>2. scans' \in [Keys -> ScanType]
    BY <1>4, <1>5 DEF Typed
  <2> QED
    BY <1>5, <2>1, <2>2 DEF Typed
<1>8. ReservedOnce
  BY DEF StartInv
<1>9. Starting(h)
  BY <1>1, <1>5, <1>8 DEF ReservedOnce, Starting
<1>10. jobs[k].workflow /\ s.started = 0 /\ ~s.cancelled
  BY <1>1, <1>2, <1>8, <1>9 DEF ReservedOnce
<1>11. then.started = 1 /\ ~then.cancelled
  BY <1>4, <1>10
<1>12. ASSUME NEW g \in Handlers, Starting(g)'
       PROVE  /\ g # h /\ requests'[g] = requests[g] /\ Starting(g)
              /\ requests[g].key \in Keys \ {k}
  <2>1. g # h
    BY <1>6, <1>12 DEF Starting, NoRequest
  <2>2. requests'[g] = requests[g] /\ Starting(g)
    BY <1>6, <1>12, <2>1 DEF Starting
  <2>3. requests[g].key # k
    BY <1>1, <1>8, <1>9, <2>1, <2>2 DEF ReservedOnce
  <2> QED
    BY <2>1, <2>2, <2>3, Records
<1>13. ReservedOnce'
  <2>1. \A l \in Keys :
          /\ jobs'[l].status = "none" => ~jobs'[l].workflow
          /\ ~jobs'[l].workflow => scans'[l].started = 0
          /\ scans'[l].started = 0 => scans'[l].pc = "none" /\ ~scans'[l].cancelled
          /\ scans'[l].started <= 1
    <3> SUFFICES ASSUME NEW l \in Keys
                 PROVE  /\ jobs'[l].status = "none" => ~jobs'[l].workflow
                        /\ ~jobs'[l].workflow => scans'[l].started = 0
                        /\ scans'[l].started = 0 =>
                             scans'[l].pc = "none" /\ ~scans'[l].cancelled
                        /\ scans'[l].started <= 1
      OBVIOUS
    <3>1. CASE l = k
      <4>1. scans'[l].started = 1 /\ jobs'[l].workflow
        BY <1>5, <1>6, <1>10, <1>11, <3>1
      <4>2. jobs'[l].status # "none"
        BY <1>5, <1>8, <1>10, <3>1 DEF ReservedOnce
      <4> HIDE DEF Launch
      <4> QED
        BY <4>1, <4>2
    <3>2. CASE l # k
      <4>1. jobs' = jobs /\ scans'[l] = scans[l]
        BY <1>5, <1>6, <3>2
      <4>2. /\ jobs[l].status = "none" => ~jobs[l].workflow
            /\ ~jobs[l].workflow => scans[l].started = 0
            /\ scans[l].started = 0 => scans[l].pc = "none" /\ ~scans[l].cancelled
            /\ scans[l].started <= 1
        BY <1>8 DEF ReservedOnce
      <4> QED
        BY <4>1, <4>2
    <3> QED
      BY <3>1, <3>2
  <2>2. \A g \in Handlers : requests'[g].pc = "launch" => requests'[g].reserved
    BY <1>6, <1>8 DEF ReservedOnce, NoRequest
  <2>3. \A g \in Handlers :
          Starting(g)' => /\ jobs'[requests'[g].key].workflow
                          /\ scans'[requests'[g].key].started = 0
    <3> SUFFICES ASSUME NEW g \in Handlers, Starting(g)'
                 PROVE  /\ jobs'[requests'[g].key].workflow
                        /\ scans'[requests'[g].key].started = 0
      OBVIOUS
    <3>1. PICK l \in Keys \ {k} : l = requests[g].key /\ l = requests'[g].key
      BY <1>12
    <3>2. jobs[l].workflow /\ scans[l].started = 0
      BY <1>8, <1>12, <3>1 DEF ReservedOnce
    <3> QED
      BY <1>5, <1>6, <3>1, <3>2
  <2>4. \A f, g \in Handlers :
          Starting(f)' /\ Starting(g)' /\ requests'[f].key = requests'[g].key
            => f = g
    BY <1>8, <1>12 DEF ReservedOnce
  <2> QED
    BY <2>1, <2>2, <2>3, <2>4 DEF ReservedOnce
<1>14. ASSUME NEW l \in Keys, jobs'[l].status = "queued"
       PROVE  Owned(l)'
  <2>1. CASE l = k
    BY <1>4, <1>5, <1>6, <1>10, <1>11, <2>1 DEF Owned
  <2>2. CASE l # k
    <3>1. Owned(l) /\ requests[h].key # l
      BY <1>1, <1>5, <1>14, <2>2 DEF StartInv
    <3> QED
      BY <1>5, <1>6, <2>2, <3>1, StaysOwned
  <2> QED
    BY <2>1, <2>2
<1> QED
  BY <1>7, <1>13, <1>14 DEF StartInv

(* When the start fails, so does the job.                                  *)
LEMMA LaunchFailsKeeps ==
    ASSUME Typed, StartInv, NEW h \in Handlers, LaunchFails(h)
    PROVE  Typed' /\ StartInv'
<1> USE DEF LaunchFails
<1>1. PICK r \in RequestType, k \in Keys : r = requests[h] /\ k = r.key
  BY Records
<1>2. PICK j \in Job : j = jobs[k]
  BY Records
<1>3. PICK job : job = MarkedFailed(j)
  OBVIOUS
<1>4. /\ job \in Job /\ job.workflow = j.workflow /\ job.status # "queued"
      /\ job.status = "none" => j.status = "none"
  BY <1>2, <1>3 DEF MarkedFailed, Job, Terminal
<1>5. PICK then : then = [r EXCEPT !.pc = "fail"]
  OBVIOUS
<1>6. then \in RequestType /\ then.pc = "fail"
  BY <1>1, <1>5 DEF RequestType, RequestSteps
<1>7. /\ jobs' = [jobs EXCEPT ![k] = job] /\ scans' = scans /\ tip' = tip
      /\ requests' = [requests EXCEPT ![h] = then]
  BY <1>1, <1>2, <1>3, <1>5 DEF Typed
<1>8. Typed'
  <2>1. requests' \in [Handlers -> RequestType]
    BY <1>6, <1>7 DEF Typed
  <2>2. jobs' \in [Keys -> Job]
    BY <1>4, <1>7 DEF Typed
  <2> QED
    BY <1>7, <2>1, <2>2 DEF Typed
<1>9. /\ jobs'[k] = job /\ \A l \in Keys \ {k} : jobs'[l] = jobs[l]
      /\ requests'[h] = then
      /\ \A g \in Handlers \ {h} : requests'[g] = requests[g]
  BY <1>7 DEF Typed
<1> QED
  BY <1>1, <1>2, <1>4, <1>6, <1>7, <1>8, <1>9, LeavesUnqueued

LEMMA CancelWorkflowKeeps ==
    ASSUME Typed, StartInv, NEW h \in Handlers, NEW k \in Keys,
           CancelWorkflow(h, k)
    PROVE  Typed' /\ StartInv'
<1> USE DEF CancelWorkflow
<1>1. PICK r \in RequestType, s \in ScanType : r = requests[h] /\ s = scans[k]
  BY Records
<1>2. PICK yes \in BOOLEAN : yes = (jobs[k].workflow /\ s.pc \in Running)
  OBVIOUS
<1>3. PICK then : then = [s EXCEPT !.cancelled = yes]
  OBVIOUS
<1>4. /\ then \in ScanType /\ then.pc = s.pc /\ then.started = s.started
      /\ then.cancelled = yes
  BY <1>1, <1>3 DEF ScanType
<1>5. PICK new : new = [r EXCEPT !.pc = "mark cancelled", !.key = k]
  OBVIOUS
<1>6. /\ new \in RequestType /\ new.pc = "mark cancelled" /\ new.key = k
  BY <1>1, <1>5 DEF RequestType, RequestSteps
<1>7. /\ r.pc = "idle" /\ jobs' = jobs /\ tip' = tip
      /\ scans' = [scans EXCEPT ![k] = then]
      /\ requests' = [requests EXCEPT ![h] = new]
  BY <1>1, <1>2, <1>3, <1>5 DEF Typed
<1>8. Typed'
  <2>1. requests' \in [Handlers -> RequestType]
    BY <1>6, <1>7 DEF Typed
  <2>2. scans' \in [Keys -> ScanType]
    BY <1>4, <1>7 DEF Typed
  <2> QED
    BY <1>7, <2>1, <2>2 DEF Typed
<1>9. /\ requests'[h] = new
      /\ \A g \in Handlers \ {h} : requests'[g] = requests[g]
      /\ scans'[k] = then /\ \A l \in Keys \ {k} : scans'[l] = scans[l]
  BY <1>7 DEF Typed
<1>10. ReservedOnce
  BY DEF StartInv
<1>11. ReservedOnce'
  <2>1. ~Starting(h)' /\ requests'[h].pc # "launch"
    BY <1>6, <1>9 DEF Starting
  <2>2. \A l \in Keys :
          /\ scans'[l].started = scans[l].started
          /\ scans[l].started = 0 => scans'[l].pc = "none" /\ ~scans'[l].cancelled
    <3> SUFFICES ASSUME NEW l \in Keys
                 PROVE  /\ scans'[l].started = scans[l].started
                        /\ scans[l].started = 0 =>
                             scans'[l].pc = "none" /\ ~scans'[l].cancelled
      OBVIOUS
    <3>1. CASE l = k
      <4>1. s.started = 0 => s.pc = "none"
        BY <1>1, <1>10 DEF ReservedOnce
      <4>2. s.pc = "none" => ~yes
        BY <1>2 DEF Running
      <4> QED
        BY <1>1, <1>4, <1>9, <3>1, <4>1, <4>2
    <3>2. CASE l # k
      BY <1>9, <1>10, <3>2 DEF ReservedOnce
    <3> QED
      BY <3>1, <3>2
  <2> QED
    BY <1>7, <1>9, <1>10, <2>1, <2>2, StaysReserved
<1>12. ASSUME NEW l \in Keys, jobs'[l].status = "queued"
       PROVE  Owned(l)'
  <2>1. CASE l = k
    BY <1>6, <1>9, <2>1 DEF Owned, Cancelling
  <2>2. CASE l # k
    <3>1. Owned(l)
      BY <1>7, <1>12 DEF StartInv
    <3>2. ~Starting(h) /\ ~Willing(requests[h]) /\ ~Cancelling(h)
      BY <1>1, <1>7 DEF Starting, Willing, Cancelling
    <3> QED
      BY <1>7, <1>9, <2>2, <3>1, <3>2, StaysOwned
  <2> QED
    BY <2>1, <2>2
<1> QED
  BY <1>8, <1>11, <1>12 DEF StartInv

LEMMA MarkCancelledKeeps ==
    ASSUME Typed, StartInv, NEW h \in Handlers, MarkCancelled(h)
    PROVE  Typed' /\ StartInv'
<1> USE DEF MarkCancelled
<1>1. PICK r \in RequestType, k \in Keys : r = requests[h] /\ k = r.key
  BY Records
<1>2. PICK j \in Job : j = jobs[k]
  BY Records
<1>3. PICK job : job = [j EXCEPT !.status = IF j.status \in Terminal THEN j.status
                                            ELSE "cancelled"]
  OBVIOUS
<1>4. /\ job \in Job /\ job.workflow = j.workflow /\ job.status # "queued"
      /\ job.status = "none" => j.status = "none"
  BY <1>2, <1>3 DEF Job, Terminal
<1>5. PICK then : then = [r EXCEPT !.pc = "show cancelled"]
  OBVIOUS
<1>6. then \in RequestType /\ then.pc = "show cancelled"
  BY <1>1, <1>5 DEF RequestType, RequestSteps
<1>7. /\ jobs' = [jobs EXCEPT ![k] = job] /\ scans' = scans /\ tip' = tip
      /\ requests' = [requests EXCEPT ![h] = then]
  BY <1>1, <1>2, <1>3, <1>5 DEF Typed
<1>8. Typed'
  <2>1. requests' \in [Handlers -> RequestType]
    BY <1>6, <1>7 DEF Typed
  <2>2. jobs' \in [Keys -> Job]
    BY <1>4, <1>7 DEF Typed
  <2> QED
    BY <1>7, <2>1, <2>2 DEF Typed
<1>9. /\ jobs'[k] = job /\ \A l \in Keys \ {k} : jobs'[l] = jobs[l]
      /\ requests'[h] = then
      /\ \A g \in Handlers \ {h} : requests'[g] = requests[g]
  BY <1>7 DEF Typed
<1>10. /\ jobs'[k].workflow = jobs[k].workflow
       /\ jobs'[k].status # "queued" /\ scans' = scans
       /\ jobs'[k].status = "none" => jobs[k].status = "none"
       /\ requests'[h].pc \notin {"show", "launch"}
  BY <1>2, <1>4, <1>6, <1>7, <1>9
<1> HIDE DEF MarkCancelled
<1> QED
  BY <1>1, <1>8, <1>9, <1>10, LeavesUnqueued

-----------------------------------------------------------------------------
(* Workflows. *)

LEMMA NothingMoves ==
    ASSUME Typed, StartInv, UNCHANGED <<jobs, scans, requests>>,
           tip' \in Commits
    PROVE  Typed' /\ StartInv'
<1>1. Typed'
  BY DEF Typed
<1>2. ReservedOnce'
  BY DEF StartInv, ReservedOnce, Starting
<1>3. ASSUME NEW k \in Keys, jobs'[k].status = "queued"
      PROVE  Owned(k)'
  BY <1>3 DEF StartInv, Owned, Starting, Willing, Cancelling
<1> QED
  BY <1>1, <1>2, <1>3 DEF StartInv

(* A step of a workflow that was started: it leaves the mark only with the *)
(* job no longer queued, or when it was cancelled.                         *)
LEMMA WorkflowKeeps ==
    ASSUME Typed, StartInv, NEW k \in Keys, UNCHANGED <<requests, tip>>,
           NEW s \in ScanType, scans' = [scans EXCEPT ![k] = s],
           NEW j \in Job, jobs' = [jobs EXCEPT ![k] = j],
           scans[k].pc # "none", s.started = scans[k].started,
           j.workflow = jobs[k].workflow,
           j.status = "none" => jobs[k].status = "none",
           j.status = "queued" =>
              /\ jobs[k].status = "queued"
              /\ ~(scans[k].pc = "mark" /\ ~scans[k].cancelled)
    PROVE  Typed' /\ StartInv'
<1>1. Typed'
  <2>1. scans' \in [Keys -> ScanType] /\ jobs' \in [Keys -> Job]
    BY DEF Typed
  <2> QED
    BY <2>1 DEF Typed
<1>2. /\ scans'[k] = s /\ \A l \in Keys \ {k} : scans'[l] = scans[l]
      /\ jobs'[k] = j /\ \A l \in Keys \ {k} : jobs'[l] = jobs[l]
  BY DEF Typed
<1>3. ReservedOnce
  BY DEF StartInv
<1>4. s.started # 0 /\ s.started <= 1
  BY <1>3 DEF ReservedOnce
<1>5. \A l \in Keys :
        /\ jobs'[l].workflow = jobs[l].workflow
        /\ jobs'[l].status = "none" => jobs[l].status = "none"
        /\ scans'[l].started = scans[l].started
        /\ scans'[l].started = 0 => scans'[l] = scans[l]
  BY <1>2, <1>4
<1>6. ReservedOnce'
  <2>1. \A l \in Keys :
          /\ jobs'[l].status = "none" => ~jobs'[l].workflow
          /\ ~jobs'[l].workflow => scans'[l].started = 0
          /\ scans'[l].started = 0 => scans'[l].pc = "none" /\ ~scans'[l].cancelled
          /\ scans'[l].started <= 1
    BY <1>3, <1>5 DEF ReservedOnce
  <2>2. \A g \in Handlers :
          /\ requests'[g].pc = "launch" => requests'[g].reserved
          /\ Starting(g)' => /\ jobs'[requests'[g].key].workflow
                             /\ scans'[requests'[g].key].started = 0
    BY <1>3, <1>5, Records DEF ReservedOnce, Starting
  <2>3. \A f, g \in Handlers :
          Starting(f)' /\ Starting(g)' /\ requests'[f].key = requests'[g].key
            => f = g
    BY <1>3 DEF ReservedOnce, Starting
  <2> QED
    BY <2>1, <2>2, <2>3 DEF ReservedOnce
<1>7. ASSUME NEW l \in Keys, jobs'[l].status = "queued"
      PROVE  Owned(l)'
  <2>1. /\ Owned(l)
        /\ (scans[l].pc = "mark" /\ ~scans[l].cancelled) => scans'[l] = scans[l]
    BY <1>2, <1>7 DEF StartInv
  <2> QED
    BY <1>5, <2>1 DEF Owned, Starting, Willing, Cancelling
<1> QED
  BY <1>1, <1>6, <1>7 DEF StartInv

LEMMA ScanKeeps ==
    ASSUME Typed, StartInv, NEW k \in Keys, Scan(k)
    PROVE  Typed' /\ StartInv'
<1>1. PICK s \in ScanType, j \in Job : s = scans[k] /\ j = jobs[k]
  BY Records
<1>2. UNCHANGED <<requests, tip>>
  BY DEF Scan, MarkRunning, Progress, Phase1, Phase2, PhaseFails,
         CredentialLost, Retry, GiveUp, Succeed, Stop
<1>3. CASE Progress(k)
  <2>1. UNCHANGED <<jobs, scans>>
    BY <1>3 DEF Progress
  <2> QED
    BY <1>2, <2>1, NothingMoves DEF Typed
<1>4. CASE Phase1(k) \/ Phase2(k) \/ PhaseFails(k) \/ CredentialLost(k)
             \/ Stop(k)
  <2>1. PICK pc \in {"phase2", "end", "done"} :
           scans' = [scans EXCEPT ![k].pc = pc]
    BY <1>4 DEF Phase1, Phase2, PhaseFails, CredentialLost, Stop
  <2>2. PICK then : then = [s EXCEPT !.pc = pc]
    OBVIOUS
  <2>3. then \in ScanType /\ then.started = s.started
    BY <1>1, <2>2 DEF ScanType, Running
  <2>4. /\ scans' = [scans EXCEPT ![k] = then]
        /\ jobs' = [jobs EXCEPT ![k] = j]
    BY <1>1, <1>4, <2>1, <2>2
       DEF Typed, Phase1, Phase2, PhaseFails, CredentialLost, Stop
  <2>5. s.pc # "none" /\ ~(s.pc = "mark" /\ ~s.cancelled)
    BY <1>1, <1>4 DEF Phase1, Phase2, PhaseFails, CredentialLost, Stop
  <2> QED
    BY <1>1, <1>2, <2>3, <2>4, <2>5, WorkflowKeeps
<1>5. CASE Retry(k)
  <2>1. PICK pc \in {"phase1", "phase2"} :
           scans' = [scans EXCEPT ![k].pc = pc, ![k].tries = @ + 1]
    BY <1>5 DEF Retry
  <2>2. PICK then : then = [s EXCEPT !.pc = pc, !.tries = s.tries + 1]
    OBVIOUS
  <2>3. then \in ScanType /\ then.started = s.started
    <3>1. s.tries \in Nat /\ s.tries + 1 \in Nat
      BY DEF ScanType
    <3>2. then.started = s.started
      BY <2>2 DEF ScanType
    <3>3. then \in ScanType
      BY <2>2, <3>1 DEF ScanType, Running
    <3> QED
      BY <3>2, <3>3
  <2>4. /\ scans' = [scans EXCEPT ![k] = then]
        /\ jobs' = [jobs EXCEPT ![k] = j]
    BY <1>1, <1>5, <2>1, <2>2 DEF Typed, Retry
  <2>5. s.pc = "end"
    BY <1>1, <1>5 DEF Retry
  <2> QED
    BY <1>1, <1>2, <2>3, <2>4, <2>5, WorkflowKeeps
<1>6. CASE MarkRunning(k) \/ GiveUp(k) \/ Succeed(k)
  <2>1. PICK pc \in {"phase1", "phase2", "done"},
             status \in {"running", "dead_letter", "succeeded"} :
           /\ scans' = [scans EXCEPT ![k].pc = pc]
           /\ jobs' = [jobs EXCEPT ![k].status =
                          IF @ \in Terminal THEN @ ELSE status]
    BY <1>6 DEF MarkRunning, GiveUp, Succeed, Marked
  <2>2. PICK then : then = [s EXCEPT !.pc = pc]
    OBVIOUS
  <2>3. then \in ScanType /\ then.started = s.started
    BY <1>1, <2>2 DEF ScanType, Running
  <2>4. PICK job : job = [j EXCEPT !.status =
                             IF j.status \in Terminal THEN j.status ELSE status]
    OBVIOUS
  <2>5. /\ job \in Job /\ job.workflow = j.workflow
        /\ job.status \notin {"none", "queued"}
    BY <1>1, <2>4 DEF Job, Terminal
  <2>6. /\ scans' = [scans EXCEPT ![k] = then]
        /\ jobs' = [jobs EXCEPT ![k] = job]
    BY <1>1, <2>1, <2>2, <2>4 DEF Typed
  <2>7. s.pc # "none"
    BY <1>1, <1>6 DEF MarkRunning, GiveUp, Succeed
  <2> QED
    BY <1>1, <1>2, <2>3, <2>5, <2>6, <2>7, WorkflowKeeps
<1> QED
  BY <1>3, <1>4, <1>5, <1>6 DEF Scan

-----------------------------------------------------------------------------
(* The invariant holds of every reachable state. *)
THEOREM JobsAreInHands == Spec => [](Typed /\ StartInv)
<1>1. Init => Typed /\ StartInv
  <2> SUFFICES ASSUME Init
               PROVE  Typed /\ StartInv
    OBVIOUS
  <2> USE DEF Init
  <2>1. Typed
    <3>1. requests \in [Handlers -> RequestType]
      BY NoRequestIsOne
    <3>2. jobs \in [Keys -> Job]
      BY DEF Job
    <3>3. scans \in [Keys -> ScanType]
      BY DEF ScanType
    <3> QED
      BY <3>1, <3>2, <3>3 DEF Typed
  <2>2. ReservedOnce
    BY DEF ReservedOnce, Starting, NoRequest
  <2> QED
    BY <2>1, <2>2 DEF StartInv
<1>2. Typed /\ StartInv /\ [Next]_vars => Typed' /\ StartInv'
  <2> SUFFICES ASSUME Typed, StartInv, [Next]_vars
               PROVE  Typed' /\ StartInv'
    OBVIOUS
  <2>1. ASSUME NEW h \in Handlers, Request(h)
        PROVE  Typed' /\ StartInv'
    BY <2>1, LookInspectShowKeep, EnqueueKeeps, StoreCredentialKeeps,
       ReserveKeeps, ShowJobKeeps, LaunchKeeps, LaunchFailsKeeps,
       CancelWorkflowKeeps, MarkCancelledKeeps DEF Request
  <2>2. ASSUME NEW k \in Keys, Scan(k)
        PROVE  Typed' /\ StartInv'
    BY <2>2, ScanKeeps
  <2>3. ASSUME \/ \E c \in Commits : Push(c)
               \/ \E pending \in BOOLEAN : LegacyScan(pending)
               \/ UNCHANGED vars
        PROVE  Typed' /\ StartInv'
    <3>1. UNCHANGED <<jobs, scans, requests>> /\ tip' \in Commits
      BY <2>3 DEF Push, LegacyScan, vars, Typed
    <3> QED
      BY <3>1, NothingMoves
  <2> QED
    BY <2>1, <2>2, <2>3 DEF Next
<1> QED
  BY <1>1, <1>2, PTL DEF Spec

(* However many requests ask for a commit at once, however they fail and   *)
(* are cancelled, the workflow of its job is started once.                 *)
THEOREM ScansStartOnce == Spec => []OneScanPerJob
<1>1. StartInv => OneScanPerJob
  BY DEF StartInv, ReservedOnce, OneScanPerJob
<1> QED
  BY <1>1, JobsAreInHands, PTL

(* No request leaves a job queued that nobody is going to run: one that    *)
(* reserves nothing saw that somebody else had the job, and he has it yet. *)
THEOREM QueuedJobsHaveAnOwner == Spec => []QueuedIsOwned
<1>1. StartInv => QueuedIsOwned
  BY DEF StartInv, Owned, QueuedIsOwned, Cares, Starting, Willing, Cancelling
<1> QED
  BY <1>1, JobsAreInHands, PTL

-----------------------------------------------------------------------------
(* In MCCode the start of a scan moves by its own rules, and its types and *)
(* bounds are kept.                                                        *)
LEMMA StartsKeepTheirSpec == AllSpec => Spec
<1>1. AllInit => Init
  BY DEF AllInit
<1>2. [AllNext]_allVars => [Next]_vars
  BY DEF AllNext, allVars, Searching, Indexing, LegacyIndexing, Graphing, Parsing,
         Chatting, Beginning, Cataloguing, vars, Next, Request, Scan
<1> QED
  BY <1>1, <1>2, PTL DEF AllSpec, Spec

(* The variables that the invariant leaves out, and the tries of a scan.   *)
Bounded ==
    /\ index \in Commits \cup {NoCommit}
    /\ legacy \in [sha: Commits \cup {NoCommit}, pending: BOOLEAN]
    /\ dashboard \in [phase1: Phases, phase2: Phases]
    /\ \A k \in Keys : scans[k].tries \in 0..MaxAttempts
    /\ moves \in 0..MaxMoves /\ faults \in 0..MaxFaults
    /\ served \in 0..MaxRequests

LEMMA OneMore ==
    ASSUME NEW m \in Nat, NEW n \in 0..m, n < m
    PROVE  n + 1 \in 0..m
OBVIOUS

LEMMA FaultsAreBounded == Bounded /\ Fault => faults' \in 0..MaxFaults
BY ScanStartAssumption DEF Bounded, Fault

LEMMA ShownIsAPhase ==
    ASSUME NEW status, NEW b
    PROVE  ShownFor(status, b)[1] \in Phases /\ ShownFor(status, b)[2] \in Phases
BY DEF ShownFor, Phases

LEMMA BoundsAreKept == Typed /\ Bounded /\ [Next]_vars => Bounded'
<1> SUFFICES ASSUME Typed, Bounded, [Next]_vars
             PROVE  Bounded'
  OBVIOUS
<1>1. \A p, q \in Phases : Show(p, q) => dashboard' \in [phase1: Phases, phase2: Phases]
  BY DEF Show
<1>2. dashboard.phase1 \in Phases /\ dashboard.phase2 \in Phases
  BY DEF Bounded
<1>3. \A k \in Keys : scans[k] \in ScanType /\ scans[k].tries \in Nat
  BY Records
<1>4. /\ MaxMoves \in Nat /\ MaxFaults \in Nat /\ MaxRequests \in Nat
      /\ MaxAttempts \in Nat
  BY ScanStartAssumption
<1>5. CASE UNCHANGED vars
  BY <1>5 DEF vars, Bounded
<1>6. ASSUME NEW c \in Commits, Push(c)
      PROVE  Bounded'
  BY <1>4, <1>6, OneMore DEF Push, Bounded
<1>7. ASSUME NEW b \in BOOLEAN, LegacyScan(b)
      PROVE  Bounded'
  BY <1>4, <1>7, OneMore DEF LegacyScan, Bounded, Typed
<1>8. ASSUME NEW h \in Handlers, Request(h)
      PROVE  Bounded'
  <2>1. CASE Look(h)
    BY <1>4, <2>1, OneMore DEF Look, Bounded
  <2>2. CASE Inspect(h)
    <3>1. "complete" \in Phases
      BY DEF Phases
    <3>2. /\ UNCHANGED <<legacy, scans, index, moves, served>>
          /\ Fault \/ UNCHANGED faults
          /\ Show("complete", "complete") \/ UNCHANGED dashboard
      BY <2>2 DEF Inspect
    <3> QED
      BY <1>1, <3>1, <3>2, FaultsAreBounded DEF Bounded
  <2>3. CASE \E pat \in BOOLEAN : Enqueue(h, pat)
    <3>1. UNCHANGED <<legacy, dashboard, scans, index, moves, faults, served>>
      BY <2>3 DEF Enqueue
    <3> QED
      BY <3>1 DEF Bounded
  <2>4. CASE StoreCredential(h)
    BY <2>4, FaultsAreBounded DEF StoreCredential, Bounded
  <2>5. CASE Reserve(h)
    BY <2>5 DEF Reserve, Bounded
  <2>6. CASE ShowJob(h)
    <3>1. PICK p, q \in Phases : Show(p, q)
      BY <2>6, ShownIsAPhase DEF ShowJob
    <3> QED
      BY <1>1, <2>6, <3>1 DEF ShowJob, Bounded
  <2>7. CASE Launch(h)
    <3>1. /\ UNCHANGED <<legacy, dashboard, index, moves, faults, served>>
          /\ scans' = [scans EXCEPT ![requests[h].key].pc = "mark",
                                    ![requests[h].key].started = @ + 1]
      BY <2>7 DEF Launch
    <3>2. \A k \in Keys : scans'[k].tries = scans[k].tries
      BY <1>3, <3>1 DEF Typed, ScanType
    <3> QED
      BY <3>1, <3>2 DEF Bounded
  <2>8. CASE LaunchFails(h)
    BY <2>8, FaultsAreBounded DEF LaunchFails, Bounded
  <2>9. CASE ShowFailure(h)
    <3>1. PICK p, q \in Phases : Show(p, q)
      BY <2>9, ShownIsAPhase DEF ShowFailure
    <3> QED
      BY <1>1, <2>9, <3>1 DEF ShowFailure, Bounded
  <2>10. ASSUME NEW k \in Keys, CancelWorkflow(h, k)
         PROVE  Bounded'
    <3>1. \A l \in Keys : scans'[l].tries = scans[l].tries
      BY <1>3, <2>10 DEF CancelWorkflow, Typed, ScanType
    <3>2. served < MaxRequests /\ served' = served + 1
      BY <2>10 DEF CancelWorkflow
    <3>3. served' \in 0..MaxRequests
      BY <1>4, <3>2, OneMore DEF Bounded
    <3>4. UNCHANGED <<legacy, dashboard, index, moves, faults>>
      BY <2>10 DEF CancelWorkflow
    <3>5. \A l \in Keys : scans'[l].tries \in 0..MaxAttempts
      BY <3>1 DEF Bounded
    <3> QED
      BY <3>3, <3>4, <3>5 DEF Bounded
  <2>11. CASE MarkCancelled(h)
    BY <2>11 DEF MarkCancelled, Bounded
  <2>12. CASE ShowCancelled(h)
    <3>1. PICK p, q \in Phases : Show(p, q)
      <4>1. "cancelled" \in Phases
        BY DEF Phases
      <4> QED
        BY <1>2, <2>12, <4>1 DEF ShowCancelled
    <3> QED
      BY <1>1, <2>12, <3>1 DEF ShowCancelled, Bounded
  <2> QED
    BY <1>8, <2>1, <2>2, <2>3, <2>4, <2>5, <2>6, <2>7, <2>8, <2>9, <2>10, <2>11,
       <2>12 DEF Request
<1>9. ASSUME NEW k \in Keys, Scan(k)
      PROVE  Bounded'
  <2>1. {"running", "pending", "complete", "failed"} \subseteq Phases
    BY DEF Phases
  <2>2. \/ UNCHANGED dashboard
        \/ \E p, q \in Phases : Show(p, q)
    <3>1. CASE Progress(k) \/ Phase1(k) \/ Phase2(k) \/ PhaseFails(k)
      BY <2>1, <3>1 DEF Progress, Phase1, Phase2, PhaseFails
    <3>2. CASE CredentialLost(k)
      BY <1>2, <2>1, <3>2 DEF CredentialLost
    <3>3. CASE MarkRunning(k) \/ Retry(k) \/ GiveUp(k) \/ Succeed(k) \/ Stop(k)
      BY <3>3 DEF MarkRunning, Retry, GiveUp, Succeed, Stop
    <3> QED
      BY <1>9, <3>1, <3>2, <3>3 DEF Scan
  <2>3. dashboard' \in [phase1: Phases, phase2: Phases]
    BY <1>1, <2>2 DEF Bounded
  <2>4. /\ UNCHANGED <<legacy, moves, served>>
        /\ index' \in {index, tip}
        /\ Fault \/ UNCHANGED faults
    <3>1. CASE Progress(k) \/ Phase1(k) \/ Phase2(k) \/ PhaseFails(k)
      BY <3>1 DEF Progress, Phase1, Phase2, PhaseFails
    <3>2. CASE CredentialLost(k)
      BY <3>2 DEF CredentialLost
    <3>3. CASE MarkRunning(k) \/ Retry(k) \/ GiveUp(k) \/ Succeed(k) \/ Stop(k)
      BY <3>3 DEF MarkRunning, Retry, GiveUp, Succeed, Stop
    <3> QED
      BY <1>9, <3>1, <3>2, <3>3 DEF Scan
  <2>5. \/ \A l \in Keys : scans'[l].tries = scans[l].tries
        \/ /\ scans[k].tries + 1 < MaxAttempts
           /\ scans'[k].tries = scans[k].tries + 1
           /\ \A l \in Keys \ {k} : scans'[l] = scans[l]
    <3>1. CASE Retry(k)
      <4>1. PICK s : scans' = [scans EXCEPT ![k].pc = s, ![k].tries = @ + 1]
        BY <3>1 DEF Retry
      <4>2. /\ scans'[k].tries = scans[k].tries + 1
            /\ \A l \in Keys \ {k} : scans'[l] = scans[l]
        BY <1>3, <4>1 DEF Typed, ScanType
      <4> QED
        BY <3>1, <4>2 DEF Retry
    <3>2. CASE Progress(k)
      BY <3>2 DEF Progress
    <3>3. CASE ~Retry(k) /\ ~Progress(k)
      <4>1. PICK s : scans' = [scans EXCEPT ![k].pc = s]
        <5>1. CASE MarkRunning(k)
          BY <5>1 DEF MarkRunning
        <5>2. CASE Phase1(k) \/ Phase2(k) \/ PhaseFails(k) \/ CredentialLost(k)
          BY <5>2 DEF Phase1, Phase2, PhaseFails, CredentialLost
        <5>3. CASE GiveUp(k) \/ Succeed(k) \/ Stop(k)
          BY <5>3 DEF GiveUp, Succeed, Stop
        <5> QED
          BY <1>9, <3>3, <5>1, <5>2, <5>3 DEF Scan
      <4> QED
        BY <1>3, <4>1 DEF Typed, ScanType
    <3> QED
      BY <3>1, <3>2, <3>3
  <2>6. \A l \in Keys : scans'[l].tries \in 0..MaxAttempts
    <3>1. scans[k].tries + 1 < MaxAttempts => scans[k].tries + 1 \in 0..MaxAttempts
      BY <1>3, <1>4
    <3> QED
      BY <2>5, <3>1 DEF Bounded
  <2> QED
    BY <2>3, <2>4, <2>6, FaultsAreBounded DEF Bounded, Typed
<1> QED
  BY <1>5, <1>6, <1>7, <1>8, <1>9 DEF Next

(* A commit's job is started once however many requests ask for it, and no *)
(* queued one is left behind; every variable keeps its type.               *)
THEOREM StartsStayTrue == AllSpec => []ScansAreStarted
<1>1. Init => Bounded
  BY ScanStartAssumption DEF Init, Bounded, Phases
<1>2. Spec => []Bounded
  BY <1>1, BoundsAreKept, JobsAreInHands, PTL DEF Spec
<1>3. Typed /\ Bounded => TypeOK
  <2> SUFFICES ASSUME Typed, Bounded
               PROVE  TypeOK
    OBVIOUS
  <2>1. scans \in [Keys -> [pc: {"none", "done"} \cup Running, tries: 0..MaxAttempts,
                            started: Nat, cancelled: BOOLEAN]]
    <3>1. ASSUME NEW k \in Keys
          PROVE  scans[k] \in [pc: {"none", "done"} \cup Running, tries: 0..MaxAttempts,
                               started: Nat, cancelled: BOOLEAN]
      BY <3>1 DEF Typed, Bounded, ScanType
    <3> QED
      BY <3>1 DEF Typed
  <2> QED
    BY <2>1, Records DEF Typed, Bounded, TypeOK
<1> QED
  BY <1>2, <1>3, StartsKeepTheirSpec, JobsAreInHands, ScansStartOnce,
     QueuedJobsHaveAnOwner, PTL DEF ScansAreStarted

-----------------------------------------------------------------------------
(* The catalog.  A scan under way has a dashboard document, which nobody   *)
(* takes away, so that the clean-up finds its repository tracked; one that *)
(* starts while the clones are visited would not be, but a handler waits   *)
(* for the event loop.                                                     *)
LEMMA CatalogKeepsItsSpec == AllSpec => K!Spec
<1>1. AllInit => K!Init
  BY DEF AllInit
<1>2. [AllNext]_allVars => [K!Next]_(K!vars)
  BY DEF AllNext, allVars, Searching, Indexing, LegacyIndexing, Graphing, Parsing,
         Chatting, Beginning, Cataloguing, catalogVars, K!vars, K!Next
<1> QED
  BY <1>1, <1>2, PTL DEF AllSpec, K!Spec

CatalogInv ==
    /\ K!TypeOK
    /\ \A u \in Members, r \in Repos : catalogScans[<<u, r>>] # "none" =>
          /\ dashboards[<<u, r>>] # K!Nothing
          /\ cleaner.busy => r \in cleaner.tracked

LEMMA CatalogBegins == K!Init => CatalogInv
<1> SUFFICES ASSUME K!Init
             PROVE  CatalogInv
  OBVIOUS
<1>1. K!TypeOK
  BY CatalogAssumption DEF K!Init, K!TypeOK
<1> QED
  BY <1>1 DEF K!Init, CatalogInv, K!Index

LEMMA CatalogStep == CatalogInv /\ [K!Next]_(K!vars) => CatalogInv'
<1> SUFFICES ASSUME CatalogInv, [K!Next]_(K!vars)
             PROVE  CatalogInv'
  OBVIOUS
<1> USE DEF K!Index
<1>1. /\ dashboards \in [Members \X Repos -> [phase1: K!Phase, phase2: K!Phase] \cup {K!Nothing}]
      /\ catalogScans \in [Members \X Repos -> K!Busy \cup {"none"}]
      /\ cleaner \in [busy: BOOLEAN, tracked: SUBSET Repos]
      /\ started \in 0..CatalogScans /\ asked \in 0..CatalogRequests
      /\ CatalogScans \in Nat /\ CatalogRequests \in Nat
  BY CatalogAssumption DEF CatalogInv, K!TypeOK
<1>2. K!Started => started' \in 0..CatalogScans
  BY <1>1, OneMore DEF K!Started
<1>3. K!Asked => asked' \in 0..CatalogRequests /\ ~cleaner.busy
  BY <1>1, OneMore DEF K!Asked
<1>4. \A p, q \in K!Phase : [phase1 |-> p, phase2 |-> q] # K!Nothing
  BY DEF K!Phase, K!Nothing
<1>5. CASE UNCHANGED K!vars
  BY <1>5 DEF CatalogInv, K!TypeOK, K!vars
<1>6. ASSUME NEW u \in Members, NEW r \in Repos, K!StartScan(u, r)
      PROVE  CatalogInv'
  <2>1. PICK d : d = [phase1 |-> "running", phase2 |-> "pending"]
    OBVIOUS
  <2>2. d \in [phase1: K!Phase, phase2: K!Phase] /\ d # K!Nothing
    BY <1>4, <2>1 DEF K!Phase
  <2>3. /\ dashboards' = [dashboards EXCEPT ![<<u, r>>] = d]
        /\ catalogScans' = [catalogScans EXCEPT ![<<u, r>>] = "clone"]
        /\ UNCHANGED <<runs, share, stars, clones, cleaner, asked>>
        /\ K!Started /\ ~cleaner.busy
    BY <1>6, <2>1 DEF K!StartScan
  <2>4. K!TypeOK'
    BY <1>1, <1>2, <2>2, <2>3 DEF CatalogInv, K!TypeOK, K!Busy
  <2>5. \A v \in Members, q \in Repos : catalogScans'[<<v, q>>] # "none" =>
          dashboards'[<<v, q>>] # K!Nothing
    BY <1>1, <2>2, <2>3 DEF CatalogInv
  <2> QED
    BY <2>3, <2>4, <2>5 DEF CatalogInv
<1>7. ASSUME NEW u \in Members, NEW r \in Repos, K!Connect(u, r)
      PROVE  CatalogInv'
  <2>1. PICK d : d = [phase1 |-> "complete", phase2 |-> "complete"]
    OBVIOUS
  <2>2. d \in [phase1: K!Phase, phase2: K!Phase] /\ d # K!Nothing
    BY <1>4, <2>1 DEF K!Phase
  <2>3. /\ dashboards' = [dashboards EXCEPT ![<<u, r>>] = d]
        /\ UNCHANGED <<runs, share, stars, catalogScans, clones, cleaner, asked>>
        /\ K!Started
    BY <1>7, <2>1 DEF K!Connect
  <2>4. K!TypeOK'
    BY <1>1, <1>2, <2>2, <2>3 DEF CatalogInv, K!TypeOK
  <2>5. \A v \in Members, q \in Repos : catalogScans'[<<v, q>>] # "none" =>
          dashboards'[<<v, q>>] # K!Nothing
    BY <1>1, <2>2, <2>3 DEF CatalogInv
  <2> QED
    BY <2>3, <2>4, <2>5 DEF CatalogInv
<1>8. ASSUME NEW u \in Members, NEW r \in Repos, K!Clone(u, r)
      PROVE  CatalogInv'
  <2>1. /\ catalogScans[<<u, r>>] = "clone"
        /\ catalogScans' = [catalogScans EXCEPT ![<<u, r>>] = "phase1"]
        /\ clones' = clones \cup {r}
        /\ UNCHANGED <<dashboards, runs, share, stars, cleaner, started, asked>>
    BY <1>8 DEF K!Clone
  <2>2. K!TypeOK'
    BY <1>1, <2>1 DEF CatalogInv, K!TypeOK, K!Busy
  <2>3. \A v \in Members, q \in Repos :
          catalogScans'[<<v, q>>] # "none" => catalogScans[<<v, q>>] # "none"
    BY <1>1, <2>1
  <2> QED
    BY <2>1, <2>2, <2>3 DEF CatalogInv
<1>9. ASSUME NEW u \in Members, NEW r \in Repos, NEW result \in K!Phase,
             K!EndPhase(u, r, result)
      PROVE  CatalogInv'
  <2>1. PICK p, q \in K!Phase, then \in {"phase2", "none"} :
          /\ dashboards' = [dashboards EXCEPT ![<<u, r>>] = [phase1 |-> p, phase2 |-> q]]
          /\ catalogScans' = [catalogScans EXCEPT ![<<u, r>>] = then]
    BY <1>9, Zenon DEF K!EndPhase, K!Phase
  <2>2. /\ catalogScans[<<u, r>>] # "none"
        /\ clones' \subseteq clones
        /\ UNCHANGED <<runs, share, stars, cleaner, started, asked>>
    BY <1>9 DEF K!EndPhase
  <2>3. PICK d : d = [phase1 |-> p, phase2 |-> q]
    OBVIOUS
  <2>4. d \in [phase1: K!Phase, phase2: K!Phase] /\ d # K!Nothing
    BY <1>4, <2>3
  <2>5. dashboards' = [dashboards EXCEPT ![<<u, r>>] = d]
    BY <2>1, <2>3
  <2>6. K!TypeOK'
    BY <1>1, <2>1, <2>2, <2>4, <2>5 DEF CatalogInv, K!TypeOK, K!Busy
  <2>7. \A v \in Members, w \in Repos :
          /\ catalogScans'[<<v, w>>] # "none" => catalogScans[<<v, w>>] # "none"
          /\ dashboards[<<v, w>>] # K!Nothing => dashboards'[<<v, w>>] # K!Nothing
    BY <1>1, <2>1, <2>2, <2>4, <2>5
  <2> QED
    BY <2>2, <2>6, <2>7 DEF CatalogInv
<1>10. ASSUME NEW r \in Repos, K!Nightly(r)
       PROVE  CatalogInv'
  <2>1. /\ K!Started \/ UNCHANGED started
        /\ \E s \in {"running", "completed", "failed"} : runs' = [runs EXCEPT ![r] = s]
        /\ UNCHANGED <<dashboards, share, stars, catalogScans, clones, cleaner, asked>>
    BY <1>10 DEF K!Nightly
  <2>2. K!TypeOK'
    BY <1>2, <2>1 DEF CatalogInv, K!TypeOK
  <2> QED
    BY <2>1, <2>2 DEF CatalogInv
<1>11. ASSUME NEW u \in Members, NEW r \in Repos, NEW word \in {"public", "private"},
              K!SetVisibility(u, r, word)
       PROVE  CatalogInv'
  BY <1>3, <1>11 DEF K!SetVisibility, CatalogInv, K!TypeOK
<1>12. ASSUME NEW u \in Members, NEW r \in Repos, NEW on \in BOOLEAN, K!Star(u, r, on)
       PROVE  CatalogInv'
  <2>1. /\ K!Asked
        /\ stars' = IF on THEN stars \cup {<<u, r>>} ELSE stars \ {<<u, r>>}
        /\ UNCHANGED <<dashboards, runs, share, catalogScans, clones, cleaner, started>>
    BY <1>12 DEF K!Star
  <2>2. stars' \subseteq Members \X Repos
    BY <2>1 DEF CatalogInv, K!TypeOK
  <2> QED
    BY <1>3, <2>1, <2>2 DEF CatalogInv, K!TypeOK
<1>13. CASE K!CleanUp
  <2>1. /\ K!Asked
        /\ cleaner' = [busy |-> TRUE, tracked |-> K!Tracked]
        /\ UNCHANGED <<dashboards, runs, share, stars, catalogScans, clones, started>>
    BY <1>13 DEF K!CleanUp
  <2>2. K!Tracked \subseteq Repos
    BY DEF K!Tracked
  <2>3. K!TypeOK'
    BY <1>3, <2>1, <2>2 DEF CatalogInv, K!TypeOK
  <2>4. \A u \in Members, r \in Repos :
          dashboards[<<u, r>>] # K!Nothing => r \in K!Tracked
    BY DEF K!Tracked, K!JobsOf
  <2> QED
    BY <2>1, <2>3, <2>4 DEF CatalogInv
<1>14. ASSUME NEW r \in Repos, K!RemoveClone(r)
       PROVE  CatalogInv'
  BY <1>14 DEF K!RemoveClone, CatalogInv, K!TypeOK
<1>15. CASE K!CleanedUp
  <2>1. /\ cleaner' = [busy |-> FALSE, tracked |-> {}]
        /\ UNCHANGED <<dashboards, runs, share, stars, catalogScans, clones, started, asked>>
    BY <1>15 DEF K!CleanedUp
  <2> QED
    BY <2>1 DEF CatalogInv, K!TypeOK
<1> QED
  BY <1>5, <1>6, <1>7, <1>8, <1>9, <1>10, <1>11, <1>12, <1>13, <1>14, <1>15 DEF K!Next

LEMMA CatalogIsRight == AllSpec => []CatalogInv
BY CatalogBegins, CatalogStep, CatalogKeepsItsSpec, PTL DEF K!Spec

(* Whatever others and the nightly runner did, a private index answers     *)
(* only those who completed a scan of it themselves.                       *)
THEOREM CatalogStaysPrivate == AllSpec => []PrivateIsForMembers
<1>1. K!PrivateIsForMembers
  BY DEF K!PrivateIsForMembers, K!ChatAllowed, K!Shared, K!Snapshot, K!Completed
<1>2. CatalogInv => PrivateIsForMembers
  BY <1>1 DEF CatalogInv, PrivateIsForMembers
<1> QED
  BY <1>2, CatalogIsRight, PTL

(* The clean-up takes no clone from under a scan that is reading it,       *)
(* however many scans go on and clone while it visits the directories.     *)
THEOREM ScansKeepTheirClones == AllSpec => CleanupSparesScans
<1>1. ASSUME CatalogInv, NEW r \in Repos, K!RemoveClone(r), NEW u \in Members
      PROVE  catalogScans[u, r] \notin {"phase1", "phase2"}
  BY <1>1 DEF CatalogInv, K!RemoveClone
<1>2. CatalogInv =>
        \A r \in Repos : K!RemoveClone(r) =>
            \A u \in Members : catalogScans[u, r] \notin {"phase1", "phase2"}
  BY <1>1
<1> QED
  BY <1>2, CatalogIsRight, PTL DEF CleanupSparesScans, K!CleanupSparesScans

-----------------------------------------------------------------------------
(* CodeChat.  What the model is given tells of every call and its result,  *)
(* and not only when it is asked; the records that calls have returned are *)
(* those collected, which have an earlier turn, and those of this turn's   *)
(* calls; and a stream says neither done nor error nor sources before its  *)
(* end, but for the sources before the last call of the model.             *)

ChatResults == {"some", "none", "missing", "waiting"}
ChatCall == [tool : ChatTools, result : ChatResults]
ChatRecord == [turn : Nat, call : Nat, found : BOOLEAN]
ChatMessage == [role : {"ai"}, calls : Seq(Nat \X Nat)]
                 \cup [role : {"tool"}, id : Nat \X Nat]
ChatEventTypes == {"annotations", "manager_instructions", "memory_sources", "chunk",
                   "tool_calls", "sources", "error", "done", "annotations_created"}
ChatEvent == [type : ChatEventTypes, turn : Nat]

ChatTyped ==
    /\ chat \in C!Chat
    /\ chatPc \in {"load", "idle", "ask", "tools", "final", "settle", "ended", "gone"}
    /\ turn \in Nat /\ got \in Nat
    /\ messages \in Seq(ChatMessage)
    /\ chatCalls \in Seq(ChatCall)
    /\ IsFiniteSet(sources) /\ sources \subseteq ChatRecord
    /\ \A s \in sources : s.turn < turn
    /\ out \in Seq(ChatEvent)

(* Messages in which each call of the model has its result at its place. *)
ToldAt(m, i) ==
    LET end == i + Len(m[i].calls)
    IN /\ end <= Len(m)
       /\ \A k \in DOMAIN m[i].calls :
            m[i + k] = [role |-> "tool", id |-> m[i].calls[k]]
       /\ end = Len(m) \/ m[end + 1].role = "ai"

Told(m) == \A i \in DOMAIN m : m[i].role = "ai" => ToldAt(m, i)

(* The calls of this turn that returned a record, and the count of all. *)
Recorded == {k \in DOMAIN chatCalls : chatCalls[k].result \in {"some", "missing"}}

Counted ==
    /\ chatPc \in {"load", "idle", "ask", "tools", "final"} =>
         got = Cardinality(sources) + Cardinality(Recorded)
    /\ chatPc \in {"load", "idle", "ask", "final"} => chatCalls = <<>>

(* The places of an event in a stream. *)
At(o, type) == {i \in DOMAIN o : o[i].type = type}

Silent(o) == At(o, "done") = {} /\ At(o, "error") = {}

OneSource(o, n) == \E i \in At(o, "sources") : At(o, "sources") = {i} /\ o[i].turn = n

Ended(o, n) ==
    /\ \A i, j \in At(o, "done") : i = j
    /\ \A i, j \in At(o, "error") : i = j
    /\ At(o, "done") \cup At(o, "error") # {}
    /\ \A i \in At(o, "done"), j \in DOMAIN o : j > i => o[j].type = "annotations_created"
    /\ At(o, "error") = {} /\ n > 0 => OneSource(o, n)

Streamed ==
    C!Streams =>
        /\ chatPc \in {"load", "idle", "ask", "tools"} => Silent(out) /\ At(out, "sources") = {}
        /\ chatPc = "final" => Silent(out) /\ OneSource(out, got)
        /\ chatPc \in {"settle", "ended"} => Ended(out, got)

ChatInv == ChatTyped /\ Told(messages) /\ Counted /\ Streamed
             /\ (chatPc = "final" => C!Streams)

LEMMA ChatCounts == \A S : C!Cardinality(S) = Cardinality(S)
BY DEF C!Cardinality, Cardinality

LEMMA AnswersAreResults == \A tool : C!Answers(tool) \subseteq {"some", "none", "missing"}
BY DEF C!Answers, C!SymbolCode, C!FileCode, C!Annotations, C!Snippets

LEMMA Joined ==
    ASSUME NEW S, NEW x \in Seq(S), NEW y \in Seq(S)
    PROVE  /\ x \o y \in Seq(S) /\ Len(x \o y) = Len(x) + Len(y)
           /\ Len(x) \in Nat /\ Len(y) \in Nat
OBVIOUS

LEMMA Placed ==
    ASSUME NEW S, NEW x \in Seq(S), NEW y \in Seq(S)
    PROVE  /\ \A i \in 1..Len(x) : (x \o y)[i] = x[i]
           /\ \A i \in 1..Len(y) : (x \o y)[Len(x) + i] = y[i]
OBVIOUS

(* A round of messages is told. *)
LEMMA RoundsAreTold ==
    ASSUME NEW m \in Seq(ChatMessage), Told(m), NEW t \in Nat, NEW n \in Nat
    PROVE  LET r == <<[role |-> "ai", calls |-> [k \in 1..n |-> <<t, k>>]]>>
                      \o [k \in 1..n |-> [role |-> "tool", id |-> <<t, k>>]]
           IN m \o r \in Seq(ChatMessage) /\ Told(m \o r)
<1> DEFINE c == [k \in 1..n |-> <<t, k>>]
           a == [role |-> "ai", calls |-> c]
           s == [k \in 1..n |-> [role |-> "tool", id |-> <<t, k>>]]
           r == <<a>> \o s
           p == m \o r
           size == Len(m)
<1>1. c \in Seq(Nat \X Nat) /\ Len(c) = n /\ DOMAIN c = 1..n
  OBVIOUS
<1>2. a \in ChatMessage /\ a.role = "ai" /\ a.calls = c
  BY <1>1 DEF ChatMessage
<1>3. s \in Seq(ChatMessage) /\ Len(s) = n
  BY DEF ChatMessage
<1>4. \A k \in 1..n : s[k] = [role |-> "tool", id |-> c[k]]
  OBVIOUS
<1>5. \A k \in 1..n : s[k].role = "tool"
  <2> TAKE k \in 1..n
  <2>1. s[k] = [role |-> "tool", id |-> <<t, k>>]
    OBVIOUS
  <2> HIDE DEF s
  <2> QED
    BY <2>1
<1>6. <<a>> \in Seq(ChatMessage) /\ Len(<<a>>) = 1 /\ <<a>>[1] = a
  BY <1>2
<1> HIDE DEF c, a, s
<1>7. r \in Seq(ChatMessage) /\ Len(r) = n + 1
  BY ONLY <1>3, <1>6, n \in Nat, Joined
<1>8. r[1] = a
  BY ONLY <1>3, <1>6, Placed
<1>9. \A k \in 1..n : r[1 + k] = s[k]
  BY ONLY <1>3, <1>6, Placed
<1> HIDE DEF r
<1>10. size \in Nat /\ m \in Seq(ChatMessage)
  OBVIOUS
<1>11. p \in Seq(ChatMessage)
  BY ONLY <1>7, <1>10, Joined
<1>12. Len(p) = size + n + 1
  BY ONLY <1>7, <1>10, n \in Nat, Joined
<1>13. DOMAIN p = 1..(size + n + 1) /\ DOMAIN m = 1..size
  BY <1>10, <1>11, <1>12
<1>14. \A i \in 1..size : p[i] = m[i]
  BY ONLY <1>7, <1>10, Placed
<1>15. \A k \in 1..(n + 1) : p[size + k] = r[k]
  BY ONLY <1>7, <1>10, Placed
<1>16. p[size + 1] = a
  <2>1. 1 \in 1..(n + 1)
    OBVIOUS
  <2> QED
    BY ONLY <2>1, <1>8, <1>15
<1>17. \A k \in 1..n : p[size + 1 + k] = s[k]
  <2> TAKE k \in 1..n
  <2>1. 1 + k \in 1..(n + 1) /\ size + (1 + k) = size + 1 + k
    BY ONLY <1>10, n \in Nat, k \in 1..n
  <2>2. p[size + (1 + k)] = r[1 + k]
    BY ONLY <2>1, <1>15
  <2> QED
    BY ONLY <2>1, <2>2, <1>9, k \in 1..n
<1> HIDE DEF p, size
<1>18. SUFFICES ASSUME NEW i \in 1..(size + n + 1), p[i].role = "ai"
                PROVE  ToldAt(p, i)
  BY <1>11, <1>13 DEF Told, p, r, a, s, c
<1>19. CASE i <= size
  <2>1. i \in 1..size
    BY ONLY <1>10, <1>19, i \in 1..(size + n + 1), n \in Nat
  <2>2. i \in DOMAIN m /\ p[i] = m[i] /\ m[i].role = "ai"
    BY <1>13, <1>14, <1>18, <2>1
  <2>3. ToldAt(m, i)
    BY <2>2 DEF Told
  <2>4. m[i].calls \in Seq(Nat \X Nat)
    BY <2>2 DEF ChatMessage
  <2>5. Len(m[i].calls) \in Nat /\ DOMAIN m[i].calls = 1..Len(m[i].calls)
    BY ONLY <2>4
  <2> DEFINE d == m[i].calls
             end == i + Len(d)
  <2>6. /\ end <= size
        /\ \A k \in DOMAIN d : m[i + k] = [role |-> "tool", id |-> d[k]]
        /\ end = size \/ m[end + 1].role = "ai"
    BY <2>3 DEF ToldAt, size
  <2> HIDE DEF d
  <2>7. end \in 1..size
    <3>1. Len(d) \in Nat
      BY ONLY <2>5 DEF d
    <3>2. i \in Nat /\ i >= 1
      BY ONLY <1>10, <2>1
    <3> QED
      BY ONLY <1>10, <2>6, <3>1, <3>2
  <2>8. \A k \in DOMAIN d : p[i + k] = [role |-> "tool", id |-> d[k]]
    <3> TAKE k \in DOMAIN d
    <3>1. i + k \in 1..size
      BY <2>1, <2>5, <2>6, <1>10 DEF d
    <3> QED
      BY ONLY <3>1, <1>14, <2>6, k \in DOMAIN d
  <2>9. p[end + 1].role = "ai"
    <3>1. CASE end = size
      BY ONLY <3>1, <1>16, <1>2
    <3>2. CASE end # size
      <4>1. end + 1 \in 1..size
        BY ONLY <1>10, <2>7, <3>2
      <4> QED
        BY ONLY <1>14, <2>6, <3>2, <4>1
    <3> QED
      BY <3>1, <3>2
  <2>10. end <= Len(p)
    BY ONLY <1>10, <1>12, <2>7, n \in Nat
  <2>11. p[i].calls = d
    BY <2>2 DEF d
  <2> QED
    BY ONLY <2>8, <2>9, <2>10, <2>11 DEF ToldAt
<1>20. CASE i = size + 1
  <2>1. p[i].calls = c
    BY ONLY <1>2, <1>16, <1>20
  <2>2. \A k \in DOMAIN c : p[i + k] = [role |-> "tool", id |-> c[k]]
    BY ONLY <1>1, <1>4, <1>17, <1>20
  <2>3. i + Len(c) = Len(p)
    BY ONLY <1>1, <1>10, <1>12, <1>20, n \in Nat
  <2> QED
    BY ONLY <2>1, <2>2, <2>3, <1>10, <1>12, n \in Nat DEF ToldAt
<1>21. CASE i > size + 1
  <2> DEFINE k == i - size - 1
  <2>1. k \in 1..n /\ i = size + 1 + k
    BY ONLY <1>10, <1>21, i \in 1..(size + n + 1), n \in Nat
  <2> HIDE DEF k
  <2>2. p[i].role = "tool"
    BY ONLY <2>1, <1>17, <1>5
  <2> QED
    BY <1>18, <2>2
<1> QED
  BY ONLY <1>10, <1>19, <1>20, <1>21, i \in 1..(size + n + 1), n \in Nat

(* One event more, and two. *)
LEMMA OneSent ==
    ASSUME NEW o \in Seq(ChatEvent), NEW e \in ChatEvent
    PROVE  /\ o \o <<e>> \in Seq(ChatEvent)
           /\ \A type : At(o \o <<e>>, type)
                = At(o, type) \cup (IF e.type = type THEN {Len(o) + 1} ELSE {})
           /\ \A type : e.type # type => At(o \o <<e>>, type) = At(o, type)
           /\ \A i \in DOMAIN o : (o \o <<e>>)[i] = o[i]
           /\ (o \o <<e>>)[Len(o) + 1] = e
           /\ DOMAIN (o \o <<e>>) = 1..(Len(o) + 1) /\ DOMAIN o = 1..Len(o) /\ Len(o) \in Nat
<1>1. /\ o \o <<e>> \in Seq(ChatEvent)
      /\ \A i \in DOMAIN o : (o \o <<e>>)[i] = o[i]
      /\ (o \o <<e>>)[Len(o) + 1] = e
      /\ DOMAIN (o \o <<e>>) = 1..(Len(o) + 1) /\ DOMAIN o = 1..Len(o) /\ Len(o) \in Nat
  OBVIOUS
<1> QED
  BY <1>1 DEF At

LEMMA TwoSent ==
    ASSUME NEW o \in Seq(ChatEvent), NEW e \in ChatEvent, NEW d \in ChatEvent
    PROVE  /\ o \o <<e, d>> \in Seq(ChatEvent)
           /\ \A type : At(o \o <<e, d>>, type)
                = At(o, type) \cup (IF e.type = type THEN {Len(o) + 1} ELSE {})
                              \cup (IF d.type = type THEN {Len(o) + 2} ELSE {})
           /\ \A i \in DOMAIN o : (o \o <<e, d>>)[i] = o[i]
           /\ (o \o <<e, d>>)[Len(o) + 1] = e
           /\ (o \o <<e, d>>)[Len(o) + 2] = d
           /\ DOMAIN (o \o <<e, d>>) = 1..(Len(o) + 2) /\ DOMAIN o = 1..Len(o) /\ Len(o) \in Nat
<1>1. <<e, d>> \in Seq(ChatEvent) /\ Len(<<e, d>>) = 2 /\ <<e, d>>[1] = e /\ <<e, d>>[2] = d
  OBVIOUS
<1>2. /\ o \o <<e, d>> \in Seq(ChatEvent) /\ Len(o \o <<e, d>>) = Len(o) + 2
      /\ Len(o) \in Nat /\ DOMAIN o = 1..Len(o)
  BY <1>1, Joined
<1>3. DOMAIN (o \o <<e, d>>) = 1..(Len(o) + 2)
  BY <1>2
<1>4. /\ \A i \in DOMAIN o : (o \o <<e, d>>)[i] = o[i]
      /\ (o \o <<e, d>>)[Len(o) + 1] = e
      /\ (o \o <<e, d>>)[Len(o) + 2] = d
  BY <1>1, <1>2, Placed
<1> QED
  BY <1>2, <1>3, <1>4 DEF At

Loud == {"done", "error", "sources"}
Quiet(s) == \A i \in DOMAIN s : s[i].type \notin Loud

LEMMA QuietlySent ==
    ASSUME NEW o \in Seq(ChatEvent), NEW s \in Seq(ChatEvent), Quiet(s)
    PROVE  /\ o \o s \in Seq(ChatEvent)
           /\ Quiet(o) => Quiet(o \o s)
           /\ \A type \in Loud : At(o \o s, type) = At(o, type)
           /\ \A i \in DOMAIN o : (o \o s)[i] = o[i]
<1>1. /\ o \o s \in Seq(ChatEvent) /\ Len(o \o s) = Len(o) + Len(s)
      /\ Len(o) \in Nat /\ Len(s) \in Nat
  BY Joined
<1>2. /\ DOMAIN (o \o s) = 1..(Len(o) + Len(s)) /\ DOMAIN o = 1..Len(o) /\ DOMAIN s = 1..Len(s)
  BY <1>1
<1>3. \A i \in DOMAIN o : (o \o s)[i] = o[i]
  BY <1>2, Placed
<1>4. \A i \in DOMAIN (o \o s) : i \notin DOMAIN o => (o \o s)[i].type \notin Loud
  <2> SUFFICES ASSUME NEW i \in DOMAIN (o \o s), i \notin DOMAIN o
               PROVE  (o \o s)[i].type \notin Loud
    OBVIOUS
  <2> DEFINE j == i - Len(o)
  <2>1. j \in 1..Len(s) /\ i = Len(o) + j
    BY <1>1, <1>2
  <2>2. (o \o s)[Len(o) + j] = s[j]
    BY <2>1, Placed
  <2>3. s[j].type \notin Loud
    BY <1>2, <2>1 DEF Quiet
  <2> HIDE DEF j
  <2> QED
    BY ONLY <2>1, <2>2, <2>3
<1>5. DOMAIN o \subseteq DOMAIN (o \o s)
  BY <1>1, <1>2
<1> QED
  BY <1>1, <1>3, <1>4, <1>5 DEF At, Quiet

(* What is quiet changes nothing of how a stream ends. *)
LEMMA QuietKeeps ==
    ASSUME NEW o \in Seq(ChatEvent), NEW s \in Seq(ChatEvent), Quiet(s), NEW n
    PROVE  /\ Silent(o) => Silent(o \o s)
           /\ OneSource(o, n) => OneSource(o \o s, n)
           /\ At(o \o s, "sources") = At(o, "sources")
<1>1. /\ At(o \o s, "done") = At(o, "done") /\ At(o \o s, "error") = At(o, "error")
      /\ At(o \o s, "sources") = At(o, "sources")
  BY QuietlySent DEF Loud
<1>2. \A i \in At(o, "sources") : (o \o s)[i] = o[i]
  BY QuietlySent DEF At
<1> QED
  BY <1>1, <1>2 DEF Silent, OneSource

LEMMA EndsBadly ==
    ASSUME NEW o \in Seq(ChatEvent), NEW e \in ChatEvent, Silent(o), e.type = "error", NEW n
    PROVE  Ended(o \o <<e>>, n)
<1>1. At(o \o <<e>>, "error") = {Len(o) + 1} /\ At(o \o <<e>>, "done") = {}
  BY OneSent DEF Silent
<1> QED
  BY <1>1 DEF Ended

LEMMA EndsWell ==
    ASSUME NEW o \in Seq(ChatEvent), NEW e \in ChatEvent, Silent(o), e.type = "done",
           NEW n \in Nat, n > 0 => OneSource(o, n)
    PROVE  Ended(o \o <<e>>, n)
<1> DEFINE p == o \o <<e>>
<1>1. At(p, "done") = {Len(o) + 1} /\ At(p, "error") = {} /\ At(p, "sources") = At(o, "sources")
  BY OneSent, At(o, "done") = {}, At(o, "error") = {} DEF Silent
<1>2. DOMAIN p = 1..(Len(o) + 1) /\ Len(o) \in Nat /\ \A i \in DOMAIN o : p[i] = o[i]
  BY OneSent
<1> HIDE DEF p
<1>3. n > 0 => OneSource(p, n)
  BY <1>1, <1>2 DEF OneSource, At
<1>4. \A j \in DOMAIN p : ~(j > Len(o) + 1)
  BY <1>2
<1>5. Ended(p, n)
  BY <1>1, <1>3, <1>4 DEF Ended
<1> QED
  BY <1>5 DEF p

LEMMA EndsWithBoth ==
    ASSUME NEW o \in Seq(ChatEvent), NEW e \in ChatEvent, NEW d \in ChatEvent, Silent(o),
           e.type = "error", d.type = "done", NEW n
    PROVE  Ended(o \o <<e, d>>, n)
<1> DEFINE p == o \o <<e, d>>
<1>1. At(p, "done") = {Len(o) + 2} /\ At(p, "error") = {Len(o) + 1}
  BY TwoSent DEF Silent
<1>2. DOMAIN p = 1..(Len(o) + 2) /\ Len(o) \in Nat
  BY TwoSent
<1> HIDE DEF p
<1>3. \A j \in DOMAIN p : ~(j > Len(o) + 2)
  BY <1>2
<1>4. Ended(p, n)
  BY <1>1, <1>3 DEF Ended
<1> QED
  BY <1>4 DEF p

LEMMA EndsWithSources ==
    ASSUME NEW o \in Seq(ChatEvent), NEW e \in ChatEvent, NEW d \in ChatEvent, Silent(o),
           At(o, "sources") = {}, e.type = "sources", d.type = "done"
    PROVE  Ended(o \o <<e, d>>, e.turn)
<1> DEFINE p == o \o <<e, d>>
<1>1. At(p, "done") = {Len(o) + 2} /\ At(p, "error") = {} /\ At(p, "sources") = {Len(o) + 1}
  BY TwoSent DEF Silent
<1>2. DOMAIN p = 1..(Len(o) + 2) /\ Len(o) \in Nat /\ p[Len(o) + 1] = e
  BY TwoSent
<1> HIDE DEF p
<1>3. \A j \in DOMAIN p : ~(j > Len(o) + 2)
  BY <1>2
<1>4. OneSource(p, e.turn)
  BY <1>1, <1>2 DEF OneSource
<1>5. Ended(p, e.turn)
  BY <1>1, <1>3, <1>4 DEF Ended
<1> QED
  BY <1>5 DEF p

LEMMA SourcesSent ==
    ASSUME NEW o \in Seq(ChatEvent), NEW e \in ChatEvent, Silent(o), At(o, "sources") = {},
           e.type = "sources"
    PROVE  Silent(o \o <<e>>) /\ OneSource(o \o <<e>>, e.turn)
<1> DEFINE p == o \o <<e>>
<1>1. At(p, "done") = {} /\ At(p, "error") = {} /\ At(p, "sources") = {Len(o) + 1}
  BY OneSent DEF Silent
<1>2. p[Len(o) + 1] = e
  BY OneSent
<1> HIDE DEF p
<1>3. Silent(p) /\ OneSource(p, e.turn)
  BY <1>1, <1>2 DEF Silent, OneSource
<1> QED
  BY <1>3 DEF p

(* A team's annotations come after the end. *)
LEMMA AnnotatedAfter ==
    ASSUME NEW o \in Seq(ChatEvent), NEW e \in ChatEvent, e.type = "annotations_created",
           NEW n, Ended(o, n)
    PROVE  Ended(o \o <<e>>, n)
<1> DEFINE p == o \o <<e>>
<1>1. /\ At(p, "done") = At(o, "done") /\ At(p, "error") = At(o, "error")
      /\ At(p, "sources") = At(o, "sources")
  BY OneSent
<1>2. /\ DOMAIN p = 1..(Len(o) + 1) /\ DOMAIN o = 1..Len(o) /\ Len(o) \in Nat
      /\ \A i \in DOMAIN o : p[i] = o[i]
      /\ p[Len(o) + 1] = e
  BY OneSent
<1> HIDE DEF p
<1>3. \A i \in At(p, "done"), j \in DOMAIN p : j > i => p[j].type = "annotations_created"
  <2> TAKE i \in At(p, "done"), j \in DOMAIN p
  <2>1. j \in DOMAIN o \/ j = Len(o) + 1
    BY <1>2
  <2> QED
    BY <1>1, <1>2, <2>1 DEF Ended
<1>4. OneSource(o, n) => OneSource(p, n)
  BY <1>1, <1>2 DEF OneSource, At
<1>5. Ended(p, n)
  BY <1>1, <1>3, <1>4 DEF Ended
<1> QED
  BY <1>5 DEF p

-----------------------------------------------------------------------------
LEMMA SentIsTyped ==
    ASSUME NEW o \in Seq(ChatEvent), NEW e \in ChatEvent, NEW d \in ChatEvent
    PROVE  o \o <<e>> \in Seq(ChatEvent) /\ o \o <<e, d>> \in Seq(ChatEvent)
BY OneSent, TwoSent

LEMMA ChatBegins == C!Init => ChatInv
<1> SUFFICES ASSUME C!Init
             PROVE  ChatInv
  OBVIOUS
<1>1. ChatTyped
  BY FS_EmptySet DEF C!Init, ChatTyped, C!Chat
<1>2. Told(messages)
  BY DEF C!Init, Told
<1>3. Recorded = {} /\ At(out, "done") = {} /\ At(out, "error") = {} /\ At(out, "sources") = {}
  BY DEF C!Init, Recorded, At
<1>4. Counted
  BY <1>3, FS_EmptySet DEF C!Init, Counted
<1>5. chatPc \in {"load", "idle"}
  BY DEF C!Init
<1>6. Streamed /\ chatPc # "final"
  BY <1>3, <1>5 DEF Streamed, Silent
<1> QED
  BY <1>1, <1>2, <1>4, <1>6 DEF ChatInv

LEMMA OverIsOver ==
    /\ C!Over \in {"settle", "ended"}
    /\ C!Over \notin {"load", "idle", "ask", "tools", "final"}
BY DEF C!Over

(* Where an action leaves the calls and their records alone. *)
LEMMA ChatCountKept ==
    ASSUME Counted, chatCalls' = chatCalls, sources' = sources, got' = got,
           chatPc' = chatPc
             \/ (chatPc \in {"load", "idle"} /\ chatPc' \in {"idle", "ask"})
             \/ chatPc' \in {"settle", "ended", "gone"}
    PROVE  Counted'
<1>1. Recorded' = Recorded
  BY DEF Recorded
<1> QED
  BY <1>1 DEF Counted

LEMMA EventsAreTyped ==
    ASSUME ChatTyped
    PROVE  /\ \A type \in ChatEventTypes :
                C!Event(type) \in ChatEvent /\ C!Event(type).type = type
           /\ C!Chunk \in ChatEvent /\ C!Chunk.type = "chunk"
<1>1. turn \in Nat
  BY DEF ChatTyped
<1>2. ASSUME NEW type \in ChatEventTypes, NEW e, e = [type |-> type, turn |-> turn]
      PROVE  e \in ChatEvent /\ e.type = type
  BY ONLY <1>1, <1>2 DEF ChatEvent
<1>3. "chunk" \in ChatEventTypes
  BY DEF ChatEventTypes
<1> QED
  BY <1>2, <1>3 DEF C!Event, C!Chunk

LEMMA LoadContextKeeps ==
    ASSUME ChatInv, C!LoadContext
    PROVE  ChatInv'
<1> USE DEF C!LoadContext
<1>1. \A any \in BOOLEAN : \A type \in {"annotations", "manager_instructions", "memory_sources"} :
        C!Found(any, type) \in Seq(ChatEvent) /\ Quiet(C!Found(any, type))
  <2> TAKE any \in BOOLEAN
  <2> TAKE type \in {"annotations", "manager_instructions", "memory_sources"}
  <2>1. C!Event(type) \in ChatEvent /\ C!Event(type).type \notin Loud
    BY EventsAreTyped DEF ChatInv, ChatEventTypes, Loud
  <2>2. <<C!Event(type)>> \in Seq(ChatEvent) /\ Quiet(<<C!Event(type)>>)
    BY <2>1 DEF Quiet
  <2>3. <<>> \in Seq(ChatEvent) /\ Quiet(<<>>)
    BY DEF Quiet
  <2> QED
    BY <2>2, <2>3 DEF C!Found
<1>2. PICK notes \in BOOLEAN, rules \in BOOLEAN, memories \in BOOLEAN :
        out' = out \o (C!Found(notes, "annotations") \o C!Found(rules, "manager_instructions")
                         \o C!Found(memories, "memory_sources"))
  BY DEF C!Send
<1> DEFINE x == C!Found(notes, "annotations")
           y == C!Found(rules, "manager_instructions")
           z == C!Found(memories, "memory_sources")
<1>3. x \in Seq(ChatEvent) /\ Quiet(x) /\ y \in Seq(ChatEvent) /\ Quiet(y)
      /\ z \in Seq(ChatEvent) /\ Quiet(z)
  BY <1>1
<1>4. out' = out \o (x \o y \o z)
  BY <1>2
<1> HIDE DEF x, y, z
<1>5. x \o y \in Seq(ChatEvent) /\ Quiet(x \o y)
  BY <1>3, QuietlySent
<1>6. x \o y \o z \in Seq(ChatEvent) /\ Quiet(x \o y \o z)
  BY <1>3, <1>5, QuietlySent
<1>7. out \in Seq(ChatEvent)
  BY DEF ChatInv, ChatTyped
<1>8. out' \in Seq(ChatEvent) /\ (Silent(out) => Silent(out'))
      /\ At(out', "sources") = At(out, "sources")
  BY <1>4, <1>6, <1>7, QuietlySent, QuietKeeps
<1>9. ChatTyped'
  BY <1>8 DEF ChatInv, ChatTyped
<1>10. Counted'
  BY ChatCountKept DEF ChatInv
<1>11. Streamed' /\ chatPc' # "final"
  BY <1>8 DEF ChatInv, Streamed, C!Streams
<1> QED
  BY <1>9, <1>10, <1>11 DEF ChatInv

LEMMA QuietEvents ==
    ASSUME NEW e \in ChatEvent, e.type \notin Loud
    PROVE  <<e>> \in Seq(ChatEvent) /\ Quiet(<<e>>)
BY DEF Quiet

LEMMA SpeakKeeps ==
    ASSUME ChatInv, C!Speak
    PROVE  ChatInv'
<1> USE DEF C!Speak
<1>1. out' = out \o <<C!Chunk>> /\ out \in Seq(ChatEvent)
  BY DEF C!Send, ChatInv, ChatTyped
<1>2. <<C!Chunk>> \in Seq(ChatEvent) /\ Quiet(<<C!Chunk>>)
  BY EventsAreTyped, QuietEvents DEF ChatInv, Loud
<1>3. out' \in Seq(ChatEvent) /\ (Silent(out) => Silent(out'))
      /\ At(out', "sources") = At(out, "sources") /\ (OneSource(out, got) => OneSource(out', got))
  BY <1>1, <1>2, QuietlySent, QuietKeeps
<1>4. ChatTyped'
  BY <1>3 DEF ChatInv, ChatTyped
<1>5. Counted'
  BY ChatCountKept DEF ChatInv
<1>6. Streamed' /\ (chatPc' = "final" => C!Streams')
  BY <1>3 DEF ChatInv, Streamed, C!Streams
<1> QED
  BY <1>4, <1>5, <1>6 DEF ChatInv

LEMMA ReceiveKeeps ==
    ASSUME ChatInv, C!Receive
    PROVE  ChatInv'
<1> USE DEF C!Receive
<1>1. chatPc = "idle" /\ chatPc' \in {C!Over, "ended", "ask"} /\ C!Streams' = C!Streams
  BY DEF C!Streams
<1>2. out \in Seq(ChatEvent) /\ C!Event("error") \in ChatEvent /\ C!Event("done") \in ChatEvent
      /\ C!Event("error").type = "error" /\ C!Event("done").type = "done"
  BY EventsAreTyped DEF ChatInv, ChatTyped, ChatEventTypes
<1>3. out' \in Seq(ChatEvent)
  BY <1>2, SentIsTyped DEF C!Send
<1>4. ChatTyped'
  BY <1>1, <1>3, OverIsOver DEF ChatInv, ChatTyped
<1>5. Counted'
  <2>1. chatPc' \in {"settle", "ended", "ask"}
    BY <1>1, OverIsOver
  <2> QED
    BY <1>1, <2>1, ChatCountKept DEF ChatInv
<1>6. Streamed'
  <2> SUFFICES ASSUME C!Streams
               PROVE  Streamed'
    BY <1>1 DEF Streamed
  <2>1. Silent(out) /\ At(out, "sources") = {}
    BY <1>1 DEF ChatInv, Streamed
  <2>2. CASE C!TooLong
    <3>1. chatPc' = C!Over /\ out' = out \o <<C!Event("error"), C!Event("done")>>
      BY <2>2 DEF C!Send
    <3>2. Ended(out', got')
      BY <3>1, <2>1, <1>2, EndsWithBoth
    <3> QED
      BY <3>1, <3>2, OverIsOver DEF Streamed
  <2>3. CASE ~C!TooLong
    <3>1. chatPc' = "ask" /\ out' = out
      BY <2>3
    <3> QED
      BY <2>1, <3>1 DEF Streamed
  <2> QED
    BY <2>2, <2>3
<1>7. chatPc' # "final"
  BY <1>1, OverIsOver
<1> QED
  BY <1>4, <1>5, <1>6, <1>7 DEF ChatInv

(* What the model's call, or a tool's, raises. *)
LEMMA FailingKeeps ==
    ASSUME ChatInv, chatPc \in {"ask", "tools"}, chatPc' = C!Over,
           C!Streams => out' = out \o <<C!Event("error")>>,
           ~C!Streams => out' = out,
           UNCHANGED <<chat, turn, messages, chatCalls, sources, got>>
    PROVE  ChatInv'
<1>1. out \in Seq(ChatEvent) /\ C!Event("error") \in ChatEvent /\ C!Event("error").type = "error"
  BY EventsAreTyped DEF ChatInv, ChatTyped, ChatEventTypes
<1>2. out' \in Seq(ChatEvent)
  BY <1>1, SentIsTyped
<1>3. ChatTyped'
  BY <1>2, OverIsOver DEF ChatInv, ChatTyped
<1>4. Counted'
  BY OverIsOver, ChatCountKept DEF ChatInv
<1>5. Streamed'
  <2>1. C!Streams => Ended(out', got')
    BY <1>1, EndsBadly DEF ChatInv, Streamed
  <2> QED
    BY <2>1, OverIsOver DEF Streamed, C!Streams
<1>6. chatPc' # "final"
  BY OverIsOver
<1> QED
  BY <1>3, <1>4, <1>5, <1>6 DEF ChatInv

LEMMA ModelFailsKeeps ==
    ASSUME ChatInv, C!ModelFails
    PROVE  ChatInv'
BY FailingKeeps DEF C!ModelFails, C!Send

LEMMA RaiseKeeps ==
    ASSUME ChatInv, NEW k, C!Raise(k)
    PROVE  ChatInv'
BY FailingKeeps DEF C!Raise, C!Send

LEMMA NoCalls ==
    ASSUME ChatInv, chatPc \in {"ask", "final"}
    PROVE  got = Cardinality(sources) /\ Recorded = {}
<1>1. Recorded = {}
  BY DEF ChatInv, Counted, Recorded
<1> QED
  BY <1>1, FS_EmptySet, FS_CardinalityType DEF ChatInv, Counted, ChatTyped

LEMMA OneAlone == ASSUME NEW d \in ChatEvent PROVE <<>> \o <<d>> = <<d>>
<1> DEFINE p == <<>> \o <<d>>
<1>1. <<>> \in Seq(ChatEvent) /\ <<d>> \in Seq(ChatEvent) /\ Len(<<>>) = 0 /\ Len(<<d>>) = 1
      /\ <<d>>[1] = d
  OBVIOUS
<1>2. p \in Seq(ChatEvent) /\ Len(p) = 1 /\ p[1] = d
  BY <1>1, Joined, Placed
<1> HIDE DEF p
<1>3. p = <<d>>
  BY <1>2
<1> QED
  BY <1>3 DEF p

LEMMA OneAndOne == ASSUME NEW e \in ChatEvent, NEW d \in ChatEvent PROVE <<e>> \o <<d>> = <<e, d>>
<1> DEFINE p == <<e>> \o <<d>>
<1>1. <<e>> \in Seq(ChatEvent) /\ <<d>> \in Seq(ChatEvent) /\ Len(<<e>>) = 1 /\ Len(<<d>>) = 1
      /\ <<e>>[1] = e /\ <<d>>[1] = d
  OBVIOUS
<1>2. p \in Seq(ChatEvent) /\ Len(p) = 2 /\ p[1] = e /\ p[2] = d
  BY <1>1, Joined, Placed
<1> HIDE DEF p
<1>3. p = <<e, d>>
  BY <1>2
<1> QED
  BY <1>3 DEF p

LEMMA AnswerNowKeeps ==
    ASSUME ChatInv, C!AnswerNow
    PROVE  ChatInv'
<1> USE DEF C!AnswerNow
<1> DEFINE e == [type |-> "sources", turn |-> Cardinality(sources)]
           d == C!Event("done")
<1>1. out \in Seq(ChatEvent) /\ d \in ChatEvent /\ d.type = "done" /\ IsFiniteSet(sources)
  BY EventsAreTyped DEF ChatInv, ChatTyped, ChatEventTypes
<1>2. e \in ChatEvent /\ e.type = "sources" /\ e.turn = Cardinality(sources)
  <2>1. Cardinality(sources) \in Nat /\ "sources" \in ChatEventTypes
    BY <1>1, FS_CardinalityType DEF ChatEventTypes
  <2> QED
    BY <2>1 DEF ChatEvent
<1>3. C!SourceEvent(sources) = <<e>>
  BY ChatCounts DEF C!SourceEvent
<1> HIDE DEF e, d
<1>4. C!Streams => out' = out \o (IF sources = {} THEN <<d>> ELSE <<e, d>>)
  <2>1. <<>> \o <<d>> = <<d>> /\ <<e>> \o <<d>> = <<e, d>>
    BY <1>1, <1>2, OneAlone, OneAndOne
  <2> QED
    BY <1>3, <2>1 DEF C!Send, d
<1>5. out' \in Seq(ChatEvent)
  <2>1. ~C!Streams => out' = out
    OBVIOUS
  <2> QED
    BY <1>1, <1>2, <1>4, <2>1, SentIsTyped
<1>6. got = Cardinality(sources) /\ got' = got
  BY NoCalls
<1>7. C!Streams => Ended(out', got')
  <2> SUFFICES ASSUME C!Streams
               PROVE  Ended(out', got')
    OBVIOUS
  <2>1. Silent(out) /\ At(out, "sources") = {}
    BY DEF ChatInv, Streamed
  <2>2. CASE sources = {}
    <3>1. got = 0
      BY <1>6, <2>2, FS_EmptySet
    <3>2. out' = out \o <<d>>
      BY <1>4, <2>2
    <3> QED
      BY <1>1, <1>6, <2>1, <3>1, <3>2, EndsWell
  <2>3. CASE sources # {}
    <3>1. out' = out \o <<e, d>>
      BY <1>4, <2>3
    <3> QED
      BY <1>1, <1>2, <1>6, <2>1, <3>1, EndsWithSources
  <2> QED
    BY <2>2, <2>3
<1>8. ChatTyped'
  BY <1>5, OverIsOver DEF ChatInv, ChatTyped
<1>9. Counted'
  BY OverIsOver, ChatCountKept DEF ChatInv
<1>10. Streamed' /\ chatPc' # "final"
  BY <1>7, OverIsOver DEF Streamed, C!Streams
<1> QED
  BY <1>8, <1>9, <1>10 DEF ChatInv

LEMMA CallToolsKeeps ==
    ASSUME ChatInv, NEW tools \in UNION {[1..n -> ChatTools] : n \in 1..ChatCalls},
           C!CallTools(tools)
    PROVE  ChatInv'
<1> USE DEF C!CallTools
<1>1. PICK n \in 1..ChatCalls : tools \in [1..n -> ChatTools]
  OBVIOUS
<1>2. chatCalls' \in Seq(ChatCall) /\ \A k \in DOMAIN chatCalls' : chatCalls'[k].result = "waiting"
  <2>1. n \in Nat /\ DOMAIN tools = 1..n
    BY <1>1
  <2>2. chatCalls' = [k \in 1..n |-> [tool |-> tools[k], result |-> "waiting"]]
    BY <2>1
  <2>3. ASSUME NEW k \in 1..n
        PROVE  chatCalls'[k] \in ChatCall /\ chatCalls'[k].result = "waiting"
    <3>1. chatCalls'[k] = [tool |-> tools[k], result |-> "waiting"] /\ tools[k] \in ChatTools
      BY <1>1, <2>2
    <3> QED
      BY ONLY <3>1 DEF ChatCall, ChatResults
  <2>4. chatCalls' \in [1..n -> ChatCall]
    BY <2>2, <2>3
  <2> QED
    BY <2>1, <2>2, <2>3, <2>4
<1>3. Recorded' = {} /\ Recorded = {}
  BY <1>2, NoCalls DEF Recorded
<1>4. out \in Seq(ChatEvent) /\ C!Event("tool_calls") \in ChatEvent
      /\ C!Event("tool_calls").type \notin Loud
  BY EventsAreTyped DEF ChatInv, ChatTyped, ChatEventTypes, Loud
<1>5. C!Streams => out' = out \o <<C!Event("tool_calls")>>
  BY DEF C!Send
<1>6. out' \in Seq(ChatEvent)
  BY <1>4, <1>5, SentIsTyped
<1>7. ChatTyped'
  BY <1>2, <1>6 DEF ChatInv, ChatTyped
<1>8. Counted'
  BY <1>3 DEF ChatInv, Counted
<1>9. Streamed'
  <2>1. <<C!Event("tool_calls")>> \in Seq(ChatEvent) /\ Quiet(<<C!Event("tool_calls")>>)
    BY <1>4, QuietEvents
  <2>2. C!Streams => Silent(out') /\ At(out', "sources") = {}
    BY <1>4, <1>5, <2>1, QuietKeeps DEF ChatInv, Streamed
  <2> QED
    BY <2>2 DEF Streamed, C!Streams
<1> QED
  BY <1>7, <1>8, <1>9 DEF ChatInv

LEMMA ReturnKeeps ==
    ASSUME ChatInv, NEW k \in 1..ChatCalls, C!Return(k)
    PROVE  ChatInv'
<1> USE DEF C!Return
<1>1. PICK result \in C!Answers(chatCalls[k].tool) :
        /\ chatCalls' = [chatCalls EXCEPT ![k].result = result]
        /\ got' = IF result = "none" THEN got ELSE got + 1
  OBVIOUS
<1>2. k \in DOMAIN chatCalls /\ chatCalls[k].result = "waiting"
  BY DEF C!Ready
<1>3. result \in {"some", "none", "missing"}
  BY <1>1, AnswersAreResults
<1>4. chatCalls \in Seq(ChatCall) /\ got \in Nat
  BY DEF ChatInv, ChatTyped
<1>5. /\ chatCalls' \in Seq(ChatCall) /\ DOMAIN chatCalls' = DOMAIN chatCalls
      /\ chatCalls'[k].result = result
      /\ \A j \in DOMAIN chatCalls : j # k => chatCalls'[j] = chatCalls[j]
  <2> DEFINE c == [chatCalls[k] EXCEPT !.result = result]
  <2>0. chatCalls[k] \in ChatCall
    BY <1>2, <1>4
  <2>1. c \in ChatCall
    BY <1>3, <2>0 DEF ChatCall, ChatResults
  <2>2. chatCalls' = [chatCalls EXCEPT ![k] = c]
    BY <1>1
  <2>3. c.result = result
    BY <2>0 DEF ChatCall
  <2> HIDE DEF c
  <2>4. chatCalls' \in Seq(ChatCall) /\ DOMAIN chatCalls' = DOMAIN chatCalls
    BY ONLY <1>2, <1>4, <2>1, <2>2
  <2>5. chatCalls'[k] = c /\ \A j \in DOMAIN chatCalls : j # k => chatCalls'[j] = chatCalls[j]
    BY ONLY <1>2, <1>4, <2>2
  <2> QED
    BY ONLY <2>3, <2>4, <2>5
<1>6. Recorded' = (IF result = "none" THEN Recorded ELSE Recorded \cup {k}) /\ k \notin Recorded
  BY <1>2, <1>3, <1>5 DEF Recorded
<1>7. IsFiniteSet(Recorded)
  <2>1. Recorded \subseteq 1..Len(chatCalls) /\ Len(chatCalls) \in Nat
    BY <1>4 DEF Recorded
  <2> QED
    BY <2>1, FS_Interval, FS_Subset
<1>8. got' = Cardinality(sources) + Cardinality(Recorded')
  <2>1. got = Cardinality(sources) + Cardinality(Recorded)
    BY DEF ChatInv, Counted
  <2>2. Cardinality(sources) \in Nat /\ Cardinality(Recorded) \in Nat
    BY <1>7, FS_CardinalityType DEF ChatInv, ChatTyped
  <2>3. result # "none" => Cardinality(Recorded') = Cardinality(Recorded) + 1
    BY <1>6, <1>7, FS_AddElement
  <2> QED
    BY <1>1, <1>6, <2>1, <2>2, <2>3
<1>9. got' \in Nat
  BY <1>1, <1>4
<1>10. ChatTyped'
  BY <1>5, <1>9 DEF ChatInv, ChatTyped
<1>11. Counted'
  BY <1>8 DEF Counted
<1>12. Streamed'
  BY DEF ChatInv, Streamed, C!Streams
<1> QED
  BY <1>10, <1>11, <1>12 DEF ChatInv

(* The records of a round of calls are new ones, as many as were counted.  *)
LEMMA RoundIsCounted ==
    ASSUME ChatInv, chatPc = "tools", \A k \in DOMAIN chatCalls : chatCalls[k].result # "waiting"
    PROVE  /\ IsFiniteSet(C!Collected) /\ C!Collected \subseteq ChatRecord
           /\ \A s \in C!Collected : s.turn < turn + 1
           /\ Cardinality(C!Collected) = got
<1>1. chatCalls \in Seq(ChatCall) /\ turn \in Nat /\ IsFiniteSet(sources) /\ sources \subseteq ChatRecord
  BY DEF ChatInv, ChatTyped
<1>2. C!Answered = Recorded
  <2>1. \A k \in DOMAIN chatCalls : chatCalls[k] \in ChatCall
    BY ONLY <1>1
  <2>2. \A k \in DOMAIN chatCalls : chatCalls[k].result \in {"some", "none", "missing"}
    BY <2>1 DEF ChatCall, ChatResults
  <2> QED
    BY ONLY <2>2 DEF C!Answered, Recorded
<1>3. Recorded \subseteq 1..Len(chatCalls) /\ Len(chatCalls) \in Nat
  BY <1>1 DEF Recorded
<1>4. IsFiniteSet(Recorded)
  <2>1. IsFiniteSet(1..Len(chatCalls))
    BY <1>3, FS_Interval
  <2> QED
    BY ONLY <1>3, <2>1, FS_Subset
<1> DEFINE rec(k) == [turn |-> turn, call |-> k, found |-> chatCalls[k].result = "some"]
           f == [k \in Recorded |-> rec(k)]
<1>5. C!Returned = {rec(k) : k \in Recorded}
  BY <1>2 DEF C!Returned
<1>6. \A k \in Recorded : rec(k) \in ChatRecord /\ rec(k).turn = turn /\ rec(k).call = k
  <2> TAKE k \in Recorded
  <2>1. k \in Nat
    BY <1>3
  <2>2. (chatCalls[k].result = "some") \in BOOLEAN
    OBVIOUS
  <2> QED
    BY <1>1, <2>1, <2>2 DEF ChatRecord
<1> HIDE DEF rec
<1>7. f \in Bijection(Recorded, C!Returned)
  <2>1. f \in [Recorded -> C!Returned]
    BY <1>5
  <2>2. \A j, k \in Recorded : f[j] = f[k] => j = k
    BY <1>6
  <2>3. \A r \in C!Returned : \E k \in Recorded : f[k] = r
    BY <1>5
  <2> HIDE DEF f
  <2> QED
    BY <2>1, <2>2, <2>3 DEF Bijection, Injection, Surjection, IsInjective
<1>8. IsFiniteSet(C!Returned) /\ Cardinality(C!Returned) = Cardinality(Recorded)
  BY <1>4, <1>7, FS_Bijection DEF ExistsBijection
<1>9. \A s \in C!Returned : s \in ChatRecord /\ s.turn = turn
  BY <1>5, <1>6
<1>10. sources \cap C!Returned = {}
  BY <1>1, <1>9 DEF ChatInv, ChatTyped
<1>11. IsFiniteSet(C!Collected)
       /\ Cardinality(C!Collected) = Cardinality(sources) + Cardinality(C!Returned) - Cardinality({})
  <2> DEFINE X == C!Returned
  <2> HIDE DEF X
  <2>1. IsFiniteSet(X) /\ sources \cap X = {}
    BY <1>8, <1>10 DEF X
  <2>2. /\ IsFiniteSet(sources \cup X)
        /\ Cardinality(sources \cup X) = Cardinality(sources) + Cardinality(X) - Cardinality(sources \cap X)
    BY ONLY <1>1, <2>1, FS_Union
  <2> QED
    BY <2>1, <2>2 DEF C!Collected, X
<1>12. Cardinality({}) = 0 /\ got = Cardinality(sources) + Cardinality(Recorded)
  BY FS_EmptySet DEF ChatInv, Counted
<1>13. Cardinality(sources) \in Nat /\ Cardinality(Recorded) \in Nat
  BY <1>1, <1>4, FS_CardinalityType
<1>14. \A s \in sources : s.turn < turn /\ s.turn \in Nat
  BY <1>1 DEF ChatInv, ChatTyped, ChatRecord
<1>15. \A s \in C!Collected : s.turn < turn + 1
  BY <1>1, <1>9, <1>14 DEF C!Collected
<1> QED
  BY <1>1, <1>8, <1>9, <1>11, <1>12, <1>13, <1>15 DEF C!Collected

LEMMA GatherKeeps ==
    ASSUME ChatInv, C!Gather
    PROVE  ChatInv'
<1>1. chatPc = "tools" /\ \A k \in DOMAIN chatCalls : chatCalls[k].result # "waiting"
  BY DEF C!Gather
<1>2. /\ messages' = messages \o C!Round /\ sources' = C!Collected /\ turn' = turn + 1
      /\ chatCalls' = <<>> /\ chat' = chat /\ got' = got
  BY DEF C!Gather
<1>3. messages' \in Seq(ChatMessage) /\ Told(messages')
  <2>1. DOMAIN chatCalls = 1..Len(chatCalls) /\ Len(chatCalls) \in Nat /\ turn \in Nat
        /\ messages \in Seq(ChatMessage) /\ Told(messages)
    BY DEF ChatInv, ChatTyped
  <2> QED
    BY <1>2, <2>1, RoundsAreTold DEF C!Round
<1>4. /\ IsFiniteSet(sources') /\ sources' \subseteq ChatRecord
      /\ \A s \in sources' : s.turn < turn'
      /\ Cardinality(sources') = got'
  BY <1>1, <1>2, RoundIsCounted
<1>5. Recorded' = {} /\ got' = Cardinality(sources') + Cardinality(Recorded')
  <2>1. Recorded' = {}
    BY <1>2 DEF Recorded
  <2>2. got \in Nat
    BY DEF ChatInv, ChatTyped
  <2> QED
    BY <1>2, <1>4, <2>1, <2>2, FS_EmptySet
<1> DEFINE e == [type |-> "sources", turn |-> got]
<1>6. C!SourceEvent(C!Collected) = <<e>>
  BY <1>1, ChatCounts, RoundIsCounted DEF C!SourceEvent
<1>7. e \in ChatEvent /\ e.type = "sources" /\ e.turn = got /\ out \in Seq(ChatEvent)
  <2>1. got \in Nat /\ "sources" \in ChatEventTypes
    BY DEF ChatInv, ChatTyped, ChatEventTypes
  <2> QED
    BY <2>1 DEF ChatEvent, ChatInv, ChatTyped
<1> HIDE DEF e
<1>8. \/ chatPc' = "ended" /\ ~C!Streams /\ out' = out
      \/ chatPc' = "ask" /\ out' = out
      \/ chatPc' = "final" /\ C!Streams /\ out' = out \o <<e>>
  BY <1>6 DEF C!Gather, C!Send, C!ShortCircuits
<1>9. out' \in Seq(ChatEvent)
  BY <1>7, <1>8, SentIsTyped
<1>10. ChatTyped'
  BY <1>2, <1>3, <1>4, <1>8, <1>9 DEF ChatInv, ChatTyped
<1>11. Counted'
  BY <1>2, <1>5 DEF Counted
<1>12. Streamed' /\ (chatPc' = "final" => C!Streams')
  <2>1. C!Streams' = C!Streams
    BY <1>2 DEF C!Streams
  <2>2. C!Streams => Silent(out) /\ At(out, "sources") = {}
    BY <1>1 DEF ChatInv, Streamed
  <2>3. C!Streams => Silent(out \o <<e>>) /\ OneSource(out \o <<e>>, got)
    BY <1>7, <2>2, SourcesSent
  <2> QED
    BY <1>2, <1>8, <2>1, <2>2, <2>3 DEF Streamed
<1> QED
  BY <1>3, <1>10, <1>11, <1>12 DEF ChatInv

LEMMA ConcludeKeeps ==
    ASSUME ChatInv, C!Conclude
    PROVE  ChatInv'
<1> DEFINE e == C!Event("error")
           d == C!Event("done")
<1>1. out \in Seq(ChatEvent) /\ e \in ChatEvent /\ d \in ChatEvent
      /\ e.type = "error" /\ d.type = "done" /\ got \in Nat
  BY EventsAreTyped DEF ChatInv, ChatTyped, ChatEventTypes
<1> HIDE DEF e, d
<1>2. out' = out \o <<d>> \/ out' = out \o <<e, d>>
  <2>1. <<>> \o <<d>> = <<d>> /\ <<e>> \o <<d>> = <<e, d>>
    BY <1>1, OneAlone, OneAndOne
  <2> QED
    BY <2>1 DEF C!Conclude, C!Send, e, d
<1>3. Silent(out) /\ OneSource(out, got) /\ chatPc = "final"
  BY DEF ChatInv, Streamed, C!Conclude
<1>4. Ended(out', got)
  BY <1>1, <1>2, <1>3, EndsWell, EndsWithBoth
<1>5. out' \in Seq(ChatEvent)
  BY <1>1, <1>2, SentIsTyped
<1>6. chatPc' = C!Over /\ UNCHANGED <<chat, turn, messages, chatCalls, sources, got>>
  BY DEF C!Conclude
<1>7. ChatTyped'
  BY <1>5, <1>6, OverIsOver DEF ChatInv, ChatTyped
<1>8. Counted'
  BY <1>6, OverIsOver, ChatCountKept DEF ChatInv
<1>9. Streamed' /\ chatPc' # "final"
  BY <1>4, <1>6, OverIsOver DEF Streamed
<1> QED
  BY <1>6, <1>7, <1>8, <1>9 DEF ChatInv

LEMMA SettleKeeps ==
    ASSUME ChatInv, NEW annotates, NEW created, C!Settle(annotates, created)
    PROVE  ChatInv'
<1> DEFINE e == C!Event("annotations_created")
<1>1. out \in Seq(ChatEvent) /\ e \in ChatEvent /\ e.type = "annotations_created"
  BY EventsAreTyped DEF ChatInv, ChatTyped, ChatEventTypes
<1> HIDE DEF e
<1>2. out' = out \/ out' = out \o <<e>>
  BY DEF C!Settle, C!Send, e
<1>3. /\ chatPc = "settle" /\ chatPc' = "ended"
      /\ UNCHANGED <<chat, turn, messages, chatCalls, sources, got>>
  BY DEF C!Settle
<1>4. C!Streams => Ended(out', got)
  BY <1>1, <1>2, <1>3, AnnotatedAfter DEF ChatInv, Streamed
<1>5. out' \in Seq(ChatEvent)
  BY <1>1, <1>2, SentIsTyped
<1>6. ChatTyped'
  BY <1>3, <1>5 DEF ChatInv, ChatTyped
<1>7. Counted'
  BY <1>3, ChatCountKept DEF ChatInv
<1>8. Streamed'
  BY <1>3, <1>4 DEF Streamed, C!Streams
<1> QED
  BY <1>3, <1>6, <1>7, <1>8 DEF ChatInv

LEMMA DisconnectKeeps ==
    ASSUME ChatInv, C!Disconnect
    PROVE  ChatInv'
<1>1. chatPc' = "gone" /\ UNCHANGED <<chat, turn, messages, chatCalls, sources, out, got>>
  BY DEF C!Disconnect
<1>2. ChatTyped'
  BY <1>1 DEF ChatInv, ChatTyped
<1>3. Counted'
  BY <1>1, ChatCountKept DEF ChatInv
<1>4. Streamed'
  BY <1>1 DEF Streamed
<1> QED
  BY <1>1, <1>2, <1>3, <1>4 DEF ChatInv

LEMMA ChatStep == ChatInv /\ [C!Next]_(C!vars) => ChatInv'
<1> SUFFICES ASSUME ChatInv, [C!Next]_(C!vars)
             PROVE  ChatInv'
  OBVIOUS
<1>1. CASE C!Next
  BY <1>1, LoadContextKeeps, ReceiveKeeps, SpeakKeeps, ModelFailsKeeps, AnswerNowKeeps,
     CallToolsKeeps, ReturnKeeps, RaiseKeeps, GatherKeeps, ConcludeKeeps, SettleKeeps,
     DisconnectKeeps DEF C!Next
<1>2. CASE UNCHANGED C!vars
  <2>1. UNCHANGED <<chat, chatPc, turn, messages, chatCalls, sources, out, got>>
    BY <1>2 DEF C!vars
  <2>2. ChatTyped' /\ Told(messages')
    BY <2>1 DEF ChatInv, ChatTyped
  <2>3. Counted'
    BY <2>1, ChatCountKept DEF ChatInv
  <2>4. Streamed' /\ C!Streams' = C!Streams
    BY <2>1 DEF ChatInv, Streamed, C!Streams
  <2> QED
    BY <2>1, <2>2, <2>3, <2>4 DEF ChatInv
<1> QED
  BY <1>1, <1>2

LEMMA ChatIsWhole == ChatInv => C!EveryCallIsAnswered /\ C!StreamsEndWell
<1> SUFFICES ASSUME ChatInv
             PROVE  C!EveryCallIsAnswered /\ C!StreamsEndWell
  OBVIOUS
<1>1. C!EveryCallIsAnswered
  BY DEF ChatInv, Told, ToldAt, C!EveryCallIsAnswered
<1>2. \A type : C!Places(type) = At(out, type)
  BY DEF C!Places, At
<1>3. ASSUME NEW S, \A i, j \in S : i = j
      PROVE  Cardinality(S) <= 1
  <2>1. S = {} \/ \E i : S = {i}
    BY <1>3
  <2>2. \A i : Cardinality({i}) = 1
    BY FS_Singleton
  <2>3. Cardinality({}) = 0
    BY FS_EmptySet
  <2>4. CASE S = {}
    BY ONLY <2>3, <2>4
  <2>5. ASSUME NEW i, S = {i}
        PROVE  Cardinality(S) <= 1
    <3>1. Cardinality(S) = 1
      BY ONLY <2>2, <2>5
    <3> QED
      BY ONLY <3>1
  <2> QED
    BY <2>1, <2>4, <2>5
<1>4. chatPc = "ended" /\ C!Streams => Ended(out, got)
  BY DEF ChatInv, Streamed
<1>5. ASSUME chatPc = "ended", C!Streams
      PROVE  /\ Cardinality(At(out, "done")) <= 1 /\ Cardinality(At(out, "error")) <= 1
             /\ At(out, "done") \cup At(out, "error") # {}
             /\ \A i \in At(out, "done"), j \in DOMAIN out :
                  j > i => out[j].type = "annotations_created"
             /\ (At(out, "error") = {} /\ got > 0) =>
                  \E i \in At(out, "sources") : At(out, "sources") = {i} /\ out[i].turn = got
  BY <1>3, <1>4, <1>5 DEF Ended, OneSource
<1>6. C!StreamsEndWell
  BY <1>2, <1>5, ChatCounts DEF C!StreamsEndWell
<1> QED
  BY <1>1, <1>6

LEMMA ChatKeepsItsSpec == AllSpec => C!Spec
<1>1. AllInit => C!Init
  BY DEF AllInit
<1>2. [AllNext]_allVars => [C!Next]_(C!vars)
  BY DEF AllNext, allVars, Searching, Indexing, LegacyIndexing, Graphing, Parsing,
         Chatting, Beginning, Cataloguing, chatVars, C!vars, C!Next
<1> QED
  BY <1>1, <1>2, PTL DEF AllSpec, C!Spec

LEMMA ChatIsKnown == AllSpec => []ChatInv
BY ChatBegins, ChatStep, ChatKeepsItsSpec, PTL DEF C!Spec

(* Whatever tools are asked for, whatever they find or raise and in what   *)
(* order they end, the model is never asked with a call left unanswered,   *)
(* and a stream that is not left ends once, with the records of all its    *)
(* rounds.                                                                 *)
THEOREM ChatsStayWhole == AllSpec => []ChatsAreWhole
<1>1. ChatInv => ChatsAreWhole
  BY ChatIsWhole DEF ChatsAreWhole
<1> QED
  BY <1>1, ChatIsKnown, PTL
====
