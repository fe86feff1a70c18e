---- MODULE StargazerScan ----
(***************************************************************************)
(* The background jobs of the admin dashboard that walk through the        *)
(* stargazers of a repository and keep the contacts they find              *)
(* (src/api/routes/admin.py).  A job runs in a thread; its document in the *)
(* database says how far it came, so that it can be resumed and the next   *)
(* job on the repository goes on from there.  Users taken up are claimed,  *)
(* and claims are written in batches.  All jobs are on one repository.     *)
(***************************************************************************)
EXTENDS Integers, Sequences, FiniteSets

CONSTANTS
    Jobs,
    Stars,      \* the stargazers, in order
    WithMail,   \* those a contact can be found of
    PerPage,    \* 100 in the code
    BatchSize,  \* claims written at once, 50 in the code
    Interval,   \* users between two progress updates, 20 in the code
    Patience,   \* users in a row without a usable token, 3 in the code
    Targets,    \* numbers of contacts that may be asked for
    MaxRuns,    \* bound: starts and resumptions of a job
    MaxFaults   \* bound: failures and crashes

Stargazers == {Stars[i] : i \in DOMAIN Stars}

(* Who starred a repository did so once. *)
StargazerConstants ==
    /\ {PerPage, BatchSize, Interval, Patience, MaxRuns} \subseteq Nat \ {0}
    /\ MaxFaults \in Nat /\ Targets \subseteq Nat
    /\ Stars \in Seq(Stargazers)
    /\ \A i, k \in DOMAIN Stars : Stars[i] = Stars[k] => i = k

VARIABLES
    doc,      \* outreach_jobs
    last,     \* the jobs, in order of creation
    stop,     \* _scrape_stop_events
    worker,   \* the threads of the jobs
    scanned,  \* outreach_scanned_users
    mails,    \* outreach_emails: documents [user, job, id]
    looked,   \* history: users a contact has been looked for
    exhausted,  \* history: a job came to the end of the list
    patchy,   \* history: users may have been passed over
    double,   \* history: users may have been taken up twice
    faults

vars == <<doc, last, stop, worker, scanned, mails, looked, exhausted, patchy, double, faults>>

Running(j) == worker[j].pc # "none"
At(j, pc) == worker[j].pc = pc
Is(j, new) == worker' = [worker EXCEPT ![j] = new]
Fault == faults < MaxFaults /\ faults' = faults + 1
Idle == [pc |-> "none", page |-> 0, offset |-> 0, first |-> 0, index |-> 0,
         list |-> <<>>, found |-> 0, pending |-> {}, saw |-> FALSE,
         tokenless |-> 0]

Init ==
    /\ doc = [j \in Jobs |-> [status |-> "none", index |-> 0, page |-> 1,
                              target |-> 0, runs |-> 0]]
    /\ last = <<>>
    /\ stop = [j \in Jobs |-> FALSE]
    /\ worker = [j \in Jobs |-> Idle]
    /\ scanned = {} /\ looked = {} /\ mails = {}
    /\ exhausted = FALSE /\ patchy = FALSE /\ double = FALSE /\ faults = 0

Found(j) == Cardinality({m \in mails : m.job = j})

-----------------------------------------------------------------------------
(* The routes. *)

(* Mutant: the index is taken for a page's last user. *)
PageBehind(index) == ((index + PerPage - 1) \div PerPage) + 1

PageOf(index) == (index \div PerPage) + 1

(* The worker's start: within the page of its index, or at the top of a    *)
(* later one.                                                              *)
Begun(j, page, index) ==
    LET from == IF page > PageOf(index) THEN page ELSE PageOf(index) IN
    [Idle EXCEPT !.pc = "fetch", !.page = from, !.index = index,
                 !.first = index, !.found = Found(j),
                 !.offset = IF from = PageOf(index) THEN index % PerPage ELSE 0]

(* A job that begins beside another, or on a page behind its index.        *)
Note(j, page, index) ==
    /\ double' = (double \/ \E k \in Jobs \ {j} : Running(k))
    /\ patchy' = (patchy \/ page > PageOf(index))

(* start_scrape_job *)
Start(j, target) ==
    LET index == IF last = <<>> THEN 0 ELSE doc[last[Len(last)]].index IN
    /\ doc[j].status = "none"
    /\ doc' = [doc EXCEPT ![j] = [status |-> "running", index |-> index,
                                  page |-> 1, target |-> target, runs |-> 1]]
    /\ last' = Append(last, j)
    /\ Is(j, Begun(j, 1, index))
    /\ Note(j, 1, index)
    /\ UNCHANGED <<stop, scanned, mails, looked, exhausted, faults>>

(* stop_scrape_job, whatever the status is *)
Stop(j) ==
    /\ doc[j].status # "none"
    /\ stop' = [stop EXCEPT ![j] = Running(j)]
    /\ doc' = [doc EXCEPT ![j].status = "stopped"]
    /\ UNCHANGED <<last, worker, scanned, mails, looked, exhausted, patchy, double, faults>>

(* resume_scrape_job, likewise, unless the job's thread is there *)
Resume(j) ==
    /\ doc[j].status # "none" /\ ~Running(j) /\ doc[j].runs < MaxRuns
    /\ doc' = [doc EXCEPT ![j].status = "running", ![j].runs = @ + 1]
    /\ Is(j, Begun(j, doc[j].page, doc[j].index))
    /\ Note(j, doc[j].page, doc[j].index)
    /\ stop' = [stop EXCEPT ![j] = FALSE]
    /\ UNCHANGED <<last, scanned, mails, looked, exhausted, faults>>

-----------------------------------------------------------------------------
(* The thread: _scrape_worker_sync. *)

Enough(j) == stop[j] \/ worker[j].found >= doc[j].target

(* A page of stargazers; behind the last one it is empty. *)
Page(n) == SubSeq(Stars, (n - 1) * PerPage + 1,
                  IF n * PerPage < Len(Stars) THEN n * PerPage ELSE Len(Stars))

Fetch(j) ==
    LET w == worker[j] IN
    /\ At(j, "fetch")
    /\ IF Enough(j) \/ Page(w.page) = <<>>
       THEN Is(j, [w EXCEPT !.pc = "end"])
       ELSE Is(j, [w EXCEPT !.pc = "user", !.saw = TRUE, !.offset = 0,
                     !.list = SubSeq(Page(w.page), w.offset + 1,
                                     Len(Page(w.page)))])
    /\ UNCHANGED <<doc, last, stop, scanned, mails, looked, exhausted, patchy, double, faults>>

(* The page is done, or the job is to end within it.                       *)
PageDone(j) ==
    LET w == worker[j] IN
    /\ At(j, "user") /\ (w.list = <<>> \/ Enough(j))
    /\ scanned' = scanned \cup w.pending
    /\ doc' = [doc EXCEPT ![j].page = w.page + 1, ![j].index = w.index]
    /\ Is(j, [w EXCEPT !.pc = "fetch", !.page = @ + 1, !.pending = {}, !.list = <<>>])
    /\ UNCHANGED <<last, stop, mails, looked, exhausted, patchy, double, faults>>

(* _update_job_progress *)
Progress(j, index) ==
    doc' = IF index % Interval = 0 THEN [doc EXCEPT ![j].index = index] ELSE doc

(* Mutant: claims in the database are not looked at. *)
ClaimAnyway(j) ==
    LET w == worker[j]
        next == [w EXCEPT !.index = @ + 1]
        pending == w.pending \cup {Head(w.list)}
        flushed == Cardinality(pending) >= BatchSize
    IN /\ At(j, "user") /\ w.list # <<>> /\ ~Enough(j)
       /\ scanned' = IF flushed THEN scanned \cup pending ELSE scanned
       /\ Is(j, [next EXCEPT !.pc = "mail",
                             !.pending = IF flushed THEN {} ELSE pending])
       /\ UNCHANGED <<doc, last, stop, mails, looked, exhausted, patchy, double, faults>>

(* _claim_username, of the next user: claims that are pending, in this     *)
(* thread or another, are not looked at.                                   *)
Claim(j) ==
    LET w == worker[j]
        u == Head(w.list)
        next == [w EXCEPT !.index = @ + 1]
        pending == w.pending \cup {u}
        flushed == Cardinality(pending) >= BatchSize
    IN /\ At(j, "user") /\ w.list # <<>> /\ ~Enough(j)
       /\ IF u \in scanned
          THEN /\ Is(j, [next EXCEPT !.list = Tail(@)])
               /\ Progress(j, next.index)
               /\ UNCHANGED scanned
          ELSE /\ scanned' = IF flushed THEN scanned \cup pending ELSE scanned
               /\ Is(j, [next EXCEPT !.pc = "mail",
                                     !.pending = IF flushed THEN {} ELSE pending])
               /\ UNCHANGED doc
       /\ UNCHANGED <<last, stop, mails, looked, exhausted, patchy, double, faults>>

(* _get_email_for_user_sync *)
Contact(u) == u \in WithMail

(* The contact is looked for and, when there is one, kept. *)
Mail(j) ==
    LET w == worker[j]
        u == Head(w.list)
        hit == Contact(u)
    IN /\ At(j, "mail")
       /\ looked' = looked \cup {u}
       /\ mails' = IF hit THEN mails \cup {[user |-> u, job |-> j, id |-> Cardinality(mails)]}
                          ELSE mails
       /\ Progress(j, w.index)
       /\ Is(j, [w EXCEPT !.pc = "user", !.list = Tail(@), !.tokenless = 0,
                          !.found = IF hit THEN @ + 1 ELSE @])
       /\ UNCHANGED <<last, stop, scanned, exhausted, patchy, double, faults>>

(* The thread ends with an error, whatever claims are pending. *)
Dies(j) ==
    /\ doc' = [doc EXCEPT ![j].status = "error"]
    /\ Is(j, Idle)
    /\ stop' = [stop EXCEPT ![j] = FALSE]
    /\ double' = (double \/ worker[j].pending # {})
    /\ patchy' = (patchy \/ At(j, "mail"))

(* No token is usable: the user is left behind, or the job ends.           *)
NoToken(j) ==
    LET w == worker[j] IN
    /\ At(j, "mail") /\ Fault
    /\ IF w.tokenless + 1 >= Patience THEN Dies(j)
       ELSE /\ Is(j, [w EXCEPT !.pc = "user", !.list = Tail(@), !.tokenless = @ + 1])
            /\ patchy' = TRUE
            /\ UNCHANGED <<doc, stop, double>>
    /\ UNCHANGED <<last, scanned, mails, looked, exhausted>>

(* GitHub or the database does not answer. *)
Fails(j) ==
    /\ Running(j) /\ Fault /\ Dies(j)
    /\ UNCHANGED <<last, scanned, mails, looked, exhausted>>

End(j) ==
    LET w == worker[j] IN
    /\ At(j, "end")
    /\ scanned' = scanned \cup w.pending
    /\ doc' = [doc EXCEPT ![j].index = w.index,
                 ![j].status = CASE ~w.saw /\ w.index = w.first -> "error"
                                 [] (w.saw \/ w.index # w.first)
                                      /\ w.found >= doc[j].target -> "completed"
                                 [] OTHER -> "stopped"]
    /\ Is(j, Idle)
    /\ stop' = [stop EXCEPT ![j] = FALSE]
    /\ exhausted' = (exhausted \/ ~Enough(j))
    /\ UNCHANGED <<last, mails, looked, patchy, double, faults>>

(* The process ends and comes back: threads are gone, documents stay.      *)
Crash ==
    /\ \E j \in Jobs : Running(j)
    /\ Fault
    /\ worker' = [j \in Jobs |-> Idle]
    /\ stop' = [j \in Jobs |-> FALSE]
    /\ double' = (double \/ \E j \in Jobs : worker[j].pending # {})
    /\ patchy' = (patchy \/ \E j \in Jobs : At(j, "mail"))
    /\ UNCHANGED <<doc, last, scanned, mails, looked, exhausted>>

Next ==
    \/ \E j \in Jobs :
         \/ \E target \in Targets : Start(j, target)
         \/ Stop(j) \/ Resume(j)
         \/ Fetch(j) \/ PageDone(j) \/ Claim(j) \/ Mail(j) \/ NoToken(j)
         \/ Fails(j) \/ End(j)
    \/ Crash

Spec == Init /\ [][Next]_vars

-----------------------------------------------------------------------------
(* A user is taken up once, in whatever jobs, stopped, failed and resumed: *)
(* unless two jobs ran at a time or one died with claims pending.          *)
ContactsAreUnique ==
    ~double => \A m, n \in mails : m.user = n.user => m = n

(* Once a job came to the end of the list, every stargazer has been looked *)
(* at, by it or by one of the jobs it goes on from, however they were      *)
(* stopped, failed and resumed: unless one was left behind, or a job       *)
(* resumed on a later page than its index, as it does when it was stopped  *)
(* within a page.                                                          *)
NobodyIsMissed ==
    (exhausted /\ ~patchy /\ \A j \in Jobs : ~Running(j)) => looked = Stargazers
====
