---------------------------- MODULE MCAccounts ----------------------------
(***************************************************************************)
(* What surrounds the memory on small instances, side by side: the credit  *)
(* ledger and its variant kept in memory, API keys, the rate limiter,      *)
(* enterprise projects with their annotations, the bill for the models'    *)
(* tokens, and the search for contacts among stargazers.  Each is checked  *)
(* by itself: in a behaviour one part moves and the others rest in their   *)
(* initial states.                                                         *)
(***************************************************************************)
EXTENDS CreditLedger, Sequences, TLC

CONSTANTS
    None,
    Processes, Keys, CacheTTL, CacheSize, Latency,   \* of ApiKeys
    Window, MaxRequests, MaxClock,                \* of RateLimiter
    Users, Owner, Annotations, Requests, Reactivates, MaxServed, MaxFaults,
                                                  \* of Teams
    Buyers, Calls, Buys,                          \* of MemoryLedger
    StarJobs, Stars, WithMail, PerPage, BatchSize, Interval, Patience, Targets,
    MaxRuns                                       \* of StargazerScan

VARIABLES
    part, keysNow, keys, cache, busy, used, revoked, clock, hits, admitted,
    refused, project, members, count, annotations, given, request, welcome,
    drifted, served, teamFaults, context, pc, events, made, bill, due,
    bookAvailable, bookReserved, bookLots, bookReservations, bookLedger,
    bookNow, doc, latest, stop, worker, scanned, mails, looked, exhausted,
    patchy, double, starFaults

(* Two jobs, one in two activities; names with dates, routes, dots and     *)
(* dashes, and entries of which one's name begins another's.               *)
JobOf == [t1 |-> "j1", t2 |-> "j1", t3 |-> "j2"]
Vendor ==
    [p \in {"openai/", "gpt", "gemini", "opus-4", "5", ".", "-", "date", "mini", "other"} |->
        CASE p \in {"openai/", "gpt"} -> "openai"
          [] p = "gemini" -> "gemini"
          [] p = "opus-4" -> "claude"
          [] OTHER -> None]
Price(provider, model, rates, apart, threshold) ==
    [provider |-> provider, model |-> model, input |-> rates[1], output |-> rates[2],
     cachedInput |-> rates[3], cacheWrite |-> rates[4], thinkingApart |-> apart,
     threshold |-> threshold, longInput |-> 2 * rates[1], longOutput |-> rates[2] + 1]
Catalog ==
    <<Price("openai", <<"gpt">>, <<4, 9, 1, None>>, FALSE, 4),
      Price("openai", <<"gpt", "-", "mini">>, <<2, 3, None, None>>, FALSE, None),
      Price("gemini", <<"gemini">>, <<3, 5, 1, None>>, TRUE, 4),
      Price("claude", <<"opus-4">>, <<7, 9, 2, 8>>, FALSE, None),
      Price("claude", <<"opus-4", ".", "5">>, <<3, 4, 1, 5>>, FALSE, None)>>
Answered(provider, model, t) ==
    [provider |-> provider, model |-> model,
     tokens |-> [fresh |-> t[1], cached |-> t[2], written |-> t[3], said |-> t[4],
                 thought |-> t[5]]]
Answers ==
    {Answered("openai", <<"gpt", "-", "date">>, <<1, 2, 0, 1, 1>>),
     Answered("openrouter", <<"openai/", "gpt", "-", "mini">>, <<1, 1, 0, 1, 0>>),
     Answered("unknown", <<"gemini">>, <<2, 1, 0, 1, 2>>),
     Answered("gemini", <<"gemini">>, <<4, 1, 0, 1, 0>>),
     Answered("claude", <<"opus-4", ".", "5">>, <<1, 1, 2, 1, 1>>),
     Answered("other", <<"other">>, <<1, 0, 0, 1, 0>>),
     Answered("openai", <<"gpt">>, <<0, 0, 0, 0, 0>>)}
Payload ==
    [j1 |-> [type |-> "memory_batch_ingest", effort |-> "low", texts |-> <<5, 1>>],
     j2 |-> [type |-> "memory_ingest", effort |-> "high", texts |-> <<9>>]]

Gazers == <<"s1", "s2", "s3">>

K == INSTANCE ApiKeys WITH now <- keysNow
L == INSTANCE RateLimiter WITH
        MaxTime <- MaxClock
P == INSTANCE Teams WITH
        faults <- teamFaults
U == INSTANCE Usage WITH
        Jobs <- {"j1", "j2"}, Tasks <- {"t1", "t2", "t3"},
        Routes <- {"openai/"}, Dot <- ".", Dash <- "-", Requests <- Answers,
        UnitsPerCredit <- 7, MinCredits <- 2, MaxCalls <- 2
M == INSTANCE MemoryLedger WITH
        available <- bookAvailable, reserved <- bookReserved, lots <- bookLots,
        reservations <- bookReservations, ledger <- bookLedger, now <- bookNow,
        Accounts <- Buyers, Jobs <- Calls, Grants <- Buys
G == INSTANCE StargazerScan WITH
        faults <- starFaults, last <- latest, Jobs <- StarJobs

keyVars == <<keysNow, keys, cache, busy, used, revoked>>
limiterVars == <<clock, hits, admitted, refused>>
teamVars == <<project, members, count, annotations, given, request, welcome, drifted,
    served, teamFaults>>
usageVars == <<context, pc, events, made, bill, due>>
bookVars ==
    <<bookAvailable, bookReserved, bookLots, bookReservations, bookLedger, bookNow>>
starVars == <<doc, latest, stop, worker, scanned, mails, looked, exhausted, patchy,
    double, starFaults>>
allVars ==
    <<part, vars, keyVars, limiterVars, teamVars, usageVars, bookVars, starVars>>

ASSUME U!UsageConstants

ASSUME KeysAssumption == K!ApiKeysConstants
ASSUME LimiterAssumption == Window \in Nat /\ MaxRequests \in Nat /\ MaxClock \in Nat
ASSUME TeamsAssumption ==
    /\ IsFiniteSet(Annotations) /\ IsFiniteSet(Requests)
    /\ MaxServed \in Nat /\ MaxFaults \in Nat
    /\ Owner \in Users
    /\ None \notin P!Roles \cup [role : P!Roles, active : BOOLEAN]
ASSUME BooksAssumption == M!LedgerAssumption
ASSUME StarsAssumption == G!StargazerConstants

(* Each part begins in its initial states; a part that rests, in one of them. *)
AllInit ==
    /\ part \in {"wallet", "keys", "limiter", "teams", "usage", "ledger", "stars"}
    /\ Init /\ K!Init /\ L!Init /\ P!Init /\ U!Init /\ M!Init /\ G!Init

Paying(Move) ==
    /\ part = "wallet" /\ Move
    /\ UNCHANGED <<part, keyVars, limiterVars, teamVars, usageVars, bookVars, starVars>>
Authenticating(Move) ==
    /\ part = "keys" /\ Move
    /\ UNCHANGED <<part, vars, limiterVars, teamVars, usageVars, bookVars, starVars>>
Limiting(Move) ==
    /\ part = "limiter" /\ Move
    /\ UNCHANGED <<part, vars, keyVars, teamVars, usageVars, bookVars, starVars>>
Teaming(Move) ==
    /\ part = "teams" /\ Move
    /\ UNCHANGED <<part, vars, keyVars, limiterVars, usageVars, bookVars, starVars>>
Using(Move) ==
    /\ part = "usage" /\ Move
    /\ UNCHANGED <<part, vars, keyVars, limiterVars, teamVars, bookVars, starVars>>
Booking(Move) ==
    /\ part = "ledger" /\ Move
    /\ UNCHANGED <<part, vars, keyVars, limiterVars, teamVars, usageVars, starVars>>
Gazing(Move) ==
    /\ part = "stars" /\ Move
    /\ UNCHANGED <<part, vars, keyVars, limiterVars, teamVars, usageVars, bookVars>>

AllNext ==
    \/ Paying(\E a \in Accounts, g \in Grants, n \in Amount, t \in 0..MaxTime : GrantCredits(a, g, n, t))
    \/ Paying(\E a \in Accounts, j \in Jobs, n \in Amount : ReserveCredits(a, j, n))
    \/ Paying(\E a \in Accounts, j \in Jobs, n \in Amount : CommitDebit(a, j, n))
    \/ Paying(\E a \in Accounts, j \in Jobs : ReleaseReservation(a, j))
    \/ Paying(Tick)
    \/ Authenticating(\E p \in Processes, k \in Keys : K!Hit(p, k))
    \/ Authenticating(\E p \in Processes, k \in Keys : K!Miss(p, k))
    \/ Authenticating(\E p \in Processes, k \in Keys : K!Revoke(p, k))
    \/ Authenticating(\E p \in Processes, k \in Keys : K!Rename(p, k))
    \/ Authenticating(\E p \in Processes, k \in Keys, expires \in {None} \cup keysNow..MaxTime : K!CreateKey(p, k, expires))
    \/ Authenticating(\E p \in Processes : K!Record(p))
    \/ Authenticating(\E p \in Processes : K!RecordFails(p))
    \/ Authenticating(K!Tick)
    \/ Limiting(L!Check)
    \/ Limiting(L!Wait)
    \/ Teaming(\E r \in Requests, u \in Users : P!AskMember(r, u))
    \/ Teaming(\E r \in Requests, u \in Users : P!AskDelete(r, u))
    \/ Teaming(\E r \in Requests, u \in Users : P!AskAnnotate(r, u))
    \/ Teaming(\E r \in Requests, u \in Users : P!AskChat(r, u))
    \/ Teaming(\E r \in Requests, u \in Users : P!AskTouch(r, u))
    \/ Teaming(\E r \in Requests : P!CreateProject(r))
    \/ Teaming(\E r \in Requests : P!AddMember(r))
    \/ Teaming(\E r \in Requests : P!ChangeRole(r))
    \/ Teaming(\E r \in Requests : P!RemoveMember(r))
    \/ Teaming(\E r \in Requests : P!ClearAnnotations(r))
    \/ Teaming(\E r \in Requests : P!DeleteProject(r))
    \/ Teaming(\E r \in Requests : P!CreateAnnotation(r))
    \/ Teaming(\E r \in Requests : P!ExtractAnnotation(r))
    \/ Teaming(\E r \in Requests : P!CountAnnotations(r))
    \/ Teaming(\E r \in Requests : P!ChatLeavesNothing(r))
    \/ Teaming(\E r \in Requests : P!FetchAnnotation(r))
    \/ Teaming(\E r \in Requests : P!UpsertAnnotation(r))
    \/ Teaming(\E r \in Requests : P!EraseAnnotation(r))
    \/ Teaming(\E r \in Requests : P!UncountAnnotation(r))
    \/ Teaming(\E r \in Requests : P!Break(r))
    \/ Using(\E t \in {"t1", "t2", "t3"} : U!Enter(t))
    \/ Using(\E t \in {"t1", "t2", "t3"} : U!Leave(t))
    \/ Using(\E t \in {"t1", "t2", "t3"}, r \in Answers, stored \in BOOLEAN : U!Answer(t, r, stored))
    \/ Using(\E j \in {"j1", "j2"} : U!Commit(j))
    \/ Booking(\E a \in Buyers, g \in Buys, n \in M!Amount, t \in 0..MaxTime : M!MemoryGrant(a, g, n, t))
    \/ Booking(\E a \in Buyers, j \in Calls, n \in M!Amount : M!MemoryReserve(a, j, n))
    \/ Booking(\E a \in Buyers, j \in Calls, n \in M!Amount : M!MemoryCommit(a, j, n))
    \/ Booking(\E a \in Buyers, j \in Calls, n \in M!Amount : M!CommitRaises(a, j, n))
    \/ Booking(\E a \in Buyers, j \in Calls : M!MemoryRelease(a, j))
    \/ Booking(M!Tick)
    \/ Gazing(\E j \in StarJobs, target \in Targets : G!Start(j, target))
    \/ Gazing(\E j \in StarJobs : G!Stop(j))
    \/ Gazing(\E j \in StarJobs : G!Resume(j))
    \/ Gazing(\E j \in StarJobs : G!Fetch(j))
    \/ Gazing(\E j \in StarJobs : G!PageDone(j))
    \/ Gazing(\E j \in StarJobs : G!Claim(j))
    \/ Gazing(\E j \in StarJobs : G!Mail(j))
    \/ Gazing(\E j \in StarJobs : G!NoToken(j))
    \/ Gazing(\E j \in StarJobs : G!Fails(j))
    \/ Gazing(\E j \in StarJobs : G!End(j))
    \/ Gazing(G!Crash)

AllSpec == AllInit /\ [][AllNext]_allVars

Symmetry == Permutations(Keys) \cup Permutations(Processes)

-----------------------------------------------------------------------------
(* ApiKeys: a dead key stops working when its cached validation ends.      *)
DeadKeysLapse == part = "keys" => K!DeadKeysLapse

(* RateLimiter: no window sees more requests pass than the limit, and none *)
(* is turned away before.                                                  *)
LimitIsSharp == part = "limiter" => L!LimitIsSharp

(* Teams: who was added is a member, and the count follows the             *)
(* annotations.                                                            *)
TeamsAreTrue == part = "teams" => P!AddedIsMember /\ P!CountFollows

(* Usage: a job is billed for the calls made for it, every token once.     *)
BillsAreExact == part = "usage" => U!BillsAreExact

(* MemoryLedger: whatever raises half way, no credit appears.              *)
NothingIsMadeUp == part = "ledger" => M!NothingIsMadeUp

(* StargazerScan: nobody is taken up twice and nobody is missed.           *)
EverybodyOnce == part = "stars" => G!ContactsAreUnique /\ G!NobodyIsMissed
=============================================================================
