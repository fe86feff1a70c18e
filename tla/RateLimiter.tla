---- MODULE RateLimiter ----
(***************************************************************************)
(* The sliding window that the requests of one caller pass in one process: *)
(* _SlidingWindowRateLimiter in src/api/dependencies.py.  Nothing is       *)
(* waited for while its lock is held, so that a check is one step.         *)
(***************************************************************************)
EXTENDS Integers, Sequences, FiniteSets

CONSTANTS Window, MaxRequests,
          MaxTime  \* bound: time passes to here

VARIABLES
    clock,
    hits,      \* _hits of the caller: which of the requests that passed
    admitted,  \* history: when requests passed
    refused    \* history: when requests were turned away

vars == <<clock, hits, admitted, refused>>

Init == clock = 0 /\ hits = {} /\ admitted = <<>> /\ refused = {}

(* Mutant: the window ends a tick early. *)
RecentShort(some, t) == {n \in some : admitted[n] > t - Window + 1}

(* The hits that count at time t. *)
Recent(some, t) == {n \in some : admitted[n] > t - Window}

(* enforce_rate_limit: a request that is turned away leaves no hit.        *)
Check ==
    LET recent == Recent(hits, clock)
        allowed == Cardinality(recent) < MaxRequests
    IN /\ hits' = IF allowed THEN recent \cup {Len(admitted) + 1} ELSE recent
       /\ admitted' = IF allowed THEN Append(admitted, clock) ELSE admitted
       /\ refused' = IF allowed THEN refused ELSE refused \cup {clock}
       /\ UNCHANGED clock

Wait ==
    /\ clock < MaxTime
    /\ clock' = clock + 1
    /\ UNCHANGED <<hits, admitted, refused>>

Next == Check \/ Wait

Spec == Init /\ [][Next]_vars

(* The limit is sharp although hits are forgotten as the window moves: no  *)
(* period as long as the window sees more than MaxRequests requests pass,  *)
(* and a request is turned away only at the end of one that saw that many. *)
LimitIsSharp ==
    /\ \A i \in 1..(Len(admitted) - MaxRequests) :
         admitted[i + MaxRequests] - admitted[i] >= Window
    /\ \A t \in refused :
         Cardinality({i \in 1..Len(admitted) :
             t - Window < admitted[i] /\ admitted[i] <= t}) = MaxRequests
====
