---- MODULE AccountsProofs ----
(***************************************************************************)
(* Proofs about what surrounds the memory: the rate limiter, for any       *)
(* window and limit; the projects of teams, for any members, annotations   *)
(* and requests; the API keys, for any processes and keys, any life and    *)
(* size of the caches, and however long a validation takes; and the ledger *)
(* kept in memory, by the proofs of CreditLedger.                          *)
(*                                                                         *)
(* Where a theorem is about MCAccounts, in which one part moves and the    *)
(* others rest, a first lemma says that the part keeps its own             *)
(* specification, and the invariant is proved of that.                     *)
(***************************************************************************)
EXTENDS MCAccounts, FiniteSetTheorems, TLAPS

-----------------------------------------------------------------------------
(* The rate limiter. *)

(* Whatever part moves, the limiter takes steps of its own or rests. *)
LEMMA LimiterKeepsItsSpec == AllSpec => L!Spec
<1>1. AllInit => L!Init
  BY DEF AllInit
<1>2. [AllNext]_allVars => [L!Next]_L!vars
  BY DEF AllNext, allVars, Paying, Authenticating, Limiting, Teaming, Using, Booking,
         Gazing, limiterVars, L!Next, L!vars
<1> QED
  BY <1>1, <1>2, PTL DEF AllSpec, L!Spec

LEMMA LimiterCounts == \A S : L!Cardinality(S) = Cardinality(S)
BY DEF L!Cardinality, Cardinality

(* The requests that passed in the window that ends at t. *)
InWindow(t) == {n \in 1..Len(admitted) : admitted[n] > t - Window}

(* Requests pass in the order of time; the hits kept are numbers of        *)
(* requests that passed, and those forgotten are out of every window to    *)
(* come.                                                                   *)
HitsInv ==
    /\ clock \in Nat /\ admitted \in Seq(Nat) /\ hits \subseteq 1..Len(admitted)
    /\ \A m, n \in 1..Len(admitted) : m <= n => admitted[m] <= admitted[n]
    /\ \A n \in 1..Len(admitted) : admitted[n] <= clock
    /\ \A n \in (1..Len(admitted)) \ hits : admitted[n] <= clock - Window

(* No more than MaxRequests pass within a window, and whoever was turned   *)
(* away saw as many.                                                       *)
SpreadOut ==
    \A m, n \in 1..Len(admitted) :
        n = m + MaxRequests => admitted[n] - admitted[m] >= Window
Rightly ==
    \A t \in refused :
        t \in 0..clock /\ Cardinality({n \in InWindow(t) : admitted[n] <= t}) = MaxRequests

LimiterInv == HitsInv /\ SpreadOut /\ Rightly

(* What counts at a time is what passed within the window. *)
LEMMA RecentIsInWindow ==
    ASSUME HitsInv
    PROVE  L!Recent(hits, clock) = InWindow(clock)
<1>1. clock \in Nat /\ Window \in Nat /\ hits \subseteq 1..Len(admitted)
      /\ \A n \in 1..Len(admitted) : admitted[n] \in Nat
  BY LimiterAssumption DEF HitsInv
<1>2. ASSUME NEW n \in 1..Len(admitted), admitted[n] > clock - Window
      PROVE  n \in hits
  <2>1. n \notin hits => admitted[n] <= clock - Window
    BY DEF HitsInv
  <2> QED
    BY <1>1, <1>2, <2>1
<1>3. L!Recent(hits, clock) = {n \in hits : admitted[n] > clock - Window}
  BY DEF L!Recent
<1> QED
  BY <1>1, <1>2, <1>3, Zenon DEF InWindow

(* None passed later than now. *)
LEMMA AllInWindow ==
    ASSUME HitsInv, NEW t, t = clock
    PROVE  {n \in InWindow(t) : admitted[n] <= t} = InWindow(t)
<1>1. \A n \in InWindow(t) : admitted[n] <= t
  BY DEF HitsInv, InWindow
<1> QED
  BY <1>1

(* It is the last of the requests that passed, MaxRequests at most. *)
LEMMA WindowIsSmall ==
    ASSUME LimiterInv
    PROVE  /\ IsFiniteSet(InWindow(clock)) /\ Cardinality(InWindow(clock)) <= MaxRequests
           /\ Cardinality(InWindow(clock)) \in Nat
           /\ \A m \in InWindow(clock) : m..Len(admitted) \subseteq InWindow(clock)
<1> DEFINE n == Len(admitted)
           last == (n - MaxRequests + 1)..n
<1>1. n \in Nat /\ MaxRequests \in Nat /\ Window \in Nat /\ clock \in Nat
  BY LimiterAssumption DEF LimiterInv, HitsInv
<1>2. \A i \in 1..n : admitted[i] \in Nat /\ admitted[i] <= clock
  BY DEF LimiterInv, HitsInv
<1>3. ASSUME NEW m \in InWindow(clock), NEW i \in m..n
      PROVE  i \in InWindow(clock)
  <2>1. m \in 1..n /\ i \in 1..n /\ admitted[m] > clock - Window
    BY <1>1, <1>3 DEF InWindow
  <2>2. admitted[m] <= admitted[i]
    BY <1>1, <1>3, <2>1 DEF LimiterInv, HitsInv
  <2> QED
    BY <1>1, <1>2, <2>1, <2>2 DEF InWindow
<1>4. ASSUME NEW m \in InWindow(clock)
      PROVE  m \in last
  <2>1. m \in 1..n /\ admitted[m] > clock - Window
    BY <1>4 DEF InWindow
  <2>2. ASSUME m <= n - MaxRequests
        PROVE  FALSE
    <3>1. m + MaxRequests \in 1..n
      BY <1>1, <2>1, <2>2
    <3>2. admitted[m + MaxRequests] - admitted[m] >= Window
      BY <2>1, <3>1 DEF LimiterInv, SpreadOut
    <3> QED
      BY <1>1, <1>2, <2>1, <3>1, <3>2
  <2> QED
    BY <1>1, <2>1, <2>2
<1>5. IsFiniteSet(last) /\ Cardinality(last) = MaxRequests
  <2>1. n - MaxRequests + 1 \in Int /\ n \in Int
    BY <1>1
  <2>2. IsFiniteSet(last) /\ Cardinality(last)
          = IF n - MaxRequests + 1 > n THEN 0 ELSE n - (n - MaxRequests + 1) + 1
    BY <2>1, FS_Interval
  <2> QED
    BY <1>1, <2>2
<1>6. InWindow(clock) \subseteq last
  BY <1>4
<1> HIDE DEF last
<1>7. IsFiniteSet(InWindow(clock)) /\ Cardinality(InWindow(clock)) <= Cardinality(last)
  BY <1>5, <1>6, FS_Subset
<1> QED
  BY <1>3, <1>5, <1>7, FS_CardinalityType

(* A check preserves LimiterInv. *)
LEMMA CheckPreserves == LimiterInv /\ L!Check => LimiterInv'
<1> SUFFICES ASSUME LimiterInv, L!Check
             PROVE  LimiterInv'
  OBVIOUS
<1> DEFINE n == Len(admitted)
           recent == InWindow(clock)
<1>1. /\ n \in Nat /\ MaxRequests \in Nat /\ Window \in Nat /\ clock \in Nat
      /\ admitted \in Seq(Nat) /\ hits \subseteq 1..n
      /\ \A i \in 1..n : admitted[i] \in Nat /\ admitted[i] <= clock
  BY LimiterAssumption DEF LimiterInv, HitsInv
<1>2. /\ L!Recent(hits, clock) = recent
      /\ IsFiniteSet(recent) /\ Cardinality(recent) <= MaxRequests
      /\ Cardinality(recent) \in Nat
      /\ \A m \in recent : m..n \subseteq recent
  BY RecentIsInWindow, WindowIsSmall DEF LimiterInv
<1>3. /\ clock' = clock
      /\ \/ /\ Cardinality(recent) < MaxRequests /\ refused' = refused
            /\ hits' = recent \cup {n + 1} /\ admitted' = Append(admitted, clock)
         \/ /\ ~(Cardinality(recent) < MaxRequests) /\ refused' = refused \cup {clock}
            /\ hits' = recent /\ admitted' = admitted
  BY <1>2, LimiterCounts DEF L!Check
<1>4. CASE Cardinality(recent) < MaxRequests
  <2>1. /\ hits' = recent \cup {n + 1} /\ admitted' = Append(admitted, clock)
        /\ refused' = refused
    BY <1>3, <1>4
  <2>2. /\ admitted' \in Seq(Nat) /\ Len(admitted') = n + 1
        /\ admitted'[n + 1] = clock
        /\ \A i \in 1..n : admitted'[i] = admitted[i]
    BY <1>1, <2>1
  <2>3. recent \subseteq 1..n /\ \A i \in (1..n) \ recent : admitted[i] <= clock - Window
    BY <1>1 DEF InWindow
  <2> HIDE DEF recent
  <2>4. HitsInv'
    <3>1. hits' \subseteq 1..(n + 1)
      <4>1. n + 1 \in 1..(n + 1) /\ 1..n \subseteq 1..(n + 1)
        BY <1>1
      <4> QED
        BY <2>1, <2>3, <4>1, Zenon
    <3>2. ASSUME NEW i \in 1..(n + 1), NEW j \in 1..(n + 1), i <= j
          PROVE  admitted'[i] <= admitted'[j]
      <4>1. CASE j \in 1..n
        <5>1. i \in 1..n
          BY <1>1, <3>2, <4>1
        <5>2. admitted[i] <= admitted[j]
          BY <3>2, <4>1, <5>1 DEF LimiterInv, HitsInv
        <5> QED
          BY <2>2, <4>1, <5>1, <5>2
      <4>2. CASE i \in 1..n /\ j = n + 1
        BY <1>1, <2>2, <4>2
      <4>3. CASE i = n + 1 /\ j = n + 1
        BY <1>1, <2>2, <4>3
      <4> QED
        BY <1>1, <3>2, <4>1, <4>2, <4>3
    <3>3. ASSUME NEW i \in 1..(n + 1)
          PROVE  admitted'[i] <= clock
      <4>1. CASE i = n + 1
        BY <1>1, <2>2, <4>1
      <4>2. CASE i # n + 1
        <5>1. i \in 1..n
          BY <1>1, <4>2
        <5> QED
          BY <1>1, <2>2, <5>1
      <4> QED
        BY <4>1, <4>2
    <3>4. \A i \in (1..(n + 1)) \ hits' : admitted'[i] <= clock - Window
      BY <1>1, <2>1, <2>2, <2>3
    <3> QED
      BY <1>1, <1>3, <2>2, <3>1, <3>2, <3>3, <3>4 DEF HitsInv
  <2>5. SpreadOut'
    <3> SUFFICES ASSUME NEW i \in 1..(n + 1), NEW j \in 1..(n + 1), j = i + MaxRequests
                 PROVE  admitted'[j] - admitted'[i] >= Window
      BY <2>2 DEF SpreadOut
    <3>1. CASE j <= n
      <4>1. i \in 1..n /\ j \in 1..n
        BY <1>1, <3>1
      <4>2. admitted[j] - admitted[i] >= Window
        BY <4>1 DEF LimiterInv, SpreadOut
      <4> QED
        BY <2>2, <4>1, <4>2
    <3>2. CASE j = n + 1 /\ i <= n
      <4>1. i \notin recent
        <5> SUFFICES ASSUME i \in recent
                     PROVE  FALSE
          OBVIOUS
        <5>1. i..n \subseteq recent
          BY <1>2
        <5>2. IsFiniteSet(i..n) /\ Cardinality(i..n) = n - i + 1
          BY <1>1, <3>2, FS_Interval
        <5>3. Cardinality(i..n) <= Cardinality(recent)
          BY <1>2, <5>1, FS_Subset
        <5> QED
          BY <1>1, <1>2, <1>4, <3>2, <5>2, <5>3
      <4>2. admitted[i] <= clock - Window /\ i \in 1..n
        BY <1>1, <2>3, <3>2, <4>1
      <4>3. admitted'[j] = clock /\ admitted'[i] = admitted[i]
        BY <2>2, <3>2, <4>2
      <4> QED
        BY <1>1, <4>2, <4>3
    <3>3. CASE j = n + 1 /\ i = n + 1
      <4>1. MaxRequests = 0
        BY <1>1, <3>3
      <4> QED
        BY <1>1, <1>2, <1>4, <4>1
    <3> QED
      BY <1>1, <3>1, <3>2, <3>3
  <2>6. Rightly'
    <3> SUFFICES ASSUME NEW t \in refused
                 PROVE  /\ t \in 0..clock
                        /\ Cardinality({i \in InWindow(t)' : admitted'[i] <= t}) = MaxRequests
      BY <1>3, <2>1 DEF Rightly
    <3>1. /\ t \in 0..clock
          /\ Cardinality({i \in InWindow(t) : admitted[i] <= t}) = MaxRequests
      BY DEF LimiterInv, Rightly
    <3>2. t # clock
      <4> SUFFICES ASSUME t = clock
                   PROVE  FALSE
        OBVIOUS
      <4>1. {i \in InWindow(t) : admitted[i] <= t} = recent
        BY AllInWindow DEF LimiterInv, recent
      <4>2. Cardinality(recent) = MaxRequests
        BY <3>1, <4>1, Zenon
      <4> QED
        BY <1>1, <1>4, <4>2
    <3>3. {i \in InWindow(t)' : admitted'[i] <= t} = {i \in InWindow(t) : admitted[i] <= t}
      <4>1. ~(clock <= t)
        BY <1>1, <3>1, <3>2
      <4>2. \A i \in 1..(n + 1) : admitted'[i] <= t => i \in 1..n /\ admitted'[i] = admitted[i]
        <5>1. ASSUME NEW i \in 1..(n + 1), admitted'[i] <= t
              PROVE  i \in 1..n
          <6>1. i # n + 1
            BY <2>2, <4>1, <5>1
          <6> QED
            BY <1>1, <6>1
        <5> QED
          BY <2>2, <5>1
      <4>3. \A i \in 1..n : i \in 1..(n + 1) /\ admitted'[i] = admitted[i]
        BY <1>1, <2>2
      <4>4. /\ InWindow(t)' = {i \in 1..(n + 1) : admitted'[i] > t - Window}
            /\ InWindow(t) = {i \in 1..n : admitted[i] > t - Window}
        BY <1>1, <2>2 DEF InWindow
      <4> QED
        BY <4>2, <4>3, <4>4
    <3> QED
      BY <3>1, <3>3
  <2> QED
    BY <2>4, <2>5, <2>6 DEF LimiterInv
<1>5. CASE ~(Cardinality(recent) < MaxRequests)
  <2>1. hits' = recent /\ admitted' = admitted /\ refused' = refused \cup {clock}
    BY <1>3, <1>5
  <2>2. HitsInv'
    BY <1>1, <1>3, <2>1 DEF LimiterInv, HitsInv, InWindow
  <2>3. SpreadOut'
    BY <2>1 DEF LimiterInv, SpreadOut
  <2>4. Cardinality({i \in InWindow(clock) : admitted[i] <= clock}) = MaxRequests
    <3>1. {i \in InWindow(clock) : admitted[i] <= clock} = recent
      BY AllInWindow DEF LimiterInv
    <3>2. Cardinality(recent) = MaxRequests
      <4> HIDE DEF recent
      <4> QED
        BY <1>1, <1>2, <1>5
    <3> QED
      BY <3>1, <3>2, Zenon
  <2>5. Rightly'
    <3> SUFFICES ASSUME NEW t \in refused \cup {clock}
                 PROVE  /\ t \in 0..clock
                        /\ Cardinality({i \in InWindow(t) : admitted[i] <= t}) = MaxRequests
      BY <1>3, <2>1 DEF Rightly, InWindow
    <3>1. CASE t \in refused
      BY <3>1 DEF LimiterInv, Rightly
    <3>2. CASE t = clock
      BY <1>1, <2>4, <3>2
    <3> QED
      BY <3>1, <3>2
  <2> QED
    BY <2>2, <2>3, <2>5 DEF LimiterInv
<1> QED
  BY <1>4, <1>5

(* LimitIsSharp: no period as long as the window sees more than MaxRequests *)
(* requests pass, and who is turned away comes at the end of one that saw   *)
(* as many.                                                                 *)
THEOREM LimitStaysSharp == AllSpec => []LimitIsSharp
<1>1. L!Init => LimiterInv
  BY LimiterAssumption DEF L!Init, LimiterInv, HitsInv, SpreadOut, Rightly
<1>2. LimiterInv /\ [L!Next]_L!vars => LimiterInv'
  <2>1. ASSUME LimiterInv, L!Wait
        PROVE  LimiterInv'
    <3>1. clock' = clock + 1 /\ clock \in Nat /\ Window \in Nat
          /\ hits' = hits /\ admitted' = admitted /\ refused' = refused
      BY <2>1, LimiterAssumption DEF L!Wait, LimiterInv, HitsInv
    <3>2. HitsInv'
      BY <2>1, <3>1 DEF LimiterInv, HitsInv
    <3>3. SpreadOut'
      BY <2>1, <3>1 DEF LimiterInv, SpreadOut
    <3>4. Rightly'
      <4> SUFFICES ASSUME NEW t \in refused
                   PROVE  /\ t \in 0..(clock + 1)
                          /\ Cardinality({i \in InWindow(t) : admitted[i] <= t}) = MaxRequests
        BY <3>1 DEF Rightly, InWindow
      <4>1. /\ t \in 0..clock
            /\ Cardinality({i \in InWindow(t) : admitted[i] <= t}) = MaxRequests
        BY <2>1 DEF LimiterInv, Rightly
      <4> QED
        BY <3>1, <4>1
    <3> QED
      BY <3>2, <3>3, <3>4 DEF LimiterInv
  <2>2. ASSUME LimiterInv, UNCHANGED L!vars
        PROVE  LimiterInv'
    BY <2>2 DEF L!vars, LimiterInv, HitsInv, SpreadOut, Rightly, InWindow
  <2> QED
    BY <2>1, <2>2, CheckPreserves DEF L!Next
<1>3. LimiterInv => L!LimitIsSharp
  <2> SUFFICES ASSUME LimiterInv
               PROVE  L!LimitIsSharp
    OBVIOUS
  <2>1. Len(admitted) \in Nat /\ MaxRequests \in Nat
    BY LimiterAssumption DEF LimiterInv, HitsInv
  <2>2. ASSUME NEW i \in 1..(Len(admitted) - MaxRequests)
        PROVE  admitted[i + MaxRequests] - admitted[i] >= Window
    <3>1. i \in 1..Len(admitted) /\ i + MaxRequests \in 1..Len(admitted)
      BY <2>1
    <3> QED
      BY <3>1 DEF LimiterInv, SpreadOut
  <2>3. ASSUME NEW t \in refused
        PROVE  L!Cardinality({i \in 1..Len(admitted) :
                   t - Window < admitted[i] /\ admitted[i] <= t}) = MaxRequests
    <3>1. {i \in 1..Len(admitted) : t - Window < admitted[i] /\ admitted[i] <= t}
            = {i \in InWindow(t) : admitted[i] <= t}
      <4>1. t \in 0..clock /\ clock \in Nat /\ Window \in Nat
            /\ \A i \in 1..Len(admitted) : admitted[i] \in Nat
        <5>1. t \in 0..clock
          BY DEF LimiterInv, Rightly
        <5> QED
          BY <5>1, LimiterAssumption DEF LimiterInv, HitsInv
      <4> QED
        BY <4>1 DEF InWindow
    <3> QED
      BY <3>1, LimiterCounts DEF LimiterInv, Rightly
  <2> QED
    BY <2>2, <2>3 DEF L!LimitIsSharp
<1>4. L!Spec => []L!LimitIsSharp
  BY <1>1, <1>2, <1>3, PTL DEF L!Spec
<1>5. L!LimitIsSharp => LimitIsSharp
  BY DEF LimitIsSharp
<1> QED
  BY <1>4, <1>5, LimiterKeepsItsSpec, PTL

-----------------------------------------------------------------------------
(* The projects of teams. *)

(* Whatever part moves, the projects take steps of their own or rest. *)
LEMMA TeamsKeepTheirSpec == AllSpec => P!Spec
<1>1. AllInit => P!Init
  BY DEF AllInit
<1>2. [AllNext]_allVars => [P!Next]_P!vars
  BY DEF AllNext, allVars, Paying, Authenticating, Limiting, Teaming, Using, Booking,
         Gazing, teamVars, P!Next, P!Step, P!vars
<1> QED
  BY <1>1, <1>2, PTL DEF AllSpec, P!Spec

LEMMA TeamsCount == \A S : P!Cardinality(S) = Cardinality(S)
BY DEF P!Cardinality, Cardinality

(* The annotations that are stored and not counted yet, and those that are *)
(* erased and still counted.                                               *)
Uncounted == {e \in Requests \X (Nat \ {0}) : e[2] <= request[e[1]].made}
Overcounted == {r \in Requests : request[r].kind = "uncount"}

(* A request, when some ids have been given. *)
RequestOk(q, some) ==
    /\ DOMAIN q = DOMAIN P!Idle /\ q.made \in Nat
    /\ q.kind \in {"add", "change", "remove"} => q.to \in Users
    /\ q.kind \in {"add", "change"} => q.role \in P!Roles
    /\ q.kind \in {"fetch", "upsert", "erase"} => q.to \in some
    /\ q.made > 0 => q.kind \in {"annotate", "chat"}

RequestsInv ==
    /\ given \subseteq Annotations
    /\ DOMAIN request = Requests /\ \A r \in Requests : RequestOk(request[r], given)

MembersInv ==
    /\ members \in [Users -> {None} \cup [role : P!Roles, active : BOOLEAN]]
    /\ welcome \subseteq Users

(* Nobody does anything to a project that is not created. *)
UnbornInv ==
    /\ project \in {"none", "live", "deleted"}
    /\ project = "none" =>
         /\ \A u \in Users : members[u] = None
         /\ \A r \in Requests : request[r] = P!Idle
         /\ DOMAIN annotations = {}

(* The count and the annotations differ by what is under way. *)
CountInv ==
    /\ count \in Int /\ DOMAIN annotations \subseteq given
    /\ IsFiniteSet(Uncounted)
    /\ project # "deleted" /\ ~drifted =>
         count + Cardinality(Uncounted) - Cardinality(Overcounted)
             = Cardinality(DOMAIN annotations)

WelcomeInv == \A u \in welcome : members[u] # None /\ members[u].active /\ members[u].role # None

TeamsInv == RequestsInv /\ MembersInv /\ UnbornInv /\ CountInv

LEMMA IdleIsOk == \A some : RequestOk(P!Idle, some) /\ P!Idle.made = 0 /\ P!Idle.kind = "idle"
BY DEF P!Idle, RequestOk

(* A request changes. *)
LEMMA RequestChanges ==
    ASSUME RequestsInv, NEW r \in Requests, NEW new, NEW some \in SUBSET Annotations,
           given' = some, given \subseteq some,
           RequestOk(new, some), request' = [request EXCEPT ![r] = new]
    PROVE  RequestsInv'
<1>1. DOMAIN request' = Requests /\ request'[r] = new
      /\ \A q \in Requests \ {r} : request'[q] = request[q]
  BY DEF RequestsInv
<1>2. ASSUME NEW q \in Requests
      PROVE  RequestOk(request'[q], some)
  <2>1. CASE q = r
    BY <1>1, <2>1
  <2>2. CASE q # r
    BY <1>1, <2>2 DEF RequestsInv, RequestOk
  <2> QED
    BY <2>1, <2>2
<1> QED
  BY <1>1, <1>2 DEF RequestsInv, RequestOk

(* A change that stores and erases nothing leaves what is under way. *)
LEMMA UnderWayRests ==
    ASSUME RequestsInv, NEW r \in Requests, NEW new,
           request' = [request EXCEPT ![r] = new], new.made = request[r].made,
           new.kind = "uncount" <=> request[r].kind = "uncount"
    PROVE  Uncounted' = Uncounted /\ Overcounted' = Overcounted
<1>1. \A q \in Requests : request'[q].made = request[q].made
                          /\ (request'[q].kind = "uncount" <=> request[q].kind = "uncount")
  BY DEF RequestsInv
<1> QED
  BY <1>1 DEF Uncounted, Overcounted

(* A step that stores, erases and counts nothing preserves CountInv. *)
LEMMA QuietStep ==
    ASSUME RequestsInv, CountInv, NEW r \in Requests, NEW new,
           request' = [request EXCEPT ![r] = new], new.made = request[r].made,
           new.kind = "uncount" <=> request[r].kind = "uncount",
           RequestOk(new, given),
           count' = count, annotations' = annotations, given' = given,
           project' # "deleted" => project # "deleted",
           drifted => drifted'
    PROVE  RequestsInv' /\ CountInv'
<1>1. RequestsInv'
  BY RequestChanges DEF RequestsInv
<1>2. Uncounted' = Uncounted /\ Overcounted' = Overcounted
  BY UnderWayRests
<1>3. CountInv'
  BY <1>2 DEF CountInv
<1> QED
  BY <1>1, <1>3

(* A request comes. *)
LEMMA ServePreserves ==
    ASSUME TeamsInv, NEW r \in Requests, NEW new, P!Serve(r, new),
           RequestOk(new, given), new.made = 0, new.kind # "uncount",
           \/ project # "none" /\ project' = project
           \/ project = "none" /\ project' = "live",
           UNCHANGED <<members, count, annotations, given, welcome, drifted>>
    PROVE  TeamsInv'
<1>1. request' = [request EXCEPT ![r] = new] /\ request[r] = P!Idle
  BY DEF P!Serve
<1>2. RequestsInv' /\ CountInv'
  BY <1>1, IdleIsOk, QuietStep DEF TeamsInv
<1> QED
  BY <1>2 DEF TeamsInv, MembersInv, UnbornInv

(* Those who ask have a role, or the project is alive. *)
LEMMA AskPreserves ==
    ASSUME TeamsInv, NEW r \in Requests, NEW u \in Users,
           \/ P!AskMember(r, u) \/ P!AskDelete(r, u) \/ P!AskAnnotate(r, u)
           \/ P!AskChat(r, u) \/ P!AskTouch(r, u)
    PROVE  TeamsInv'
<1>1. project' = project /\ UNCHANGED <<members, count, annotations, given, welcome, drifted>>
  BY DEF P!AskMember, P!AskDelete, P!AskAnnotate, P!AskChat, P!AskTouch
<1>2. project # "none"
  <2>1. CASE P!AskMember(r, u)
    BY <2>1, TeamsAssumption
    DEF P!AskMember, P!CanManage, P!CanEdit, P!Role, P!Roles, TeamsInv, UnbornInv
  <2>2. CASE P!AskTouch(r, u)
    BY <2>2 DEF P!AskTouch, P!MayTouch, TeamsInv, UnbornInv
  <2> QED
    BY <2>1, <2>2 DEF P!AskDelete, P!IsCreator, P!AskAnnotate, P!AskChat
<1>3. PICK new : /\ P!Serve(r, new) /\ RequestOk(new, given)
                 /\ new.made = 0 /\ new.kind # "uncount"
  <2>1. CASE P!AskMember(r, u)
    <3>1. PICK t \in Users :
            \/ \E role \in P!Roles :
                 P!Serve(r, [P!Idle EXCEPT !.kind = "add", !.by = u, !.to = t, !.role = role])
            \/ \E role \in P!Roles :
                 P!Serve(r, [P!Idle EXCEPT !.kind = "change", !.by = u, !.to = t, !.role = role])
            \/ P!Serve(r, [P!Idle EXCEPT !.kind = "remove", !.by = u, !.to = t])
      BY <2>1 DEF P!AskMember
    <3>2. \A role \in P!Roles, kind \in {"add", "change"} :
            LET new == [P!Idle EXCEPT !.kind = kind, !.by = u, !.to = t, !.role = role]
            IN  RequestOk(new, given) /\ new.made = 0 /\ new.kind # "uncount"
      BY DEF RequestOk, P!Idle
    <3>3. LET new == [P!Idle EXCEPT !.kind = "remove", !.by = u, !.to = t]
          IN  RequestOk(new, given) /\ new.made = 0 /\ new.kind # "uncount"
      BY DEF RequestOk, P!Idle
    <3> QED
      BY <3>1, <3>2, <3>3
  <2>2. CASE P!AskTouch(r, u)
    <3>1. PICK a \in given, kind \in {"fetch", "erase"} :
            P!Serve(r, [P!Idle EXCEPT !.kind = kind, !.by = u, !.to = a])
      BY <2>2 DEF P!AskTouch, TeamsInv, CountInv
    <3>2. LET new == [P!Idle EXCEPT !.kind = kind, !.by = u, !.to = a]
          IN  RequestOk(new, given) /\ new.made = 0 /\ new.kind # "uncount"
      BY DEF RequestOk, P!Idle
    <3> QED
      BY <3>1, <3>2
  <2>3. CASE P!AskDelete(r, u) \/ P!AskAnnotate(r, u) \/ P!AskChat(r, u)
    <3>1. PICK kind \in {"clear", "annotate", "chat"} :
            P!Serve(r, [P!Idle EXCEPT !.kind = kind, !.by = u])
      BY <2>3 DEF P!AskDelete, P!AskAnnotate, P!AskChat
    <3>2. LET new == [P!Idle EXCEPT !.kind = kind, !.by = u]
          IN  RequestOk(new, given) /\ new.made = 0 /\ new.kind # "uncount"
      BY DEF RequestOk, P!Idle
    <3> QED
      BY <3>1, <3>2
  <2> QED
    BY <2>1, <2>2, <2>3
<1> QED
  BY <1>1, <1>2, <1>3, ServePreserves

(* A request to add, change or remove a member is done, or one to delete   *)
(* the project, or one that did nothing to the annotations.                *)
LEMMA DonePreserves ==
    ASSUME TeamsInv, NEW r \in Requests, P!Done(r),
           request[r].made = 0, request[r].kind # "uncount",
           count' = count, annotations' = annotations, given' = given,
           project' = project \/ project' = "deleted", drifted => drifted'
    PROVE  RequestsInv' /\ CountInv'
<1>1. request' = [request EXCEPT ![r] = P!Idle]
  BY DEF P!Done
<1> QED
  BY <1>1, IdleIsOk, QuietStep DEF TeamsInv

LEMMA DebtsAreFinite ==
    ASSUME RequestsInv, CountInv
    PROVE  IsFiniteSet(Overcounted) /\ IsFiniteSet(DOMAIN annotations)
<1>1. Overcounted \subseteq Requests /\ DOMAIN annotations \subseteq Annotations
  BY DEF RequestsInv, CountInv, Overcounted
<1> QED
  BY <1>1, TeamsAssumption, FS_Subset

(* Only in a project that was created is a request under way. *)
LEMMA UnderWayIsBorn ==
    ASSUME TeamsInv, NEW r \in Requests, request[r] # P!Idle
    PROVE  project # "none"
BY DEF TeamsInv, UnbornInv

(* The steps of the members preserve TeamsInv. *)
LEMMA MembersPreserve ==
    ASSUME TeamsInv, NEW r \in Requests,
           \/ P!CreateProject(r) \/ P!AddMember(r) \/ P!ChangeRole(r) \/ P!RemoveMember(r)
           \/ P!ClearAnnotations(r) \/ P!DeleteProject(r)
    PROVE  TeamsInv'
<1> DEFINE q == request[r]
<1>0. RequestOk(q, given)
  BY DEF TeamsInv, RequestsInv
<1>1. CASE P!CreateProject(r)
  <2> DEFINE new == [P!Idle EXCEPT !.kind = "add", !.by = Owner, !.to = Owner,
                                   !.role = "manager"]
  <2>1. P!Serve(r, new) /\ project = "none" /\ project' = "live"
        /\ UNCHANGED <<members, count, annotations, given, welcome, drifted>>
    BY <1>1 DEF P!CreateProject
  <2>2. RequestOk(new, given) /\ new.made = 0 /\ new.kind # "uncount"
    BY TeamsAssumption DEF RequestOk, P!Idle, P!Roles
  <2> QED
    BY <2>1, <2>2, ServePreserves
<1>2. CASE P!AddMember(r) \/ P!ChangeRole(r) \/ P!RemoveMember(r)
  <2>1. /\ project # "none" /\ project' = project /\ q.made = 0 /\ q.kind # "uncount"
        /\ P!Done(r) /\ q.to \in Users
        /\ UNCHANGED <<count, annotations, given, drifted>>
    BY <1>0, <1>2, UnderWayIsBorn, IdleIsOk
    DEF P!AddMember, P!ChangeRole, P!RemoveMember, P!At, RequestOk
  <2>2. RequestsInv' /\ CountInv'
    BY <2>1, DonePreserves
  <2>3. MembersInv'
    <3>1. CASE P!AddMember(r)
      <4>1. q.role \in P!Roles
        BY <1>0, <3>1 DEF P!AddMember, P!At, RequestOk
      <4>2. P!Added(q.to, q.role) \in {None} \cup [role : P!Roles, active : BOOLEAN]
        BY <2>1, <4>1 DEF P!Added, TeamsInv, MembersInv
      <4> QED
        BY <2>1, <3>1, <4>2 DEF P!AddMember, TeamsInv, MembersInv
    <3>2. CASE P!ChangeRole(r)
      <4>1. q.role \in P!Roles
        BY <1>0, <3>2 DEF P!ChangeRole, P!At, RequestOk
      <4> QED
        BY <2>1, <3>2, <4>1 DEF P!ChangeRole, TeamsInv, MembersInv
    <3>3. CASE P!RemoveMember(r)
      BY <2>1, <3>3 DEF P!RemoveMember, TeamsInv, MembersInv
    <3> QED
      BY <1>2, <3>1, <3>2, <3>3
  <2> QED
    BY <2>1, <2>2, <2>3 DEF TeamsInv, UnbornInv
<1>3. CASE P!ClearAnnotations(r)
  <2> DEFINE new == [q EXCEPT !.kind = "delete"]
  <2>1. /\ q.kind = "clear" /\ request' = [request EXCEPT ![r] = new] /\ drifted' = TRUE
        /\ UNCHANGED <<project, members, count, given, welcome>>
        /\ DOMAIN annotations' \subseteq DOMAIN annotations
    BY <1>3 DEF P!ClearAnnotations, P!At
  <2>2. RequestOk(new, given) /\ new.made = q.made /\ new.kind # "uncount"
    BY <1>0, <2>1 DEF RequestOk, P!Idle
  <2>3. RequestsInv' /\ Uncounted' = Uncounted
    BY <2>1, <2>2, RequestChanges, UnderWayRests DEF TeamsInv, RequestsInv
  <2> QED
    BY <2>1, <2>3, UnderWayIsBorn, IdleIsOk DEF TeamsInv, CountInv, MembersInv, UnbornInv
<1>4. CASE P!DeleteProject(r)
  <2>1. /\ project' = "deleted" /\ q.made = 0 /\ q.kind # "uncount" /\ P!Done(r)
        /\ members' = [u \in Users |-> None] /\ welcome' = {}
        /\ UNCHANGED <<count, annotations, given, drifted>>
    BY <1>0, <1>4 DEF P!DeleteProject, P!At, RequestOk
  <2>2. RequestsInv' /\ CountInv'
    BY <2>1, DonePreserves
  <2> QED
    BY <2>1, <2>2 DEF TeamsInv, MembersInv, UnbornInv
<1> QED
  BY <1>1, <1>2, <1>3, <1>4

(* An annotation is stored and owed to the count. *)
LEMMA StoredPreserves ==
    ASSUME TeamsInv, NEW r \in Requests, P!Stored(r), request[r].kind \in {"annotate", "chat"}
    PROVE  TeamsInv'
<1> DEFINE q == request[r]
           new == [q EXCEPT !.made = @ + 1]
<1>1. PICK a \in Annotations \ given :
        /\ given' = given \cup {a} /\ DOMAIN annotations' = DOMAIN annotations \cup {a}
        /\ request' = [request EXCEPT ![r] = new]
        /\ UNCHANGED <<project, members, count, welcome, drifted>>
  BY DEF P!Stored
<1>2. RequestOk(q, given) /\ q.made \in Nat
  BY DEF TeamsInv, RequestsInv, RequestOk
<1>3. RequestOk(new, given') /\ new.made = q.made + 1 /\ new.kind = q.kind
  BY <1>2 DEF RequestOk, P!Idle
<1>4. RequestsInv'
  <2>1. given' \in SUBSET Annotations /\ given \subseteq given' /\ RequestsInv
    BY <1>1 DEF TeamsInv, RequestsInv
  <2> HIDE DEF new
  <2> QED
    BY <1>1, <1>3, <2>1, RequestChanges
<1>5. project # "none"
  BY UnderWayIsBorn, IdleIsOk
<1>6. Overcounted' = Overcounted
  BY <1>1, <1>3 DEF TeamsInv, RequestsInv, Overcounted
<1>7. Uncounted' = Uncounted \cup {<<r, q.made + 1>>}
  <2>1. request'[r].made = q.made + 1 /\ \A s \in Requests \ {r} : request'[s] = request[s]
    BY <1>1, <1>3 DEF TeamsInv, RequestsInv
  <2>2. ASSUME NEW s \in Requests, NEW n \in Nat \ {0}
        PROVE  n <= request'[s].made <=> n <= request[s].made \/ (s = r /\ n = q.made + 1)
    BY <1>2, <2>1
  <2> QED
    BY <1>2, <2>2 DEF Uncounted
<1>8. <<r, q.made + 1>> \notin Uncounted
  BY <1>2 DEF Uncounted
<1>9. a \notin DOMAIN annotations /\ IsFiniteSet(DOMAIN annotations)
  <2>1. DOMAIN annotations \subseteq Annotations
    BY DEF TeamsInv, RequestsInv, CountInv
  <2> QED
    BY <2>1, TeamsAssumption, FS_Subset DEF TeamsInv, CountInv
<1>10. /\ IsFiniteSet(Uncounted') /\ Cardinality(Uncounted') = Cardinality(Uncounted) + 1
       /\ Cardinality(DOMAIN annotations') = Cardinality(DOMAIN annotations) + 1
  BY <1>1, <1>7, <1>8, <1>9, FS_AddElement DEF TeamsInv, CountInv
<1>11. /\ Cardinality(Uncounted) \in Nat /\ Cardinality(DOMAIN annotations) \in Nat
       /\ Cardinality(Overcounted) \in Nat
  <2>1. IsFiniteSet(Overcounted)
    BY TeamsAssumption, FS_Subset DEF Overcounted
  <2> QED
    BY <2>1, <1>9, FS_CardinalityType DEF TeamsInv, CountInv
<1>12. CountInv'
  BY <1>1, <1>6, <1>10, <1>11 DEF TeamsInv, CountInv
<1> QED
  BY <1>1, <1>4, <1>5, <1>12 DEF TeamsInv, MembersInv, UnbornInv

(* What was stored is counted, or the project is gone. *)
LEMMA CountPreserves ==
    ASSUME TeamsInv, NEW r \in Requests, P!CountAnnotations(r)
    PROVE  TeamsInv'
<1> DEFINE q == request[r]
           mine == {r} \X (1..q.made)
<1>1. /\ q.kind \in {"annotate", "chat"} /\ q.made \in Nat
      /\ request' = [request EXCEPT ![r] = P!Idle]
      /\ count' = IF project = "live" THEN count + q.made ELSE count
      /\ UNCHANGED <<project, members, annotations, given, welcome, drifted>>
  BY DEF P!CountAnnotations, P!At, P!Done, TeamsInv, RequestsInv, RequestOk
<1>2. RequestsInv'
  <2>1. given' \in SUBSET Annotations /\ given' = given /\ RequestsInv
    BY <1>1 DEF TeamsInv, RequestsInv
  <2> QED
    BY <1>1, <2>1, IdleIsOk, RequestChanges
<1>3. project # "none"
  BY <1>1, UnderWayIsBorn, IdleIsOk
<1>4. request'[r] = P!Idle /\ \A s \in Requests \ {r} : request'[s] = request[s]
  BY <1>1 DEF TeamsInv, RequestsInv
<1>5. Overcounted' = Overcounted
  BY <1>1, <1>4, IdleIsOk DEF Overcounted
<1>6. Uncounted' = Uncounted \ mine /\ mine \subseteq Uncounted
  <2>1. \A n \in Nat \ {0} : n \in 1..q.made <=> n <= q.made
    BY <1>1
  <2>2. \A n \in Nat \ {0} : ~(n <= request'[r].made)
    BY <1>4, IdleIsOk
  <2>3. mine \subseteq Uncounted
    BY <1>1, <2>1 DEF Uncounted
  <2>4. ASSUME NEW s \in Requests, NEW n \in Nat \ {0}
        PROVE  n <= request'[s].made <=> n <= request[s].made /\ <<s, n>> \notin mine
    BY <1>4, <2>1, <2>2
  <2>5. Uncounted' = {e \in Requests \X (Nat \ {0}) : e[2] <= request'[e[1]].made}
    BY DEF Uncounted
  <2> HIDE DEF mine
  <2> QED
    BY <2>3, <2>4, <2>5 DEF Uncounted
<1>7. IsFiniteSet(mine) /\ Cardinality(mine) = q.made
  <2>1. IsFiniteSet(1..q.made) /\ Cardinality(1..q.made) = q.made
    <3>1. 1 \in Int /\ q.made \in Int
      BY <1>1
    <3>2. IsFiniteSet(1..q.made)
          /\ Cardinality(1..q.made) = IF 1 > q.made THEN 0 ELSE q.made - 1 + 1
      BY <3>1, FS_Interval
    <3> QED
      BY <1>1, <3>2
  <2>2. IsFiniteSet({r}) /\ Cardinality({r}) = 1
    BY FS_Singleton
  <2>3. /\ IsFiniteSet({r} \X (1..q.made))
        /\ Cardinality({r} \X (1..q.made)) = Cardinality({r}) * Cardinality(1..q.made)
    <3> HIDE DEF q
    <3> QED
      BY <2>1, <2>2, FS_Product
  <2>4. Cardinality({r}) * Cardinality(1..q.made) = q.made
    BY <1>1, <2>1, <2>2
  <2> QED
    BY <2>3, <2>4
<1>8. /\ IsFiniteSet(Uncounted')
      /\ Cardinality(Uncounted') = Cardinality(Uncounted) - q.made
  <2>1. Uncounted \cap mine = mine
    BY <1>6
  <2> HIDE DEF mine
  <2>2. IsFiniteSet(Uncounted)
    BY DEF TeamsInv, CountInv
  <2>3. IsFiniteSet(Uncounted \ mine)
        /\ Cardinality(Uncounted \ mine) = Cardinality(Uncounted) - Cardinality(Uncounted \cap mine)
    BY <2>2, FS_Difference
  <2> QED
    BY <1>6, <1>7, <2>1, <2>3
<1>9. Cardinality(Uncounted) \in Nat /\ Cardinality(Overcounted) \in Nat
  <2>1. IsFiniteSet(Overcounted)
    BY TeamsAssumption, FS_Subset DEF Overcounted
  <2> QED
    BY <2>1, FS_CardinalityType DEF TeamsInv, CountInv
<1>10. CountInv'
  <2>1. count \in Int /\ count' \in Int
        /\ DOMAIN annotations' \subseteq given' /\ IsFiniteSet(Uncounted')
    BY <1>1, <1>8 DEF TeamsInv, CountInv
  <2>2. ASSUME project' # "deleted", ~drifted'
        PROVE  count' + Cardinality(Uncounted') - Cardinality(Overcounted')
                 = Cardinality(DOMAIN annotations')
    <3>1. count' = count + q.made
      BY <1>1, <1>3, <2>2 DEF TeamsInv, UnbornInv
    <3>2. count + Cardinality(Uncounted) - Cardinality(Overcounted)
            = Cardinality(DOMAIN annotations)
      BY <1>1, <2>2 DEF TeamsInv, CountInv
    <3>3. annotations' = annotations
      BY <1>1
    <3> QED
      BY <1>1, <1>5, <1>8, <1>9, <2>1, <3>1, <3>2, <3>3
  <2> QED
    BY <2>1, <2>2 DEF CountInv
<1> QED
  BY <1>1, <1>2, <1>3, <1>10 DEF TeamsInv, MembersInv, UnbornInv

(* The other steps of the annotations preserve TeamsInv. *)
LEMMA AnnotationsPreserve ==
    ASSUME TeamsInv, NEW r \in Requests,
           \/ P!ChatLeavesNothing(r) \/ P!FetchAnnotation(r) \/ P!UpsertAnnotation(r)
           \/ P!EraseAnnotation(r) \/ P!UncountAnnotation(r) \/ P!Break(r)
    PROVE  TeamsInv'
<1> DEFINE q == request[r]
<1>1. /\ RequestOk(q, given) /\ RequestsInv /\ CountInv /\ project # "none"
      /\ UNCHANGED <<project, members, given, welcome>>
  <2>1. q # P!Idle
    BY IdleIsOk
    DEF P!ChatLeavesNothing, P!FetchAnnotation, P!UpsertAnnotation, P!EraseAnnotation,
        P!UncountAnnotation, P!Break, P!At
  <2> QED
    BY <2>1, UnderWayIsBorn, IdleIsOk
    DEF TeamsInv, RequestsInv, P!ChatLeavesNothing, P!FetchAnnotation, P!UpsertAnnotation,
        P!EraseAnnotation, P!UncountAnnotation, P!Break
<1>2. SUFFICES RequestsInv' /\ CountInv'
  BY <1>1 DEF TeamsInv, MembersInv, UnbornInv
<1>3. CASE P!ChatLeavesNothing(r)
  <2>1. q.made = 0 /\ q.kind # "uncount" /\ P!Done(r)
        /\ UNCHANGED <<count, annotations, drifted>>
    BY <1>3 DEF P!ChatLeavesNothing, P!At
  <2> QED
    BY <1>1, <2>1, DonePreserves
<1>4. CASE P!FetchAnnotation(r)
  <2>1. q.made = 0 /\ q.kind = "fetch" /\ UNCHANGED <<count, annotations, drifted>>
    BY <1>1, <1>4 DEF P!FetchAnnotation, P!At, RequestOk
  <2>2. CASE q.to \in DOMAIN annotations
    <3> DEFINE new == [q EXCEPT !.kind = "upsert", !.role = annotations[q.to]]
    <3>1. request' = [request EXCEPT ![r] = new]
      BY <1>4, <2>2 DEF P!FetchAnnotation
    <3>2. RequestOk(new, given) /\ new.made = q.made /\ new.kind # "uncount"
      BY <1>1, <2>1 DEF RequestOk, P!Idle
    <3> HIDE DEF new
    <3> QED
      BY <1>1, <2>1, <3>1, <3>2, QuietStep
  <2>3. CASE q.to \notin DOMAIN annotations
    <3>1. P!Done(r)
      BY <1>4, <2>3 DEF P!FetchAnnotation
    <3> QED
      BY <1>1, <2>1, <3>1, DonePreserves
  <2> QED
    BY <2>2, <2>3
<1>5. CASE P!UpsertAnnotation(r)
  <2>1. /\ q.kind = "upsert" /\ q.made = 0 /\ q.to \in given
        /\ request' = [request EXCEPT ![r] = P!Idle] /\ count' = count
        /\ DOMAIN annotations' = DOMAIN annotations \cup {q.to}
        /\ drifted' = (drifted \/ q.to \notin DOMAIN annotations)
    BY <1>1, <1>5 DEF P!UpsertAnnotation, P!At, P!Done, RequestOk
  <2>2. RequestsInv'
    BY <1>1, <2>1, IdleIsOk, RequestChanges DEF RequestsInv
  <2>3. Uncounted' = Uncounted /\ Overcounted' = Overcounted
    BY <1>1, <2>1, IdleIsOk, UnderWayRests
  <2>4. ~drifted' => DOMAIN annotations' = DOMAIN annotations
    BY <2>1
  <2> QED
    BY <1>1, <2>1, <2>2, <2>3, <2>4 DEF CountInv
<1>6. CASE P!EraseAnnotation(r)
  <2> DEFINE new == [q EXCEPT !.kind = "uncount"]
  <2>1. /\ q.kind = "erase" /\ q.made = 0
        /\ request' = [request EXCEPT ![r] = new] /\ count' = count
        /\ DOMAIN annotations' = DOMAIN annotations \ {q.to}
        /\ drifted' = (drifted \/ q.to \notin DOMAIN annotations)
    BY <1>1, <1>6 DEF P!EraseAnnotation, P!At, RequestOk
  <2>2. RequestOk(new, given) /\ new.made = q.made /\ new.kind = "uncount"
    BY <1>1, <2>1 DEF RequestOk, P!Idle
  <2>3. RequestsInv'
    <3> HIDE DEF new
    <3> QED
      BY <1>1, <2>1, <2>2, RequestChanges DEF RequestsInv
  <2>4. request'[r] = new /\ \A s \in Requests \ {r} : request'[s] = request[s]
    BY <1>1, <2>1 DEF RequestsInv
  <2>5. Uncounted' = Uncounted
    <3>1. \A s \in Requests : request'[s].made = request[s].made
      BY <2>2, <2>4
    <3> QED
      BY <3>1 DEF Uncounted
  <2>6. Overcounted' = Overcounted \cup {r} /\ r \notin Overcounted
    <3> HIDE DEF new
    <3> QED
      BY <2>1, <2>2, <2>4 DEF Overcounted
  <2>7. IsFiniteSet(Overcounted) /\ IsFiniteSet(DOMAIN annotations)
    BY <1>1, DebtsAreFinite
  <2>8. /\ Cardinality(Overcounted') = Cardinality(Overcounted) + 1
        /\ ~drifted' => Cardinality(DOMAIN annotations') = Cardinality(DOMAIN annotations) - 1
    BY <2>1, <2>6, <2>7, FS_AddElement, FS_RemoveElement
  <2>9. Cardinality(Overcounted) \in Nat /\ Cardinality(DOMAIN annotations) \in Nat
        /\ Cardinality(Uncounted) \in Nat
    BY <1>1, <2>7, FS_CardinalityType DEF CountInv
  <2>10. count \in Int /\ DOMAIN annotations' \subseteq given' /\ IsFiniteSet(Uncounted')
    BY <1>1, <2>1, <2>5 DEF CountInv
  <2>11. project # "deleted" /\ ~drifted' =>
           count + Cardinality(Uncounted) - Cardinality(Overcounted)
             = Cardinality(DOMAIN annotations)
    BY <1>1, <2>1 DEF CountInv
  <2>12. CountInv'
    BY <1>1, <2>1, <2>5, <2>8, <2>9, <2>10, <2>11 DEF CountInv
  <2> QED
    BY <2>3, <2>12
<1>7. CASE P!UncountAnnotation(r)
  <2>1. /\ q.kind = "uncount" /\ q.made = 0
        /\ request' = [request EXCEPT ![r] = P!Idle]
        /\ count' = IF project = "live" THEN count - 1 ELSE count
        /\ annotations' = annotations /\ drifted' = drifted
    BY <1>1, <1>7 DEF P!UncountAnnotation, P!At, P!Done, RequestOk
  <2>2. RequestsInv'
    BY <1>1, <2>1, IdleIsOk, RequestChanges DEF RequestsInv
  <2>3. request'[r] = P!Idle /\ \A s \in Requests \ {r} : request'[s] = request[s]
    BY <1>1, <2>1 DEF RequestsInv
  <2>4. Uncounted' = Uncounted
    <3>1. \A s \in Requests : request'[s].made = request[s].made
      BY <2>1, <2>3, IdleIsOk
    <3> QED
      BY <3>1 DEF Uncounted
  <2>5. Overcounted' = Overcounted \ {r} /\ r \in Overcounted
    BY <2>1, <2>3, IdleIsOk DEF Overcounted
  <2>6. IsFiniteSet(Overcounted) /\ IsFiniteSet(DOMAIN annotations)
    BY <1>1, DebtsAreFinite
  <2>7. Cardinality(Overcounted') = Cardinality(Overcounted) - 1
    BY <2>5, <2>6, FS_RemoveElement
  <2>8. Cardinality(Overcounted) \in Nat /\ Cardinality(DOMAIN annotations) \in Nat
        /\ Cardinality(Uncounted) \in Nat
    BY <1>1, <2>6, FS_CardinalityType DEF CountInv
  <2>9. project # "deleted" => project = "live"
    BY <1>1 DEF TeamsInv, UnbornInv
  <2> QED
    BY <1>1, <2>1, <2>2, <2>4, <2>7, <2>8, <2>9 DEF CountInv
<1>8. CASE P!Break(r)
  <2>1. /\ request' = [request EXCEPT ![r] = P!Idle]
        /\ drifted' = (drifted \/ q.made > 0 \/ q.kind = "uncount")
        /\ count' = count /\ annotations' = annotations
    BY <1>8 DEF P!Break, P!At, P!Done
  <2>2. RequestsInv'
    BY <1>1, <2>1, IdleIsOk, RequestChanges DEF RequestsInv
  <2>3. CASE q.made = 0 /\ q.kind # "uncount"
    BY <1>1, <2>1, <2>3, IdleIsOk, QuietStep
  <2>4. CASE ~(q.made = 0 /\ q.kind # "uncount")
    <3>1. drifted'
      <4>1. q.made > 0 \/ q.kind = "uncount"
        BY <1>1, <2>4 DEF RequestOk
      <4> QED
        BY <2>1, <4>1, Zenon
    <3>2. Uncounted' \subseteq Uncounted
      <4>1. request'[r] = P!Idle /\ \A s \in Requests \ {r} : request'[s] = request[s]
        BY <1>1, <2>1 DEF RequestsInv
      <4>2. \A n \in Nat \ {0} : ~(n <= request'[r].made)
        BY <4>1, IdleIsOk
      <4> QED
        BY <4>1, <4>2 DEF Uncounted
    <3>3. IsFiniteSet(Uncounted')
      BY <1>1, <3>2, FS_Subset DEF CountInv
    <3> QED
      BY <1>1, <2>1, <2>2, <3>1, <3>3 DEF CountInv
  <2> QED
    BY <2>3, <2>4
<1> QED
  BY <1>3, <1>4, <1>5, <1>6, <1>7, <1>8

(* Where adding a member again makes it active, whoever is welcome is an   *)
(* active member.                                                          *)
LEMMA WelcomePreserved ==
    ASSUME Reactivates, TeamsInv, WelcomeInv, [P!Next]_(P!vars)
    PROVE  WelcomeInv'
<1>1. CASE UNCHANGED <<members, welcome>>
  BY <1>1 DEF WelcomeInv
<1>2. ASSUME NEW r \in Requests, P!AddMember(r)
      PROVE  WelcomeInv'
  <2> DEFINE q == request[r]
             new == [role |-> q.role, active |-> TRUE]
  <2>1. q.to \in Users /\ q.role \in P!Roles
    BY <1>2 DEF P!AddMember, P!At, TeamsInv, RequestsInv, RequestOk
  <2>2. members' = [members EXCEPT ![q.to] = new] /\ welcome' = welcome \cup {q.to}
    BY <1>2 DEF P!AddMember, P!Added
  <2>3. new \in [role : P!Roles, active : BOOLEAN] /\ new.active /\ new.role = q.role
    BY <2>1
  <2>4. new # None /\ new.role # None
    BY <2>1, <2>3, TeamsAssumption
  <2> HIDE DEF new
  <2>5. ASSUME NEW u \in welcome'
        PROVE  members'[u] # None /\ members'[u].active /\ members'[u].role # None
    <3>1. CASE u = q.to
      <4>1. members'[u] = new
        BY <2>1, <2>2, <3>1 DEF TeamsInv, MembersInv
      <4> QED
        BY <2>3, <2>4, <4>1
    <3>2. CASE u # q.to
      <4>1. u \in welcome /\ members'[u] = members[u]
        BY <2>1, <2>2, <2>5, <3>2 DEF TeamsInv, MembersInv
      <4> QED
        BY <4>1 DEF WelcomeInv
    <3> QED
      BY <3>1, <3>2
  <2> QED
    BY <2>5 DEF WelcomeInv
<1>3. ASSUME NEW r \in Requests, P!ChangeRole(r)
      PROVE  WelcomeInv'
  <2> DEFINE q == request[r]
  <2>1. q.to \in Users /\ q.role \in P!Roles /\ q.role # None
    BY <1>3, TeamsAssumption DEF P!ChangeRole, P!At, TeamsInv, RequestsInv, RequestOk
  <2>2. welcome' = welcome
        /\ members' = IF members[q.to] = None THEN members
                      ELSE [members EXCEPT ![q.to].role = q.role]
    BY <1>3 DEF P!ChangeRole
  <2>3. CASE members[q.to] # None
    <3> DEFINE new == [members[q.to] EXCEPT !.role = q.role]
    <3>1. members[q.to] \in [role : P!Roles, active : BOOLEAN]
      BY <2>1, <2>3 DEF TeamsInv, MembersInv
    <3>2. /\ new \in [role : P!Roles, active : BOOLEAN] /\ new.role = q.role
          /\ new.active = members[q.to].active
      BY <2>1, <3>1
    <3>3. new # None
      BY <3>2, TeamsAssumption
    <3>4. members' = [members EXCEPT ![q.to] = new]
      BY <2>2, <2>3
    <3> HIDE DEF new
    <3>5. ASSUME NEW u \in welcome
          PROVE  members'[u] # None /\ members'[u].active /\ members'[u].role # None
      <4>1. CASE u = q.to
        <5>1. members'[u] = new
          BY <2>1, <3>4, <4>1 DEF TeamsInv, MembersInv
        <5> QED
          BY <2>1, <3>2, <3>3, <4>1, <5>1 DEF WelcomeInv
      <4>2. CASE u # q.to
        <5>1. members'[u] = members[u]
          BY <3>4, <4>2 DEF TeamsInv, MembersInv
        <5> QED
          BY <5>1 DEF WelcomeInv
      <4> QED
        BY <4>1, <4>2
    <3> QED
      BY <2>2, <3>5 DEF WelcomeInv
  <2>4. CASE members[q.to] = None
    BY <2>2, <2>4 DEF WelcomeInv
  <2> QED
    BY <2>3, <2>4
<1>4. ASSUME NEW r \in Requests, P!RemoveMember(r)
      PROVE  WelcomeInv'
  <2>1. ASSUME NEW u \in welcome'
        PROVE  u \in welcome /\ members'[u] = members[u]
    BY <1>4, <2>1 DEF P!RemoveMember, TeamsInv, MembersInv
  <2> QED
    BY <2>1 DEF WelcomeInv
<1>5. ASSUME NEW r \in Requests, P!DeleteProject(r)
      PROVE  WelcomeInv'
  BY <1>5 DEF P!DeleteProject, WelcomeInv
<1>6. ASSUME NEW r \in Requests, P!Step(r), ~P!AddMember(r), ~P!ChangeRole(r),
             ~P!RemoveMember(r), ~P!DeleteProject(r)
      PROVE  UNCHANGED <<members, welcome>>
  BY <1>6
  DEF P!Step, P!AskMember, P!AskDelete, P!AskAnnotate, P!AskChat, P!AskTouch, P!CreateProject,
      P!ClearAnnotations, P!CreateAnnotation, P!ExtractAnnotation, P!Stored, P!CountAnnotations,
      P!ChatLeavesNothing, P!FetchAnnotation, P!UpsertAnnotation, P!EraseAnnotation,
      P!UncountAnnotation, P!Break
<1> QED
  BY <1>1, <1>2, <1>3, <1>4, <1>5, <1>6 DEF P!Next, P!vars

(* TeamsInv holds from the beginning and is preserved by every step. *)
LEMMA TeamsBegin == P!Init => TeamsInv /\ WelcomeInv
<1> SUFFICES ASSUME P!Init
             PROVE  TeamsInv /\ WelcomeInv
  OBVIOUS
<1>1. Uncounted = {} /\ Overcounted = {}
  BY IdleIsOk DEF P!Init, Uncounted, Overcounted
<1>2. IsFiniteSet({}) /\ Cardinality({}) = 0
  BY FS_EmptySet
<1>3. RequestsInv
  BY IdleIsOk DEF P!Init, RequestsInv
<1>4. CountInv
  BY <1>1, <1>2 DEF P!Init, CountInv
<1> QED
  BY <1>3, <1>4 DEF P!Init, TeamsInv, WelcomeInv, MembersInv, UnbornInv

LEMMA TeamsPreserved == TeamsInv /\ [P!Next]_(P!vars) => TeamsInv'
<1> SUFFICES ASSUME TeamsInv, [P!Next]_(P!vars)
             PROVE  TeamsInv'
  OBVIOUS
<1>1. ASSUME NEW r \in Requests, P!CreateAnnotation(r) \/ P!ExtractAnnotation(r)
      PROVE  TeamsInv'
  BY <1>1, StoredPreserves DEF P!CreateAnnotation, P!ExtractAnnotation, P!At
<1>2. ASSUME UNCHANGED P!vars
      PROVE  TeamsInv'
  BY <1>2
  DEF P!vars, TeamsInv, RequestsInv, MembersInv, UnbornInv, CountInv, Uncounted, Overcounted
<1> QED
  BY <1>1, <1>2, AskPreserves, MembersPreserve, CountPreserves, AnnotationsPreserve
  DEF P!Next, P!Step

LEMMA CountIsRight == TeamsInv => P!CountFollows
<1> SUFFICES ASSUME TeamsInv, project = "live", ~drifted,
                    \A r \in Requests : request[r].made = 0 /\ request[r].kind # "uncount"
             PROVE  count = Cardinality(DOMAIN annotations)
  BY TeamsCount DEF P!CountFollows, P!At
<1>1. Uncounted = {} /\ Overcounted = {}
  BY DEF Uncounted, Overcounted
<1>2. Cardinality({}) = 0
  BY FS_EmptySet
<1> QED
  BY <1>1, <1>2 DEF TeamsInv, CountInv

(* The count a project shows follows its annotations whenever no request   *)
(* is between its two writes, unless a write was lost or two requests met  *)
(* on one annotation, whatever the database does with a member that is     *)
(* added again.                                                            *)
THEOREM CountStaysRight == AllSpec => []P!CountFollows
<1>1. TeamsInv /\ [P!Next]_(P!vars) => TeamsInv'
  BY TeamsPreserved
<1> QED
  BY <1>1, CountIsRight, TeamsBegin, TeamsKeepTheirSpec, PTL DEF P!Spec

(* TeamsAreTrue: the count is right, and who was added with success and    *)
(* not removed since is a member in every order of the requests, where     *)
(* adding a member again makes it active.                                  *)
THEOREM TeamsStayTrue ==
    ASSUME Reactivates
    PROVE  AllSpec => []TeamsAreTrue
<1>1. TeamsInv /\ WelcomeInv => TeamsAreTrue
  BY CountIsRight DEF TeamsAreTrue, WelcomeInv, P!AddedIsMember, P!Role
<1>2. TeamsInv /\ WelcomeInv /\ [P!Next]_(P!vars) => TeamsInv' /\ WelcomeInv'
  BY TeamsPreserved, WelcomePreserved
<1> QED
  BY <1>1, <1>2, TeamsBegin, TeamsKeepTheirSpec, PTL DEF P!Spec

-----------------------------------------------------------------------------
(* API keys. *)

USE KeysAssumption DEF K!ApiKeysConstants

LEMMA KeysKeepTheirSpec == AllSpec => K!Spec
<1>1. AllInit => K!Init
  BY DEF AllInit
<1>2. [AllNext]_allVars => [K!Next]_(K!vars)
  BY DEF AllNext, allVars, Paying, Authenticating, Limiting, Teaming, Using, Booking,
         Gazing, keyVars, K!Next, K!vars
<1> QED
  BY <1>1, <1>2, PTL DEF AllSpec, K!Spec

(* Lemmas about the caches: what an operation leaves in one was there      *)
(* before, but for the entry that Remember adds.                           *)

LEMMA WithoutKeeps ==
    ASSUME NEW entries \in Seq(K!Entry), NEW k
    PROVE  /\ K!Without(entries, k) \in Seq(K!Entry)
           /\ \A i \in 1..Len(K!Without(entries, k)) :
                \E j \in 1..Len(entries) : K!Without(entries, k)[i] = entries[j]
<1>1. CASE \E i \in 1..Len(entries) : entries[i].key = k
  <2> DEFINE i == CHOOSE i \in 1..Len(entries) : entries[i].key = k
             left == SubSeq(entries, 1, i - 1)
             right == SubSeq(entries, i + 1, Len(entries))
  <2>1. i \in 1..Len(entries)
    BY <1>1
  <2>2. K!Without(entries, k) = left \o right
    BY <1>1 DEF K!Without
  <2> HIDE DEF i
  <2>3. /\ left \in Seq(K!Entry) /\ Len(left) = i - 1
        /\ \A n \in 1..(i - 1) : left[n] = entries[n]
    BY <2>1
  <2>4. /\ right \in Seq(K!Entry) /\ Len(right) = Len(entries) - i
        /\ \A n \in 1..(Len(entries) - i) : right[n] = entries[i + n]
    BY <2>1
  <2> HIDE DEF left, right
  <2>5. left \o right \in Seq(K!Entry)
    BY <2>3, <2>4
  <2>6. ASSUME NEW n \in 1..Len(left \o right)
        PROVE  \E j \in 1..Len(entries) : (left \o right)[n] = entries[j]
    <3>1. CASE n <= i - 1
      <4>1. (left \o right)[n] = entries[n] /\ n \in 1..Len(entries)
        BY <2>1, <2>3, <2>4, <3>1
      <4> QED
        BY <4>1
    <3>2. CASE ~(n <= i - 1)
      <4>1. /\ n - (i - 1) \in 1..(Len(entries) - i)
            /\ (left \o right)[n] = right[n - (i - 1)]
        BY <2>1, <2>3, <2>4, <3>2
      <4>2. /\ (left \o right)[n] = entries[n + 1]
            /\ n + 1 \in 1..Len(entries)
        BY <2>1, <2>4, <4>1
      <4> QED
        BY <4>2
    <3> QED
      BY <3>1, <3>2
  <2> QED
    BY <2>2, <2>5, <2>6
<1>2. CASE ~\E i \in 1..Len(entries) : entries[i].key = k
  BY <1>2 DEF K!Without
<1> QED
  BY <1>1, <1>2

LEMMA RememberKeeps ==
    ASSUME NEW entries \in Seq(K!Entry), NEW k \in Keys, keysNow \in Nat
    PROVE  /\ K!Remember(entries, k) \in Seq(K!Entry)
           /\ \A i \in 1..Len(K!Remember(entries, k)) :
                \/ K!Remember(entries, k)[i] =
                     [key |-> k, until |-> keysNow + CacheTTL]
                \/ \E j \in 1..Len(entries) :
                     K!Remember(entries, k)[i] = entries[j]
<1> DEFINE others == K!Without(entries, k)
           kept == IF Len(others) >= CacheSize
                   THEN SubSeq(others, Len(others) - CacheSize + 2, Len(others))
                   ELSE others
           new == [key |-> k, until |-> keysNow + CacheTTL]
<1>1. /\ others \in Seq(K!Entry)
      /\ \A i \in 1..Len(others) :
           \E j \in 1..Len(entries) : others[i] = entries[j]
  BY WithoutKeeps
<1>2. K!Remember(entries, k) = Append(kept, new) /\ new \in K!Entry
  BY DEF K!Remember, K!Entry
<1> HIDE DEF others, new
<1>3. /\ kept \in Seq(K!Entry)
      /\ \A i \in 1..Len(kept) : \E j \in 1..Len(others) : kept[i] = others[j]
  <2>1. CASE Len(others) >= CacheSize
    <3> DEFINE m == Len(others) - CacheSize + 1
    <3>1. m \in Nat /\ m <= Len(others) /\ m >= 1
      BY <1>1, <2>1
    <3>2. kept = SubSeq(others, m + 1, Len(others))
      BY <1>1, <2>1
    <3> HIDE DEF m, kept
    <3>3. /\ kept \in Seq(K!Entry) /\ Len(kept) = Len(others) - m
          /\ \A i \in 1..(Len(others) - m) : kept[i] = others[m + i]
      BY <1>1, <3>1, <3>2
    <3>4. \A i \in 1..(Len(others) - m) : m + i \in 1..Len(others)
      BY <1>1, <3>1
    <3> QED
      BY <3>3, <3>4
  <2>2. CASE ~(Len(others) >= CacheSize)
    BY <1>1, <2>2
  <2> QED
    BY <2>1, <2>2
<1> HIDE DEF kept
<1>4. Append(kept, new) \in Seq(K!Entry)
  BY <1>2, <1>3
<1>5. ASSUME NEW i \in 1..Len(Append(kept, new))
      PROVE  \/ Append(kept, new)[i] = new
             \/ \E j \in 1..Len(entries) : Append(kept, new)[i] = entries[j]
  <2>1. CASE i = Len(kept) + 1
    BY <1>2, <1>3, <2>1
  <2>2. CASE i # Len(kept) + 1
    <3>1. i \in 1..Len(kept) /\ Append(kept, new)[i] = kept[i]
      BY <1>2, <1>3, <2>2
    <3> QED
      BY <1>1, <1>3, <3>1
  <2> QED
    BY <2>1, <2>2
<1> QED
  BY <1>2, <1>4, <1>5 DEF new

-----------------------------------------------------------------------------
(* Types. *)

LEMMA KeyTypesPreserved == K!TypeOK /\ [K!Next]_(K!vars) => K!TypeOK'
<1> SUFFICES ASSUME K!TypeOK, [K!Next]_(K!vars) PROVE K!TypeOK'
  OBVIOUS
<1>1. /\ keysNow \in Nat /\ keys \in [Keys -> K!Key]
      /\ cache \in [Processes -> Seq(K!Entry)]
      /\ busy \in [Processes -> K!Reading \cup {None}]
      /\ used \in [Processes -> [Keys -> Nat \cup {None}]]
      /\ revoked \in [Keys -> K!Revocation \cup {None}]
  BY DEF K!TypeOK
<1>2. <<>> \in Seq(K!Entry)
  OBVIOUS
<1>3. ASSUME NEW p \in Processes, NEW k \in Keys, K!Accept(p, k)
      PROVE  used' \in [Processes -> [Keys -> Nat \cup {None}]]
  BY <1>1, <1>3 DEF K!Accept
<1>4. ASSUME NEW p \in Processes, NEW k \in Keys, K!Hit(p, k)
      PROVE  K!TypeOK'
  BY <1>1, <1>2, <1>3, <1>4 DEF K!Hit, K!TypeOK
<1>5. ASSUME NEW p \in Processes, NEW k \in Keys, K!Miss(p, k)
      PROVE  K!TypeOK'
  <2>1. K!Without(cache[p], k) \in Seq(K!Entry)
    BY <1>1, WithoutKeeps
  <2>2. cache' \in [Processes -> Seq(K!Entry)]
    BY <1>1, <1>2, <1>5, <2>1 DEF K!Miss
  <2>3. keys' \in [Keys -> K!Key]
    <3>1. [keys EXCEPT ![k].state = "inactive"] \in [Keys -> K!Key]
      BY <1>1 DEF K!Key
    <3> QED
      BY <1>1, <1>5, <3>1 DEF K!Miss
  <2>4. busy' \in [Processes -> K!Reading \cup {None}]
    <3>1. [key |-> k, since |-> keysNow] \in K!Reading
      BY <1>1 DEF K!Reading
    <3> QED
      BY <1>1, <1>5, <3>1 DEF K!Miss
  <2> QED
    BY <1>1, <1>5, <2>2, <2>3, <2>4 DEF K!Miss, K!TypeOK
<1>6. ASSUME NEW p \in Processes, K!Record(p)
      PROVE  K!TypeOK'
  <2>1. busy[p].key \in Keys
    BY <1>1, <1>6 DEF K!Record, K!Free, K!Reading
  <2>2. K!Remember(cache[p], busy[p].key) \in Seq(K!Entry)
    BY <1>1, <2>1, RememberKeeps
  <2> QED
    BY <1>1, <1>3, <1>6, <2>1, <2>2 DEF K!Record, K!TypeOK
<1>7. ASSUME NEW p \in Processes, NEW k \in Keys,
             NEW expires \in {None} \cup keysNow..MaxTime, K!CreateKey(p, k, expires)
      PROVE  K!TypeOK'
  <2>1. expires \in Nat \cup {None}
    BY <1>1
  <2>2. [state |-> "active", expires |-> expires] \in K!Key
    BY <2>1 DEF K!Key
  <2> QED
    BY <1>1, <1>7, <2>2 DEF K!CreateKey, K!Created, K!TypeOK
<1>8. ASSUME NEW p \in Processes, NEW k \in Keys, K!Revoke(p, k)
      PROVE  K!TypeOK'
  <2>1. [keys EXCEPT ![k].state = "inactive"] \in [Keys -> K!Key]
    BY <1>1 DEF K!Key
  <2>2. [at |-> keysNow, by |-> p] \in K!Revocation
    BY <1>1 DEF K!Revocation
  <2> QED
    BY <1>1, <1>2, <1>8, <2>1, <2>2 DEF K!Revoke, K!TypeOK
<1>9. ASSUME NEW p \in Processes, NEW k \in Keys, K!Rename(p, k)
      PROVE  K!TypeOK'
  BY <1>1, <1>2, <1>9 DEF K!Rename, K!TypeOK
<1>10. ASSUME NEW p \in Processes, K!RecordFails(p)
       PROVE  K!TypeOK'
  BY <1>1, <1>10 DEF K!RecordFails, K!TypeOK
<1>11. CASE K!Tick
  BY <1>1, <1>11 DEF K!Tick, K!TypeOK
<1>12. CASE UNCHANGED K!vars
  BY <1>1, <1>12 DEF K!vars, K!TypeOK
<1> QED
  BY <1>4, <1>5, <1>6, <1>7, <1>8, <1>9, <1>10, <1>11, <1>12 DEF K!Next

(* What the processes, their caches and the database hold is always what   *)
(* it should be.                                                           *)
THEOREM KeyTypesAreKept == K!Spec => []K!TypeOK
<1>1. K!Init => K!TypeOK
  BY DEF K!Init, K!TypeOK, K!Key
<1> QED
  BY <1>1, KeyTypesPreserved, PTL DEF K!Spec

-----------------------------------------------------------------------------
(* The inductive invariant.  A dead key can still be accepted from a       *)
(* cached entry, or by a validation under way; so it says until when each  *)
(* entry and each validation can be there: no entry of a revoked key lives *)
(* longer than one recorded at the end of a validation that read the key   *)
(* just before, and the process that revoked it has neither.               *)

Exists(k) == keys[k].state # "none"

RevokedOnce(k) ==
    revoked[k] # None =>
        keys[k].state = "inactive" /\ revoked[k].at <= keysNow

Reads(p) ==
    busy[p] # None =>
        LET k == busy[p].key IN
        /\ Exists(k)
        /\ busy[p].since <= keysNow /\ keysNow <= busy[p].since + Latency
        /\ keys[k].expires # None => busy[p].since <= keys[k].expires
        /\ revoked[k] # None =>
              busy[p].since <= revoked[k].at /\ p # revoked[k].by

EntryLapses(p, e) ==
    /\ Exists(e.key)
    /\ e.until <= keysNow + CacheTTL
    /\ revoked[e.key] # None =>
          /\ e.until <= revoked[e.key].at + Latency + CacheTTL
          /\ p # revoked[e.key].by

Caches(p) ==
    \A i \in 1..Len(cache[p]), e \in K!Entry :
        cache[p][i] = e => EntryLapses(p, e)

UseLapses(p, k) ==
    used[p][k] # None =>
        /\ Exists(k) /\ used[p][k] <= keysNow
        /\ keys[k].expires # None => used[p][k] <= keys[k].expires + Latency
        /\ revoked[k] # None =>
             /\ used[p][k] < revoked[k].at + Latency + CacheTTL
             /\ p = revoked[k].by => used[p][k] <= revoked[k].at

KeyInv ==
    /\ \A k \in Keys : RevokedOnce(k)
    /\ \A p \in Processes : Reads(p) /\ Caches(p)
    /\ \A p \in Processes, k \in Keys : UseLapses(p, k)

(* A step after which a key is what it was, created or deactivated.        *)
Ages(k) ==
    /\ Exists(k) => Exists(k)' /\ keys'[k].expires = keys[k].expires
    /\ keys[k].state = "inactive" => keys'[k].state = "inactive"
    /\ revoked'[k] = revoked[k]

(* What is known of such a key stays known.                                *)
LEMMA Aging ==
    ASSUME K!TypeOK, K!TypeOK', keysNow <= keysNow', NEW k \in Keys, Ages(k)
    PROVE  /\ RevokedOnce(k) => RevokedOnce(k)'
           /\ \A p \in Processes, e \in K!Entry :
                e.key = k /\ EntryLapses(p, e) => EntryLapses(p, e)'
           /\ \A p \in Processes :
                used'[p][k] = used[p][k] /\ UseLapses(p, k)
                  => UseLapses(p, k)'
<1>1. /\ keysNow \in Nat /\ keysNow' \in Nat
      /\ used \in [Processes -> [Keys -> Nat \cup {None}]]
      /\ busy \in [Processes -> K!Reading \cup {None}]
      /\ revoked \in [Keys -> K!Revocation \cup {None}]
  BY DEF K!TypeOK
<1>2. RevokedOnce(k) => RevokedOnce(k)'
  <2>1. revoked[k] # None => revoked[k].at \in Nat
    BY <1>1 DEF K!Revocation
  <2> QED
    BY <1>1, <2>1 DEF Ages, RevokedOnce
<1>3. ASSUME NEW p \in Processes, NEW e \in K!Entry, e.key = k, EntryLapses(p, e)
      PROVE  EntryLapses(p, e)'
  <2>1. e.until \in Nat
    BY DEF K!Entry
  <2> QED
    BY <1>1, <1>3, <2>1 DEF Ages, EntryLapses
<1>4. ASSUME NEW p \in Processes, used'[p][k] = used[p][k], UseLapses(p, k)
      PROVE  UseLapses(p, k)'
  <2>1. used[p][k] # None => used[p][k] \in Nat
    BY <1>1
  <2> QED
    BY <1>1, <1>4, <2>1 DEF Ages, UseLapses
<1> QED
  BY <1>2, <1>3, <1>4

LEMMA ReadsAge ==
    ASSUME K!TypeOK, K!TypeOK', NEW p \in Processes, Reads(p),
           busy'[p] = busy[p], busy[p] # None => Ages(busy[p].key),
           \/ keysNow' = keysNow
           \/ keysNow' = keysNow + 1 /\ keysNow < busy[p].since + Latency
    PROVE  Reads(p)'
<1>1. CASE busy[p] = None
  BY <1>1 DEF Reads
<1>2. CASE busy[p] # None
  <2>1. busy[p].key \in Keys /\ busy[p].since \in Nat /\ keysNow \in Nat
    BY <1>2 DEF K!TypeOK, K!Reading
  <2>2. PICK k \in Keys : busy[p].key = k
    BY <2>1
  <2>3. Ages(k)
    BY <1>2, <2>2
  <2> QED
    BY <1>2, <2>1, <2>2, <2>3 DEF Reads, Ages
<1> QED
  BY <1>1, <1>2

(* A process whose cache has nothing new, and that begins no validation,   *)
(* knows no more than it did.                                              *)
LEMMA Resting ==
    ASSUME K!TypeOK, K!TypeOK', KeyInv, keysNow' = keysNow,
           \A k \in Keys : Ages(k), NEW p \in Processes,
           busy'[p] \in {busy[p], None},
           \A i \in 1..Len(cache'[p]) :
              \E j \in 1..Len(cache[p]) : cache'[p][i] = cache[p][j]
    PROVE  Reads(p)' /\ Caches(p)'
<1>1. /\ cache[p] \in Seq(K!Entry) /\ keysNow \in Nat
      /\ busy[p] \in K!Reading \cup {None}
  BY DEF K!TypeOK
<1>2. Reads(p)'
  <2>1. CASE busy'[p] = None
    BY <2>1 DEF Reads
  <2>2. CASE busy'[p] # None
    <3>1. busy'[p] = busy[p] /\ busy[p].key \in Keys
      BY <1>1, <2>2 DEF K!Reading
    <3>2. Reads(p)
      BY DEF KeyInv
    <3> QED
      BY <3>1, <3>2, ReadsAge
  <2> QED
    BY <2>1, <2>2
<1>3. ASSUME NEW i \in 1..Len(cache'[p]), NEW e \in K!Entry, cache'[p][i] = e
      PROVE  EntryLapses(p, e)'
  <2>1. PICK j \in 1..Len(cache[p]) : cache[p][j] = e
    BY <1>3
  <2>2. e.key \in Keys /\ EntryLapses(p, e)
    BY <2>1 DEF KeyInv, Caches, K!Entry
  <2>3. PICK k \in Keys : e.key = k
    BY <2>2
  <2> QED
    BY <1>1, <2>2, <2>3, Aging
<1> QED
  BY <1>2, <1>3 DEF Caches

LEMMA KeyPreserved ==
    ASSUME K!TypeOK, K!TypeOK', KeyInv, [K!Next]_(K!vars)
    PROVE  KeyInv'
<1>1. /\ keysNow \in Nat /\ keys \in [Keys -> K!Key]
      /\ cache \in [Processes -> Seq(K!Entry)]
      /\ busy \in [Processes -> K!Reading \cup {None}]
      /\ used \in [Processes -> [Keys -> Nat \cup {None}]]
      /\ revoked \in [Keys -> K!Revocation \cup {None}]
  BY DEF K!TypeOK
<1>2. \A k \in Keys : keys'[k] = keys[k] /\ revoked'[k] = revoked[k] => Ages(k)
  BY DEF Ages, Exists
<1>3. ASSUME keysNow' = keysNow, \A k \in Keys : Ages(k)
      PROVE  /\ \A k \in Keys : RevokedOnce(k)'
             /\ \A p \in Processes, k \in Keys :
                  used'[p][k] = used[p][k] => UseLapses(p, k)'
  BY <1>1, <1>3, Aging DEF KeyInv
<1>4. ASSUME NEW p \in Processes, NEW k \in Keys, K!Hit(p, k)
      PROVE  KeyInv'
  <2>1. keysNow' = keysNow /\ keys' = keys /\ busy' = busy /\ revoked' = revoked
    BY <1>4 DEF K!Hit
  <2>2. \A q \in Processes : Reads(q)' /\ Caches(q)'
    <3>1. \A q \in Processes : cache'[q] = cache[q] \/ cache'[q] = <<>>
      BY <1>1, <1>4 DEF K!Hit
    <3>2. \A q \in Processes : \A i \in 1..Len(cache'[q]) :
            \E j \in 1..Len(cache[q]) : cache'[q][i] = cache[q][j]
      BY <3>1
    <3> QED
      BY <1>2, <2>1, <3>2, Resting
  <2>3. CASE K!IsExpired(k)
    BY <1>2, <1>3, <1>4, <2>1, <2>2, <2>3 DEF K!Hit, KeyInv
  <2>4. CASE ~K!IsExpired(k)
    <3>1. used' = [used EXCEPT ![p][k] = keysNow]
      BY <1>4, <2>4 DEF K!Hit, K!Accept
    <3>2. \A q \in Processes, i \in Keys :
            <<q, i>> # <<p, k>> => used'[q][i] = used[q][i]
      BY <1>1, <3>1
    <3>3. used'[p][k] = keysNow
      BY <1>1, <3>1
    <3>4. PICK i \in 1..Len(cache[p]) :
            cache[p][i].key = k /\ cache[p][i].until > keysNow
      BY <1>4 DEF K!Hit, K!Fresh, K!Cached
    <3>a. PICK e \in K!Entry : cache[p][i] = e
      BY <1>1, <3>4
    <3>5. /\ EntryLapses(p, e) /\ e.key = k /\ e.until > keysNow
          /\ e.until \in Nat
      BY <3>4, <3>a DEF KeyInv, Caches, K!Entry
    <3>6. UseLapses(p, k)'
      <4>1. keys[k].expires # None => keysNow <= keys[k].expires /\ keys[k].expires \in Nat
        BY <1>1, <2>4 DEF K!IsExpired, K!Key
      <4>2. revoked[k] # None => revoked[k].at \in Nat
        BY <1>1 DEF K!Revocation
      <4> QED
        BY <1>1, <2>1, <3>3, <3>5, <4>1, <4>2
           DEF UseLapses, EntryLapses, Exists
    <3> QED
      BY <1>2, <1>3, <2>1, <2>2, <3>2, <3>6 DEF KeyInv
  <2> QED
    BY <2>3, <2>4
<1>5. ASSUME NEW p \in Processes, NEW k \in Keys, K!Miss(p, k)
      PROVE  KeyInv'
  <2>1. keysNow' = keysNow /\ used' = used /\ revoked' = revoked
    BY <1>5 DEF K!Miss
  <2>2. \A i \in Keys : Ages(i)
    <3>1. keys' = keys \/ keys' = [keys EXCEPT ![k].state = "inactive"]
      BY <1>5 DEF K!Miss
    <3>2. keys' # keys => keys[k].state = "active"
      BY <1>5 DEF K!Miss
    <3>3. \A i \in Keys :
            \/ keys'[i] = keys[i]
            \/ /\ keys[i].state = "active" /\ keys'[i].state = "inactive"
               /\ keys'[i].expires = keys[i].expires
      BY <1>1, <3>1, <3>2 DEF K!Key
    <3> QED
      BY <2>1, <3>3 DEF Ages, Exists
  <2>3. \A q \in Processes : \A i \in 1..Len(cache'[q]) :
          \E j \in 1..Len(cache[q]) : cache'[q][i] = cache[q][j]
    <3>1. \A q \in Processes :
            \/ cache'[q] = cache[q] \/ cache'[q] = <<>>
            \/ cache'[q] = K!Without(cache[q], k)
      BY <1>1, <1>5 DEF K!Miss
    <3>2. \A q \in Processes : cache[q] \in Seq(K!Entry)
      BY <1>1
    <3> QED
      BY <3>1, <3>2, WithoutKeeps
  <2>4. \A q \in Processes : busy'[q] = busy[q] => Reads(q)' /\ Caches(q)'
    BY <2>1, <2>2, <2>3, Resting
  <2>5. ASSUME NEW q \in Processes, busy'[q] # busy[q]
        PROVE  Reads(q)' /\ Caches(q)'
    <3>1. /\ q = p /\ keys[k].state = "active" /\ ~K!IsExpired(k)
          /\ keys' = keys
          /\ busy'[p] = [key |-> k, since |-> keysNow]
      BY <1>1, <1>5, <2>5 DEF K!Miss
    <3>2. revoked[k] = None
      BY <3>1 DEF KeyInv, RevokedOnce
    <3>3. Reads(p)'
      <4>1. keys[k].expires # None => keysNow <= keys[k].expires
        BY <1>1, <3>1 DEF K!IsExpired, K!Key
      <4> QED
        BY <1>1, <2>1, <3>1, <3>2, <4>1 DEF Reads, Exists
    <3>4. Caches(p)'
      <4>1. ASSUME NEW i \in 1..Len(cache'[p]), NEW e \in K!Entry,
                   cache'[p][i] = e
            PROVE  EntryLapses(p, e)'
        <5>1. PICK j \in 1..Len(cache[p]) : cache[p][j] = e
          BY <2>3, <4>1
        <5>2. EntryLapses(p, e)
          BY <5>1 DEF KeyInv, Caches
        <5> QED
          BY <2>1, <3>1, <5>2 DEF EntryLapses, Exists
      <4> QED
        BY <4>1 DEF Caches
    <3> QED
      BY <3>1, <3>3, <3>4
  <2> QED
    BY <1>3, <2>1, <2>2, <2>4, <2>5 DEF KeyInv
<1>6. ASSUME NEW p \in Processes, K!Record(p)
      PROVE  KeyInv'
  <2>0. busy[p] # None /\ busy[p].key \in Keys /\ busy[p].since \in Nat
    BY <1>1, <1>6 DEF K!Record, K!Free, K!Reading
  <2>a. PICK k \in Keys : busy[p].key = k
    BY <2>0
  <2>b. PICK new \in K!Entry : new = [key |-> k, until |-> keysNow + CacheTTL]
    <3>1. keysNow + CacheTTL \in Nat
      BY <1>1
    <3>2. [key |-> k, until |-> keysNow + CacheTTL] \in K!Entry
      BY <3>1 DEF K!Entry
    <3> QED
      BY <3>2
  <2>1. keysNow' = keysNow /\ keys' = keys /\ revoked' = revoked
    BY <1>6 DEF K!Record
  <2>2. /\ Exists(k)
        /\ keysNow <= busy[p].since + Latency
        /\ keys[k].expires # None => busy[p].since <= keys[k].expires
        /\ revoked[k] # None =>
             busy[p].since <= revoked[k].at /\ p # revoked[k].by
    BY <2>0, <2>a DEF KeyInv, Reads
  <2>3. \A q \in Processes :
          /\ busy'[q] = IF q = p THEN None ELSE busy[q]
          /\ cache'[q] = IF q = p THEN K!Remember(cache[p], k) ELSE cache[q]
    BY <1>1, <1>6, <2>a DEF K!Record
  <2>4. used' = [used EXCEPT ![p][k] = keysNow]
    BY <1>6, <2>a DEF K!Record, K!Accept
  <2>5. /\ keys[k].expires # None => keys[k].expires \in Nat
        /\ revoked[k] # None => revoked[k].at \in Nat
    BY <1>1 DEF K!Key, K!Revocation
  <2>6. EntryLapses(p, new)'
    <3>1. new.key = k /\ new.until = keysNow + CacheTTL
      BY <2>b
    <3> QED
      BY <1>1, <2>0, <2>1, <2>2, <2>5, <3>1 DEF EntryLapses, Exists
  <2>7. UseLapses(p, k)'
    <3>1. used'[p][k] = keysNow
      BY <1>1, <2>4
    <3> QED
      BY <1>1, <2>0, <2>1, <2>2, <2>5, <3>1 DEF UseLapses, Exists
  <2>8. \A q \in Processes, i \in Keys :
          <<q, i>> # <<p, k>> => used'[q][i] = used[q][i]
    BY <1>1, <2>1, <2>4
  <2>9. \A q \in Processes \ {p} : Reads(q)' /\ Caches(q)'
    BY <1>2, <2>1, <2>3, Resting
  <2>10. Reads(p)'
    BY <2>3 DEF Reads
  <2>11. Caches(p)'
    <3>1. ASSUME NEW i \in 1..Len(cache'[p]), NEW e \in K!Entry, cache'[p][i] = e
          PROVE  EntryLapses(p, e)'
      <4>1. \/ e = new
            \/ \E j \in 1..Len(cache[p]) : cache[p][j] = e
        <5>1. cache'[p] = K!Remember(cache[p], k) /\ cache[p] \in Seq(K!Entry)
          BY <1>1, <2>3
        <5>2. \A n \in 1..Len(K!Remember(cache[p], k)) :
                \/ K!Remember(cache[p], k)[n] = new
                \/ \E j \in 1..Len(cache[p]) :
                     K!Remember(cache[p], k)[n] = cache[p][j]
          BY <1>1, <2>b, <5>1, RememberKeeps
        <5>3. i \in 1..Len(K!Remember(cache[p], k))
          BY <5>1
        <5>4. K!Remember(cache[p], k)[i] = e
          BY <3>1, <5>1
        <5> QED
          BY <5>2, <5>3, <5>4
      <4>2. CASE \E j \in 1..Len(cache[p]) : cache[p][j] = e
        <5>1. EntryLapses(p, e)
          BY <4>2 DEF KeyInv, Caches
        <5> QED
          BY <2>1, <5>1 DEF EntryLapses, Exists
      <4> QED
        BY <2>6, <4>1, <4>2
    <3> QED
      BY <3>1 DEF Caches
  <2> QED
    BY <1>2, <1>3, <2>1, <2>7, <2>8, <2>9, <2>10, <2>11 DEF KeyInv
<1>7. ASSUME NEW p \in Processes, NEW k \in Keys,
             NEW expires \in {None} \cup keysNow..MaxTime, K!CreateKey(p, k, expires)
      PROVE  KeyInv'
  <2>1. /\ UNCHANGED <<keysNow, cache, busy, used, revoked>>
        /\ keys[k].state = "none" /\ keys'[k].state = "active"
        /\ \A i \in Keys \ {k} : keys'[i] = keys[i]
    BY <1>1, <1>7 DEF K!CreateKey, K!Created
  <2>2. \A i \in Keys : Ages(i)
    BY <2>1 DEF Ages, Exists
  <2> QED
    BY <1>3, <2>1, <2>2, Resting DEF KeyInv
<1>8. ASSUME NEW p \in Processes, NEW k \in Keys, K!Revoke(p, k)
      PROVE  KeyInv'
  <2>1. /\ keysNow' = keysNow /\ busy' = busy /\ used' = used
        /\ busy[p] = None /\ keys[k].state = "active"
    BY <1>8 DEF K!Revoke, K!Free
  <2>2. /\ keys'[k].state = "inactive" /\ keys'[k].expires = keys[k].expires
        /\ \A i \in Keys \ {k} : keys'[i] = keys[i]
    BY <1>1, <1>8 DEF K!Revoke, K!Key
  <2>3. /\ revoked'[k] = [at |-> keysNow, by |-> p]
        /\ \A i \in Keys \ {k} : revoked'[i] = revoked[i]
    BY <1>1, <1>8 DEF K!Revoke
  <2>4. /\ cache'[p] = <<>>
        /\ \A q \in Processes \ {p} : cache'[q] = cache[q]
    BY <1>1, <1>8 DEF K!Revoke
  <2>5. revoked[k] = None
    BY <2>1 DEF KeyInv, RevokedOnce
  <2>6. \A i \in Keys \ {k} : Ages(i)
    BY <2>2, <2>3 DEF Ages, Exists
  <2>7. /\ revoked'[k] # None
        /\ revoked'[k].at = keysNow /\ revoked'[k].by = p
    <3>1. revoked'[k] \in K!Revocation
      BY <1>1, <2>3 DEF K!Revocation
    <3> QED
      BY <2>3, <3>1
  <2>8. \A i \in Keys : RevokedOnce(i)'
    <3>1. RevokedOnce(k)'
      BY <1>1, <2>1, <2>2, <2>7 DEF RevokedOnce
    <3>2. \A i \in Keys \ {k} : RevokedOnce(i)'
      BY <1>1, <2>1, <2>6, Aging DEF KeyInv
    <3> QED
      BY <3>1, <3>2
  <2>9. ASSUME NEW q \in Processes
        PROVE  Reads(q)'
    <3>1. CASE busy[q] = None
      BY <2>1, <3>1 DEF Reads
    <3>2. CASE busy[q] # None
      <4>1. /\ q # p /\ busy[q].key \in Keys /\ busy[q].since \in Nat
            /\ Reads(q)
        BY <1>1, <2>1, <3>2 DEF KeyInv, K!Reading
      <4>2. CASE busy[q].key = k
        BY <1>1, <2>1, <2>2, <2>7, <3>2, <4>1, <4>2 DEF Reads, Exists
      <4>3. CASE busy[q].key # k
        BY <2>1, <2>6, <4>1, <4>3, ReadsAge
      <4> QED
        BY <4>2, <4>3
    <3> QED
      BY <3>1, <3>2
  <2>10. ASSUME NEW q \in Processes
         PROVE  Caches(q)'
    <3>1. CASE q = p
      BY <2>4, <3>1 DEF Caches
    <3>2. CASE q # p
      <4>1. ASSUME NEW i \in 1..Len(cache[q]), NEW e \in K!Entry,
                   cache[q][i] = e
            PROVE  EntryLapses(q, e)'
        <5>1. e.key \in Keys /\ e.until \in Nat /\ EntryLapses(q, e)
          BY <4>1 DEF KeyInv, Caches, K!Entry
        <5>2. CASE e.key = k
          BY <1>1, <2>1, <2>2, <2>7, <3>2, <5>1, <5>2
             DEF EntryLapses, Exists
        <5>3. CASE e.key # k
          <6>1. PICK n \in Keys : e.key = n
            BY <5>1
          <6> QED
            BY <1>1, <2>1, <2>6, <5>1, <5>3, <6>1, Aging
        <5> QED
          BY <5>2, <5>3
      <4> QED
        BY <2>4, <3>2, <4>1 DEF Caches
    <3> QED
      BY <3>1, <3>2
  <2>11. ASSUME NEW q \in Processes, NEW i \in Keys
         PROVE  UseLapses(q, i)'
    <3>1. CASE i = k
      <4>1. used[q][k] # None => used[q][k] \in Nat
        BY <1>1
      <4>2. UseLapses(q, k)
        BY DEF KeyInv
      <4> QED
        BY <1>1, <2>1, <2>2, <2>7, <3>1, <4>1, <4>2 DEF UseLapses, Exists
    <3>2. CASE i # k
      BY <1>1, <2>1, <2>6, <3>2, Aging DEF KeyInv
    <3> QED
      BY <3>1, <3>2
  <2> QED
    BY <2>8, <2>9, <2>10, <2>11 DEF KeyInv
<1>9. ASSUME NEW p \in Processes, NEW k \in Keys, K!Rename(p, k)
      PROVE  KeyInv'
  <2>1. UNCHANGED <<keysNow, keys, busy, used, revoked>>
    BY <1>9 DEF K!Rename
  <2>2. \A q \in Processes : cache'[q] = cache[q] \/ cache'[q] = <<>>
    BY <1>1, <1>9 DEF K!Rename
  <2>3. \A q \in Processes : \A i \in 1..Len(cache'[q]) :
          \E j \in 1..Len(cache[q]) : cache'[q][i] = cache[q][j]
    BY <2>2
  <2> QED
    BY <1>2, <1>3, <2>1, <2>3, Resting DEF KeyInv
<1>10. ASSUME NEW p \in Processes, K!RecordFails(p)
       PROVE  KeyInv'
  <2>1. UNCHANGED <<keysNow, keys, cache, used, revoked>>
    BY <1>10 DEF K!RecordFails
  <2>2. \A q \in Processes : busy'[q] \in {busy[q], None}
    BY <1>1, <1>10 DEF K!RecordFails
  <2> QED
    BY <1>2, <1>3, <2>1, <2>2, Resting DEF KeyInv
<1>11. CASE K!Tick
  <2>1. /\ UNCHANGED <<keys, cache, busy, used, revoked>> /\ keysNow' = keysNow + 1
        /\ \A p \in Processes : busy[p] # None => keysNow < busy[p].since + Latency
    BY <1>11 DEF K!Tick, K!Free
  <2>2. keysNow <= keysNow' /\ \A k \in Keys : Ages(k)
    BY <1>1, <1>2, <2>1
  <2>3. \A p \in Processes : Reads(p)'
    <3>1. ASSUME NEW p \in Processes, busy[p] # None
          PROVE  Reads(p)'
      <4>1. busy[p].key \in Keys /\ Reads(p)
        BY <1>1, <3>1 DEF KeyInv, K!Reading
      <4> QED
        BY <2>1, <2>2, <3>1, <4>1, ReadsAge
    <3>2. ASSUME NEW p \in Processes, busy[p] = None
          PROVE  Reads(p)'
      BY <2>1, <3>2 DEF Reads
    <3> QED
      BY <3>1, <3>2
  <2>4. \A p \in Processes : Caches(p)'
    <3>1. ASSUME NEW p \in Processes, NEW i \in 1..Len(cache[p]),
                 NEW e \in K!Entry, cache[p][i] = e
          PROVE  EntryLapses(p, e)'
      <4>1. e.key \in Keys /\ EntryLapses(p, e)
        BY <3>1 DEF KeyInv, Caches, K!Entry
      <4>2. PICK k \in Keys : e.key = k
        BY <4>1
      <4> QED
        BY <2>2, <4>1, <4>2, Aging
    <3> QED
      BY <2>1, <3>1 DEF Caches
  <2> QED
    BY <2>1, <2>2, <2>3, <2>4, Aging DEF KeyInv
<1>12. CASE UNCHANGED K!vars
  BY <1>2, <1>3, <1>12, Resting DEF K!vars, KeyInv
<1> QED
  BY <1>4, <1>5, <1>6, <1>7, <1>8, <1>9, <1>10, <1>11, <1>12 DEF K!Next

(* A key that was revoked or has expired works no longer than a validation *)
(* takes and is cached, in no process, and not at all in the one that      *)
(* revoked it.                                                             *)
THEOREM DeadKeysStopWorking == AllSpec => []DeadKeysLapse
<1>1. K!Init => KeyInv
  BY DEF K!Init, KeyInv, RevokedOnce, Reads, Caches, UseLapses
<1>2. K!TypeOK /\ K!TypeOK' /\ KeyInv /\ [K!Next]_(K!vars) => KeyInv'
  BY KeyPreserved
<1>3. KeyInv => DeadKeysLapse
  BY DEF KeyInv, UseLapses, DeadKeysLapse, K!DeadKeysLapse
<1> QED
  BY <1>1, <1>2, <1>3, KeyTypesAreKept, KeysKeepTheirSpec, PTL DEF K!Spec

-----------------------------------------------------------------------------
(* The ledger kept in memory: it is the one that CreditLedgerProofs is     *)
(* about, named there and in MCAccounts.                                   *)
C == INSTANCE CreditLedgerProofs WITH
        available <- bookAvailable, reserved <- bookReserved, lots <- bookLots,
        reservations <- bookReservations, ledger <- bookLedger, now <- bookNow,
        Accounts <- Buyers, Jobs <- Calls, Grants <- Buys

LEMMA BooksAreFinite == C!LedgerAssumption
BY BooksAssumption DEF M!LedgerAssumption, C!LedgerAssumption, M!IsFiniteSet, C!IsFiniteSet

LEMMA SameSums ==
    /\ \A S, f : M!Total(S, f) = C!Total(S, f)
    /\ \A a : M!LotsOf(a) = C!LotsOf(a) /\ M!HoldsOf(a) = C!HoldsOf(a)
    /\ \A type, a : M!Booked(type, a) = C!Booked(type, a)
    /\ M!Remaining = C!Remaining /\ M!Held = C!Held /\ M!BookedAmount = C!BookedAmount
    /\ M!Amount = C!Amount
<1>1. M!Amount = C!Amount
  BY DEF M!Amount, C!Amount
<1>2. \A S, f : M!Total(S, f) = C!Total(S, f)
  BY DEF M!Total, C!Total, M!Credits, C!Credits, M!Amount, C!Amount, M!Cardinality, C!Cardinality
<1> QED
  BY <1>1, <1>2
  DEF M!LotsOf, C!LotsOf, M!HoldsOf, C!HoldsOf, M!Booked, C!Booked, M!Remaining, C!Remaining,
      M!Held, C!Held, M!BookedAmount, C!BookedAmount

LEMMA SameLots ==
    \A a, n : M!LotsAfterTaking(a, n) = C!LotsAfterTaking(a, n) /\ M!Drained(a) = C!Drained(a)
BY SameSums DEF M!LotsAfterTaking, C!LotsAfterTaking, M!Drained, C!Drained, M!Live, C!Live

LEMMA BooksKeepTheirSpec == AllSpec => C!MemorySpec
<1>1. AllInit => C!Init
  BY DEF AllInit, M!Init, C!Init
<1>2. M!MemoryNext => C!MemoryNext
  <2>1. ASSUME NEW a, NEW j, NEW n, M!MemoryCommit(a, j, n)
        PROVE  C!MemoryCommit(a, j, n)
    BY <2>1, SameLots
    DEF M!MemoryCommit, C!MemoryCommit, M!CommitDebit, C!CommitDebit, M!Positive, C!Positive
  <2>2. ASSUME NEW a, NEW j, NEW n, M!CommitRaises(a, j, n)
        PROVE  C!CommitRaises(a, j, n)
    BY <2>2, SameLots DEF M!CommitRaises, C!CommitRaises, M!Positive, C!Positive
  <2>3. ASSUME NEW a, NEW g, NEW n, NEW t, M!MemoryGrant(a, g, n, t)
        PROVE  C!MemoryGrant(a, g, n, t)
    BY <2>3 DEF M!MemoryGrant, C!MemoryGrant, M!GrantCredits, C!GrantCredits
  <2>4. ASSUME NEW a, NEW j, NEW n, M!MemoryReserve(a, j, n)
        PROVE  C!MemoryReserve(a, j, n)
    BY <2>4 DEF M!MemoryReserve, C!MemoryReserve, M!ReserveCredits, C!ReserveCredits
  <2>5. ASSUME NEW a, NEW j, M!MemoryRelease(a, j)
        PROVE  C!MemoryRelease(a, j)
    BY <2>5 DEF M!MemoryRelease, C!MemoryRelease, M!ReleaseReservation, C!ReleaseReservation
  <2>6. M!Tick => C!Tick
    BY DEF M!Tick, C!Tick
  <2> QED
    BY <2>1, <2>2, <2>3, <2>4, <2>5, <2>6, SameSums DEF M!MemoryNext, C!MemoryNext
<1>3. [AllNext]_allVars => [C!MemoryNext]_(C!vars)
  BY <1>2 DEF AllNext, allVars, Paying, Authenticating, Limiting, Teaming, Using, Booking,
              Gazing, bookVars, M!MemoryNext, C!vars
<1> QED
  BY <1>1, <1>3, PTL DEF AllSpec, C!MemorySpec

(* NothingIsMadeUp: whatever raises half way, no wallet ever has a credit  *)
(* that was not granted or that was spent.                                 *)
THEOREM NothingIsEverMadeUp == AllSpec => []NothingIsMadeUp
<1>1. C!MemorySpec => []C!NothingIsMadeUp
  BY BooksAreFinite, C!NothingIsMadeUpInMemory
<1>2. C!NothingIsMadeUp => NothingIsMadeUp
  BY SameSums
  DEF NothingIsMadeUp, M!NothingIsMadeUp, C!NothingIsMadeUp, M!ReservedMatchesHolds,
      C!ReservedMatchesHolds
<1> QED
  BY <1>1, <1>2, BooksKeepTheirSpec, PTL

-----------------------------------------------------------------------------
(* StargazerScan.  A worker's place is the number of stargazers before its *)
(* list, by which its index goes unless a job resumed on a later page.     *)

(* The stargazers before a page, and those to its end. *)
Before(n) == (n - 1) * PerPage
Upto(n) == IF n * PerPage < Len(Stars) THEN n * PerPage ELSE Len(Stars)
Place(w) == Upto(w.page) - Len(w.list)
Passed(n) == {Stars[i] : i \in (1..n) \cap (1..Len(Stars))}

GazerPcs == {"none", "fetch", "user", "mail", "end"}
GazerType == [pc : GazerPcs, page : Nat, offset : Nat, first : Nat, index : Nat,
              list : Seq(G!Stargazers), found : Nat, pending : SUBSET G!Stargazers,
              saw : BOOLEAN, tokenless : Nat]
GazerStatus == {"none", "running", "stopped", "error", "completed"}
GazerDoc == [status : GazerStatus, index : Nat, page : Nat \ {0}, target : Nat, runs : Nat]
GazerMail == [user : G!Stargazers, job : StarJobs, id : Nat]

GazersTyped ==
    /\ doc \in [StarJobs -> GazerDoc]
    /\ latest \in Seq(StarJobs)
    /\ stop \in [StarJobs -> BOOLEAN]
    /\ worker \in [StarJobs -> GazerType]
    /\ scanned \subseteq G!Stargazers /\ looked \subseteq G!Stargazers
    /\ mails \subseteq GazerMail /\ IsFiniteSet(mails)
    /\ exhausted \in BOOLEAN /\ patchy \in BOOLEAN /\ double \in BOOLEAN

(* Of a worker alone: its list is the rest of its page, its pending claims *)
(* are users of the page before it.                                        *)
Listed(w) == \A i \in DOMAIN w.list : w.list[i] = Stars[Place(w) + i]

WorkerOk(w) ==
    /\ w.pc \in {"none", "fetch", "end"} => w.pending = {} /\ w.list = <<>>
    /\ w.pc # "none" => w.page > 0
    /\ w.pc = "fetch" => w.offset <= PerPage
    /\ w.pc \in {"user", "mail"} => w.offset = 0 /\ Place(w) \in Nat /\ Listed(w)
    /\ w.pc = "user" => w.pending \subseteq Passed(Place(w))
    /\ w.pc = "mail" => w.list # <<>> /\ w.pending \subseteq Passed(Place(w) + 1)

(* Those that have been looked for, or are now. *)
AtMail == {Head(worker[j].list) : j \in {k \in StarJobs : worker[k].pc = "mail"}}
Seen == looked \cup AtMail

(* Where the index is, when no job resumed beyond it: at the worker's      *)
(* place, or at the end of the list.                                       *)
Aligned(j) ==
    LET w == worker[j] IN
    /\ w.index <= Len(Stars)
    /\ w.pc = "fetch" =>
         \/ G!Enough(j)
         \/ w.index = Before(w.page) + w.offset
         \/ w.index = Len(Stars) /\ Before(w.page) >= Len(Stars)
    /\ w.pc = "user" => w.index = Place(w)
    /\ w.pc = "mail" => w.index = Place(w) + 1
    /\ w.pc = "end" => G!Enough(j) \/ w.index = Len(Stars)

NobodyLost ==
    ~patchy =>
        /\ \A j \in StarJobs : doc[j].index <= Len(Stars) /\ Passed(doc[j].index) \subseteq Seen
        /\ \A j \in StarJobs : G!Running(j) =>
             /\ Aligned(j) /\ Passed(worker[j].index) \subseteq Seen
             /\ worker[j].pending \subseteq Seen
        /\ scanned \subseteq Seen
        /\ exhausted => G!Stargazers \subseteq Seen

(* A user with a mail is claimed, in the store or by the one worker. *)
Claims(u) == u \in scanned \/ \E j \in StarJobs : u \in worker[j].pending

NobodyTwice ==
    ~double =>
        /\ \A j, k \in StarJobs : G!Running(j) /\ G!Running(k) => j = k
        /\ \A m, n \in mails : m.user = n.user => m = n
        /\ \A m \in mails : Claims(m.user)
        /\ \A j \in StarJobs : worker[j].pc = "mail" =>
             /\ Claims(Head(worker[j].list))
             /\ \A m \in mails : m.user # Head(worker[j].list)

GazersInv ==
    /\ GazersTyped
    /\ \A j \in StarJobs : WorkerOk(worker[j]) /\ (G!Running(j) => doc[j].status # "none")
    /\ NobodyLost /\ NobodyTwice

LEMMA GazerCounts == \A S : G!Cardinality(S) = Cardinality(S)
BY DEF G!Cardinality, Cardinality

LEMMA StarsFacts ==
    /\ PerPage \in Nat /\ PerPage > 0 /\ Interval \in Nat /\ Interval > 0
    /\ BatchSize \in Nat /\ Patience \in Nat /\ MaxRuns \in Nat
    /\ Targets \subseteq Nat
    /\ Stars \in Seq(G!Stargazers) /\ Len(Stars) \in Nat /\ DOMAIN Stars = 1..Len(Stars)
    /\ \A i \in 1..Len(Stars) : Stars[i] \in G!Stargazers
    /\ \A i, k \in 1..Len(Stars) : Stars[i] = Stars[k] => i = k
BY StarsAssumption DEF G!StargazerConstants

(* Pages one behind the other. *)
LEMMA PagesFollow ==
    ASSUME NEW n \in Nat, n > 0
    PROVE  /\ Before(n) \in Nat /\ Before(n + 1) = Before(n) + PerPage
           /\ n * PerPage = Before(n) + PerPage
BY StarsFacts DEF Before

LEMMA IndexIsOnItsPage ==
    ASSUME NEW n \in Nat
    PROVE  /\ G!PageOf(n) \in Nat /\ G!PageOf(n) > 0
           /\ n % PerPage \in Nat /\ n % PerPage < PerPage
           /\ n = Before(G!PageOf(n)) + (n % PerPage)
<1>1. PerPage \in Nat /\ PerPage > 0
  BY StarsFacts
<1>2. /\ n \div PerPage \in Nat /\ n % PerPage \in 0..(PerPage - 1)
      /\ n = PerPage * (n \div PerPage) + (n % PerPage)
  BY <1>1
<1>3. ((n \div PerPage) + 1 - 1) * PerPage = PerPage * (n \div PerPage)
  BY <1>1, <1>2
<1> QED
  BY <1>1, <1>2, <1>3 DEF G!PageOf, Before

LEMMA PageIs ==
    ASSUME NEW n \in Nat, n > 0
    PROVE  /\ G!Page(n) \in Seq(G!Stargazers) /\ Upto(n) \in Nat
           /\ Upto(n) <= Len(Stars) /\ Upto(n) <= Before(n) + PerPage
           /\ Upto(n) = Before(n) + PerPage \/ Upto(n) = Len(Stars)
           /\ Before(n) >= Len(Stars) => G!Page(n) = <<>>
           /\ Before(n) < Len(Stars) =>
                /\ Before(n) < Upto(n) /\ Len(G!Page(n)) = Upto(n) - Before(n)
                /\ \A i \in 1..Len(G!Page(n)) : G!Page(n)[i] = Stars[Before(n) + i]
<1> DEFINE a == Before(n)
           b == Upto(n)
           most == Len(Stars)
<1>1. a \in Nat /\ n * PerPage = a + PerPage /\ PerPage \in Nat /\ PerPage > 0
  BY PagesFollow, StarsFacts
<1>2. Stars \in Seq(G!Stargazers) /\ most \in Nat
  BY StarsFacts
<1>3. b \in Nat /\ b <= most /\ b <= a + PerPage /\ (b = a + PerPage \/ b = most)
      /\ b = IF a + PerPage < most THEN a + PerPage ELSE most
  BY <1>1, <1>2 DEF Upto
<1>4. G!Page(n) = SubSeq(Stars, a + 1, b)
  BY DEF G!Page, Upto, Before
<1> HIDE DEF a, b
<1>5. G!Page(n) \in Seq(G!Stargazers)
  BY <1>1, <1>2, <1>3, <1>4
<1>6. CASE a >= most
  <2>1. a + 1 > b
    BY <1>1, <1>2, <1>3, <1>6
  <2>2. G!Page(n) = <<>>
    BY <1>1, <1>2, <1>3, <1>4, <2>1
  <2> QED
    BY <1>1, <1>2, <1>3, <1>5, <1>6, <2>2 DEF a, b
<1>7. CASE a < most
  <2>1. a < b
    BY <1>1, <1>2, <1>3, <1>7
  <2>2. Len(G!Page(n)) = b - a
    BY <1>1, <1>2, <1>3, <1>4, <2>1
  <2>3. \A i \in 1..Len(G!Page(n)) : G!Page(n)[i] = Stars[a + i]
    BY <1>1, <1>2, <1>3, <1>4, <2>1, <2>2
  <2> QED
    BY <1>1, <1>2, <1>3, <1>5, <1>7, <2>1, <2>2, <2>3 DEF a, b
<1> QED
  BY <1>1, <1>2, <1>6, <1>7

LEMMA PassedGrows ==
    ASSUME NEW n \in Nat
    PROVE  /\ Passed(n) \subseteq G!Stargazers
           /\ n >= Len(Stars) => Passed(n) = G!Stargazers
           /\ n < Len(Stars) => Passed(n + 1) = Passed(n) \cup {Stars[n + 1]}
                                /\ Stars[n + 1] \notin Passed(n)
<1>1. Passed(n) \subseteq G!Stargazers
  BY StarsFacts DEF Passed
<1>2. ASSUME n >= Len(Stars)
      PROVE  Passed(n) = G!Stargazers
  <2>1. (1..n) \cap (1..Len(Stars)) = 1..Len(Stars)
    BY <1>2, StarsFacts
  <2> QED
    BY <2>1, StarsFacts DEF Passed, G!Stargazers
<1>3. ASSUME n < Len(Stars)
      PROVE  Passed(n + 1) = Passed(n) \cup {Stars[n + 1]} /\ Stars[n + 1] \notin Passed(n)
  <2>1. (1..(n + 1)) \cap (1..Len(Stars)) = ((1..n) \cap (1..Len(Stars))) \cup {n + 1}
    BY <1>3, StarsFacts
  <2>2. n + 1 \in 1..Len(Stars) /\ \A i \in (1..n) \cap (1..Len(Stars)) : i # n + 1
    BY <1>3, StarsFacts
  <2> QED
    BY <2>1, <2>2, StarsFacts DEF Passed
<1> QED
  BY <1>1, <1>2, <1>3

LEMMA FoundIsCounted ==
    ASSUME GazersTyped, NEW j \in StarJobs
    PROVE  G!Found(j) \in Nat
<1>1. {m \in mails : m.job = j} \subseteq mails /\ IsFiniteSet(mails)
  BY DEF GazersTyped
<1>2. IsFiniteSet({m \in mails : m.job = j})
  BY <1>1, FS_Subset
<1> QED
  BY <1>2, FS_CardinalityType, GazerCounts DEF G!Found

(* A worker begins where its index is, unless its page is a later one.     *)
LEMMA WorkersBegin ==
    ASSUME GazersTyped, NEW j \in StarJobs, NEW page \in Nat, page > 0, NEW index \in Nat,
           NEW v, v = G!Begun(j, page, index)
    PROVE  /\ v \in GazerType /\ WorkerOk(v) /\ v.pc = "fetch" /\ v.index = index
           /\ v.pending = {}
           /\ ~(page > G!PageOf(index)) => v.index = Before(v.page) + v.offset
<1> DEFINE from == IF page > G!PageOf(index) THEN page ELSE G!PageOf(index)
           off == IF from = G!PageOf(index) THEN index % PerPage ELSE 0
<1>1. /\ from \in Nat /\ from > 0 /\ off \in Nat /\ off <= PerPage
      /\ ~(page > G!PageOf(index)) => index = Before(from) + off
  BY IndexIsOnItsPage, StarsFacts
<1>2. G!Found(j) \in Nat
  BY FoundIsCounted
<1>3. v = [pc |-> "fetch", page |-> from, offset |-> off, first |-> index, index |-> index,
           list |-> <<>>, found |-> G!Found(j), pending |-> {}, saw |-> FALSE,
           tokenless |-> 0]
  BY DEF G!Begun, G!Idle
<1> HIDE DEF from, off
<1>4. v \in GazerType
  BY <1>1, <1>2, <1>3 DEF GazerType, GazerPcs
<1>5. v.pc = "fetch" /\ v.page = from /\ v.offset = off /\ v.index = index /\ v.pending = {}
      /\ v.list = <<>>
  BY <1>3
<1> QED
  BY <1>1, <1>4, <1>5 DEF WorkerOk

LEMMA IdleIsIdle == G!Idle \in GazerType /\ WorkerOk(G!Idle) /\ G!Idle.pc = "none"
                     /\ G!Idle.pending = {}
<1>1. G!Idle \in GazerType
  BY DEF G!Idle, GazerType, GazerPcs
<1> QED
  BY <1>1 DEF G!Idle, WorkerOk

LEMMA GazersBegin == G!Init => GazersInv
<1> SUFFICES ASSUME G!Init
             PROVE  GazersInv
  OBVIOUS
<1>1. \A j \in StarJobs : worker[j] = G!Idle /\ doc[j].index = 0 /\ ~G!Running(j)
  BY IdleIsIdle DEF G!Init, G!Running
<1>2. GazersTyped
  <2>1. doc \in [StarJobs -> GazerDoc]
    <3> DEFINE d == [status |-> "none", index |-> 0, page |-> 1, target |-> 0, runs |-> 0]
    <3>1. d \in GazerDoc
      BY DEF GazerDoc, GazerStatus
    <3> QED
      BY <3>1 DEF G!Init
  <2>2. worker \in [StarJobs -> GazerType]
    BY IdleIsIdle DEF G!Init
  <2>3. /\ latest \in Seq(StarJobs) /\ stop \in [StarJobs -> BOOLEAN]
        /\ scanned \subseteq G!Stargazers /\ looked \subseteq G!Stargazers
        /\ exhausted \in BOOLEAN /\ patchy \in BOOLEAN /\ double \in BOOLEAN
    <3>1. latest \in Seq(StarJobs)
      BY DEF G!Init
    <3>2. stop \in [StarJobs -> BOOLEAN]
      BY DEF G!Init
    <3> QED
      BY <3>1, <3>2 DEF G!Init
  <2>4. mails \subseteq GazerMail /\ IsFiniteSet(mails)
    BY FS_EmptySet DEF G!Init
  <2> QED
    BY <2>1, <2>2, <2>3, <2>4 DEF GazersTyped
<1>3. Passed(0) = {} /\ 0 <= Len(Stars)
  BY StarsFacts DEF Passed
<1>4. NobodyLost
  BY <1>1, <1>3 DEF NobodyLost, G!Init
<1>5. NobodyTwice
  BY <1>1, IdleIsIdle DEF NobodyTwice, G!Init
<1> QED
  BY <1>1, <1>2, <1>4, <1>5, IdleIsIdle DEF GazersInv

(* One worker changes. *)
LEMMA WorkersChange ==
    ASSUME GazersInv, NEW j \in StarJobs, NEW v \in GazerType, WorkerOk(v),
           worker' = [worker EXCEPT ![j] = v]
    PROVE  /\ worker' \in [StarJobs -> GazerType] /\ worker'[j] = v
           /\ \A k \in StarJobs \ {j} : worker'[k] = worker[k]
           /\ \A k \in StarJobs : WorkerOk(worker'[k])
<1>1. worker \in [StarJobs -> GazerType]
  BY DEF GazersInv, GazersTyped
<1>2. /\ worker' \in [StarJobs -> GazerType] /\ worker'[j] = v
      /\ \A k \in StarJobs \ {j} : worker'[k] = worker[k]
  BY <1>1
<1> QED
  BY <1>2 DEF GazersInv

LEMMA SeenKept ==
    ASSUME NEW j \in StarJobs, \A k \in StarJobs \ {j} : worker'[k] = worker[k],
           looked \subseteq looked',
           worker[j].pc = "mail" =>
             Head(worker[j].list) \in looked'
               \/ (worker'[j].pc = "mail" /\ Head(worker'[j].list) = Head(worker[j].list))
    PROVE  /\ Seen \subseteq Seen'
           /\ worker'[j].pc = "mail" => Head(worker'[j].list) \in Seen'
<1>1. ASSUME NEW u \in AtMail
      PROVE  u \in Seen'
  <2>1. PICK k \in StarJobs : worker[k].pc = "mail" /\ u = Head(worker[k].list)
    BY <1>1 DEF AtMail
  <2>2. CASE k = j
    BY <2>1, <2>2 DEF Seen, AtMail
  <2>3. CASE k # j
    BY <2>1, <2>3 DEF Seen, AtMail
  <2> QED
    BY <2>2, <2>3
<1> QED
  BY <1>1 DEF Seen, AtMail

LEMMA NobodyLostKept ==
    ASSUME GazersInv, NEW j \in StarJobs, NEW v \in GazerType, WorkerOk(v),
           worker' = [worker EXCEPT ![j] = v], ~patchy' => ~patchy,
           \A k \in StarJobs \ {j} : doc'[k] = doc[k] /\ stop'[k] = stop[k],
           ~patchy' =>
             /\ Seen \subseteq Seen'
             /\ doc'[j].index <= Len(Stars) /\ Passed(doc'[j].index) \subseteq Seen'
             /\ v.pc # "none" =>
                  Aligned(j)' /\ Passed(v.index) \subseteq Seen' /\ v.pending \subseteq Seen'
             /\ scanned' \subseteq Seen'
             /\ exhausted' => G!Stargazers \subseteq Seen'
    PROVE  NobodyLost'
<1> SUFFICES ASSUME ~patchy'
             PROVE  NobodyLost'
  BY DEF NobodyLost
<1>1. worker'[j] = v /\ \A k \in StarJobs \ {j} : worker'[k] = worker[k]
  BY WorkersChange
<1>2. \A k \in StarJobs : doc'[k].index <= Len(Stars) /\ Passed(doc'[k].index) \subseteq Seen'
  BY DEF GazersInv, NobodyLost
<1>3. ASSUME NEW k \in StarJobs, G!Running(k)'
      PROVE  Aligned(k)' /\ Passed(worker'[k].index) \subseteq Seen' /\ worker'[k].pending \subseteq Seen'
  <2>1. CASE k = j
    BY <1>1, <1>3, <2>1 DEF G!Running
  <2>2. CASE k # j
    <3>1. worker'[k] = worker[k] /\ doc'[k] = doc[k] /\ stop'[k] = stop[k]
      BY <1>1, <2>2
    <3>2. G!Running(k) /\ (G!Enough(k)' <=> G!Enough(k))
      BY <1>3, <3>1 DEF G!Running, G!Enough
    <3>3. Aligned(k)
      BY <3>2 DEF GazersInv, NobodyLost
    <3>4. Aligned(k)'
      BY <3>1, <3>2, <3>3 DEF Aligned
    <3> QED
      BY <3>1, <3>2, <3>4 DEF GazersInv, NobodyLost
  <2> QED
    BY <2>1, <2>2
<1> QED
  BY <1>2, <1>3 DEF NobodyLost

LEMMA NobodyTwiceKept ==
    ASSUME GazersInv, NEW j \in StarJobs, NEW v \in GazerType, WorkerOk(v),
           worker' = [worker EXCEPT ![j] = v],
           ~double' =>
             /\ ~double
             /\ scanned \cup worker[j].pending \subseteq scanned' \cup v.pending
             /\ \A k \in StarJobs \ {j} : ~G!Running(k)
             /\ mails \subseteq mails'
             /\ \A m, n \in mails' : m.user = n.user => m = n
             /\ \A m \in mails' \ mails : m.user \in scanned' \cup v.pending
             /\ v.pc = "mail" =>
                  /\ Head(v.list) \in scanned' \cup v.pending
                  /\ \A m \in mails' : m.user # Head(v.list)
    PROVE  NobodyTwice'
<1> SUFFICES ASSUME ~double'
             PROVE  NobodyTwice'
  BY DEF NobodyTwice
<1>1. worker'[j] = v /\ \A k \in StarJobs \ {j} : worker'[k] = worker[k]
  BY WorkersChange
<1>2. \A u : u \in scanned' \cup v.pending => Claims(u)'
  BY <1>1 DEF Claims
<1>3. \A u : Claims(u) => Claims(u)'
  <2> SUFFICES ASSUME NEW u, Claims(u)
               PROVE  Claims(u)'
    OBVIOUS
  <2>1. CASE u \in scanned \cup worker[j].pending
    BY <1>2, <2>1
  <2>2. CASE \E k \in StarJobs \ {j} : u \in worker[k].pending
    BY <1>1, <2>2 DEF Claims
  <2> QED
    BY <2>1, <2>2 DEF Claims
<1>4. \A m \in mails' : Claims(m.user)'
  BY <1>2, <1>3 DEF GazersInv, NobodyTwice
<1>5. \A k \in StarJobs : G!Running(k)' => k = j
  BY <1>1 DEF G!Running
<1>6. \A k \in StarJobs : worker'[k].pc = "mail" =>
        Claims(Head(worker[k].list))' /\ \A m \in mails' : m.user # Head(worker'[k].list)
  <2> SUFFICES ASSUME NEW k \in StarJobs, worker'[k].pc = "mail"
               PROVE  Claims(Head(worker[k].list))'
                      /\ \A m \in mails' : m.user # Head(worker'[k].list)
    OBVIOUS
  <2>1. k = j
    BY <1>5 DEF G!Running
  <2> QED
    BY <1>1, <1>2, <2>1
<1> QED
  BY <1>4, <1>5, <1>6 DEF NobodyTwice

(* The first of a worker's list is the one behind its place.               *)
LEMMA ListAdvances ==
    ASSUME NEW w \in GazerType, WorkerOk(w), w.pc \in {"user", "mail"}, w.list # <<>>
    PROVE  /\ Place(w) \in Nat /\ Place(w) + 1 <= Len(Stars)
           /\ Head(w.list) = Stars[Place(w) + 1] /\ Head(w.list) \in G!Stargazers
           /\ Tail(w.list) \in Seq(G!Stargazers)
           /\ \A v \in GazerType : v.page = w.page /\ v.list = Tail(w.list) =>
                Place(v) = Place(w) + 1 /\ Listed(v)
<1>1. /\ w.list \in Seq(G!Stargazers) /\ w.page \in Nat /\ w.page > 0
      /\ Place(w) \in Nat /\ Listed(w)
  BY DEF GazerType, WorkerOk
<1>2. /\ Len(w.list) \in Nat /\ Len(w.list) > 0 /\ 1 \in DOMAIN w.list
      /\ Head(w.list) = w.list[1] /\ Head(w.list) \in G!Stargazers
      /\ Tail(w.list) \in Seq(G!Stargazers) /\ Len(Tail(w.list)) = Len(w.list) - 1
      /\ \A i \in DOMAIN Tail(w.list) : i \in Nat /\ i + 1 \in DOMAIN w.list
                                        /\ Tail(w.list)[i] = w.list[i + 1]
  BY <1>1
<1>3. Upto(w.page) \in Nat /\ Upto(w.page) <= Len(Stars)
  BY <1>1, PageIs
<1>4. Place(w) = Upto(w.page) - Len(w.list)
  BY DEF Place
<1>5. Place(w) + 1 <= Len(Stars)
  BY <1>1, <1>2, <1>3, <1>4, StarsFacts
<1>6. Head(w.list) = Stars[Place(w) + 1]
  BY <1>1, <1>2 DEF Listed
<1>7. ASSUME NEW v \in GazerType, v.page = w.page, v.list = Tail(w.list)
      PROVE  Place(v) = Place(w) + 1 /\ Listed(v)
  <2>1. Place(v) = Place(w) + 1
    BY <1>2, <1>3, <1>7 DEF Place
  <2>2. ASSUME NEW i \in DOMAIN v.list
        PROVE  v.list[i] = Stars[Place(v) + i]
    <3>1. i \in Nat /\ i + 1 \in DOMAIN w.list /\ v.list[i] = w.list[i + 1]
      BY <1>2, <1>7, <2>2
    <3>2. w.list[i + 1] = Stars[Place(w) + (i + 1)]
      BY <1>1, <3>1 DEF Listed
    <3>3. Place(w) + (i + 1) = Place(v) + i
      BY <1>1, <2>1, <3>1
    <3> QED
      BY <3>1, <3>2, <3>3
  <2> QED
    BY <2>1, <2>2 DEF Listed
<1> QED
  BY <1>1, <1>2, <1>5, <1>6, <1>7

(* What a worker found, when no two ran at a time.                         *)
LEMMA OneGazer ==
    ASSUME GazersInv, ~double, NEW j \in StarJobs, G!Running(j)
    PROVE  /\ \A k \in StarJobs \ {j} : ~G!Running(k)
           /\ \A u : Claims(u) => u \in scanned \cup worker[j].pending
<1>1. \A k \in StarJobs \ {j} : ~G!Running(k)
  BY DEF GazersInv, NobodyTwice
<1>2. \A k \in StarJobs \ {j} : worker[k].pending = {}
  BY <1>1 DEF GazersInv, WorkerOk, G!Running
<1> QED
  BY <1>1, <1>2 DEF Claims

(* The jobs that begin: start_scrape_job, resume_scrape_job.               *)
LEMMA GazerBegins ==
    ASSUME GazersInv, NEW j \in StarJobs, ~G!Running(j),
           NEW page \in Nat, page > 0, NEW index \in Nat,
           G!Is(j, G!Begun(j, page, index)), G!Note(j, page, index),
           NEW d \in GazerDoc, doc' = [doc EXCEPT ![j] = d], d.status # "none", d.index = index,
           latest' \in Seq(StarJobs), stop' \in [StarJobs -> BOOLEAN],
           \A k \in StarJobs \ {j} : stop'[k] = stop[k],
           ~patchy => index <= Len(Stars) /\ Passed(index) \subseteq Seen,
           UNCHANGED <<scanned, mails, looked, exhausted>>
    PROVE  GazersInv'
<1> DEFINE v == G!Begun(j, page, index)
<1>1. /\ v \in GazerType /\ WorkerOk(v) /\ v.pc = "fetch" /\ v.index = index
      /\ v.pending = {}
      /\ ~(page > G!PageOf(index)) => v.index = Before(v.page) + v.offset
  BY WorkersBegin DEF GazersInv
<1>2. worker' = [worker EXCEPT ![j] = v]
  BY DEF G!Is
<1> HIDE DEF v
<1>3. /\ worker' \in [StarJobs -> GazerType] /\ worker'[j] = v
      /\ \A k \in StarJobs \ {j} : worker'[k] = worker[k]
      /\ \A k \in StarJobs : WorkerOk(worker'[k])
  BY <1>1, <1>2, WorkersChange
<1>4. /\ doc' \in [StarJobs -> GazerDoc] /\ doc'[j] = d
      /\ \A k \in StarJobs \ {j} : doc'[k] = doc[k]
  BY DEF GazersInv, GazersTyped
<1>5. /\ double' = (double \/ \E k \in StarJobs \ {j} : G!Running(k))
      /\ patchy' = (patchy \/ page > G!PageOf(index))
      /\ scanned' = scanned /\ mails' = mails /\ looked' = looked /\ exhausted' = exhausted
  BY DEF G!Note
<1>6. GazersTyped'
  BY <1>3, <1>4, <1>5 DEF GazersInv, GazersTyped
<1>7. \A k \in StarJobs : G!Running(k)' => doc'[k].status # "none"
  BY <1>3, <1>4 DEF GazersInv, G!Running
<1>8. Seen \subseteq Seen'
  BY <1>3, <1>5, SeenKept DEF G!Running
<1>9. NobodyLost'
  <2>1. ASSUME ~patchy'
        PROVE  Aligned(j)'
    BY <1>1, <1>3, <1>5, <2>1 DEF Aligned
  <2>2. ASSUME ~patchy'
        PROVE  /\ Seen \subseteq Seen'
               /\ doc'[j].index <= Len(Stars) /\ Passed(doc'[j].index) \subseteq Seen'
               /\ Passed(v.index) \subseteq Seen' /\ v.pending \subseteq Seen'
    BY <1>1, <1>4, <1>5, <1>8, <2>2
  <2>3. ~patchy' => ~patchy /\ scanned' \subseteq Seen' /\ (exhausted' => G!Stargazers \subseteq Seen')
    <3>1. ~patchy' => ~patchy
      BY <1>5
    <3>2. ~patchy => scanned \subseteq Seen /\ (exhausted => G!Stargazers \subseteq Seen)
      BY DEF GazersInv, NobodyLost
    <3> QED
      BY <1>5, <1>8, <3>1, <3>2
  <2> QED
    BY <1>1, <1>2, <1>4, <2>1, <2>2, <2>3, NobodyLostKept
<1>10. NobodyTwice'
  <2>1. worker[j].pending = {}
    BY DEF GazersInv, WorkerOk, G!Running
  <2> QED
    BY <1>1, <1>2, <1>5, <2>1, NobodyTwiceKept DEF GazersInv, NobodyTwice
<1> QED
  BY <1>3, <1>6, <1>7, <1>9, <1>10 DEF GazersInv

LEMMA GazerStarts ==
    ASSUME GazersInv, NEW j \in StarJobs, NEW target \in Targets, G!Start(j, target)
    PROVE  GazersInv'
<1> DEFINE index == IF latest = <<>> THEN 0 ELSE doc[latest[Len(latest)]].index
           d == [status |-> "running", index |-> index, page |-> 1, target |-> target, runs |-> 1]
<1>1. /\ doc[j].status = "none" /\ doc' = [doc EXCEPT ![j] = d] /\ latest' = Append(latest, j)
      /\ G!Is(j, G!Begun(j, 1, index)) /\ G!Note(j, 1, index)
      /\ UNCHANGED <<scanned, mails, looked, exhausted>> /\ stop' = stop
  BY DEF G!Start
<1>2. index \in Nat /\ (~patchy => index <= Len(Stars) /\ Passed(index) \subseteq Seen)
  <2>1. CASE latest = <<>>
    BY <2>1, StarsFacts DEF Passed
  <2>2. CASE latest # <<>>
    <3>1. latest[Len(latest)] \in StarJobs
      BY <2>2 DEF GazersInv, GazersTyped
    <3> QED
      BY <2>2, <3>1 DEF GazersInv, GazersTyped, NobodyLost, GazerDoc
  <2> QED
    BY <2>1, <2>2
<1>3. d \in GazerDoc /\ d.status # "none" /\ d.index = index
  BY <1>2, StarsFacts DEF GazerDoc, GazerStatus
<1>4. latest' \in Seq(StarJobs) /\ stop' \in [StarJobs -> BOOLEAN]
  BY <1>1 DEF GazersInv, GazersTyped
<1>5. ~G!Running(j)
  BY <1>1 DEF GazersInv
<1> HIDE DEF index, d
<1>6. 1 \in Nat /\ 1 > 0
  OBVIOUS
<1> QED
  BY <1>1, <1>2, <1>3, <1>4, <1>5, <1>6, GazerBegins

LEMMA DocsAreDocs ==
    ASSUME NEW x \in GazerDoc
    PROVE  /\ \A s \in GazerStatus : [x EXCEPT !.status = s] \in GazerDoc
           /\ \A n \in Nat : [x EXCEPT !.index = n] \in GazerDoc
           /\ \A n \in Nat, p \in Nat \ {0} : [x EXCEPT !.page = p, !.index = n] \in GazerDoc
           /\ \A n \in Nat, s \in GazerStatus : [x EXCEPT !.index = n, !.status = s] \in GazerDoc
<1>1. /\ x.status \in GazerStatus /\ x.index \in Nat /\ x.page \in Nat \ {0}
      /\ x.target \in Nat /\ x.runs \in Nat
  BY DEF GazerDoc
<1>2. \A s \in GazerStatus : [x EXCEPT !.status = s] \in GazerDoc
  BY <1>1 DEF GazerDoc
<1>3. \A n \in Nat : [x EXCEPT !.index = n] \in GazerDoc
  BY <1>1 DEF GazerDoc
<1>4. \A n \in Nat, p \in Nat \ {0} : [x EXCEPT !.page = p, !.index = n] \in GazerDoc
  BY <1>1 DEF GazerDoc
<1>5. \A n \in Nat, s \in GazerStatus : [x EXCEPT !.index = n, !.status = s] \in GazerDoc
  BY <1>1 DEF GazerDoc
<1> QED
  BY <1>2, <1>3, <1>4, <1>5

LEMMA ResumedDocs ==
    ASSUME NEW x \in GazerDoc, NEW d, d = [x EXCEPT !.status = "running", !.runs = @ + 1]
    PROVE  d \in GazerDoc /\ d.status # "none" /\ d.index = x.index
<1>1. /\ x.status \in GazerStatus /\ x.index \in Nat /\ x.page \in Nat \ {0}
      /\ x.target \in Nat /\ x.runs \in Nat
  BY DEF GazerDoc
<1>6. /\ d.status = "running" /\ d.index = x.index /\ d.page = x.page /\ d.target = x.target
      /\ d.runs = x.runs + 1
  BY DEF GazerDoc
<1>7. d \in [status : GazerStatus, index : Nat, page : Nat \ {0}, target : Nat, runs : Nat]
  <2>1. x.runs + 1 \in Nat /\ "running" \in GazerStatus
    BY <1>1 DEF GazerStatus
  <2>2. \A s \in GazerStatus, n \in Nat : [x EXCEPT !.status = s, !.runs = n] \in GazerDoc
    BY <1>1 DEF GazerDoc
  <2> QED
    BY <2>1, <2>2 DEF GazerDoc
<1> QED
  BY <1>6, <1>7 DEF GazerDoc

LEMMA GazerResumes ==
    ASSUME GazersInv, NEW j \in StarJobs, G!Resume(j)
    PROVE  GazersInv'
<1> DEFINE d == [doc[j] EXCEPT !.status = "running", !.runs = @ + 1]
<1>1. doc \in [StarJobs -> GazerDoc] /\ doc[j] \in GazerDoc
  BY DEF GazersInv, GazersTyped
<1>2. /\ doc[j].page \in Nat /\ doc[j].page > 0 /\ doc[j].index \in Nat
      /\ d \in GazerDoc /\ d.status # "none" /\ d.index = doc[j].index
  <2>1. doc[j].page \in Nat \ {0} /\ doc[j].index \in Nat
    BY <1>1 DEF GazerDoc
  <2>2. d = [doc[j] EXCEPT !.status = "running", !.runs = @ + 1]
    OBVIOUS
  <2> HIDE DEF d
  <2>3. d \in GazerDoc /\ d.status # "none" /\ d.index = doc[j].index
    BY <1>1, <2>2, ResumedDocs
  <2> QED
    BY <2>1, <2>3
<1>3. /\ ~G!Running(j) /\ doc' = [doc EXCEPT ![j] = d]
      /\ G!Is(j, G!Begun(j, doc[j].page, doc[j].index)) /\ G!Note(j, doc[j].page, doc[j].index)
      /\ UNCHANGED <<scanned, mails, looked, exhausted>> /\ latest' = latest
      /\ stop' = [stop EXCEPT ![j] = FALSE]
  BY <1>1 DEF G!Resume
<1>4. /\ latest' \in Seq(StarJobs) /\ stop' \in [StarJobs -> BOOLEAN]
      /\ \A k \in StarJobs \ {j} : stop'[k] = stop[k]
  BY <1>3 DEF GazersInv, GazersTyped
<1>5. ~patchy => doc[j].index <= Len(Stars) /\ Passed(doc[j].index) \subseteq Seen
  BY DEF GazersInv, NobodyLost
<1> HIDE DEF d
<1> QED
  BY <1>2, <1>3, <1>4, <1>5, GazerBegins

(* stop_scrape_job: a thread that walks has enough.                        *)
LEMMA GazerIsStopped ==
    ASSUME GazersInv, NEW j \in StarJobs, G!Stop(j)
    PROVE  GazersInv'
<1>1. /\ worker \in [StarJobs -> GazerType] /\ doc \in [StarJobs -> GazerDoc]
      /\ stop \in [StarJobs -> BOOLEAN] /\ worker[j] \in GazerType /\ WorkerOk(worker[j])
  BY DEF GazersInv, GazersTyped
<1>2. /\ stop' = [stop EXCEPT ![j] = G!Running(j)]
      /\ doc' = [doc EXCEPT ![j].status = "stopped"]
      /\ UNCHANGED <<latest, worker, scanned, mails, looked, exhausted, patchy, double>>
  BY DEF G!Stop
<1>3. /\ worker' = [worker EXCEPT ![j] = worker[j]] /\ worker' = worker
      /\ stop' \in [StarJobs -> BOOLEAN] /\ stop'[j] = G!Running(j)
      /\ \A k \in StarJobs \ {j} : doc'[k] = doc[k] /\ stop'[k] = stop[k]
  BY <1>1, <1>2 DEF G!Running
<1>4. /\ doc' \in [StarJobs -> GazerDoc] /\ doc'[j].index = doc[j].index
      /\ \A k \in StarJobs : doc[k].status # "none" => doc'[k].status # "none"
  BY <1>1, <1>2 DEF GazerDoc, GazerStatus
<1>5. GazersTyped'
  BY <1>2, <1>3, <1>4 DEF GazersInv, GazersTyped
<1>6. NobodyLost'
  <2>1. Seen' = Seen
    BY <1>2 DEF Seen, AtMail
  <2>2. ASSUME ~patchy', worker[j].pc # "none"
        PROVE  /\ Aligned(j)' /\ Passed(worker[j].index) \subseteq Seen'
               /\ worker[j].pending \subseteq Seen'
    <3>1. G!Enough(j)'
      BY <1>3, <2>2 DEF G!Enough, G!Running
    <3>2. Aligned(j) /\ Passed(worker[j].index) \subseteq Seen /\ worker[j].pending \subseteq Seen
      BY <1>2, <2>2 DEF GazersInv, NobodyLost, G!Running
    <3> QED
      BY <1>3, <2>1, <3>1, <3>2 DEF Aligned
  <2> QED
    BY <1>1, <1>2, <1>3, <1>4, <2>1, <2>2, NobodyLostKept DEF GazersInv, NobodyLost
<1>7. NobodyTwice'
  BY <1>2 DEF GazersInv, NobodyTwice, Claims, G!Running
<1> QED
  BY <1>1, <1>2, <1>4, <1>5, <1>6, <1>7 DEF GazersInv, G!Running

(* The rest of a page behind an offset. *)
LEMMA Rest ==
    ASSUME NEW S, NEW s \in Seq(S), NEW n \in Nat
    PROVE  /\ n <= Len(s) =>
                /\ Len(SubSeq(s, n + 1, Len(s))) = Len(s) - n
                /\ DOMAIN SubSeq(s, n + 1, Len(s)) = 1..(Len(s) - n)
                /\ \A i \in DOMAIN SubSeq(s, n + 1, Len(s)) : SubSeq(s, n + 1, Len(s))[i] = s[n + i]
           /\ n > Len(s) =>
                /\ SubSeq(s, n + 1, Len(s)) = <<>> /\ Len(SubSeq(s, n + 1, Len(s))) = 0
                /\ DOMAIN SubSeq(s, n + 1, Len(s)) = {}
<1>1. Len(s) \in Nat /\ \A i \in 1..Len(s) : s[i] \in S
  OBVIOUS
<1>2. ASSUME n <= Len(s)
      PROVE  /\ Len(SubSeq(s, n + 1, Len(s))) = Len(s) - n
             /\ DOMAIN SubSeq(s, n + 1, Len(s)) = 1..(Len(s) - n)
             /\ \A i \in 1..(Len(s) - n) : SubSeq(s, n + 1, Len(s))[i] = s[n + i]
  <2>1. Len(SubSeq(s, n + 1, Len(s))) = Len(s) - n
    BY <1>1, <1>2
  <2>2. DOMAIN SubSeq(s, n + 1, Len(s)) = 1..(Len(s) - n)
    BY <1>1, <1>2
  <2>3. \A i \in 1..(Len(s) - n) : SubSeq(s, n + 1, Len(s))[i] = s[n + i]
    BY <1>1, <1>2
  <2> QED
    BY <2>1, <2>2, <2>3
<1>3. ASSUME n > Len(s)
      PROVE  /\ Len(SubSeq(s, n + 1, Len(s))) = 0
             /\ DOMAIN SubSeq(s, n + 1, Len(s)) = {}
             /\ SubSeq(s, n + 1, Len(s)) = <<>>
  <2>1. Len(SubSeq(s, n + 1, Len(s))) = 0
    BY <1>1, <1>3
  <2>2. SubSeq(s, n + 1, Len(s)) \in Seq(S)
    BY <1>1, <1>3
  <2> QED
    BY <2>1, <2>2
<1> QED
  BY <1>2, <1>3

(* A step of a thread, of which only what it changes is left to show.      *)
LEMMA GazerSteps ==
    ASSUME GazersInv, NEW j \in StarJobs, G!Running(j),
           NEW v \in GazerType, WorkerOk(v), worker' = [worker EXCEPT ![j] = v],
           NEW d \in GazerDoc, d.status # "none", doc' = [doc EXCEPT ![j] = d],
           latest' = latest,
           stop' \in [StarJobs -> BOOLEAN], \A k \in StarJobs \ {j} : stop'[k] = stop[k],
           scanned' \subseteq G!Stargazers, looked' \subseteq G!Stargazers,
           mails' \subseteq GazerMail, IsFiniteSet(mails'),
           exhausted' \in BOOLEAN, patchy' \in BOOLEAN, double' \in BOOLEAN,
           ~patchy' =>
             /\ ~patchy /\ Seen \subseteq Seen'
             /\ d.index <= Len(Stars) /\ Passed(d.index) \subseteq Seen'
             /\ v.pc # "none" =>
                  Aligned(j)' /\ Passed(v.index) \subseteq Seen' /\ v.pending \subseteq Seen'
             /\ scanned' \subseteq Seen'
             /\ exhausted' => G!Stargazers \subseteq Seen',
           ~double' =>
             /\ ~double
             /\ scanned \cup worker[j].pending \subseteq scanned' \cup v.pending
             /\ mails \subseteq mails'
             /\ \A m, n \in mails' : m.user = n.user => m = n
             /\ \A m \in mails' \ mails : m.user \in scanned' \cup v.pending
             /\ v.pc = "mail" =>
                  /\ Head(v.list) \in scanned' \cup v.pending
                  /\ \A m \in mails' : m.user # Head(v.list)
    PROVE  GazersInv'
<1>1. /\ worker' \in [StarJobs -> GazerType] /\ worker'[j] = v
      /\ \A k \in StarJobs \ {j} : worker'[k] = worker[k]
      /\ \A k \in StarJobs : WorkerOk(worker'[k])
  BY WorkersChange
<1>2. /\ doc' \in [StarJobs -> GazerDoc] /\ doc'[j] = d
      /\ \A k \in StarJobs \ {j} : doc'[k] = doc[k]
  BY DEF GazersInv, GazersTyped
<1>3. GazersTyped'
  BY <1>1, <1>2 DEF GazersInv, GazersTyped
<1>4. \A k \in StarJobs : G!Running(k)' => doc'[k].status # "none"
  BY <1>1, <1>2 DEF GazersInv, G!Running
<1>5. NobodyLost'
  BY <1>2, NobodyLostKept
<1>6. NobodyTwice'
  <2>1. ~double' => \A k \in StarJobs \ {j} : ~G!Running(k)
    BY OneGazer
  <2> QED
    BY <2>1, NobodyTwiceKept
<1> QED
  BY <1>1, <1>3, <1>4, <1>5, <1>6 DEF GazersInv

(* What the steps start from. *)
LEMMA GazerIs ==
    ASSUME GazersInv, NEW j \in StarJobs
    PROVE  /\ worker \in [StarJobs -> GazerType] /\ worker[j] \in GazerType
           /\ WorkerOk(worker[j])
           /\ worker[j].page \in Nat /\ worker[j].offset \in Nat /\ worker[j].index \in Nat
           /\ worker[j].list \in Seq(G!Stargazers) /\ worker[j].found \in Nat
           /\ worker[j].tokenless \in Nat
           /\ worker[j].pending \subseteq G!Stargazers /\ worker[j].pc \in GazerPcs
           /\ doc \in [StarJobs -> GazerDoc] /\ doc[j] \in GazerDoc
           /\ doc' = doc => doc' = [doc EXCEPT ![j] = doc[j]]
           /\ stop \in [StarJobs -> BOOLEAN]
           /\ scanned \subseteq G!Stargazers /\ looked \subseteq G!Stargazers
           /\ mails \subseteq GazerMail /\ IsFiniteSet(mails)
           /\ exhausted \in BOOLEAN /\ patchy \in BOOLEAN /\ double \in BOOLEAN
           /\ G!Running(j) => doc[j].status # "none"
<1>1. /\ worker \in [StarJobs -> GazerType] /\ WorkerOk(worker[j])
      /\ doc \in [StarJobs -> GazerDoc] /\ stop \in [StarJobs -> BOOLEAN]
      /\ scanned \subseteq G!Stargazers /\ looked \subseteq G!Stargazers
      /\ mails \subseteq GazerMail /\ IsFiniteSet(mails)
      /\ exhausted \in BOOLEAN /\ patchy \in BOOLEAN /\ double \in BOOLEAN
      /\ G!Running(j) => doc[j].status # "none"
  BY DEF GazersInv, GazersTyped
<1>2. worker[j] \in GazerType /\ doc[j] \in GazerDoc
  BY <1>1
<1>3. /\ worker[j].page \in Nat /\ worker[j].offset \in Nat /\ worker[j].index \in Nat
      /\ worker[j].list \in Seq(G!Stargazers) /\ worker[j].found \in Nat
      /\ worker[j].tokenless \in Nat
      /\ worker[j].pending \subseteq G!Stargazers /\ worker[j].pc \in GazerPcs
  BY <1>2 DEF GazerType
<1>4. doc' = doc => doc' = [doc EXCEPT ![j] = doc[j]]
  BY <1>1
<1> QED
  BY <1>1, <1>2, <1>3, <1>4

(* While no one has been left behind, and no two ran at a time.            *)
LEMMA NobodyLostIs ==
    ASSUME GazersInv, NEW j \in StarJobs, ~patchy
    PROVE  /\ doc[j].index <= Len(Stars) /\ Passed(doc[j].index) \subseteq Seen
           /\ scanned \subseteq Seen /\ (exhausted => G!Stargazers \subseteq Seen)
           /\ G!Running(j) => /\ Aligned(j) /\ Passed(worker[j].index) \subseteq Seen
                              /\ worker[j].pending \subseteq Seen
                              /\ worker[j].index <= Len(Stars)
BY DEF GazersInv, NobodyLost, Aligned

(* A page is entered behind its first so many, or there is nothing behind. *)
LEMMA PageEntered ==
    ASSUME NEW n \in Nat, n > 0, NEW off \in Nat, off <= PerPage, G!Page(n) # <<>>,
           NEW v \in GazerType, v.pc = "user", v.page = n, v.offset = 0, v.pending = {},
           v.list = SubSeq(G!Page(n), off + 1, Len(G!Page(n)))
    PROVE  /\ WorkerOk(v) /\ Before(n) < Len(Stars)
           /\ Place(v) = Before(n) + off \/ Before(n) + off > Len(Stars)
<1> DEFINE b == Before(n)
           u == Upto(n)
           p == G!Page(n)
           r == v.list
<1>1. /\ b \in Nat /\ p \in Seq(G!Stargazers) /\ u \in Nat /\ u <= Len(Stars)
      /\ u = b + PerPage \/ u = Len(Stars)
      /\ b < Len(Stars) /\ b < u /\ Len(p) = u - b
      /\ \A i \in 1..Len(p) : p[i] = Stars[b + i]
      /\ PerPage \in Nat /\ Len(Stars) \in Nat
  <2>1. b \in Nat /\ PerPage \in Nat /\ Len(Stars) \in Nat
    BY PagesFollow, StarsFacts
  <2>2. b < Len(Stars)
    BY <2>1, PageIs
  <2>3. /\ p \in Seq(G!Stargazers) /\ u \in Nat /\ u <= Len(Stars)
        /\ u <= b + PerPage /\ (u = b + PerPage \/ u = Len(Stars))
    BY PageIs
  <2>4. /\ b < u /\ Len(p) = u - b
        /\ \A i \in 1..Len(p) : p[i] = Stars[b + i]
    BY <2>2, PageIs
  <2> QED
    BY <2>1, <2>2, <2>3, <2>4
<1>s. r = SubSeq(p, off + 1, Len(p))
  OBVIOUS
<1> HIDE DEF b, u, p, r
<1>2. /\ off <= Len(p) => /\ Len(r) = Len(p) - off /\ DOMAIN r = 1..(Len(p) - off)
                          /\ \A i \in DOMAIN r : r[i] = p[off + i]
      /\ off > Len(p) => Len(r) = 0 /\ DOMAIN r = {}
  BY <1>1, <1>s, Rest
<1>3. Place(v) = u - Len(r)
  BY DEF Place, u, r
<1>4. CASE off <= Len(p)
  <2>1. Place(v) = b + off
    <3>1. Len(r) = Len(p) - off
      BY <1>2, <1>4
    <3>2. Len(p) = u - b /\ u \in Int /\ b \in Int /\ off \in Int
      BY <1>1
    <3>3. u - (u - b - off) = b + off
      BY ONLY <3>2
    <3> QED
      BY <1>3, <3>1, <3>2, <3>3
  <2>2. ASSUME NEW i \in DOMAIN r
        PROVE  r[i] = Stars[Place(v) + i]
    <3>1. i \in Nat /\ off + i \in 1..Len(p) /\ r[i] = p[off + i]
      BY <1>1, <1>2, <1>4, <2>2
    <3>2. p[off + i] = Stars[b + (off + i)]
      BY <1>1, <3>1
    <3>3. b + (off + i) = Place(v) + i
      BY <1>1, <2>1, <3>1
    <3> QED
      BY <3>1, <3>2, <3>3
  <2>3. Listed(v)
    BY <2>2 DEF Listed, r
  <2> QED
    BY <1>1, <2>1, <2>3 DEF WorkerOk, b
<1>5. CASE off > Len(p)
  <2>1. Place(v) = u /\ Listed(v)
    BY <1>1, <1>2, <1>3, <1>5 DEF Listed, r
  <2>2. b + off > Len(Stars)
    BY <1>1, <1>5
  <2> QED
    BY <1>1, <2>1, <2>2 DEF WorkerOk, b
<1> QED
  BY <1>1, <1>4, <1>5

LEMMA GazerFetches ==
    ASSUME GazersInv, NEW j \in StarJobs, G!Fetch(j)
    PROVE  GazersInv'
<1> DEFINE w == worker[j]
           ends == [w EXCEPT !.pc = "end"]
           goes == [w EXCEPT !.pc = "user", !.saw = TRUE, !.offset = 0,
                      !.list = SubSeq(G!Page(w.page), w.offset + 1, Len(G!Page(w.page)))]
           v == IF G!Enough(j) \/ G!Page(w.page) = <<>> THEN ends ELSE goes
           b == Before(w.page)
           upto == Upto(w.page)
           page == G!Page(w.page)
<1>1. /\ WorkerOk(w) /\ w \in GazerType /\ w.pc = "fetch" /\ G!Running(j)
      /\ w.page \in Nat /\ w.page > 0 /\ w.offset \in Nat /\ w.offset <= PerPage
      /\ w.index \in Nat /\ w.pending = {} /\ w.list = <<>>
  BY GazerIs DEF WorkerOk, G!Fetch, G!At, G!Running
<1>2. /\ worker' = [worker EXCEPT ![j] = v]
      /\ UNCHANGED <<doc, latest, stop, scanned, mails, looked, exhausted, patchy, double>>
  BY DEF G!Fetch, G!Is
<1>3. /\ b \in Nat /\ page \in Seq(G!Stargazers) /\ upto \in Nat /\ upto <= Len(Stars) /\ upto <= b + PerPage
      /\ upto = b + PerPage \/ upto = Len(Stars)
      /\ b >= Len(Stars) => page = <<>>
      /\ b < Len(Stars) => /\ b < upto /\ Len(page) = upto - b
                           /\ \A i \in 1..Len(page) : page[i] = Stars[b + i]
      /\ PerPage \in Nat /\ Len(Stars) \in Nat
  BY <1>1, PageIs, PagesFollow, StarsFacts
<1>4. v \in GazerType /\ v.index = w.index /\ v.pending = {} /\ v.page = w.page /\ v.found = w.found
  <2>1. SubSeq(page, w.offset + 1, Len(page)) \in Seq(G!Stargazers)
    BY <1>1, <1>3
  <2>2. ends \in GazerType /\ ends.index = w.index /\ ends.pending = w.pending
        /\ ends.page = w.page /\ ends.found = w.found
    BY <1>1 DEF GazerType, GazerPcs
  <2>3. goes \in GazerType /\ goes.index = w.index /\ goes.pending = w.pending
        /\ goes.page = w.page /\ goes.found = w.found
    BY <1>1, <2>1 DEF GazerType, GazerPcs
  <2> QED
    BY <1>1, <2>2, <2>3
<1>5. WorkerOk(v) /\ v.pc # "mail" /\ v.pc # "none" /\ (~patchy => Aligned(j)')
  <2>1. worker'[j] = v /\ (G!Enough(j)' <=> G!Enough(j))
    BY <1>1, <1>2, <1>4, GazerIs DEF G!Enough
  <2>2. ~patchy => Aligned(j)
    BY <1>1, NobodyLostIs
  <2>3. CASE G!Enough(j) \/ page = <<>>
    <3>1. v.pc = "end" /\ v.list = <<>>
      BY <1>1, <2>3 DEF GazerType
    <3>2. G!Enough(j) \/ b >= Len(Stars)
      <4>1. page = <<>> => Len(page) = 0
        OBVIOUS
      <4> QED
        BY <1>3, <2>3, <4>1
    <3>3. Aligned(j) => w.index <= Len(Stars) /\ (G!Enough(j) \/ w.index = Len(Stars))
      BY <1>1, <1>3, <3>2 DEF Aligned
    <3> HIDE DEF v
    <3> QED
      BY <1>1, <1>4, <2>1, <2>2, <3>1, <3>3 DEF WorkerOk, Aligned
  <2>4. CASE ~(G!Enough(j) \/ page = <<>>)
    <3>1. v.pc = "user" /\ v.offset = 0 /\ v.list = SubSeq(page, w.offset + 1, Len(page))
      BY <1>1, <2>4 DEF GazerType
    <3> HIDE DEF v
    <3>2. WorkerOk(v) /\ (Place(v) = b + w.offset \/ b + w.offset > Len(Stars)) /\ b < Len(Stars)
      BY <1>1, <1>4, <2>4, <3>1, PageEntered
    <3>3. Aligned(j) => Aligned(j)'
      BY <1>1, <1>3, <1>4, <2>1, <2>4, <3>1, <3>2 DEF Aligned
    <3> QED
      BY <2>2, <3>1, <3>2, <3>3
  <2> QED
    BY <2>3, <2>4
<1> HIDE DEF v, b, upto, page
<1>6. Seen \subseteq Seen'
  <2>1. \A k \in StarJobs \ {j} : worker'[k] = worker[k]
    BY <1>2, GazerIs
  <2> QED
    BY <1>1, <1>2, <2>1, SeenKept
<1>7. ~patchy' =>
        /\ ~patchy /\ Seen \subseteq Seen'
        /\ doc[j].index <= Len(Stars) /\ Passed(doc[j].index) \subseteq Seen'
        /\ v.pc # "none" =>
             Aligned(j)' /\ Passed(v.index) \subseteq Seen' /\ v.pending \subseteq Seen'
        /\ scanned' \subseteq Seen' /\ (exhausted' => G!Stargazers \subseteq Seen')
  BY <1>1, <1>2, <1>4, <1>5, <1>6, NobodyLostIs
<1>8. ~double' => ~double /\ \A m, n \in mails' : m.user = n.user => m = n
  BY <1>2 DEF GazersInv, NobodyTwice
<1>9. /\ doc' = [doc EXCEPT ![j] = doc[j]] /\ doc[j] \in GazerDoc /\ doc[j].status # "none"
      /\ latest' = latest
      /\ stop' \in [StarJobs -> BOOLEAN] /\ \A k \in StarJobs \ {j} : stop'[k] = stop[k]
      /\ scanned' \subseteq G!Stargazers /\ looked' \subseteq G!Stargazers
      /\ mails' \subseteq GazerMail /\ IsFiniteSet(mails')
      /\ exhausted' \in BOOLEAN /\ patchy' \in BOOLEAN /\ double' \in BOOLEAN
  BY <1>1, <1>2, GazerIs
<1>10. ~double' =>
         /\ ~double
         /\ scanned \cup worker[j].pending \subseteq scanned' \cup v.pending
         /\ mails \subseteq mails' /\ \A m, n \in mails' : m.user = n.user => m = n
         /\ \A m \in mails' \ mails : m.user \in scanned' \cup v.pending
         /\ v.pc = "mail" =>
              /\ Head(v.list) \in scanned' \cup v.pending
              /\ \A m \in mails' : m.user # Head(v.list)
  BY <1>1, <1>2, <1>5, <1>8
<1>11. v \in GazerType /\ WorkerOk(v) /\ worker' = [worker EXCEPT ![j] = v]
  BY <1>2, <1>4, <1>5
<1> QED
  BY <1>1, <1>7, <1>9, <1>10, <1>11, GazerSteps

(* The other threads stay as they are.                                     *)
LEMMA OthersStay ==
    ASSUME GazersInv, NEW j \in StarJobs, NEW v, worker' = [worker EXCEPT ![j] = v]
    PROVE  worker'[j] = v /\ \A k \in StarJobs \ {j} : worker'[k] = worker[k]
BY GazerIs

LEMMA GazersPageDone ==
    ASSUME GazersInv, NEW j \in StarJobs, G!PageDone(j)
    PROVE  GazersInv'
<1> DEFINE w == worker[j]
           v == [w EXCEPT !.pc = "fetch", !.page = @ + 1, !.pending = {}, !.list = <<>>]
           d == [doc[j] EXCEPT !.page = w.page + 1, !.index = w.index]
<1>1. /\ WorkerOk(w) /\ w \in GazerType /\ w.pc = "user" /\ G!Running(j)
      /\ w.page \in Nat /\ w.page > 0 /\ w.offset = 0 /\ w.index \in Nat
      /\ w.list \in Seq(G!Stargazers) /\ w.pending \subseteq G!Stargazers
      /\ w.list = <<>> \/ G!Enough(j)
  BY GazerIs DEF WorkerOk, G!PageDone, G!At, G!Running
<1>2. /\ worker' = [worker EXCEPT ![j] = v] /\ scanned' = scanned \cup w.pending
      /\ UNCHANGED <<latest, stop, mails, looked, exhausted, patchy, double>>
      /\ doc' = [doc EXCEPT ![j] = d]
  BY GazerIs DEF G!PageDone, G!Is
<1>3. /\ v \in GazerType /\ v.pc = "fetch" /\ v.page = w.page + 1 /\ v.pending = {}
      /\ v.list = <<>> /\ v.offset = 0 /\ v.index = w.index /\ v.found = w.found
  <2>1. w.page + 1 \in Nat /\ <<>> \in Seq(G!Stargazers)
    BY <1>1
  <2>2. \A n \in Nat, s \in Seq(G!Stargazers) :
          [w EXCEPT !.pc = "fetch", !.page = n, !.pending = {}, !.list = s] \in GazerType
    BY <1>1 DEF GazerType, GazerPcs
  <2>3. v = [w EXCEPT !.pc = "fetch", !.page = w.page + 1, !.pending = {}, !.list = <<>>]
    BY <1>1 DEF GazerType
  <2>4. v \in GazerType
    BY <2>1, <2>2, <2>3
  <2> QED
    BY <1>1, <2>3, <2>4 DEF GazerType
<1>4. d \in GazerDoc /\ d.index = w.index /\ d.status # "none" /\ d.target = doc[j].target
  <2>1. doc[j] \in GazerDoc /\ doc[j].status # "none" /\ w.page + 1 \in Nat \ {0}
    BY <1>1, GazerIs
  <2>2. d \in GazerDoc
    BY <1>1, <2>1, DocsAreDocs
  <2> QED
    BY <2>1, <2>2 DEF GazerDoc
<1> HIDE DEF v, d
<1>5. WorkerOk(v)
  BY <1>1, <1>3, StarsFacts DEF WorkerOk
<1>6. worker'[j] = v /\ doc'[j] = d /\ \A k \in StarJobs \ {j} : worker'[k] = worker[k]
  BY <1>2, OthersStay, GazerIs
<1>7. Seen \subseteq Seen'
  BY <1>1, <1>2, <1>6, SeenKept
<1>8. ASSUME Aligned(j)
      PROVE  Aligned(j)'
  <2>1. G!Enough(j)' <=> G!Enough(j)
    BY <1>2, <1>3, <1>4, <1>6 DEF G!Enough
  <2>2. w.index = Upto(w.page) - Len(w.list) /\ w.index <= Len(Stars)
    BY <1>1, <1>8 DEF Aligned, Place
  <2>3. CASE w.list = <<>>
    <3>1. w.index = Upto(w.page)
      BY <1>1, <2>2, <2>3, PageIs
    <3>2. /\ Before(w.page + 1) = Before(w.page) + PerPage /\ Before(w.page) \in Nat
          /\ PerPage \in Nat
      BY <1>1, PagesFollow, StarsFacts
    <3>3. /\ Upto(w.page) \in Nat /\ Upto(w.page) <= Before(w.page) + PerPage
          /\ Upto(w.page) = Before(w.page) + PerPage \/ Upto(w.page) = Len(Stars)
      BY <1>1, PageIs
    <3> QED
      BY <1>3, <1>6, <2>2, <3>1, <3>2, <3>3, StarsFacts DEF Aligned
  <2> QED
    BY <1>1, <1>3, <1>6, <2>1, <2>2, <2>3 DEF Aligned
<1>9. ~patchy' =>
        /\ ~patchy /\ Seen \subseteq Seen'
        /\ d.index <= Len(Stars) /\ Passed(d.index) \subseteq Seen'
        /\ v.pc # "none" =>
             Aligned(j)' /\ Passed(v.index) \subseteq Seen' /\ v.pending \subseteq Seen'
        /\ scanned' \subseteq Seen' /\ (exhausted' => G!Stargazers \subseteq Seen')
  BY <1>1, <1>2, <1>3, <1>4, <1>7, <1>8, NobodyLostIs
<1>10. ~double' =>
         /\ ~double
         /\ scanned \cup worker[j].pending \subseteq scanned' \cup v.pending
         /\ mails \subseteq mails' /\ \A m, n \in mails' : m.user = n.user => m = n
         /\ \A m \in mails' \ mails : m.user \in scanned' \cup v.pending
         /\ v.pc = "mail" =>
              /\ Head(v.list) \in scanned' \cup v.pending
              /\ \A m \in mails' : m.user # Head(v.list)
  <2>1. ~double => \A m, n \in mails : m.user = n.user => m = n
    BY DEF GazersInv, NobodyTwice
  <2> QED
    BY <1>2, <1>3, <2>1
<1>11. /\ latest' = latest
       /\ stop' \in [StarJobs -> BOOLEAN] /\ \A k \in StarJobs \ {j} : stop'[k] = stop[k]
       /\ scanned' \subseteq G!Stargazers /\ looked' \subseteq G!Stargazers
       /\ mails' \subseteq GazerMail /\ IsFiniteSet(mails')
       /\ exhausted' \in BOOLEAN /\ patchy' \in BOOLEAN /\ double' \in BOOLEAN
  BY <1>1, <1>2, GazerIs
<1> QED
  BY <1>1, <1>2, <1>3, <1>4, <1>5, <1>9, <1>10, <1>11, GazerSteps

(* _update_job_progress *)
LEMMA GazersProgress ==
    ASSUME GazersInv, NEW j \in StarJobs, NEW n \in Nat, G!Progress(j, n)
    PROVE  \E d \in GazerDoc :
             /\ doc' = [doc EXCEPT ![j] = d] /\ doc'[j] = d /\ d.status = doc[j].status
             /\ d.target = doc[j].target /\ d.index \in {n, doc[j].index}
<1>1. doc \in [StarJobs -> GazerDoc] /\ doc[j] \in GazerDoc
  BY GazerIs
<1>2. CASE doc' = doc
  BY <1>1, <1>2, GazerIs
<1>3. CASE doc' = [doc EXCEPT ![j].index = n]
  <2> DEFINE d == [doc[j] EXCEPT !.index = n]
  <2>1. d \in GazerDoc /\ d.status = doc[j].status /\ d.target = doc[j].target /\ d.index = n
    <3>1. d \in GazerDoc
      BY <1>1, DocsAreDocs
    <3> QED
      BY <1>1, <3>1 DEF GazerDoc
  <2>2. doc' = [doc EXCEPT ![j] = d] /\ doc'[j] = d
    BY <1>1, <1>3
  <2> HIDE DEF d
  <2> QED
    BY <2>1, <2>2
<1> QED
  BY <1>2, <1>3 DEF G!Progress

(* A user claimed before is passed by.                                     *)
LEMMA GazerPassesBy ==
    ASSUME GazersInv, NEW j \in StarJobs, G!Claim(j), Head(worker[j].list) \in scanned
    PROVE  GazersInv'
<1> DEFINE w == worker[j]
           u == Head(w.list)
           v == [w EXCEPT !.index = @ + 1, !.list = Tail(@)]
<1>1. /\ WorkerOk(w) /\ w \in GazerType /\ w.pc = "user" /\ G!Running(j)
      /\ w.page \in Nat /\ w.page > 0 /\ w.offset = 0 /\ w.index \in Nat
      /\ w.list \in Seq(G!Stargazers) /\ w.pending \subseteq G!Stargazers /\ w.list # <<>>
      /\ w.pending \subseteq Passed(Place(w))
  BY GazerIs DEF WorkerOk, G!Claim, G!At, G!Running
<1>2. /\ worker' = [worker EXCEPT ![j] = v] /\ G!Progress(j, w.index + 1)
      /\ UNCHANGED <<latest, stop, scanned, mails, looked, exhausted, patchy, double>>
  BY GazerIs DEF G!Claim, G!Is, GazerType
<1>3. /\ Place(w) \in Nat /\ Place(w) + 1 <= Len(Stars)
      /\ u = Stars[Place(w) + 1] /\ u \in G!Stargazers /\ Tail(w.list) \in Seq(G!Stargazers)
      /\ Passed(Place(w) + 1) = Passed(Place(w)) \cup {u}
  BY <1>1, ListAdvances, PassedGrows, StarsFacts
<1>4. /\ v \in GazerType /\ v.pc = "user" /\ v.page = w.page /\ v.pending = w.pending
      /\ v.list = Tail(w.list) /\ v.offset = 0 /\ v.index = w.index + 1 /\ v.found = w.found
  <2>1. w.index + 1 \in Nat
    BY <1>1
  <2> QED
    BY <1>1, <1>3, <2>1 DEF GazerType, GazerPcs
<1> HIDE DEF v
<1>5. WorkerOk(v) /\ Place(v) = Place(w) + 1
  BY <1>1, <1>3, <1>4, ListAdvances DEF WorkerOk
<1>6. worker'[j] = v /\ \A k \in StarJobs \ {j} : worker'[k] = worker[k]
  BY <1>2, OthersStay
<1>7. Seen \subseteq Seen'
  BY <1>1, <1>2, <1>6, SeenKept
<1>8. PICK d \in GazerDoc :
        /\ doc' = [doc EXCEPT ![j] = d] /\ doc'[j] = d /\ d.status = doc[j].status
        /\ d.target = doc[j].target /\ d.index \in {w.index + 1, doc[j].index}
  BY <1>1, <1>2, GazersProgress
<1>9. ASSUME ~patchy
      PROVE  /\ Aligned(j)' /\ w.index + 1 <= Len(Stars)
             /\ Passed(w.index + 1) \subseteq Seen'
  <2>1. w.index = Place(w) /\ Passed(w.index) \subseteq Seen /\ scanned \subseteq Seen
    BY <1>1, <1>9, NobodyLostIs DEF Aligned
  <2>2. w.index + 1 <= Len(Stars) /\ Passed(w.index + 1) \subseteq Seen'
    BY <1>3, <1>7, <2>1
  <2> QED
    BY <1>4, <1>5, <1>6, <2>1, <2>2 DEF Aligned
<1>10. ~patchy' =>
        /\ ~patchy /\ Seen \subseteq Seen'
        /\ d.index <= Len(Stars) /\ Passed(d.index) \subseteq Seen'
        /\ v.pc # "none" =>
             Aligned(j)' /\ Passed(v.index) \subseteq Seen' /\ v.pending \subseteq Seen'
        /\ scanned' \subseteq Seen' /\ (exhausted' => G!Stargazers \subseteq Seen')
  BY <1>1, <1>2, <1>4, <1>7, <1>8, <1>9, NobodyLostIs
<1>11. ~double' =>
         /\ ~double
         /\ scanned \cup worker[j].pending \subseteq scanned' \cup v.pending
         /\ mails \subseteq mails' /\ \A m, n \in mails' : m.user = n.user => m = n
         /\ \A m \in mails' \ mails : m.user \in scanned' \cup v.pending
         /\ v.pc = "mail" =>
              /\ Head(v.list) \in scanned' \cup v.pending
              /\ \A m \in mails' : m.user # Head(v.list)
  <2>1. ~double => \A m, n \in mails : m.user = n.user => m = n
    BY DEF GazersInv, NobodyTwice
  <2> QED
    BY <1>2, <1>4, <2>1
<1>12. /\ latest' = latest /\ d.status # "none"
       /\ stop' \in [StarJobs -> BOOLEAN] /\ \A k \in StarJobs \ {j} : stop'[k] = stop[k]
       /\ scanned' \subseteq G!Stargazers /\ looked' \subseteq G!Stargazers
       /\ mails' \subseteq GazerMail /\ IsFiniteSet(mails')
       /\ exhausted' \in BOOLEAN /\ patchy' \in BOOLEAN /\ double' \in BOOLEAN
  BY <1>1, <1>2, <1>8, GazerIs
<1> QED
  BY <1>1, <1>2, <1>4, <1>5, <1>8, <1>10, <1>11, <1>12, GazerSteps

(* The next user is claimed: nobody who is kept, as they are all claimed.  *)
LEMMA GazerClaims ==
    ASSUME GazersInv, NEW j \in StarJobs, G!Claim(j), Head(worker[j].list) \notin scanned
    PROVE  GazersInv'
<1> DEFINE w == worker[j]
           u == Head(w.list)
           pending == w.pending \cup {u}
           flushed == G!Cardinality(pending) >= BatchSize
           rest == IF flushed THEN {} ELSE pending
           v == [[w EXCEPT !.index = @ + 1] EXCEPT !.pc = "mail", !.pending = rest]
<1>1. /\ WorkerOk(w) /\ w \in GazerType /\ w.pc = "user" /\ G!Running(j)
      /\ w.page \in Nat /\ w.page > 0 /\ w.offset = 0 /\ w.index \in Nat
      /\ w.list \in Seq(G!Stargazers) /\ w.pending \subseteq G!Stargazers /\ w.list # <<>>
      /\ w.pending \subseteq Passed(Place(w)) /\ Listed(w)
  BY GazerIs DEF WorkerOk, G!Claim, G!At, G!Running
<1>2. /\ worker' = [worker EXCEPT ![j] = v]
      /\ scanned' = IF flushed THEN scanned \cup pending ELSE scanned
      /\ UNCHANGED <<doc, latest, stop, mails, looked, exhausted, patchy, double>>
  BY DEF G!Claim, G!Is
<1>3. /\ Place(w) \in Nat /\ Place(w) + 1 <= Len(Stars)
      /\ u = Stars[Place(w) + 1] /\ u \in G!Stargazers
      /\ Passed(Place(w) + 1) = Passed(Place(w)) \cup {u} /\ u \notin Passed(Place(w))
  BY <1>1, ListAdvances, PassedGrows, StarsFacts
<1>4. /\ pending \subseteq G!Stargazers /\ rest \subseteq pending
      /\ scanned' \cup rest = scanned \cup pending
      /\ scanned' \subseteq scanned \cup pending
  BY <1>1, <1>2, <1>3
<1>5. /\ v \in GazerType /\ v.pc = "mail" /\ v.page = w.page /\ v.pending = rest
      /\ v.list = w.list /\ v.offset = 0 /\ v.index = w.index + 1
  <2> HIDE DEF rest
  <2>1. w.index + 1 \in Nat /\ rest \subseteq G!Stargazers
    BY <1>1, <1>4
  <2>2. \A n \in Nat : [[w EXCEPT !.index = n] EXCEPT !.pc = "mail", !.pending = rest] \in GazerType
    BY <1>1, <2>1 DEF GazerType, GazerPcs
  <2>3. v = [[w EXCEPT !.index = w.index + 1] EXCEPT !.pc = "mail", !.pending = rest]
    BY <1>1 DEF GazerType
  <2>4. v \in GazerType
    BY <2>1, <2>2, <2>3
  <2> QED
    BY <1>1, <2>3, <2>4 DEF GazerType
<1> HIDE DEF v, rest, flushed
<1>6. Place(v) = Place(w) /\ Listed(v)
  BY <1>1, <1>5 DEF Place, Listed
<1>7. WorkerOk(v)
  BY <1>1, <1>3, <1>4, <1>5, <1>6 DEF WorkerOk
<1>8. worker'[j] = v /\ \A k \in StarJobs \ {j} : worker'[k] = worker[k]
  BY <1>2, OthersStay
<1>9. Seen \subseteq Seen' /\ u \in Seen'
  BY <1>1, <1>2, <1>5, <1>8, SeenKept
<1>10. ASSUME ~patchy
       PROVE  /\ Aligned(j)' /\ Passed(w.index + 1) \subseteq Seen'
              /\ scanned' \cup rest \subseteq Seen'
  <2>1. /\ w.index = Place(w) /\ Passed(w.index) \subseteq Seen
        /\ scanned \subseteq Seen /\ w.pending \subseteq Seen
    BY <1>1, <1>10, NobodyLostIs DEF Aligned
  <2>2. w.index + 1 <= Len(Stars) /\ Passed(w.index + 1) \subseteq Seen'
    BY <1>3, <1>9, <2>1
  <2>3. scanned' \cup rest \subseteq Seen'
    BY <1>4, <1>9, <2>1
  <2> QED
    BY <1>5, <1>6, <1>8, <2>1, <2>2, <2>3 DEF Aligned
<1>11. ~patchy' =>
        /\ ~patchy /\ Seen \subseteq Seen'
        /\ doc[j].index <= Len(Stars) /\ Passed(doc[j].index) \subseteq Seen'
        /\ v.pc # "none" =>
             Aligned(j)' /\ Passed(v.index) \subseteq Seen' /\ v.pending \subseteq Seen'
        /\ scanned' \subseteq Seen' /\ (exhausted' => G!Stargazers \subseteq Seen')
  BY <1>1, <1>2, <1>5, <1>9, <1>10, NobodyLostIs
<1>12. ~double' =>
         /\ ~double
         /\ scanned \cup worker[j].pending \subseteq scanned' \cup v.pending
         /\ mails \subseteq mails' /\ \A m, n \in mails' : m.user = n.user => m = n
         /\ \A m \in mails' \ mails : m.user \in scanned' \cup v.pending
         /\ v.pc = "mail" =>
              /\ Head(v.list) \in scanned' \cup v.pending
              /\ \A m \in mails' : m.user # Head(v.list)
  <2> SUFFICES ASSUME ~double
               PROVE  /\ scanned \cup worker[j].pending \subseteq scanned' \cup v.pending
                      /\ \A m, n \in mails : m.user = n.user => m = n
                      /\ u \in scanned' \cup v.pending /\ \A m \in mails : m.user # u
    BY <1>2, <1>5
  <2>1. (\A m, n \in mails : m.user = n.user => m = n) /\ \A m \in mails : Claims(m.user)
    BY DEF GazersInv, NobodyTwice
  <2>2. \A m \in mails : m.user \in scanned \cup w.pending
    BY <1>1, <2>1, OneGazer
  <2>3. u \notin scanned \cup w.pending
    BY <1>1, <1>3
  <2> QED
    BY <1>4, <1>5, <2>1, <2>2, <2>3
<1>13. /\ doc' = [doc EXCEPT ![j] = doc[j]] /\ doc[j] \in GazerDoc /\ doc[j].status # "none"
       /\ latest' = latest
       /\ stop' \in [StarJobs -> BOOLEAN] /\ \A k \in StarJobs \ {j} : stop'[k] = stop[k]
       /\ scanned' \subseteq G!Stargazers /\ looked' \subseteq G!Stargazers
       /\ mails' \subseteq GazerMail /\ IsFiniteSet(mails')
       /\ exhausted' \in BOOLEAN /\ patchy' \in BOOLEAN /\ double' \in BOOLEAN
  BY <1>1, <1>2, <1>4, GazerIs
<1>14. v \in GazerType /\ WorkerOk(v) /\ worker' = [worker EXCEPT ![j] = v] /\ G!Running(j)
  BY <1>1, <1>2, <1>5, <1>7
<1> HIDE DEF u, pending
<1> QED
  BY <1>11, <1>12, <1>13, <1>14, GazerSteps

(* The contact looked for is kept once: its user is claimed and was not    *)
(* kept.                                                                   *)
LEMMA GazerMails ==
    ASSUME GazersInv, NEW j \in StarJobs, G!Mail(j)
    PROVE  GazersInv'
<1> DEFINE w == worker[j]
           u == Head(w.list)
           hit == G!Contact(u)
           mail == [user |-> u, job |-> j, id |-> G!Cardinality(mails)]
           v == [w EXCEPT !.pc = "user", !.list = Tail(@), !.tokenless = 0,
                          !.found = IF hit THEN @ + 1 ELSE @]
<1>1. /\ WorkerOk(w) /\ w \in GazerType /\ w.pc = "mail" /\ G!Running(j)
      /\ w.page \in Nat /\ w.page > 0 /\ w.offset = 0 /\ w.index \in Nat /\ w.found \in Nat
      /\ w.list \in Seq(G!Stargazers) /\ w.pending \subseteq G!Stargazers /\ w.list # <<>>
      /\ w.pending \subseteq Passed(Place(w) + 1)
  BY GazerIs DEF WorkerOk, G!Mail, G!At, G!Running
<1>2. /\ worker' = [worker EXCEPT ![j] = v] /\ G!Progress(j, w.index)
      /\ looked' = looked \cup {u} /\ mails' = IF hit THEN mails \cup {mail} ELSE mails
      /\ UNCHANGED <<latest, stop, scanned, exhausted, patchy, double>>
  BY GazerIs DEF G!Mail, G!Is
<1>3. /\ Place(w) \in Nat /\ Place(w) + 1 <= Len(Stars)
      /\ u = Stars[Place(w) + 1] /\ u \in G!Stargazers /\ Tail(w.list) \in Seq(G!Stargazers)
  BY <1>1, ListAdvances
<1>4. /\ v \in GazerType /\ v.pc = "user" /\ v.page = w.page /\ v.pending = w.pending
      /\ v.list = Tail(w.list) /\ v.offset = 0 /\ v.index = w.index
  <2> HIDE DEF hit
  <2>1. (IF hit THEN w.found + 1 ELSE w.found) \in Nat
    BY <1>1
  <2>2. \A n \in Nat, s \in Seq(G!Stargazers) :
          [w EXCEPT !.pc = "user", !.list = s, !.tokenless = 0, !.found = n] \in GazerType
    BY <1>1 DEF GazerType, GazerPcs
  <2>3. v = [w EXCEPT !.pc = "user", !.list = Tail(w.list), !.tokenless = 0,
                      !.found = IF hit THEN w.found + 1 ELSE w.found]
    BY <1>1 DEF GazerType
  <2>4. v \in GazerType
    BY <1>3, <2>1, <2>2, <2>3
  <2> QED
    BY <1>1, <2>3, <2>4 DEF GazerType
<1>5. /\ mails \subseteq mails' /\ \A m \in mails' \ mails : m = mail /\ mail.user = u
      /\ mails' \subseteq GazerMail /\ IsFiniteSet(mails')
  <2>1. mails \subseteq GazerMail /\ IsFiniteSet(mails)
    BY GazerIs
  <2>2. G!Cardinality(mails) \in Nat
    BY <2>1, FS_CardinalityType, GazerCounts
  <2>3. mail \in GazerMail
    BY <1>3, <2>2 DEF GazerMail
  <2>4. IsFiniteSet(mails \cup {mail})
    BY <2>1, FS_AddElement
  <2> QED
    BY <1>2, <2>1, <2>3, <2>4
<1> HIDE DEF v, hit, mail
<1>6. WorkerOk(v) /\ Place(v) = Place(w) + 1
  BY <1>1, <1>3, <1>4, ListAdvances DEF WorkerOk
<1>7. worker'[j] = v /\ \A k \in StarJobs \ {j} : worker'[k] = worker[k]
  BY <1>2, OthersStay
<1>8. Seen \subseteq Seen'
  BY <1>1, <1>2, <1>7, SeenKept
<1>9. PICK d \in GazerDoc :
        /\ doc' = [doc EXCEPT ![j] = d] /\ doc'[j] = d /\ d.status = doc[j].status
        /\ d.target = doc[j].target /\ d.index \in {w.index, doc[j].index}
  BY <1>1, <1>2, GazersProgress
<1>10. ASSUME ~patchy
       PROVE  /\ Aligned(j)' /\ w.index <= Len(Stars) /\ Passed(w.index) \subseteq Seen'
  <2>1. w.index = Place(w) + 1 /\ Passed(w.index) \subseteq Seen /\ w.index <= Len(Stars)
    BY <1>1, <1>10, NobodyLostIs DEF Aligned
  <2> QED
    BY <1>4, <1>6, <1>7, <1>8, <2>1 DEF Aligned
<1>11. ~patchy' =>
        /\ ~patchy /\ Seen \subseteq Seen'
        /\ d.index <= Len(Stars) /\ Passed(d.index) \subseteq Seen'
        /\ v.pc # "none" =>
             Aligned(j)' /\ Passed(v.index) \subseteq Seen' /\ v.pending \subseteq Seen'
        /\ scanned' \subseteq Seen' /\ (exhausted' => G!Stargazers \subseteq Seen')
  BY <1>1, <1>2, <1>4, <1>8, <1>9, <1>10, NobodyLostIs
<1>12. ~double' =>
         /\ ~double
         /\ scanned \cup worker[j].pending \subseteq scanned' \cup v.pending
         /\ mails \subseteq mails' /\ \A m, n \in mails' : m.user = n.user => m = n
         /\ \A m \in mails' \ mails : m.user \in scanned' \cup v.pending
         /\ v.pc = "mail" =>
              /\ Head(v.list) \in scanned' \cup v.pending
              /\ \A m \in mails' : m.user # Head(v.list)
  <2> SUFFICES ASSUME ~double
               PROVE  /\ \A m, n \in mails' : m.user = n.user => m = n
                      /\ \A m \in mails' \ mails : m.user \in scanned' \cup v.pending
    BY <1>2, <1>4, <1>5
  <2>1. /\ \A m, n \in mails : m.user = n.user => m = n
        /\ Claims(u) /\ \A m \in mails : m.user # u
    BY <1>1 DEF GazersInv, NobodyTwice
  <2>2. u \in scanned \cup w.pending
    BY <1>1, <2>1, OneGazer
  <2> QED
    BY <1>2, <1>4, <1>5, <2>1, <2>2
<1>13. /\ latest' = latest /\ d.status # "none"
       /\ stop' \in [StarJobs -> BOOLEAN] /\ \A k \in StarJobs \ {j} : stop'[k] = stop[k]
       /\ scanned' \subseteq G!Stargazers /\ looked' \subseteq G!Stargazers
       /\ exhausted' \in BOOLEAN /\ patchy' \in BOOLEAN /\ double' \in BOOLEAN
  BY <1>1, <1>2, <1>3, <1>9, GazerIs
<1> QED
  BY <1>1, <1>2, <1>4, <1>5, <1>6, <1>9, <1>11, <1>12, <1>13, GazerSteps

(* A thread dies: the claims that were pending are forgotten, and one      *)
(* looked for is left behind.                                              *)
LEMMA GazerDies ==
    ASSUME GazersInv, NEW j \in StarJobs, G!Running(j), G!Dies(j),
           UNCHANGED <<latest, scanned, mails, looked, exhausted>>
    PROVE  GazersInv'
<1> DEFINE w == worker[j]
           v == G!Idle
           d == [doc[j] EXCEPT !.status = "error"]
<1>1. /\ WorkerOk(w) /\ w \in GazerType /\ doc[j] \in GazerDoc
      /\ doc \in [StarJobs -> GazerDoc] /\ stop \in [StarJobs -> BOOLEAN]
  BY GazerIs
<1>2. /\ worker' = [worker EXCEPT ![j] = v] /\ doc' = [doc EXCEPT ![j] = d]
      /\ stop' = [stop EXCEPT ![j] = FALSE]
      /\ double' = (double \/ w.pending # {}) /\ patchy' = (patchy \/ w.pc = "mail")
      /\ UNCHANGED <<latest, scanned, mails, looked, exhausted>>
  BY <1>1 DEF G!Dies, G!Is, G!At
<1>3. v \in GazerType /\ WorkerOk(v) /\ v.pc = "none" /\ v.pending = {}
  BY IdleIsIdle
<1>4. d \in GazerDoc /\ d.index = doc[j].index /\ d.status # "none"
  <2>1. d \in GazerDoc
    BY <1>1, DocsAreDocs DEF GazerStatus
  <2> QED
    BY <1>1, <2>1 DEF GazerDoc
<1> HIDE DEF v, d
<1>5. worker'[j] = v /\ \A k \in StarJobs \ {j} : worker'[k] = worker[k]
  BY <1>2, OthersStay
<1>6. ~patchy' =>
        /\ ~patchy /\ Seen \subseteq Seen'
        /\ d.index <= Len(Stars) /\ Passed(d.index) \subseteq Seen'
        /\ v.pc # "none" =>
             Aligned(j)' /\ Passed(v.index) \subseteq Seen' /\ v.pending \subseteq Seen'
        /\ scanned' \subseteq Seen' /\ (exhausted' => G!Stargazers \subseteq Seen')
  <2> SUFFICES ASSUME ~patchy'
               PROVE  /\ ~patchy /\ Seen \subseteq Seen'
                      /\ d.index <= Len(Stars) /\ Passed(d.index) \subseteq Seen'
                      /\ scanned' \subseteq Seen' /\ (exhausted' => G!Stargazers \subseteq Seen')
    BY <1>3
  <2>1. ~patchy /\ w.pc # "mail"
    BY <1>2
  <2>2. Seen \subseteq Seen'
    BY <1>2, <1>5, <2>1, SeenKept
  <2>3. /\ doc[j].index <= Len(Stars) /\ Passed(doc[j].index) \subseteq Seen
        /\ scanned \subseteq Seen /\ (exhausted => G!Stargazers \subseteq Seen)
    BY <2>1, NobodyLostIs
  <2> QED
    BY <1>2, <1>4, <2>1, <2>2, <2>3
<1>7. ~double' =>
         /\ ~double
         /\ scanned \cup worker[j].pending \subseteq scanned' \cup v.pending
         /\ mails \subseteq mails' /\ \A m, n \in mails' : m.user = n.user => m = n
         /\ \A m \in mails' \ mails : m.user \in scanned' \cup v.pending
         /\ v.pc = "mail" =>
              /\ Head(v.list) \in scanned' \cup v.pending
              /\ \A m \in mails' : m.user # Head(v.list)
  <2>1. ~double => \A m, n \in mails : m.user = n.user => m = n
    BY DEF GazersInv, NobodyTwice
  <2> QED
    BY <1>2, <1>3, <2>1
<1>8. /\ latest' = latest
      /\ stop' \in [StarJobs -> BOOLEAN] /\ \A k \in StarJobs \ {j} : stop'[k] = stop[k]
      /\ scanned' \subseteq G!Stargazers /\ looked' \subseteq G!Stargazers
      /\ mails' \subseteq GazerMail /\ IsFiniteSet(mails')
      /\ exhausted' \in BOOLEAN /\ patchy' \in BOOLEAN /\ double' \in BOOLEAN
  BY <1>1, <1>2, GazerIs
<1> QED
  BY <1>2, <1>3, <1>4, <1>6, <1>7, <1>8, GazerSteps

LEMMA GazerHasNoToken ==
    ASSUME GazersInv, NEW j \in StarJobs, G!NoToken(j)
    PROVE  GazersInv'
<1> DEFINE w == worker[j]
           u == Head(w.list)
           v == [w EXCEPT !.pc = "user", !.list = Tail(@), !.tokenless = @ + 1]
<1>1. /\ WorkerOk(w) /\ w \in GazerType /\ w.pc = "mail" /\ G!Running(j)
      /\ w.page \in Nat /\ w.page > 0 /\ w.offset = 0 /\ w.tokenless \in Nat
      /\ w.list \in Seq(G!Stargazers) /\ w.pending \subseteq G!Stargazers /\ w.list # <<>>
      /\ w.pending \subseteq Passed(Place(w) + 1)
  BY GazerIs DEF WorkerOk, G!NoToken, G!At, G!Running
<1>2. CASE G!Dies(j)
  BY <1>1, <1>2, GazerDies DEF G!NoToken
<1>3. CASE ~(w.tokenless + 1 >= Patience)
  <2>1. /\ worker' = [worker EXCEPT ![j] = v] /\ patchy' = TRUE
        /\ UNCHANGED <<doc, latest, stop, scanned, mails, looked, exhausted, double>>
    BY <1>3 DEF G!NoToken, G!Is
  <2>2. /\ Place(w) \in Nat /\ Tail(w.list) \in Seq(G!Stargazers)
    BY <1>1, ListAdvances
  <2>3. /\ v \in GazerType /\ v.pc = "user" /\ v.page = w.page /\ v.pending = w.pending
        /\ v.list = Tail(w.list) /\ v.offset = 0
    <3>1. w.tokenless + 1 \in Nat
      BY <1>1
    <3> QED
      BY <1>1, <2>2, <3>1 DEF GazerType, GazerPcs
  <2> HIDE DEF v
  <2>4. WorkerOk(v)
    BY <1>1, <2>2, <2>3, ListAdvances DEF WorkerOk
  <2>5. ~double' =>
         /\ ~double
         /\ scanned \cup worker[j].pending \subseteq scanned' \cup v.pending
         /\ mails \subseteq mails' /\ \A m, n \in mails' : m.user = n.user => m = n
         /\ \A m \in mails' \ mails : m.user \in scanned' \cup v.pending
         /\ v.pc = "mail" =>
              /\ Head(v.list) \in scanned' \cup v.pending
              /\ \A m \in mails' : m.user # Head(v.list)
    <3>1. ~double => \A m, n \in mails : m.user = n.user => m = n
      BY DEF GazersInv, NobodyTwice
    <3> QED
      BY <2>1, <2>3, <3>1
  <2>6. /\ doc' = [doc EXCEPT ![j] = doc[j]] /\ doc[j] \in GazerDoc /\ doc[j].status # "none"
        /\ latest' = latest /\ patchy'
        /\ stop' \in [StarJobs -> BOOLEAN] /\ \A k \in StarJobs \ {j} : stop'[k] = stop[k]
        /\ scanned' \subseteq G!Stargazers /\ looked' \subseteq G!Stargazers
        /\ mails' \subseteq GazerMail /\ IsFiniteSet(mails')
        /\ exhausted' \in BOOLEAN /\ patchy' \in BOOLEAN /\ double' \in BOOLEAN
    BY <1>1, <2>1, GazerIs
  <2> QED
    BY <1>1, <2>1, <2>3, <2>4, <2>5, <2>6, GazerSteps
<1> QED
  BY <1>2, <1>3 DEF G!NoToken

LEMMA GazerEnds ==
    ASSUME GazersInv, NEW j \in StarJobs, G!End(j)
    PROVE  GazersInv'
<1> DEFINE w == worker[j]
           v == G!Idle
           s == CASE ~w.saw /\ w.index = w.first -> "error"
                  [] (w.saw \/ w.index # w.first) /\ w.found >= doc[j].target -> "completed"
                  [] OTHER -> "stopped"
           d == [doc[j] EXCEPT !.index = w.index, !.status = s]
<1>1. /\ WorkerOk(w) /\ w \in GazerType /\ w.pc = "end" /\ G!Running(j) /\ w.pending = {}
      /\ w.index \in Nat /\ doc[j] \in GazerDoc
      /\ doc \in [StarJobs -> GazerDoc] /\ stop \in [StarJobs -> BOOLEAN]
  BY GazerIs DEF WorkerOk, G!End, G!At, G!Running
<1>2. /\ worker' = [worker EXCEPT ![j] = v] /\ doc' = [doc EXCEPT ![j] = d]
      /\ scanned' = scanned /\ stop' = [stop EXCEPT ![j] = FALSE]
      /\ exhausted' = (exhausted \/ ~G!Enough(j))
      /\ UNCHANGED <<latest, mails, looked, patchy, double>>
  BY <1>1 DEF G!End, G!Is
<1>3. v \in GazerType /\ WorkerOk(v) /\ v.pc = "none" /\ v.pending = {}
  BY IdleIsIdle
<1>4. d \in GazerDoc /\ d.index = w.index /\ d.status # "none"
  <2>1. s \in {"error", "completed", "stopped"}
    OBVIOUS
  <2> HIDE DEF s
  <2>2. d \in GazerDoc
    BY <1>1, <2>1, DocsAreDocs DEF GazerStatus
  <2>3. d.index = w.index /\ d.status = s
    BY <1>1 DEF GazerDoc
  <2> QED
    BY <2>1, <2>2, <2>3
<1> HIDE DEF v, d
<1>5. worker'[j] = v /\ \A k \in StarJobs \ {j} : worker'[k] = worker[k]
  BY <1>2, OthersStay
<1>6. Seen \subseteq Seen'
  BY <1>1, <1>2, <1>5, SeenKept
<1>7. ~patchy' =>
        /\ ~patchy /\ Seen \subseteq Seen'
        /\ d.index <= Len(Stars) /\ Passed(d.index) \subseteq Seen'
        /\ v.pc # "none" =>
             Aligned(j)' /\ Passed(v.index) \subseteq Seen' /\ v.pending \subseteq Seen'
        /\ scanned' \subseteq Seen' /\ (exhausted' => G!Stargazers \subseteq Seen')
  <2> SUFFICES ASSUME ~patchy
               PROVE  /\ w.index <= Len(Stars) /\ Passed(w.index) \subseteq Seen'
                      /\ scanned \subseteq Seen' /\ (exhausted' => G!Stargazers \subseteq Seen')
    BY <1>2, <1>3, <1>4, <1>6
  <2>1. /\ Aligned(j) /\ w.index <= Len(Stars) /\ Passed(w.index) \subseteq Seen
        /\ scanned \subseteq Seen /\ (exhausted => G!Stargazers \subseteq Seen)
    BY <1>1, NobodyLostIs
  <2>2. ~G!Enough(j) => w.index = Len(Stars)
    BY <1>1, <2>1 DEF Aligned
  <2>3. w.index = Len(Stars) => Passed(w.index) = G!Stargazers
    BY <1>1, PassedGrows
  <2> QED
    BY <1>2, <1>6, <2>1, <2>2, <2>3
<1>8. ~double' =>
         /\ ~double
         /\ scanned \cup worker[j].pending \subseteq scanned' \cup v.pending
         /\ mails \subseteq mails' /\ \A m, n \in mails' : m.user = n.user => m = n
         /\ \A m \in mails' \ mails : m.user \in scanned' \cup v.pending
         /\ v.pc = "mail" =>
              /\ Head(v.list) \in scanned' \cup v.pending
              /\ \A m \in mails' : m.user # Head(v.list)
  <2>1. ~double => \A m, n \in mails : m.user = n.user => m = n
    BY DEF GazersInv, NobodyTwice
  <2> QED
    BY <1>1, <1>2, <1>3, <2>1
<1>9. /\ latest' = latest
      /\ stop' \in [StarJobs -> BOOLEAN] /\ \A k \in StarJobs \ {j} : stop'[k] = stop[k]
      /\ scanned' \subseteq G!Stargazers /\ looked' \subseteq G!Stargazers
      /\ mails' \subseteq GazerMail /\ IsFiniteSet(mails')
      /\ exhausted' \in BOOLEAN /\ patchy' \in BOOLEAN /\ double' \in BOOLEAN
  BY <1>1, <1>2, GazerIs
<1> QED
  BY <1>1, <1>2, <1>3, <1>4, <1>7, <1>8, <1>9, GazerSteps

(* A restart: all threads are gone at once. *)
LEMMA GazersCrash ==
    ASSUME GazersInv, G!Crash
    PROVE  GazersInv'
<1>1. /\ worker' = [j \in StarJobs |-> G!Idle] /\ stop' = [j \in StarJobs |-> FALSE]
      /\ double' = (double \/ \E j \in StarJobs : worker[j].pending # {})
      /\ patchy' = (patchy \/ \E j \in StarJobs : worker[j].pc = "mail")
      /\ UNCHANGED <<doc, latest, scanned, mails, looked, exhausted>>
  BY DEF G!Crash, G!At
<1>2. \A j \in StarJobs : worker'[j] = G!Idle
  BY <1>1
<1>3. GazersTyped'
  BY <1>1, IdleIsIdle DEF GazersInv, GazersTyped
<1>4. \A j \in StarJobs : WorkerOk(worker'[j]) /\ ~G!Running(j)'
  BY <1>2, IdleIsIdle DEF G!Running
<1>5. ASSUME ~patchy'
      PROVE  NobodyLost'
  <2>1. ~patchy /\ AtMail = {}
    BY <1>1, <1>5 DEF AtMail
  <2>2. Seen \subseteq Seen'
    BY <1>1, <2>1 DEF Seen
  <2> QED
    BY <1>1, <1>4, <2>1, <2>2 DEF GazersInv, NobodyLost
<1>6. ASSUME ~double'
      PROVE  NobodyTwice'
  <2>1. ~double /\ \A j \in StarJobs : worker[j].pending = {}
    BY <1>1, <1>6
  <2>2. \A u : Claims(u) => Claims(u)'
    BY <1>1, <2>1 DEF Claims
  <2>3. \A j \in StarJobs : worker'[j].pc # "mail"
    BY <1>2, IdleIsIdle
  <2> QED
    BY <1>1, <1>4, <2>1, <2>2, <2>3 DEF GazersInv, NobodyTwice
<1> QED
  BY <1>3, <1>4, <1>5, <1>6 DEF GazersInv, NobodyLost, NobodyTwice

LEMMA GazersStep == GazersInv /\ [G!Next]_(G!vars) => GazersInv'
<1> SUFFICES ASSUME GazersInv, [G!Next]_(G!vars)
             PROVE  GazersInv'
  OBVIOUS
<1>1. ASSUME NEW j \in StarJobs, NEW target \in Targets, G!Start(j, target)
      PROVE  GazersInv'
  BY <1>1, GazerStarts
<1>2. ASSUME NEW j \in StarJobs, G!Stop(j)
      PROVE  GazersInv'
  BY <1>2, GazerIsStopped
<1>3. ASSUME NEW j \in StarJobs, G!Resume(j)
      PROVE  GazersInv'
  BY <1>3, GazerResumes
<1>4. ASSUME NEW j \in StarJobs, G!Fetch(j)
      PROVE  GazersInv'
  BY <1>4, GazerFetches
<1>5. ASSUME NEW j \in StarJobs, G!PageDone(j)
      PROVE  GazersInv'
  BY <1>5, GazersPageDone
<1>6. ASSUME NEW j \in StarJobs, G!Claim(j)
      PROVE  GazersInv'
  BY <1>6, GazerPassesBy, GazerClaims
<1>7. ASSUME NEW j \in StarJobs, G!Mail(j)
      PROVE  GazersInv'
  BY <1>7, GazerMails
<1>8. ASSUME NEW j \in StarJobs, G!NoToken(j)
      PROVE  GazersInv'
  BY <1>8, GazerHasNoToken
<1>9. ASSUME NEW j \in StarJobs, G!Fails(j)
      PROVE  GazersInv'
  BY <1>9, GazerDies DEF G!Fails
<1>10. ASSUME NEW j \in StarJobs, G!End(j)
       PROVE  GazersInv'
  BY <1>10, GazerEnds
<1>11. CASE G!Crash
  BY <1>11, GazersCrash
<1>12. CASE UNCHANGED G!vars
  BY <1>12 DEF G!vars, GazersInv, GazersTyped, NobodyLost, NobodyTwice, Claims, Aligned, Seen,
       AtMail, G!Running, G!Enough
<1> QED
  BY <1>1, <1>2, <1>3, <1>4, <1>5, <1>6, <1>7, <1>8, <1>9, <1>10, <1>11, <1>12 DEF G!Next

LEMMA GazersHold == GazersInv => G!ContactsAreUnique /\ G!NobodyIsMissed
<1> SUFFICES ASSUME GazersInv
             PROVE  G!ContactsAreUnique /\ G!NobodyIsMissed
  OBVIOUS
<1>1. G!ContactsAreUnique
  BY DEF GazersInv, NobodyTwice, G!ContactsAreUnique
<1>2. ASSUME exhausted, ~patchy, \A j \in StarJobs : ~G!Running(j)
      PROVE  looked = G!Stargazers
  <2>1. AtMail = {}
    BY <1>2 DEF AtMail, G!Running
  <2> QED
    BY <1>2, <2>1 DEF GazersInv, GazersTyped, NobodyLost, Seen
<1> QED
  BY <1>1, <1>2 DEF G!NobodyIsMissed

(* Whatever part moves, the jobs take steps of their own or rest.          *)
LEMMA GazersKeepTheirSpec == AllSpec => G!Spec
<1>1. AllInit => G!Init
  BY DEF AllInit
<1>2. [AllNext]_allVars => [G!Next]_(G!vars)
  BY DEF AllNext, allVars, Paying, Authenticating, Limiting, Teaming, Using, Booking,
         Gazing, starVars, G!Next, G!vars
<1> QED
  BY <1>1, <1>2, PTL DEF AllSpec, G!Spec

(* EverybodyOnce: nobody is taken up twice, unless two jobs ran at a time  *)
(* or one died with claims pending; and when a job came to the end of the  *)
(* list everybody has been looked for, unless a contact was given up or a  *)
(* job resumed beyond its index.                                           *)
THEOREM EverybodyStaysOnce == AllSpec => []EverybodyOnce
<1>1. GazersInv => EverybodyOnce
  BY GazersHold DEF EverybodyOnce
<1> QED
  BY <1>1, GazersBegin, GazersStep, GazersKeepTheirSpec, PTL DEF G!Spec
====
