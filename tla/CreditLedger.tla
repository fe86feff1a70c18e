---- MODULE CreditLedger ----
(***************************************************************************)
(* The credit wallet, the credit lots, the reservations and the ledger of  *)
(* src/billing/store.py, Mongo variant.  Every operation that moves        *)
(* credits runs in one transaction, so it is one action here: it happens   *)
(* whole or, when it raises, not at all.  Each operation also looks for    *)
(* its own earlier result (the ledger's idempotency key, the status of     *)
(* the reservation) before the transaction and again inside it; a call     *)
(* that finds it returns it and changes nothing, so only the negation of   *)
(* that test shows here, as a guard.  For the same reason a status         *)
(* "reserving" or "committing", written and overwritten inside one         *)
(* transaction, is never seen.  A wallet that does not exist yet reads as  *)
(* an empty one.                                                           *)
(***************************************************************************)
EXTENDS Integers, FiniteSets

CONSTANTS
    Accounts,      \* billing accounts
    Jobs,          \* job ids, each with at most one reservation document
    Grants,        \* idempotency keys of grants; a grant creates one lot
    NoAccount,     \* owner of a lot or reservation that does not exist yet
    MaxCredits,    \* bound: largest amount of one grant, hold or debit
    MaxVersion,    \* bound: how often one job's credits are reserved again
    MaxTime        \* bound: the clock stops here

ASSUME LedgerAssumption ==
    /\ IsFiniteSet(Accounts) /\ IsFiniteSet(Jobs) /\ IsFiniteSet(Grants)
    /\ NoAccount \notin Accounts
    /\ MaxCredits \in Nat /\ MaxVersion \in Nat /\ MaxTime \in Nat

VARIABLES
    available,     \* credit_wallets: available_credits of an account
    reserved,      \* credit_wallets: reserved_credits of an account
    lots,          \* credit_lots, by the grant that created the lot
    reservations,  \* credit_reservations, by job
    ledger,        \* credit_ledger: the entries written so far
    now            \* the clock lots expire by

vars == <<available, reserved, lots, reservations, ledger, now>>

Amount == 1..MaxCredits

Lot == [owner: Accounts \cup {NoAccount}, remaining: 0..MaxCredits,
        expires: 0..MaxTime]

Reservation ==
    [account: Accounts \cup {NoAccount}, amount: 0..MaxCredits,
     status: {"none", "active", "committed", "released"},
     version: 0..MaxVersion]

(* An entry's idempotency key is its type, the grant or job it is about    *)
(* and, for reserve and release, the version of the reservation.           *)
Entry == [type: {"grant", "reserve", "debit", "refund", "release"},
          account: Accounts, about: Grants \cup Jobs,
          version: 0..MaxVersion, amount: 0..MaxCredits]

-----------------------------------------------------------------------------
(* Sums.  Total(S, f) adds f[x] over S, written as a count of credits so   *)
(* that it is a cardinality: credit <<x, k>> exists for every k <= f[x].   *)

Credits(S, f) == {c \in S \X Amount : c[2] <= f[c[1]]}

Total(S, f) == Cardinality(Credits(S, f))

LotsOf(a) == {g \in Grants : lots[g].owner = a}

Remaining == [g \in Grants |-> lots[g].remaining]

HoldsOf(a) ==
    {j \in Jobs : /\ reservations[j].account = a
                  /\ reservations[j].status = "active"}

Held == [j \in Jobs |-> reservations[j].amount]

Booked(type, a) == {e \in ledger : e.type = type /\ e.account = a}

BookedAmount == [e \in ledger |-> e.amount]

Positive(n) == IF n > 0 THEN n ELSE 0

-----------------------------------------------------------------------------
Init ==
    /\ available = [a \in Accounts |-> 0]
    /\ reserved = [a \in Accounts |-> 0]
    /\ lots = [g \in Grants |->
                 [owner |-> NoAccount, remaining |-> 0, expires |-> 0]]
    /\ reservations = [j \in Jobs |->
                 [account |-> NoAccount, amount |-> 0, status |-> "none",
                  version |-> 0]]
    /\ ledger = {}
    /\ now = 0

(* Mutant: the grant does not look for its idempotency key. *)
GrantAgain(a, g, n, expires) ==
    /\ lots[g].owner \in {NoAccount, a}
    /\ lots' = [lots EXCEPT ![g] =
                  [owner |-> a, remaining |-> n, expires |-> expires]]
    /\ available' = [available EXCEPT ![a] = @ + n]
    /\ ledger' = ledger \cup
         {[type |-> "grant", account |-> a, about |-> g, version |-> 0,
           amount |-> n]}
    /\ UNCHANGED <<reserved, reservations, now>>

(* grant_credits: a lot and its credits, once per idempotency key. *)
GrantCredits(a, g, n, expires) ==
    /\ lots[g].owner = NoAccount
    /\ lots' = [lots EXCEPT ![g] =
                  [owner |-> a, remaining |-> n, expires |-> expires]]
    /\ available' = [available EXCEPT ![a] = @ + n]
    /\ ledger' = ledger \cup
         {[type |-> "grant", account |-> a, about |-> g, version |-> 0,
           amount |-> n]}
    /\ UNCHANGED <<reserved, reservations, now>>

(* Mutant: a hold is replaced while it is active. *)
ReserveOver(a, j, n) ==
    /\ reservations[j].status # "committed"
    /\ reservations[j].account \in {NoAccount, a}
    /\ reservations[j].version < MaxVersion
    /\ available[a] >= n
    /\ available' = [available EXCEPT ![a] = @ - n]
    /\ reserved' = [reserved EXCEPT ![a] = @ + n]
    /\ reservations' = [reservations EXCEPT ![j] =
          [account |-> a, amount |-> n, status |-> "active",
           version |-> @.version + 1]]
    /\ ledger' = ledger \cup
         {[type |-> "reserve", account |-> a, about |-> j,
           version |-> reservations[j].version + 1, amount |-> n]}
    /\ UNCHANGED <<lots, now>>

(* reserve_credits: a first hold, or a new version of a released one, when *)
(* the wallet has the credits.                                             *)
ReserveCredits(a, j, n) ==
    LET version == reservations[j].version + 1 IN
    /\ reservations[j].status \notin {"active", "committed"}
    /\ reservations[j].account \in {NoAccount, a}
    /\ version <= MaxVersion
    /\ available[a] >= n
    /\ available' = [available EXCEPT ![a] = @ - n]
    /\ reserved' = [reserved EXCEPT ![a] = @ + n]
    /\ reservations' = [reservations EXCEPT ![j] =
          [account |-> a, amount |-> n, status |-> "active",
           version |-> version]]
    /\ ledger' = ledger \cup
         {[type |-> "reserve", account |-> a, about |-> j,
           version |-> version, amount |-> n]}
    /\ UNCHANGED <<lots, now>>

Live(g) == lots[g].expires > now

(* _consume_lots: what may remain of the lots after taking n credits from  *)
(* the account's unexpired ones, the soonest to expire first.  No result   *)
(* exists when those lots are short.                                       *)
LotsAfterTaking(a, n) ==
    {left \in [Grants -> 0..MaxCredits] :
       /\ \A g \in Grants : left[g] <= lots[g].remaining
       /\ \A g \in Grants :
            left[g] < lots[g].remaining => lots[g].owner = a /\ Live(g)
       /\ Total(LotsOf(a), left) = Total(LotsOf(a), Remaining) - n
       /\ \A g, h \in LotsOf(a) :
            /\ Live(g) /\ lots[g].expires < lots[h].expires
            /\ left[h] < lots[h].remaining
            => left[g] = 0}

(* commit_debit: the hold pays for the job.  A debit above the hold takes  *)
(* the difference from the wallet, one below gives the difference back.    *)
CommitDebit(a, j, n) ==
    LET hold == reservations[j].amount
        extra == Positive(n - hold)
        refund == Positive(hold - n)
        debit == [type |-> "debit", account |-> a, about |-> j,
                  version |-> 0, amount |-> n]
        back == [type |-> "refund", account |-> a, about |-> j,
                 version |-> 0, amount |-> refund]
    IN
    /\ ~ \E e \in ledger : e.type = "debit" /\ e.about = j
    /\ reservations[j].status = "active"
    /\ reservations[j].account = a
    /\ available[a] >= extra
    /\ \E left \in LotsAfterTaking(a, n) :
         lots' = [g \in Grants |-> [lots[g] EXCEPT !.remaining = left[g]]]
    /\ available' = [available EXCEPT ![a] = @ - extra + refund]
    /\ reserved' = [reserved EXCEPT ![a] = @ - hold]
    /\ reservations' = [reservations EXCEPT ![j].status = "committed"]
    /\ ledger' = ledger \cup (IF refund > 0 THEN {debit, back} ELSE {debit})
    /\ UNCHANGED now

(* Mutant: a settled hold is given back as well. *)
ReleaseSettled(a, j) ==
    LET hold == reservations[j] IN
    /\ hold.account = a
    /\ available' = [available EXCEPT ![a] = @ + hold.amount]
    /\ reserved' = [reserved EXCEPT ![a] = @ - hold.amount]
    /\ reservations' = [reservations EXCEPT ![j].status = "released"]
    /\ ledger' = ledger \cup
         {[type |-> "release", account |-> a, about |-> j,
           version |-> hold.version, amount |-> hold.amount]}
    /\ UNCHANGED <<lots, now>>

(* release_reservation: the hold goes back to the wallet. *)
ReleaseReservation(a, j) ==
    LET hold == reservations[j] IN
    /\ hold.status = "active"
    /\ hold.account = a
    /\ available' = [available EXCEPT ![a] = @ + hold.amount]
    /\ reserved' = [reserved EXCEPT ![a] = @ - hold.amount]
    /\ reservations' = [reservations EXCEPT ![j].status = "released"]
    /\ ledger' = ledger \cup
         {[type |-> "release", account |-> a, about |-> j,
           version |-> hold.version, amount |-> hold.amount]}
    /\ UNCHANGED <<lots, now>>

(* Time passes; the lots whose date it reaches are dead from now on. *)
Tick ==
    /\ now < MaxTime
    /\ now' = now + 1
    /\ UNCHANGED <<available, reserved, lots, reservations, ledger>>

Next ==
    \/ \E a \in Accounts, g \in Grants, n \in Amount, t \in 0..MaxTime :
         GrantCredits(a, g, n, t)
    \/ \E a \in Accounts, j \in Jobs, n \in Amount : ReserveCredits(a, j, n)
    \/ \E a \in Accounts, j \in Jobs, n \in Amount : CommitDebit(a, j, n)
    \/ \E a \in Accounts, j \in Jobs : ReleaseReservation(a, j)
    \/ Tick

Spec == Init /\ [][Next]_vars

-----------------------------------------------------------------------------
TypeOK ==
    /\ available \in [Accounts -> Int]
    /\ reserved \in [Accounts -> Int]
    /\ lots \in [Grants -> Lot]
    /\ reservations \in [Jobs -> Reservation]
    /\ ledger \in SUBSET Entry
    /\ now \in 0..MaxTime

(* No sequence of grants, holds, debits and releases overdraws a wallet.   *)
NoOverdraft == \A a \in Accounts : available[a] >= 0

(* The reserved balance of a wallet is exactly what its active holds set   *)
(* aside: no hold is dropped, counted twice or settled twice.              *)
ReservedMatchesHolds ==
    \A a \in Accounts : reserved[a] = Total(HoldsOf(a), Held)

(* A wallet's two balances together are what is left in its lots, expired  *)
(* lots included: nothing takes an expired lot out of the wallet.          *)
WalletMatchesLots ==
    \A a \in Accounts :
        available[a] + reserved[a] = Total(LotsOf(a), Remaining)

(* Replaying the ledger gives the wallet: grants less debits, whatever was *)
(* reserved, released or refunded on the way.                              *)
LedgerExplainsWallet ==
    \A a \in Accounts :
        available[a] + reserved[a] =
            Total(Booked("grant", a), BookedAmount)
              - Total(Booked("debit", a), BookedAmount)

(* The four accounts of the same credits - the balances, the active holds, *)
(* the lots and the ledger - never disagree, and none goes below zero.     *)
WalletAddsUp ==
    /\ NoOverdraft /\ ReservedMatchesHolds
    /\ WalletMatchesLots /\ LedgerExplainsWallet

(* Every reserve entry of a job is answered by one release entry of the    *)
(* same version and amount, except the last one while it is held or once   *)
(* it is debited; and a debit never stands beside a release of the same    *)
(* version.                                                                *)
EveryHoldSettledOnce ==
    \A j \in Jobs, v \in 1..MaxVersion :
        LET entries(type) == {e \in ledger : /\ e.type = type
                                             /\ e.about = j
                                             /\ e.version = v}
            open == /\ reservations[j].status \in {"active", "committed"}
                    /\ reservations[j].version = v
        IN  /\ Cardinality(entries("reserve")) =
                 IF v <= reservations[j].version THEN 1 ELSE 0
            /\ {e.amount : e \in entries("release")} =
                 IF open THEN {} ELSE {e.amount : e \in entries("reserve")}

(* As long as no credit has expired in a lot, a held job can always be     *)
(* debited for what it holds: the lots cannot be short.  (Once credits     *)
(* expire they can be, and the commit raises.)                             *)
HoldsAreCovered ==
    \A j \in Jobs :
        LET a == reservations[j].account IN
        /\ reservations[j].status = "active"
        /\ \A g \in LotsOf(a) : Live(g) \/ lots[g].remaining = 0
        => LotsAfterTaking(a, reservations[j].amount) # {}

(* Each job's reservation behaves as CreditHold says, with one debit entry *)
(* exactly when the hold is committed.                                     *)
DebitsOf(j) ==
    Cardinality({e \in ledger : e.type = "debit" /\ e.about = j})

JobHold(j) == INSTANCE CreditHold
    WITH hold <- reservations[j].status, debits <- DebitsOf(j)

ImplementsCreditHold ==
    /\ \A j \in Jobs : JobHold(j)!HoldInit
    /\ [][\A j \in Jobs :
            [JobHold(j)!HoldNext]_(JobHold(j)!holdVars)]_vars
====
