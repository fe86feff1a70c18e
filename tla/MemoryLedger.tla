---------------------------- MODULE MemoryLedger ----------------------------
(***************************************************************************)
(* The credit ledger of src/billing/store.py when it runs without Mongo,   *)
(* on dictionaries of the process.  The operations test what the Mongo     *)
(* variant tests, so where they succeed they are the actions of            *)
(* CreditLedger; but nothing takes back what an operation did before it    *)
(* raises.  Calls come one after the other: what threads that call the     *)
(* store at once can do to its dictionaries is not modelled.               *)
(***************************************************************************)
EXTENDS CreditLedger

MemoryGrant(a, g, n, expires) == GrantCredits(a, g, n, expires)

MemoryReserve(a, j, n) == ReserveCredits(a, j, n)

MemoryCommit(a, j, n) == CommitDebit(a, j, n)

(* What _consume_lots leaves of the lots before it raises because they are  *)
(* short: nothing of those that have not expired.                          *)
Drained(a) ==
    [g \in Grants |-> IF g \in LotsOf(a) /\ Live(g)
                        THEN [lots[g] EXCEPT !.remaining = 0] ELSE lots[g]]

(* Mutant: the hold is gone already when the lots turn out to be short. *)
CommitRaisesLate(a, j, n) ==
    LET extra == Positive(n - reservations[j].amount) IN
    /\ reservations[j].status = "active"
    /\ reservations[j].account = a
    /\ available[a] >= extra
    /\ LotsAfterTaking(a, n) = {}
    /\ available' = [available EXCEPT ![a] = @ - extra]
    /\ reserved' = [reserved EXCEPT ![a] = @ - reservations[j].amount]
    /\ lots' = Drained(a)
    /\ UNCHANGED <<reservations, ledger, now>>

(* commit_debit with lots that are short: the claim is released, the       *)
(* credits above the hold and the lots stay taken.                         *)
CommitRaises(a, j, n) ==
    LET extra == Positive(n - reservations[j].amount) IN
    /\ ~ \E e \in ledger : e.type = "debit" /\ e.about = j
    /\ reservations[j].status = "active"
    /\ reservations[j].account = a
    /\ available[a] >= extra
    /\ LotsAfterTaking(a, n) = {}
    /\ available' = [available EXCEPT ![a] = @ - extra]
    /\ lots' = Drained(a)
    /\ UNCHANGED <<reserved, reservations, ledger, now>>

MemoryRelease(a, j) == ReleaseReservation(a, j)

MemoryNext ==
    \/ \E a \in Accounts, g \in Grants, n \in Amount, t \in 0..MaxTime :
         MemoryGrant(a, g, n, t)
    \/ \E a \in Accounts, j \in Jobs, n \in Amount : MemoryReserve(a, j, n)
    \/ \E a \in Accounts, j \in Jobs, n \in Amount : MemoryCommit(a, j, n)
    \/ \E a \in Accounts, j \in Jobs, n \in Amount : CommitRaises(a, j, n)
    \/ \E a \in Accounts, j \in Jobs : MemoryRelease(a, j)
    \/ Tick

MemorySpec == Init /\ [][MemoryNext]_vars

-----------------------------------------------------------------------------
(* Whatever raises half way, the reserved balance is still what the active *)
(* holds set aside, and no credit is in the wallet that was not granted,   *)
(* or was spent: the wallet may only have lost some.                       *)
NothingIsMadeUp ==
    /\ ReservedMatchesHolds
    /\ \A a \in Accounts :
         /\ available[a] >= 0
         /\ available[a] + reserved[a] <=
              Total(Booked("grant", a), BookedAmount)
                - Total(Booked("debit", a), BookedAmount)
=============================================================================
