---- MODULE CreditLedgerProofs ----
(***************************************************************************)
(* Proofs about CreditLedger and MemoryLedger, for all accounts, jobs,     *)
(* grants and bounds.                                                      *)
(***************************************************************************)
EXTENDS MemoryLedger, FiniteSetTheorems, TLAPS

USE LedgerAssumption

-----------------------------------------------------------------------------
(* Lemmas about the sums the invariants are stated with. *)

(* A sum over a finite set is a natural number. *)
LEMMA TotalNat ==
    ASSUME NEW S, NEW f, IsFiniteSet(S)
    PROVE  IsFiniteSet(Credits(S, f)) /\ Total(S, f) \in Nat
<1>1. IsFiniteSet(Amount)
  BY FS_Interval, 1 \in Int, MaxCredits \in Int DEF Amount
<1>2. IsFiniteSet(S \X Amount)
  BY <1>1, FS_Product
<1>3. Credits(S, f) \subseteq S \X Amount
  BY DEF Credits
<1>4. IsFiniteSet(Credits(S, f))
  BY <1>2, <1>3, FS_Subset
<1> QED
  BY <1>4, FS_CardinalityType DEF Total

(* Only the values on the set matter. *)
LEMMA TotalSame ==
    ASSUME NEW S, NEW f, NEW g, \A x \in S : f[x] = g[x]
    PROVE  Total(S, f) = Total(S, g)
<1>1. Credits(S, f) = Credits(S, g)
  BY DEF Credits
<1> QED
  BY <1>1 DEF Total

(* The sum over nothing is zero. *)
LEMMA TotalEmpty ==
    ASSUME NEW f
    PROVE  Total({}, f) = 0
<1>1. Credits({}, f) = {}
  BY DEF Credits
<1> QED
  BY <1>1, FS_EmptySet DEF Total

(* A new element adds its value. *)
LEMMA TotalAdd ==
    ASSUME NEW S, NEW f, NEW x, IsFiniteSet(S), x \notin S,
           f[x] \in 0..MaxCredits
    PROVE  Total(S \cup {x}, f) = Total(S, f) + f[x]
<1> DEFINE T == {x} \X (1..f[x])
<1>1. Credits(S \cup {x}, f) = Credits(S, f) \cup T
  <2>1. ASSUME NEW c \in Credits(S \cup {x}, f)
        PROVE  c \in Credits(S, f) \cup T
    BY <2>1 DEF Credits, Amount
  <2>2. ASSUME NEW c \in Credits(S, f)
        PROVE  c \in Credits(S \cup {x}, f)
    BY <2>2 DEF Credits
  <2>3. ASSUME NEW c \in T
        PROVE  c \in Credits(S \cup {x}, f)
    BY <2>3 DEF Credits, Amount
  <2> QED
    BY <2>1, <2>2, <2>3
<1>2. Credits(S, f) \cap T = {}
  BY DEF Credits
<1>3. /\ IsFiniteSet(1..f[x])
      /\ Cardinality(1..f[x]) = f[x]
  <2>1. \A n \in Int : /\ IsFiniteSet(1..n)
                        /\ Cardinality(1..n) = IF 1 > n THEN 0 ELSE n - 1 + 1
    BY FS_Interval, 1 \in Int
  <2>2. f[x] \in Int /\ f[x] >= 0
    OBVIOUS
  <2> QED
    BY <2>1, <2>2
<1>4. IsFiniteSet({x}) /\ Cardinality({x}) = 1
  BY FS_Singleton
<1>5. IsFiniteSet(T) /\ Cardinality(T) = f[x]
  <2>1. IsFiniteSet(T) /\ Cardinality(T) = Cardinality({x}) * Cardinality(1..f[x])
    BY <1>3, <1>4, FS_Product
  <2> QED
    BY <2>1, <1>3, <1>4
<1>6. IsFiniteSet(Credits(S, f)) /\ Cardinality(Credits(S, f)) \in Nat
  BY TotalNat DEF Total
<1>7. Cardinality(Credits(S, f) \cup T)
        = Cardinality(Credits(S, f)) + Cardinality(T)
            - Cardinality(Credits(S, f) \cap T)
  BY <1>5, <1>6, FS_Union
<1>8. Cardinality(Credits(S, f) \cap T) = 0
  BY <1>2, FS_EmptySet
<1> HIDE DEF T
<1>9. Cardinality(Credits(S \cup {x}, f)) = Cardinality(Credits(S, f)) + f[x]
  <2>1. f[x] \in Int
    OBVIOUS
  <2>2. Cardinality(Credits(S \cup {x}, f)) = Cardinality(Credits(S, f) \cup T)
    BY <1>1
  <2>3. Cardinality(Credits(S, f) \cup T) = Cardinality(Credits(S, f)) + f[x]
    BY <2>1, <1>5, <1>6, <1>7, <1>8
  <2> QED
    BY <2>2, <2>3
<1> QED
  BY <1>9 DEF Total

-----------------------------------------------------------------------------
(* Types. *)

(* The constants, as the provers use them. *)
LEMMA ConstantsAreSmall ==
    /\ MaxCredits \in Nat /\ MaxVersion \in Nat /\ MaxTime \in Nat
    /\ NoAccount \notin Accounts
BY DEF LedgerAssumption

(* Every step keeps the types.  The one step with a computed amount is the *)
(* debit: its refund is part of a hold, so it is an amount too.            *)
LEMMA TypePreserved ==
    ASSUME TypeOK, [Next]_vars
    PROVE  TypeOK'
<1> USE ConstantsAreSmall
<1>1. ASSUME NEW a \in Accounts, NEW g \in Grants, NEW n \in Amount,
             NEW t \in 0..MaxTime, GrantCredits(a, g, n, t)
      PROVE  TypeOK'
  <2>1. [owner |-> a, remaining |-> n, expires |-> t] \in Lot
    BY DEF Lot, Amount
  <2>2. [type |-> "grant", account |-> a, about |-> g, version |-> 0,
         amount |-> n] \in Entry
    BY DEF Entry, Amount
  <2> QED
    BY <1>1, <2>1, <2>2 DEF GrantCredits, TypeOK, Amount
<1>2. ASSUME NEW a \in Accounts, NEW j \in Jobs, NEW n \in Amount,
             ReserveCredits(a, j, n)
      PROVE  TypeOK'
  <2> DEFINE v == reservations[j].version + 1
  <2>1. v \in 0..MaxVersion
    BY <1>2 DEF ReserveCredits, TypeOK, Reservation
  <2>2. [account |-> a, amount |-> n, status |-> "active", version |-> v]
          \in Reservation
    BY <2>1 DEF Reservation, Amount
  <2>3. [type |-> "reserve", account |-> a, about |-> j, version |-> v,
         amount |-> n] \in Entry
    BY <2>1 DEF Entry, Amount
  <2> HIDE DEF v
  <2>4. /\ available' = [available EXCEPT ![a] = @ - n]
        /\ reserved' = [reserved EXCEPT ![a] = @ + n]
        /\ reservations' = [reservations EXCEPT ![j] =
              [account |-> a, amount |-> n, status |-> "active",
               version |-> v]]
        /\ ledger' = ledger \cup
             {[type |-> "reserve", account |-> a, about |-> j,
               version |-> v, amount |-> n]}
        /\ UNCHANGED <<lots, now>>
    BY <1>2 DEF ReserveCredits, v
  <2> QED
    BY <2>2, <2>3, <2>4 DEF TypeOK, Amount
<1>3. ASSUME NEW a \in Accounts, NEW j \in Jobs, NEW n \in Amount,
             CommitDebit(a, j, n)
      PROVE  TypeOK'
  <2> DEFINE hold == reservations[j].amount
             refund == Positive(hold - n)
             debit == [type |-> "debit", account |-> a, about |-> j,
                       version |-> 0, amount |-> n]
             back == [type |-> "refund", account |-> a, about |-> j,
                      version |-> 0, amount |-> refund]
  <2>1. hold \in 0..MaxCredits /\ refund \in 0..MaxCredits
    BY DEF TypeOK, Reservation, Positive, Amount
  <2>2. debit \in Entry /\ back \in Entry
    BY <2>1 DEF Entry, Amount
  <2>3. ledger' \in SUBSET Entry
    BY <1>3, <2>2 DEF CommitDebit, TypeOK
  <2>4. lots' \in [Grants -> Lot]
    BY <1>3 DEF CommitDebit, TypeOK, Lot, LotsAfterTaking
  <2>5. available' \in [Accounts -> Int] /\ reserved' \in [Accounts -> Int]
    BY <1>3, <2>1 DEF CommitDebit, TypeOK, Positive, Amount
  <2>6. reservations' \in [Jobs -> Reservation] /\ now' \in 0..MaxTime
    BY <1>3 DEF CommitDebit, TypeOK, Reservation
  <2> QED
    BY <2>3, <2>4, <2>5, <2>6 DEF TypeOK
<1>4. ASSUME NEW a \in Accounts, NEW j \in Jobs, ReleaseReservation(a, j)
      PROVE  TypeOK'
  <2> DEFINE hold == reservations[j]
  <2>1. [type |-> "release", account |-> a, about |-> j,
         version |-> hold.version, amount |-> hold.amount] \in Entry
    BY DEF TypeOK, Reservation, Entry
  <2> QED
    BY <1>4, <2>1 DEF ReleaseReservation, TypeOK, Reservation
<1>5. CASE Tick
  BY <1>5 DEF Tick, TypeOK
<1>6. CASE UNCHANGED vars
  BY <1>6 DEF vars, TypeOK
<1> QED
  BY <1>1, <1>2, <1>3, <1>4, <1>5, <1>6 DEF Next

(* The store's documents always have the shape and the amounts the code    *)
(* gives them.                                                             *)
THEOREM TypesAreKept == Spec => []TypeOK
<1>1. Init => TypeOK
  BY ConstantsAreSmall DEF Init, TypeOK, Lot, Reservation
<1>2. TypeOK /\ [Next]_vars => TypeOK'
  BY TypePreserved
<1> QED
  BY <1>1, <1>2, PTL DEF Spec

-----------------------------------------------------------------------------
(* The inductive invariant.  Each balance invariant speaks of sums over    *)
(* sets of documents, so an inductive step also has to know that a         *)
(* document an action adds was not in its sum before: a granted lot and    *)
(* its ledger entry appear together.                                       *)

GrantsAreBooked ==
    /\ IsFiniteSet(ledger)
    /\ \A e \in ledger :
          e.type = "grant" =>
             e.about \in Grants /\ lots[e.about].owner # NoAccount

(* What both variants of the store keep.                                   *)
BooksInv ==
    /\ TypeOK
    /\ GrantsAreBooked
    /\ NoOverdraft
    /\ ReservedMatchesHolds

LedgerInv ==
    /\ BooksInv
    /\ WalletMatchesLots
    /\ LedgerExplainsWallet

Wallet(a) == available[a] + reserved[a]
Backing(a) == Total(LotsOf(a), Remaining)
Spendable(a) ==
    Total(Booked("grant", a), BookedAmount)
      - Total(Booked("debit", a), BookedAmount)

(* Wallet, lots and ledger change by the same credits.                     *)
MoveTogether ==
    \A b \in Accounts :
        /\ Wallet(b)' - Wallet(b) = Backing(b)' - Backing(b)
        /\ Wallet(b)' - Wallet(b) = Spendable(b)' - Spendable(b)

(* The sets the sums range over are finite. *)
LEMMA FiniteSums ==
    ASSUME BooksInv, NEW a
    PROVE  /\ IsFiniteSet(LotsOf(a)) /\ IsFiniteSet(HoldsOf(a))
           /\ \A type : IsFiniteSet(Booked(type, a))
<1>1. LotsOf(a) \subseteq Grants /\ HoldsOf(a) \subseteq Jobs
  BY DEF LotsOf, HoldsOf
<1>2. \A type : Booked(type, a) \subseteq ledger
  BY DEF Booked
<1> QED
  BY <1>1, <1>2, FS_Subset DEF LedgerAssumption, BooksInv, GrantsAreBooked

(* Each sum is a natural number. *)
NaturalBooks(a) ==
    /\ Total(LotsOf(a), Remaining) \in Nat
    /\ Total(Booked("grant", a), BookedAmount) \in Nat
    /\ Total(Booked("debit", a), BookedAmount) \in Nat

LEMMA NaturalSums ==
    ASSUME BooksInv, NEW a
    PROVE  NaturalBooks(a)
BY FiniteSums, TotalNat DEF NaturalBooks

(* The same of the state after a step. *)
LEMMA NaturalBooksAgain ==
    ASSUME BooksInv', NEW a
    PROVE  NaturalBooks(a)'
<1>1. LotsOf(a)' \subseteq Grants /\ IsFiniteSet(ledger')
  BY DEF LotsOf, BooksInv, GrantsAreBooked
<1>2. \A type : Booked(type, a)' \subseteq ledger'
  BY DEF Booked
<1>3. /\ IsFiniteSet(LotsOf(a)')
      /\ \A type : IsFiniteSet(Booked(type, a)')
  BY <1>1, <1>2, FS_Subset DEF LedgerAssumption
<1>4. /\ Total(LotsOf(a)', Remaining') \in Nat
      /\ \A type : Total(Booked(type, a)', BookedAmount') \in Nat
  BY <1>3, TotalNat
<1>5. /\ Total(LotsOf(a), Remaining)' = Total(LotsOf(a)', Remaining')
      /\ Total(Booked("grant", a), BookedAmount)'
           = Total(Booked("grant", a)', BookedAmount')
      /\ Total(Booked("debit", a), BookedAmount)'
           = Total(Booked("debit", a)', BookedAmount')
  BY DEF Total, Credits
<1> QED
  BY <1>4, <1>5 DEF NaturalBooks

(* Entries of another type or account change nothing in a booked sum ...   *)
LEMMA BookedSame ==
    ASSUME NEW type, NEW a, ledger \subseteq ledger',
           Booked(type, a)' = Booked(type, a)
    PROVE  Total(Booked(type, a), BookedAmount)'
             = Total(Booked(type, a), BookedAmount)
<1> DEFINE B == Booked(type, a)
<1>1. Total(B, BookedAmount') = Total(B, BookedAmount)
  BY TotalSame DEF Booked, BookedAmount
<1>2. Total(B, BookedAmount)' = Total(B', BookedAmount')
  BY DEF Total, Credits
<1> QED
  BY <1>1, <1>2

(* ... and a new entry of them adds its amount. *)
LEMMA BookedMore ==
    ASSUME BooksInv, NEW type, NEW a, ledger \subseteq ledger',
           NEW e \in ledger', e \notin ledger, e.amount \in 0..MaxCredits,
           Booked(type, a)' = Booked(type, a) \cup {e}
    PROVE  Total(Booked(type, a), BookedAmount)'
             = Total(Booked(type, a), BookedAmount) + e.amount
<1> DEFINE B == Booked(type, a)
<1>1. Total(B, BookedAmount') = Total(B, BookedAmount)
  BY TotalSame DEF Booked, BookedAmount
<1>2. e \notin B /\ IsFiniteSet(B)
  BY FiniteSums DEF Booked
<1>3. BookedAmount'[e] = e.amount
  BY DEF BookedAmount
<1>4. Total(B, BookedAmount)' = Total(B', BookedAmount')
  BY DEF Total, Credits
<1>5. B' = B \cup {e}
  OBVIOUS
<1> HIDE DEF B
<1>6. Total(B \cup {e}, BookedAmount')
        = Total(B, BookedAmount') + BookedAmount'[e]
  BY <1>2, <1>3, TotalAdd
<1> QED
  BY <1>1, <1>3, <1>4, <1>5, <1>6 DEF B

(* The same for the holds of an account: another account's are untouched, *)
LEMMA HeldSame ==
    ASSUME NEW a, HoldsOf(a)' = HoldsOf(a),
           \A j \in HoldsOf(a) : Held'[j] = Held[j]
    PROVE  Total(HoldsOf(a), Held)' = Total(HoldsOf(a), Held)
<1>1. Total(HoldsOf(a), Held') = Total(HoldsOf(a), Held)
  BY TotalSame
<1>2. Total(HoldsOf(a), Held)' = Total(HoldsOf(a)', Held')
  BY DEF Total, Credits
<1> QED
  BY <1>1, <1>2

(* one more hold adds what it holds, *)
LEMMA HeldMore ==
    ASSUME BooksInv, NEW a, NEW j, j \notin HoldsOf(a),
           HoldsOf(a)' = HoldsOf(a) \cup {j},
           Held'[j] \in 0..MaxCredits,
           \A i \in HoldsOf(a) : Held'[i] = Held[i]
    PROVE  Total(HoldsOf(a), Held)' = Total(HoldsOf(a), Held) + Held'[j]
<1> DEFINE H == HoldsOf(a)
<1>1. Total(H, Held') = Total(H, Held)
  BY TotalSame
<1>2. IsFiniteSet(H)
  BY FiniteSums
<1>3. Total(H, Held)' = Total(H', Held')
  BY DEF Total, Credits
<1>4. H' = H \cup {j} /\ j \notin H
  OBVIOUS
<1> HIDE DEF H
<1>5. Total(H \cup {j}, Held') = Total(H, Held') + Held'[j]
  BY <1>2, <1>4, TotalAdd
<1> QED
  BY <1>1, <1>3, <1>4, <1>5 DEF H

(* and one hold less takes away what it held. *)
LEMMA HeldLess ==
    ASSUME BooksInv, NEW a, NEW j, j \in HoldsOf(a),
           HoldsOf(a)' = HoldsOf(a) \ {j}, Held[j] \in 0..MaxCredits,
           \A i \in HoldsOf(a) \ {j} : Held'[i] = Held[i]
    PROVE  Total(HoldsOf(a), Held)' = Total(HoldsOf(a), Held) - Held[j]
<1> DEFINE H == HoldsOf(a)
           Rest == H \ {j}
<1>1. Total(Rest, Held') = Total(Rest, Held)
  BY TotalSame
<1>2. IsFiniteSet(Rest)
  <2>1. IsFiniteSet(H)
    BY FiniteSums
  <2> QED
    BY <2>1, FS_RemoveElement
<1>3. Total(H, Held)' = Total(H', Held')
  BY DEF Total, Credits
<1>4. H' = Rest /\ H = Rest \cup {j} /\ j \notin Rest
  OBVIOUS
<1>5. Total(Rest, Held) \in Nat
  BY <1>2, TotalNat
<1> HIDE DEF H, Rest
<1>6. Total(Rest \cup {j}, Held) = Total(Rest, Held) + Held[j]
  BY <1>2, <1>4, TotalAdd
<1>7. Held[j] \in Int
  OBVIOUS
<1>8. Total(H, Held) = Total(Rest, Held) + Held[j]
  BY <1>4, <1>6
<1>9. Total(H, Held)' = Total(Rest, Held)
  BY <1>1, <1>3, <1>4
<1> QED
  BY <1>5, <1>7, <1>8, <1>9 DEF H

(* Lots an action leaves as they are for an account keep their sum, ... *)
LEMMA LotsSame ==
    ASSUME NEW a, LotsOf(a)' = LotsOf(a),
           \A g \in LotsOf(a) : Remaining'[g] = Remaining[g]
    PROVE  Total(LotsOf(a), Remaining)' = Total(LotsOf(a), Remaining)
<1>1. Total(LotsOf(a), Remaining') = Total(LotsOf(a), Remaining)
  BY TotalSame
<1>2. Total(LotsOf(a), Remaining)' = Total(LotsOf(a)', Remaining')
  BY DEF Total, Credits
<1> QED
  BY <1>1, <1>2

(* ... and a new lot adds what it holds. *)
LEMMA LotsMore ==
    ASSUME BooksInv, NEW a, NEW g, g \notin LotsOf(a),
           LotsOf(a)' = LotsOf(a) \cup {g},
           Remaining'[g] \in 0..MaxCredits,
           \A h \in LotsOf(a) : Remaining'[h] = Remaining[h]
    PROVE  Total(LotsOf(a), Remaining)'
             = Total(LotsOf(a), Remaining) + Remaining'[g]
<1> DEFINE L == LotsOf(a)
<1>1. Total(L, Remaining') = Total(L, Remaining)
  BY TotalSame
<1>2. IsFiniteSet(L)
  BY FiniteSums
<1>3. Total(L, Remaining)' = Total(L', Remaining')
  BY DEF Total, Credits
<1>4. L' = L \cup {g} /\ g \notin L
  OBVIOUS
<1> HIDE DEF L
<1>5. Total(L \cup {g}, Remaining') = Total(L, Remaining') + Remaining'[g]
  BY <1>2, <1>4, TotalAdd
<1> QED
  BY <1>1, <1>3, <1>4, <1>5 DEF L

-----------------------------------------------------------------------------
(* Each operation keeps the invariant. *)

(* grant_credits: the lot, the wallet and the entry grow by the same n.    *)
LEMMA GrantKeeps ==
    ASSUME BooksInv, TypeOK', NEW a \in Accounts, NEW g \in Grants,
           NEW n \in Amount, NEW t \in 0..MaxTime, GrantCredits(a, g, n, t)
    PROVE  BooksInv' /\ MoveTogether
<1> USE ConstantsAreSmall
<1> DEFINE e == [type |-> "grant", account |-> a, about |-> g,
                 version |-> 0, amount |-> n]
<1>0. /\ TypeOK /\ n \in Int /\ n > 0 /\ n \in 0..MaxCredits
      /\ available' = [available EXCEPT ![a] = @ + n]
      /\ UNCHANGED <<reserved, reservations>>
      /\ ledger' = ledger \cup {e}
      /\ lots[g].owner = NoAccount
      /\ lots' = [lots EXCEPT ![g] =
                    [owner |-> a, remaining |-> n, expires |-> t]]
  BY DEF GrantCredits, BooksInv, Amount
<1>1. e \notin ledger
  BY <1>0 DEF BooksInv, GrantsAreBooked
<1>2. GrantsAreBooked'
  <2>1. IsFiniteSet(ledger')
    BY <1>0, FS_AddElement DEF BooksInv, GrantsAreBooked
  <2> QED
    BY <2>1, <1>0 DEF BooksInv, GrantsAreBooked, TypeOK
<1>3. NoOverdraft'
  BY <1>0 DEF BooksInv, NoOverdraft, TypeOK
<1>4. ReservedMatchesHolds'
  BY <1>0, HeldSame DEF BooksInv, ReservedMatchesHolds, HoldsOf, Held
<1>5. ASSUME NEW b \in Accounts, b # a
      PROVE  /\ Total(LotsOf(b), Remaining)' = Total(LotsOf(b), Remaining)
             /\ available'[b] + reserved'[b] = available[b] + reserved[b]
             /\ Total(Booked("grant", b), BookedAmount)'
                  = Total(Booked("grant", b), BookedAmount)
  <2>1. LotsOf(b)' = LotsOf(b)
    BY <1>0, <1>5 DEF LotsOf, TypeOK
  <2>2. \A h \in LotsOf(b) : Remaining'[h] = Remaining[h]
    BY <1>0, <1>5 DEF LotsOf, Remaining, TypeOK
  <2>3. Booked("grant", b)' = Booked("grant", b)
    BY <1>0, <1>5 DEF Booked
  <2>4. ledger \subseteq ledger'
    BY <1>0
  <2> QED
    BY <1>0, <1>5, <2>1, <2>2, <2>3, <2>4, LotsSame, BookedSame DEF TypeOK
<1>6. /\ Total(LotsOf(a), Remaining)' = Total(LotsOf(a), Remaining) + n
      /\ available'[a] + reserved'[a] = available[a] + reserved[a] + n
      /\ Total(Booked("grant", a), BookedAmount)'
           = Total(Booked("grant", a), BookedAmount) + n
  <2>1. LotsOf(a)' = LotsOf(a) \cup {g} /\ g \notin LotsOf(a)
    BY <1>0 DEF LotsOf, TypeOK
  <2>2. /\ Remaining'[g] = n
        /\ \A h \in LotsOf(a) : Remaining'[h] = Remaining[h]
    BY <1>0, <2>1 DEF LotsOf, Remaining, TypeOK
  <2>3. Total(LotsOf(a), Remaining)' = Total(LotsOf(a), Remaining) + n
    BY <1>0, <2>1, <2>2, LotsMore
  <2>4. Booked("grant", a)' = Booked("grant", a) \cup {e}
    BY <1>0 DEF Booked
  <2>5. e.amount = n /\ e.amount \in 0..MaxCredits /\ e \in ledger'
    BY <1>0
  <2>6. ledger \subseteq ledger'
    BY <1>0
  <2>7. Total(Booked("grant", a), BookedAmount)'
          = Total(Booked("grant", a), BookedAmount) + n
    <3> HIDE DEF e
    <3> QED
      BY <1>1, <2>4, <2>5, <2>6, BookedMore
  <2>8. available'[a] + reserved'[a] = available[a] + reserved[a] + n
    BY <1>0 DEF TypeOK
  <2> QED
    BY <2>3, <2>7, <2>8
<1>8. \A b \in Accounts : Total(Booked("debit", b), BookedAmount)'
                            = Total(Booked("debit", b), BookedAmount)
  <2> SUFFICES ASSUME NEW b \in Accounts
               PROVE  Total(Booked("debit", b), BookedAmount)'
                        = Total(Booked("debit", b), BookedAmount)
    OBVIOUS
  <2>1. Booked("debit", b)' = Booked("debit", b)
    BY <1>0 DEF Booked
  <2> QED
    BY <1>0, <2>1, BookedSame
<1>9. MoveTogether
  <2> SUFFICES ASSUME NEW b \in Accounts
               PROVE  /\ Wallet(b)' - Wallet(b) = Backing(b)' - Backing(b)
                      /\ Wallet(b)' - Wallet(b) = Spendable(b)' - Spendable(b)
    BY DEF MoveTogether
  <2>1. NaturalBooks(b)
    BY NaturalSums
  <2>2. CASE b = a
    BY <1>0, <1>6, <1>8, <2>1, <2>2
    DEF NaturalBooks, Wallet, Backing, Spendable, TypeOK
  <2>3. CASE b # a
    BY <1>0, <1>5, <1>8, <2>1, <2>3
    DEF NaturalBooks, Wallet, Backing, Spendable, TypeOK
  <2> QED
    BY <2>2, <2>3
<1> QED
  BY <1>2, <1>3, <1>4, <1>9 DEF BooksInv

(* An operation that books no grant and no debit, and leaves the lots and  *)
(* the sum of each wallet's two balances as they are, keeps what the       *)
(* wallets are compared with.                                              *)
LEMMA MovesWithinWalletsKeep ==
    ASSUME BooksInv, TypeOK', UNCHANGED lots, NEW e,
           ledger' = ledger \cup {e}, e.type \notin {"grant", "debit"},
           \A b \in Accounts :
              available'[b] + reserved'[b] = available[b] + reserved[b]
    PROVE  GrantsAreBooked' /\ MoveTogether
<1>1. GrantsAreBooked'
  <2>1. IsFiniteSet(ledger')
    BY FS_AddElement DEF BooksInv, GrantsAreBooked
  <2> QED
    BY <2>1 DEF BooksInv, GrantsAreBooked
<1>2. \A b \in Accounts : Backing(b)' = Backing(b)
  BY LotsSame DEF Backing, LotsOf, Remaining
<1>3. ASSUME NEW b \in Accounts, NEW type \in {"grant", "debit"}
      PROVE  Total(Booked(type, b), BookedAmount)'
               = Total(Booked(type, b), BookedAmount)
  <2>1. Booked(type, b)' = Booked(type, b)
    BY DEF Booked
  <2> QED
    BY <2>1, BookedSame
<1>4. MoveTogether
  <2> SUFFICES ASSUME NEW b \in Accounts
               PROVE  /\ Wallet(b)' - Wallet(b) = Backing(b)' - Backing(b)
                      /\ Wallet(b)' - Wallet(b) = Spendable(b)' - Spendable(b)
    BY DEF MoveTogether
  <2>1. NaturalBooks(b)
    BY NaturalSums
  <2> QED
    BY <1>2, <1>3, <2>1
    DEF NaturalBooks, Wallet, Backing, Spendable, BooksInv, TypeOK
<1> QED
  BY <1>1, <1>4

(* reserve_credits: one more hold, of exactly what leaves the balance. *)
LEMMA ReserveKeeps ==
    ASSUME BooksInv, TypeOK', NEW a \in Accounts, NEW j \in Jobs,
           NEW n \in Amount, ReserveCredits(a, j, n)
    PROVE  BooksInv' /\ MoveTogether
<1> USE ConstantsAreSmall
<1>0. /\ TypeOK /\ n \in Int /\ n > 0 /\ n \in 0..MaxCredits
      /\ available[a] >= n
      /\ available' = [available EXCEPT ![a] = @ - n]
      /\ reserved' = [reserved EXCEPT ![a] = @ + n]
      /\ reservations[j].status # "active"
      /\ reservations' = [reservations EXCEPT ![j] =
            [account |-> a, amount |-> n, status |-> "active",
             version |-> reservations[j].version + 1]]
      /\ UNCHANGED lots
  BY DEF ReserveCredits, BooksInv, Amount
<1>1. NoOverdraft'
  BY <1>0 DEF BooksInv, NoOverdraft, TypeOK
<1>2. ReservedMatchesHolds'
  <2> SUFFICES ASSUME NEW b \in Accounts
               PROVE  reserved'[b] = Total(HoldsOf(b), Held)'
    BY DEF ReservedMatchesHolds
  <2>1. reserved[b] = Total(HoldsOf(b), Held)
    BY DEF BooksInv, ReservedMatchesHolds
  <2>2. CASE b # a
    <3>1. HoldsOf(b)' = HoldsOf(b)
      BY <1>0, <2>2 DEF HoldsOf, TypeOK
    <3>2. \A i \in HoldsOf(b) : Held'[i] = Held[i]
      BY <1>0, <2>2 DEF HoldsOf, Held, TypeOK
    <3> QED
      BY <1>0, <2>1, <2>2, <3>1, <3>2, HeldSame DEF TypeOK
  <2>3. CASE b = a
    <3>1. j \notin HoldsOf(b) /\ HoldsOf(b)' = HoldsOf(b) \cup {j}
      BY <1>0, <2>3 DEF HoldsOf, TypeOK
    <3>2. /\ Held'[j] = n
          /\ \A i \in HoldsOf(b) : Held'[i] = Held[i]
      BY <1>0, <3>1 DEF HoldsOf, Held, TypeOK
    <3> QED
      BY <1>0, <2>1, <2>3, <3>1, <3>2, HeldMore DEF TypeOK
  <2> QED
    BY <2>2, <2>3
<1>3. \A b \in Accounts :
         available'[b] + reserved'[b] = available[b] + reserved[b]
  BY <1>0 DEF TypeOK
<1> DEFINE e == [type |-> "reserve", account |-> a, about |-> j,
                 version |-> reservations[j].version + 1, amount |-> n]
<1>4. ledger' = ledger \cup {e} /\ e.type \notin {"grant", "debit"}
  BY DEF ReserveCredits
<1> HIDE DEF e
<1>5. GrantsAreBooked' /\ MoveTogether
  BY <1>0, <1>3, <1>4, MovesWithinWalletsKeep
<1> QED
  BY <1>1, <1>2, <1>5 DEF BooksInv

(* A hold that is no longer active leaves the sum of the holds, and the    *)
(* reserved balance of its account gives up the same amount.               *)
LEMMA SettlingKeeps ==
    ASSUME BooksInv, NEW a \in Accounts, NEW j \in Jobs,
           NEW status \in {"committed", "released"},
           reservations[j].status = "active", reservations[j].account = a,
           reserved' = [reserved EXCEPT ![a] = @ - reservations[j].amount],
           reservations' = [reservations EXCEPT ![j].status = status]
    PROVE  ReservedMatchesHolds'
<1> USE ConstantsAreSmall
<1>0. TypeOK /\ reservations[j].amount \in 0..MaxCredits
  BY DEF BooksInv, TypeOK, Reservation
<1> SUFFICES ASSUME NEW b \in Accounts
             PROVE  reserved'[b] = Total(HoldsOf(b), Held)'
  BY DEF ReservedMatchesHolds
<1>1. reserved[b] = Total(HoldsOf(b), Held)
  BY DEF BooksInv, ReservedMatchesHolds
<1>2. Held' = Held
  BY <1>0 DEF Held, TypeOK, Reservation
<1>3. CASE b # a
  <2>1. HoldsOf(b)' = HoldsOf(b)
    BY <1>0, <1>3 DEF HoldsOf, TypeOK, Reservation
  <2> QED
    BY <1>0, <1>1, <1>2, <1>3, <2>1, HeldSame DEF TypeOK
<1>4. CASE b = a
  <2>1. j \in HoldsOf(b) /\ HoldsOf(b)' = HoldsOf(b) \ {j}
    BY <1>0, <1>4 DEF HoldsOf, TypeOK, Reservation
  <2>2. Held[j] = reservations[j].amount
    BY DEF Held
  <2>3. Total(HoldsOf(b), Held)' = Total(HoldsOf(b), Held) - Held[j]
    BY <1>0, <1>2, <2>1, <2>2, HeldLess
  <2>4. reserved'[b] = reserved[b] - reservations[j].amount
    BY <1>0, <1>4 DEF TypeOK
  <2> QED
    BY <1>1, <2>2, <2>3, <2>4
<1> QED
  BY <1>3, <1>4

(* release_reservation: the hold goes back to the balance it came from. *)
LEMMA ReleaseKeeps ==
    ASSUME BooksInv, TypeOK', NEW a \in Accounts, NEW j \in Jobs,
           ReleaseReservation(a, j)
    PROVE  BooksInv' /\ MoveTogether
<1> USE ConstantsAreSmall
<1> DEFINE n == reservations[j].amount
<1>0. /\ TypeOK /\ n \in 0..MaxCredits
      /\ reservations[j].status = "active" /\ reservations[j].account = a
      /\ available' = [available EXCEPT ![a] = @ + n]
      /\ reserved' = [reserved EXCEPT ![a] = @ - n]
      /\ reservations' = [reservations EXCEPT ![j].status = "released"]
      /\ UNCHANGED lots
  BY DEF ReleaseReservation, BooksInv, TypeOK, Reservation
<1>1. NoOverdraft'
  BY <1>0 DEF BooksInv, NoOverdraft, TypeOK
<1>2. ReservedMatchesHolds'
  BY <1>0, SettlingKeeps
<1>3. \A b \in Accounts :
         available'[b] + reserved'[b] = available[b] + reserved[b]
  BY <1>0 DEF TypeOK
<1> DEFINE e == [type |-> "release", account |-> a, about |-> j,
                 version |-> reservations[j].version, amount |-> n]
<1>4. ledger' = ledger \cup {e} /\ e.type \notin {"grant", "debit"}
  BY DEF ReleaseReservation
<1> HIDE DEF e
<1>5. GrantsAreBooked' /\ MoveTogether
  BY <1>0, <1>3, <1>4, MovesWithinWalletsKeep
<1> QED
  BY <1>1, <1>2, <1>5 DEF BooksInv

(* commit_debit: the hold, the difference to the debit and the lots change *)
(* by amounts that add up to the debit.                                    *)
LEMMA CommitKeeps ==
    ASSUME BooksInv, TypeOK', NEW a \in Accounts, NEW j \in Jobs,
           NEW n \in Amount, CommitDebit(a, j, n)
    PROVE  BooksInv' /\ MoveTogether
<1> USE ConstantsAreSmall
<1> DEFINE hold == reservations[j].amount
           extra == Positive(n - hold)
           refund == Positive(hold - n)
           debit == [type |-> "debit", account |-> a, about |-> j,
                     version |-> 0, amount |-> n]
           back == [type |-> "refund", account |-> a, about |-> j,
                    version |-> 0, amount |-> refund]
<1>0. /\ TypeOK /\ n \in Int /\ n > 0 /\ n \in 0..MaxCredits
      /\ hold \in 0..MaxCredits
      /\ reservations[j].status = "active" /\ reservations[j].account = a
      /\ available[a] >= extra
      /\ available' = [available EXCEPT ![a] = @ - extra + refund]
      /\ reserved' = [reserved EXCEPT ![a] = @ - hold]
      /\ reservations' = [reservations EXCEPT ![j].status = "committed"]
  BY DEF CommitDebit, BooksInv, TypeOK, Reservation, Amount
<1>1. /\ extra \in Nat /\ refund \in Nat
      /\ refund - extra = hold - n
  BY <1>0 DEF Positive
<1>2. PICK left \in LotsAfterTaking(a, n) :
         lots' = [g \in Grants |-> [lots[g] EXCEPT !.remaining = left[g]]]
  BY DEF CommitDebit
<1>3. /\ debit \notin ledger
      /\ ledger' = ledger \cup {debit} \/ ledger' = ledger \cup {debit, back}
  BY DEF CommitDebit
<1>4. debit.type = "debit" /\ debit.account = a /\ debit.amount = n
  OBVIOUS
<1>5. back.type = "refund"
  OBVIOUS
<1> HIDE DEF hold, extra, refund, debit, back
<1>6. NoOverdraft'
  BY <1>0, <1>1 DEF BooksInv, NoOverdraft, TypeOK
<1>7. ReservedMatchesHolds'
  BY <1>0, SettlingKeeps DEF hold
<1>8. \A g \in Grants : lots'[g].owner = lots[g].owner
  BY <1>0, <1>2 DEF TypeOK, Lot
<1>9. GrantsAreBooked'
  <2>1. IsFiniteSet(ledger')
    <3>1. IsFiniteSet(ledger \cup {debit})
      BY FS_AddElement DEF BooksInv, GrantsAreBooked
    <3>2. IsFiniteSet((ledger \cup {debit}) \cup {back})
      BY <3>1, FS_AddElement
    <3>3. ledger \cup {debit, back} = (ledger \cup {debit}) \cup {back}
      OBVIOUS
    <3> QED
      BY <1>3, <3>1, <3>2, <3>3
  <2> QED
    BY <2>1, <1>3, <1>4, <1>5, <1>8 DEF BooksInv, GrantsAreBooked
<1>10. ASSUME NEW b \in Accounts, b # a
       PROVE  /\ Total(LotsOf(b), Remaining)' = Total(LotsOf(b), Remaining)
              /\ available'[b] + reserved'[b] = available[b] + reserved[b]
              /\ Total(Booked("debit", b), BookedAmount)'
                   = Total(Booked("debit", b), BookedAmount)
  <2>1. LotsOf(b)' = LotsOf(b)
    BY <1>8 DEF LotsOf
  <2>2. \A g \in LotsOf(b) : Remaining'[g] = Remaining[g]
    <3> SUFFICES ASSUME NEW g \in LotsOf(b)
                 PROVE  Remaining'[g] = Remaining[g]
      OBVIOUS
    <3>1. g \in Grants /\ lots[g].owner = b /\ lots[g].remaining \in Nat
      BY <1>0 DEF LotsOf, TypeOK, Lot
    <3>2. left[g] \in Nat /\ left[g] = lots[g].remaining
      BY <1>2, <1>10, <3>1 DEF LotsAfterTaking
    <3> QED
      BY <1>0, <1>2, <3>1, <3>2 DEF Remaining, TypeOK, Lot
  <2>3. Booked("debit", b)' = Booked("debit", b)
    BY <1>3, <1>4, <1>5, <1>10 DEF Booked
  <2>4. ledger \subseteq ledger'
    BY <1>3
  <2> QED
    BY <1>0, <1>10, <2>1, <2>2, <2>3, <2>4, LotsSame, BookedSame DEF TypeOK
<1>11. /\ Total(LotsOf(a), Remaining)' = Total(LotsOf(a), Remaining) - n
       /\ available'[a] + reserved'[a] = available[a] + reserved[a] - n
       /\ Total(Booked("debit", a), BookedAmount)'
            = Total(Booked("debit", a), BookedAmount) + n
  <2>1. Total(LotsOf(a), left) = Total(LotsOf(a), Remaining) - n
    BY <1>2 DEF LotsAfterTaking
  <2>2. LotsOf(a)' = LotsOf(a)
    BY <1>8 DEF LotsOf
  <2>3. Total(LotsOf(a), Remaining') = Total(LotsOf(a), left)
    <3>1. \A g \in LotsOf(a) : Remaining'[g] = left[g]
      BY <1>0, <1>2 DEF LotsOf, Remaining, TypeOK, Lot
    <3> QED
      BY <3>1, TotalSame
  <2>4. Total(LotsOf(a), Remaining)' = Total(LotsOf(a)', Remaining')
    BY DEF Total, Credits
  <2>5. Booked("debit", a)' = Booked("debit", a) \cup {debit}
    BY <1>3, <1>4, <1>5 DEF Booked
  <2>6. ledger \subseteq ledger' /\ debit \in ledger'
    BY <1>3
  <2>7. Total(Booked("debit", a), BookedAmount)'
          = Total(Booked("debit", a), BookedAmount) + n
    BY <1>0, <1>3, <1>4, <2>5, <2>6, BookedMore
  <2>8. available'[a] + reserved'[a] = available[a] + reserved[a] - n
    BY <1>0, <1>1 DEF TypeOK
  <2> QED
    BY <2>1, <2>2, <2>3, <2>4, <2>7, <2>8
<1>13. \A b \in Accounts : Total(Booked("grant", b), BookedAmount)'
                             = Total(Booked("grant", b), BookedAmount)
  <2> SUFFICES ASSUME NEW b \in Accounts
               PROVE  Total(Booked("grant", b), BookedAmount)'
                        = Total(Booked("grant", b), BookedAmount)
    OBVIOUS
  <2>1. Booked("grant", b)' = Booked("grant", b)
    BY <1>3, <1>4, <1>5 DEF Booked
  <2> QED
    BY <1>3, <2>1, BookedSame
<1>14. MoveTogether
  <2> SUFFICES ASSUME NEW b \in Accounts
               PROVE  /\ Wallet(b)' - Wallet(b) = Backing(b)' - Backing(b)
                      /\ Wallet(b)' - Wallet(b) = Spendable(b)' - Spendable(b)
    BY DEF MoveTogether
  <2>1. NaturalBooks(b) /\ available[b] \in Int /\ reserved[b] \in Int
    BY <1>0, NaturalSums DEF TypeOK
  <2>2. CASE b = a
    BY <1>0, <1>11, <1>13, <2>1, <2>2
    DEF NaturalBooks, Wallet, Backing, Spendable
  <2>3. CASE b # a
    BY <1>10, <1>13, <2>1, <2>3
    DEF NaturalBooks, Wallet, Backing, Spendable
  <2> QED
    BY <2>2, <2>3
<1> QED
  BY <1>6, <1>7, <1>9, <1>14 DEF BooksInv

(* Time and stuttering move no credit. *)
LEMMA IdleKeeps ==
    ASSUME BooksInv, TypeOK',
           UNCHANGED <<available, reserved, lots, reservations, ledger>>
    PROVE  BooksInv' /\ MoveTogether
<1>1. GrantsAreBooked' /\ NoOverdraft'
  BY DEF BooksInv, GrantsAreBooked, NoOverdraft
<1>2. ReservedMatchesHolds'
  BY HeldSame DEF BooksInv, ReservedMatchesHolds, HoldsOf, Held
<1>3. \A b \in Accounts : Backing(b)' = Backing(b)
  BY LotsSame DEF Backing, LotsOf, Remaining
<1>4. \A type, a : Total(Booked(type, a), BookedAmount)'
                     = Total(Booked(type, a), BookedAmount)
  <2> SUFFICES ASSUME NEW type, NEW a
               PROVE  Total(Booked(type, a), BookedAmount)'
                        = Total(Booked(type, a), BookedAmount)
    OBVIOUS
  <2>1. Booked(type, a)' = Booked(type, a)
    BY DEF Booked
  <2> QED
    BY <2>1, BookedSame
<1>5. MoveTogether
  <2> SUFFICES ASSUME NEW b \in Accounts
               PROVE  /\ Wallet(b)' - Wallet(b) = Backing(b)' - Backing(b)
                      /\ Wallet(b)' - Wallet(b) = Spendable(b)' - Spendable(b)
    BY DEF MoveTogether
  <2>1. NaturalBooks(b)
    BY NaturalSums
  <2> QED
    BY <1>3, <1>4, <2>1
    DEF NaturalBooks, Wallet, Backing, Spendable, BooksInv, TypeOK
<1> QED
  BY <1>1, <1>2, <1>5 DEF BooksInv

-----------------------------------------------------------------------------
(* Every step keeps the balances and what they are compared with together. *)
LEMMA StepsMoveTogether ==
    ASSUME BooksInv, [Next]_vars
    PROVE  BooksInv' /\ MoveTogether
<1>1. TypeOK'
  BY TypePreserved DEF BooksInv
<1> QED
  BY <1>1, GrantKeeps, ReserveKeeps, CommitKeeps, ReleaseKeeps, IdleKeeps
  DEF Next, Tick, vars

(* In the beginning there is nothing. *)
LEMMA BooksInitially ==
    ASSUME Init
    PROVE  /\ BooksInv
           /\ \A a \in Accounts :
                 Wallet(a) = 0 /\ Backing(a) = 0 /\ Spendable(a) = 0
<1>1. TypeOK
  BY ConstantsAreSmall DEF Init, TypeOK, Lot, Reservation
<1>2. GrantsAreBooked
  BY FS_EmptySet DEF Init, GrantsAreBooked
<1>3. ASSUME NEW a \in Accounts
      PROVE  /\ available[a] = 0 /\ reserved[a] = 0
             /\ Total(HoldsOf(a), Held) = 0
             /\ Total(LotsOf(a), Remaining) = 0
             /\ \A type : Total(Booked(type, a), BookedAmount) = 0
  <2>1. HoldsOf(a) = {} /\ LotsOf(a) = {}
    BY ConstantsAreSmall DEF Init, HoldsOf, LotsOf
  <2>2. \A type : Booked(type, a) = {}
    BY DEF Init, Booked
  <2> QED
    BY <2>1, <2>2, TotalEmpty DEF Init
<1>4. BooksInv
  BY <1>1, <1>2, <1>3 DEF BooksInv, NoOverdraft, ReservedMatchesHolds
<1> QED
  BY <1>3, <1>4 DEF Wallet, Backing, Spendable

(* The invariant holds in every reachable state. *)
THEOREM LedgerIsConsistent == Spec => []LedgerInv
<1>1. Init => LedgerInv
  BY BooksInitially
  DEF LedgerInv, WalletMatchesLots, LedgerExplainsWallet, Wallet, Backing,
      Spendable
<1>2. LedgerInv /\ [Next]_vars => LedgerInv'
  <2> SUFFICES ASSUME LedgerInv, [Next]_vars PROVE LedgerInv'
    OBVIOUS
  <2>1. BooksInv /\ BooksInv' /\ MoveTogether
    BY StepsMoveTogether DEF LedgerInv
  <2>2. ASSUME NEW b \in Accounts
        PROVE  Wallet(b)' = Backing(b)' /\ Wallet(b)' = Spendable(b)'
    <3>1. Wallet(b) = Backing(b) /\ Wallet(b) = Spendable(b)
      BY DEF LedgerInv, WalletMatchesLots, LedgerExplainsWallet, Wallet,
             Backing, Spendable
    <3>2. NaturalBooks(b) /\ NaturalBooks(b)'
      BY <2>1, NaturalSums, NaturalBooksAgain
    <3>3. /\ Wallet(b) \in Int /\ Backing(b) \in Int /\ Spendable(b) \in Int
          /\ Wallet(b)' \in Int /\ Backing(b)' \in Int /\ Spendable(b)' \in Int
      BY <2>1, <3>2
      DEF NaturalBooks, Wallet, Backing, Spendable, BooksInv, TypeOK
    <3>4. /\ Wallet(b)' - Wallet(b) = Backing(b)' - Backing(b)
          /\ Wallet(b)' - Wallet(b) = Spendable(b)' - Spendable(b)
      BY <2>1 DEF MoveTogether
    <3> QED
      BY <3>1, <3>3, <3>4
  <2> QED
    BY <2>1, <2>2
    DEF LedgerInv, WalletMatchesLots, LedgerExplainsWallet, Wallet, Backing,
        Spendable
<1> QED
  BY <1>1, <1>2, PTL DEF Spec

(* No wallet is ever overdrawn. *)
THEOREM WalletsAreNeverOverdrawn == Spec => []NoOverdraft
<1>1. LedgerInv => NoOverdraft
  BY DEF LedgerInv, BooksInv
<1> QED
  BY <1>1, LedgerIsConsistent, PTL

(* The reserved balance is always the sum of the active holds. *)
THEOREM ReservedIsWhatIsHeld == Spec => []ReservedMatchesHolds
<1>1. LedgerInv => ReservedMatchesHolds
  BY DEF LedgerInv, BooksInv
<1> QED
  BY <1>1, LedgerIsConsistent, PTL

(* The two balances of a wallet are always what is left in its lots. *)
THEOREM WalletsAreBackedByLots == Spec => []WalletMatchesLots
<1>1. LedgerInv => WalletMatchesLots
  BY DEF LedgerInv, BooksInv
<1> QED
  BY <1>1, LedgerIsConsistent, PTL

(* The ledger always explains the wallet. *)
THEOREM LedgerReplaysToWallet == Spec => []LedgerExplainsWallet
<1>1. LedgerInv => LedgerExplainsWallet
  BY DEF LedgerInv, BooksInv
<1> QED
  BY <1>1, LedgerIsConsistent, PTL

(* The four accounts of the credits agree: one statement of the above.     *)
THEOREM WalletsAddUp == Spec => []WalletAddsUp
<1>1. LedgerInv => WalletAddsUp
  BY DEF LedgerInv, BooksInv, WalletAddsUp
<1> QED
  BY <1>1, LedgerIsConsistent, PTL

-----------------------------------------------------------------------------
(* A family of subsets of a finite set has a smallest member, that is, one *)
(* of which no other is a part.                                            *)
LEMMA SmallestMember ==
    ASSUME NEW U, IsFiniteSet(U), NEW F \in SUBSET SUBSET U, F # {}
    PROVE  \E X \in F : \A Y \in F : Y \subseteq X => Y = X
<1>1. F \subseteq FiniteSubsetsOf(U)
  BY FS_FiniteSubsetsOfFinite
<1>2. IsWellFoundedOn(StrictSubsetOrdering(U), FiniteSubsetsOf(U))
  BY FS_StrictSubsetOrderingWellFounded
<1>3. PICK X \in F : \A Y \in F : <<Y, X>> \notin StrictSubsetOrdering(U)
  BY <1>1, <1>2, WFMin
<1>4. ASSUME NEW Y \in F, Y \subseteq X, Y # X
      PROVE  FALSE
  <2>1. <<Y, X>> \in StrictSubsetOrdering(U)
    BY <1>4 DEF StrictSubsetOrdering
  <2> QED
    BY <1>3, <2>1
<1> QED
  BY <1>4

(* One element's value is a part of the sum. *)
LEMMA TotalPart ==
    ASSUME NEW S, NEW f, NEW x \in S, IsFiniteSet(S), f[x] \in 0..MaxCredits
    PROVE  f[x] <= Total(S, f)
<1> DEFINE Rest == S \ {x}
<1>1. IsFiniteSet(Rest) /\ x \notin Rest /\ S = Rest \cup {x}
  BY FS_RemoveElement
<1>2. Total(Rest, f) \in Nat
  BY <1>1, TotalNat
<1> HIDE DEF Rest
<1>3. Total(Rest \cup {x}, f) = Total(Rest, f) + f[x]
  BY <1>1, TotalAdd
<1>4. f[x] \in Nat
  BY ConstantsAreSmall
<1> QED
  BY <1>1, <1>2, <1>3, <1>4

(* One credit less of one element is one credit less in all.               *)
LEMMA TotalLess ==
    ASSUME NEW S, IsFiniteSet(S), NEW f, NEW h, NEW x \in S,
           f[x] \in Amount, h[x] = f[x] - 1,
           \A y \in S \ {x} : h[y] = f[y]
    PROVE  /\ Credits(S, h) \subseteq Credits(S, f)
           /\ Credits(S, h) # Credits(S, f)
           /\ Total(S, h) = Total(S, f) - 1
<1> USE ConstantsAreSmall
<1>1. <<x, f[x]>> \in Credits(S, f)
  BY DEF Credits, Amount
<1>2. Credits(S, h) = Credits(S, f) \ {<<x, f[x]>>}
  <2>1. ASSUME NEW c \in S \X Amount
        PROVE  c[2] <= h[c[1]] <=> c[2] <= f[c[1]] /\ c # <<x, f[x]>>
    <3>1. /\ c[1] \in S /\ c[2] \in Nat /\ f[x] \in Nat
          /\ c = <<c[1], c[2]>>
      BY DEF Amount
    <3>2. CASE c[1] = x
      BY <3>1, <3>2
    <3>3. CASE c[1] # x
      BY <3>1, <3>3
    <3> QED
      BY <3>2, <3>3
  <2> QED
    BY <2>1 DEF Credits
<1>3. IsFiniteSet(Credits(S, f)) /\ Cardinality(Credits(S, f)) \in Nat
  BY TotalNat DEF Total
<1>4. Cardinality(Credits(S, f) \ {<<x, f[x]>>})
        = Cardinality(Credits(S, f)) - 1
  BY <1>1, <1>3, FS_RemoveElement
<1> QED
  BY <1>1, <1>2, <1>4 DEF Total

(* Lots that are alive, or empty, can pay any part of what is left in      *)
(* them: among the ways to take that much at most, soonest to expire       *)
(* first, one that takes most takes it all, for as long as there is a      *)
(* credit left a further one can be taken from the lot to expire first.    *)
LEMMA LiveLotsPay ==
    ASSUME TypeOK, NEW a \in Accounts, NEW n \in Nat,
           n <= Total(LotsOf(a), Remaining),
           \A g \in LotsOf(a) : Live(g) \/ lots[g].remaining = 0
    PROVE  LotsAfterTaking(a, n) # {}
<1> DEFINE S == LotsOf(a)
           T == Total(S, Remaining)
           Ordered(left) ==
              \A g, h \in S :
                 /\ Live(g) /\ lots[g].expires < lots[h].expires
                 /\ left[h] < lots[h].remaining
                 => left[g] = 0
           Partly == {left \in [Grants -> 0..MaxCredits] :
              /\ \A g \in Grants : left[g] <= lots[g].remaining
              /\ \A g \in Grants :
                   left[g] < lots[g].remaining => lots[g].owner = a /\ Live(g)
              /\ Total(S, left) >= T - n
              /\ Ordered(left)}
<1> USE ConstantsAreSmall
<1>1. /\ S \subseteq Grants /\ IsFiniteSet(S) /\ IsFiniteSet(Grants)
      /\ T \in Nat
      /\ \A g \in Grants : /\ lots[g].remaining \in 0..MaxCredits
                           /\ lots[g].expires \in Nat
                           /\ Remaining[g] = lots[g].remaining
  <2>1. S \subseteq Grants
    BY DEF LotsOf
  <2>2. IsFiniteSet(S) /\ IsFiniteSet(Grants)
    BY <2>1, FS_Subset DEF LedgerAssumption
  <2>3. T \in Nat
    BY <2>2, TotalNat
  <2>4. \A g \in Grants : /\ lots[g].remaining \in 0..MaxCredits
                          /\ lots[g].expires \in Nat
                          /\ Remaining[g] = lots[g].remaining
    BY DEF TypeOK, Lot, Remaining
  <2> QED
    BY <2>1, <2>2, <2>3, <2>4
<1>2. Remaining \in Partly
  <2>1. Remaining \in [Grants -> 0..MaxCredits]
    BY <1>1 DEF Remaining
  <2>2. T >= T - n
    BY <1>1
  <2>3. Ordered(Remaining)
    BY <1>1
  <2> QED
    BY <1>1, <2>1, <2>2, <2>3
<1> DEFINE Family == {Credits(S, left) : left \in Partly}
<1>3. PICK left \in Partly :
        \A other \in Partly :
           Credits(S, other) \subseteq Credits(S, left)
             => Credits(S, other) = Credits(S, left)
  <2>1. IsFiniteSet(S \X Amount)
    BY <1>1, FS_Interval, FS_Product, 1 \in Int, MaxCredits \in Int DEF Amount
  <2>2. Family \in SUBSET SUBSET (S \X Amount)
    BY DEF Credits
  <2>3. Family # {}
    BY <1>2
  <2> HIDE DEF Family
  <2>4. PICK X \in Family : \A Y \in Family : Y \subseteq X => Y = X
    BY <2>1, <2>2, <2>3, SmallestMember
  <2> USE DEF Family
  <2>5. PICK left \in Partly : X = Credits(S, left)
    BY <2>4
  <2>6. \A other \in Partly : Credits(S, other) \in Family
    OBVIOUS
  <2> HIDE DEF Family, Partly
  <2> QED
    BY <2>4, <2>5, <2>6
<1>4. Total(S, left) \in Nat
  BY <1>1, TotalNat
<1>5. ASSUME Total(S, left) # T - n
      PROVE  FALSE
  <2>1. Total(S, left) > T - n /\ T - n >= 0
    BY <1>1, <1>3, <1>4, <1>5
  <2> DEFINE Paying == {g \in S : left[g] > 0}
             Before(g) == {h \in S : lots[h].expires < lots[g].expires}
  <2>2. Paying # {}
    <3>1. Credits(S, left) # {}
      <4>1. Total(S, left) # 0
        BY <1>1, <1>4, <2>1
      <4> QED
        BY <4>1, FS_EmptySet DEF Total
    <3>2. PICK c \in S \X Amount : c[2] <= left[c[1]]
      BY <3>1 DEF Credits
    <3>3. c[1] \in S /\ c[2] > 0 /\ c[2] \in Nat /\ left[c[1]] \in Nat
      BY <1>1, <1>3, <3>2 DEF Amount
    <3> QED
      BY <3>2, <3>3
  <2>3. PICK g \in Paying :
          \A h \in Paying : ~(lots[h].expires < lots[g].expires)
    <3> DEFINE Befores == {Before(h) : h \in Paying}
    <3>1. \A h \in Paying : Before(h) \in SUBSET S
      OBVIOUS
    <3> HIDE DEF Paying, Before
    <3>a. Befores \in SUBSET SUBSET S
      BY <3>1
    <3>b. Befores # {}
      BY <2>2
    <3> HIDE DEF Befores
    <3>2. PICK X \in Befores : \A Y \in Befores : Y \subseteq X => Y = X
      BY <1>1, <3>a, <3>b, SmallestMember
    <3> USE DEF Befores, Before
    <3>3. PICK g \in Paying : X = Before(g)
      BY <3>2
    <3> USE DEF Paying
    <3>4. ASSUME NEW h \in Paying, lots[h].expires < lots[g].expires
          PROVE  FALSE
      <4>1. h \in Before(g) /\ h \notin Before(h)
        BY <1>1, <3>4
      <4>2. Before(h) \subseteq Before(g)
        BY <1>1, <3>4
      <4>3. Before(h) = Before(g)
        BY <3>2, <3>3, <4>2
      <4> QED
        BY <4>1, <4>3
    <3> QED
      BY <3>4
  <2>4. /\ g \in Grants /\ g \in S /\ left[g] \in Amount
        /\ left[g] <= lots[g].remaining
        /\ lots[g].owner = a /\ Live(g)
    <3>1. g \in Grants /\ g \in S /\ lots[g].owner = a
      BY <1>1, <2>3 DEF LotsOf
    <3>2. /\ left[g] \in 0..MaxCredits /\ left[g] > 0
          /\ left[g] <= lots[g].remaining
      BY <1>3, <2>3, <3>1
    <3>3. lots[g].remaining # 0
      BY <1>1, <3>1, <3>2
    <3> QED
      BY <3>1, <3>2, <3>3 DEF Amount
  <2> DEFINE less == [left EXCEPT ![g] = left[g] - 1]
  <2>5. /\ less \in [Grants -> 0..MaxCredits]
        /\ less[g] = left[g] - 1
        /\ \A h \in Grants \ {g} : less[h] = left[h]
    <3>1. left[g] - 1 \in 0..MaxCredits
      BY <2>4 DEF Amount
    <3>2. left \in [Grants -> 0..MaxCredits]
      BY <1>3
    <3> QED
      BY <2>4, <3>1, <3>2
  <2> HIDE DEF less
  <2>6. /\ Credits(S, less) \subseteq Credits(S, left)
        /\ Credits(S, less) # Credits(S, left)
        /\ Total(S, less) = Total(S, left) - 1
    BY <1>1, <2>4, <2>5, TotalLess
  <2>7. less \in Partly
    <3>1. \A h \in Grants : less[h] <= lots[h].remaining
      BY <1>1, <1>3, <2>4, <2>5 DEF Amount
    <3>2. \A h \in Grants :
            less[h] < lots[h].remaining => lots[h].owner = a /\ Live(h)
      BY <1>3, <2>4, <2>5
    <3>3. Total(S, less) >= T - n
      BY <1>1, <1>4, <2>1, <2>6
    <3>4. Ordered(less)
      <4> SUFFICES ASSUME NEW x \in S, NEW h \in S, Live(x),
                          lots[x].expires < lots[h].expires,
                          less[h] < lots[h].remaining
                   PROVE  less[x] = 0
        OBVIOUS
      <4>1. x \in Grants /\ h \in Grants /\ left[x] \in Nat
        BY <1>1, <1>3
      <4>2. left[x] = 0
        <5>1. CASE h = g
          <6>1. x \notin Paying
            BY <2>3, <5>1
          <6> QED
            BY <4>1, <6>1
        <5>2. CASE h # g
          BY <1>3, <2>5, <4>1, <5>2
        <5> QED
          BY <5>1, <5>2
      <4>3. x # g
        BY <2>4, <4>2 DEF Amount
      <4> QED
        BY <2>5, <4>1, <4>2, <4>3
    <3> QED
      BY <2>5, <3>1, <3>2, <3>3, <3>4
  <2> QED
    BY <1>3, <2>6, <2>7
<1>6. left \in LotsAfterTaking(a, n)
  BY <1>3, <1>5 DEF LotsAfterTaking
<1> QED
  BY <1>6

-----------------------------------------------------------------------------
(* What the ledger has of each version of a job's hold: nothing before it  *)
(* is taken, then one reserve entry, of the amount held, and release       *)
(* entries of that amount once it is given back and not before.  It        *)
(* strengthens EveryHoldSettledOnce into an inductive invariant: that a    *)
(* release writes the amount of the reserve entry follows only from that   *)
(* entry having the amount the reservation has now.                        *)

EntriesOf(type, j, v) ==
    {e \in ledger : e.type = type /\ e.about = j /\ e.version = v}

HoldIsOpen(j, v) ==
    /\ reservations[j].status \in {"active", "committed"}
    /\ reservations[j].version = v

HoldIsBooked(j, v) ==
    IF v > reservations[j].version
    THEN EntriesOf("reserve", j, v) = {} /\ EntriesOf("release", j, v) = {}
    ELSE \E r \in ledger :
           /\ EntriesOf("reserve", j, v) = {r}
           /\ v = reservations[j].version => r.amount = reservations[j].amount
           /\ HoldIsOpen(j, v) => EntriesOf("release", j, v) = {}
           /\ ~HoldIsOpen(j, v) => EntriesOf("release", j, v) # {}
           /\ \A e \in EntriesOf("release", j, v) : e.amount = r.amount

HoldHasAccount(j) ==
    reservations[j].status # "none" => reservations[j].account \in Accounts

BookInv ==
    \A j \in Jobs : HoldHasAccount(j) /\ \A v \in 1..MaxVersion : HoldIsBooked(j, v)

(* A hold stays booked while its version, its amount and its being open    *)
(* stay, and no entry of its kinds is written about it.                    *)
LEMMA StillBooked ==
    ASSUME NEW j \in Jobs, NEW v \in 1..MaxVersion, HoldIsBooked(j, v),
           reservations'[j].version = reservations[j].version,
           reservations'[j].amount = reservations[j].amount,
           HoldIsOpen(j, v)' <=> HoldIsOpen(j, v),
           ledger \subseteq ledger',
           \A e \in ledger' \ ledger :
              ~(e.type \in {"reserve", "release"} /\ e.about = j)
    PROVE  HoldIsBooked(j, v)'
<1>1. /\ EntriesOf("reserve", j, v)' = EntriesOf("reserve", j, v)
      /\ EntriesOf("release", j, v)' = EntriesOf("release", j, v)
  BY DEF EntriesOf
<1> QED
  BY <1>1 DEF HoldIsBooked

(* Taking a hold books it under the next version.                          *)
LEMMA ReserveBooks ==
    ASSUME TypeOK, BookInv, NEW a \in Accounts, NEW j \in Jobs,
           NEW n \in Amount, ReserveCredits(a, j, n),
           NEW v \in 1..MaxVersion
    PROVE  HoldIsBooked(j, v)'
<1> DEFINE w == reservations[j].version + 1
           r == [type |-> "reserve", account |-> a, about |-> j,
                 version |-> w, amount |-> n]
<1> USE ConstantsAreSmall
<1>1. /\ ledger' = ledger \cup {r}
      /\ reservations'[j].version = w
      /\ reservations'[j].amount = n
      /\ reservations'[j].status = "active"
      /\ reservations[j].status \notin {"active", "committed"}
      /\ reservations[j].version \in Nat /\ w \in Nat /\ v \in Nat
  BY DEF ReserveCredits, TypeOK, Reservation
<1>2. /\ r.type = "reserve" /\ r.about = j
      /\ r.version = w /\ r.amount = n
  OBVIOUS
<1>3. w = reservations[j].version + 1
  OBVIOUS
<1> HIDE DEF r, w
<1>4. HoldIsBooked(j, v)
  BY DEF BookInv
<1>5. EntriesOf("release", j, v)' = EntriesOf("release", j, v)
  BY <1>1, <1>2 DEF EntriesOf
<1>6. CASE v > w
  <2>1. EntriesOf("reserve", j, v)' = EntriesOf("reserve", j, v)
    BY <1>1, <1>2, <1>6 DEF EntriesOf
  <2> QED
    BY <1>1, <1>3, <1>4, <1>5, <1>6, <2>1 DEF HoldIsBooked
<1>7. CASE v = w
  <2>1. EntriesOf("reserve", j, v) = {} /\ EntriesOf("release", j, v) = {}
    BY <1>1, <1>3, <1>4, <1>7 DEF HoldIsBooked
  <2>2. EntriesOf("reserve", j, v)' = {r}
    BY <1>1, <1>2, <1>7, <2>1 DEF EntriesOf
  <2>3. HoldIsOpen(j, v)'
    BY <1>1, <1>7 DEF HoldIsOpen
  <2> QED
    BY <1>1, <1>2, <1>5, <1>7, <2>1, <2>2, <2>3 DEF HoldIsBooked
<1>8. CASE v < w
  <2>1. EntriesOf("reserve", j, v)' = EntriesOf("reserve", j, v)
    BY <1>1, <1>2, <1>8 DEF EntriesOf
  <2>2. ~HoldIsOpen(j, v) /\ ~HoldIsOpen(j, v)'
    BY <1>1, <1>8 DEF HoldIsOpen
  <2>3. ~(v > reservations[j].version) /\ ~(v > w) /\ v # w
    BY <1>1, <1>3, <1>8
  <2> QED
    BY <1>1, <1>4, <1>5, <2>1, <2>2, <2>3 DEF HoldIsBooked
<1> QED
  BY <1>1, <1>6, <1>7, <1>8

(* Giving a hold back books its release, for what it was.                  *)
LEMMA ReleaseBooks ==
    ASSUME TypeOK, BookInv, NEW a \in Accounts, NEW j \in Jobs,
           ReleaseReservation(a, j), NEW v \in 1..MaxVersion
    PROVE  HoldIsBooked(j, v)'
<1> DEFINE w == reservations[j].version
           n == reservations[j].amount
           r == [type |-> "release", account |-> a, about |-> j,
                 version |-> w, amount |-> n]
<1> USE ConstantsAreSmall
<1>1. /\ ledger' = ledger \cup {r}
      /\ reservations'[j].version = w
      /\ reservations'[j].amount = n
      /\ reservations'[j].status = "released"
      /\ reservations[j].status = "active"
      /\ w \in Nat /\ v \in Nat
  BY DEF ReleaseReservation, TypeOK, Reservation
<1>2. /\ r.type = "release" /\ r.about = j
      /\ r.version = w /\ r.amount = n
  OBVIOUS
<1>3. w = reservations[j].version /\ n = reservations[j].amount
  OBVIOUS
<1> HIDE DEF r, w, n
<1>4. HoldIsBooked(j, v)
  BY DEF BookInv
<1>5. EntriesOf("reserve", j, v)' = EntriesOf("reserve", j, v)
  BY <1>1, <1>2 DEF EntriesOf
<1>6. CASE v # w
  <2>1. EntriesOf("release", j, v)' = EntriesOf("release", j, v)
    BY <1>1, <1>2, <1>6 DEF EntriesOf
  <2>2. ~HoldIsOpen(j, v) /\ ~HoldIsOpen(j, v)'
    BY <1>1, <1>3, <1>6 DEF HoldIsOpen
  <2> QED
    BY <1>1, <1>3, <1>4, <1>5, <1>6, <2>1, <2>2 DEF HoldIsBooked
<1>7. CASE v = w
  <2>1. ~(v > w)
    BY <1>1, <1>7
  <2>2. HoldIsOpen(j, v) /\ ~HoldIsOpen(j, v)'
    BY <1>1, <1>3, <1>7 DEF HoldIsOpen
  <2>3. PICK b \in ledger : /\ EntriesOf("reserve", j, v) = {b}
                            /\ b.amount = n
                            /\ EntriesOf("release", j, v) = {}
    BY <1>3, <1>4, <1>7, <2>1, <2>2 DEF HoldIsBooked
  <2>4. EntriesOf("release", j, v)' = {r}
    BY <1>1, <1>2, <1>7, <2>3 DEF EntriesOf
  <2>5. b \in ledger'
    BY <1>1
  <2> QED
    BY <1>1, <1>2, <1>5, <1>7, <2>1, <2>2, <2>3, <2>4, <2>5
    DEF HoldIsBooked
<1> QED
  BY <1>6, <1>7

(* Every step keeps the invariant.                                         *)
LEMMA BookPreserved ==
    ASSUME TypeOK, BookInv, [Next]_vars
    PROVE  BookInv'
<1> SUFFICES ASSUME NEW i \in Jobs
             PROVE  /\ HoldHasAccount(i)'
                    /\ \A v \in 1..MaxVersion : HoldIsBooked(i, v)'
  BY DEF BookInv
<1>0. HoldHasAccount(i) /\ \A v \in 1..MaxVersion : HoldIsBooked(i, v)
  BY DEF BookInv
<1>1. ASSUME NEW a \in Accounts, NEW g \in Grants, NEW n \in Amount,
             NEW t \in 0..MaxTime, GrantCredits(a, g, n, t)
      PROVE  /\ HoldHasAccount(i)'
             /\ \A v \in 1..MaxVersion : HoldIsBooked(i, v)'
  <2>1. /\ reservations' = reservations /\ ledger \subseteq ledger'
        /\ \A e \in ledger' \ ledger : e.type \notin {"reserve", "release"}
    BY <1>1 DEF GrantCredits
  <2> QED
    BY <1>0, <2>1, StillBooked DEF HoldIsOpen, HoldHasAccount
<1>2. ASSUME NEW a \in Accounts, NEW j \in Jobs, NEW n \in Amount,
             ReserveCredits(a, j, n)
      PROVE  /\ HoldHasAccount(i)'
             /\ \A v \in 1..MaxVersion : HoldIsBooked(i, v)'
  <2>1. CASE i = j
    <3>1. reservations'[i].account \in Accounts
      BY <1>2, <2>1 DEF ReserveCredits, TypeOK
    <3> QED
      BY <1>2, <2>1, <3>1, ReserveBooks DEF HoldHasAccount
  <2>2. CASE i # j
    <3>1. /\ reservations'[i] = reservations[i] /\ ledger \subseteq ledger'
          /\ \A e \in ledger' \ ledger : e.about # i
      BY <1>2, <2>2 DEF ReserveCredits, TypeOK
    <3> QED
      BY <1>0, <3>1, StillBooked DEF HoldIsOpen, HoldHasAccount
  <2> QED
    BY <2>1, <2>2
<1>3. ASSUME NEW a \in Accounts, NEW j \in Jobs, NEW n \in Amount,
             CommitDebit(a, j, n)
      PROVE  /\ HoldHasAccount(i)'
             /\ \A v \in 1..MaxVersion : HoldIsBooked(i, v)'
  <2>1. /\ ledger \subseteq ledger'
        /\ \A e \in ledger' \ ledger : e.type \notin {"reserve", "release"}
    BY <1>3 DEF CommitDebit
  <2>2. /\ reservations'[i].version = reservations[i].version
        /\ reservations'[i].amount = reservations[i].amount
        /\ reservations'[i].account = reservations[i].account
    BY <1>3 DEF CommitDebit, TypeOK, Reservation
  <2>3. CASE i = j
    <3>1. /\ reservations[i].status = "active"
          /\ reservations'[i].status = "committed"
      BY <1>3, <2>3 DEF CommitDebit, TypeOK, Reservation
    <3>2. \A v : HoldIsOpen(i, v)' <=> HoldIsOpen(i, v)
      BY <2>2, <3>1 DEF HoldIsOpen
    <3> QED
      BY <1>0, <2>1, <2>2, <3>1, <3>2, StillBooked DEF HoldHasAccount
  <2>4. CASE i # j
    <3>1. reservations'[i] = reservations[i]
      BY <1>3, <2>4 DEF CommitDebit, TypeOK
    <3>2. \A v : HoldIsOpen(i, v)' <=> HoldIsOpen(i, v)
      BY <3>1 DEF HoldIsOpen
    <3> QED
      BY <1>0, <2>1, <3>1, <3>2, StillBooked DEF HoldHasAccount
  <2> QED
    BY <2>3, <2>4
<1>4. ASSUME NEW a \in Accounts, NEW j \in Jobs, ReleaseReservation(a, j)
      PROVE  /\ HoldHasAccount(i)'
             /\ \A v \in 1..MaxVersion : HoldIsBooked(i, v)'
  <2>1. CASE i = j
    <3>1. reservations'[i].account \in Accounts
      BY <1>4, <2>1 DEF ReleaseReservation, TypeOK, Reservation
    <3> QED
      BY <1>4, <2>1, <3>1, ReleaseBooks DEF HoldHasAccount
  <2>2. CASE i # j
    <3>1. /\ reservations'[i] = reservations[i] /\ ledger \subseteq ledger'
          /\ \A e \in ledger' \ ledger : e.about # i
      BY <1>4, <2>2 DEF ReleaseReservation, TypeOK
    <3> QED
      BY <1>0, <3>1, StillBooked DEF HoldIsOpen, HoldHasAccount
  <2> QED
    BY <2>1, <2>2
<1>5. CASE Tick \/ UNCHANGED vars
  <2>1. reservations' = reservations /\ ledger' = ledger
    BY <1>5 DEF Tick, vars
  <2> QED
    BY <1>0, <2>1, StillBooked DEF HoldIsOpen, HoldHasAccount
<1> QED
  BY <1>1, <1>2, <1>3, <1>4, <1>5 DEF Next

LEMMA HoldsStayBooked == Spec => []BookInv
<1>1. Init => BookInv
  BY ConstantsAreSmall
  DEF Init, BookInv, HoldIsBooked, HoldHasAccount, EntriesOf
<1>2. TypeOK /\ BookInv /\ [Next]_vars => BookInv'
  BY BookPreserved
<1> QED
  BY <1>1, <1>2, TypesAreKept, PTL DEF Spec

(* Every reserve entry is answered by a release of its amount, except the  *)
(* last one while it is held or once it is debited.                        *)
THEOREM HoldsAreSettledOnce == Spec => []EveryHoldSettledOnce
<1>1. TypeOK /\ BookInv => EveryHoldSettledOnce
  <2> SUFFICES ASSUME TypeOK, BookInv, NEW j \in Jobs, NEW v \in 1..MaxVersion
               PROVE
                 /\ Cardinality(EntriesOf("reserve", j, v)) =
                      IF v <= reservations[j].version THEN 1 ELSE 0
                 /\ {e.amount : e \in EntriesOf("release", j, v)} =
                      IF HoldIsOpen(j, v) THEN {}
                      ELSE {e.amount : e \in EntriesOf("reserve", j, v)}
    BY DEF EveryHoldSettledOnce, EntriesOf, HoldIsOpen
  <2>1. reservations[j].version \in Nat /\ v \in Nat
    BY ConstantsAreSmall DEF TypeOK, Reservation
  <2>2. HoldIsBooked(j, v)
    BY DEF BookInv
  <2>3. CASE v > reservations[j].version
    <3>1. EntriesOf("reserve", j, v) = {} /\ EntriesOf("release", j, v) = {}
      BY <2>2, <2>3 DEF HoldIsBooked
    <3>2. Cardinality(EntriesOf("reserve", j, v)) = 0
      BY <3>1, FS_EmptySet
    <3> QED
      BY <2>1, <2>3, <3>1, <3>2
  <2>4. CASE ~(v > reservations[j].version)
    <3>1. PICK r \in ledger :
            /\ EntriesOf("reserve", j, v) = {r}
            /\ HoldIsOpen(j, v) => EntriesOf("release", j, v) = {}
            /\ ~HoldIsOpen(j, v) => EntriesOf("release", j, v) # {}
            /\ \A e \in EntriesOf("release", j, v) : e.amount = r.amount
      BY <2>2, <2>4 DEF HoldIsBooked
    <3>2. Cardinality(EntriesOf("reserve", j, v)) = 1
      BY <3>1, FS_Singleton
    <3>3. {e.amount : e \in EntriesOf("reserve", j, v)} = {r.amount}
      BY <3>1
    <3>4. ~HoldIsOpen(j, v) =>
            {e.amount : e \in EntriesOf("release", j, v)} = {r.amount}
      BY <3>1
    <3>5. v <= reservations[j].version
      BY <2>1, <2>4
    <3> QED
      BY <3>1, <3>2, <3>3, <3>4, <3>5
  <2> QED
    BY <2>3, <2>4
<1> QED
  BY <1>1, HoldsStayBooked, TypesAreKept, PTL

(* A held job can be debited for what it holds as long as no credit has    *)
(* expired: its hold is a part of the reserved balance, and that a part of *)
(* what is left in the wallet's lots.                                      *)
THEOREM HeldCreditsCanBePaid == Spec => []HoldsAreCovered
<1>1. LedgerInv /\ BookInv => HoldsAreCovered
  <2> SUFFICES ASSUME LedgerInv, BookInv, NEW j \in Jobs,
                      reservations[j].status = "active",
                      \A g \in LotsOf(reservations[j].account) :
                         Live(g) \/ lots[g].remaining = 0
               PROVE  LotsAfterTaking(reservations[j].account,
                                      reservations[j].amount) # {}
    BY DEF HoldsAreCovered
  <2> DEFINE a == reservations[j].account
             n == reservations[j].amount
  <2> USE ConstantsAreSmall
  <2>1. TypeOK /\ a \in Accounts
    BY DEF LedgerInv, BooksInv, BookInv, HoldHasAccount
  <2>2. n \in 0..MaxCredits /\ Held[j] = n
    BY <2>1 DEF TypeOK, Reservation, Held
  <2>3. j \in HoldsOf(a)
    BY DEF HoldsOf
  <2> HIDE DEF a, n
  <2>4. n <= Total(HoldsOf(a), Held)
    <3>1. IsFiniteSet(HoldsOf(a))
      BY FiniteSums DEF LedgerInv
    <3> QED
      BY <2>2, <2>3, <3>1, TotalPart
  <2>5. /\ reserved[a] = Total(HoldsOf(a), Held)
        /\ available[a] + reserved[a] = Total(LotsOf(a), Remaining)
        /\ available[a] >= 0 /\ available[a] \in Int /\ reserved[a] \in Int
    BY <2>1 DEF LedgerInv, BooksInv, TypeOK, ReservedMatchesHolds, WalletMatchesLots,
                NoOverdraft
  <2>6. n \in Nat /\ n <= Total(LotsOf(a), Remaining)
    BY <2>2, <2>4, <2>5
  <2> QED
    BY <2>1, <2>6, LiveLotsPay DEF a, n
<1> QED
  BY <1>1, LedgerIsConsistent, HoldsStayBooked, PTL

-----------------------------------------------------------------------------
(* Every job's reservation is a CreditHold: each operation is one of its   *)
(* steps for the job it is about, and a stutter for every other job.       *)

(* Entries that are not a debit of the job leave its debits as they are. *)
LEMMA DebitsSame ==
    ASSUME NEW j, ledger \subseteq ledger',
           \A e \in ledger' \ ledger : ~(e.type = "debit" /\ e.about = j)
    PROVE  DebitsOf(j)' = DebitsOf(j)
<1>1. {e \in ledger' : e.type = "debit" /\ e.about = j}
        = {e \in ledger : e.type = "debit" /\ e.about = j}
  OBVIOUS
<1> QED
  BY <1>1 DEF DebitsOf

(* The debit of a job that has none is one more. *)
LEMMA DebitsMore ==
    ASSUME GrantsAreBooked, NEW j, ledger \subseteq ledger',
           NEW d \in ledger', d \notin ledger,
           d.type = "debit", d.about = j,
           \A e \in ledger' \ ledger : e.type = "debit" => e = d
    PROVE  DebitsOf(j)' = DebitsOf(j) + 1
<1> DEFINE B == {e \in ledger : e.type = "debit" /\ e.about = j}
<1>1. {e \in ledger' : e.type = "debit" /\ e.about = j} = B \cup {d}
  OBVIOUS
<1>2. IsFiniteSet(B) /\ d \notin B
  BY FS_Subset DEF GrantsAreBooked
<1>3. Cardinality(B \cup {d}) = Cardinality(B) + 1
  BY <1>2, FS_AddElement
<1> QED
  BY <1>1, <1>3 DEF DebitsOf

LEMMA StepIsAHoldStep ==
    ASSUME LedgerInv, [Next]_vars, NEW i \in Jobs
    PROVE  [JobHold(i)!HoldNext]_(JobHold(i)!holdVars)
<1> USE DEF JobHold!holdVars
<1>0. TypeOK
  BY DEF LedgerInv, BooksInv
<1>1. ASSUME NEW a \in Accounts, NEW g \in Grants, NEW n \in Amount,
             NEW t \in 0..MaxTime, GrantCredits(a, g, n, t)
      PROVE  UNCHANGED JobHold(i)!holdVars
  <2>1. /\ ledger \subseteq ledger'
        /\ \A e \in ledger' \ ledger : e.type # "debit"
    BY <1>1 DEF GrantCredits
  <2> QED
    BY <1>1, <2>1, DebitsSame DEF GrantCredits
<1>2. ASSUME NEW a \in Accounts, NEW j \in Jobs, NEW n \in Amount,
             ReserveCredits(a, j, n)
      PROVE  JobHold(i)!TakeHold \/ UNCHANGED JobHold(i)!holdVars
  <2>1. /\ ledger \subseteq ledger'
        /\ \A e \in ledger' \ ledger : e.type # "debit"
    BY <1>2 DEF ReserveCredits
  <2>2. DebitsOf(i)' = DebitsOf(i)
    BY <2>1, DebitsSame
  <2>3. reservations[j].status \in {"none", "released"}
    BY <1>0, <1>2 DEF ReserveCredits, TypeOK, Reservation
  <2>4. /\ reservations'[j].status = "active"
        /\ i # j => reservations'[i] = reservations[i]
    BY <1>0, <1>2 DEF ReserveCredits, TypeOK
  <2> QED
    BY <2>2, <2>3, <2>4 DEF JobHold!TakeHold
<1>3. ASSUME NEW a \in Accounts, NEW j \in Jobs, NEW n \in Amount,
             CommitDebit(a, j, n)
      PROVE  JobHold(i)!CommitHold \/ UNCHANGED JobHold(i)!holdVars
  <2>1. /\ reservations[j].status = "active"
        /\ reservations'[j].status = "committed"
        /\ i # j => reservations'[i].status = reservations[i].status
    BY <1>0, <1>3 DEF CommitDebit, TypeOK, Reservation
  <2> DEFINE d == [type |-> "debit", account |-> a, about |-> j,
                   version |-> 0, amount |-> n]
  <2>2. /\ d \in ledger' /\ d \notin ledger /\ ledger \subseteq ledger'
        /\ \A e \in ledger' \ ledger : e.type = "debit" => e = d
    BY <1>3 DEF CommitDebit
  <2>3. d.type = "debit" /\ d.about = j
    OBVIOUS
  <2> HIDE DEF d
  <2>4. CASE i = j
    <3>1. DebitsOf(i)' = DebitsOf(i) + 1
      BY <2>2, <2>3, <2>4, DebitsMore DEF LedgerInv, BooksInv
    <3> QED
      BY <2>1, <2>4, <3>1 DEF JobHold!CommitHold
  <2>5. CASE i # j
    <3>1. DebitsOf(i)' = DebitsOf(i)
      BY <2>2, <2>3, <2>5, DebitsSame
    <3> QED
      BY <2>1, <2>5, <3>1
  <2> QED
    BY <2>4, <2>5
<1>4. ASSUME NEW a \in Accounts, NEW j \in Jobs, ReleaseReservation(a, j)
      PROVE  JobHold(i)!ReleaseHold \/ UNCHANGED JobHold(i)!holdVars
  <2>1. /\ ledger \subseteq ledger'
        /\ \A e \in ledger' \ ledger : e.type # "debit"
    BY <1>4 DEF ReleaseReservation
  <2>2. DebitsOf(i)' = DebitsOf(i)
    BY <2>1, DebitsSame
  <2>3. /\ reservations[j].status = "active"
        /\ reservations'[j].status = "released"
        /\ i # j => reservations'[i].status = reservations[i].status
    BY <1>0, <1>4 DEF ReleaseReservation, TypeOK, Reservation
  <2> QED
    BY <2>2, <2>3 DEF JobHold!ReleaseHold
<1>5. CASE Tick \/ UNCHANGED vars
  BY <1>5 DEF Tick, vars, DebitsOf
<1> QED
  BY <1>1, <1>2, <1>3, <1>4, <1>5 DEF Next, JobHold!HoldNext

(* The credit store implements CreditHold for every job. *)
THEOREM LedgerImplementsHolds == Spec => ImplementsCreditHold
<1>1. Init => \A j \in Jobs : JobHold(j)!HoldInit
  BY FS_EmptySet DEF Init, JobHold!HoldInit, DebitsOf
<1> DEFINE Step == \A j \in Jobs :
                     [JobHold(j)!HoldNext]_(JobHold(j)!holdVars)
<1>2. LedgerInv /\ [Next]_vars => [Step]_vars
  BY StepIsAHoldStep
<1>3. Spec => [][Step]_vars
  <2> HIDE DEF Step
  <2> QED
    BY <1>2, LedgerIsConsistent, PTL DEF Spec
<1> QED
  BY <1>1, <1>3 DEF Spec, ImplementsCreditHold

-----------------------------------------------------------------------------
(* The dictionary variant.  Its commit may raise half way, and then the    *)
(* lots and the balances no longer agree with the ledger; what is left of  *)
(* the invariant is that the wallet has no more than the ledger explains.  *)

MemoryInv ==
    /\ BooksInv
    /\ \A a \in Accounts : Wallet(a) <= Spendable(a)

(* A commit that raises only takes: from the lots, and from what is        *)
(* available the credits above the hold, which it tested to be there.      *)
LEMMA RaisingOnlyTakes ==
    ASSUME BooksInv, NEW a \in Accounts, NEW j \in Jobs, NEW n \in Amount,
           CommitRaises(a, j, n)
    PROVE  /\ BooksInv'
           /\ \A b \in Accounts : /\ Wallet(b)' <= Wallet(b)
                                   /\ Spendable(b)' = Spendable(b)
<1> USE ConstantsAreSmall
<1> DEFINE extra == Positive(n - reservations[j].amount)
<1>0. TypeOK
  BY DEF BooksInv
<1>1. extra \in Nat
  BY <1>0 DEF TypeOK, Reservation, Positive, Amount
<1>2. /\ available[a] >= extra
      /\ available' = [available EXCEPT ![a] = @ - extra]
      /\ lots' = Drained(a)
      /\ UNCHANGED <<reserved, reservations, ledger, now>>
  BY DEF CommitRaises
<1> HIDE DEF extra
<1>3. /\ lots' \in [Grants -> Lot]
      /\ \A g \in Grants : lots'[g].owner = lots[g].owner
  BY <1>0, <1>2 DEF Drained, TypeOK, Lot
<1>4. /\ available' \in [Accounts -> Int]
      /\ \A b \in Accounts : /\ available'[b] >= 0
                              /\ available'[b] <= available[b]
  BY <1>0, <1>1, <1>2 DEF TypeOK, BooksInv, NoOverdraft
<1>5. TypeOK'
  BY <1>0, <1>2, <1>3, <1>4 DEF TypeOK
<1>6. GrantsAreBooked'
  BY <1>2, <1>3 DEF BooksInv, GrantsAreBooked
<1>7. ReservedMatchesHolds'
  BY <1>2
  DEF BooksInv, ReservedMatchesHolds, HoldsOf, Held, Total, Credits
<1>8. BooksInv'
  BY <1>4, <1>5, <1>6, <1>7 DEF BooksInv, NoOverdraft
<1>9. ASSUME NEW b \in Accounts
      PROVE  Wallet(b)' <= Wallet(b) /\ Spendable(b)' = Spendable(b)
  <2>1. Spendable(b)' = Spendable(b)
    BY <1>2 DEF Spendable, Booked, BookedAmount, Total, Credits
  <2>2. /\ available[b] \in Int /\ available'[b] \in Int
        /\ reserved[b] \in Int /\ reserved'[b] = reserved[b]
    BY <1>0, <1>2, <1>4 DEF TypeOK
  <2> QED
    BY <1>4, <2>1, <2>2 DEF Wallet
<1> QED
  BY <1>8, <1>9

(* Every step keeps the invariant.                                         *)
LEMMA MemoryPreserved ==
    ASSUME MemoryInv, [MemoryNext]_vars
    PROVE  MemoryInv'
<1>0. BooksInv
  BY DEF MemoryInv
<1>1. ASSUME NEW b \in Accounts, BooksInv'
      PROVE  /\ Wallet(b) \in Int /\ Spendable(b) \in Int
             /\ Wallet(b)' \in Int /\ Spendable(b)' \in Int
  <2>1. NaturalBooks(b) /\ NaturalBooks(b)'
    BY <1>0, <1>1, NaturalSums, NaturalBooksAgain
  <2> QED
    BY <1>0, <1>1, <2>1 DEF NaturalBooks, Wallet, Spendable, BooksInv, TypeOK
<1>2. CASE [Next]_vars
  <2>1. BooksInv' /\ MoveTogether
    BY <1>0, <1>2, StepsMoveTogether
  <2>2. ASSUME NEW b \in Accounts
        PROVE  Wallet(b)' <= Spendable(b)'
    <3>1. Wallet(b)' - Wallet(b) = Spendable(b)' - Spendable(b)
      BY <2>1 DEF MoveTogether
    <3>2. Wallet(b) <= Spendable(b)
      BY DEF MemoryInv
    <3> QED
      BY <1>1, <2>1, <3>1, <3>2
  <2> QED
    BY <2>1, <2>2 DEF MemoryInv
<1>3. ASSUME NEW a \in Accounts, NEW j \in Jobs, NEW n \in Amount,
             CommitRaises(a, j, n)
      PROVE  MemoryInv'
  <2>1. /\ BooksInv'
        /\ \A b \in Accounts : /\ Wallet(b)' <= Wallet(b)
                                /\ Spendable(b)' = Spendable(b)
    BY <1>0, <1>3, RaisingOnlyTakes
  <2>2. ASSUME NEW b \in Accounts
        PROVE  Wallet(b)' <= Spendable(b)'
    <3>1. Wallet(b) <= Spendable(b)
      BY DEF MemoryInv
    <3> QED
      BY <1>1, <2>1, <3>1
  <2> QED
    BY <2>1, <2>2 DEF MemoryInv
<1>4. MemoryNext =>
        \/ Next
        \/ \E a \in Accounts, j \in Jobs, n \in Amount : CommitRaises(a, j, n)
  BY DEF MemoryNext, Next, MemoryGrant, MemoryReserve, MemoryCommit,
         MemoryRelease
<1> QED
  BY <1>2, <1>3, <1>4

(* Whatever raises half way, no wallet of the dictionary variant ever has  *)
(* a credit that was not granted or that was spent, and what it reserves   *)
(* is what its active holds set aside.                                     *)
THEOREM NothingIsMadeUpInMemory == MemorySpec => []NothingIsMadeUp
<1>1. Init => MemoryInv
  <2> SUFFICES ASSUME Init PROVE MemoryInv
    OBVIOUS
  <2>1. /\ BooksInv
        /\ \A a \in Accounts : Wallet(a) = 0 /\ Spendable(a) = 0
    BY BooksInitially
  <2> QED
    BY <2>1 DEF MemoryInv
<1>2. MemoryInv /\ [MemoryNext]_vars => MemoryInv'
  BY MemoryPreserved
<1>3. MemoryInv => NothingIsMadeUp
  BY DEF MemoryInv, BooksInv, NothingIsMadeUp, NoOverdraft, Wallet, Spendable
<1> QED
  BY <1>1, <1>2, <1>3, PTL DEF MemorySpec
====
