---- MODULE CreditHold ----
(***************************************************************************)
(* What the billing store promises to ONE job (src/billing/store.py): its  *)
(* credits are set aside at most once at a time, every hold is settled     *)
(* exactly one way, and a committed hold is final and was debited once.    *)
(* CreditLedger implements this specification for each of its jobs;        *)
(* JobWorkflow uses it as the billing side of the job it runs.             *)
(***************************************************************************)
EXTENDS Naturals

VARIABLES
    hold,     \* status of the job's reservation document
    debits    \* number of debit entries the ledger holds for the job

holdVars == <<hold, debits>>

HoldStatus == {"none", "active", "committed", "released"}

HoldInit ==
    /\ hold = "none"
    /\ debits = 0

(* reserve_credits takes a new hold only from a job that has none or whose *)
(* last one was released; otherwise it hands back the one that exists.     *)
TakeHold ==
    /\ hold \in {"none", "released"}
    /\ hold' = "active"
    /\ UNCHANGED debits

(* commit_debit: the active hold becomes the job's only debit. *)
CommitHold ==
    /\ hold = "active"
    /\ hold' = "committed"
    /\ debits' = debits + 1

(* release_reservation: the active hold goes back to the wallet. *)
ReleaseHold ==
    /\ hold = "active"
    /\ hold' = "released"
    /\ UNCHANGED debits

HoldNext == TakeHold \/ CommitHold \/ ReleaseHold

HoldSpec == HoldInit /\ [][HoldNext]_holdVars
====
