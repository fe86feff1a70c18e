---- MODULE MCSettles ----
(***************************************************************************)
(* What the service has begun and must bring to an end, side by side: a v2 *)
(* job with its workflows (JobWorkflow) and the payments (Payments).  They *)
(* share nothing, so in a behaviour one of them runs and the other rests   *)
(* in its initial state.                                                   *)
(***************************************************************************)
EXTENDS JobWorkflow

CONSTANTS Users, Kinds, Servers, NoPayment,            \* of the payments
          MaxCharges, MaxCheckouts, MaxTime, MaxFaults \* and their bounds

VARIABLES part, paid, captured, answered, checkouts, invoices, marked,
          account, trials, ledger, server, faults, now

payVars == <<paid, captured, answered, checkouts, invoices, marked, account,
             trials, ledger, server, faults, now>>
allVars == <<part, vars, payVars>>

P == INSTANCE Payments WITH handler <- server, Handlers <- Servers

ASSUME PaymentsAssumption == P!PaymentsConstants

AllInit == part \in {"workflow", "payments"} /\ Init /\ P!Init

Workflow(Move) == part = "workflow" /\ Move /\ UNCHANGED <<part, payVars>>
Payment(Move) == part = "payments" /\ Move /\ UNCHANGED <<part, vars>>

AllNext ==
    \/ Workflow(\E h \in Handlers : Arrive(h))
    \/ Workflow(\E h \in Handlers : Continue(h))
    \/ Workflow(\E w \in Workflows : Progress(w))
    \/ Workflow(\E w \in Workflows : StrayStep(w))
    \/ Workflow(\E w \in Workflows : AttemptFails(w))
    \/ Payment(\E h \in Servers : P!Call(h))
    \/ Payment(\E h \in Servers : P!Fail(h))
    \/ Payment(\E h \in Servers, c \in P!Checkouts : P!AskCheckout(h, c))
    \/ Payment(\E h \in Servers, u \in Users, p \in P!Payments : P!Verify(h, u, p))
    \/ Payment(\E h \in Servers, p \in P!Payments :
                  \E name \in P!SentFor(p) : P!Deliver(h, p, name))
    \/ Payment(\E p \in P!Payments : P!Pay(p))
    \/ Payment(\E p \in P!Payments : P!Capture(p))
    \/ Payment(P!Tick)

(* The fairness of each: handlers and workflows that have begun go on, and *)
(* the provider repeats its webhooks.                                      *)
AllSpec ==
    /\ AllInit /\ [][AllNext]_allVars
    /\ \A h \in Handlers : WF_allVars(Workflow(Continue(h)))
    /\ \A w \in Workflows :
          WF_allVars(Workflow(Progress(w))) /\ WF_allVars(Workflow(StrayStep(w)))
    /\ SF_allVars(Payment(P!Delivery))
    /\ \A h \in Servers : WF_allVars(Payment(P!Call(h)))

-----------------------------------------------------------------------------
(* Payments: a payment grants its credits once, whoever tells of it.       *)
PaymentsAreSettled == P!PaymentsAreSettled

(* Payments: what was paid is credited in the end.                         *)
PaidIsCredited == P!PaidIsCredited
====
