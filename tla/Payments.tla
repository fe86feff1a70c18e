---- MODULE Payments ----
(***************************************************************************)
(* Buying credits: checkouts, the client's verification of a payment and   *)
(* Razorpay's webhooks (src/api/routes/billing.py), and the grants they    *)
(* lead to (src/billing/service.py, src/billing/store.py).  A request is   *)
(* served by a handler that calls the store in a worker thread, one call   *)
(* after the other; an action is one call with what follows it up to the   *)
(* next one.  A call that raises, like a server that dies, leaves what the *)
(* earlier calls did.  A request the handler refuses before it changes     *)
(* anything (a bad signature, an unknown checkout, another user's, another *)
(* package, missing ids) shows only as the guard it did not meet.          *)
(*                                                                         *)
(* Razorpay is external: the client pays, the payment is captured, and an  *)
(* event is sent again until it is answered with success.  Payments of a   *)
(* subscription carry its notes in subscription.charged only, those of an  *)
(* order in both of its events.                                            *)
(***************************************************************************)
EXTENDS Integers, FiniteSets

CONSTANTS
    Users,
    Kinds,        \* what can be bought, some of the three kinds below
    Handlers,     \* requests served at the same time
    NoPayment,    \* the payment of an idle handler
    MaxCharges,   \* bound: payments of one subscription
    MaxCheckouts, \* bound: checkouts asked for
    MaxTime,      \* bound: the clock stops here
    MaxFaults     \* bound: store calls that raise, servers that die

(* What the constants may be. *)
PaymentsConstants ==
    /\ Kinds \subseteq {"subscription", "pro_order", "topup"}
    /\ MaxCharges \in Nat \ {0} /\ MaxCheckouts \in Nat
    /\ MaxTime \in Nat /\ MaxFaults \in Nat

(* A checkout is the order or subscription that Razorpay made for a user.  *)
Checkouts == Users \X Kinds
Owner(c) == c[1]
Package(c) == IF c[2] = "topup" THEN "topup" ELSE "pro"

(* A payment id; an order is paid once, a subscription every month.        *)
Payments == {p \in Checkouts \X (1..MaxCharges) :
               p[1][2] = "subscription" \/ p[2] = 1}
Checkout(p) == p[1]

(* The events Razorpay sends about a payment, and whether XMem's notes,    *)
(* which name the user and the package, come with them.                    *)
Names == {"payment.captured", "order.paid", "subscription.charged"}
SentFor(p) == {"payment.captured", IF Checkout(p)[2] = "subscription"
                                   THEN "subscription.charged"
                                   ELSE "order.paid"}
HasNotes(p, name) ==
    ~(Checkout(p)[2] = "subscription" /\ name = "payment.captured")

VARIABLES
    paid,      \* Razorpay: payments the client has authorised
    captured,  \* Razorpay: those it has captured and sends events for
    answered,  \* Razorpay: events answered with success, not sent again
    checkouts, \* billing_payments: the status of each checkout document
    invoices,  \* billing_payments: payments that have an invoice
    marked,    \* billing_payments: webhook events handled
    account,   \* billing_accounts: plan and end of the paid period
    trials,    \* credit_ledger: users granted their free trial
    ledger,    \* credit_ledger: the grants for payments
    handler,   \* the requests being served
    faults,    \* how many calls have failed so far
    now

vars == <<paid, captured, answered, checkouts, invoices, marked, account,
          trials, ledger, handler, faults, now>>
razorpay == <<paid, captured, answered>>
store == <<checkouts, invoices, marked, account, trials, ledger>>

Grant == [payment: Payments, checkout: Checkouts, user: Users,
          package: {"pro", "topup"}, expires: 0..MaxTime]

(* A request: whom it serves, about what, and the next call to the store.  *)
(* A checkout request is about the first payment its checkout will get.    *)
Requests == [path: {"none", "checkout", "verify", "webhook"},
             step: {"idle", "account", "trial", "save", "plan", "grant",
                    "invoice", "close", "mark"},
             user: Users, payment: Payments, name: Names \cup {"none"}]
Idle == [path |-> "none", step |-> "idle", user |-> NoPayment,
         payment |-> NoPayment, name |-> "none"]

At(h, step) == handler[h].step = step
Go(h, step) == handler' = [handler EXCEPT ![h].step = step]
Done(h) == handler' = [handler EXCEPT ![h] = Idle]
Begin(h, path, step, u, p, name) ==
    handler' = [handler EXCEPT ![h] =
        [path |-> path, step |-> step, user |-> u, payment |-> p,
         name |-> name]]

-----------------------------------------------------------------------------
Init ==
    /\ paid = {} /\ captured = {} /\ answered = {}
    /\ checkouts = [c \in Checkouts |-> "none"]
    /\ invoices = {} /\ marked = {}
    /\ account = [u \in Users |-> [plan |-> "none", until |-> 0]]
    /\ trials = {} /\ ledger = {}
    /\ handler = [h \in Handlers |-> Idle]
    /\ faults = 0 /\ now = 0

(* create_razorpay_checkout: the client's account and its free trial come  *)
(* first, then the order at Razorpay and the checkout document.  Each      *)
(* request gets an id of its own, which the client learns from the answer. *)
Asked(c) == checkouts[c] # "none"
              \/ \E h \in Handlers : handler[h].path = "checkout"
                                    /\ handler[h].payment = <<c, 1>>

AskCheckout(h, c) ==
    /\ At(h, "idle")
    /\ ~Asked(c)
    /\ Cardinality({d \in Checkouts : Asked(d)}) < MaxCheckouts
    /\ Begin(h, "checkout", "account", Owner(c), <<c, 1>>, "none")
    /\ UNCHANGED <<razorpay, store, faults, now>>

SaveCheckout(h) ==
    /\ At(h, "save")
    /\ checkouts' = [checkouts EXCEPT ![Checkout(handler[h].payment)] =
                        "created"]
    /\ Done(h)
    /\ UNCHANGED <<razorpay, invoices, marked, account, trials, ledger,
                   faults, now>>

(* verify_razorpay_payment: the client shows a signed payment of one of    *)
(* its checkouts, as often as it likes.                                    *)
Verify(h, u, p) ==
    /\ At(h, "idle")
    /\ p \in paid
    /\ checkouts[Checkout(p)] # "none"
    /\ Owner(Checkout(p)) = u
    /\ Begin(h, "verify", "account", u, p, "none")
    /\ UNCHANGED <<razorpay, store, faults, now>>

(* Mutant: the event is marked before its credits are granted. *)
DeliverMarked(h, p, name) ==
    /\ At(h, "idle")
    /\ p \in captured /\ <<p, name>> \notin answered \cup marked
    /\ Begin(h, "webhook", IF HasNotes(p, name) THEN "account" ELSE "mark",
             Owner(Checkout(p)), p, name)
    /\ marked' = marked \cup {<<p, name>>}
    /\ UNCHANGED <<razorpay, checkouts, invoices, account, trials, ledger,
                   faults, now>>

(* razorpay_webhook up to has_payment_event: an event seen before is       *)
(* answered; one without notes has nothing to grant.                       *)
Deliver(h, p, name) ==
    /\ At(h, "idle")
    /\ p \in captured /\ <<p, name>> \notin answered
    /\ IF <<p, name>> \in marked
       THEN answered' = answered \cup {<<p, name>>} /\ UNCHANGED handler
       ELSE /\ Begin(h, "webhook",
                     IF HasNotes(p, name) THEN "account" ELSE "mark",
                     Owner(Checkout(p)), p, name)
            /\ UNCHANGED answered
    /\ UNCHANGED <<paid, captured, store, faults, now>>

-----------------------------------------------------------------------------
(* The calls to the store. *)

(* ensure_account, with its wallet. *)
EnsureAccount(h) ==
    LET r == handler[h] IN
    /\ At(h, "account")
    /\ account' = [account EXCEPT ![r.user].plan =
                      IF @ = "none" THEN "free" ELSE @]
    /\ Go(h, CASE r.path = "checkout" -> "trial"
               [] r.path # "checkout" /\ Package(Checkout(r.payment)) = "pro"
                    -> "plan"
               [] OTHER -> "grant")
    /\ UNCHANGED <<razorpay, checkouts, invoices, marked, trials, ledger,
                   faults, now>>

(* ensure_billing_account: the free trial, once per user; it starts a      *)
(* checkout and ends a verification, which answers with a summary.         *)
GrantTrial(h) ==
    /\ At(h, "trial")
    /\ trials' = trials \cup {handler[h].user}
    /\ IF handler[h].path = "checkout" THEN Go(h, "save") ELSE Done(h)
    /\ UNCHANGED <<razorpay, checkouts, invoices, marked, account, ledger,
                   faults, now>>

(* grant_pro_subscription, update_account: the plan, for a month from the  *)
(* moment the payment is handled.                                          *)
UpdateAccount(h) ==
    /\ At(h, "plan")
    /\ account' = [account EXCEPT ![handler[h].user] =
                      [plan |-> "pro", until |-> now]]
    /\ Go(h, "grant")
    /\ UNCHANGED <<razorpay, checkouts, invoices, marked, trials, ledger,
                   faults, now>>

NewGrant(r) ==
    [payment |-> r.payment, checkout |-> Checkout(r.payment),
     user |-> r.user, package |-> Package(Checkout(r.payment)),
     expires |-> now]

(* grant_credits: the idempotency key is made of the checkout and the      *)
(* payment.                                                                *)
Granted(r) ==
    \E g \in ledger : g.payment = r.payment /\ g.checkout = Checkout(r.payment)

GrantCredits(h) ==
    /\ At(h, "grant")
    /\ ledger' = IF Granted(handler[h]) THEN ledger
                 ELSE ledger \cup {NewGrant(handler[h])}
    /\ Go(h, "invoice")
    /\ UNCHANGED <<razorpay, checkouts, invoices, marked, account, trials,
                   faults, now>>

(* record_payment_invoice: the invoice, by payment id, ... *)
RecordInvoice(h) ==
    /\ At(h, "invoice")
    /\ invoices' = invoices \cup {handler[h].payment}
    /\ Go(h, "close")
    /\ UNCHANGED <<razorpay, checkouts, marked, account, trials, ledger,
                   faults, now>>

(* ... then the checkout, when there is one. *)
CloseCheckout(h) ==
    LET c == Checkout(handler[h].payment) IN
    /\ At(h, "close")
    /\ checkouts' = IF checkouts[c] = "none" THEN checkouts
                    ELSE [checkouts EXCEPT ![c] = "paid"]
    /\ Go(h, IF handler[h].path = "verify" THEN "trial" ELSE "mark")
    /\ UNCHANGED <<razorpay, invoices, marked, account, trials, ledger,
                   faults, now>>

(* mark_payment_event: whoever comes first marks it, both answer.          *)
MarkEvent(h) ==
    LET e == <<handler[h].payment, handler[h].name>> IN
    /\ At(h, "mark")
    /\ marked' = marked \cup {e}
    /\ answered' = answered \cup {e}
    /\ Done(h)
    /\ UNCHANGED <<paid, captured, checkouts, invoices, account, trials,
                   ledger, faults, now>>

(* Mutant: the webhook answers success although a call raised. *)
FailAnswered(h) ==
    /\ ~At(h, "idle")
    /\ faults < MaxFaults
    /\ faults' = faults + 1
    /\ answered' = answered \cup {<<handler[h].payment, handler[h].name>>}
    /\ Done(h)
    /\ UNCHANGED <<paid, captured, store, now>>

(* A store call raises (a lost transaction, two upserts of one invoice) or *)
(* the server dies: the request ends without an answer of success.         *)
Fail(h) ==
    /\ ~At(h, "idle")
    /\ faults < MaxFaults
    /\ faults' = faults + 1
    /\ Done(h)
    /\ UNCHANGED <<razorpay, store, now>>

-----------------------------------------------------------------------------
(* The client pays a checkout it was told of; a subscription is charged    *)
(* again once its earlier payments are captured.                           *)
Pay(p) ==
    /\ p \notin paid
    /\ checkouts[Checkout(p)] # "none"
    /\ \A k \in 1..(p[2] - 1) : <<Checkout(p), k>> \in captured
    /\ paid' = paid \cup {p}
    /\ UNCHANGED <<captured, answered, store, handler, faults, now>>

Capture(p) ==
    /\ p \in paid \ captured
    /\ captured' = captured \cup {p}
    /\ UNCHANGED <<paid, answered, store, handler, faults, now>>

Tick ==
    /\ now < MaxTime
    /\ now' = now + 1
    /\ UNCHANGED <<razorpay, store, handler, faults>>

Call(h) ==
    \/ EnsureAccount(h) \/ GrantTrial(h) \/ SaveCheckout(h)
    \/ UpdateAccount(h) \/ GrantCredits(h) \/ RecordInvoice(h)
    \/ CloseCheckout(h) \/ MarkEvent(h)

Delivery ==
    \E h \in Handlers, p \in Payments :
       \E name \in SentFor(p) : Deliver(h, p, name)

Next ==
    \/ \E h \in Handlers : Call(h) \/ Fail(h)
    \/ \E h \in Handlers, c \in Checkouts : AskCheckout(h, c)
    \/ \E h \in Handlers, u \in Users, p \in Payments : Verify(h, u, p)
    \/ Delivery
    \/ \E p \in Payments : Pay(p) \/ Capture(p)
    \/ Tick

Spec == Init /\ [][Next]_vars

(* A request that has begun goes on, and while an event is not answered    *)
(* Razorpay sends one again, however busy the servers are.                 *)
Fairness == SF_vars(Delivery) /\ \A h \in Handlers : WF_vars(Call(h))

FairSpec == Spec /\ Fairness

-----------------------------------------------------------------------------
TypeOK ==
    /\ paid \subseteq Payments /\ captured \subseteq paid
    /\ answered \subseteq Payments \X Names
    /\ checkouts \in [Checkouts -> {"none", "created", "paid"}]
    /\ invoices \subseteq Payments
    /\ marked \subseteq Payments \X Names
    /\ account \in [Users -> [plan: {"none", "free", "pro"},
                              until: 0..MaxTime]]
    /\ trials \subseteq Users
    /\ ledger \subseteq Grant
    /\ handler \in [Handlers -> Requests \cup {Idle}]
    /\ faults \in 0..MaxFaults /\ now \in 0..MaxTime

(* Credits are granted for payments that were made, once each, to the user *)
(* who owns the checkout and for the package it names, however often the   *)
(* client verifies a payment and Razorpay repeats its events.              *)
PaidOnce ==
    \A g \in ledger :
        /\ g.payment \in paid
        /\ g.checkout = Checkout(g.payment)
        /\ g.user = Owner(g.checkout) /\ g.package = Package(g.checkout)
        /\ \A other \in ledger : other.payment = g.payment => other = g

(* An event that will not be handled again has had its effect: the credits *)
(* and the invoice are there, and a pro payment has set the plan.          *)
MarkedIsSettled ==
    \A e \in marked :
        HasNotes(e[1], e[2]) =>
          /\ \E g \in ledger : g.payment = e[1]
          /\ e[1] \in invoices
          /\ checkouts[Checkout(e[1])] = "paid"
          /\ Package(Checkout(e[1])) = "pro" =>
                account[Owner(Checkout(e[1]))].plan = "pro"

(* Both together: what was paid is granted once, and what is marked as      *)
(* handled was granted.                                                     *)
PaymentsAreSettled == PaidOnce /\ MarkedIsSettled

(* Every captured payment ends up credited and invoiced, although calls    *)
(* fail half way and the client may never come back to verify it: again    *)
(* and again none is left that was not.                                    *)
PaidIsCredited ==
    []<>(\A p \in captured : p \in invoices /\ \E g \in ledger : g.payment = p)
====
