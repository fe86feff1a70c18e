---- MODULE Usage ----
(***************************************************************************)
(* What a job pays for its model calls.  An activity of a job's workflow   *)
(* runs its agents under a billing context (src/billing/context.py); each  *)
(* answer of a model leaves a usage event under the job the context names  *)
(* (src/agents/base.py), with its price from the catalog                   *)
(* (src/billing/pricing.py).  When the workflow is done, the events of the *)
(* job are added up and turned into credits (src/billing/service.py).      *)
(*                                                                         *)
(* A model's name is a sequence of parts, a price a whole number of units, *)
(* of which UnitsPerCredit are worth a credit, margin included.            *)
(***************************************************************************)
EXTENDS Integers, Sequences, FiniteSets, SequencesExt

CONSTANTS
    Jobs,
    Tasks,           \* activities, in attempts and domains of their own
    JobOf,           \* whose: billing_job_id or job_id of the payload
    None,
    Routes,          \* parts that end in "/", as in openrouter's names
    Vendor,          \* the provider a name's first part tells, or None
    Dot, Dash,
    Catalog,         \* sequence of entries
    Requests,        \* [provider, model, tokens] a task may have answered
    Payload,         \* of a job: [type, effort, texts], texts as their lengths
    UnitsPerCredit, MinCredits,
    MaxCalls         \* bound: calls of all tasks

(* What the constants may be. *)
UsageConstants ==
    /\ UnitsPerCredit \in Nat \ {0} /\ MinCredits \in Nat /\ MaxCalls \in Nat
    /\ JobOf \in [Tasks -> Jobs]

VARIABLES
    context,  \* the billing context of each task
    pc,
    events,   \* usage_events
    made,     \* history: calls answered in each task, in the order of events
    bill,     \* credits a job was debited
    due       \* history: the calls of the job answered when it was debited

vars == <<context, pc, events, made, bill, due>>

AtLeast(a, b) == IF a > b THEN a ELSE b
AtMost(a, b) == IF a < b THEN a ELSE b
Ceiling(a, b) == (a + b - 1) \div b
Sum(s, F(_)) == FoldLeft(LAMBDA total, x : total + F(x), 0, s)

-----------------------------------------------------------------------------
(* Prices: ProviderPricingCatalog, ModelPricing and UsageCostCalculator.   *)

(* _infer_provider *)
Provider(request) ==
    IF Vendor[request.model[1]] # None THEN Vendor[request.model[1]]
                                       ELSE request.provider

(* The name, the name without its prefix, and a claude name with dashes. *)
Aliases(provider, model) ==
    LET short == IF model[1] \in Routes THEN {Tail(model)} ELSE {}
        dashed(name) == [k \in 1..Len(name) |->
                           IF name[k] = Dot THEN Dash ELSE name[k]]
    IN {model} \cup short
         \cup {dashed(name) : name \in
                 {n \in {model} \cup short : Vendor[n[1]] = "claude"
                                              /\ n[1] \notin Routes}}

(* The catalog's entry of that name, else the longest of those that a      *)
(* name begins or ends with, or that begin with a name.                    *)
Resolve(provider, model) ==
    LET names == Aliases(provider, model)
        own == {k \in DOMAIN Catalog : Catalog[k].provider = provider}
        direct == {k \in own : Catalog[k].model \in names}
        near == {k \in own : \E name \in names :
                    \/ IsPrefix(Catalog[k].model, name)
                    \/ IsPrefix(name, Catalog[k].model)
                    \/ IsSuffix(Catalog[k].model, name)}
        longest == {k \in near : \A j \in near :
                       Len(Catalog[j].model) <= Len(Catalog[k].model)}
    IN IF direct # {} THEN Catalog[CHOOSE k \in direct : TRUE]
       ELSE IF near = {} THEN None
       ELSE Catalog[CHOOSE k \in longest : \A j \in longest : k <= j]

(* What the providers count: prompt tokens new to them, read from and      *)
(* written to their cache; tokens said, and thought before.                *)
Report(provider, t) ==
    CASE provider = "claude" ->
           [input |-> t.fresh, cached |-> t.cached, written |-> t.written,
            output |-> t.said + t.thought, thinking |-> 0]
      [] provider = "gemini" ->
           [input |-> t.fresh + t.written + t.cached, cached |-> t.cached,
            written |-> 0, output |-> t.said, thinking |-> t.thought]
      [] OTHER ->
           [input |-> t.fresh + t.written + t.cached, cached |-> t.cached,
            written |-> 0, output |-> t.said + t.thought,
            thinking |-> t.thought]

(* UsageNormalizer: an unknown provider's details are dropped. *)
Normalize(provider, report) ==
    IF provider \in {"openai", "gemini", "claude"} THEN report
    ELSE [report EXCEPT !.cached = 0, !.thinking = 0]

(* rates_for: a long prompt has its own rates. *)
Rates(entry, usage) ==
    IF /\ entry.threshold # None
       /\ usage.input + usage.written + usage.cached > entry.threshold
    THEN <<entry.longInput, entry.longOutput>>
    ELSE <<entry.input, entry.output>>

Rate(rate, default) == IF rate = None THEN default ELSE rate

(* Mutant: cached tokens are paid as input as well. *)
UncachedAll(provider, usage) == usage.input

Uncached(provider, usage) ==
    IF provider = "claude" THEN usage.input
    ELSE usage.input - AtMost(usage.cached, usage.input)

(* calculate *)
Cost(provider, entry, usage) ==
    LET rates == Rates(entry, usage)
        cached == IF provider = "claude" THEN usage.cached
                  ELSE AtMost(usage.cached, usage.input)
        output == usage.output
                    + (IF entry.thinkingApart THEN usage.thinking ELSE 0)
    IN Uncached(provider, usage) * rates[1] + output * rates[2]
         + cached * Rate(entry.cachedInput, rates[1])
         + usage.written * Rate(entry.cacheWrite, rates[1])

(* credits_for_cost *)
Credits(cost) ==
    IF cost <= 0 THEN 0 ELSE AtLeast(MinCredits, Ceiling(cost, UnitsPerCredit))

-----------------------------------------------------------------------------
(* Estimates: estimate_tokens, content_tokens_for_job (a batch has several *)
(* texts), workflow_multiplier in tenths, estimate_required_credits        *)
(* without the buffer of the reservation.                                  *)
TokensIn(length) == Ceiling(length, 4)
Multiplier(payload) ==
    CASE payload.type = "memory_ingest" /\ payload.effort = "high" -> 25
      [] payload.type = "memory_ingest"
           /\ payload.effort \in {"standard", "medium"} -> 15
      [] payload.type = "memory_batch_ingest" -> 15
      [] payload.type = "memory_retrieve" -> 5
      [] OTHER -> 10
Estimated(job) ==
    AtLeast(1, Ceiling(Sum(Payload[job].texts, TokensIn)
                         * Multiplier(Payload[job]), 10))

-----------------------------------------------------------------------------
(* use_billing_context, around the body of an activity. *)
Enter(t) ==
    /\ pc[t] = "new"
    /\ pc' = [pc EXCEPT ![t] = "in"]
    /\ context' = [context EXCEPT ![t] = JobOf[t]]
    /\ UNCHANGED <<events, made, bill, due>>

Leave(t) ==
    /\ pc[t] = "in"
    /\ pc' = [pc EXCEPT ![t] = "out"]
    /\ context' = [context EXCEPT ![t] = None]
    /\ UNCHANGED <<events, made, bill, due>>

(* record_model_usage: the event, priced if the model is in the catalog. *)
Event(job, request) ==
    LET provider == Provider(request)
        usage == Normalize(provider, Report(provider, request.tokens))
        entry == Resolve(provider, request.model)
    IN [job |-> job, provider |-> provider, usage |-> usage,
        cost |-> IF entry = None THEN None ELSE Cost(provider, entry, usage)]

(* _track_llm_call.  An event that cannot be stored is forgotten. *)
Answer(t, request, stored) ==
    /\ pc[t] = "in" /\ Len(made) < MaxCalls
    /\ IF context[t] # None /\ stored
       THEN /\ events' = Append(events, Event(context[t], request))
            /\ made' = Append(made, [task |-> t, request |-> request])
       ELSE UNCHANGED <<events, made>>
    /\ UNCHANGED <<context, pc, bill, due>>

(* list_usage_events *)
EventsOf(job) == SelectSeq(events, LAMBDA e : e.job = job)

(* usage_cost_for_job, commit_job_billing: the price of the job's calls is *)
(* rounded up once; a job without a price pays what was estimated.         *)
Final(job) ==
    LET priced == SelectSeq(EventsOf(job), LAMBDA e : e.cost # None)
        charged == Credits(Sum(priced, LAMBDA e : e.cost))
    IN IF charged > 0 THEN charged ELSE Estimated(job)

(* mark_job_succeeded_activity, once the pipeline has run in some attempt; *)
(* a repeated commit changes nothing.                                      *)
Commit(job) ==
    /\ bill[job] = None
    /\ \E t \in Tasks : JobOf[t] = job /\ pc[t] = "out"
    /\ bill' = [bill EXCEPT ![job] = Final(job)]
    /\ due' = [due EXCEPT ![job] =
                 SelectSeq(made, LAMBDA c : JobOf[c.task] = job)]
    /\ UNCHANGED <<context, pc, events, made>>

Init ==
    /\ context = [t \in Tasks |-> None]
    /\ pc = [t \in Tasks |-> "new"]
    /\ events = <<>> /\ made = <<>>
    /\ bill = [j \in Jobs |-> None]
    /\ due = [j \in Jobs |-> <<>>]

Next ==
    \/ \E t \in Tasks : Enter(t) \/ Leave(t)
    \/ \E t \in Tasks, r \in Requests, stored \in BOOLEAN : Answer(t, r, stored)
    \/ \E j \in Jobs : Commit(j)

Spec == Init /\ [][Next]_vars

-----------------------------------------------------------------------------
(* Every token once, at the rate of its class. *)
Fair(request, entry) ==
    LET t == request.tokens
        long == entry.threshold # None
                  /\ t.fresh + t.cached + t.written > entry.threshold
        input == IF long THEN entry.longInput ELSE entry.input
        output == IF long THEN entry.longOutput ELSE entry.output
        written == IF Provider(request) = "claude"
                   THEN Rate(entry.cacheWrite, input) ELSE input
    IN t.fresh * input + t.cached * Rate(entry.cachedInput, input)
         + t.written * written + (t.said + t.thought) * output

(* rates_for counts cached tokens twice where input_tokens includes them:  *)
(* such a prompt is taken for a long one.                                  *)
TakenForLong(request, entry) ==
    LET t == request.tokens IN
    /\ Provider(request) # "claude" /\ entry.threshold # None
    /\ t.fresh + t.cached + t.written <= entry.threshold
    /\ t.fresh + t.cached + t.written + t.cached > entry.threshold

(* A job is debited the price of the calls its own activities had answered *)
(* by then, all attempts and domains together, each token once and at the  *)
(* rate of its class whatever the provider's way to count, rounded up      *)
(* once: record_model_usage, usage_cost_for_job and commit_job_billing.    *)
BillsAreExact ==
    \A j \in Jobs :
        LET EntryOf(c) == Resolve(Provider(c.request), c.request.model)
            priced == SelectSeq(due[j], LAMBDA c : EntryOf(c) # None)
            price == Sum(priced, LAMBDA c : Fair(c.request, EntryOf(c)))
        IN (/\ bill[j] # None
            /\ \A k \in DOMAIN priced :
                  ~TakenForLong(priced[k].request, EntryOf(priced[k]))) =>
           bill[j] = IF price = 0 THEN Estimated(j)
                     ELSE AtLeast(MinCredits, Ceiling(price, UnitsPerCredit))

====
