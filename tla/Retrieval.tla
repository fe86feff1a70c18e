----------------------------- MODULE Retrieval -----------------------------
(***************************************************************************)
(* Answering a question from a user's memories (pipelines/retrieval.py)    *)
(* and the raw search beside it (api/routes/memory.py).  The process has   *)
(* ONE pipeline object for all its requests.  A retrieval fetches the      *)
(* user's profile records, keeps them in the object, asks the model which  *)
(* tools to call, runs the calls concurrently and lets the model answer    *)
(* from what they found.  Every await gives the other requests a turn.     *)
(*                                                                         *)
(* An item of a memory is [domain, topic]; topics matter for profiles      *)
(* only, where Prefix holds the pairs <<asked, stored>> such that the      *)
(* stored key starts with the asked topic.  A source is an item with its   *)
(* owner.  The text of the answer and the order of its sources are left    *)
(* out.                                                                    *)
(***************************************************************************)
EXTENDS Integers, FiniteSets, Sequences

CONSTANTS Users,
          Requests,
          Topics,
          Prefix,
          NoUser,
          Asked,       \* the tool calls the model may ask for
          MaxCalls,    \* bound: tool calls the model asks for
          MaxChanges,  \* bound: changes of the stored memories
          MaxServed,   \* bound: retrievals and searches started
          MaxFaults    \* bound: failures of the stores and of the model

VARIABLES memory,   \* what the stores hold of each user
          cached,   \* pipeline._cached_profile_records, as sources
          request,  \* the handlers
          changes, served, faults

vars == <<memory, cached, request, changes, served, faults>>

Domains == {"temporal", "summary", "snippet"}

Item(d, t) == [domain |-> d, topic |-> t]

NoTopic == ""

Items == {Item("profile", t) : t \in Topics} \cup {Item(d, NoTopic) : d \in Domains}

Source(u, i) == [owner |-> u, domain |-> i.domain, topic |-> i.topic]

Sources == {Source(u, i) : u \in Users, i \in Items}

(* A tool call; topic is only an argument of search_profile, and "" is the *)
(* default of an argument the model left out.                              *)
Calls == {Item("profile", t) : t \in Topics \cup {NoTopic}}
            \cup {Item(d, NoTopic) : d \in Domains \cup {"unknown"}}

(* alone, kept and ever are history: no other retrieval has started since   *)
(* this one did; the items its user had all the time since, and at any time *)
(* since, less those of a store that failed.                                *)
Idle == [pc |-> "idle", user |-> NoUser, calls |-> <<>>, found |-> <<>>,
         sources |-> {}, alone |-> TRUE, kept |-> {}, ever |-> {}]

-----------------------------------------------------------------------------
(* The stores' searches.                                                    *)

StartsWith(stored, asked) == asked = NoTopic \/ <<asked, stored>> \in Prefix

(* search_by_metadata / search_by_text / search_events_by_embedding: what   *)
(* the user has in the domain.                                              *)
Has(u, d) == {Source(u, i) : i \in {j \in memory[u] : j.domain = d}}

(* The items of the domains whose stores did not fail.                      *)
Spared(items, lost) == {i \in items : i.domain \notin lost}

(* _fetch_profile_catalog; a failing store gives an empty catalog.          *)
Catalog(u, fails) == IF fails THEN {} ELSE Has(u, "profile")

(* _search_profile: by the cached records, whose user is not looked at.     *)
SearchProfile(asked) == {s \in cached : StartsWith(s.topic, asked)}

(* _execute_tool: an unknown tool finds nothing.                            *)
ExecuteTool(call, u) ==
    CASE call.domain = "profile" -> SearchProfile(call.topic)
      [] call.domain \in Domains -> Has(u, call.domain)
      [] OTHER -> {}

(* The sources of the tool results.                                         *)
Collected(q) == UNION {q.found[i] : i \in 1..Len(q.found)}

Pending == {Item("pending", NoTopic)}

(* The calls that have run, as a set of positions.                          *)
Ran(q) == {i \in 1..Len(q.calls) : q.found[i] # Pending}

(* Mutant: the summaries are added when nothing at all was asked for. *)
AsksAny(q) == q.calls # <<>>

AsksSummary(q) == \E i \in 1..Len(q.calls) : q.calls[i].domain = "summary"

-----------------------------------------------------------------------------
Init ==
    /\ memory = [u \in Users |-> Items]
    /\ cached = {}
    /\ request = [r \in Requests |-> Idle]
    /\ changes = 0
    /\ served = 0
    /\ faults = 0

Fault(fails) ==
    /\ fails => faults < MaxFaults
    /\ faults' = IF fails THEN faults + 1 ELSE faults

Goes(r, q) == request' = [request EXCEPT ![r] = q]

(* History: the retrievals that another one, r, starts beside.              *)
Disturbed(r) == [q \in Requests |->
    IF q # r /\ request[q].pc \in {"deciding", "fetching"}
      THEN [request[q] EXCEPT !.alone = FALSE] ELSE request[q]]

(* run up to the model: the catalog is fetched and kept in the object.      *)
StartRetrieval(r, u, fails) ==
    /\ request[r].pc = "idle"
    /\ served < MaxServed
    /\ Fault(fails)
    /\ served' = served + 1
    /\ cached' = Catalog(u, fails)
    /\ request' = [Disturbed(r) EXCEPT ![r] =
                      [Idle EXCEPT !.pc = "deciding", !.user = u,
                          !.kept = Spared(memory[u], IF fails THEN {"profile"} ELSE {}),
                          !.ever = memory[u]]]
    /\ UNCHANGED <<memory, changes>>

(* The model's first answer: the tools to call, or the answer itself.       *)
ModelCalls(r, calls) ==
    /\ request[r].pc = "deciding"
    /\ Goes(r, [request[r] EXCEPT
                  !.pc = IF calls = <<>> THEN "answered" ELSE "fetching",
                  !.calls = calls,
                  !.found = [i \in 1..Len(calls) |-> Pending]])
    /\ UNCHANGED <<memory, cached, changes, served, faults>>

(* One of the gathered calls comes back.                                    *)
ToolReturns(r, i) ==
    LET q == request[r]
    IN  /\ q.pc = "fetching"
        /\ i \in 1..Len(q.calls) \ Ran(q)
        /\ Goes(r, [q EXCEPT !.found[i] = ExecuteTool(q.calls[i], q.user)])
        /\ UNCHANGED <<memory, cached, changes, served, faults>>

(* All calls are back: their sources, and the summaries, which are added    *)
(* when the model did not ask for them.                                     *)
AddContext(r) ==
    LET q == request[r]
    IN  /\ q.pc = "fetching"
        /\ Ran(q) = 1..Len(q.calls)
        /\ Goes(r, [q EXCEPT
              !.pc = "answering",
              !.sources = Collected(q) \cup
                 (IF AsksSummary(q) THEN {} ELSE Has(q.user, "summary"))])
        /\ UNCHANGED <<memory, cached, changes, served, faults>>

ModelAnswers(r) ==
    /\ request[r].pc = "answering"
    /\ Goes(r, [request[r] EXCEPT !.pc = "answered"])
    /\ UNCHANGED <<memory, cached, changes, served, faults>>

(* A call or the model fails: the first exception ends the request.  Only   *)
(* the profile search cannot fail: it awaits nothing.                       *)
RetrievalFails(r) ==
    LET q == request[r]
    IN  /\ \/ q.pc \in {"deciding", "answering"}
           \/ q.pc = "fetching" /\ \E i \in 1..Len(q.calls) \ Ran(q) :
                                       q.calls[i].domain \in Domains
        /\ Fault(TRUE)
        /\ Goes(r, [Idle EXCEPT !.pc = "failed", !.user = q.user])
        /\ UNCHANGED <<memory, cached, changes, served>>

(* search_memory: each domain asked for, one after the other; a store that  *)
(* fails leaves its domain out.  Only the summary search is awaited: what   *)
(* the others found is read before it.                                      *)
StartSearch(r, u, domains, lost) ==
    /\ request[r].pc = "idle"
    /\ served < MaxServed
    /\ lost \subseteq domains \ {"summary"}
    /\ Fault(lost # {})
    /\ served' = served + 1
    /\ Goes(r, [Idle EXCEPT
          !.pc = IF "summary" \in domains THEN "searching" ELSE "searched",
          !.user = u,
          !.kept = Spared({i \in memory[u] : i.domain \in domains}, lost),
          !.ever = memory[u],
          !.sources = UNION {Has(u, d) : d \in domains \ (lost \cup {"summary"})}])
    /\ UNCHANGED <<memory, cached, changes>>

SearchSummary(r, fails) ==
    LET q == request[r]
    IN  /\ q.pc = "searching"
        /\ Fault(fails)
        /\ Goes(r, [q EXCEPT
              !.pc = "searched",
              !.kept = IF fails THEN Spared(@, {"summary"}) ELSE @,
              !.sources = @ \cup (IF fails THEN {} ELSE Has(q.user, "summary"))])
        /\ UNCHANGED <<memory, cached, changes, served>>

(* The response has been sent; the handler takes the next request.          *)
Respond(r) ==
    /\ request[r].pc \in {"answered", "searched", "failed"}
    /\ Goes(r, Idle)
    /\ UNCHANGED <<memory, cached, changes, served, faults>>

(* The ingestion, of which only the effect on the stores is of interest.    *)
Ingest(u, i) ==
    /\ changes < MaxChanges
    /\ changes' = changes + 1
    /\ memory' = [memory EXCEPT ![u] = IF i \in @ THEN @ \ {i} ELSE @ \cup {i}]
    /\ request' = [r \in Requests |->
          IF request[r].user = u
            THEN [request[r] EXCEPT !.kept = @ \ {i}, !.ever = @ \cup {i}]
            ELSE request[r]]
    /\ UNCHANGED <<cached, served, faults>>

(* What the model may ask for at once. *)
Answers == UNION {[1..n -> Asked] : n \in 0..MaxCalls}

Next ==
    \/ \E r \in Requests, u \in Users, fails \in BOOLEAN : StartRetrieval(r, u, fails)
    \/ \E r \in Requests, calls \in Answers : ModelCalls(r, calls)
    \/ \E r \in Requests, i \in 1..MaxCalls : ToolReturns(r, i)
    \/ \E r \in Requests : AddContext(r)
    \/ \E r \in Requests : ModelAnswers(r)
    \/ \E r \in Requests : RetrievalFails(r)
    \/ \E r \in Requests, u \in Users, domains \in SUBSET {"profile", "temporal", "summary"},
          lost \in SUBSET {"profile", "temporal"} : StartSearch(r, u, domains, lost)
    \/ \E r \in Requests, fails \in BOOLEAN : SearchSummary(r, fails)
    \/ \E r \in Requests : Respond(r)
    \/ \E u \in Users, i \in Items : Ingest(u, i)

Spec == Init /\ [][Next]_vars

-----------------------------------------------------------------------------
TypeOK ==
    /\ memory \in [Users -> SUBSET Items]
    /\ cached \subseteq Sources
    /\ \A r \in Requests :
          /\ request[r].pc \in {"idle", "deciding", "fetching", "answering", "answered",
                                "searching", "searched", "failed"}
          /\ request[r].user \in Users \cup {NoUser}
          /\ \A n \in 1..Len(request[r].calls) : request[r].calls[n] \in Calls
          /\ request[r].sources \subseteq Sources
          /\ request[r].kept \subseteq request[r].ever

(* What an answer has to rest on: of what its user had throughout, all the  *)
(* summaries and all that a call asked for.                                 *)
Owed(q) ==
    {i \in q.kept :
        \/ i.domain = "summary"
        \/ \E n \in 1..Len(q.calls) :
              /\ q.calls[n].domain = i.domain
              /\ StartsWith(i.topic, q.calls[n].topic)}

(* A retrieval beside which no other one starts, and every raw search, goes *)
(* by the memories of its own user: each source was stored for that user    *)
(* while the request ran, and what was stored all the time and looked for   *)
(* is among them, whatever was ingested meanwhile, however the tool calls   *)
(* interleave and whatever earlier requests left in the pipeline object.    *)
AnswersAreFromMemory ==
    \A r \in Requests :
        LET q == request[r]
            found == q.sources
        IN  /\ q.pc \in {"answering", "answered"} /\ q.alone =>
                  /\ found \subseteq {Source(q.user, i) : i \in q.ever}
                  /\ q.calls # <<>> => {Source(q.user, i) : i \in Owed(q)} \subseteq found
            /\ q.pc = "searched" =>
                  /\ found \subseteq {Source(q.user, i) : i \in q.ever}
                  /\ {Source(q.user, i) : i \in q.kept} \subseteq found

(* "Store profile records so _search_profile can reuse them": the profile   *)
(* records an answer rests on are those of the user who asked.              *)
ProfilesAreOwn ==
    \A r \in Requests :
        \A s \in request[r].sources : s.owner = request[r].user

=============================================================================
