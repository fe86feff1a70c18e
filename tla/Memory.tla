---- MODULE Memory ----
(***************************************************************************)
(* Remembering a conversation: the lanes of an ingestion that write to a   *)
(* vector store (src/pipelines/ingest.py), the judge that decides what to  *)
(* write (src/agents/judge.py), the weaver that executes the decisions     *)
(* (src/pipelines/weaver.py) and the store (src/storage).  An ingestion    *)
(* takes its chunks one after the other.  For each, an agent extracts      *)
(* items, the judge looks for what is known of them, and the weaver        *)
(* carries out its operations; calls to the store run in worker threads,   *)
(* so that ingestions interleave between them.                             *)
(*                                                                         *)
(* An item and the content of a record are a topic and a memo.  What a     *)
(* model answers is any of a set of answers.  The ingestions share one     *)
(* pipeline, hence one weaver.                                             *)
(***************************************************************************)
EXTENDS Integers, Sequences, FiniteSets

CONSTANTS
    Users,
    Topics, Memos,
    Ingests,     \* ingestions, each in one lane
    None,        \* no id, no content, no memo
    Verdicts,    \* the operation sequences a model may answer as judge
    Scenarios,   \* what is ingested (works) and known before (known)
    Attempts,    \* tries of one call to the store: 4 for Pinecone, else 1
    MaxFaults    \* bound: calls that fail

ASSUME MemoryAssumption ==
    /\ IsFiniteSet(Users) /\ Attempts \in Nat \ {0} /\ MaxFaults \in Nat

(* Summaries and images go through "summary"; profile facts need no model  *)
(* to be judged; snippets are written one operation at a time, to a        *)
(* namespace of their user's.                                              *)
Domains == {"profile", "summary", "snippet"}
Contents == Topics \X Memos
Types == {"ADD", "UPDATE", "DELETE", "NOOP"}
Operations == [type: Types, id: Nat \cup {None}, content: Contents \cup {None}]
Op(type, id, content) == [type |-> type, id |-> id, content |-> content]

Record == [id: Nat, user: Users, domain: Domains, space: Users \cup {None},
           content: Contents \cup {None}]

VARIABLES
    records,  \* the vector store
    nextId,   \* ids are random, never used twice
    bound,    \* weaver.snippet_vector_store: whose namespace it is
    ingest,   \* the ingestions
    told,     \* history: the last memo a user told about each topic
    loose,    \* history: users with ingestions at once, failed look-ups or
              \* an addition that stopped half way
    lost,     \* history: loose users, and those with a failed write
    faults

vars == <<records, nextId, bound, ingest, told, loose, lost, faults>>

(* ops: decisions on the chunk's items, in order, next the one to execute; *)
(* status and new: what is reported of each; pending: contents being       *)
(* added, with the number of tries so far; before: the store, as the       *)
(* weaver found it.                                                        *)
Ingest ==
    [user: Users, domain: Domains, chunks: Seq(Seq(Contents)),
     pc: {"idle", "extract", "lookup", "weave", "add", "stray", "end"},
     items: Seq(Contents), ops: Seq(Operations \cup {None}), next: Nat,
     status: Seq({"none", "SUCCESS", "FAILED", "SKIPPED"}), new: Seq(Nat),
     pending: Seq(Nat), space: Users \cup {None}, tries: Nat,
     before: SUBSET Record]

At(i, pc) == ingest[i].pc = pc
Active(i) == ingest[i].pc \notin {"idle", "end"}
Is(i, new) == ingest' = [ingest EXCEPT ![i] = new]
Fault(n) == faults + n <= MaxFaults /\ faults' = faults + n

Start(i, user, domain, chunks) ==
    [user |-> user, domain |-> domain, chunks |-> chunks, pc |-> "idle",
     items |-> <<>>, ops |-> <<>>, next |-> 1, status |-> <<>>,
     new |-> <<>>, pending |-> <<>>, space |-> None, tries |-> 0,
     before |-> {}]

-----------------------------------------------------------------------------
(* The items of a chunk. *)

(* Mutant: the first fact of a topic is kept. *)
DedupeFirst(items) ==
    SelectSeq([k \in 1..Len(items) |->
                 IF \E j \in 1..(k - 1) : items[j][1] = items[k][1]
                 THEN <<>> ELSE items[k]],
              LAMBDA item : item # <<>>)

(* _dedupe_profile_items: one fact per topic, the last memo in the first   *)
(* fact's place.                                                           *)
LastOf(items, topic) ==
    items[CHOOSE k \in 1..Len(items) :
            /\ items[k][1] = topic
            /\ \A j \in (k + 1)..Len(items) : items[j][1] # topic]
Dedupe(items) ==
    SelectSeq([k \in 1..Len(items) |->
                 IF \E j \in 1..(k - 1) : items[j][1] = items[k][1]
                 THEN <<>> ELSE LastOf(items, items[k][1])],
              LAMBDA item : item # <<>>)

(* The ingestion starts; others of its user may be under way.              *)
Begin(i) ==
    /\ At(i, "idle")
    /\ Is(i, [ingest[i] EXCEPT !.pc = "extract"])
    /\ LET u == ingest[i].user
           crowd == IF \E j \in Ingests \ {i} : Active(j) /\ ingest[j].user = u
                    THEN {u} ELSE {}
       IN loose' = loose \cup crowd /\ lost' = lost \cup crowd
    /\ UNCHANGED <<records, nextId, bound, told, faults>>

(* _run_high_effort and the extraction nodes: the agent's items of the     *)
(* next chunk.                                                             *)
Extract(i) ==
    LET g == ingest[i]
        items == IF g.domain = "profile" THEN Dedupe(Head(g.chunks))
                 ELSE Head(g.chunks)
    IN /\ At(i, "extract") /\ g.chunks # <<>>
       /\ Is(i, [g EXCEPT !.pc = IF items = <<>> THEN "extract" ELSE "lookup",
                          !.chunks = Tail(@), !.items = items, !.next = 1,
                          !.ops = [k \in 1..Len(items) |-> None]])
       /\ told' = [told EXCEPT ![g.user] = [t \in Topics |->
                     IF /\ g.domain = "profile"
                        /\ \E k \in 1..Len(items) : items[k][1] = t
                     THEN LastOf(Head(g.chunks), t)[2] ELSE @[t]]]
       /\ UNCHANGED <<records, nextId, bound, loose, lost, faults>>

Finish(i) ==
    /\ At(i, "extract") /\ ingest[i].chunks = <<>>
    /\ Is(i, [ingest[i] EXCEPT !.pc = "end"])
    /\ UNCHANGED <<records, nextId, bound, told, loose, lost, faults>>

(* A call to the store that runs in a worker thread. *)
InFlight(g) ==
    \/ g.pc = "add"
    \/ /\ g.pc = "weave" /\ g.next <= Len(g.ops)
       /\ g.ops[g.next].type = "DELETE" /\ g.ops[g.next].id # None

(* An agent of this lane or of one beside it raises: the graph stops, with *)
(* what has been written so far; the call in flight is not taken back.     *)
Abort(i) ==
    /\ Active(i) /\ ~At(i, "stray") /\ Fault(1)
    /\ Is(i, [ingest[i] EXCEPT !.pc =
                 IF InFlight(ingest[i]) THEN "stray" ELSE "end"])
    /\ lost' = lost \cup {ingest[i].user}
    /\ UNCHANGED <<records, nextId, bound, told, loose>>

-----------------------------------------------------------------------------
(* The judge. *)

(* search_by_metadata: records of the user with the item's topic. *)
Matches(g, item) ==
    {r \in records : /\ r.user = g.user /\ r.domain = "profile"
                     /\ r.content[1] = item[1]}

(* _deterministic_profile, for an item whose topic is known. *)
Decide(item, match) ==
    IF match.content = item THEN Op("NOOP", match.id, item)
                            ELSE Op("UPDATE", match.id, item)

Decided(g, k, op) ==
    LET ops == [g.ops EXCEPT ![k] = op] IN
    IF \E j \in 1..Len(ops) : ops[j] = None THEN [g EXCEPT !.ops = ops]
    ELSE [g EXCEPT !.ops = ops, !.pc = "weave", !.next = 1,
                   !.status = [j \in 1..Len(ops) |-> "none"],
                   !.new = [j \in 1..Len(ops) |-> 0], !.before = records]

(* _fetch_similar_profile_metadata: the look-ups of a chunk run in         *)
(* threads of their own; the first match decides.                          *)
Lookup(i, k) ==
    LET g == ingest[i]
        item == g.items[k]
    IN /\ At(i, "lookup") /\ g.domain = "profile"
       /\ k \in 1..Len(g.items) /\ g.ops[k] = None
       /\ \/ /\ Matches(g, item) = {}
             /\ Is(i, Decided(g, k, Op("ADD", None, item)))
          \/ \E match \in Matches(g, item) :
                Is(i, Decided(g, k, Decide(item, match)))
       /\ UNCHANGED <<records, nextId, bound, told, loose, lost, faults>>

(* A look-up that fails counts as one that found nothing. *)
LookupFails(i, k) ==
    LET g == ingest[i] IN
    /\ At(i, "lookup") /\ g.domain = "profile"
    /\ k \in 1..Len(g.items) /\ g.ops[k] = None
    /\ Fault(1)
    /\ Is(i, Decided(g, k, Op("ADD", None, g.items[k])))
    /\ loose' = loose \cup {g.user} /\ lost' = lost \cup {g.user}
    /\ UNCHANGED <<records, nextId, bound, told>>

(* _parse_response: an answer that cannot be read adds all items.  The     *)
(* judge looks for snippets in the main namespace only, finds none, and    *)
(* all are additions.                                                      *)
AsAdditions(items) == [k \in 1..Len(items) |-> Op("ADD", None, items[k])]

(* arun: the operations are what the model answers.                        *)
Ask(i, ops) ==
    LET g == ingest[i] IN
    /\ At(i, "lookup") /\ g.domain # "profile"
    /\ \/ ops = AsAdditions(g.items)
       \/ g.domain = "summary" /\ ops \in Verdicts
    /\ Is(i, [g EXCEPT !.ops = ops, !.next = 1, !.pc = "weave",
                       !.status = [j \in 1..Len(ops) |-> "none"],
                       !.new = [j \in 1..Len(ops) |-> 0],
                       !.before = records])
    /\ UNCHANGED <<records, nextId, bound, told, loose, lost, faults>>

-----------------------------------------------------------------------------
(* The weaver: Weaver.execute. *)

Batched(g) == g.domain # "snippet"
Kind(op) == IF op.type \in {"UPDATE", "DELETE"} /\ op.id = None
            THEN "ADD" ELSE op.type

(* The next operations that go to the store in one call: additions and     *)
(* deletions wait until an operation of another kind comes.                *)
Batch(g) ==
    {j \in g.next..Len(g.ops) :
        \/ j = g.next
        \/ /\ Batched(g) /\ Kind(g.ops[g.next]) \in {"ADD", "DELETE"}
           /\ \A m \in g.next..j : Kind(g.ops[m]) = Kind(g.ops[g.next])}

Upcoming(i, kind) ==
    /\ At(i, "weave") /\ ingest[i].next <= Len(ingest[i].ops)
    /\ Kind(ingest[i].ops[ingest[i].next]) = kind

(* The batch is behind, with this status for its operations. *)
Past(g, status) ==
    [g EXCEPT !.pc = "weave", !.pending = <<>>, !.tries = 0,
              !.next = @ + Cardinality(Batch(g)),
              !.status = [j \in 1..Len(@) |->
                 IF j \in Batch(g) /\ @[j] = "none" THEN status ELSE @[j]]]

Woven(i) ==
    /\ At(i, "weave") /\ ingest[i].next > Len(ingest[i].ops)
    /\ Is(i, [ingest[i] EXCEPT !.pc = "extract"])
    /\ UNCHANGED <<records, nextId, bound, told, loose, lost, faults>>

Skip(i) ==
    /\ Upcoming(i, "NOOP")
    /\ Is(i, Past(ingest[i], "SKIPPED"))
    /\ UNCHANGED <<records, nextId, bound, told, loose, lost, faults>>

(* An addition without content is skipped; one by one, the content is      *)
(* looked at before an operation without an id is turned into an addition. *)
Blank(g, j) ==
    g.ops[j].content = None /\ (Batched(g) \/ g.ops[j].type = "ADD")

(* Embeddings of the additions, of which some may fail.  The namespace is  *)
(* the weaver's current one; _node_extract_snippet binds it just before    *)
(* the first operation.                                                    *)
Embed(i, failing) ==
    LET g == ingest[i]
        left == {j \in Batch(g) \ failing : ~Blank(g, j)}
        space == IF g.domain = "snippet" THEN bound' ELSE None
    IN /\ Upcoming(i, "ADD")
       /\ failing \subseteq {j \in Batch(g) : ~Blank(g, j)}
       /\ Fault(Cardinality(failing))
       /\ bound' = IF g.domain = "snippet" /\ g.next = 1 THEN g.user ELSE bound
       /\ LET marked == [g EXCEPT !.status = [j \in 1..Len(@) |->
                           CASE j \in failing -> "FAILED"
                             [] j \in Batch(g) /\ Blank(g, j) -> "SKIPPED"
                             [] OTHER -> @[j]]]
          IN Is(i, IF left = {} THEN Past(marked, "SKIPPED")
                   ELSE [marked EXCEPT !.pc = "add", !.space = space,
                           !.pending = SelectSeq([j \in 1..Len(g.ops) |-> j],
                                                 LAMBDA j : j \in left)])
       /\ lost' = IF failing = {} THEN lost ELSE lost \cup {g.user}
       /\ UNCHANGED <<records, nextId, told, loose>>

(* The first n pending additions, with new ids. *)
Added(g, n) ==
    {[id |-> nextId + k, user |-> g.user, domain |-> g.domain,
      space |-> g.space, content |-> g.ops[g.pending[k]].content] :
        k \in 1..n}

(* The operations of the pending additions get their ids. *)
Stored(g) ==
    Past([g EXCEPT !.new = [j \in 1..Len(@) |->
             IF \E k \in 1..Len(g.pending) : g.pending[k] = j
             THEN nextId + (CHOOSE k \in 1..Len(g.pending) : g.pending[k] = j)
             ELSE @[j]]],
         "SUCCESS")

(* vector_store.add, of the whole batch. *)
Add(i) ==
    LET g == ingest[i] IN
    /\ At(i, "add")
    /\ records' = records \cup Added(g, Len(g.pending))
    /\ nextId' = nextId + Len(g.pending)
    /\ Is(i, Stored(g))
    /\ UNCHANGED <<bound, told, loose, lost, faults>>

(* It stops after n records: Pinecone takes a hundred a call, and SQLite   *)
(* keeps the rows it inserted.  with_retry tries again, with new ids.      *)
AddBreaks(i, n) ==
    LET g == ingest[i]
        over == g.tries + 1 = Attempts
    IN /\ At(i, "add") /\ n \in 0..Len(g.pending)
       /\ Fault(1)
       /\ records' = records \cup Added(g, n)
       /\ nextId' = nextId + n
       /\ Is(i, IF over THEN Past(g, "FAILED")
                ELSE [g EXCEPT !.tries = @ + 1])
       /\ loose' = IF n = 0 THEN loose ELSE loose \cup {g.user}
       /\ lost' = IF n = 0 /\ ~over THEN lost ELSE lost \cup {g.user}
       /\ UNCHANGED <<bound, told>>

Replaced(rs, id, content) ==
    {IF r.id = id THEN [r EXCEPT !.content = content] ELSE r : r \in rs}

(* _vector_update: one that finds no record becomes an addition. *)
Update(i) ==
    LET g == ingest[i]
        op == g.ops[g.next]
    IN /\ Upcoming(i, "UPDATE")
       /\ IF \E r \in records : r.id = op.id
          THEN /\ records' = Replaced(records, op.id, op.content)
               /\ Is(i, Past(g, "SUCCESS"))
          ELSE /\ Is(i, [g EXCEPT !.pc = "add", !.pending = <<g.next>>])
               /\ UNCHANGED records
       /\ UNCHANGED <<nextId, bound, told, loose, lost, faults>>

Without(rs, ids) == {r \in rs : r.id \notin ids}
IdsOf(g) == {g.ops[j].id : j \in Batch(g)}

Delete(i) ==
    /\ Upcoming(i, "DELETE")
    /\ records' = Without(records, IdsOf(ingest[i]))
    /\ Is(i, Past(ingest[i], "SUCCESS"))
    /\ UNCHANGED <<nextId, bound, told, loose, lost, faults>>

(* An update or a deletion fails in its last try, done or not. *)
WriteFails(i) ==
    LET g == ingest[i]
        op == g.ops[g.next]
    IN /\ Upcoming(i, "UPDATE") \/ Upcoming(i, "DELETE")
       /\ Fault(1)
       /\ \/ UNCHANGED records
          \/ records' = IF op.type = "DELETE" THEN Without(records, IdsOf(g))
                        ELSE Replaced(records, op.id, op.content)
       /\ Is(i, Past(g, "FAILED"))
       /\ lost' = lost \cup {g.user}
       /\ UNCHANGED <<nextId, bound, told, loose>>

(* The call that was in flight when its ingestion stopped is carried out.  *)
Straggle(i) ==
    LET g == ingest[i]
        n == Len(g.pending)
    IN /\ At(i, "stray")
       /\ records' = IF n > 0 THEN records \cup Added(g, n)
                     ELSE Without(records, IdsOf(g))
       /\ nextId' = nextId + n
       /\ Is(i, [g EXCEPT !.pc = "end"])
       /\ UNCHANGED <<bound, told, loose, lost, faults>>

-----------------------------------------------------------------------------
Init ==
    \E s \in Scenarios :
        /\ records = s.known
        /\ nextId = Cardinality(s.known)
        /\ bound = None
        /\ ingest = [i \in Ingests |-> Start(i, s.works[i].user,
                                    s.works[i].domain, s.works[i].chunks)]
        /\ told = [u \in Users |-> [t \in Topics |-> None]]
        /\ loose = {} /\ lost = {}
        /\ faults = 0

Judge(i) ==
    \/ \E k \in 1..Len(ingest[i].items) : Lookup(i, k) \/ LookupFails(i, k)
    \/ \E ops \in Verdicts \cup {AsAdditions(ingest[i].items)} : Ask(i, ops)

Weave(i) ==
    \/ Woven(i) \/ Skip(i) \/ Add(i) \/ Update(i) \/ Delete(i)
    \/ \E failing \in SUBSET (1..Len(ingest[i].ops)) : Embed(i, failing)
    \/ \E n \in 0..Len(ingest[i].pending) : AddBreaks(i, n)
    \/ WriteFails(i) \/ Straggle(i)

Next ==
    \E i \in Ingests :
        Begin(i) \/ Extract(i) \/ Finish(i) \/ Abort(i) \/ Judge(i) \/ Weave(i)

Spec == Init /\ [][Next]_vars

-----------------------------------------------------------------------------
TypeOK ==
    /\ records \subseteq Record /\ nextId \in Nat
    /\ bound \in Users \cup {None}
    /\ ingest \in [Ingests -> Ingest]
    /\ told \in [Users -> [Topics -> Memos \cup {None}]]
    /\ loose \subseteq lost /\ lost \subseteq Users /\ faults \in 0..MaxFaults

Profile(u, t) ==
    {r \in records : r.user = u /\ r.domain = "profile" /\ r.content[1] = t}

(* At most one fact is remembered of a topic, however often the user       *)
(* mentions it, in one chunk or in several, as long as the user's          *)
(* ingestions do not overlap, look-ups answer and no addition stops half   *)
(* way.                                                                    *)
TopicsAreUnique ==
    \A u \in Users \ loose, t \in Topics : Cardinality(Profile(u, t)) <= 1

(* Once a user's ingestions are over, and unless one of their calls        *)
(* failed, what is remembered of a topic is the last that was said of it.  *)
NotebookIsCurrent ==
    \A u \in Users \ lost :
        (\A i \in Ingests : ingest[i].user = u => ~Active(i)) =>
            \A t \in Topics : told[u][t] # None =>
                {r.content : r \in Profile(u, t)} = {<<t, told[u][t]>>}

(* The operations in "done", carried out one by one and in order on what   *)
(* the weaver found: what a judge means by its answer.                     *)
OneByOne(g, done) ==
    LET after[k \in 0..Len(g.ops)] ==
          IF k = 0 THEN g.before
          ELSE LET op == g.ops[k]
                   known == \E r \in after[k - 1] : r.id = op.id
               IN CASE k \notin done -> after[k - 1]
                    [] k \in done /\ op.type = "DELETE" /\ op.id # None ->
                         Without(after[k - 1], {op.id})
                    [] k \in done /\ op.type = "UPDATE" /\ known ->
                         Replaced(after[k - 1], op.id, op.content)
                    [] OTHER ->
                         after[k - 1] \cup
                           {[id |-> g.new[k], user |-> g.user,
                             domain |-> g.domain, space |-> None,
                             content |-> op.content]}
    IN after[Len(g.ops)]

(* What the weaver reports is what it did, although it batches operations  *)
(* and any call may fail: the store is what the operations reported as     *)
(* successful, and some of the failed ones, give one by one, but for       *)
(* copies of contents whose addition stopped half way.                     *)
ReportExplainsStore ==
    \A i \in Ingests :
        LET g == ingest[i]
            Told(status) == {k \in 1..Len(g.ops) : g.status[k] = status}
            contents == {g.ops[k].content : k \in 1..Len(g.ops)}
        IN (/\ g.pc \in {"extract", "end"} /\ g.ops # <<>> /\ g.next > Len(g.ops)
            /\ g.domain # "snippet"
            /\ \A j \in Ingests \ {i} : At(j, "idle")) =>
           \E some \in SUBSET Told("FAILED") :
              LET meant == OneByOne(g, Told("SUCCESS") \cup some) IN
              /\ meant \subseteq records
              /\ \A r \in records \ meant : r.content \in contents
                                             /\ r \notin g.before

====
