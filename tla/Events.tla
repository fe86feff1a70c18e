---- MODULE Events ----
(***************************************************************************)
(* The events of a user: the temporal lane of an ingestion                 *)
(* (src/pipelines/ingest.py), its judge (src/agents/judge.py), the weaver  *)
(* (src/pipelines/weaver.py) and the graph they are kept in                *)
(* (src/graph/neo4j_client.py).  An event is a relationship of the user    *)
(* to a day; all queries are restricted to the user.  The judge looks up   *)
(* events by name, all items at once, and the weaver carries out its       *)
(* operations one by one, each in a worker thread.                         *)
(***************************************************************************)
EXTENDS Integers, Sequences, FiniteSets

CONSTANTS
    Days,      \* the days that have a node in the graph
    Dates,     \* what an agent may give as a date, days or not
    Names, Descs,
    Ingests,
    Tellings,  \* what an ingestion may be told: sequences of items
    None,
    MaxTries,  \* tries of one call to the graph, 3 in the code
    MaxFaults  \* bound: calls that fail

(* What the constants may be. *)
EventsConstants ==
    /\ Days \subseteq Dates /\ None \notin Names
    /\ MaxTries \in Nat \ {0} /\ MaxFaults \in Nat

Item == [date: Dates, name: Names, desc: Descs]
Op(type, item) == [type |-> type, item |-> item]
Operations == [type: {"ADD", "UPDATE", "DELETE", "NOOP"}, item: Item]

VARIABLES
    events,  \* the user's relationships: items with an id
    nextId,
    ingest,  \* the ingestions: items, what was found of them, operations
    told,    \* history: the last item told of each name
    lost,    \* history: names for which something failed or overlapped
    faults

vars == <<events, nextId, ingest, told, lost, faults>>

Event == [id: Nat, item: Item]
At(i, pc) == ingest[i].pc = pc
Is(i, new) == ingest' = [ingest EXCEPT ![i] = new]
Fault == faults < MaxFaults /\ faults' = faults + 1

Named(n) == {e \in events : e.item.name = n}
On(d) == {e \in events : e.item.date = d}
AllNames(items) == {items[k].name : k \in 1..Len(items)}

Init ==
    /\ events = {} /\ nextId = 0
    /\ ingest = [i \in Ingests |->
                   [pc |-> "idle", items |-> <<>>, found |-> <<>>,
                    ops |-> <<>>, tries |-> 0]]
    /\ told = [n \in Names |-> None]
    /\ lost = {} /\ faults = 0

-----------------------------------------------------------------------------
(* _dedupe_temporal_items: one item per name, the last in the first's      *)
(* place.                                                                  *)
LastOf(items, n) ==
    items[CHOOSE k \in 1..Len(items) :
            /\ items[k].name = n
            /\ \A j \in (k + 1)..Len(items) : items[j].name # n]
Dedupe(items) ==
    LET firsts == SelectSeq([k \in 1..Len(items) |-> k], LAMBDA k :
                    \A j \in 1..(k - 1) : items[j].name # items[k].name)
    IN [k \in 1..Len(firsts) |-> LastOf(items, items[firsts[k]].name)]

(* _node_extract_temporal: the agent's items.  Names that another          *)
(* ingestion is busy with are from here on uncertain.                      *)
Extract(i, items) ==
    /\ At(i, "idle")
    /\ Is(i, [ingest[i] EXCEPT !.pc = "search", !.items = Dedupe(items),
                               !.found = [k \in 1..Len(Dedupe(items)) |-> None]])
    /\ told' = [n \in Names |-> IF n \in AllNames(items)
                                THEN LastOf(items, n) ELSE told[n]]
    /\ lost' = lost \cup
         {n \in AllNames(items) : \E j \in Ingests \ {i} :
             ingest[j].pc \in {"search", "weave"}
               /\ n \in AllNames(ingest[j].items)}
    /\ UNCHANGED <<events, nextId, faults>>

(* Mutant: an event with another date or description is updated. *)
DecideUpdate(item, match) ==
    IF match = item THEN <<Op("NOOP", item)>> ELSE <<Op("UPDATE", item)>>

(* _deterministic_temporal, for an item that was found: a new date moves   *)
(* the event, which deletes it first.                                      *)
Decide(item, match) ==
    CASE match = item -> <<Op("NOOP", item)>>
      [] match # item /\ match.date # item.date ->
           <<Op("DELETE", match), Op("ADD", item)>>
      [] OTHER -> <<Op("UPDATE", item)>>

(* The operations of all items in order, once all have been looked up.     *)
Flatten(opss) ==
    LET upTo[k \in 0..Len(opss)] ==
          IF k = 0 THEN <<>> ELSE upTo[k - 1] \o opss[k]
    IN upTo[Len(opss)]
Found(g, k, ops) ==
    LET found == [g.found EXCEPT ![k] = ops] IN
    IF \E j \in 1..Len(found) : found[j] = None
    THEN [g EXCEPT !.found = found]
    ELSE [g EXCEPT !.found = found, !.pc = "weave", !.ops = Flatten(found)]

(* search_events_by_name, of which the first match counts. *)
Search(i, k) ==
    LET g == ingest[i]
        item == g.items[k]
    IN /\ At(i, "search") /\ g.found[k] = None
       /\ \/ /\ Named(item.name) = {}
             /\ Is(i, Found(g, k, <<Op("ADD", item)>>))
          \/ \E e \in Named(item.name) :
                Is(i, Found(g, k, Decide(item, e.item)))
       /\ UNCHANGED <<events, nextId, told, lost, faults>>

SearchFails(i, k) ==
    LET g == ingest[i] IN
    /\ At(i, "search") /\ g.found[k] = None
    /\ Fault
    /\ Is(i, Found(g, k, <<Op("ADD", g.items[k])>>))
    /\ lost' = lost \cup {g.items[k].name}
    /\ UNCHANGED <<events, nextId, told>>

-----------------------------------------------------------------------------
(* The graph. *)

(* create_event: a relationship to the day, if the date is one.            *)
Created(item) ==
    IF item.date \in Days THEN events \cup {[id |-> nextId, item |-> item]}
    ELSE events

(* update_event: sets what the item says in all the user's events of that  *)
(* day, their names too.                                                   *)
Updated(item) ==
    {IF e.item.date = item.date THEN [e EXCEPT !.item = item] ELSE e :
        e \in events}

(* delete_event, by day and name; the wrapper splits the id the search     *)
(* made of them.                                                           *)
Deleted(item) == events \ (On(item.date) \cap Named(item.name))

Effect(op) ==
    CASE op.type = "ADD" -> Created(op.item)
      [] op.type = "UPDATE" -> Updated(op.item)
      [] op.type = "DELETE" -> Deleted(op.item)
      [] OTHER -> events

(* Other events whose day an update hits lose what they were. *)
Spoilt(op) ==
    IF op.type # "UPDATE" THEN {}
    ELSE LET hit == {e.item.name : e \in On(op.item.date)} IN
         IF hit \subseteq {op.item.name} THEN {}
         ELSE hit \cup {op.item.name}

(* A date that is no day is reported as stored and is not. *)
Nowhere(op) ==
    IF op.type = "ADD" /\ op.item.date \notin Days THEN {op.item.name} ELSE {}

Past(g) == [g EXCEPT !.ops = Tail(@), !.tries = 0,
                     !.pc = IF Len(g.ops) = 1 THEN "end" ELSE "weave"]

(* _execute_temporal: the next operation is carried out. *)
Weave(i) ==
    LET g == ingest[i]
        op == Head(g.ops)
    IN /\ At(i, "weave")
       /\ events' = Effect(op)
       /\ nextId' = IF op.type = "ADD" THEN nextId + 1 ELSE nextId
       /\ Is(i, Past(g))
       /\ lost' = lost \cup Spoilt(op) \cup Nowhere(op)
       /\ UNCHANGED <<told, faults>>

(* A try fails, carried out or not.  _neo4j_retry tries again when the     *)
(* connection broke; else, and at last, the weaver reports the failure and *)
(* goes on with the next operation.                                        *)
TryFails(i, again) ==
    LET g == ingest[i]
        op == Head(g.ops)
    IN /\ At(i, "weave") /\ op.type # "NOOP"
       /\ again => g.tries + 1 < MaxTries
       /\ Fault
       /\ \/ UNCHANGED events
          \/ events' = Effect(op)
       /\ nextId' = IF op.type = "ADD" THEN nextId + 1 ELSE nextId
       /\ Is(i, IF again THEN [g EXCEPT !.tries = @ + 1] ELSE Past(g))
       /\ lost' = lost \cup {op.item.name} \cup Spoilt(op)
       /\ UNCHANGED told

Next ==
    \E i \in Ingests :
        \/ \E items \in Tellings : Extract(i, items)
        \/ \E k \in 1..Len(ingest[i].found) : Search(i, k) \/ SearchFails(i, k)
        \/ Weave(i)
        \/ \E again \in BOOLEAN : TryFails(i, again)

Spec == Init /\ [][Next]_vars

-----------------------------------------------------------------------------
Quiet == \A i \in Ingests : ingest[i].pc \in {"idle", "end"}

(* Once ingestions are over, the graph has of each name the last item that *)
(* was told and nothing else, although an event that moves is deleted and  *)
(* created anew: unless something failed, overlapped, had no day, or an    *)
(* update hit the day of another event.                                    *)
EventsAreCurrent ==
    Quiet => \A n \in Names \ lost : told[n] # None =>
        {e.item : e \in Named(n)} = {told[n]} /\ Cardinality(Named(n)) = 1

====
