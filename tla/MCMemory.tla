---------------------------- MODULE MCMemory ----------------------------
(***************************************************************************)
(* The conversational memory on small instances, side by side: ingestion   *)
(* into the vector store and into the graph of events, the vector stores   *)
(* themselves, retrieval, and the reading of other assistants' exported    *)
(* conversations.  Each is checked by itself: in a behaviour one part      *)
(* moves and the others rest in their initial states.                      *)
(***************************************************************************)
EXTENDS Memory

CONSTANTS
    Providers, Ids, Texts, Threads, Cosine(_, _), Threshold, MaxChanges,
                 \* of VectorStores
    Requests, Keys, Prefix, Asked, MaxCalls, MaxIngests, MaxServed
                 \* of Retrieval, where Keys are its topics

VARIABLES
    part, events, eventNextId, eventIngest, eventTold, eventLost, eventFaults,
    provider, documents, updates, gone, storeChanges, memory, cached, request,
    retrievalChanges, served, retrievalFaults, format, conversation, pairs,
    status

(* Two ingestions at a time: of profile facts, one or two to a chunk, by   *)
(* one user or by two, with an empty store or with a fact and a summary    *)
(* known; or of a summary, with verdicts good and bad about what is known. *)
Fact(id, u, d, c) == [id |-> id, user |-> u, domain |-> d, space |-> None, content |-> c]
Work(u, d, cs) == [user |-> u, domain |-> d, chunks |-> cs]
Facts == {<<"t1", "m1">>, <<"t1", "m2">>, <<"t2", "m1">>}
Twice == {<<<<f, g>>>> : f, g \in Facts} \cup {<<<<f>>, <<g>>>> : f, g \in Facts}
Once == <<<<<<"t1", "m1">>>>>>
Known == {Fact(1, "u1", "profile", <<"t1", "m1">>), Fact(2, "u1", "summary", <<"t2", "m1">>)}
Talk(a, u, known) ==
    [works |-> [i1 |-> Work("u1", "profile", a), i2 |-> Work(u, "profile", Once)],
     known |-> known]
Talks == {Talk(a, u, k) : a \in Twice, u \in {"u1", "u2"}, k \in {{}, Known}}
Summary ==
    [works |-> [i1 |-> Work("u1", "summary", Once), i2 |-> Work("u2", "profile", <<>>)],
     known |-> Known]
AllScenarios == Talks \cup {Summary}
Judged ==
    {Op("ADD", None, <<"t1", "m2">>), Op("ADD", None, None), Op("NOOP", 1, None),
     Op("UPDATE", 2, <<"t2", "m2">>), Op("UPDATE", 9, <<"t2", "m2">>),
     Op("UPDATE", None, <<"t2", "m2">>), Op("DELETE", 2, None),
     Op("DELETE", 1, None), Op("DELETE", None, None)}
AllVerdicts == UNION {[1..n -> Judged] : n \in 1..2}

(* The scenario of a memory that rests. *)
Resting == Talk(<<<<<<"t1", "m1">>, <<"t2", "m1">>>>>>, "u2", {})

(* One or two events, moved to another day, renamed, or without a day.     *)
Event(d, n, c) == [date |-> d, name |-> n, desc |-> c]
Told ==
    {<<e>> : e \in {Event("d1", "n1", "a"), Event("d1", "n1", "b"), Event("d2", "n1", "a"),
                    Event("d1", "n2", "a"), Event("d2", "n2", "b"), Event("d3", "n2", "a")}}
      \cup {<<Event("d1", "n1", "a"), Event("d2", "n1", "b")>>,
            <<Event("d1", "n1", "a"), Event("d2", "n2", "b")>>,
            <<Event("d1", "n2", "a"), Event("d2", "n1", "b")>>}

(* Two texts that have little to do with each other. *)
Loose(q, v) == IF q = v THEN 100 ELSE 50

(* One topic's name begins with the other's. *)
WordPrefix == {<<"work", "work">>, <<"work", "workout">>, <<"workout", "workout">>}

(* What the model may ask for. *)
SomeCalls == {[domain |-> "profile", topic |-> "work"], [domain |-> "temporal", topic |-> ""]}

E == INSTANCE Events WITH
        nextId <- eventNextId, ingest <- eventIngest, told <- eventTold,
        lost <- eventLost, faults <- eventFaults, Days <- {"d1", "d2"},
        Dates <- {"d1", "d2", "d3"}, Names <- {"n1", "n2"},
        Descs <- {"a", "b"}, Tellings <- Told, MaxTries <- 2, MaxFaults <- 1
V == INSTANCE VectorStores WITH
        changes <- storeChanges, NoDocument <- None, NoText <- None
R == INSTANCE Retrieval WITH
        changes <- retrievalChanges, faults <- retrievalFaults,
        Topics <- Keys, NoUser <- None, MaxChanges <- MaxIngests
T == INSTANCE Transcripts WITH
        Formats <- {"cursor", "antigravity", "chatgpt", "claude", "gemini"},
        MaxMessages <- 5, MaxPieces <- 2

eventVars == <<events, eventNextId, eventIngest, eventTold, eventLost, eventFaults>>
storeVars == <<provider, documents, updates, gone, storeChanges>>
retrievalVars == <<memory, cached, request, retrievalChanges, served, retrievalFaults>>
transcriptVars == <<format, conversation, pairs, status>>
allVars ==
    <<part, vars, eventVars, storeVars, retrievalVars, transcriptVars>>

ASSUME E!EventsConstants

(* The cosines of the stores are hundredths; None is no text, no document  *)
(* and no user; the model asks for tools that exist, or for one that does  *)
(* not.                                                                    *)
ASSUME StoresAssumption ==
    /\ Providers \subseteq V!AllProviders /\ IsFiniteSet(Ids)
    /\ \A q, v \in Texts : Cosine(q, v) \in -100..100
    /\ Threshold \in Int /\ MaxChanges \in Nat
    /\ None \notin Texts \cup V!Document
ASSUME RetrievalAssumption ==
    None \notin Users /\ MaxCalls \in Nat /\ Asked \subseteq R!Calls

(* Each part begins in its initial states; a part that rests, in one of them. *)
AllInit ==
    /\ part \in {"memory", "events", "stores", "retrieval", "transcripts"}
    /\ IF part # "memory" THEN records = {} /\ ingest = [i \in Ingests |-> Start(i, Resting.works[i].user, "profile", Resting.works[i].chunks)] ELSE TRUE
    /\ IF part # "stores" THEN provider = "pinecone" ELSE TRUE
    /\ IF part # "transcripts" THEN format = "cursor" ELSE TRUE
    /\ Init /\ E!Init /\ V!Init /\ R!Init /\ T!Init

Ingesting(Move) ==
    /\ part = "memory" /\ Move
    /\ UNCHANGED <<part, eventVars, storeVars, retrievalVars, transcriptVars>>
Dating(Move) ==
    /\ part = "events" /\ Move
    /\ UNCHANGED <<part, vars, storeVars, retrievalVars, transcriptVars>>
Storing(Move) ==
    /\ part = "stores" /\ Move
    /\ UNCHANGED <<part, vars, eventVars, retrievalVars, transcriptVars>>
Retrieving(Move) ==
    /\ part = "retrieval" /\ Move
    /\ UNCHANGED <<part, vars, eventVars, storeVars, transcriptVars>>
Reading(Move) ==
    /\ part = "transcripts" /\ Move
    /\ UNCHANGED <<part, vars, eventVars, storeVars, retrievalVars>>

AllNext ==
    \/ Ingesting(\E i \in Ingests : Begin(i))
    \/ Ingesting(\E i \in Ingests : Extract(i))
    \/ Ingesting(\E i \in Ingests : Finish(i))
    \/ Ingesting(\E i \in Ingests : Abort(i))
    \/ Ingesting(\E i \in Ingests : \E k \in 1..Len(ingest[i].items) : Lookup(i, k))
    \/ Ingesting(\E i \in Ingests : \E k \in 1..Len(ingest[i].items) : LookupFails(i, k))
    \/ Ingesting(\E i \in Ingests : \E ops \in Verdicts \cup {AsAdditions(ingest[i].items)} : Ask(i, ops))
    \/ Ingesting(\E i \in Ingests : Woven(i))
    \/ Ingesting(\E i \in Ingests : Skip(i))
    \/ Ingesting(\E i \in Ingests : Add(i))
    \/ Ingesting(\E i \in Ingests : Update(i))
    \/ Ingesting(\E i \in Ingests : Delete(i))
    \/ Ingesting(\E i \in Ingests : WriteFails(i))
    \/ Ingesting(\E i \in Ingests : Straggle(i))
    \/ Ingesting(\E i \in Ingests : \E failing \in SUBSET (1..Len(ingest[i].ops)) : Embed(i, failing))
    \/ Ingesting(\E i \in Ingests : \E n \in 0..Len(ingest[i].pending) : AddBreaks(i, n))
    \/ Dating(\E i \in Ingests, items \in Told : E!Extract(i, items))
    \/ Dating(\E i \in Ingests : \E k \in 1..Len(eventIngest[i].found) : E!Search(i, k))
    \/ Dating(\E i \in Ingests : \E k \in 1..Len(eventIngest[i].found) : E!SearchFails(i, k))
    \/ Dating(\E i \in Ingests : E!Weave(i))
    \/ Dating(\E i \in Ingests, again \in BOOLEAN : E!TryFails(i, again))
    \/ Storing(\E i \in Ids, text \in Texts, owner \in Users : V!Add(i, text, owner))
    \/ Storing(\E i \in Ids : V!Delete(i))
    \/ Storing(\E t \in Threads, i \in Ids, text \in Texts \cup {None}, m \in V!Marks : V!ReadForUpdate(t, i, text, m))
    \/ Storing(\E t \in Threads : V!WriteUpdate(t))
    \/ Retrieving(\E r \in Requests, u \in Users, fails \in BOOLEAN : R!StartRetrieval(r, u, fails))
    \/ Retrieving(\E r \in Requests, calls \in R!Answers : R!ModelCalls(r, calls))
    \/ Retrieving(\E r \in Requests, i \in 1..MaxCalls : R!ToolReturns(r, i))
    \/ Retrieving(\E r \in Requests : R!AddContext(r))
    \/ Retrieving(\E r \in Requests : R!ModelAnswers(r))
    \/ Retrieving(\E r \in Requests : R!RetrievalFails(r))
    \/ Retrieving(\E r \in Requests, u \in Users, domains \in SUBSET {"profile", "temporal", "summary"}, none \in SUBSET {"profile", "temporal"} : R!StartSearch(r, u, domains, none))
    \/ Retrieving(\E r \in Requests, fails \in BOOLEAN : R!SearchSummary(r, fails))
    \/ Retrieving(\E r \in Requests : R!Respond(r))
    \/ Retrieving(\E u \in Users, i \in R!Items : R!Ingest(u, i))
    \/ Reading(\E m \in T!Message : T!Say(m))
    \/ Reading(T!Extract)

AllSpec == AllInit /\ [][AllNext]_allVars

-----------------------------------------------------------------------------
(* Memory: one fact to a topic, the last that was said of it, and the      *)
(* report of an ingestion is what the store went through.                  *)
MemoryIsTrue ==
    part = "memory" =>
        TypeOK /\ TopicsAreUnique /\ NotebookIsCurrent /\ ReportExplainsStore

(* Events: of each name the graph has the last that was told, and once.    *)
EventsAreCurrent == part = "events" => E!EventsAreCurrent

(* VectorStores: a document is found by its own text, and a deleted one    *)
(* stays deleted.                                                          *)
StoresAreTrue ==
    part = "stores" => V!TypeOK /\ V!VectorsFollowTexts /\ V!DeletedStaysDeleted

(* VectorStores: a search answers with the nearest of the user's documents. *)
SearchIsFiltered == part = "stores" => V!SearchIsFiltered

(* Retrieval: an answer is made of what the user's memory has held.        *)
AnswersAreFromMemory == part = "retrieval" => R!TypeOK /\ R!AnswersAreFromMemory

(* Transcripts: the pairs are the turns of the conversation.               *)
PairsAreTurns == part = "transcripts" => T!PairsAreTurns
=============================================================================
