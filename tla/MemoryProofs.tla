---- MODULE MemoryProofs ----
(***************************************************************************)
(* Proofs about the memory side: the vector stores and retrieval.  MCMemory *)
(* puts its parts side by side; each of them is proved to keep its own     *)
(* specification there, and what is proved of that specification holds.    *)
(***************************************************************************)
EXTENDS MCMemory, FiniteSetTheorems, NaturalsInduction, TLAPS

(* Whatever part moves, the vector stores take steps of their own or rest. *)
LEMMA StoresKeepTheirSpec == AllSpec => V!Spec
<1>1. AllInit => V!Init
  BY DEF AllInit
<1>2. [AllNext]_allVars => [V!Next]_V!vars
  BY DEF AllNext, allVars, Ingesting, Dating, Storing, Retrieving, Reading,
         storeVars, V!Next, V!vars
<1> QED
  BY <1>1, <1>2, PTL DEF AllSpec, V!Spec

(* What the vector stores keep: beside the properties, the shape of the    *)
(* updates under way, each of which read a document whose vector was that  *)
(* of its text.                                                            *)
StoresInv ==
    /\ V!TypeOK /\ V!VectorsFollowTexts /\ V!DeletedStaysDeleted
    /\ updates = [t \in Threads |-> updates[t]]
    /\ provider # "chroma" =>
         \A t \in Threads : updates[t].busy =>
            updates[t].seen.vector = updates[t].seen.text

(* A merge of what was read and what the caller brings is a document, with *)
(* the vector of its text if what was read had that.                       *)
LEMMA MergedIsDocument ==
    ASSUME NEW u, u.seen \in V!Document, u.text \in Texts \cup {None},
           u.mark \in V!Marks
    PROVE  /\ V!Merged(u) \in V!Document
           /\ u.seen.vector = u.seen.text => V!Merged(u).vector = V!Merged(u).text
BY DEF V!Merged, V!Document

(* What an update writes: nothing where the document is gone, but for      *)
(* Pinecone, and otherwise a document; with the vector of its text, if it  *)
(* read one such, but for Chroma.                                          *)
Written(u) ==
    CASE provider = "pinecone" -> V!PineconeWrites(u)
      [] provider = "sqlite" -> V!SQLiteWrites(u)
      [] provider = "chroma" -> V!ChromaWrites(u)
      [] provider = "pgvector" -> V!PGWrites(u)

LEMMA WrittenIsTrue ==
    ASSUME V!TypeOK, NEW t \in Threads, updates[t].busy
    PROVE  LET u == updates[t] IN
           /\ Written(u) \in V!Document \cup {None}
           /\ provider # "pinecone" /\ ~V!Stored(u.id) => Written(u) = None
           /\ provider # "chroma" /\ u.seen.vector = u.seen.text /\ Written(u) # None =>
                 Written(u).vector = Written(u).text
<1> DEFINE u == updates[t]
<1>1. /\ u.id \in Ids /\ u.seen \in V!Document /\ u.text \in Texts \cup {None}
      /\ u.mark \in V!Marks /\ provider \in V!AllProviders
      /\ documents \in [Ids -> V!Document \cup {None}]
  BY DEF V!TypeOK
<1>2. /\ V!Merged(u) \in V!Document
      /\ u.seen.vector = u.seen.text => V!Merged(u).vector = V!Merged(u).text
  BY <1>1, MergedIsDocument
<1>3. None \notin V!Document
  BY StoresAssumption
<1>4. V!Stored(u.id) => documents[u.id] \in V!Document
  BY <1>1 DEF V!Stored
<1>5. V!Stored(u.id) => [V!Merged(u) EXCEPT !.vector = documents[u.id].vector] \in V!Document
  BY <1>2, <1>4 DEF V!Document
<1> HIDE DEF u
<1>6. \/ provider = "pinecone" /\ Written(u) = V!Merged(u)
      \/ provider = "chroma" /\ V!Stored(u.id) /\ Written(u) \in V!Document
      \/ provider \in {"sqlite", "pgvector"} /\ V!Stored(u.id) /\ Written(u) = V!Merged(u)
      \/ provider \in {"sqlite", "pgvector", "chroma"} /\ ~V!Stored(u.id) /\ Written(u) = None
  BY <1>1, <1>2, <1>5 DEF Written, V!PineconeWrites, V!SQLiteWrites, V!ChromaWrites,
     V!PGWrites, V!AllProviders
<1> QED
  BY <1>2, <1>3, <1>6 DEF u

(* The vector stores keep StoresInv. *)
THEOREM VectorsAreTrue == V!Spec => []StoresInv
<1>1. V!Init => StoresInv
  BY StoresAssumption DEF V!Init, StoresInv, V!TypeOK, V!VectorsFollowTexts,
     V!DeletedStaysDeleted, V!Stored, V!Idle
<1>2. StoresInv /\ [V!Next]_V!vars => StoresInv'
  <2> SUFFICES ASSUME StoresInv, [V!Next]_V!vars
               PROVE  StoresInv'
    OBVIOUS
  <2> USE StoresAssumption DEF StoresInv
  <2>1. ASSUME NEW i \in Ids, NEW text \in Texts, NEW owner \in Users,
               V!Add(i, text, owner)
        PROVE  StoresInv'
    BY <2>1 DEF V!Add, V!Changed, V!TypeOK, V!VectorsFollowTexts,
       V!DeletedStaysDeleted, V!Stored, V!Document, V!Marks
  <2>2. ASSUME NEW i \in Ids, V!Delete(i)
        PROVE  StoresInv'
    BY <2>2 DEF V!Delete, V!Changed, V!TypeOK, V!VectorsFollowTexts,
       V!DeletedStaysDeleted, V!Stored
  <2>3. ASSUME NEW t \in Threads, NEW i \in Ids, NEW text \in Texts \cup {None},
               NEW m \in V!Marks, V!ReadForUpdate(t, i, text, m)
        PROVE  StoresInv'
    <3>1. documents[i] \in V!Document
      BY <2>3 DEF V!ReadForUpdate, V!Stored, V!TypeOK
    <3>2. \A s \in Threads :
             updates'[s] = IF s = t
                           THEN [busy |-> TRUE, id |-> i, seen |-> documents[i],
                                 text |-> text, mark |-> m]
                           ELSE updates[s]
      BY <2>3 DEF V!ReadForUpdate
    <3>0. storeChanges' \in 0..MaxChanges
      BY <2>3 DEF V!ReadForUpdate, V!Changed, V!TypeOK
    <3>3. /\ updates' = [s \in Threads |-> updates'[s]]
          /\ UNCHANGED <<provider, documents, gone>>
      BY <2>3 DEF V!ReadForUpdate
    <3>4. V!TypeOK'
      BY <3>1, <3>2, <3>3, <3>0 DEF V!TypeOK
    <3>5. V!VectorsFollowTexts' /\ V!DeletedStaysDeleted'
      BY <3>3 DEF V!VectorsFollowTexts, V!DeletedStaysDeleted, V!Stored
    <3>6. provider # "chroma" => documents[i].vector = documents[i].text
      BY <2>3 DEF V!ReadForUpdate, V!VectorsFollowTexts
    <3> QED
      BY <3>2, <3>3, <3>4, <3>5, <3>6
  <2>4. ASSUME NEW t \in Threads, V!WriteUpdate(t)
        PROVE  StoresInv'
    <3> DEFINE u == updates[t]
    <3>1. /\ u.busy /\ u.id \in Ids
          /\ documents' = [documents EXCEPT ![u.id] = Written(u)]
          /\ updates' = [updates EXCEPT ![t] = V!Idle]
          /\ UNCHANGED <<provider, gone, storeChanges>>
      BY <2>4 DEF V!WriteUpdate, Written, V!TypeOK
    <3>2. /\ Written(u) \in V!Document \cup {None}
          /\ provider # "pinecone" /\ ~V!Stored(u.id) => Written(u) = None
          /\ provider # "chroma" /\ Written(u) # None =>
                Written(u).vector = Written(u).text
      BY <3>1, WrittenIsTrue
    <3> HIDE DEF u
    <3>3. \A s \in Threads : updates'[s].busy => updates'[s] = updates[s]
      BY <3>1 DEF V!Idle
    <3>4. \A i \in Ids : documents'[i] = IF i = u.id THEN Written(u) ELSE documents[i]
      BY <3>1 DEF V!TypeOK
    <3>5. V!TypeOK'
      BY <3>1, <3>2, <3>3 DEF V!TypeOK
    <3>6. V!VectorsFollowTexts'
      BY <3>1, <3>2, <3>4 DEF V!VectorsFollowTexts, V!Stored
    <3>7. V!DeletedStaysDeleted'
      BY <3>1, <3>2, <3>4 DEF V!DeletedStaysDeleted, V!Stored, V!TypeOK
    <3> QED
      BY <3>1, <3>3, <3>5, <3>6, <3>7
  <2>5. CASE UNCHANGED V!vars
    BY <2>5 DEF V!vars, V!TypeOK, V!VectorsFollowTexts, V!DeletedStaysDeleted, V!Stored
  <2> QED
    BY <2>1, <2>2, <2>3, <2>4, <2>5 DEF V!Next
<1> QED
  BY <1>1, <1>2, PTL DEF V!Spec

(* Cosines are no greater than a hundred, so that of some texts there is   *)
(* one nearest to a query.                                                 *)
LEMMA NearestExists ==
    ASSUME NEW q \in Texts, NEW S, S # {},
           \A i \in S : documents[i].vector \in Texts
    PROVE  \E i \in S : \A j \in S : V!Similarity(q, j) <= V!Similarity(q, i)
<1> DEFINE Far(i) == 100 - V!Similarity(q, i)
           Fars == {Far(i) : i \in S}
<1>1. \A i \in S : V!Similarity(q, i) \in Int /\ Far(i) \in Nat
  BY StoresAssumption DEF V!Similarity
<1>2. Fars \subseteq Nat /\ Fars # {}
  BY <1>1
<1>3. PICK n \in Fars : \A m \in Fars : <<m, n>> \notin OpToRel(<, Nat)
  BY <1>2, NatLessThanWellFounded, WFMin
<1>4. PICK i \in S : n = Far(i)
  OBVIOUS
<1>5. ASSUME NEW j \in S
      PROVE  V!Similarity(q, j) <= V!Similarity(q, i)
  <2>1. <<Far(j), n>> \notin OpToRel(<, Nat)
    BY <1>3
  <2>2. ~(Far(j) < n)
    BY <2>1, <1>1, <1>2 DEF OpToRel
  <2> QED
    BY <1>1, <1>4, <2>2
<1> QED
  BY <1>5

(* The greater the cosine, the greater is the score that a store makes of  *)
(* it.                                                                     *)
LEMMA ScoresFollowCosines ==
    ASSUME NEW p \in V!AllProviders, NEW c \in -100..100, NEW d \in -100..100, c <= d
    PROVE  V!Score(p, c) <= V!Score(p, d) /\ V!Score(p, c) \in Int /\ V!Score(p, d) \in Int
<1>1. CASE p = "pinecone"
  BY <1>1 DEF V!Score, V!PineconeScore
<1>2. CASE p = "sqlite"
  <2>1. (c + 100) \div 2 <= (d + 100) \div 2
    OBVIOUS
  <2> QED
    BY <1>2, <2>1 DEF V!Score, V!SQLiteScore, V!Clipped
<1>3. CASE p = "chroma"
  BY <1>3 DEF V!Score, V!ChromaScore, V!Clipped
<1>4. CASE p = "pgvector"
  BY <1>4 DEF V!Score, V!PGScore, V!Clipped
<1> QED
  BY <1>1, <1>2, <1>3, <1>4 DEF V!AllProviders

(* The stores count as everybody does. *)
LEMMA StoresCount == \A S : V!Cardinality(S) = Cardinality(S)
BY DEF V!Cardinality, Cardinality

(* A search finds what it should in any store whose documents are such. *)
LEMMA SearchFinds == V!TypeOK => V!SearchIsFiltered
<1> SUFFICES ASSUME V!TypeOK, NEW q \in Texts, NEW k \in 1..2, NEW owner \in Users
             PROVE  LET found == V!Search(q, k, owner)
                        same == V!Similar(provider, q, owner) IN
                    /\ found \subseteq V!Matching(owner)
                    /\ same # {} => same \cap found # {}
                    /\ Cardinality(V!Matching(owner)) <= k => found = V!Matching(owner)
  BY StoresCount DEF V!SearchIsFiltered
<1> DEFINE S == V!Matching(owner)
           Nearer(i) == {j \in S : V!Similarity(q, j) > V!Similarity(q, i)}
<1>1. V!Search(q, k, owner) = {i \in S : Cardinality(Nearer(i)) < k}
  BY StoresCount DEF V!Search, V!Nearest
<1>2. IsFiniteSet(S) /\ \A i \in S : documents[i].vector \in Texts
  <2>1. S \subseteq Ids
    BY DEF V!Matching
  <2>2. \A i \in S : documents[i] \in V!Document
    BY DEF V!Matching, V!Stored, V!TypeOK
  <2> QED
    BY <2>1, <2>2, StoresAssumption, FS_Subset DEF V!Document
<1>3. \A i \in S : V!Similarity(q, i) \in -100..100
  BY <1>2, StoresAssumption DEF V!Similarity
<1> HIDE DEF S, Nearer
<1>4. ASSUME V!Similar(provider, q, owner) # {}
      PROVE  V!Similar(provider, q, owner) \cap V!Search(q, k, owner) # {}
  <2>1. PICK i \in S : V!Score(provider, V!Similarity(q, i)) >= Threshold
    BY <1>4 DEF V!Similar, S
  <2>2. PICK n \in S : \A j \in S : V!Similarity(q, j) <= V!Similarity(q, n)
    BY <1>2, <2>1, NearestExists
  <2>3. /\ V!Score(provider, V!Similarity(q, i)) <= V!Score(provider, V!Similarity(q, n))
        /\ V!Score(provider, V!Similarity(q, i)) \in Int
        /\ V!Score(provider, V!Similarity(q, n)) \in Int
    BY <1>3, <2>2, ScoresFollowCosines DEF V!TypeOK
  <2>4. n \in V!Similar(provider, q, owner)
    BY <2>1, <2>3, StoresAssumption DEF V!Similar, S
  <2>5. Nearer(n) = {}
    <3>1. ASSUME NEW j \in S
          PROVE  ~(V!Similarity(q, j) > V!Similarity(q, n))
      <4>1. \A a, b \in -100..100 : a <= b => ~(a > b)
        OBVIOUS
      <4> QED
        BY <1>3, <2>2, <4>1, Zenon
    <3> QED
      BY <3>1 DEF Nearer
  <2>6. Cardinality(Nearer(n)) < k
    BY <2>5, FS_EmptySet
  <2> QED
    BY <1>1, <2>4, <2>6
<1>5. ASSUME Cardinality(S) <= k, NEW i \in S
      PROVE  Cardinality(Nearer(i)) < k
  <2>1. Nearer(i) \subseteq S \ {i}
    BY <1>3 DEF Nearer
  <2>2. /\ IsFiniteSet(S \ {i})
        /\ Cardinality(S \ {i}) = Cardinality(S) - 1
    BY <1>2, FS_RemoveElement
  <2>3. /\ IsFiniteSet(Nearer(i))
        /\ Cardinality(Nearer(i)) <= Cardinality(S \ {i})
    BY <2>1, <2>2, FS_Subset
  <2>4. Cardinality(S) \in Nat /\ Cardinality(Nearer(i)) \in Nat
    BY <1>2, <2>3, FS_CardinalityType
  <2> QED
    BY <1>5, <2>2, <2>3, <2>4
<1> QED
  BY <1>1, <1>4, <1>5 DEF S

(* StoresAreTrue: whatever adds, deletions and updates interleave, the     *)
(* vector of a document is that of its text (but in Chroma), and what is   *)
(* deleted stays deleted (but in Pinecone).                                *)
THEOREM StoresStayTrue == AllSpec => []StoresAreTrue
<1>1. StoresInv => StoresAreTrue
  BY DEF StoresInv, StoresAreTrue
<1> QED
  BY <1>1, StoresKeepTheirSpec, VectorsAreTrue, PTL

(* SearchIsFiltered: a search answers with the asker's documents only, is  *)
(* not crowded out by those of others, and finds one that the judge takes  *)
(* for the same memory if there is any, with the score of every store.     *)
THEOREM SearchesStayFiltered == AllSpec => []SearchIsFiltered
<1>1. StoresInv => SearchIsFiltered
  BY SearchFinds DEF StoresInv, SearchIsFiltered
<1> QED
  BY <1>1, StoresKeepTheirSpec, VectorsAreTrue, PTL
-----------------------------------------------------------------------------
(* Whatever part moves, retrieval takes steps of its own or rests. *)
LEMMA RetrievalKeepsItsSpec == AllSpec => R!Spec
<1>1. AllInit => R!Init
  BY DEF AllInit
<1>2. [AllNext]_allVars => [R!Next]_R!vars
  BY DEF AllNext, allVars, Ingesting, Dating, Storing, Retrieving, Reading,
         retrievalVars, R!Next, R!vars
<1> QED
  BY <1>1, <1>2, PTL DEF AllSpec, R!Spec

(* A request as a handler keeps it; a call has found sources, or is out. *)
Findings == (SUBSET R!Sources) \cup {R!Pending}

Handler ==
    [pc: {"idle", "deciding", "fetching", "answering", "answered",
          "searching", "searched", "failed"},
     user: Users \cup {None}, calls: Seq(R!Calls),
     found: Seq(Findings), sources: SUBSET R!Sources,
     alone: BOOLEAN, kept: SUBSET R!Items, ever: SUBSET R!Items]

RetrievalTypes ==
    /\ memory \in [Users -> SUBSET R!Items]
    /\ cached \subseteq R!Sources
    /\ request \in [Requests -> Handler]

(* The sources that these items of a request's user are. *)
Of(q, items) == {R!Source(q.user, i) : i \in items}

(* A set of sources that a request may answer from: they were its user's   *)
(* while it ran, and those of the items it owes are among them.            *)
Faithful(q, sources, owes) ==
    /\ sources \subseteq Of(q, q.ever)
    /\ Of(q, owes) \subseteq sources

KeptIn(q, domain) == {i \in q.kept : i.domain = domain}
KeptFor(q, call) ==
    {i \in KeptIn(q, call.domain) : R!StartsWith(i.topic, call.topic)}

(* A request under way was a user's, whose items lie between the ones kept *)
(* all the time and the ones there ever; the records in the pipeline       *)
(* object are its own while it runs alone, and each call that came back    *)
(* found what it should.                                                   *)
Handled(q, mem, cache) ==
    /\ q.kept \subseteq q.ever
    /\ q.pc \notin {"idle", "failed"} =>
          q.user \in Users /\ q.kept \subseteq mem[q.user] /\ mem[q.user] \subseteq q.ever
    /\ q.pc \in {"deciding", "fetching"} /\ q.alone =>
          Faithful(q, cache, KeptIn(q, "profile"))
    /\ q.pc = "deciding" => q.calls = <<>> /\ q.sources = {}
    /\ q.pc = "fetching" => Len(q.found) = Len(q.calls)
    /\ q.pc = "fetching" /\ q.alone => \A i \in R!Ran(q) :
          Faithful(q, q.found[i], KeptFor(q, q.calls[i]))
    /\ q.pc \in {"answering", "answered"} /\ q.alone =>
          Faithful(q, q.sources, IF q.calls = <<>> THEN {} ELSE R!Owed(q))
    /\ q.pc \in {"searching", "searched"} =>
          Faithful(q, q.sources,
                   {i \in q.kept : q.pc = "searching" => i.domain # "summary"})

RetrievalInv == RetrievalTypes /\ \A r \in Requests : Handled(request[r], memory, cached)

(* What a user has in a domain is faithful to a request of his. *)
LEMMA HasIsFaithful ==
    ASSUME NEW q, NEW d, q.kept \subseteq memory[q.user], memory[q.user] \subseteq q.ever
    PROVE  Faithful(q, R!Has(q.user, d), KeptIn(q, d))
BY DEF Faithful, R!Has, KeptIn, Of

LEMMA HasIsSources ==
    ASSUME RetrievalTypes, NEW u \in Users, NEW d
    PROVE  R!Has(u, d) \in SUBSET R!Sources
BY DEF RetrievalTypes, R!Has, R!Sources

(* So is what the profile search finds in records that are. *)
LEMMA SearchIsFaithful ==
    ASSUME NEW q, NEW topic, Faithful(q, cached, KeptIn(q, "profile"))
    PROVE  Faithful(q, R!SearchProfile(topic),
                    {i \in KeptIn(q, "profile") : R!StartsWith(i.topic, topic)})
<1>1. R!SearchProfile(topic) \subseteq Of(q, q.ever)
  BY DEF Faithful, R!SearchProfile
<1>2. ASSUME NEW i \in KeptIn(q, "profile"), R!StartsWith(i.topic, topic)
      PROVE  R!Source(q.user, i) \in R!SearchProfile(topic)
  <2>1. R!Source(q.user, i) \in cached
    BY DEF Faithful, Of
  <2>2. R!Source(q.user, i).topic = i.topic
    BY DEF R!Source
  <2> QED
    BY <1>2, <2>1, <2>2 DEF R!SearchProfile
<1> QED
  BY <1>1, <1>2 DEF Faithful, Of

(* A call of a request that runs alone finds what is kept for it. *)
LEMMA ToolsAreFaithful ==
    ASSUME NEW q, NEW call \in R!Calls, call.domain # "unknown",
           q.kept \subseteq memory[q.user], memory[q.user] \subseteq q.ever,
           Faithful(q, cached, KeptIn(q, "profile"))
    PROVE  Faithful(q, R!ExecuteTool(call, q.user), KeptFor(q, call))
<1>1. CASE call.domain = "profile"
  <2>1. R!ExecuteTool(call, q.user) = R!SearchProfile(call.topic)
    BY <1>1 DEF R!ExecuteTool, R!Domains
  <2>2. KeptFor(q, call) =
          {i \in KeptIn(q, "profile") : R!StartsWith(i.topic, call.topic)}
    BY <1>1 DEF KeptFor
  <2> QED
    BY <2>1, <2>2, SearchIsFaithful
<1>2. CASE call.domain # "profile"
  <2>1. call.domain \in R!Domains
    BY <1>2 DEF R!Calls, R!Item
  <2>2. R!ExecuteTool(call, q.user) = R!Has(q.user, call.domain)
    BY <1>2, <2>1 DEF R!ExecuteTool
  <2> QED
    BY <2>2, HasIsFaithful DEF Faithful, KeptFor, Of
<1> QED
  BY <1>1, <1>2

(* No item is of a domain that is unknown. *)
LEMMA UnknownKeepsNothing ==
    ASSUME NEW q, q.kept \subseteq R!Items, NEW call, call.domain = "unknown"
    PROVE  KeptFor(q, call) = {} /\ R!ExecuteTool(call, q.user) = {}
BY DEF KeptFor, KeptIn, R!Items, R!Item, R!Domains, R!ExecuteTool

(* A step of one request, which leaves memories and records alone, matters *)
(* to that request only.                                                   *)
LEMMA OneRequest ==
    ASSUME RetrievalInv, NEW r \in Requests,
           request' = [request EXCEPT ![r] = request'[r]],
           request'[r] \in Handler, Handled(request'[r], memory, cached),
           UNCHANGED <<memory, cached>>
    PROVE  RetrievalInv'
<1>1. \A s \in Requests \ {r} : request'[s] = request[s]
  BY DEF RetrievalInv, RetrievalTypes
<1>2. RetrievalTypes'
  BY DEF RetrievalInv, RetrievalTypes
<1> QED
  BY <1>1, <1>2 DEF RetrievalInv

LEMMA IdleIsHandler == R!Idle \in Handler /\ Handled(R!Idle, memory, cached)
BY DEF R!Idle, Handler, Handled

(* Sequences of findings. *)
LEMMA FindingsAreSequences ==
    ASSUME NEW S, NEW x \in S
    PROVE  /\ \A n \in Nat : [i \in 1..n |-> x] \in Seq(S)
           /\ \A s \in Seq(S), n \in Nat : n \in 1..Len(s) =>
                 /\ [s EXCEPT ![n] = x] \in Seq(S)
                 /\ Len([s EXCEPT ![n] = x]) = Len(s)
                 /\ \A i \in 1..Len(s) : [s EXCEPT ![n] = x][i] = IF i = n THEN x ELSE s[i]
OBVIOUS

LEMMA AnswersAreCalls == \A calls \in R!Answers : calls \in Seq(R!Calls)
<1> SUFFICES ASSUME NEW n \in 0..MaxCalls, NEW calls \in [1..n -> Asked]
             PROVE  calls \in Seq(R!Calls)
  BY DEF R!Answers
<1>1. n \in Nat /\ calls \in [1..n -> R!Calls]
  BY RetrievalAssumption
<1> QED
  BY <1>1

(* What a request owes when it has added the summaries is what the calls   *)
(* are kept for, and the summaries.                                        *)
LEMMA CollectedIsFaithful ==
    ASSUME RetrievalTypes, NEW q \in Handler, Handled(q, memory, cached),
           q.pc = "fetching", q.alone, R!Ran(q) = 1..Len(q.calls)
    PROVE  Faithful(q, R!Collected(q) \cup
                        (IF R!AsksSummary(q) THEN {} ELSE R!Has(q.user, "summary")),
                    R!Owed(q))
<1> DEFINE sources == R!Collected(q) \cup
               (IF R!AsksSummary(q) THEN {} ELSE R!Has(q.user, "summary"))
<1>1. Len(q.found) = Len(q.calls)
  BY DEF Handled
<1>2. \A n \in 1..Len(q.calls) : Faithful(q, q.found[n], KeptFor(q, q.calls[n]))
  BY DEF Handled
<1>3. Faithful(q, R!Has(q.user, "summary"), KeptIn(q, "summary"))
  BY HasIsFaithful DEF Handled
<1>4. R!Collected(q) \subseteq Of(q, q.ever)
  BY <1>1, <1>2 DEF R!Collected, Faithful
<1>5. sources \subseteq Of(q, q.ever)
  BY <1>3, <1>4 DEF Faithful
<1>6. ASSUME NEW i \in q.kept, NEW n \in 1..Len(q.calls),
             q.calls[n].domain = i.domain, R!StartsWith(i.topic, q.calls[n].topic)
      PROVE  R!Source(q.user, i) \in R!Collected(q)
  <2>1. i \in KeptFor(q, q.calls[n])
    BY <1>6 DEF KeptFor, KeptIn
  <2>2. R!Source(q.user, i) \in q.found[n]
    BY <1>2, <2>1 DEF Faithful, Of
  <2> QED
    BY <1>1, <2>2 DEF R!Collected
<1>7. ASSUME NEW i \in q.kept, i.domain = "summary"
      PROVE  R!Source(q.user, i) \in sources
  <2>1. CASE R!AsksSummary(q)
    <3>1. PICK n \in 1..Len(q.calls) : q.calls[n].domain = "summary"
      BY <2>1 DEF R!AsksSummary
    <3>2. q.calls[n] \in R!Calls
      BY DEF Handler
    <3>3. q.calls[n].topic = R!NoTopic
      BY <3>1, <3>2 DEF R!Calls, R!Item
    <3> QED
      BY <1>6, <1>7, <3>1, <3>3 DEF R!StartsWith
  <2>2. CASE ~R!AsksSummary(q)
    BY <1>3, <1>7, <2>2 DEF Faithful, Of, KeptIn
  <2> QED
    BY <2>1, <2>2
<1>8. \A i \in R!Owed(q) : R!Source(q.user, i) \in sources
  BY <1>6, <1>7 DEF R!Owed
<1> QED
  BY <1>5, <1>8 DEF Faithful, Of

(* Retrieval keeps RetrievalInv. *)
THEOREM RetrievalIsFaithful == R!Spec => []RetrievalInv
<1>1. R!Init => RetrievalInv
  BY DEF R!Init, R!Idle, RetrievalInv, RetrievalTypes, Handler, Handled
<1>2. RetrievalInv /\ [R!Next]_R!vars => RetrievalInv'
  <2> SUFFICES ASSUME RetrievalInv, [R!Next]_R!vars
               PROVE  RetrievalInv'
    OBVIOUS
  <2>0. /\ RetrievalTypes
        /\ \A r \in Requests : request[r] \in Handler /\ Handled(request[r], memory, cached)
    BY DEF RetrievalInv, RetrievalTypes
  <2>1. ASSUME NEW r \in Requests, NEW u \in Users, NEW fails \in BOOLEAN,
               R!StartRetrieval(r, u, fails)
        PROVE  RetrievalInv'
    <3> DEFINE kept == R!Spared(memory[u], IF fails THEN {"profile"} ELSE {})
               q == [R!Idle EXCEPT !.pc = "deciding", !.user = u,
                                   !.kept = kept, !.ever = memory[u]]
    <3>1. /\ request' = [R!Disturbed(r) EXCEPT ![r] = q]
          /\ cached' = R!Catalog(u, fails) /\ memory' = memory
      BY <2>1 DEF R!StartRetrieval
    <3>2. /\ request'[r] = q
          /\ \A s \in Requests \ {r} :
               \/ request'[s] = request[s] /\ request[s].pc \notin {"deciding", "fetching"}
               \/ request'[s] = [request[s] EXCEPT !.alone = FALSE]
          /\ request' = [s \in Requests |-> request'[s]]
      BY <3>1 DEF R!Disturbed
    <3>3. cached' \subseteq R!Sources
      BY <2>0, <3>1, HasIsSources DEF R!Catalog
    <3>4. kept \subseteq memory[u] /\ memory[u] \subseteq R!Items
      BY <2>0 DEF R!Spared, RetrievalTypes
    <3>5. q \in Handler
      <4>1. kept \in SUBSET R!Items /\ memory[u] \in SUBSET R!Items
        BY <3>4
      <4> HIDE DEF kept
      <4> QED
        BY <4>1, IdleIsHandler DEF Handler
    <3>6. Faithful(q, cached', KeptIn(q, "profile"))
      <4>1. CASE fails
        <5>1. KeptIn(q, "profile") = {} /\ cached' = {}
          BY <4>1, <3>1 DEF KeptIn, R!Spared, R!Catalog, R!Idle
        <5> QED
          BY <5>1 DEF Faithful, Of
      <4>2. CASE ~fails
        <5>1. cached' = R!Has(u, "profile")
          BY <4>2, <3>1 DEF R!Catalog
        <5>2. q.user = u /\ q.kept \subseteq memory[q.user] /\ memory[q.user] \subseteq q.ever
          BY <3>4 DEF R!Idle
        <5> HIDE DEF q
        <5> QED
          BY <5>1, <5>2, HasIsFaithful
      <4> QED
        BY <4>1, <4>2
    <3>7. Handled(q, memory', cached')
      BY <3>1, <3>4, <3>6 DEF Handled, R!Idle
    <3> HIDE DEF q
    <3>8. ASSUME NEW s \in Requests \ {r}
          PROVE  request'[s] \in Handler /\ Handled(request'[s], memory', cached')
      <4>1. request[s] \in Handler /\ Handled(request[s], memory, cached)
        BY <2>0
      <4>2. CASE request'[s] = request[s] /\ request[s].pc \notin {"deciding", "fetching"}
        BY <3>1, <4>1, <4>2 DEF Handled
      <4>3. CASE request'[s] = [request[s] EXCEPT !.alone = FALSE]
        <5>1. /\ request'[s].alone = FALSE /\ request'[s].pc = request[s].pc
              /\ request'[s].user = request[s].user /\ request'[s].kept = request[s].kept
              /\ request'[s].ever = request[s].ever /\ request'[s].sources = request[s].sources
              /\ request'[s].calls = request[s].calls /\ request'[s].found = request[s].found
              /\ request'[s] \in Handler
          BY <4>1, <4>3 DEF Handler
        <5> QED
          BY <3>1, <4>1, <5>1 DEF Handled, Faithful, Of
      <4> QED
        BY <3>2, <4>2, <4>3
    <3>9. \A s \in Requests : request'[s] \in Handler /\ Handled(request'[s], memory', cached')
      BY <3>2, <3>5, <3>7, <3>8
    <3> QED
      BY <2>0, <3>1, <3>2, <3>3, <3>9 DEF RetrievalInv, RetrievalTypes
  <2>2. ASSUME NEW r \in Requests, NEW calls \in R!Answers, R!ModelCalls(r, calls)
        PROVE  RetrievalInv'
    <3> DEFINE q == request[r]
    <3>1. /\ q.pc = "deciding" /\ q \in Handler /\ Handled(q, memory, cached)
          /\ UNCHANGED <<memory, cached>>
          /\ request' = [request EXCEPT ![r] = request'[r]]
          /\ request'[r] = [q EXCEPT
                  !.pc = IF calls = <<>> THEN "answered" ELSE "fetching",
                  !.calls = calls,
                  !.found = [i \in 1..Len(calls) |-> R!Pending]]
      BY <2>0, <2>2 DEF R!ModelCalls, R!Goes, RetrievalTypes
    <3>2. calls \in Seq(R!Calls) /\ Len(calls) \in Nat
      BY AnswersAreCalls
    <3>3. [i \in 1..Len(calls) |-> R!Pending] \in Seq(Findings)
      <4>1. R!Pending \in Findings
        BY Zenon DEF Findings
      <4> QED
        BY <3>2, <4>1, FindingsAreSequences
    <3>4. request'[r] \in Handler
      BY <3>1, <3>2, <3>3 DEF Handler
    <3>5. /\ request'[r].pc = IF calls = <<>> THEN "answered" ELSE "fetching"
          /\ request'[r].calls = calls
          /\ request'[r].found = [i \in 1..Len(calls) |-> R!Pending]
          /\ request'[r].user = q.user /\ request'[r].kept = q.kept
          /\ request'[r].ever = q.ever /\ request'[r].alone = q.alone
          /\ request'[r].sources = {}
      BY <3>1 DEF Handler, Handled
    <3>6. R!Ran(request'[r]) = {}
      BY <3>2, <3>5 DEF R!Ran
    <3>7. Handled(request'[r], memory, cached)
      BY <3>1, <3>2, <3>5, <3>6 DEF Handled, Faithful, Of, KeptIn
    <3> QED
      BY <3>1, <3>4, <3>7, OneRequest
  <2>3. ASSUME NEW r \in Requests, NEW n \in 1..MaxCalls, R!ToolReturns(r, n)
        PROVE  RetrievalInv'
    <3> DEFINE q == request[r]
               result == R!ExecuteTool(q.calls[n], q.user)
    <3>1. /\ q.pc = "fetching" /\ q \in Handler /\ Handled(q, memory, cached)
          /\ UNCHANGED <<memory, cached>> /\ n \in 1..Len(q.calls)
          /\ request' = [request EXCEPT ![r] = request'[r]]
          /\ request'[r] = [q EXCEPT !.found[n] = result]
      BY <2>0, <2>3 DEF R!ToolReturns, R!Goes, RetrievalTypes
    <3>2. q.calls[n] \in R!Calls /\ q.user \in Users /\ Len(q.found) = Len(q.calls)
      BY <3>1 DEF Handler, Handled
    <3>3. result \in SUBSET R!Sources
      BY <2>0, <3>2, HasIsSources DEF R!ExecuteTool, R!SearchProfile, R!Domains, RetrievalTypes
    <3>4. q.alone => Faithful(q, result, KeptFor(q, q.calls[n]))
      <4>1. CASE q.calls[n].domain = "unknown"
        BY <3>1, <4>1, UnknownKeepsNothing DEF Faithful, Of, Handler
      <4>2. CASE q.calls[n].domain # "unknown"
        BY <3>1, <3>2, <4>2, ToolsAreFaithful DEF Handled
      <4> QED
        BY <4>1, <4>2
    <3> HIDE DEF result
    <3>5. request'[r] \in Handler
      <4>1. q.found \in Seq(Findings)
        BY <3>1 DEF Handler
      <4>2. [q.found EXCEPT ![n] = result] \in Seq(Findings)
        <5>1. result \in Findings /\ n \in Nat /\ n \in 1..Len(q.found)
          BY <3>1, <3>2, <3>3 DEF Findings
        <5> QED
          BY <4>1, <5>1, FindingsAreSequences
      <4> DEFINE found == [q.found EXCEPT ![n] = result]
      <4>3. request'[r] = [q EXCEPT !.found = found]
        BY <3>1 DEF Handler
      <4> HIDE DEF found, q
      <4> QED
        BY <3>1, <4>2, <4>3 DEF Handler, found
    <3>6. /\ request'[r].pc = "fetching" /\ request'[r].calls = q.calls
          /\ request'[r].user = q.user /\ request'[r].kept = q.kept
          /\ request'[r].ever = q.ever /\ request'[r].alone = q.alone
          /\ Len(request'[r].found) = Len(q.calls)
          /\ \A i \in 1..Len(q.calls) :
                request'[r].found[i] = IF i = n THEN result ELSE q.found[i]
      BY <3>1, <3>2 DEF Handler
    <3>7. R!Ran(request'[r]) \subseteq R!Ran(q) \cup {n}
      BY <3>6 DEF R!Ran
    <3>8. Handled(request'[r], memory, cached)
      BY <3>1, <3>4, <3>6, <3>7 DEF Handled, Faithful, Of, KeptIn, KeptFor, R!Ran
    <3> QED
      BY <3>1, <3>5, <3>8, OneRequest
  <2>4. ASSUME NEW r \in Requests, R!AddContext(r)
        PROVE  RetrievalInv'
    <3> DEFINE q == request[r]
               sources == R!Collected(q) \cup
                   (IF R!AsksSummary(q) THEN {} ELSE R!Has(q.user, "summary"))
    <3>1. /\ q.pc = "fetching" /\ q \in Handler /\ Handled(q, memory, cached)
          /\ UNCHANGED <<memory, cached>> /\ R!Ran(q) = 1..Len(q.calls)
          /\ request' = [request EXCEPT ![r] = request'[r]]
          /\ request'[r] = [q EXCEPT !.pc = "answering", !.sources = sources]
      BY <2>0, <2>4 DEF R!AddContext, R!Goes, RetrievalTypes
    <3>2. sources \in SUBSET R!Sources
      <4>1. \A i \in 1..Len(q.found) : q.found[i] \in SUBSET R!Sources
        <5> TAKE i \in 1..Len(q.found)
        <5>1. q.found[i] # R!Pending
          BY <3>1 DEF R!Ran, Handled
        <5>2. q.found[i] \in Findings
          BY <3>1 DEF Handler
        <5> QED
          BY <5>1, <5>2, Zenon DEF Findings
      <4>2. R!Has(q.user, "summary") \subseteq R!Sources
        BY <2>0, <3>1, HasIsSources DEF Handled
      <4> QED
        BY <4>1, <4>2 DEF R!Collected
    <3>3. q.alone => Faithful(q, sources, R!Owed(q))
      BY <2>0, <3>1, CollectedIsFaithful
    <3> HIDE DEF sources
    <3>4. request'[r] \in Handler
      BY <3>1, <3>2 DEF Handler
    <3>5. /\ request'[r].pc = "answering" /\ request'[r].calls = q.calls
          /\ request'[r].user = q.user /\ request'[r].kept = q.kept
          /\ request'[r].ever = q.ever /\ request'[r].alone = q.alone
          /\ request'[r].sources = sources
      BY <3>1 DEF Handler
    <3>6. R!Owed(request'[r]) = R!Owed(q)
      BY <3>5 DEF R!Owed
    <3>7. Handled(request'[r], memory, cached)
      BY <3>1, <3>3, <3>5, <3>6 DEF Handled, Faithful, Of
    <3> QED
      BY <3>1, <3>4, <3>7, OneRequest
  <2>5. ASSUME NEW r \in Requests, R!ModelAnswers(r)
        PROVE  RetrievalInv'
    <3> DEFINE q == request[r]
    <3>1. /\ q.pc = "answering" /\ q \in Handler /\ Handled(q, memory, cached)
          /\ UNCHANGED <<memory, cached>>
          /\ request' = [request EXCEPT ![r] = request'[r]]
          /\ request'[r] = [q EXCEPT !.pc = "answered"]
      BY <2>0, <2>5 DEF R!ModelAnswers, R!Goes, RetrievalTypes
    <3>2. request'[r] \in Handler
      BY <3>1 DEF Handler
    <3>3. /\ request'[r].pc = "answered" /\ request'[r].calls = q.calls
          /\ request'[r].user = q.user /\ request'[r].kept = q.kept
          /\ request'[r].ever = q.ever /\ request'[r].alone = q.alone
          /\ request'[r].sources = q.sources
      BY <3>1 DEF Handler
    <3>4. R!Owed(request'[r]) = R!Owed(q)
      BY <3>3 DEF R!Owed
    <3>5. Handled(request'[r], memory, cached)
      BY <3>1, <3>3, <3>4 DEF Handled, Faithful, Of
    <3> QED
      BY <3>1, <3>2, <3>5, OneRequest
  <2>6. ASSUME NEW r \in Requests, R!RetrievalFails(r) \/ R!Respond(r)
        PROVE  RetrievalInv'
    <3>1. /\ UNCHANGED <<memory, cached>>
          /\ request' = [request EXCEPT ![r] = request'[r]]
          /\ \/ request'[r] = [R!Idle EXCEPT !.pc = "failed", !.user = request[r].user]
             \/ request'[r] = R!Idle
      BY <2>0, <2>6 DEF R!RetrievalFails, R!Respond, R!Goes, RetrievalTypes
    <3>2. request[r].user \in Users \cup {None}
      BY <2>0 DEF Handler
    <3>3. request'[r] \in Handler
      BY <3>1, <3>2, IdleIsHandler DEF Handler
    <3>4. CASE request'[r] = R!Idle
      BY <3>1, <3>4, IdleIsHandler, OneRequest
    <3>5. CASE request'[r] = [R!Idle EXCEPT !.pc = "failed", !.user = request[r].user]
      <4>1. request'[r].pc = "failed" /\ request'[r].kept = {} /\ request'[r].ever = {}
        BY <3>5 DEF R!Idle
      <4>2. Handled(request'[r], memory, cached)
        BY <4>1 DEF Handled
      <4> QED
        BY <3>1, <3>3, <4>2, OneRequest
    <3> QED
      BY <3>1, <3>4, <3>5
  <2>7. ASSUME NEW r \in Requests, NEW u \in Users,
               NEW domains \in SUBSET {"profile", "temporal", "summary"},
               NEW none \in SUBSET {"profile", "temporal"},
               R!StartSearch(r, u, domains, none)
        PROVE  RetrievalInv'
    <3> DEFINE kept == R!Spared({i \in memory[u] : i.domain \in domains}, none)
               sources == UNION {R!Has(u, d) : d \in domains \ (none \cup {"summary"})}
    <3>1. /\ UNCHANGED <<memory, cached>>
          /\ request' = [request EXCEPT ![r] = request'[r]]
          /\ request'[r] = [R!Idle EXCEPT
                !.pc = IF "summary" \in domains THEN "searching" ELSE "searched",
                !.user = u, !.kept = kept, !.ever = memory[u], !.sources = sources]
      BY <2>0, <2>7 DEF R!StartSearch, R!Goes, RetrievalTypes
    <3>2. kept \in SUBSET memory[u] /\ memory[u] \in SUBSET R!Items
      BY <2>0 DEF R!Spared, RetrievalTypes
    <3>3. sources \in SUBSET R!Sources
      BY <2>0, HasIsSources
    <3>4. sources \subseteq {R!Source(u, i) : i \in memory[u]}
      BY DEF R!Has
    <3>5. ASSUME NEW i \in kept, i.domain # "summary" \/ "summary" \notin domains
          PROVE  R!Source(u, i) \in sources
      <4>1. i \in memory[u] /\ i.domain \in domains /\ i.domain \notin none
        BY DEF R!Spared
      <4>2. i.domain \in domains \ (none \cup {"summary"})
        BY <3>5, <4>1
      <4>3. R!Source(u, i) \in R!Has(u, i.domain)
        BY <4>1 DEF R!Has
      <4> QED
        BY <4>2, <4>3
    <3> HIDE DEF kept, sources
    <3>6. request'[r] \in Handler
      BY <3>1, <3>2, <3>3, IdleIsHandler DEF Handler
    <3>7. /\ request'[r].pc = IF "summary" \in domains THEN "searching" ELSE "searched"
          /\ request'[r].user = u /\ request'[r].kept = kept
          /\ request'[r].ever = memory[u] /\ request'[r].sources = sources
      BY <3>1 DEF R!Idle
    <3>8. Handled(request'[r], memory, cached)
      BY <3>2, <3>4, <3>5, <3>7 DEF Handled, Faithful, Of
    <3> QED
      BY <3>1, <3>6, <3>8, OneRequest
  <2>8. ASSUME NEW r \in Requests, NEW fails \in BOOLEAN, R!SearchSummary(r, fails)
        PROVE  RetrievalInv'
    <3> DEFINE q == request[r]
               kept == IF fails THEN R!Spared(q.kept, {"summary"}) ELSE q.kept
               sources == q.sources \cup (IF fails THEN {} ELSE R!Has(q.user, "summary"))
    <3>1. /\ q.pc = "searching" /\ q \in Handler /\ Handled(q, memory, cached)
          /\ UNCHANGED <<memory, cached>>
          /\ request' = [request EXCEPT ![r] = request'[r]]
          /\ request'[r] = [q EXCEPT !.pc = "searched", !.kept = kept, !.sources = sources]
      BY <2>0, <2>8 DEF R!SearchSummary, R!Goes, RetrievalTypes
    <3>2. Faithful(q, R!Has(q.user, "summary"), KeptIn(q, "summary"))
      BY <3>1, HasIsFaithful DEF Handled
    <3>3. kept \subseteq q.kept /\ sources \subseteq R!Sources
      BY <2>0, <3>1, HasIsSources DEF R!Spared, Handled, Handler
    <3>4. sources \subseteq Of(q, q.ever)
      BY <3>1, <3>2 DEF Handled, Faithful
    <3>5. ASSUME NEW i \in kept
          PROVE  R!Source(q.user, i) \in sources
      <4>1. CASE i.domain = "summary"
        BY <3>2, <3>5, <4>1 DEF R!Spared, Faithful, Of, KeptIn
      <4>2. CASE i.domain # "summary"
        BY <3>1, <3>3, <4>2 DEF Handled, Faithful, Of
      <4> QED
        BY <4>1, <4>2
    <3> HIDE DEF kept, sources
    <3>6. request'[r] \in Handler
      BY <3>1, <3>3 DEF Handler
    <3>7. /\ request'[r].pc = "searched" /\ request'[r].user = q.user
          /\ request'[r].kept = kept /\ request'[r].ever = q.ever
          /\ request'[r].sources = sources
      BY <3>1 DEF Handler
    <3>8. Handled(request'[r], memory, cached)
      BY <3>1, <3>3, <3>4, <3>5, <3>7 DEF Handled, Faithful, Of
    <3> QED
      BY <3>1, <3>6, <3>8, OneRequest
  <2>9. ASSUME NEW u \in Users, NEW i \in R!Items, R!Ingest(u, i)
        PROVE  RetrievalInv'
    <3>1. /\ memory' = [memory EXCEPT ![u] = IF i \in memory[u] THEN memory[u] \ {i}
                                                            ELSE memory[u] \cup {i}]
          /\ request' = [r \in Requests |->
                IF request[r].user = u
                THEN [request[r] EXCEPT !.kept = request[r].kept \ {i},
                                        !.ever = request[r].ever \cup {i}]
                ELSE request[r]]
          /\ cached' = cached
      BY <2>9 DEF R!Ingest
    <3>2. memory' \in [Users -> SUBSET R!Items]
      BY <2>0, <3>1 DEF RetrievalTypes
    <3>3. ASSUME NEW r \in Requests
          PROVE  request'[r] \in Handler /\ Handled(request'[r], memory', cached')
      <4> DEFINE q == request[r]
      <4>1. q \in Handler /\ Handled(q, memory, cached) /\ memory[u] \subseteq R!Items
        BY <2>0 DEF RetrievalTypes
      <4>2. CASE q.user # u
        <5>1. request'[r] = q
          BY <3>1, <4>2
        <5>2. q.user \in Users => memory'[q.user] = memory[q.user]
          BY <2>0, <3>1, <4>2 DEF RetrievalTypes
        <5> QED
          BY <3>1, <4>1, <5>1, <5>2 DEF Handled
      <4>3. CASE q.user = u
        <5>1. /\ request'[r] \in Handler
              /\ request'[r].pc = q.pc /\ request'[r].user = u
              /\ request'[r].kept = q.kept \ {i} /\ request'[r].ever = q.ever \cup {i}
              /\ request'[r].alone = q.alone /\ request'[r].calls = q.calls
              /\ request'[r].found = q.found /\ request'[r].sources = q.sources
          BY <3>1, <4>1, <4>3 DEF Handler
        <5>2. \/ memory'[u] = memory[u] \ {i} /\ i \in memory[u]
              \/ memory'[u] = memory[u] \cup {i}
          BY <2>0, <3>1 DEF RetrievalTypes
        <5>3. \A sources, owes, less :
                 Faithful(q, sources, owes) /\ less \subseteq owes => Faithful(request'[r], sources, less)
          BY <4>3, <5>1 DEF Faithful, Of
        <5>4. R!Ran(request'[r]) = R!Ran(q)
          BY <5>1 DEF R!Ran
        <5>5. /\ \A d : KeptIn(request'[r], d) \subseteq KeptIn(q, d)
              /\ \A c : KeptFor(request'[r], c) \subseteq KeptFor(q, c)
              /\ R!Owed(request'[r]) \subseteq R!Owed(q)
          BY <5>1 DEF KeptIn, KeptFor, R!Owed
        <5> HIDE DEF q
        <5> DEFINE n == request'[r]
        <5>6. n.pc \in {"deciding", "fetching"} /\ n.alone =>
                 Faithful(n, cached', KeptIn(n, "profile"))
          BY <3>1, <4>1, <5>1, <5>3, <5>5 DEF Handled
        <5>7. n.pc = "fetching" /\ n.alone => \A k \in R!Ran(n) :
                 Faithful(n, n.found[k], KeptFor(n, n.calls[k]))
          BY <4>1, <5>1, <5>3, <5>4, <5>5 DEF Handled
        <5>8. n.pc \in {"answering", "answered"} /\ n.alone =>
                 Faithful(n, n.sources, IF n.calls = <<>> THEN {} ELSE R!Owed(n))
          <6>1. (IF n.calls = <<>> THEN {} ELSE R!Owed(n)) \subseteq
                   (IF q.calls = <<>> THEN {} ELSE R!Owed(q))
            BY <5>1, <5>5
          <6> QED
            BY <4>1, <5>1, <5>3, <6>1 DEF Handled
        <5>9. n.pc \in {"searching", "searched"} =>
                 Faithful(n, n.sources,
                    {k \in n.kept : n.pc = "searching" => k.domain # "summary"})
          <6>1. {k \in n.kept : n.pc = "searching" => k.domain # "summary"} \subseteq
                   {k \in q.kept : q.pc = "searching" => k.domain # "summary"}
            BY <5>1
          <6> QED
            BY <4>1, <5>1, <5>3, <6>1 DEF Handled
        <5> HIDE DEF n
        <5> QED
          BY <4>1, <4>3, <5>1, <5>2, <5>6, <5>7, <5>8, <5>9 DEF Handled, n
      <4> QED
        BY <4>2, <4>3
    <3> QED
      BY <2>0, <3>1, <3>2, <3>3 DEF RetrievalInv, RetrievalTypes
  <2>10. CASE UNCHANGED R!vars
    BY <2>10 DEF R!vars, RetrievalInv, RetrievalTypes
  <2> QED
    BY <2>1, <2>2, <2>3, <2>4, <2>5, <2>6, <2>7, <2>8, <2>9, <2>10 DEF R!Next
<1> QED
  BY <1>1, <1>2, PTL DEF R!Spec

(* AnswersAreFromMemory: what a retrieval that runs alone and what every   *)
(* raw search answers from was stored for its user while it ran, and what  *)
(* was stored all the time and looked for is among it.                     *)
THEOREM AnswersStayFromMemory == AllSpec => []AnswersAreFromMemory
<1>1. RetrievalInv => AnswersAreFromMemory
  <2> SUFFICES ASSUME RetrievalInv
               PROVE  R!TypeOK /\ R!AnswersAreFromMemory
    BY DEF AnswersAreFromMemory
  <2>1. R!TypeOK
    <3>1. ASSUME NEW r \in Requests
          PROVE  /\ request[r].pc \in {"idle", "deciding", "fetching", "answering", "answered",
                                      "searching", "searched", "failed"}
                 /\ request[r].user \in Users \cup {None}
                 /\ \A n \in 1..Len(request[r].calls) : request[r].calls[n] \in R!Calls
                 /\ request[r].sources \subseteq R!Sources
                 /\ request[r].kept \subseteq request[r].ever
      <4>1. request[r] \in Handler /\ Handled(request[r], memory, cached)
        BY DEF RetrievalInv, RetrievalTypes
      <4> QED
        BY <4>1 DEF Handler, Handled
    <3> QED
      BY <3>1 DEF RetrievalInv, RetrievalTypes, R!TypeOK
  <2>2. R!AnswersAreFromMemory
    BY DEF RetrievalInv, R!AnswersAreFromMemory, Handled, Faithful, Of
  <2> QED
    BY <2>1, <2>2
<1> QED
  BY <1>1, RetrievalKeepsItsSpec, RetrievalIsFaithful, PTL
====
