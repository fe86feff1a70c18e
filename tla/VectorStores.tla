---- MODULE VectorStores ----
(***************************************************************************)
(* The four vector stores of src/storage, any of which VECTOR_STORE_PROVI- *)
(* DER may select: Pinecone, SQLite, Chroma and pgvector behind the one    *)
(* contract of BaseVectorStore.  One namespace is modelled.  The vector of *)
(* a document is named by the text it was computed from; of the metadata   *)
(* the owner, which every search filters on, and one further field are     *)
(* kept.  update is read, merge, write in every store, and several ingests *)
(* update the same document at once.                                       *)
(***************************************************************************)
EXTENDS Integers, Sequences, FiniteSets

CONSTANTS
    Providers,     \* the stores to consider: a subset of AllProviders
    Ids, Texts, Users,
    Threads,       \* callers of update
    NoDocument,    \* nothing is stored under this id
    Cosine(_, _),  \* similarity of two texts' vectors, in hundredths
    Threshold,     \* summary_judge_similarity_threshold, in hundredths
    NoText,        \* an update that brings no text and no vector
    MaxChanges     \* bound: calls of add, update and delete

AllProviders == {"pinecone", "sqlite", "chroma", "pgvector"}

VARIABLES
    provider,      \* the configured store
    documents,     \* what is stored, by id
    updates,       \* the updates under way: what each read and brings
    gone,          \* ids deleted since they were last added
    changes

vars == <<provider, documents, updates, gone, changes>>

Marks == 0..1

Document == [text: Texts, vector: Texts, owner: Users, mark: Marks]

Idle == [busy |-> FALSE]

TypeOK ==
    /\ provider \in AllProviders
    /\ documents \in [Ids -> Document \cup {NoDocument}]
    /\ \A t \in Threads :
         updates[t].busy => /\ updates[t].id \in Ids
                            /\ updates[t].seen \in Document
                            /\ updates[t].text \in Texts \cup {NoText}
                            /\ updates[t].mark \in Marks
    /\ gone \subseteq Ids /\ changes \in 0..MaxChanges

Init ==
    /\ provider \in Providers
    /\ documents = [i \in Ids |-> NoDocument]
    /\ updates = [t \in Threads |-> Idle]
    /\ gone = {} /\ changes = 0

Changed == /\ changes < MaxChanges /\ changes' = changes + 1

Stored(i) == documents[i] # NoDocument

-----------------------------------------------------------------------------
(* add: an upsert in every store; the whole document is replaced.          *)
Add(i, text, owner) ==
    /\ Changed
    /\ documents' = [documents EXCEPT ![i] =
          [text |-> text, vector |-> text, owner |-> owner, mark |-> 0]]
    /\ gone' = gone \ {i}
    /\ UNCHANGED <<provider, updates>>

(* delete answers True whether or not the document was there.              *)
Delete(i) ==
    /\ Changed
    /\ documents' = [documents EXCEPT ![i] = NoDocument]
    /\ gone' = gone \cup {i}
    /\ UNCHANGED <<provider, updates>>

(* update, first half: the document is fetched; without one the answer is  *)
(* False and nothing happens.                                              *)
ReadForUpdate(t, i, text, mark) ==
    /\ ~updates[t].busy /\ Stored(i) /\ Changed
    /\ updates' = [updates EXCEPT ![t] =
          [busy |-> TRUE, id |-> i, seen |-> documents[i], text |-> text,
           mark |-> mark]]
    /\ UNCHANGED <<provider, documents, gone>>

(* The merge of what was read and what the caller brings. *)
Merged(u) ==
    [u.seen EXCEPT !.text = IF u.text = NoText THEN @ ELSE u.text,
                   !.vector = IF u.text = NoText THEN @ ELSE u.text,
                   !.mark = u.mark]

(* update, second half, in each store.  Pinecone upserts the merged        *)
(* document, whether or not one is still there; SQLite and pgvector write  *)
(* all of it where the id still is; Chroma too, but the vector only when   *)
(* the caller brings one.                                                  *)
PineconeWrites(u) == Merged(u)

(* Mutant: the vector column is left alone when the caller brings no vector. *)
SQLiteWrites(u) == IF Stored(u.id) THEN Merged(u) ELSE NoDocument

ChromaWrites(u) ==
    IF ~Stored(u.id) THEN NoDocument
    ELSE IF u.text = NoText
    THEN [Merged(u) EXCEPT !.vector = documents[u.id].vector]
    ELSE Merged(u)

PGKeepsVector(u) ==
    IF ~Stored(u.id) THEN NoDocument
    ELSE IF u.text = NoText
    THEN [Merged(u) EXCEPT !.vector = documents[u.id].vector]
    ELSE Merged(u)

PGWrites(u) == IF Stored(u.id) THEN Merged(u) ELSE NoDocument

WriteUpdate(t) ==
    LET u == updates[t] IN
    /\ u.busy
    /\ documents' = [documents EXCEPT ![u.id] = 
          CASE provider = "pinecone" -> PineconeWrites(u)
            [] provider = "sqlite" -> SQLiteWrites(u)
            [] provider = "chroma" -> ChromaWrites(u)
            [] provider = "pgvector" -> PGWrites(u)]
    /\ updates' = [updates EXCEPT ![t] = Idle]
    /\ UNCHANGED <<provider, gone, changes>>

Next ==
    \/ \E i \in Ids, text \in Texts, owner \in Users : Add(i, text, owner)
    \/ \E i \in Ids : Delete(i)
    \/ \E t \in Threads, i \in Ids, text \in Texts \cup {NoText}, m \in Marks :
         ReadForUpdate(t, i, text, m)
    \/ \E t \in Threads : WriteUpdate(t)

Spec == Init /\ [][Next]_vars

-----------------------------------------------------------------------------
(* search.  Cosine(q, v) is the cosine of the vectors of two texts in      *)
(* hundredths.  Each store makes a score of it, in hundredths as well.     *)
Matching(owner) == {i \in Ids : Stored(i) /\ documents[i].owner = owner}

Clipped(n) == IF n < 0 THEN 0 ELSE IF n > 100 THEN 100 ELSE n

PineconeScore(c) == c

SQLiteScore(c) == Clipped((c + 100) \div 2)

(* One minus the squared distance of unit vectors, which is 2 - 2 * cosine; *)
(* the collection is created with Chroma's default space.                  *)
ChromaScore(c) == Clipped(2 * c - 100)

PGScore(c) == Clipped(c)

Score(p, c) ==
    CASE p = "pinecone" -> PineconeScore(c)
      [] p = "sqlite" -> SQLiteScore(c)
      [] p = "chroma" -> ChromaScore(c)
      [] p = "pgvector" -> PGScore(c)

Similarity(q, i) == Cosine(q, documents[i].vector)

(* The k documents of S nearest to q; equally near ones are all kept here, *)
(* the stores pick among them.                                             *)
Nearest(q, k, S) ==
    {i \in S : Cardinality({j \in S : Similarity(q, j) > Similarity(q, i)}) < k}

(* Mutant: the store is cut to its nearest before it is filtered. *)
SearchThenFilter(q, k, owner) ==
    Nearest(q, k, {i \in Ids : Stored(i)}) \cap Matching(owner)

Search(q, k, owner) == Nearest(q, k, Matching(owner))

(* What the summary judge takes for the same memory. *)
Similar(p, q, owner) ==
    {i \in Matching(owner) : Score(p, Similarity(q, i)) >= Threshold}

-----------------------------------------------------------------------------
(* The vector under which a document is found is the vector of its text,   *)
(* however updates of it interleave: otherwise it is found by what it no   *)
(* longer says.  Chroma's update does not keep this.                       *)
VectorsFollowTexts ==
    provider # "chroma" =>
        \A i \in Ids : Stored(i) => documents[i].vector = documents[i].text

(* A deleted memory stays deleted: an update that read it before writes    *)
(* nothing after.  Pinecone's update, an upsert, does not keep this.       *)
DeletedStaysDeleted ==
    provider # "pinecone" => \A i \in gone : ~Stored(i)

(* A search returns its owner's documents only, and all of them while they *)
(* are fewer than top_k: other users' documents never crowd them out.  And *)
(* whatever score a store makes of the cosine, when the summary judge      *)
(* would take any of them for the same memory, it is shown one that it     *)
(* takes for it.                                                           *)
SearchIsFiltered ==
    \A q \in Texts, k \in 1..2, owner \in Users :
        LET found == Search(q, k, owner)
            same == Similar(provider, q, owner) IN
        /\ found \subseteq Matching(owner)
        /\ same # {} => same \cap found # {}
        /\ Cardinality(Matching(owner)) <= k => found = Matching(owner)

====
