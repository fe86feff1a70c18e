---- MODULE CodeSearch ----
(***************************************************************************)
(* The searches of code chat (src/pipelines/code_retrieval.py) in the      *)
(* symbols that the scanner stored (src/scanner_v1/store.py): three lanes  *)
(* by likeness to the question and one by number of callers, fused by      *)
(* reciprocal ranks, with the callers and callees of the best.             *)
(*                                                                         *)
(* A lane is a sequence of symbols.  Likeness is any ranking of all the    *)
(* symbols of the index, which all organisations share.                    *)
(***************************************************************************)
EXTENDS Integers, Sequences, FiniteSets, SequencesExt, FiniteSetsExt

CONSTANTS
    Indexed,
    Name,        \* of a symbol: its qualified name, which others may have
    Own,         \* the symbols of the organisation and repository asked for
    Called,      \* CALLS edges: pairs of symbols
    TopK,        \* results wanted
    Wider,       \* times more that a lane is asked for
    Nearest,     \* symbols the vector index yields before the filter
    Smoothing,   \* the constant of reciprocal rank fusion
    Scale,       \* a common multiple of the ranks plus Smoothing
    Seeds,       \* results whose neighbours are added
    Neighbours   \* how many of each

CodeSearchConstants ==
    /\ Own \subseteq Indexed /\ Called \subseteq Own \X Own
    /\ {TopK, Wider, Nearest, Smoothing, Scale, Seeds, Neighbours} \subseteq Nat
    /\ \A r \in 1..Cardinality(Indexed) : Scale % (Smoothing + r) = 0

VARIABLES
    meaning,   \* rankings of the symbols for the question: by summary,
    body,      \* by code,
    words,     \* those that have its words
    found      \* answer of the search, or Nothing

vars == <<meaning, body, words, found>>

Nothing == <<>>
Rankings(S) == {r \in [1..Cardinality(S) -> S] : ToSet(r) = S}
FirstOf(s, n) == SubSeq(s, 1, IF Len(s) < n THEN Len(s) ELSE n)
IsOwn(s) == s \in Own

-----------------------------------------------------------------------------
(* vector_search_symbols: the filter comes after the index has answered.   *)
VectorLane(ranking) ==
    FirstOf(SelectSeq(FirstOf(ranking, Nearest), IsOwn), TopK * Wider)

(* fulltext_search_symbols; words left after those special to Lucene are   *)
(* taken out may be none.                                                  *)
WordLane(ranking) == FirstOf(SelectSeq(ranking, IsOwn), TopK * Wider)

InDegree(s) == Cardinality({c \in Called : c[2] = s})

(* _get_graph_ranked_symbols: symbols that are called, most called first.  *)
GraphLanes ==
    LET called == {s \in Own : InDegree(s) > 0}
    IN {FirstOf(r, TopK * Wider) :
          r \in {q \in Rankings(called) :
                   \A j, k \in DOMAIN q :
                     j < k => InDegree(q[j]) >= InDegree(q[k])}}

Places(lane, n) == {r \in DOMAIN lane : Name[lane[r]] = n}

(* Mutant: the positions themselves are added up. *)
ScoreOfRanks(lanes, n) ==
    MapThenSumSet(LAMBDA l : MapThenSumSet(LAMBDA r : Smoothing + r,
                                           Places(lanes[l], n)), DOMAIN lanes)

(* _rrf_fuse: every place of a name counts. *)
Score(lanes, n) ==
    MapThenSumSet(LAMBDA l : MapThenSumSet(LAMBDA r : Scale \div (Smoothing + r),
                                           Places(lanes[l], n)), DOMAIN lanes)

(* The symbol that stands for a name: the first to have it.                *)
Items(lanes) ==
    LET all == FlattenSeq(lanes)
    IN SelectSeq([k \in DOMAIN all |->
                    IF \E j \in 1..(k - 1) : Name[all[j]] = Name[all[k]]
                    THEN Nothing ELSE <<all[k]>>],
                 LAMBDA x : x # Nothing)

(* A stable sort by falling score.                                         *)
Fused(lanes) ==
    LET items == Items(lanes)
        score(k) == Score(lanes, Name[items[k][1]])
        before(j, k) == score(j) > score(k) \/ (score(j) = score(k) /\ j < k)
        rank(k) == 1 + Cardinality({j \in DOMAIN items \ {k} : before(j, k)})
    IN [r \in DOMAIN items |->
          items[CHOOSE k \in DOMAIN items : rank(k) = r][1]]

(* _seed_and_expand: the neighbours of every symbol of a seed's name.      *)
Expansions(seeds) ==
    LET near(n) == {c \in Called : Name[c[1]] = n \/ Name[c[2]] = n}
        of(n) == {kept \in SUBSET near(n) :
            /\ Cardinality({c \in kept : Name[c[1]] = n}) <= Neighbours
            /\ Cardinality({c \in kept : Name[c[2]] = n}) <= Neighbours}
        most(n) == {kept \in of(n) : \A other \in of(n) :
                      Cardinality(other) <= Cardinality(kept)}
    IN {UNION {f[n] : n \in DOMAIN f} :
          f \in {g \in [{Name[s] : s \in ToSet(seeds)} -> SUBSET Called] :
                   \A n \in DOMAIN g : g[n] \in most(n)}}

(* _search_symbols *)
Search ==
    /\ found = Nothing
    /\ \E graph \in GraphLanes :
         LET lanes == <<VectorLane(meaning), VectorLane(body),
                        WordLane(words), graph>>
             best == FirstOf(Fused(lanes), TopK)
         IN \E context \in Expansions(FirstOf(best, Seeds)) :
              found' = <<[lanes |-> lanes, all |-> Fused(lanes), best |-> best,
                          context |-> context]>>
    /\ UNCHANGED <<meaning, body, words>>

Init ==
    /\ meaning \in Rankings(Indexed) /\ body \in Rankings(Indexed)
    /\ words \in UNION {Rankings(S) : S \in SUBSET Own}
    /\ found = Nothing

Next == Search

Spec == Init /\ [][Next]_vars

-----------------------------------------------------------------------------
Found == found[1]
Above(lane, n, upTo) == Cardinality({r \in Places(lane, n) : r <= upTo})
Position(s, n) == CHOOSE k \in DOMAIN s : Name[s[k]] = n

(* A name that in every lane has, up to every rank, at least as many       *)
(* places as another, and in one lane more, comes before it; every name of *)
(* a lane comes once: _rrf_fuse.                                           *)
FusionRespectsLanes ==
    found # Nothing =>
        LET names == {Name[s] : s \in ToSet(FlattenSeq(Found.lanes))}
            all == Found.all
        IN /\ {Name[s] : s \in ToSet(all)} = names /\ Len(all) = Cardinality(names)
           /\ \A n, m \in names :
                LET ranks == 1..Cardinality(Indexed) IN
                ((\A l \in DOMAIN Found.lanes : \A r \in ranks :
                    Above(Found.lanes[l], n, r) >= Above(Found.lanes[l], m, r))
                 /\ (\E l \in DOMAIN Found.lanes : \E r \in ranks :
                    Above(Found.lanes[l], n, r) > Above(Found.lanes[l], m, r)))
                   => Position(all, n) < Position(all, m)

====
