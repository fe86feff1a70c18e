----------------------------- MODULE LegacyIndex -----------------------------
(* The first scanner, src/scanner/indexer.py and src/scanner/enricher.py,     *)
(* which spreads one index over three stores that share no transaction: the   *)
(* documents of src/scanner/code_store.py (hashes, code, summaries and the    *)
(* state of the scans), the vectors, and the graph of                         *)
(* src/graph/code_graph_client.py.  The nightly process scans and then        *)
(* describes a repository; it can die between any two writes.  Files are      *)
(* walked, and the symbols of a file, in any order.                           *)
EXTENDS Integers, Sequences, FiniteSets

CONSTANTS
  Files,            \* paths
  Symbols,          \* content -> (symbol name -> its code)
  Repo,             \* the commits of the branch: each path -> content, or None
  None,
  MaxScans, MaxFaults

\* What the constants may be: a function to each content, a commit to begin with.
LegacyIndexConstants ==
  /\ \A v \in DOMAIN Symbols : Symbols[v] = [n \in DOMAIN Symbols[v] |-> Symbols[v][n]]
  /\ Repo \in Seq([Files -> DOMAIN Symbols \union {None}]) /\ Repo # <<>>
  /\ None \notin DOMAIN Symbols /\ None \notin Files
  /\ MaxScans \in Nat /\ MaxFaults \in Nat

VARIABLES
  head,       \* the commit the branch points to
  files,      \* documents: path -> the content whose hash is stored, or None
  symbols,    \* documents: path -> (name -> code and the source of its summary)
  vectors,    \* vectors: path -> (name -> code and the source of its summary)
  graph,      \* graph: path -> the (name, code) of its Symbol nodes
  completed,  \* last_commit_sha of the scan document, 0 when there is none
  run,        \* what the process is doing
  doubt,      \* paths an error, a scan that broke or a full scan may have left wrong
  described,  \* an enrichment has run to its end since the last scan
  scanned, faults

stores == <<files, symbols, vectors, graph>>
vars == <<head, files, symbols, vectors, graph, completed, run, doubt, described, scanned, faults>>

Tracked(c) == {f \in Files : Repo[c][f] # None}
Changed(c, d) == {f \in Tracked(d) : Repo[c][f] # Repo[d][f]}
Deleted(c, d) == Tracked(c) \ Tracked(d)

Nothing == [n \in {} |-> None]
Idle == [stage |-> "idle", sha |-> 0, todo |-> {}, gone |-> {}, here |-> None,
         rest |-> {}, removed |-> {}, touched |-> {}, symbol |-> None]

With(nodes, n, value) == [m \in DOMAIN nodes \union {n} |-> IF m = n THEN value ELSE nodes[m]]
Without(nodes, names) == [n \in DOMAIN nodes \ names |-> nodes[n]]
Scanning == run.stage \in {"walk", "store", "vector", "graph", "prune", "delete"}
Fault == faults < MaxFaults /\ faults' = faults + 1

Init ==
  /\ head = 1 /\ completed = 0
  /\ files = [f \in Files |-> None]
  /\ symbols = [f \in Files |-> Nothing]
  /\ vectors = [f \in Files |-> Nothing]
  /\ graph = [f \in Files |-> {}]
  /\ run = Idle
  /\ doubt = {} /\ described = FALSE /\ scanned = 0 /\ faults = 0

-----------------------------------------------------------------------------
(* Scanning.                                                                 *)

\* Someone pushes to the branch.
Push ==
  /\ head < Len(Repo)
  /\ head' = head + 1
  /\ UNCHANGED <<stores, completed, run, doubt, described, scanned, faults>>

\* clone_or_pull, start_scan, and the files of a full or an incremental scan.
Start ==
  /\ run.stage = "idle"
  /\ scanned < MaxScans
  /\ scanned' = scanned + 1
  /\ \E forced \in BOOLEAN :
       LET full == forced \/ completed = 0
       IN run' = [Idle EXCEPT
                    !.stage = "walk", !.sha = head,
                    !.todo = IF full THEN Tracked(head) ELSE Changed(completed, head),
                    !.gone = IF full THEN {} ELSE Deleted(completed, head)]
  /\ described' = FALSE
  /\ UNCHANGED <<head, stores, completed, doubt, faults>>

\* A file whose stored hash is its hash is skipped.
SkipFile(f) ==
  /\ run.stage = "walk" /\ f \in run.todo
  /\ files[f] = Repo[run.sha][f]
  /\ run' = [run EXCEPT !.todo = @ \ {f}]
  /\ UNCHANGED <<head, stores, completed, doubt, described, scanned, faults>>

\* The document of a changed file is stored, with the new hash, and its symbols
\* are compared with the stored ones.
StoreFile(f) ==
  LET v == Repo[run.sha][f]
      Same(n) == n \in DOMAIN symbols[f] /\ symbols[f][n].code = Symbols[v][n]
      rest == {n \in DOMAIN Symbols[v] : ~Same(n)}
  IN /\ run.stage = "walk" /\ f \in run.todo
     /\ files[f] # v
     /\ files' = [files EXCEPT ![f] = v]
     /\ run' = [run EXCEPT !.here = f, !.todo = @ \ {f}, !.touched = @ \union {f},
                           !.rest = rest,
                           !.removed = DOMAIN symbols[f] \ DOMAIN Symbols[v],
                           !.stage = IF rest = {} THEN "prune" ELSE "store"]
     /\ UNCHANGED <<head, symbols, vectors, graph, completed, doubt, described, scanned, faults>>

Code(n) == Symbols[Repo[run.sha][run.here]][n]
Fresh(n) == [code |-> Code(n), source |-> "ast"]

\* _index_symbol: the document of the symbol, then its vector, then its node.
StoreSymbol(n) ==
  /\ run.stage = "store" /\ n \in run.rest
  /\ symbols' = [symbols EXCEPT ![run.here] = With(@, n, Fresh(n))]
  /\ run' = [run EXCEPT !.stage = "vector", !.symbol = n, !.rest = @ \ {n}]
  /\ UNCHANGED <<head, files, vectors, graph, completed, doubt, described, scanned, faults>>

AddVector ==
  /\ run.stage = "vector"
  /\ vectors' = [vectors EXCEPT ![run.here] = With(@, run.symbol, Fresh(run.symbol))]
  /\ run' = [run EXCEPT !.stage = "graph"]
  /\ UNCHANGED <<head, files, symbols, graph, completed, doubt, described, scanned, faults>>

\* upsert_symbol merges on the name and the hash: changed code is a new node.
MergeNode ==
  /\ run.stage = "graph"
  /\ graph' = [graph EXCEPT ![run.here] = @ \union {<<run.symbol, Code(run.symbol)>>}]
  /\ run' = [run EXCEPT !.symbol = None,
                        !.stage = IF run.rest = {} THEN "prune" ELSE "store"]
  /\ UNCHANGED <<head, files, symbols, vectors, completed, doubt, described, scanned, faults>>

\* A mutant of PruneSymbols: the vectors stay.
PruneDocuments ==
  /\ run.stage = "prune"
  /\ symbols' = [symbols EXCEPT ![run.here] = Without(@, run.removed)]
  /\ run' = [run EXCEPT !.stage = "walk", !.here = None, !.removed = {}]
  /\ UNCHANGED <<head, files, vectors, graph, completed, doubt, described, scanned, faults>>

\* The symbols the file lost are deleted, document and vector (a failure to
\* delete the vector is logged), and the record of the file itself is written.
PruneSymbols ==
  /\ run.stage = "prune"
  /\ symbols' = [symbols EXCEPT ![run.here] = Without(@, run.removed)]
  /\ run' = [run EXCEPT !.stage = "walk", !.here = None, !.removed = {}]
  /\ \/ /\ vectors' = [vectors EXCEPT ![run.here] = Without(@, run.removed)]
        /\ UNCHANGED <<doubt, faults>>
     \/ /\ run.removed # {} /\ Fault
        /\ doubt' = doubt \union {run.here}
        /\ UNCHANGED vectors
  /\ UNCHANGED <<head, files, graph, completed, described, scanned>>

\* Any other write of a file fails: the scan goes on with the next one.
FileErrors(f) ==
  /\ \/ run.stage = "walk" /\ f \in run.todo
     \/ run.stage \in {"store", "vector", "graph", "prune"} /\ f = run.here
  /\ Fault
  /\ doubt' = doubt \union {f}
  /\ run' = [run EXCEPT !.stage = "walk", !.here = None, !.rest = {}, !.removed = {},
                        !.symbol = None, !.todo = @ \ {f}]
  /\ UNCHANGED <<head, stores, completed, described, scanned>>

\* _delete_file of the deleted files: documents and vectors; the graph keeps its
\* nodes.  Vectors that cannot be deleted are logged and stay.
DeleteFiles ==
  /\ run.stage = "walk" /\ run.todo = {}
  /\ files' = [f \in Files |-> IF f \in run.gone THEN None ELSE files[f]]
  /\ symbols' = [f \in Files |-> IF f \in run.gone THEN Nothing ELSE symbols[f]]
  /\ \E kept \in SUBSET run.gone :
       /\ IF kept = {} THEN UNCHANGED faults ELSE Fault
       /\ vectors' = [f \in Files |-> IF f \in run.gone \ kept THEN Nothing ELSE vectors[f]]
       /\ doubt' = doubt \union kept
       /\ run' = [run EXCEPT !.stage = "delete", !.touched = @ \union run.gone]
  /\ UNCHANGED <<head, graph, completed, described, scanned>>

\* complete_scan, after the directories and the edges; a full scan has not
\* looked for files the commit no longer has.
Complete ==
  /\ run.stage = "delete"
  /\ completed' = run.sha
  /\ doubt' = doubt \union {f \in Files \ Tracked(run.sha) : files[f] # None}
  /\ run' = Idle
  /\ UNCHANGED <<head, stores, described, scanned, faults>>

\* fail_scan, or the process dies: the next scan starts from the same commit.
Stop ==
  /\ run.stage # "idle"
  /\ Fault
  /\ doubt' = IF Scanning THEN doubt \union run.touched \union run.gone ELSE doubt
  /\ run' = Idle
  /\ UNCHANGED <<head, stores, completed, described, scanned>>

-----------------------------------------------------------------------------
(* Describing.                                                               *)

Pending == UNION {{<<f, n>> : n \in {m \in DOMAIN symbols[f] : symbols[f][m].source # "llm"}} :
                  f \in Files}

\* _enrich_symbols takes the symbols that are not described, until there are none.
Take ==
  /\ run.stage \in {"idle", "next"}
  /\ run.stage = "idle" => completed # 0 /\ ~described
  /\ IF Pending = {} THEN run' = Idle /\ described' = TRUE
     ELSE /\ \E s \in Pending : run' = [Idle EXCEPT !.stage = "ask", !.symbol = s]
          /\ UNCHANGED described
  /\ UNCHANGED <<head, stores, completed, doubt, scanned, faults>>

\* The model fails: _call_llm_safe returns nothing, nothing is written, and the
\* symbol is among those taken next.
AskFails ==
  /\ run.stage = "ask"
  /\ Fault
  /\ run' = [run EXCEPT !.stage = "next", !.symbol = None]
  /\ UNCHANGED <<head, stores, completed, doubt, described, scanned>>

\* update_symbol_summary: the document has the summary and its source.
DescribeDocument ==
  /\ run.stage = "ask"
  /\ symbols' = [symbols EXCEPT ![run.symbol[1]][run.symbol[2]].source = "llm"]
  /\ run' = [run EXCEPT !.stage = "embed"]
  /\ UNCHANGED <<head, files, vectors, graph, completed, doubt, described, scanned, faults>>

\* The summary is embedded and its vector stored; then its node, where an error
\* is only logged.  An error before that is caught with the next symbol taken.
DescribeVector ==
  /\ run.stage = "embed"
  /\ \/ /\ vectors' = [vectors EXCEPT ![run.symbol[1]] =
                         With(@, run.symbol[2],
                              [code |-> symbols[run.symbol[1]][run.symbol[2]].code,
                               source |-> "llm"])]
        /\ UNCHANGED faults
     \/ Fault /\ UNCHANGED vectors
  /\ run' = [run EXCEPT !.stage = "next", !.symbol = None]
  /\ UNCHANGED <<head, files, symbols, graph, completed, doubt, described, scanned>>

Next ==
  \/ Push \/ Start
  \/ \E f \in Files : SkipFile(f) \/ StoreFile(f) \/ FileErrors(f)
  \/ \E n \in run.rest : StoreSymbol(n)
  \/ AddVector \/ MergeNode \/ PruneSymbols \/ DeleteFiles \/ Complete \/ Stop
  \/ Take \/ AskFails \/ DescribeDocument \/ DescribeVector

Spec == Init /\ [][Next]_vars

-----------------------------------------------------------------------------
(* Properties.                                                               *)

Codes(nodes) == [n \in DOMAIN nodes |-> nodes[n].code]

\* Between scans the documents and the vectors of every file say what the commit
\* completed last says, and the graph has at least those symbols, except for the
\* files an error, a scan that stopped half way or a full scan left in doubt: a
\* symbol whose document has its hash is never written to the other stores again.
StoresAgree ==
  (~Scanning /\ completed # 0) =>
    \A f \in Files \ doubt :
      LET v == Repo[completed][f]
          codes == IF v = None THEN Nothing ELSE Symbols[v]
      IN /\ files[f] = v
         /\ Codes(symbols[f]) = codes
         /\ Codes(vectors[f]) = codes
         /\ \A n \in DOMAIN codes : <<n, codes[n]>> \in graph[f]

=============================================================================
