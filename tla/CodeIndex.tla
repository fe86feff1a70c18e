------------------------------ MODULE CodeIndex ------------------------------
(* Scanning a repository into the code index and describing its symbols:     *)
(* src/scanner_v1/indexer.py (scan_repo), src/scanner_v1/store.py (File,      *)
(* Symbol and Scan nodes), src/scanner_v1/enricher.py (the second phase) and  *)
(* the clone they share, src/api/routes/scanner.py (_run_phase1, _run_phase2, *)
(* _cleanup_clone).  A scan buffers its rows and writes them in batches, file *)
(* rows before symbol rows; a file whose stored hash is its hash is skipped.  *)
(* Files are walked, and the symbols of a file, in any order.                *)
EXTENDS Integers, Sequences, FiniteSets

CONSTANTS
  Scans,            \* the threads that scan
  Files,            \* paths
  Symbols,          \* content -> (symbol name -> its code)
  Repo,             \* the commits of the branch: each path -> content, or None
  None,
  FileBatch, SymbolBatch,  \* FILE_FLUSH_THRESHOLD, SYMBOL_FLUSH_THRESHOLD
  MaxScans, MaxFaults

\* What the constants may be: a function to each content, a commit to begin with.
CodeIndexConstants ==
  /\ \A v \in DOMAIN Symbols : Symbols[v] = [n \in DOMAIN Symbols[v] |-> Symbols[v][n]]
  /\ Repo \in Seq([Files -> DOMAIN Symbols \union {None}]) /\ Repo # <<>>
  /\ None \notin DOMAIN Symbols /\ None \notin Files
  /\ {FileBatch, SymbolBatch, MaxScans, MaxFaults} \subseteq Nat

VARIABLES
  head,       \* the commit the branch points to at the host
  clone,      \* the commit checked out in the working copy, 0 when there is none
  files,      \* File nodes: path -> the content whose hash is stored, or None
  symbols,    \* Symbol nodes: path -> (name -> code, summary, source)
  completed,  \* commit of the Scan node completed last, 0 when there is none
  run,        \* what each thread is doing
  doubt,      \* paths a scan that broke or a full scan may have left wrong
  scanned, faults

vars == <<head, clone, files, symbols, completed, run, doubt, scanned, faults>>

Tracked(c) == {f \in Files : Repo[c][f] # None}
Changed(c, d) == {f \in Tracked(d) : Repo[c][f] # Repo[d][f]}
Deleted(c, d) == Tracked(c) \ Tracked(d)

Idle == [stage |-> "idle", sha |-> 0, full |-> FALSE, todo |-> {}, gone |-> {},
         fileRows |-> [f \in {} |-> None], symbolRows |-> {},
         here |-> None, text |-> None, rest |-> {}, removed |-> {}, touched |-> {}, clean |-> {},
         rows |-> {}]

Scanning(p) == run[p].stage \in {"begin", "walk", "delete", "link"}
Fault == faults < MaxFaults /\ faults' = faults + 1

Init ==
  /\ head = 1 /\ clone = 0 /\ completed = 0
  /\ files = [f \in Files |-> None]
  /\ symbols = [f \in Files |-> [n \in {} |-> None]]
  /\ run = [p \in Scans |-> Idle]
  /\ doubt = {} /\ scanned = 0 /\ faults = 0

-----------------------------------------------------------------------------
(* The store.                                                                *)

\* upsert_files_batch
FilesWith(rows) == [f \in Files |-> IF f \in DOMAIN rows THEN rows[f] ELSE files[f]]

\* upsert_symbols_batch: a MERGE per row that sets every property, the summary
\* and its source among them.
Upserted(nodes, rows, f) ==
  LET mine == {r \in rows : r.file = f}
      named == {r.name : r \in mine}
      CodeOf(n) == (CHOOSE r \in mine : r.name = n).code
  IN [n \in DOMAIN nodes \union named |->
        IF n \in named THEN [code |-> CodeOf(n), summary |-> CodeOf(n), source |-> "ast"]
        ELSE nodes[n]]

SymbolsWith(rows) == [f \in Files |-> Upserted(symbols[f], rows, f)]

\* delete_symbol
Without(nodes, names) == [n \in DOMAIN nodes \ names |-> nodes[n]]

-----------------------------------------------------------------------------
(* Phase 1.                                                                  *)

\* Someone pushes to the branch.
Push ==
  /\ head < Len(Repo)
  /\ head' = head + 1
  /\ UNCHANGED <<clone, files, symbols, completed, run, doubt, scanned, faults>>

\* clone_or_pull and the check that the repository has files of a known
\* language; without any the clone is removed and the scan ends in an error.
Pull(p) ==
  /\ run[p].stage = "idle"
  /\ scanned < MaxScans
  /\ scanned' = scanned + 1
  /\ \E full \in BOOLEAN :
       IF Tracked(head) = {}
         THEN clone' = 0 /\ run' = run
         ELSE /\ clone' = head
              /\ run' = [run EXCEPT ![p] = [Idle EXCEPT !.stage = "begin", !.sha = head,
                                                        !.full = full]]
  /\ UNCHANGED <<head, files, symbols, completed, doubt, faults>>

\* get_last_commit_sha
LastCommit == completed

\* The Scan node is created and the files to walk and to delete are determined:
\* every tracked file, or the difference from the commit completed last.
Begin(p) ==
  /\ run[p].stage = "begin"
  /\ clone # 0
  /\ LET last == LastCommit
         full == run[p].full \/ last = 0
     IN run' = [run EXCEPT
          ![p].stage = "walk", ![p].full = full,
          ![p].todo = IF full THEN Tracked(clone) ELSE Changed(last, run[p].sha),
          ![p].gone = IF full THEN {} ELSE Deleted(last, run[p].sha)]
  /\ UNCHANGED <<head, clone, files, symbols, completed, doubt, scanned, faults>>

\* A mutant of ChangedSymbols: a symbol that is stored is taken for unchanged.
NewSymbols(f, v) ==
  {n \in DOMAIN Symbols[v] : n \notin DOMAIN symbols[f]}

\* The symbols of the content v of f whose stored hash is not theirs.
ChangedSymbols(f, v) ==
  {n \in DOMAIN Symbols[v] :
     ~(n \in DOMAIN symbols[f] /\ symbols[f][n].code = Symbols[v][n])}

Content(f) == IF clone = 0 THEN None ELSE Repo[clone][f]

AtFile(p, f) == run[p].stage = "walk" /\ run[p].here = None /\ f \in run[p].todo

\* _process_file of a file that is missing from the clone or unchanged.
SkipFile(p, f) ==
  /\ AtFile(p, f)
  /\ Content(f) \in {None, files[f]}
  /\ run' = [run EXCEPT ![p].todo = @ \ {f}]
  /\ UNCHANGED <<head, clone, files, symbols, completed, doubt, scanned, faults>>

\* _process_file of a changed file, up to its row in the file buffer, which is
\* written when it is full.  A write that fails leaves the row in the buffer and
\* abandons the file.
ReadFile(p, f) ==
  LET r == run[p]
      v == Content(f)
      rows == [g \in DOMAIN r.fileRows \union {f} |-> IF g = f THEN v ELSE r.fileRows[g]]
      flushes == Cardinality(DOMAIN rows) >= FileBatch
      Reading(buffer) ==
        [r EXCEPT !.fileRows = buffer, !.here = f, !.text = v, !.todo = @ \ {f},
                  !.rest = ChangedSymbols(f, v),
                  !.removed = DOMAIN symbols[f] \ DOMAIN Symbols[v],
                  !.touched = @ \union {f}]
  IN /\ AtFile(p, f)
     /\ v \notin {None, files[f]}
     /\ \/ /\ files' = IF flushes THEN FilesWith(rows) ELSE files
           /\ run' = [run EXCEPT ![p] = Reading(IF flushes THEN Idle.fileRows ELSE rows)]
           /\ UNCHANGED <<doubt, faults>>
        \/ /\ flushes /\ Fault
           /\ run' = [run EXCEPT ![p] = [r EXCEPT !.fileRows = rows, !.todo = @ \ {f},
                                                  !.touched = @ \union {f}]]
           /\ doubt' = doubt \union {f}
           /\ UNCHANGED files
     /\ UNCHANGED <<head, clone, symbols, completed, scanned>>

\* An error before anything of the file is buffered: reading the old hash,
\* parsing or embedding fails, and the scan goes on with the next file.
FileErrors(p, f) ==
  /\ AtFile(p, f)
  /\ Fault
  /\ run' = [run EXCEPT ![p].todo = @ \ {f}]
  /\ doubt' = doubt \union {f}
  /\ UNCHANGED <<head, clone, files, symbols, completed, scanned>>

\* A changed symbol enters the symbol buffer; a full buffer is written,
\* the file buffer before it.  A write that fails abandons the rest of the file
\* and leaves the rows in the buffers, or only those of the symbols.
BufferSymbol(p, n) ==
  LET r == run[p]
      row == [file |-> r.here, name |-> n, code |-> Symbols[r.text][n]]
      rows == r.symbolRows \union {row}
      flushes == Cardinality(rows) >= SymbolBatch
      Abandoned(buffer) == [r EXCEPT !.fileRows = buffer, !.symbolRows = rows, !.here = None,
                                     !.text = None, !.rest = {}, !.removed = {}]
  IN /\ r.stage = "walk" /\ r.here # None /\ n \in r.rest
     /\ \/ /\ ~flushes
           /\ run' = [run EXCEPT ![p].symbolRows = rows, ![p].rest = @ \ {n}]
           /\ UNCHANGED <<files, symbols, doubt, faults>>
        \/ /\ flushes
           /\ files' = FilesWith(r.fileRows)
           /\ symbols' = SymbolsWith(rows)
           /\ run' = [run EXCEPT ![p] = [r EXCEPT !.fileRows = Idle.fileRows,
                                                  !.symbolRows = {}, !.rest = @ \ {n}]]
           /\ UNCHANGED <<doubt, faults>>
        \/ /\ flushes /\ Fault
           /\ \/ files' = files /\ run' = [run EXCEPT ![p] = Abandoned(r.fileRows)]
              \/ files' = FilesWith(r.fileRows)
                 /\ run' = [run EXCEPT ![p] = Abandoned(Idle.fileRows)]
           /\ doubt' = doubt \union {r.here}
           /\ UNCHANGED symbols
     /\ UNCHANGED <<head, clone, completed, scanned>>

\* The symbols the file no longer has are deleted and the file is done.
PruneSymbols(p) ==
  /\ run[p].stage = "walk" /\ run[p].here # None /\ run[p].rest = {}
  /\ symbols' = [symbols EXCEPT ![run[p].here] = Without(@, run[p].removed)]
  /\ run' = [run EXCEPT ![p].here = None, ![p].text = None, ![p].removed = {},
                        ![p].clean = @ \union {run[p].here}]
  /\ UNCHANGED <<head, clone, files, completed, doubt, scanned, faults>>

Walked(p) == run[p].stage = "walk" /\ run[p].here = None /\ run[p].todo = {}

\* _flush_all
FlushAll(p) ==
  /\ Walked(p)
  /\ files' = FilesWith(run[p].fileRows)
  /\ symbols' = SymbolsWith(run[p].symbolRows)
  /\ run' = [run EXCEPT ![p].stage = "delete", ![p].fileRows = Idle.fileRows,
                        ![p].symbolRows = {}]
  /\ UNCHANGED <<head, clone, completed, doubt, scanned, faults>>

\* _delete_file of the deleted files, one by one; a failure is logged and the
\* next file is taken.
DeleteFiles(p) ==
  /\ run[p].stage = "delete"
  /\ \E kept \in SUBSET run[p].gone :
       /\ IF kept = {} THEN UNCHANGED faults ELSE Fault
       /\ files' = [f \in Files |-> IF f \in run[p].gone \ kept THEN None ELSE files[f]]
       /\ symbols' = [f \in Files |-> IF f \in run[p].gone \ kept THEN Without(symbols[f], DOMAIN symbols[f])
                                      ELSE symbols[f]]
       /\ doubt' = doubt \union kept
       /\ run' = [run EXCEPT ![p].stage = "link",
                             ![p].touched = @ \union run[p].gone,
                             ![p].clean = @ \union (run[p].gone \ kept)]
  /\ UNCHANGED <<head, clone, completed, scanned>>

\* The directories and the call and import edges of the walked files are written
\* (nothing else reads them) and the Scan node is completed with the commit.
Complete(p) ==
  /\ run[p].stage = "link"
  /\ completed' = run[p].sha
  /\ doubt' = (doubt \ run[p].clean)
                \union {f \in Files \ Tracked(run[p].sha) : files[f] # None}
  /\ run' = [run EXCEPT ![p] = [Idle EXCEPT !.stage = "fetch"]]
  /\ UNCHANGED <<head, clone, files, symbols, scanned, faults>>

-----------------------------------------------------------------------------
(* A scan that ends early.                                                   *)

Dropped(p) == IF Scanning(p) THEN run[p].touched \union run[p].gone ELSE {}

\* An error outside a single file: git on a clone that is gone, the last flush
\* (with or without its file rows), the edges.  The Scan node becomes failed and
\* the clone is removed.
Fail(p) ==
  /\ \/ run[p].stage = "begin" /\ clone = 0 /\ UNCHANGED <<files, faults>>
     \/ run[p].stage \in {"begin", "link"} /\ Fault /\ UNCHANGED files
     \/ Walked(p) /\ Fault /\ files' \in {files, FilesWith(run[p].fileRows)}
  /\ run' = [run EXCEPT ![p] = Idle]
  /\ clone' = 0
  /\ doubt' = doubt \union Dropped(p)
  /\ UNCHANGED <<head, symbols, completed, scanned>>

\* The user pauses: the progress callback raises, in either phase; the clone stays.
Pause(p) ==
  /\ Scanning(p) \/ run[p].stage \in {"fetch", "enrich"}
  /\ Fault
  /\ run' = [run EXCEPT ![p] = Idle]
  /\ doubt' = doubt \union Dropped(p)
  /\ UNCHANGED <<head, clone, files, symbols, completed, scanned>>

\* The process dies with all its threads.
Crash ==
  /\ \E p \in Scans : run[p].stage # "idle"
  /\ Fault
  /\ run' = [p \in Scans |-> Idle]
  /\ doubt' = doubt \union UNION {Dropped(p) : p \in Scans}
  /\ UNCHANGED <<head, clone, files, symbols, completed, scanned>>

-----------------------------------------------------------------------------
(* Phase 2.                                                                  *)

\* _fetch_unenriched_symbols
FetchRows(p) ==
  /\ run[p].stage = "fetch"
  /\ run' = [run EXCEPT
       ![p].stage = "enrich",
       ![p].rows = UNION {{[file |-> f, name |-> n, code |-> symbols[f][n].code] :
                             n \in {m \in DOMAIN symbols[f] : symbols[f][m].source # "llm"}} :
                           f \in Files}]
  /\ UNCHANGED <<head, clone, files, symbols, completed, doubt, scanned, faults>>

\* _update_symbol: the summary the model wrote of the code that was fetched is
\* stored, if the node is still there.
Describe(p) ==
  /\ run[p].stage = "enrich"
  /\ \E row \in run[p].rows :
       /\ run' = [run EXCEPT ![p].rows = @ \ {row}]
       /\ symbols' = IF row.name \in DOMAIN symbols[row.file]
                       THEN [symbols EXCEPT ![row.file][row.name].summary = row.code,
                                            ![row.file][row.name].source = "llm"]
                       ELSE symbols
  /\ UNCHANGED <<head, clone, files, completed, doubt, scanned, faults>>

\* The model fails in all its attempts: the symbol is skipped.
DescribeFails(p) ==
  /\ run[p].stage = "enrich"
  /\ Fault
  /\ \E row \in run[p].rows : run' = [run EXCEPT ![p].rows = @ \ {row}]
  /\ UNCHANGED <<head, clone, files, symbols, completed, doubt, scanned>>

\* _cleanup_clone
CleanUp(p) ==
  /\ run[p].stage = "enrich" /\ run[p].rows = {}
  /\ run' = [run EXCEPT ![p] = Idle]
  /\ clone' = 0
  /\ UNCHANGED <<head, files, symbols, completed, doubt, scanned, faults>>

Scan(p) ==
  \/ Pull(p) \/ Begin(p)
  \/ \E f \in Files : SkipFile(p, f) \/ ReadFile(p, f) \/ FileErrors(p, f)
  \/ \E n \in run[p].rest : BufferSymbol(p, n)
  \/ PruneSymbols(p) \/ FlushAll(p) \/ DeleteFiles(p)
  \/ Complete(p) \/ Fail(p) \/ Pause(p)
  \/ FetchRows(p) \/ Describe(p) \/ DescribeFails(p) \/ CleanUp(p)

Next == Push \/ Crash \/ \E p \in Scans : Scan(p)

Spec == Init /\ [][Next]_vars

-----------------------------------------------------------------------------
(* Properties.                                                               *)

Matches(f, v) ==
  /\ files[f] = v
  /\ v = None => symbols[f] = [n \in {} |-> None]
  /\ v # None => /\ DOMAIN symbols[f] = DOMAIN Symbols[v]
                 /\ \A n \in DOMAIN Symbols[v] : symbols[f][n].code = Symbols[v][n]

\* Between scans the index holds every file of the commit completed last, with
\* exactly its symbols and their code, and no file it has not: whatever mixture
\* of full, incremental, failed, paused and killed scans came before, except for
\* the files an error or an unfinished scan touched and those a full scan does
\* not delete, until a completed scan parses them again.
IndexIsCurrent ==
  ((\A p \in Scans : ~Scanning(p)) /\ completed # 0) =>
    \A f \in Files \ doubt : Matches(f, Repo[completed][f])

\* The summary of a symbol, once the model has written it, describes the code
\* the symbol has now: a scan that changes the code takes the summary back and
\* lets the enricher write it again.
SummariesAreOfTheirCode ==
  \A f \in Files : \A n \in DOMAIN symbols[f] : symbols[f][n].summary = symbols[f][n].code

=============================================================================
