---- MODULE CodeGraph ----
(***************************************************************************)
(* The graph of a repository's code in Neo4j: directories, calls between   *)
(* symbols and imports between files.  A scan (src/scanner_v1/indexer.py)  *)
(* stores the files it finds changed, and then derives directories and     *)
(* edges from what it has just parsed; the enricher describes directories; *)
(* code chat reads the graph (src/pipelines/code_retrieval.py).            *)
(*                                                                         *)
(* How a file and its symbols are stored step by step is in CodeIndex;     *)
(* here the files of a scan are one step, in which each may fail.          *)
(***************************************************************************)
EXTENDS Integers, Sequences, FiniteSets, SequencesExt, TLC

CONSTANTS
    Files,
    Order,       \* sequence of the files, as a scan visits them
    Path,        \* of each file: its directories and its name, a sequence
    Gone,        \* no file
    Versions,    \* of each file, what it may contain
    Package,     \* the name of a file that stands for its directory
    First,       \* what the repository holds at first
    Depth,       \* hops an impact analysis may ask for
    MaxPushes, MaxScans, MaxFaults

(* symbols: qualified names, in order; calls: pairs of flat names;         *)
(* imports: modules.                                                       *)
Version == [symbols: Seq(Seq(STRING)), calls: SUBSET (STRING \X STRING),
            imports: SUBSET Seq(STRING)]

VARIABLES
    code,     \* files on the branch
    scan,     \* the scan under way
    last,     \* code at the last complete scan, or Gone
    stored,   \* files in the graph, by the content their hash is of
    nodes,    \* symbols in the graph: <<file, qualified name>>
    calls,    \* CALLS edges
    imports,  \* IMPORTS edges: pairs of files
    dirs,     \* directory nodes, by path
    pushes, scans, faults,
    read      \* history: versions of each file a scan has parsed

vars == <<code, scan, last, stored, nodes, calls, imports, dirs, pushes,
          scans, faults, read>>
graph == <<stored, nodes, calls, imports, dirs>>

Flat(name) == name[Len(name)]
Directory(file) == Front(Path[file])
Present(tree) == {f \in Files : tree[f] # Gone}
Symbols(tree, f) == {<<f, tree[f].symbols[k]>> : k \in DOMAIN tree[f].symbols}

Idle == [pc |-> "idle", clone |-> code, todo |-> {}, gone |-> {},
         parsed |-> {}, clean |-> TRUE]
At(pc) == scan.pc = pc
Go(pc) == scan' = [scan EXCEPT !.pc = pc]

-----------------------------------------------------------------------------
Push(f, version) ==
    /\ pushes < MaxPushes
    /\ version # code[f]
    /\ code' = [code EXCEPT ![f] = version]
    /\ Present(code') # {}
    /\ pushes' = pushes + 1
    /\ UNCHANGED <<scan, last, graph, scans, faults, read>>

(* scan_repo: clone, and the files to process and to delete.               *)
Begin(full) ==
    /\ At("idle") /\ scans < MaxScans
    /\ scans' = scans + 1
    /\ LET all == full \/ last = Gone
           todo == IF all THEN Present(code)
                   ELSE {f \in Present(code) : code[f] # last[f]}
           gone == IF all THEN {}
                   ELSE {f \in Present(last) : code[f] = Gone}
       IN scan' = [pc |-> "process", clone |-> code, todo |-> todo,
                   gone |-> gone, parsed |-> {},
                   clean |-> all /\ \A f \in Files : stored[f] = Gone]
    /\ UNCHANGED <<code, last, graph, pushes, faults, read>>

(* Mutant: DELETE of the nodes alone. *)
DetachedNever(edges, ns) == edges

(* Nodes that go take their edges with them: DETACH DELETE. *)
Detached(edges, ns) == {e \in edges : e.from \in ns /\ e.to \in ns}

(* _process_file and _flush_all: a file whose hash is the stored one is    *)
(* not parsed; symbols that a file no longer has are deleted.              *)
Process(failing) ==
    LET clone == scan.clone
        changed == {f \in scan.todo : stored[f] # clone[f]}
        done == changed \ failing
        kept == {s \in nodes : s[1] \notin done
                                 \/ s \in Symbols(clone, s[1])}
    IN /\ At("process")
       /\ failing \subseteq changed
       /\ faults + Cardinality(failing) <= MaxFaults
       /\ faults' = faults + Cardinality(failing)
       /\ stored' = [f \in Files |-> IF f \in done THEN clone[f] ELSE stored[f]]
       /\ nodes' = kept \cup UNION {Symbols(clone, f) : f \in done}
       /\ calls' = Detached(calls, kept)
       /\ read' = [f \in Files |-> IF f \in done THEN read[f] \cup {clone[f]}
                                                 ELSE read[f]]
       /\ scan' = [scan EXCEPT !.pc = "delete", !.parsed = done,
                               !.clean = @ /\ failing = {}]
       /\ UNCHANGED <<code, last, imports, dirs, pushes, scans>>

(* delete_file, of each deleted file. *)
Delete ==
    LET left == {s \in nodes : s[1] \notin scan.gone} IN
    /\ At("delete")
    /\ stored' = [f \in Files |-> IF f \in scan.gone THEN Gone ELSE stored[f]]
    /\ nodes' = left
    /\ calls' = Detached(calls, left)
    /\ imports' = {i \in imports : {i[1], i[2]} \cap scan.gone = {}}
    /\ Go("dirs")
    /\ UNCHANGED <<code, last, dirs, pushes, scans, faults, read>>

(* upsert_directory: where the summary came from is left as it was. *)
UpsertDirectory(d, files) ==
    [count |-> Cardinality(files), summary |-> files,
     source |-> IF d \in DOMAIN dirs THEN dirs[d].source ELSE "none"]

(* _build_directory_index: counts and names of the files just parsed.      *)
BuildDirectories ==
    LET in(d) == {f \in scan.parsed : Directory(f) = d}
    IN /\ At("dirs")
       /\ dirs' = [d \in {Directory(f) : f \in scan.parsed} |->
                     UpsertDirectory(d, in(d))] @@ dirs
       /\ Go("calls")
       /\ UNCHANGED <<code, last, stored, nodes, calls, imports, pushes,
                      scans, faults, read>>

(* name_index: the symbols of that flat name in the parsed files, in       *)
(* order.                                                                  *)
Candidates(f, name) ==
    LET own(g) == [k \in DOMAIN scan.clone[g].symbols |->
                     <<g, scan.clone[g].symbols[k]>>]
        all == FoldLeft(LAMBDA s, g : IF g \in scan.parsed THEN s \o own(g)
                                      ELSE s, <<>>, Order)
    IN SelectSeq(all, LAMBDA s : Flat(s[2]) = name)

(* caller_lookup: the last symbol of the file with that flat name. *)
Caller(f, name) ==
    {<<f, scan.clone[f].symbols[k]>> :
        k \in {n \in DOMAIN scan.clone[f].symbols :
                 /\ Flat(scan.clone[f].symbols[n]) = name
                 /\ \A m \in DOMAIN scan.clone[f].symbols :
                      m > n => Flat(scan.clone[f].symbols[m]) # name}}

(* _build_call_edges: from each call to the first candidate; MERGE writes  *)
(* over an edge that is there.                                             *)
CallEdges ==
    UNION {UNION {{[from |-> s, to |-> Candidates(f, c[2])[1],
                    ambiguous |-> Len(Candidates(f, c[2])) > 1] :
                      s \in IF Candidates(f, c[2]) = <<>> THEN {}
                            ELSE Caller(f, c[1])} :
                  c \in scan.clone[f].calls} : f \in scan.parsed}

BuildCalls ==
    LET new == {e \in CallEdges : {e.from, e.to} \subseteq nodes} IN
    /\ At("calls")
    /\ calls' = new \cup {e \in calls : ~\E n \in new : n.from = e.from
                                                       /\ n.to = e.to}
    /\ Go("imports")
    /\ UNCHANGED <<code, last, stored, nodes, imports, dirs, pushes, scans,
                   faults, read>>

(* _resolve_import_to_file: the module's file, or its package's; among the *)
(* parsed files.                                                           *)
ImportedBy(f) ==
    LET named(m) == {g \in scan.parsed : Path[g] = m}
        package(m) == {g \in scan.parsed : Path[g] = Append(m, Package)}
    IN UNION {IF named(m) # {} THEN named(m) ELSE package(m) :
                m \in scan.clone[f].imports} \ {f}

(* add_imports_edges_batch: between files that are in the graph.           *)
Merged(rows) == imports \cup {r \in rows : {r[1], r[2]} \subseteq Present(stored)}

BuildImports ==
    /\ At("imports")
    /\ imports' = Merged(UNION {{<<f, g>> : g \in ImportedBy(f)} :
                                   f \in scan.parsed})
    /\ Go("complete")
    /\ UNCHANGED <<code, last, stored, nodes, calls, dirs, pushes, scans,
                   faults, read>>

Complete ==
    /\ At("complete")
    /\ last' = scan.clone
    /\ Go("idle")
    /\ UNCHANGED <<code, graph, pushes, scans, faults, read>>

(* fail_scan: an error, or the end of the process, between two steps. *)
Fail ==
    /\ scan.pc \in {"delete", "dirs", "calls", "imports", "complete"}
    /\ faults < MaxFaults
    /\ faults' = faults + 1
    /\ scan' = [scan EXCEPT !.pc = "idle", !.clean = FALSE]
    /\ UNCHANGED <<code, last, graph, pushes, scans, read>>

(* _enrich_directories: a directory without a summary of the model's, if   *)
(* there is a file under it.                                               *)
Enrich(d) ==
    /\ At("idle") /\ d \in DOMAIN dirs
    /\ \E f \in Files : stored[f] # Gone /\ IsPrefix(d, Path[f])
    /\ dirs[d].source # "llm"
    /\ dirs' = [dirs EXCEPT ![d].summary = {}, ![d].source = "llm"]
    /\ UNCHANGED <<code, scan, last, stored, nodes, calls, imports, pushes,
                   scans, faults, read>>

Init ==
    /\ code = First
    /\ scan = Idle
    /\ last = Gone
    /\ stored = [f \in Files |-> Gone]
    /\ nodes = {} /\ calls = {} /\ imports = {}
    /\ dirs = <<>>
    /\ pushes = 0 /\ scans = 0 /\ faults = 0
    /\ read = [f \in Files |-> {}]

Next ==
    \/ \E f \in Files : \E version \in Versions[f] \cup {Gone} : Push(f, version)
    \/ \E full \in BOOLEAN : Begin(full)
    \/ \E failing \in SUBSET Files : Process(failing)
    \/ Delete \/ BuildDirectories \/ BuildCalls \/ BuildImports
    \/ Complete \/ Fail
    \/ \E d \in {Directory(f) : f \in Files} : Enrich(d)

Spec == Init /\ [][Next]_vars

-----------------------------------------------------------------------------
(* What code chat reads. *)

(* Lengths of the paths between two symbols; a path takes an edge once. *)
Distances(s, t, depth) ==
    {n \in 1..depth :
        \E w \in [1..n -> calls] :
            /\ w[1].from = s /\ w[n].to = t
            /\ \A k \in 1..(n - 1) : w[k].to = w[k + 1].from
            /\ \A j, k \in 1..n : j # k => w[j] # w[k]}

(* _impact_analysis: callers of the symbols of that qualified name, with   *)
(* their distances; callees are the same, the other way round.             *)
Callers(name, depth) ==
    UNION {{[symbol |-> s, distance |-> n] : n \in Distances(s, t, depth)} :
              s \in nodes, t \in {m \in nodes : m[2] = name}}

(* _get_file_context *)
Context(f) ==
    [symbols |-> {s \in nodes : s[1] = f},
     imports |-> {i[2] : i \in {j \in imports : j[1] = f}},
     importedBy |-> {i[1] : i \in {j \in imports : j[2] = f}}]

(* _get_directory_summary: files are listed by their parent's path, and    *)
(* that of a file at the top is not the path its directory is stored by.   *)
Listed(d) == {f \in Files : d # <<>> /\ Directory(f) = d /\ stored[f] # Gone}

-----------------------------------------------------------------------------
(* After a scan of a repository that was not in the graph before, if       *)
(* nothing failed, the graph is that of the code: a call of a name that    *)
(* one symbol has is an edge to it, a call of a name that several have is  *)
(* one flagged edge to one of them, there are no other edges, and          *)
(* directories count their files: scan_repo, its steps 4 to 8.             *)
FirstScanIsWhole ==
    (scan.clean /\ At("complete")) =>
        LET tree == scan.clone
            all == UNION {Symbols(tree, f) : f \in Present(tree)}
            Of(name) == {s \in all : Flat(s[2]) = name}
            In(f, name) == {s \in Symbols(tree, f) : Flat(s[2]) = name}
        IN /\ nodes = all
           /\ \A f \in Present(tree) : \A c \in tree[f].calls :
                (In(f, c[1]) # {} /\ Of(c[2]) # {}) =>
                    \E e \in calls : /\ e.from \in In(f, c[1])
                                     /\ e.to \in Of(c[2])
                                     /\ e.ambiguous = (Cardinality(Of(c[2])) > 1)
           /\ \A e \in calls : <<Flat(e.from[2]), Flat(e.to[2])>>
                                 \in tree[e.from[1]].calls
           /\ \A f \in Present(tree) :
                Context(f).importedBy =
                    {g \in Present(tree) \ {f} : \E m \in tree[g].imports :
                        \/ Path[f] = m
                        \/ /\ Path[f] = Append(m, Package)
                           /\ \A h \in Present(tree) : Path[h] # m}
           /\ \A f \in Present(tree) :
                LET beside == {g \in Present(tree) :
                                 Directory(g) = Directory(f)}
                IN /\ dirs[Directory(f)].count = Cardinality(beside)
                   /\ Directory(f) # <<>> => Listed(Directory(f)) = beside

(* Whatever is pushed, scanned, deleted or fails: an edge joins symbols    *)
(* that are in the graph, and stands for a call that some scan has read in *)
(* the caller's file: _build_call_edges, delete_symbol, delete_file.       *)
EdgesWereCalls ==
    \A e \in calls :
        /\ {e.from, e.to} \subseteq nodes
        /\ \E v \in read[e.from[1]] :
              <<Flat(e.from[2]), Flat(e.to[2])>> \in v.calls

(* An impact analysis names those that reach the symbol in at most that    *)
(* many calls, each at its shortest distance among others, cycles or not:  *)
(* _impact_analysis.                                                       *)
ImpactIsReach ==
    LET Step(S) == S \cup {e.from : e \in {c \in calls : c.to \in S}}
        Within[k \in 0..Depth, t \in nodes] ==
            IF k = 0 THEN {t} ELSE Step(Within[k - 1, t])
    IN \A t \in nodes, s \in nodes : \A d \in 1..Depth :
          LET same == {m \in nodes : m[2] = t[2]} IN
          (s \notin same) =>
             ((\E r \in Callers(t[2], d) : r.symbol = s)
                <=> s \in UNION {Within[d, m] : m \in same})

====
