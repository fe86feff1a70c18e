----------------------------- MODULE AstParser -----------------------------
(***************************************************************************)
(* What the scanner takes from a source file (scanner/ast_parser.py, the   *)
(* Python, TypeScript/JavaScript and Go parsers) and keeps of it from scan *)
(* to scan (_process_file of scanner_v1/indexer.py).                       *)
(*                                                                         *)
(* A file is its syntax tree in preorder, a node to a line: [kind, name,   *)
(* depth, note].  A node's subtree are the nodes after it that are deeper. *)
(* kind is "def" for a function, "class" for a class or a Go type, "block" *)
(* for a statement around others, "call", "binary" for a binary            *)
(* expression, "error" for what the language's grammar does not know.      *)
(* note is what stands above a definition: its decorators in               *)
(* Python, its comment in the others.  A file is edited and scanned.       *)
(***************************************************************************)
EXTENDS Integers, FiniteSets, SequencesExt

CONSTANTS Languages,  \* of "python", "typescript", "go"
          Names,
          Notes,
          NoName, NoNote,
          MaxNodes,   \* bound: nodes of the file
          MaxEdits    \* bound: edits after the first scan

VARIABLES language,  \* of the file
          file,
          index,     \* what is stored of it
          edits

vars == <<language, file, index, edits>>

Node(k, n, d, t) == [kind |-> k, name |-> n, depth |-> d, note |-> t]

Nodes ==
    {Node(k, n, d, t) : k \in {"def", "class"}, n \in Names, d \in 0..MaxNodes, t \in Notes \cup {NoNote}}
        \cup {Node("call", n, d, NoNote) : n \in Names, d \in 1..MaxNodes}
        \cup {Node(k, NoName, d, NoNote) : k \in {"block", "binary", "error"}, d \in 0..MaxNodes}

(* The methods of a Go type stand beside it.                                *)
Holders(l) == {"def", "block"} \cup (IF l = "go" THEN {} ELSE {"class"})

(* A tree: a node that is deeper than the one before is its child.          *)
WellFormed(l, f) ==
    \A i \in 1..Len(f) :
        LET limit == IF i = 1 THEN 0
                     ELSE IF f[i - 1].kind \in Holders(l) THEN f[i - 1].depth + 1
                     ELSE f[i - 1].depth
        IN  f[i].depth <= limit

(* The last line of the node i.                                             *)
EndLine(f, i) ==
    CHOOSE e \in i..Len(f) :
        /\ \A j \in (i + 1)..e : f[j].depth > f[i].depth
        /\ e < Len(f) => f[e + 1].depth <= f[i].depth

Inside(f, i, j) == i < j /\ j <= EndLine(f, i)

Parents(f, j) == {i \in 1..Len(f) : Inside(f, i, j) /\ f[i].depth = f[j].depth - 1}

-----------------------------------------------------------------------------
(* Symbols.                                                                 *)

InClass(f, i) == \E c \in Parents(f, i) : f[c].kind = "class"

(* Python looks at the module's statements and at those of its classes.     *)
PythonSymbol(f, i) ==
    \/ f[i].depth = 0 /\ f[i].kind \in {"def", "class"}
    \/ f[i].depth = 1 /\ f[i].kind = "def" /\ InClass(f, i)

(* The tree-sitter visitors go into everything but the body of a class, of  *)
(* which they take the methods.                                             *)
Reached(f, i) == \A c \in 1..(i - 1) : f[c].kind = "class" => ~Inside(f, c, i)

TreeSitterSymbol(f, i) ==
    /\ f[i].kind \in {"def", "class"}
    /\ \/ Reached(f, i)
       \/ /\ f[i].kind = "def"
          /\ \E c \in Parents(f, i) : f[c].kind = "class" /\ Reached(f, c)

IsSymbol(l, f, i) ==
    IF l = "python" THEN PythonSymbol(f, i) ELSE TreeSitterSymbol(f, i)

(* ast.parse takes a file as a whole or not at all; tree-sitter goes on     *)
(* behind an error.                                                         *)
SyntaxError(l, f) == l = "python" /\ \E i \in 1..Len(f) : f[i].kind = "error"

(* A file that cannot be parsed is one without symbols.                     *)
SymbolNodes(l, f) ==
    IF SyntaxError(l, f) THEN {} ELSE {i \in 1..Len(f) : IsSymbol(l, f, i)}

(* "Class.method", or the bare name.                                        *)
Qualified(f, i) ==
    IF f[i].kind = "def" /\ InClass(f, i)
      THEN <<f[CHOOSE c \in Parents(f, i) : TRUE].name, f[i].name>>
      ELSE <<f[i].name>>

(* raw_code: the lines of the node.  The decorators of a Python function    *)
(* and the comments of the others are not among them, those of the          *)
(* definitions inside are.                                                  *)
RawCode(f, i) == [SubSeq(f, i, EndLine(f, i)) EXCEPT ![1].note = NoNote]

(* Mutant: the hash of the first line. *)
SignatureHash(f, i) == <<f[i].kind, f[i].name>>

(* content_hash, as what it is the hash of.                                 *)
ContentHash(f, i) == RawCode(f, i)

Symbol(f, i) == [code |-> RawCode(f, i), hash |-> ContentHash(f, i), line |-> i, note |-> f[i].note]

-----------------------------------------------------------------------------
(* Calls.                                                                   *)

FunctionNodes(f) == {i \in 1..Len(f) : f[i].kind = "def"}

CallNodes(f) == {j \in 1..Len(f) : f[j].kind = "call"}

CallsIn(f, i) == {j \in CallNodes(f) : Inside(f, i, j)}

(* Python: each function of the tree, a symbol or not, calls what is called *)
(* anywhere inside it.                                                      *)
PythonCalls(f) ==
    {<<f[p[1]].name, f[p[2]].name>> : p \in
        {q \in FunctionNodes(f) \X CallNodes(f) :
            q[2] \in CallsIn(f, q[1]) /\ f[q[1]].name # f[q[2]].name}}

(* find_caller of the others: the first function or method among the        *)
(* symbols whose lines the call is on.                                      *)
Callers(l, f, j) == {i \in SymbolNodes(l, f) : f[i].kind = "def" /\ j \in CallsIn(f, i)}

FindCaller(l, f, j) == CHOOSE i \in Callers(l, f, j) : \A k \in Callers(l, f, j) : i <= k

TreeSitterCalls(l, f) ==
    {<<f[FindCaller(l, f, j)].name, f[j].name>> :
        j \in {c \in CallNodes(f) :
                 Callers(l, f, c) # {} /\ f[FindCaller(l, f, c)].name # f[c].name}}

Calls(l, f) ==
    IF SyntaxError(l, f) THEN {}
    ELSE IF l = "python" THEN PythonCalls(f)
    ELSE TreeSitterCalls(l, f)

-----------------------------------------------------------------------------
(* Complexity.  To count && and || the TypeScript parser takes the text of  *)
(* the operator out of a node instead of the source: the subscript raises,  *)
(* and with it the parse of the whole file.                                 *)
ComplexityRaises(l, f) ==
    /\ l = "typescript"
    /\ \E i \in SymbolNodes(l, f), j \in 1..Len(f) :
          f[i].kind = "def" /\ f[j].kind = "binary" /\ Inside(f, i, j)

-----------------------------------------------------------------------------
(* _process_file: an unchanged file is not parsed; of a parsed one the      *)
(* symbols are written whose stored hash is not theirs, in the order of     *)
(* the file, and those it no longer has are deleted.                        *)

QualifiedNames(l, f) == {Qualified(f, i) : i \in SymbolNodes(l, f)}

Written(old, l, f) ==
    {i \in SymbolNodes(l, f) :
        ~(Qualified(f, i) \in DOMAIN old /\ old[Qualified(f, i)].hash = ContentHash(f, i))}

Upserted(old, l, f) ==
    [q \in QualifiedNames(l, f) |->
        LET new == {i \in Written(old, l, f) : Qualified(f, i) = q}
        IN  IF new = {} THEN old[q]
            ELSE Symbol(f, CHOOSE i \in new : \A k \in new : k <= i)]

Empty == [hash |-> <<>>, symbols |-> [q \in {} |-> <<>>], calls |-> {}, scanned |-> FALSE]

Init ==
    /\ language \in Languages
    /\ file = <<>>
    /\ index = Empty
    /\ edits = 0

(* Files grow by a node; after the first scan each node costs an edit.      *)
Edited == edits' = IF index.scanned THEN edits + 1 ELSE edits

MayEdit == index.scanned => edits < MaxEdits

(* A node is added at the end.                                              *)
Write(n) ==
    /\ Len(file) < MaxNodes
    /\ MayEdit
    /\ n.depth <= Len(file)
    /\ WellFormed(language, Append(file, n))
    /\ file' = Append(file, n)
    /\ Edited
    /\ UNCHANGED <<language, index>>

(* A node is replaced by another one of its depth.                          *)
Rewrite(i, n) ==
    /\ index.scanned
    /\ MayEdit
    /\ i \in 1..Len(file)
    /\ n.depth = file[i].depth
    /\ n # file[i]
    /\ WellFormed(language, [file EXCEPT ![i] = n])
    /\ file' = [file EXCEPT ![i] = n]
    /\ Edited
    /\ UNCHANGED <<language, index>>

(* A scan of the file: it is not parsed when its content is the stored one, *)
(* and nothing is written when the parser raises.                           *)
Scan ==
    /\ file # <<>>
    /\ file # index.hash
    /\ IF ComplexityRaises(language, file)
         THEN index' = [index EXCEPT !.scanned = TRUE]
         ELSE index' = [hash |-> file,
                        symbols |-> Upserted(index.symbols, language, file),
                        calls |-> Calls(language, file),
                        scanned |-> TRUE]
    /\ index' # index
    /\ UNCHANGED <<language, file, edits>>

Next ==
    \/ \E n \in Nodes : Write(n)
    \/ \E i \in 1..MaxNodes, n \in Nodes : Rewrite(i, n)
    \/ Scan

Spec == Init /\ [][Next]_vars

-----------------------------------------------------------------------------
TypeOK ==
    /\ language \in Languages
    /\ Range(file) \subseteq Nodes /\ WellFormed(language, file)
    /\ index.calls \subseteq Names \X Names
    /\ edits \in 0..MaxEdits

Current == index.hash = file /\ file # <<>>

Unique(l, f) == \A i, k \in SymbolNodes(l, f) : Qualified(f, i) = Qualified(f, k) => i = k

(* Once the file is scanned, the code stored under each name is the code    *)
(* that has this name now, whatever was stored before: no edit inside a     *)
(* symbol escapes the comparison of its hash.  Of a name defined twice      *)
(* either code may be stored.                                               *)
CodeIsCurrent ==
    Current =>
        \A i \in SymbolNodes(language, file) :
            /\ Qualified(file, i) \in DOMAIN index.symbols
            /\ Unique(language, file) =>
                 index.symbols[Qualified(file, i)].code = RawCode(file, i)

(* No call is lost: a call inside functions the index knows is an edge from *)
(* one of them, unless it has that function's own name.                     *)
NoCallIsLost ==
    Current =>
        \A j \in CallNodes(file) :
            LET around == {i \in SymbolNodes(language, file) :
                             file[i].kind = "def" /\ Inside(file, i, j)}
            IN  around # {} =>
                  \E i \in around : \/ <<file[i].name, file[j].name>> \in index.calls
                                   \/ file[i].name = file[j].name

=============================================================================
