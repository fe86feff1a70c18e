---- MODULE IndexProofs ----
(***************************************************************************)
(* Proofs about the indexes of MCCode: of the stores of the older scanner  *)
(* and of the index of the one that replaced it, for any files, contents   *)
(* and history of them, and any bounds.                                    *)
(***************************************************************************)
EXTENDS MCCode, Sequences, FiniteSetTheorems, TLAPS

-----------------------------------------------------------------------------
(* LegacyIndex.  What is known of a file without doubt, while a scan is    *)
(* under way: untouched, it is in the stores as the commit completed last  *)
(* has it, and the scan will come to it if its own commit has it           *)
(* otherwise; touched, it is as the scan's commit has it; and of the file  *)
(* at hand, each symbol that is not left to do is in the stores it has     *)
(* been written to.                                                        *)

TextNames == UNION {DOMAIN Texts[v] : v \in DOMAIN Texts}
TextCodes == UNION {{Texts[v][n] : n \in DOMAIN Texts[v]} : v \in DOMAIN Texts}
LegacyNode == [code : TextCodes, source : {"ast", "llm"}]
LegacyNodes == UNION {[N -> LegacyNode] : N \in SUBSET TextNames}

FileStages == {"store", "vector", "graph", "prune"}
LegacyStages == {"idle", "walk", "delete", "next", "ask", "embed"} \union FileStages

LegacyTyped ==
    /\ legacyFiles \in [Tree -> DOMAIN Texts \union {None}]
    /\ legacySymbols \in [Tree -> LegacyNodes]
    /\ vectors \in [Tree -> LegacyNodes]
    /\ graph \in [Tree -> SUBSET (TextNames \X TextCodes)]
    /\ legacyHead \in DOMAIN Branch
    /\ legacyCompleted \in {0} \union DOMAIN Branch
    /\ legacyRun \in [stage : LegacyStages, sha : {0} \union DOMAIN Branch,
                      todo : SUBSET Tree, gone : SUBSET Tree,
                      here : Tree \union {None}, rest : SUBSET TextNames,
                      removed : SUBSET TextNames, touched : SUBSET Tree,
                      symbol : TextNames \union {None} \union (Tree \X TextNames)]

NamesOf(v) == IF v = None THEN {} ELSE DOMAIN Texts[v]
HasCodes(held, v) ==
    DOMAIN held = NamesOf(v) /\ \A n \in NamesOf(v) : held[n].code = Texts[v][n]

Agrees(f, v) ==
    /\ legacyFiles[f] = v
    /\ HasCodes(legacySymbols[f], v) /\ HasCodes(vectors[f], v)
    /\ \A n \in NamesOf(v) : <<n, Texts[v][n]>> \in graph[f]

LegacyBase(f) == IF legacyCompleted = 0 THEN None ELSE Branch[legacyCompleted][f]
LegacyTarget(f) == Branch[legacyRun.sha][f]

(* The sets a scan works with. *)
ScanShape ==
    L!Scanning =>
    /\ legacyRun.sha \in DOMAIN Branch
    /\ legacyRun.todo \intersect legacyRun.touched = {}
    /\ \A f \in legacyRun.todo : LegacyTarget(f) # None
    /\ \A f \in legacyRun.gone : LegacyTarget(f) = None
    /\ legacyRun.stage = "delete" =>
          legacyRun.todo = {} /\ legacyRun.gone \subseteq legacyRun.touched
    /\ legacyRun.stage # "delete" => legacyRun.gone \intersect legacyRun.touched = {}
    /\ legacyRun.stage \in {"walk", "delete"} => legacyRun.here = None

(* ... and of the file at hand. *)
HereShape ==
    legacyRun.stage \in FileStages =>
    LET names == NamesOf(LegacyTarget(legacyRun.here)) IN
    /\ legacyRun.here \in legacyRun.touched /\ LegacyTarget(legacyRun.here) # None
    /\ legacyRun.rest \subseteq names
    /\ legacyRun.removed \intersect names = {}
    /\ legacyRun.stage \in {"vector", "graph"} =>
          legacyRun.symbol \in names \ legacyRun.rest
    /\ legacyRun.stage = "prune" => legacyRun.rest = {}

Partial(f) ==
    LET v == LegacyTarget(f)
        known == NamesOf(v) \union legacyRun.removed
        done == NamesOf(v) \ legacyRun.rest
        now == {legacyRun.symbol}
        stage == legacyRun.stage
    IN /\ legacyFiles[f] = v
       /\ DOMAIN legacySymbols[f] \subseteq known /\ DOMAIN vectors[f] \subseteq known
       /\ \A n \in done :
            n \in DOMAIN legacySymbols[f] /\ legacySymbols[f][n].code = Texts[v][n]
       /\ \A n \in done \ (IF stage = "vector" THEN now ELSE {}) :
            n \in DOMAIN vectors[f] /\ vectors[f][n].code = Texts[v][n]
       /\ \A n \in done \ (IF stage \in {"vector", "graph"} THEN now ELSE {}) :
            <<n, Texts[v][n]>> \in graph[f]

FileIsKnown(f) ==
    IF ~L!Scanning THEN Agrees(f, LegacyBase(f))
    ELSE IF f \in legacyRun.touched
    THEN IF f = legacyRun.here THEN Partial(f) ELSE Agrees(f, LegacyTarget(f))
    ELSE /\ Agrees(f, LegacyBase(f))
         /\ \/ f \in legacyRun.todo \union legacyRun.gone
            \/ LegacyTarget(f) \in {LegacyBase(f), None}

(* The symbol that is being described is one of the documents'. *)
DescribedIsThere ==
    legacyRun.stage \in {"ask", "embed"} =>
        \E f \in Tree : \E n \in DOMAIN legacySymbols[f] : legacyRun.symbol = <<f, n>>

LegacyInv ==
    /\ LegacyTyped /\ ScanShape /\ HereShape /\ DescribedIsThere
    /\ \A f \in Tree \ legacyDoubt : FileIsKnown(f)

-----------------------------------------------------------------------------
(* The constants, and the nodes of a file. *)

LEMMA TreeFacts ==
    /\ None \notin Tree /\ None \notin DOMAIN Texts /\ Branch # <<>>
    /\ DOMAIN Branch = 1..Len(Branch) /\ Len(Branch) \in Nat /\ 1 \in DOMAIN Branch
    /\ \A c \in DOMAIN Branch : \A f \in Tree : Branch[c][f] \in DOMAIN Texts \union {None}
    /\ \A v \in DOMAIN Texts : Texts[v] = [n \in DOMAIN Texts[v] |-> Texts[v][n]]
<1>1. Branch \in Seq([Tree -> DOMAIN Texts \union {None}]) /\ Branch # <<>>
  BY IndexAssumption DEF L!LegacyIndexConstants
<1>2. /\ DOMAIN Branch = 1..Len(Branch) /\ Len(Branch) \in Nat /\ 1 \in DOMAIN Branch
      /\ \A c \in DOMAIN Branch : Branch[c] \in [Tree -> DOMAIN Texts \union {None}]
  BY <1>1
<1>3. /\ None \notin Tree /\ None \notin DOMAIN Texts
      /\ \A v \in DOMAIN Texts : Texts[v] = [n \in DOMAIN Texts[v] |-> Texts[v][n]]
  BY IndexAssumption DEF L!LegacyIndexConstants
<1> QED
  BY <1>1, <1>2, <1>3

LEMMA NodesAreFunctions ==
    ASSUME NEW held
    PROVE  held \in LegacyNodes <=>
             /\ held = [n \in DOMAIN held |-> held[n]]
             /\ DOMAIN held \subseteq TextNames
             /\ \A n \in DOMAIN held : held[n] \in LegacyNode
<1>1. ASSUME held \in LegacyNodes
      PROVE  /\ held = [n \in DOMAIN held |-> held[n]]
             /\ DOMAIN held \subseteq TextNames
             /\ \A n \in DOMAIN held : held[n] \in LegacyNode
  <2>1. PICK N \in SUBSET TextNames : held \in [N -> LegacyNode]
    BY <1>1 DEF LegacyNodes
  <2> QED
    BY <2>1
<1>2. ASSUME held = [n \in DOMAIN held |-> held[n]],
             DOMAIN held \subseteq TextNames,
             \A n \in DOMAIN held : held[n] \in LegacyNode
      PROVE  held \in LegacyNodes
  <2>1. held \in [DOMAIN held -> LegacyNode]
    BY <1>2
  <2> QED
    BY <2>1, <1>2 DEF LegacyNodes
<1> QED
  BY <1>1, <1>2

(* What the two operators on nodes give. *)
LEMMA WithNode ==
    ASSUME NEW held \in LegacyNodes, NEW n \in TextNames, NEW node \in LegacyNode
    PROVE  /\ L!With(held, n, node) \in LegacyNodes
           /\ DOMAIN L!With(held, n, node) = DOMAIN held \union {n}
           /\ L!With(held, n, node)[n] = node
           /\ \A m \in DOMAIN held : m # n => L!With(held, n, node)[m] = held[m]
<1> DEFINE after == L!With(held, n, node)
<1>1. /\ DOMAIN after = DOMAIN held \union {n}
      /\ after[n] = node
      /\ \A m \in DOMAIN held : m # n => after[m] = held[m]
      /\ after = [m \in DOMAIN after |-> after[m]]
  BY DEF L!With
<1>2. DOMAIN held \subseteq TextNames /\ \A m \in DOMAIN held : held[m] \in LegacyNode
  BY NodesAreFunctions
<1>3. \A m \in DOMAIN after : after[m] \in LegacyNode
  BY <1>1, <1>2
<1>4. after \in LegacyNodes
  <2> HIDE DEF after
  <2> QED
    BY <1>1, <1>2, <1>3, NodesAreFunctions
<1> QED
  BY <1>1, <1>4

LEMMA WithoutNodes ==
    ASSUME NEW held \in LegacyNodes, NEW names
    PROVE  /\ L!Without(held, names) \in LegacyNodes
           /\ DOMAIN L!Without(held, names) = DOMAIN held \ names
           /\ \A m \in DOMAIN held \ names : L!Without(held, names)[m] = held[m]
<1> DEFINE after == L!Without(held, names)
<1>1. /\ DOMAIN after = DOMAIN held \ names
      /\ \A m \in DOMAIN held \ names : after[m] = held[m]
      /\ after = [m \in DOMAIN after |-> after[m]]
  BY DEF L!Without
<1>2. DOMAIN held \subseteq TextNames /\ \A m \in DOMAIN held : held[m] \in LegacyNode
  BY NodesAreFunctions
<1>3. after \in LegacyNodes
  <2> HIDE DEF after
  <2> QED
    BY <1>1, <1>2, NodesAreFunctions
<1> QED
  BY <1>1, <1>3

LEMMA NodeWritten ==
    ASSUME NEW map \in [Tree -> LegacyNodes], NEW g \in Tree, NEW n \in TextNames,
           NEW node \in LegacyNode, NEW after,
           after = [map EXCEPT ![g] = L!With(@, n, node)]
    PROVE  /\ after \in [Tree -> LegacyNodes]
           /\ DOMAIN after[g] = DOMAIN map[g] \union {n} /\ after[g][n] = node
           /\ \A m \in DOMAIN map[g] : m # n => after[g][m] = map[g][m]
           /\ \A f \in Tree \ {g} : after[f] = map[f]
<1>1. PICK held \in LegacyNodes : held = map[g]
  OBVIOUS
<1>2. after[g] = L!With(held, n, node)
  BY <1>1
<1>3. L!With(held, n, node) \in LegacyNodes
  BY WithNode
<1>4. after \in [Tree -> LegacyNodes] /\ \A f \in Tree \ {g} : after[f] = map[f]
  BY <1>1, <1>3
<1>5. /\ DOMAIN L!With(held, n, node) = DOMAIN held \union {n}
      /\ L!With(held, n, node)[n] = node
      /\ \A m \in DOMAIN held : m # n => L!With(held, n, node)[m] = held[m]
  BY WithNode
<1> QED
  BY <1>1, <1>2, <1>4, <1>5

LEMMA NodesRemoved ==
    ASSUME NEW map \in [Tree -> LegacyNodes], NEW g \in Tree, NEW names
    PROVE  LET after == [map EXCEPT ![g] = L!Without(map[g], names)] IN
           /\ after \in [Tree -> LegacyNodes]
           /\ \A m : m \in DOMAIN after[g] <=> m \in DOMAIN map[g] /\ m \notin names
           /\ \A m : m \in DOMAIN map[g] /\ m \notin names => after[g][m] = map[g][m]
           /\ \A f \in Tree \ {g} : after[f] = map[f]
<1> DEFINE after == [map EXCEPT ![g] = L!Without(map[g], names)]
<1>1. PICK held \in LegacyNodes : held = map[g]
  OBVIOUS
<1>2. after[g] = L!Without(held, names)
  BY <1>1
<1>3. L!Without(held, names) \in LegacyNodes
  BY WithoutNodes
<1>4. after \in [Tree -> LegacyNodes] /\ \A f \in Tree \ {g} : after[f] = map[f]
  BY <1>1, <1>3
<1>5. /\ DOMAIN L!Without(held, names) = DOMAIN held \ names
      /\ \A m \in DOMAIN held \ names : L!Without(held, names)[m] = held[m]
  BY WithoutNodes
<1> HIDE DEF after
<1>6. /\ \A m : m \in DOMAIN after[g] <=> m \in DOMAIN map[g] /\ m \notin names
      /\ \A m : m \in DOMAIN map[g] /\ m \notin names => after[g][m] = map[g][m]
  BY <1>1, <1>2, <1>5
<1> QED
  BY <1>4, <1>6 DEF after

LEMMA NoNodes ==
    L!Nothing \in LegacyNodes /\ DOMAIN L!Nothing = {}
<1>1. L!Nothing = [n \in {} |-> None] /\ DOMAIN L!Nothing = {}
  BY DEF L!Nothing
<1> QED
  BY <1>1, NodesAreFunctions

(* What is asked of a content. *)
LEMMA NamesAreText ==
    ASSUME NEW v \in DOMAIN Texts
    PROVE  /\ NamesOf(v) = DOMAIN Texts[v] /\ NamesOf(v) \subseteq TextNames
           /\ \A n \in NamesOf(v) : Texts[v][n] \in TextCodes
<1>1. v # None
  BY TreeFacts
<1> QED
  BY <1>1 DEF NamesOf, TextNames, TextCodes

(* A file is untouched by a step. *)
SameFile(f) ==
    /\ legacyFiles'[f] = legacyFiles[f] /\ legacySymbols'[f] = legacySymbols[f]
    /\ vectors'[f] = vectors[f] /\ graph'[f] = graph[f]

LEMMA StillAgrees ==
    ASSUME NEW f, NEW v, SameFile(f), Agrees(f, v)
    PROVE  Agrees(f, v)'
BY DEF SameFile, Agrees, HasCodes

LEMMA InScan ==
    /\ L!Scanning <=> legacyRun.stage \in {"walk", "delete"} \union FileStages
    /\ L!Scanning' <=> legacyRun'.stage \in {"walk", "delete"} \union FileStages
BY DEF L!Scanning, FileStages

-----------------------------------------------------------------------------
(* The steps. *)

LEMMA LegacyBegins == L!Init => LegacyInv
<1> SUFFICES ASSUME L!Init PROVE LegacyInv
  OBVIOUS
<1>1. /\ legacyRun.stage = "idle" /\ legacyCompleted = 0
      /\ \A f \in Tree : /\ legacyFiles[f] = None /\ legacySymbols[f] = L!Nothing
                         /\ vectors[f] = L!Nothing
  BY DEF L!Init, L!Idle
<1>2. LegacyTyped
  <2>1. legacySymbols \in [Tree -> LegacyNodes] /\ vectors \in [Tree -> LegacyNodes]
    BY NoNodes DEF L!Init
  <2> QED
    BY <2>1, TreeFacts DEF L!Init, L!Idle, LegacyTyped, LegacyStages
<1>3. ~L!Scanning
  BY <1>1 DEF L!Scanning
<1>4. ASSUME NEW f \in Tree PROVE FileIsKnown(f)
  BY <1>1, <1>3, NoNodes DEF FileIsKnown, Agrees, HasCodes, NamesOf, LegacyBase
<1> QED
  BY <1>1, <1>2, <1>3, <1>4 DEF LegacyInv, ScanShape, HereShape, DescribedIsThere, FileStages

LEMMA PushKeeps == LegacyInv /\ L!Push => LegacyInv'
<1> SUFFICES ASSUME LegacyInv, L!Push PROVE LegacyInv'
  OBVIOUS
<1>1. /\ UNCHANGED <<legacyFiles, legacySymbols, vectors, graph, legacyCompleted,
                     legacyRun, legacyDoubt>>
      /\ legacyHead' \in DOMAIN Branch
  BY TreeFacts DEF LegacyInv, LegacyTyped, L!Push, L!stores
<1>2. LegacyTyped'
  BY <1>1 DEF LegacyInv, LegacyTyped
<1>3. ASSUME NEW f \in Tree \ legacyDoubt PROVE FileIsKnown(f)'
  BY <1>1 DEF LegacyInv, FileIsKnown, Agrees, HasCodes, LegacyBase, LegacyTarget, Partial, L!Scanning
<1> QED
  BY <1>1, <1>2, <1>3 DEF LegacyInv, ScanShape, HereShape, DescribedIsThere, L!Scanning, LegacyTarget

LEMMA StartKeeps == LegacyInv /\ L!Start => LegacyInv'
<1> SUFFICES ASSUME LegacyInv, L!Start PROVE LegacyInv'
  OBVIOUS
<1>1. PICK full \in BOOLEAN :
        /\ full \/ legacyCompleted # 0
        /\ legacyRun' = [L!Idle EXCEPT
             !.stage = "walk", !.sha = legacyHead,
             !.todo = IF full THEN L!Tracked(legacyHead)
                      ELSE L!Changed(legacyCompleted, legacyHead),
             !.gone = IF full THEN {} ELSE L!Deleted(legacyCompleted, legacyHead)]
  <2>1. PICK forced \in BOOLEAN :
          LET full == forced \/ legacyCompleted = 0 IN
          legacyRun' = [L!Idle EXCEPT
             !.stage = "walk", !.sha = legacyHead,
             !.todo = IF full THEN L!Tracked(legacyHead)
                      ELSE L!Changed(legacyCompleted, legacyHead),
             !.gone = IF full THEN {} ELSE L!Deleted(legacyCompleted, legacyHead)]
    BY DEF L!Start
  <2> QED
    BY <2>1
<1>2. /\ UNCHANGED <<legacyFiles, legacySymbols, vectors, graph, legacyCompleted,
                     legacyHead, legacyDoubt>>
      /\ ~L!Scanning /\ L!Scanning'
  BY <1>1 DEF L!Start, L!stores, L!Scanning, L!Idle
<1>3. /\ legacyRun'.stage = "walk" /\ legacyRun'.sha = legacyHead
      /\ legacyRun'.todo = IF full THEN L!Tracked(legacyHead)
                           ELSE L!Changed(legacyCompleted, legacyHead)
      /\ legacyRun'.gone = IF full THEN {} ELSE L!Deleted(legacyCompleted, legacyHead)
      /\ legacyRun'.here = None /\ legacyRun'.touched = {}
      /\ legacyRun'.rest = {} /\ legacyRun'.removed = {} /\ legacyRun'.symbol = None
  BY <1>1 DEF L!Idle
<1>4. /\ legacyHead \in DOMAIN Branch
      /\ legacyRun'.todo \subseteq Tree /\ legacyRun'.gone \subseteq Tree
      /\ \A f \in legacyRun'.todo : Branch[legacyHead][f] # None
      /\ \A f \in legacyRun'.gone : Branch[legacyHead][f] = None
  BY <1>3 DEF LegacyInv, LegacyTyped, L!Tracked, L!Changed, L!Deleted
<1>5. LegacyTyped'
  <2>1. legacyRun' \in [stage : LegacyStages, sha : {0} \union DOMAIN Branch,
                      todo : SUBSET Tree, gone : SUBSET Tree,
                      here : Tree \union {None}, rest : SUBSET TextNames,
                      removed : SUBSET TextNames, touched : SUBSET Tree,
                      symbol : TextNames \union {None} \union (Tree \X TextNames)]
    BY <1>1, <1>3, <1>4 DEF L!Idle, LegacyStages
  <2> QED
    BY <2>1, <1>2 DEF LegacyInv, LegacyTyped
<1>6. ASSUME NEW f \in Tree \ legacyDoubt PROVE FileIsKnown(f)'
  <2>1. Agrees(f, LegacyBase(f))' /\ LegacyBase(f)' = LegacyBase(f)
    BY <1>2, StillAgrees DEF LegacyInv, FileIsKnown, SameFile, LegacyBase, Agrees, HasCodes
  <2>2. f \in legacyRun'.todo \union legacyRun'.gone
          \/ Branch[legacyHead][f] \in {LegacyBase(f), None}
    BY <1>1, <1>3 DEF L!Tracked, L!Changed, L!Deleted, LegacyBase
  <2> QED
    BY <1>2, <1>3, <2>1, <2>2 DEF FileIsKnown, LegacyTarget
<1>7. ScanShape' /\ HereShape' /\ DescribedIsThere'
  BY <1>3, <1>4 DEF ScanShape, HereShape, DescribedIsThere, LegacyTarget, FileStages
<1> QED
  BY <1>2, <1>5, <1>6, <1>7 DEF LegacyInv

(* A step at the file at hand, which leaves the others and what is known   *)
(* of them.                                                                *)
LEMMA OthersStayKnown ==
    ASSUME LegacyInv, L!Scanning, L!Scanning', NEW f \in Tree,
           f \notin legacyDoubt, SameFile(f),
           f \in legacyRun.touched => f # legacyRun.here /\ f # legacyRun'.here,
           f \in legacyRun'.touched <=> f \in legacyRun.touched,
           f \in legacyRun.todo \union legacyRun.gone
             => f \in legacyRun'.todo \union legacyRun'.gone \/ LegacyTarget(f) = LegacyBase(f),
           legacyRun'.sha = legacyRun.sha, legacyCompleted' = legacyCompleted
    PROVE  FileIsKnown(f)'
<1>1. FileIsKnown(f)
  BY DEF LegacyInv
<1>2. LegacyBase(f)' = LegacyBase(f) /\ LegacyTarget(f)' = LegacyTarget(f)
  BY DEF LegacyBase, LegacyTarget
<1>3. CASE f \in legacyRun.touched
  <2>1. Agrees(f, LegacyTarget(f))
    BY <1>1, <1>3 DEF FileIsKnown
  <2>2. Agrees(f, LegacyTarget(f))'
    BY <2>1, <1>2, StillAgrees DEF Agrees, HasCodes, SameFile
  <2> QED
    BY <2>2, <1>3 DEF FileIsKnown
<1>4. CASE f \notin legacyRun.touched
  <2>1. /\ Agrees(f, LegacyBase(f))
        /\ \/ f \in legacyRun.todo \union legacyRun.gone
           \/ LegacyTarget(f) \in {LegacyBase(f), None}
    BY <1>1, <1>4 DEF FileIsKnown
  <2>2. Agrees(f, LegacyBase(f))'
    BY <2>1, <1>2 DEF Agrees, HasCodes, SameFile
  <2>3. \/ f \in legacyRun'.todo \union legacyRun'.gone
        \/ LegacyTarget(f)' \in {LegacyBase(f)', None}
    BY <2>1, <1>2
  <2> QED
    BY <2>2, <2>3, <1>4 DEF FileIsKnown
<1> QED
  BY <1>3, <1>4

LEMMA SkipFileKeeps ==
    ASSUME LegacyInv, NEW g \in Tree, L!SkipFile(g)
    PROVE  LegacyInv'
<1>1. /\ UNCHANGED <<legacyFiles, legacySymbols, vectors, graph, legacyCompleted,
                     legacyHead, legacyDoubt>>
      /\ legacyRun.stage = "walk" /\ g \in legacyRun.todo
      /\ legacyFiles[g] = LegacyTarget(g)
      /\ legacyRun' = [legacyRun EXCEPT !.todo = @ \ {g}]
  BY DEF L!SkipFile, L!stores, LegacyTarget
<1>2. /\ legacyRun' = [legacyRun EXCEPT !.todo = legacyRun'.todo]
      /\ legacyRun'.stage = "walk" /\ legacyRun'.sha = legacyRun.sha
      /\ legacyRun'.todo = legacyRun.todo \ {g} /\ legacyRun'.gone = legacyRun.gone
      /\ legacyRun'.touched = legacyRun.touched /\ legacyRun'.here = legacyRun.here
      /\ legacyRun.here = None /\ L!Scanning /\ L!Scanning'
  BY <1>1, InScan DEF LegacyInv, LegacyTyped, ScanShape
<1>3. LegacyTyped'
  BY <1>1, <1>2 DEF LegacyInv, LegacyTyped
<1>4. ASSUME NEW f \in Tree \ legacyDoubt PROVE FileIsKnown(f)'
  <2>1. f \in legacyRun.touched => f # None
    BY TreeFacts
  <2>2. f = g => LegacyTarget(f) = LegacyBase(f)
    <3>1. f = g => f \notin legacyRun.touched
      BY <1>1, <1>2 DEF LegacyInv, ScanShape
    <3>2. f = g => Agrees(f, LegacyBase(f))
      BY <3>1, <1>2 DEF LegacyInv, FileIsKnown
    <3> QED
      BY <3>2, <1>1 DEF Agrees
  <2> QED
    BY <1>1, <1>2, <2>1, <2>2, OthersStayKnown DEF SameFile
<1>5. ScanShape'
  BY <1>1, <1>2 DEF LegacyInv, ScanShape, LegacyTarget
<1>6. HereShape' /\ DescribedIsThere'
  BY <1>2 DEF HereShape, DescribedIsThere, FileStages
<1> QED
  BY <1>1, <1>3, <1>4, <1>5, <1>6 DEF LegacyInv

LEMMA StoreFileKeeps ==
    ASSUME LegacyInv, NEW g \in Tree, L!StoreFile(g)
    PROVE  LegacyInv'
<1> DEFINE v == LegacyTarget(g)
           rest == {n \in DOMAIN Texts[v] :
                     ~(n \in DOMAIN legacySymbols[g] /\ legacySymbols[g][n].code = Texts[v][n])}
<1>1. /\ UNCHANGED <<legacySymbols, vectors, graph, legacyCompleted,
                     legacyHead, legacyDoubt>>
      /\ legacyRun.stage = "walk" /\ g \in legacyRun.todo
      /\ legacyFiles' = [legacyFiles EXCEPT ![g] = v]
      /\ legacyRun' = [legacyRun EXCEPT !.here = g, !.todo = @ \ {g},
                         !.touched = @ \union {g}, !.rest = rest,
                         !.removed = DOMAIN legacySymbols[g] \ DOMAIN Texts[v],
                         !.stage = IF rest = {} THEN "prune" ELSE "store"]
  BY DEF L!StoreFile, LegacyTarget
<1>2. /\ legacyRun'.stage = IF rest = {} THEN "prune" ELSE "store"
      /\ legacyRun'.sha = legacyRun.sha /\ legacyRun'.rest = rest
      /\ legacyRun'.todo = legacyRun.todo \ {g} /\ legacyRun'.gone = legacyRun.gone
      /\ legacyRun'.touched = legacyRun.touched \union {g} /\ legacyRun'.here = g
      /\ legacyRun'.removed = DOMAIN legacySymbols[g] \ DOMAIN Texts[v]
      /\ legacyRun.here = None /\ L!Scanning /\ L!Scanning'
  BY <1>1, InScan DEF LegacyInv, LegacyTyped, ScanShape, FileStages
<1>3. /\ v \in DOMAIN Texts /\ v # None /\ NamesOf(v) = DOMAIN Texts[v]
      /\ NamesOf(v) \subseteq TextNames
      /\ legacyRun.sha \in DOMAIN Branch
      /\ g \notin legacyRun.touched /\ g \notin legacyRun.gone
  <2>1. v # None /\ legacyRun.sha \in DOMAIN Branch /\ g \notin legacyRun.touched
        /\ g \notin legacyRun.gone
    BY <1>1, <1>2 DEF LegacyInv, ScanShape
  <2>2. v \in DOMAIN Texts
    BY <2>1, TreeFacts DEF LegacyTarget
  <2> QED
    BY <2>1, <2>2, NamesAreText
<1>4. legacySymbols[g] \in LegacyNodes /\ DOMAIN legacySymbols[g] \subseteq TextNames
  <2>1. legacySymbols[g] \in LegacyNodes
    BY DEF LegacyInv, LegacyTyped
  <2> QED
    BY <2>1, NodesAreFunctions
<1>5. LegacyTyped'
  <2>1. rest \subseteq TextNames
        /\ DOMAIN legacySymbols[g] \ DOMAIN Texts[v] \subseteq TextNames
    BY <1>3, <1>4
  <2>2. legacyFiles' \in [Tree -> DOMAIN Texts \union {None}]
    BY <1>1, <1>3 DEF LegacyInv, LegacyTyped
  <2> HIDE DEF v, rest
  <2> QED
    BY <1>1, <1>3, <2>1, <2>2 DEF LegacyInv, LegacyTyped, LegacyStages, FileStages
<1>6. ASSUME NEW f \in Tree \ legacyDoubt PROVE FileIsKnown(f)'
  <2>1. CASE f # g
    <3>1. SameFile(f)
      BY <2>1, <1>1 DEF SameFile, LegacyInv, LegacyTyped
    <3>2. f # None
      BY TreeFacts
    <3> QED
      BY <1>1, <1>2, <2>1, <3>1, <3>2, OthersStayKnown
  <2>2. CASE f = g
    <3>1. Agrees(g, LegacyBase(g))
      BY <2>2, <1>2, <1>3 DEF LegacyInv, FileIsKnown
    <3>2. Partial(g)'
      <4>1. LegacyTarget(g)' = v /\ legacyFiles'[g] = v
        BY <1>1, <1>2 DEF LegacyTarget, LegacyInv, LegacyTyped
      <4>2. NamesOf(v) \ legacyRun'.rest
              = {n \in NamesOf(v) : n \in DOMAIN legacySymbols[g]
                                    /\ legacySymbols[g][n].code = Texts[v][n]}
        BY <1>2, <1>3
      <4>3. /\ DOMAIN legacySymbols[g] = NamesOf(LegacyBase(g))
            /\ DOMAIN vectors[g] = DOMAIN legacySymbols[g]
            /\ \A n \in DOMAIN legacySymbols[g] :
                 /\ legacySymbols[g][n].code = Texts[LegacyBase(g)][n]
                 /\ vectors[g][n].code = Texts[LegacyBase(g)][n]
                 /\ <<n, Texts[LegacyBase(g)][n]>> \in graph[g]
        BY <3>1 DEF Agrees, HasCodes
      <4>4. legacyRun'.stage \notin {"vector", "graph"}
        BY <1>2
      <4> HIDE DEF v, rest
      <4> QED
        BY <1>1, <1>2, <1>3, <4>1, <4>2, <4>3, <4>4 DEF Partial
    <3> QED
      BY <2>2, <3>2, <1>2 DEF FileIsKnown
  <2> QED
    BY <2>1, <2>2
<1>7. ScanShape'
  <2>1. legacyRun'.stage \in {"prune", "store"}
    BY <1>2
  <2> HIDE DEF v, rest
  <2> QED
    BY <2>1, <1>1, <1>2, <1>3 DEF LegacyInv, ScanShape, LegacyTarget
<1>8. HereShape' /\ DescribedIsThere'
  <2>1. LegacyTarget(g)' = v
    BY <1>2 DEF LegacyTarget
  <2>2. rest \subseteq NamesOf(v) /\ (legacyRun'.removed \intersect NamesOf(v)) = {}
    BY <1>2, <1>3
  <2> HIDE DEF v, rest
  <2> QED
    BY <1>2, <1>3, <2>1, <2>2 DEF HereShape, DescribedIsThere
<1> QED
  BY <1>1, <1>5, <1>6, <1>7, <1>8 DEF LegacyInv

(* The file at hand, and what is left to do with it. *)
LEMMA AtHand ==
    ASSUME LegacyInv, legacyRun.stage \in FileStages
    PROVE  LET v == LegacyTarget(legacyRun.here) IN
           /\ L!Scanning /\ legacyRun.here \in Tree /\ legacyRun.sha \in DOMAIN Branch
           /\ v \in DOMAIN Texts /\ v # None /\ NamesOf(v) = DOMAIN Texts[v]
           /\ NamesOf(v) \subseteq TextNames
           /\ \A n \in NamesOf(v) : /\ L!Code(n) = Texts[v][n]
                                    /\ Texts[v][n] \in TextCodes
                                    /\ L!Fresh(n) \in LegacyNode
                                    /\ L!Fresh(n).code = Texts[v][n]
           /\ legacyRun.here \in legacyRun.touched
           /\ legacyRun.here \notin legacyRun.todo \union legacyRun.gone
           /\ legacySymbols[legacyRun.here] \in LegacyNodes
           /\ vectors[legacyRun.here] \in LegacyNodes
           /\ legacyRun.rest \subseteq NamesOf(v)
           /\ legacyRun.removed \intersect NamesOf(v) = {}
<1> DEFINE v == LegacyTarget(legacyRun.here)
<1>1. L!Scanning /\ legacyRun.here \in legacyRun.touched /\ v # None
      /\ legacyRun.rest \subseteq NamesOf(v)
      /\ legacyRun.removed \intersect NamesOf(v) = {}
  BY InScan DEF LegacyInv, HereShape
<1>2. legacyRun.here \in Tree
  BY <1>1 DEF LegacyInv, LegacyTyped
<1>3. legacyRun.sha \in DOMAIN Branch
      /\ legacyRun.here \notin legacyRun.todo \union legacyRun.gone
  BY <1>1 DEF LegacyInv, ScanShape, FileStages
<1>4. v \in DOMAIN Texts
  BY <1>1, <1>2, <1>3, TreeFacts DEF LegacyTarget
<1>5. /\ NamesOf(v) = DOMAIN Texts[v] /\ NamesOf(v) \subseteq TextNames
      /\ \A n \in NamesOf(v) : Texts[v][n] \in TextCodes
  BY <1>4, NamesAreText
<1>6. \A n \in NamesOf(v) : /\ L!Code(n) = Texts[v][n]
                            /\ L!Fresh(n) = [code |-> Texts[v][n], source |-> "ast"]
  BY DEF L!Code, L!Fresh, LegacyTarget
<1>7. \A n \in NamesOf(v) : /\ L!Code(n) = Texts[v][n]
                            /\ L!Fresh(n) \in LegacyNode
                            /\ L!Fresh(n).code = Texts[v][n]
  <2> HIDE DEF v
  <2> QED
    BY <1>5, <1>6 DEF LegacyNode
<1>8. legacySymbols[legacyRun.here] \in LegacyNodes /\ vectors[legacyRun.here] \in LegacyNodes
  BY <1>2 DEF LegacyInv, LegacyTyped
<1> QED
  BY <1>1, <1>2, <1>3, <1>4, <1>5, <1>7, <1>8

(* A step within the file at hand, or one that is through with it: what is *)
(* known of the others stays known.                                        *)
LEMMA WithinFile ==
    ASSUME LegacyInv, legacyRun.stage \in FileStages, NEW g, g = legacyRun.here,
           legacyRun'.stage \in FileStages \union {"walk"},
           legacyRun'.sha = legacyRun.sha, legacyRun'.todo = legacyRun.todo,
           legacyRun'.gone = legacyRun.gone, legacyRun'.touched = legacyRun.touched,
           legacyRun'.here = IF legacyRun'.stage = "walk" THEN None ELSE g,
           UNCHANGED <<legacyFiles, legacyCompleted, legacyHead>>,
           legacyDoubt \subseteq legacyDoubt',
           \A f \in Tree \ {g} : SameFile(f),
           g \notin legacyDoubt' => FileIsKnown(g)'
    PROVE  ScanShape' /\ DescribedIsThere' /\ \A f \in Tree \ legacyDoubt' : FileIsKnown(f)'
<1>1. L!Scanning /\ L!Scanning'
  BY InScan
<1>2. ScanShape'
  <2>1. legacyRun.stage # "delete"
    BY DEF FileStages
  <2> QED
    BY <1>1, <2>1 DEF LegacyInv, ScanShape, LegacyTarget, FileStages
<1>3. DescribedIsThere'
  BY DEF DescribedIsThere, FileStages
<1>4. ASSUME NEW f \in Tree \ legacyDoubt' PROVE FileIsKnown(f)'
  <2>1. CASE f = g
    BY <2>1
  <2>2. CASE f # g
    <3>1. f # None /\ f \notin legacyDoubt /\ SameFile(f)
      BY <2>2, TreeFacts
    <3>2. f # legacyRun'.here
      BY <3>1, <2>2
    <3> QED
      BY <1>1, <2>2, <3>1, <3>2, OthersStayKnown
  <2> QED
    BY <2>1, <2>2
<1> QED
  BY <1>2, <1>3, <1>4

LEMMA StoreSymbolKeeps ==
    ASSUME LegacyInv, NEW n \in legacyRun.rest, L!StoreSymbol(n)
    PROVE  LegacyInv'
<1> PICK g : g = legacyRun.here
  OBVIOUS
<1> DEFINE v == LegacyTarget(g)
<1>1. /\ UNCHANGED <<legacyFiles, vectors, graph, legacyCompleted,
                     legacyHead, legacyDoubt>>
      /\ legacyRun.stage = "store"
      /\ legacySymbols' = [legacySymbols EXCEPT ![g] = L!With(@, n, L!Fresh(n))]
      /\ legacyRun' = [legacyRun EXCEPT !.stage = "vector", !.symbol = n, !.rest = @ \ {n}]
  BY DEF L!StoreSymbol
<1>2. /\ legacyRun'.stage = "vector" /\ legacyRun'.symbol = n
      /\ legacyRun'.sha = legacyRun.sha /\ legacyRun'.rest = legacyRun.rest \ {n}
      /\ legacyRun'.todo = legacyRun.todo /\ legacyRun'.gone = legacyRun.gone
      /\ legacyRun'.touched = legacyRun.touched /\ legacyRun'.here = g
      /\ legacyRun'.removed = legacyRun.removed
  BY <1>1 DEF LegacyInv, LegacyTyped
<1>3. legacyRun.stage \in FileStages /\ legacyRun'.stage \in FileStages
      /\ legacyRun'.stage # "walk"
  BY <1>1, <1>2 DEF FileStages
<1>4. /\ L!Scanning /\ g \in Tree /\ NamesOf(v) \subseteq TextNames
      /\ n \in NamesOf(v) /\ n \in TextNames
      /\ L!Fresh(n) \in LegacyNode /\ L!Fresh(n).code = Texts[v][n]
      /\ legacySymbols[g] \in LegacyNodes /\ g \in legacyRun.touched
      /\ legacyRun.rest \subseteq NamesOf(v)
      /\ legacyRun.removed \intersect NamesOf(v) = {} /\ v # None
  BY <1>3, AtHand
<1>5. /\ legacySymbols'[g] \in LegacyNodes
      /\ DOMAIN legacySymbols'[g] = DOMAIN legacySymbols[g] \union {n}
      /\ legacySymbols'[g][n].code = Texts[v][n]
      /\ \A m \in DOMAIN legacySymbols[g] : m # n => legacySymbols'[g][m] = legacySymbols[g][m]
      /\ legacySymbols' \in [Tree -> LegacyNodes]
      /\ \A f \in Tree \ {g} : SameFile(f)
  <2>1. legacySymbols \in [Tree -> LegacyNodes]
    BY DEF LegacyInv, LegacyTyped
  <2>2. PICK node \in LegacyNode : node = L!Fresh(n)
    BY <1>4
  <2>3. legacySymbols' = [legacySymbols EXCEPT ![g] = L!With(@, n, node)]
    BY <1>1, <2>2
  <2>4. /\ legacySymbols' \in [Tree -> LegacyNodes]
        /\ DOMAIN legacySymbols'[g] = DOMAIN legacySymbols[g] \union {n}
        /\ legacySymbols'[g][n] = node
        /\ \A m \in DOMAIN legacySymbols[g] : m # n =>
              legacySymbols'[g][m] = legacySymbols[g][m]
        /\ \A f \in Tree \ {g} : legacySymbols'[f] = legacySymbols[f]
    BY <2>1, <2>3, <1>4, NodeWritten
  <2> HIDE DEF v
  <2> QED
    BY <2>2, <2>4, <1>1, <1>4 DEF SameFile
<1>6. LegacyTyped'
  <2> HIDE DEF v
  <2> QED
    BY <1>1, <1>4, <1>5 DEF LegacyInv, LegacyTyped, LegacyStages, FileStages
<1>7. HereShape'
  <2>1. LegacyTarget(g)' = v
    BY <1>2 DEF LegacyTarget
  <2>2. legacyRun'.stage # "prune" /\ legacyRun'.rest \subseteq NamesOf(v)
        /\ n \in NamesOf(v) \ legacyRun'.rest
    BY <1>2, <1>4
  <2> HIDE DEF v
  <2> QED
    BY <2>1, <2>2, <1>2, <1>4 DEF HereShape
<1>8. ASSUME g \notin legacyDoubt PROVE FileIsKnown(g)'
  <2>1. Partial(g)
    BY <1>8, <1>4 DEF LegacyInv, FileIsKnown
  <2>2. LegacyTarget(g)' = v
    BY <1>2 DEF LegacyTarget
  <2>3. Partial(g)'
    <3>1. /\ legacyFiles'[g] = v /\ legacyRun'.stage = "vector"
          /\ DOMAIN vectors'[g] \subseteq NamesOf(v) \union legacyRun'.removed
          /\ \A m \in NamesOf(v) \ legacyRun.rest :
               /\ m \in DOMAIN legacySymbols[g] /\ legacySymbols[g][m].code = Texts[v][m]
               /\ m \in DOMAIN vectors'[g] /\ vectors'[g][m].code = Texts[v][m]
               /\ <<m, Texts[v][m]>> \in graph'[g]
          /\ DOMAIN legacySymbols[g] \subseteq NamesOf(v) \union legacyRun'.removed
      BY <1>1, <1>2, <2>1 DEF Partial
    <3>2. /\ DOMAIN legacySymbols'[g] \subseteq NamesOf(v) \union legacyRun'.removed
          /\ NamesOf(v) \ legacyRun'.rest = (NamesOf(v) \ legacyRun.rest) \union {n}
      BY <3>1, <1>2, <1>4, <1>5
    <3>3. \A m \in NamesOf(v) \ legacyRun'.rest :
            m \in DOMAIN legacySymbols'[g] /\ legacySymbols'[g][m].code = Texts[v][m]
      BY <3>1, <3>2, <1>5
    <3> HIDE DEF v
    <3> QED
      BY <3>1, <3>2, <3>3, <2>2, <1>2 DEF Partial
  <2> QED
    BY <2>3, <1>2, <1>3, <1>4, InScan DEF FileIsKnown
<1> QED
  BY <1>1, <1>2, <1>3, <1>5, <1>6, <1>7, <1>8, WithinFile DEF LegacyInv

LEMMA AddVectorKeeps ==
    ASSUME LegacyInv, L!AddVector
    PROVE  LegacyInv'
<1> PICK g, n : g = legacyRun.here /\ n = legacyRun.symbol
  OBVIOUS
<1> DEFINE v == LegacyTarget(g)
<1>1. /\ UNCHANGED <<legacyFiles, legacySymbols, graph, legacyCompleted,
                     legacyHead, legacyDoubt>>
      /\ legacyRun.stage = "vector"
      /\ vectors' = [vectors EXCEPT ![g] = L!With(@, n, L!Fresh(n))]
      /\ legacyRun' = [legacyRun EXCEPT !.stage = "graph"]
  BY DEF L!AddVector
<1>2. /\ legacyRun'.stage = "graph" /\ legacyRun'.symbol = n
      /\ legacyRun'.sha = legacyRun.sha /\ legacyRun'.rest = legacyRun.rest
      /\ legacyRun'.todo = legacyRun.todo /\ legacyRun'.gone = legacyRun.gone
      /\ legacyRun'.touched = legacyRun.touched /\ legacyRun'.here = g
      /\ legacyRun'.removed = legacyRun.removed
  BY <1>1 DEF LegacyInv, LegacyTyped
<1>3. legacyRun.stage \in FileStages /\ legacyRun'.stage \in FileStages
      /\ legacyRun'.stage # "walk"
  BY <1>1, <1>2 DEF FileStages
<1>4. /\ L!Scanning /\ g \in Tree /\ NamesOf(v) \subseteq TextNames
      /\ n \in NamesOf(v) \ legacyRun.rest /\ n \in TextNames
      /\ L!Fresh(n) \in LegacyNode /\ L!Fresh(n).code = Texts[v][n]
      /\ g \in legacyRun.touched
      /\ legacyRun.rest \subseteq NamesOf(v)
      /\ legacyRun.removed \intersect NamesOf(v) = {} /\ v # None
  <2>1. n \in NamesOf(v) \ legacyRun.rest
    BY <1>1, <1>3 DEF LegacyInv, HereShape
  <2> HIDE DEF v
  <2> QED
    BY <1>3, <2>1, AtHand DEF v
<1>5. /\ vectors' \in [Tree -> LegacyNodes]
      /\ DOMAIN vectors'[g] = DOMAIN vectors[g] \union {n}
      /\ vectors'[g][n].code = Texts[v][n]
      /\ \A m \in DOMAIN vectors[g] : m # n => vectors'[g][m] = vectors[g][m]
      /\ \A f \in Tree \ {g} : SameFile(f)
  <2>1. vectors \in [Tree -> LegacyNodes]
    BY DEF LegacyInv, LegacyTyped
  <2>2. PICK node \in LegacyNode : node = L!Fresh(n)
    BY <1>4
  <2>3. vectors' = [vectors EXCEPT ![g] = L!With(@, n, node)]
    BY <1>1, <2>2
  <2>4. /\ vectors' \in [Tree -> LegacyNodes]
        /\ DOMAIN vectors'[g] = DOMAIN vectors[g] \union {n}
        /\ vectors'[g][n] = node
        /\ \A m \in DOMAIN vectors[g] : m # n => vectors'[g][m] = vectors[g][m]
        /\ \A f \in Tree \ {g} : vectors'[f] = vectors[f]
    BY <2>1, <2>3, <1>4, NodeWritten
  <2> HIDE DEF v
  <2> QED
    BY <2>2, <2>4, <1>1, <1>4 DEF SameFile
<1>6. LegacyTyped'
  <2> HIDE DEF v
  <2> QED
    BY <1>1, <1>4, <1>5 DEF LegacyInv, LegacyTyped, LegacyStages, FileStages
<1>7. HereShape'
  <2>1. LegacyTarget(g)' = v
    BY <1>2 DEF LegacyTarget
  <2> HIDE DEF v
  <2> QED
    BY <2>1, <1>2, <1>4 DEF HereShape
<1>8. ASSUME g \notin legacyDoubt PROVE FileIsKnown(g)'
  <2>1. Partial(g)
    BY <1>8, <1>4 DEF LegacyInv, FileIsKnown
  <2>2. LegacyTarget(g)' = v
    BY <1>2 DEF LegacyTarget
  <2>3. Partial(g)'
    <3>1. /\ legacyFiles'[g] = v
          /\ DOMAIN legacySymbols'[g] \subseteq NamesOf(v) \union legacyRun'.removed
          /\ DOMAIN vectors[g] \subseteq NamesOf(v) \union legacyRun'.removed
          /\ \A m \in NamesOf(v) \ legacyRun'.rest :
               /\ m \in DOMAIN legacySymbols'[g] /\ legacySymbols'[g][m].code = Texts[v][m]
               /\ m # n => /\ m \in DOMAIN vectors[g] /\ vectors[g][m].code = Texts[v][m]
                           /\ <<m, Texts[v][m]>> \in graph'[g]
      BY <1>1, <1>2, <2>1 DEF Partial
    <3>2. DOMAIN vectors'[g] \subseteq NamesOf(v) \union legacyRun'.removed
      BY <3>1, <1>4, <1>5
    <3>3. \A m \in NamesOf(v) \ legacyRun'.rest :
            m \in DOMAIN vectors'[g] /\ vectors'[g][m].code = Texts[v][m]
      BY <3>1, <1>5
    <3> HIDE DEF v
    <3> QED
      BY <3>1, <3>2, <3>3, <2>2, <1>2 DEF Partial
  <2> QED
    BY <2>3, <1>2, <1>3, <1>4, InScan DEF FileIsKnown
<1> QED
  BY <1>1, <1>2, <1>3, <1>5, <1>6, <1>7, <1>8, WithinFile DEF LegacyInv

LEMMA MergeNodeKeeps ==
    ASSUME LegacyInv, L!MergeNode
    PROVE  LegacyInv'
<1> PICK g, n : g = legacyRun.here /\ n = legacyRun.symbol
  OBVIOUS
<1> DEFINE v == LegacyTarget(g)
<1>1. /\ UNCHANGED <<legacyFiles, legacySymbols, vectors, legacyCompleted,
                     legacyHead, legacyDoubt>>
      /\ legacyRun.stage = "graph"
      /\ graph' = [graph EXCEPT ![g] = @ \union {<<n, L!Code(n)>>}]
      /\ legacyRun' = [legacyRun EXCEPT !.symbol = None,
                         !.stage = IF legacyRun.rest = {} THEN "prune" ELSE "store"]
  BY DEF L!MergeNode
<1>2. /\ legacyRun'.stage = (IF legacyRun.rest = {} THEN "prune" ELSE "store")
      /\ legacyRun'.sha = legacyRun.sha /\ legacyRun'.rest = legacyRun.rest
      /\ legacyRun'.todo = legacyRun.todo /\ legacyRun'.gone = legacyRun.gone
      /\ legacyRun'.touched = legacyRun.touched /\ legacyRun'.here = g
      /\ legacyRun'.removed = legacyRun.removed
  BY <1>1 DEF LegacyInv, LegacyTyped
<1>3. legacyRun.stage \in FileStages /\ legacyRun'.stage \in FileStages
      /\ legacyRun'.stage \notin {"walk", "vector", "graph"}
  BY <1>1, <1>2 DEF FileStages
<1>4. /\ L!Scanning /\ g \in Tree /\ NamesOf(v) \subseteq TextNames
      /\ n \in NamesOf(v) \ legacyRun.rest /\ n \in TextNames
      /\ L!Code(n) = Texts[v][n] /\ Texts[v][n] \in TextCodes
      /\ g \in legacyRun.touched
      /\ legacyRun.rest \subseteq NamesOf(v)
      /\ legacyRun.removed \intersect NamesOf(v) = {} /\ v # None
  <2>1. n \in NamesOf(v) \ legacyRun.rest
    BY <1>1, <1>3 DEF LegacyInv, HereShape
  <2> HIDE DEF v
  <2> QED
    BY <1>3, <2>1, AtHand DEF v
<1>5. /\ graph' \in [Tree -> SUBSET (TextNames \X TextCodes)]
      /\ graph'[g] = graph[g] \union {<<n, Texts[v][n]>>}
      /\ \A f \in Tree \ {g} : SameFile(f)
  <2> HIDE DEF v
  <2> QED
    BY <1>1, <1>4 DEF LegacyInv, LegacyTyped, SameFile
<1>6. LegacyTyped'
  <2> HIDE DEF v
  <2> QED
    BY <1>1, <1>4, <1>5 DEF LegacyInv, LegacyTyped, LegacyStages, FileStages
<1>7. HereShape'
  <2>1. LegacyTarget(g)' = v
    BY <1>2 DEF LegacyTarget
  <2> HIDE DEF v
  <2> QED
    BY <2>1, <1>2, <1>3, <1>4 DEF HereShape
<1>8. ASSUME g \notin legacyDoubt PROVE FileIsKnown(g)'
  <2>1. Partial(g)
    BY <1>8, <1>4 DEF LegacyInv, FileIsKnown
  <2>2. LegacyTarget(g)' = v
    BY <1>2 DEF LegacyTarget
  <2>3. Partial(g)'
    <3>1. /\ legacyFiles'[g] = v
          /\ DOMAIN legacySymbols'[g] \subseteq NamesOf(v) \union legacyRun'.removed
          /\ DOMAIN vectors'[g] \subseteq NamesOf(v) \union legacyRun'.removed
          /\ \A m \in NamesOf(v) \ legacyRun'.rest :
               /\ m \in DOMAIN legacySymbols'[g] /\ legacySymbols'[g][m].code = Texts[v][m]
               /\ m \in DOMAIN vectors'[g] /\ vectors'[g][m].code = Texts[v][m]
               /\ m # n => <<m, Texts[v][m]>> \in graph[g]
      BY <1>1, <1>2, <2>1 DEF Partial
    <3>2. \A m \in NamesOf(v) \ legacyRun'.rest : <<m, Texts[v][m]>> \in graph'[g]
      BY <3>1, <1>5
    <3> HIDE DEF v
    <3> QED
      BY <3>1, <3>2, <2>2, <1>2 DEF Partial
  <2> QED
    BY <2>3, <1>2, <1>3, <1>4, InScan DEF FileIsKnown
<1> QED
  BY <1>1, <1>2, <1>3, <1>5, <1>6, <1>7, <1>8, WithinFile DEF LegacyInv

LEMMA PruneSymbolsKeeps ==
    ASSUME LegacyInv, L!PruneSymbols
    PROVE  LegacyInv'
<1> PICK g, names : g = legacyRun.here /\ names = legacyRun.removed
  OBVIOUS
<1> DEFINE v == LegacyTarget(g)
<1>1. /\ UNCHANGED <<legacyFiles, graph, legacyCompleted, legacyHead>>
      /\ legacyRun.stage = "prune"
      /\ legacySymbols' = [legacySymbols EXCEPT ![g] = L!Without(@, names)]
      /\ \/ /\ vectors' = [vectors EXCEPT ![g] = L!Without(@, names)]
            /\ legacyDoubt' = legacyDoubt
         \/ legacyDoubt' = legacyDoubt \union {g} /\ vectors' = vectors
      /\ legacyRun' = [legacyRun EXCEPT !.stage = "walk", !.here = None, !.removed = {}]
  BY DEF L!PruneSymbols
<1>2. /\ legacyRun'.stage = "walk"
      /\ legacyRun'.sha = legacyRun.sha
      /\ legacyRun'.todo = legacyRun.todo /\ legacyRun'.gone = legacyRun.gone
      /\ legacyRun'.touched = legacyRun.touched /\ legacyRun'.here = None
      /\ legacyDoubt \subseteq legacyDoubt'
  BY <1>1 DEF LegacyInv, LegacyTyped
<1>3. legacyRun.stage \in FileStages /\ legacyRun'.stage \notin FileStages
  BY <1>1, <1>2 DEF FileStages
<1>4. /\ L!Scanning /\ g \in Tree /\ legacyRun.rest = {}
      /\ g \in legacyRun.touched /\ names \intersect NamesOf(v) = {} /\ v # None
      /\ g # None
  BY <1>1, <1>3, AtHand, TreeFacts DEF LegacyInv, HereShape
<1>5. /\ legacySymbols' \in [Tree -> LegacyNodes]
      /\ \A m : m \in DOMAIN legacySymbols'[g] <=>
                   m \in DOMAIN legacySymbols[g] /\ m \notin names
      /\ \A m : m \in DOMAIN legacySymbols[g] /\ m \notin names =>
                   legacySymbols'[g][m] = legacySymbols[g][m]
      /\ \A f \in Tree \ {g} : legacySymbols'[f] = legacySymbols[f]
  <2>1. /\ legacySymbols \in [Tree -> LegacyNodes] /\ g \in Tree
        /\ legacySymbols' = [legacySymbols EXCEPT ![g] = L!Without(legacySymbols[g], names)]
    BY <1>1, <1>4 DEF LegacyInv, LegacyTyped
  <2> QED
    BY ONLY <2>1, NodesRemoved
<1>6. /\ vectors' \in [Tree -> LegacyNodes]
      /\ \A f \in Tree \ {g} : vectors'[f] = vectors[f]
      /\ g \notin legacyDoubt' =>
           /\ \A m : m \in DOMAIN vectors'[g] <=> m \in DOMAIN vectors[g] /\ m \notin names
           /\ \A m : m \in DOMAIN vectors[g] /\ m \notin names =>
                        vectors'[g][m] = vectors[g][m]
  <2>1. CASE vectors' = [vectors EXCEPT ![g] = L!Without(@, names)]
    <3>1. /\ vectors \in [Tree -> LegacyNodes] /\ g \in Tree
          /\ vectors' = [vectors EXCEPT ![g] = L!Without(vectors[g], names)]
      BY <2>1, <1>4 DEF LegacyInv, LegacyTyped
    <3> QED
      BY ONLY <3>1, NodesRemoved
  <2>2. CASE legacyDoubt' = legacyDoubt \union {g} /\ vectors' = vectors
    BY <2>2 DEF LegacyInv, LegacyTyped
  <2> QED
    BY <2>1, <2>2, <1>1
<1>7. LegacyTyped'
  BY <1>1, <1>5, <1>6 DEF LegacyInv, LegacyTyped, LegacyStages, FileStages
<1>8. HereShape'
  BY <1>3 DEF HereShape
<1>9. ASSUME g \notin legacyDoubt' PROVE FileIsKnown(g)'
  <2>1. Partial(g)
    BY <1>9, <1>2, <1>4 DEF LegacyInv, FileIsKnown
  <2>2. LegacyTarget(g)' = v
    BY <1>2 DEF LegacyTarget
  <2>3. Agrees(g, v)'
    <3>1. /\ legacyFiles'[g] = v
          /\ DOMAIN legacySymbols[g] \subseteq NamesOf(v) \union names
          /\ DOMAIN vectors[g] \subseteq NamesOf(v) \union names
          /\ \A m \in NamesOf(v) :
               /\ m \in DOMAIN legacySymbols[g] /\ legacySymbols[g][m].code = Texts[v][m]
               /\ m \in DOMAIN vectors[g] /\ vectors[g][m].code = Texts[v][m]
               /\ <<m, Texts[v][m]>> \in graph'[g]
      BY <1>1, <1>4, <2>1 DEF Partial
    <3>2. DOMAIN legacySymbols'[g] = NamesOf(v) /\ DOMAIN vectors'[g] = NamesOf(v)
      BY <3>1, <1>4, <1>5, <1>6, <1>9
    <3>3. ASSUME NEW m \in NamesOf(v)
          PROVE  /\ legacySymbols'[g][m].code = Texts[v][m]
                 /\ vectors'[g][m].code = Texts[v][m]
      <4>1. m \notin names
        BY <1>4
      <4>2. legacySymbols'[g][m] = legacySymbols[g][m] /\ vectors'[g][m] = vectors[g][m]
        BY <4>1, <3>1, <1>5, <1>6, <1>9
      <4> QED
        BY <4>2, <3>1
    <3> QED
      BY <3>1, <3>2, <3>3, <2>2 DEF Agrees, HasCodes
  <2>4. Agrees(g, LegacyTarget(g))'
    BY <2>2, <2>3 DEF Agrees, HasCodes
  <2> QED
    BY <2>4, <1>2, <1>3, <1>4, InScan DEF FileIsKnown
<1>10. \A f \in Tree \ {g} : SameFile(f)
  BY <1>1, <1>5, <1>6 DEF SameFile
<1> QED
  BY <1>1, <1>2, <1>3, <1>7, <1>8, <1>9, <1>10, WithinFile DEF LegacyInv

LEMMA FileErrorsKeeps ==
    ASSUME LegacyInv, NEW g \in Tree, L!FileErrors(g)
    PROVE  LegacyInv'
<1>1. /\ UNCHANGED <<legacyFiles, legacySymbols, vectors, graph, legacyCompleted,
                     legacyHead>>
      /\ \/ legacyRun.stage = "walk" /\ g \in legacyRun.todo
         \/ legacyRun.stage \in FileStages /\ g = legacyRun.here
      /\ legacyDoubt' = legacyDoubt \union {g}
      /\ legacyRun' = [legacyRun EXCEPT !.stage = "walk", !.here = None, !.rest = {},
                         !.removed = {}, !.symbol = None, !.todo = @ \ {g}]
  BY DEF L!FileErrors, L!stores, FileStages
<1>2. /\ legacyRun'.stage = "walk" /\ legacyRun'.sha = legacyRun.sha
      /\ legacyRun'.todo = legacyRun.todo \ {g} /\ legacyRun'.gone = legacyRun.gone
      /\ legacyRun'.touched = legacyRun.touched /\ legacyRun'.here = None
      /\ L!Scanning /\ L!Scanning'
  BY <1>1, InScan DEF LegacyInv, LegacyTyped
<1>3. LegacyTyped'
  BY <1>1 DEF LegacyInv, LegacyTyped, LegacyStages
<1>4. ScanShape'
  <2>1. legacyRun.stage # "delete"
    BY <1>1 DEF FileStages
  <2> QED
    BY <1>2, <2>1 DEF LegacyInv, ScanShape, LegacyTarget
<1>5. HereShape' /\ DescribedIsThere'
  BY <1>2 DEF HereShape, DescribedIsThere, FileStages
<1>6. ASSUME NEW f \in Tree \ legacyDoubt' PROVE FileIsKnown(f)'
  <2>1. f # g /\ f # None /\ f \notin legacyDoubt /\ SameFile(f)
    BY <1>1, TreeFacts DEF SameFile
  <2>2. f # legacyRun.here
    <3>1. CASE legacyRun.stage = "walk"
      BY <3>1, <1>2, <2>1 DEF LegacyInv, ScanShape
    <3> QED
      BY <3>1, <1>1, <2>1
  <2> QED
    BY <1>1, <1>2, <2>1, <2>2, OthersStayKnown
<1> QED
  BY <1>3, <1>4, <1>5, <1>6 DEF LegacyInv

LEMMA DeleteFilesKeeps ==
    ASSUME LegacyInv, L!DeleteFiles
    PROVE  LegacyInv'
<1> DEFINE gone == legacyRun.gone
<1>1. PICK kept \in SUBSET gone :
        /\ UNCHANGED <<graph, legacyCompleted, legacyHead>>
        /\ legacyRun.stage = "walk" /\ legacyRun.todo = {}
        /\ legacyFiles' = [f \in Tree |-> IF f \in gone THEN None ELSE legacyFiles[f]]
        /\ legacySymbols' = [f \in Tree |-> IF f \in gone THEN L!Nothing ELSE legacySymbols[f]]
        /\ vectors' = [f \in Tree |-> IF f \in gone \ kept THEN L!Nothing ELSE vectors[f]]
        /\ legacyDoubt' = legacyDoubt \union kept
        /\ legacyRun' = [legacyRun EXCEPT !.stage = "delete", !.touched = @ \union gone]
  BY DEF L!DeleteFiles
<1>2. /\ legacyRun'.stage = "delete" /\ legacyRun'.sha = legacyRun.sha
      /\ legacyRun'.todo = {} /\ legacyRun'.gone = gone
      /\ legacyRun'.touched = legacyRun.touched \union gone
      /\ legacyRun'.here = legacyRun.here
      /\ L!Scanning /\ L!Scanning' /\ legacyRun.here = None
  BY <1>1, InScan DEF LegacyInv, LegacyTyped, ScanShape
<1>3. LegacyTyped'
  <2>1. legacySymbols' \in [Tree -> LegacyNodes] /\ vectors' \in [Tree -> LegacyNodes]
    BY <1>1, NoNodes DEF LegacyInv, LegacyTyped
  <2>2. legacyFiles' \in [Tree -> DOMAIN Texts \union {None}]
    BY <1>1 DEF LegacyInv, LegacyTyped
  <2> QED
    BY <1>1, <2>1, <2>2 DEF LegacyInv, LegacyTyped, LegacyStages
<1>4. ScanShape'
  BY <1>1, <1>2 DEF LegacyInv, ScanShape, LegacyTarget
<1>5. HereShape' /\ DescribedIsThere'
  BY <1>2 DEF HereShape, DescribedIsThere, FileStages
<1>6. ASSUME NEW f \in Tree \ legacyDoubt' PROVE FileIsKnown(f)'
  <2>1. f # None
    BY TreeFacts
  <2>2. CASE f \in gone
    <3>1. f \notin kept /\ LegacyTarget(f)' = None
      BY <1>1, <1>2, <2>2 DEF LegacyInv, ScanShape, LegacyTarget
    <3>2. /\ legacyFiles'[f] = None /\ DOMAIN legacySymbols'[f] = {}
          /\ DOMAIN vectors'[f] = {} /\ NamesOf(None) = {}
      BY <1>1, <2>2, <3>1, NoNodes DEF NamesOf
    <3>3. Agrees(f, LegacyTarget(f))'
      BY <3>1, <3>2 DEF Agrees, HasCodes, NamesOf
    <3> QED
      BY <1>2, <2>1, <2>2, <3>3 DEF FileIsKnown
  <2>3. CASE f \notin gone
    <3>1. SameFile(f) /\ f \notin legacyDoubt
      BY <1>1, <2>3 DEF SameFile
    <3> QED
      BY <1>1, <1>2, <2>1, <2>3, <3>1, OthersStayKnown
  <2> QED
    BY <2>2, <2>3
<1> QED
  BY <1>3, <1>4, <1>5, <1>6 DEF LegacyInv

LEMMA CompleteKeeps ==
    ASSUME LegacyInv, L!Complete
    PROVE  LegacyInv'
<1>1. /\ UNCHANGED <<legacyFiles, legacySymbols, vectors, graph, legacyHead>>
      /\ legacyRun.stage = "delete"
      /\ legacyCompleted' = legacyRun.sha
      /\ legacyDoubt' = legacyDoubt \union
           {f \in Tree \ L!Tracked(legacyRun.sha) : legacyFiles[f] # None}
      /\ legacyRun' = L!Idle
  BY DEF L!Complete, L!stores
<1>2. L!Scanning /\ legacyRun'.stage = "idle" /\ ~L!Scanning'
      /\ legacyRun.sha \in DOMAIN Branch /\ legacyRun.todo = {} /\ legacyRun.here = None
      /\ legacyRun.gone \subseteq legacyRun.touched
  BY <1>1, InScan DEF L!Idle, LegacyInv, ScanShape, FileStages
<1>3. LegacyTyped'
  BY <1>1, <1>2 DEF LegacyInv, LegacyTyped, L!Idle, LegacyStages
<1>4. ScanShape' /\ HereShape' /\ DescribedIsThere'
  BY <1>2 DEF ScanShape, HereShape, DescribedIsThere, FileStages
<1>5. ASSUME NEW f \in Tree \ legacyDoubt' PROVE FileIsKnown(f)'
  <2>1. LegacyBase(f)' = LegacyTarget(f) /\ SameFile(f)
    BY <1>1, <1>2, TreeFacts DEF LegacyBase, LegacyTarget, SameFile
  <2>2. Agrees(f, LegacyTarget(f))
    <3>1. FileIsKnown(f) /\ f # None
      BY <1>1, TreeFacts DEF LegacyInv
    <3>2. CASE f \in legacyRun.touched
      BY <1>2, <3>1, <3>2 DEF FileIsKnown
    <3>3. CASE f \notin legacyRun.touched
      <4>1. Agrees(f, LegacyBase(f)) /\ LegacyTarget(f) \in {LegacyBase(f), None}
        BY <1>2, <3>1, <3>3 DEF FileIsKnown
      <4>2. LegacyTarget(f) = None => legacyFiles[f] = None
        BY <1>1 DEF LegacyTarget, L!Tracked
      <4> QED
        BY <4>1, <4>2 DEF Agrees
    <3> QED
      BY <3>2, <3>3
  <2>3. Agrees(f, LegacyBase(f))'
    BY <2>1, <2>2 DEF SameFile, Agrees, HasCodes
  <2> QED
    BY <1>2, <2>3 DEF FileIsKnown
<1> QED
  BY <1>3, <1>4, <1>5 DEF LegacyInv

(* What does not scan and leaves codes and nodes alone. *)
LEMMA RestKeeps ==
    ASSUME LegacyInv, ~L!Scanning', LegacyTyped', DescribedIsThere',
           UNCHANGED <<legacyFiles, graph, legacyCompleted>>,
           legacyDoubt \subseteq legacyDoubt',
           L!Scanning => \A f \in legacyRun.touched : f \in legacyDoubt',
           \A f \in Tree \ legacyDoubt' : \A v :
              Agrees(f, v) => HasCodes(legacySymbols[f], v)' /\ HasCodes(vectors[f], v)'
    PROVE  LegacyInv'
<1>1. legacyRun'.stage \notin FileStages
  BY InScan
<1>2. ASSUME NEW f \in Tree \ legacyDoubt' PROVE FileIsKnown(f)'
  <2>1. Agrees(f, LegacyBase(f))
    BY DEF LegacyInv, FileIsKnown
  <2>2. LegacyBase(f)' = LegacyBase(f)
    BY DEF LegacyBase
  <2>3. PICK v : v = LegacyBase(f)
    OBVIOUS
  <2>4. Agrees(f, v)'
    BY <2>1, <2>3 DEF Agrees
  <2>5. Agrees(f, LegacyBase(f))'
    BY <2>2, <2>3, <2>4 DEF Agrees, HasCodes
  <2> QED
    BY <2>5 DEF FileIsKnown
<1> QED
  BY <1>1, <1>2 DEF LegacyInv, ScanShape, HereShape

LEMMA StopKeeps ==
    ASSUME LegacyInv, L!Stop
    PROVE  LegacyInv'
<1>1. /\ UNCHANGED <<legacyFiles, legacySymbols, vectors, graph, legacyHead, legacyCompleted>>
      /\ legacyDoubt' = IF L!Scanning THEN legacyDoubt \union legacyRun.touched
                                             \union legacyRun.gone
                                      ELSE legacyDoubt
      /\ legacyRun' = L!Idle
  BY DEF L!Stop, L!stores
<1>2. legacyRun'.stage = "idle" /\ ~L!Scanning' /\ DescribedIsThere'
  BY <1>1, InScan DEF L!Idle, DescribedIsThere, FileStages
<1>3. LegacyTyped'
  BY <1>1 DEF LegacyInv, LegacyTyped, L!Idle, LegacyStages
<1>4. \A f, v : Agrees(f, v) => HasCodes(legacySymbols[f], v)' /\ HasCodes(vectors[f], v)'
  BY <1>1 DEF Agrees, HasCodes
<1> QED
  BY <1>1, <1>2, <1>3, <1>4, RestKeeps

LEMMA TakeKeeps ==
    ASSUME LegacyInv, L!Take \/ L!AskFails
    PROVE  LegacyInv'
<1>1. /\ UNCHANGED <<legacyFiles, legacySymbols, vectors, graph, legacyHead, legacyCompleted,
                     legacyDoubt>>
      /\ legacyRun.stage \in {"idle", "next", "ask"}
      /\ \/ legacyRun' = L!Idle
         \/ \E s \in L!Pending : legacyRun' = [L!Idle EXCEPT !.stage = "ask", !.symbol = s]
         \/ legacyRun' = [legacyRun EXCEPT !.stage = "next", !.symbol = None]
  BY DEF L!Take, L!AskFails, L!stores
<1>2. \A s \in L!Pending : \E f \in Tree : \E n \in DOMAIN legacySymbols[f] : s = <<f, n>>
  BY DEF L!Pending
<1>3. \A f \in Tree : DOMAIN legacySymbols[f] \subseteq TextNames
  BY NodesAreFunctions DEF LegacyInv, LegacyTyped
<1>4. L!Pending \subseteq Tree \X TextNames
  BY <1>2, <1>3
<1>5. /\ legacyRun'.stage \in {"idle", "next", "ask"} /\ ~L!Scanning' /\ ~L!Scanning
      /\ legacyRun'.stage = "ask" => legacyRun'.symbol \in L!Pending
  <2>1. CASE legacyRun' = L!Idle
    BY <1>1, <2>1, InScan DEF L!Idle, FileStages
  <2>2. CASE \E s \in L!Pending : legacyRun' = [L!Idle EXCEPT !.stage = "ask", !.symbol = s]
    <3>1. PICK s \in L!Pending : legacyRun' = [L!Idle EXCEPT !.stage = "ask", !.symbol = s]
      BY <2>2
    <3>2. legacyRun'.stage = "ask" /\ legacyRun'.symbol = s
      BY <3>1 DEF L!Idle
    <3> QED
      BY <1>1, <3>2, InScan DEF FileStages
  <2>3. CASE legacyRun' = [legacyRun EXCEPT !.stage = "next", !.symbol = None]
    <3>1. legacyRun'.stage = "next"
      BY <2>3 DEF LegacyInv, LegacyTyped
    <3> QED
      BY <1>1, <3>1, InScan DEF FileStages
  <2> QED
    BY <1>1, <2>1, <2>2, <2>3
<1>6. LegacyTyped'
  <2>1. L!Idle \in [stage : LegacyStages, sha : {0} \union DOMAIN Branch,
                      todo : SUBSET Tree, gone : SUBSET Tree,
                      here : Tree \union {None}, rest : SUBSET TextNames,
                      removed : SUBSET TextNames, touched : SUBSET Tree,
                      symbol : TextNames \union {None} \union (Tree \X TextNames)]
    BY DEF L!Idle, LegacyStages
  <2> HIDE DEF L!Idle
  <2> QED
    BY <1>1, <1>4, <2>1 DEF LegacyInv, LegacyTyped, LegacyStages
<1>7. DescribedIsThere'
  BY <1>1, <1>2, <1>5 DEF DescribedIsThere
<1>8. \A f, v : Agrees(f, v) => HasCodes(legacySymbols[f], v)' /\ HasCodes(vectors[f], v)'
  BY <1>1 DEF Agrees, HasCodes
<1> QED
  BY <1>1, <1>5, <1>6, <1>7, <1>8, RestKeeps

(* The symbol that is being described. *)
LEMMA Described ==
    ASSUME LegacyInv, legacyRun.stage \in {"ask", "embed"}
    PROVE  \E g \in Tree : \E n \in DOMAIN legacySymbols[g] :
             /\ legacyRun.symbol = <<g, n>> /\ n \in TextNames
             /\ legacySymbols[g][n] \in LegacyNode /\ legacySymbols[g] \in LegacyNodes
<1>1. PICK g \in Tree : \E n \in DOMAIN legacySymbols[g] : legacyRun.symbol = <<g, n>>
  BY DEF LegacyInv, DescribedIsThere
<1>2. legacySymbols[g] \in LegacyNodes
  BY DEF LegacyInv, LegacyTyped
<1>3. /\ DOMAIN legacySymbols[g] \subseteq TextNames
      /\ \A n \in DOMAIN legacySymbols[g] : legacySymbols[g][n] \in LegacyNode
  BY <1>2, NodesAreFunctions
<1> QED
  BY <1>1, <1>2, <1>3

LEMMA DescribeDocumentKeeps ==
    ASSUME LegacyInv, L!DescribeDocument
    PROVE  LegacyInv'
<1>1. legacyRun.stage = "ask"
  BY DEF L!DescribeDocument
<1>2. PICK g \in Tree : \E n \in DOMAIN legacySymbols[g] :
             /\ legacyRun.symbol = <<g, n>> /\ n \in TextNames
             /\ legacySymbols[g][n] \in LegacyNode /\ legacySymbols[g] \in LegacyNodes
  BY <1>1, Described
<1>3. PICK n \in DOMAIN legacySymbols[g] :
             /\ legacyRun.symbol = <<g, n>> /\ n \in TextNames
             /\ legacySymbols[g][n] \in LegacyNode /\ legacySymbols[g] \in LegacyNodes
  BY <1>2
<1> DEFINE node == [legacySymbols[g][n] EXCEPT !.source = "llm"]
           held == [legacySymbols[g] EXCEPT ![n] = node]
<1>4. /\ UNCHANGED <<legacyFiles, vectors, graph, legacyHead, legacyCompleted, legacyDoubt>>
      /\ legacySymbols' = [legacySymbols EXCEPT ![g] = held]
      /\ legacyRun' = [legacyRun EXCEPT !.stage = "embed"]
  BY <1>3 DEF L!DescribeDocument
<1>5. node \in LegacyNode /\ node.code = legacySymbols[g][n].code
  BY <1>3 DEF LegacyNode
<1>6. /\ held \in LegacyNodes /\ DOMAIN held = DOMAIN legacySymbols[g]
      /\ \A m \in DOMAIN held : held[m].code = legacySymbols[g][m].code
  <2>1. /\ legacySymbols[g] = [m \in DOMAIN legacySymbols[g] |-> legacySymbols[g][m]]
        /\ DOMAIN legacySymbols[g] \subseteq TextNames
        /\ \A m \in DOMAIN legacySymbols[g] : legacySymbols[g][m] \in LegacyNode
    BY <1>3, NodesAreFunctions
  <2>2. /\ DOMAIN held = DOMAIN legacySymbols[g] /\ held[n] = node
        /\ \A m \in DOMAIN held : m # n => held[m] = legacySymbols[g][m]
        /\ held = [m \in DOMAIN held |-> held[m]]
    BY <1>3, <2>1
  <2> HIDE DEF held, node
  <2>3. held \in LegacyNodes
    BY <1>5, <2>1, <2>2, NodesAreFunctions
  <2> QED
    BY <1>5, <2>2, <2>3
<1>7. /\ legacySymbols' \in [Tree -> LegacyNodes]
      /\ \A f \in Tree : /\ DOMAIN legacySymbols'[f] = DOMAIN legacySymbols[f]
                         /\ \A m \in DOMAIN legacySymbols[f] :
                              legacySymbols'[f][m].code = legacySymbols[f][m].code
  <2> HIDE DEF held, node
  <2> QED
    BY <1>4, <1>6 DEF LegacyInv, LegacyTyped
<1>8. legacyRun'.stage = "embed" /\ legacyRun'.symbol = <<g, n>> /\ ~L!Scanning' /\ ~L!Scanning
  BY <1>1, <1>3, <1>4, InScan DEF LegacyInv, LegacyTyped, FileStages
<1>9. LegacyTyped'
  <2> HIDE DEF held, node
  <2> QED
    BY <1>4, <1>7 DEF LegacyInv, LegacyTyped, LegacyStages
<1>10. DescribedIsThere'
  BY <1>7, <1>8 DEF DescribedIsThere
<1>11. \A f \in Tree : \A v :
         Agrees(f, v) => HasCodes(legacySymbols[f], v)' /\ HasCodes(vectors[f], v)'
  BY <1>4, <1>7 DEF Agrees, HasCodes
<1> QED
  BY <1>4, <1>8, <1>9, <1>10, <1>11, RestKeeps

LEMMA DescribeVectorKeeps ==
    ASSUME LegacyInv, L!DescribeVector
    PROVE  LegacyInv'
<1>1. legacyRun.stage = "embed"
  BY DEF L!DescribeVector
<1>2. PICK g \in Tree : \E n \in DOMAIN legacySymbols[g] :
             /\ legacyRun.symbol = <<g, n>> /\ n \in TextNames
             /\ legacySymbols[g][n] \in LegacyNode /\ legacySymbols[g] \in LegacyNodes
  BY <1>1, Described
<1>3. PICK n \in DOMAIN legacySymbols[g] :
             /\ legacyRun.symbol = <<g, n>> /\ n \in TextNames
             /\ legacySymbols[g][n] \in LegacyNode /\ legacySymbols[g] \in LegacyNodes
  BY <1>2
<1>4. PICK node \in LegacyNode :
        /\ node.code = legacySymbols[g][n].code
        /\ node = [code |-> legacySymbols[g][n].code, source |-> "llm"]
  BY <1>3 DEF LegacyNode
<1>5. /\ UNCHANGED <<legacyFiles, legacySymbols, graph, legacyHead, legacyCompleted, legacyDoubt>>
      /\ vectors' \in {vectors, [vectors EXCEPT ![g] = L!With(@, n, node)]}
      /\ legacyRun' = [legacyRun EXCEPT !.stage = "next", !.symbol = None]
  BY <1>3, <1>4 DEF L!DescribeVector
<1>6. /\ vectors' \in [Tree -> LegacyNodes]
      /\ \A f \in Tree : f # g => vectors'[f] = vectors[f]
      /\ \/ vectors' = vectors
         \/ /\ DOMAIN vectors'[g] = DOMAIN vectors[g] \union {n} /\ vectors'[g][n] = node
            /\ \A m \in DOMAIN vectors[g] : m # n => vectors'[g][m] = vectors[g][m]
  <2>1. CASE vectors' = vectors
    BY <2>1 DEF LegacyInv, LegacyTyped
  <2>2. CASE vectors' = [vectors EXCEPT ![g] = L!With(@, n, node)]
    BY <2>2, <1>3, NodeWritten DEF LegacyInv, LegacyTyped
  <2> QED
    BY <2>1, <2>2, <1>5
<1>7. legacyRun'.stage = "next" /\ ~L!Scanning' /\ ~L!Scanning
  BY <1>1, <1>5, InScan DEF LegacyInv, LegacyTyped, FileStages
<1>8. LegacyTyped'
  BY <1>5, <1>6 DEF LegacyInv, LegacyTyped, LegacyStages
<1>9. DescribedIsThere'
  BY <1>7 DEF DescribedIsThere
<1>10. ASSUME NEW f \in Tree, NEW v, Agrees(f, v)
       PROVE  HasCodes(legacySymbols[f], v)' /\ HasCodes(vectors[f], v)'
  <2>1. HasCodes(legacySymbols[f], v)' /\ HasCodes(vectors[f], v) /\ HasCodes(legacySymbols[f], v)
    BY <1>5, <1>10 DEF Agrees, HasCodes
  <2>2. CASE f # g \/ vectors' = vectors
    BY <2>1, <2>2, <1>6 DEF HasCodes
  <2>3. CASE f = g /\ vectors' # vectors
    <3>1. n \in NamesOf(v) /\ node.code = Texts[v][n]
      BY <2>1, <2>3, <1>3, <1>4 DEF HasCodes
    <3>2. DOMAIN vectors'[g] = NamesOf(v)
      BY <2>1, <2>3, <3>1, <1>6 DEF HasCodes
    <3>3. \A m \in NamesOf(v) : vectors'[g][m].code = Texts[v][m]
      BY <2>1, <2>3, <3>1, <1>6 DEF HasCodes
    <3> QED
      BY <2>1, <2>3, <3>2, <3>3 DEF HasCodes
  <2> QED
    BY <2>2, <2>3
<1> QED
  BY <1>5, <1>7, <1>8, <1>9, <1>10, RestKeeps

LEMMA LegacyStep == LegacyInv /\ [L!Next]_(L!vars) => LegacyInv'
<1> SUFFICES ASSUME LegacyInv, [L!Next]_(L!vars) PROVE LegacyInv'
  OBVIOUS
<1>1. CASE UNCHANGED L!vars
  BY <1>1 DEF L!vars, LegacyInv, LegacyTyped, ScanShape, HereShape, DescribedIsThere,
     FileIsKnown, Agrees, HasCodes, Partial, LegacyBase, LegacyTarget, L!Scanning
<1>2. CASE L!Next
  BY <1>2, PushKeeps, StartKeeps, SkipFileKeeps, StoreFileKeeps, FileErrorsKeeps,
     StoreSymbolKeeps, AddVectorKeeps, MergeNodeKeeps, PruneSymbolsKeeps,
     DeleteFilesKeeps, CompleteKeeps, StopKeeps, TakeKeeps, DescribeDocumentKeeps,
     DescribeVectorKeeps DEF L!Next
<1> QED
  BY <1>1, <1>2

LEMMA StoresAreAgreed == LegacyInv => L!StoresAgree
<1> SUFFICES ASSUME LegacyInv, ~L!Scanning, legacyCompleted # 0,
                    NEW f \in Tree \ legacyDoubt
             PROVE  LET v == Branch[legacyCompleted][f]
                        codes == IF v = None THEN L!Nothing ELSE Texts[v]
                    IN /\ legacyFiles[f] = v
                       /\ L!Codes(legacySymbols[f]) = codes
                       /\ L!Codes(vectors[f]) = codes
                       /\ \A n \in DOMAIN codes : <<n, codes[n]>> \in graph[f]
  BY DEF L!StoresAgree
<1> DEFINE v == Branch[legacyCompleted][f]
           codes == IF v = None THEN L!Nothing ELSE Texts[v]
<1>1. Agrees(f, v) /\ v \in DOMAIN Texts \union {None}
  <2>1. legacyCompleted \in DOMAIN Branch /\ FileIsKnown(f)
    BY DEF LegacyInv, LegacyTyped
  <2> QED
    BY <2>1, TreeFacts DEF FileIsKnown, LegacyBase
<1>2. /\ DOMAIN codes = NamesOf(v) /\ \A n \in NamesOf(v) : codes[n] = Texts[v][n]
      /\ codes = [n \in DOMAIN codes |-> codes[n]]
  <2>1. CASE v = None
    BY <2>1, NoNodes DEF NamesOf, L!Nothing
  <2>2. CASE v # None
    BY <2>2, <1>1, TreeFacts DEF NamesOf
  <2> QED
    BY <2>1, <2>2
<1>3. ASSUME NEW held, HasCodes(held, v) PROVE L!Codes(held) = codes
  <2> HIDE DEF codes
  <2> QED
    BY <1>2, <1>3 DEF HasCodes, L!Codes
<1> HIDE DEF v, codes
<1> QED
  BY <1>1, <1>2, <1>3 DEF Agrees, v, codes

LEMMA LegacyKeepsItsSpec == AllSpec => L!Spec
<1>1. AllInit => L!Init
  BY DEF AllInit
<1>2. [AllNext]_allVars => [L!Next]_(L!vars)
  BY DEF AllNext, allVars, Searching, Indexing, LegacyIndexing, Graphing, Parsing,
         Chatting, Beginning, Cataloguing, legacyVars, L!vars, L!Next
<1> QED
  BY <1>1, <1>2, PTL DEF AllSpec, L!Spec

LEMMA FilesAreKnown == AllSpec => []LegacyInv
BY LegacyBegins, LegacyStep, LegacyKeepsItsSpec, PTL DEF L!Spec

(* Between scans, the documents and the vectors of every file are those of *)
(* the commit completed last and the graph has its symbols, but for the    *)
(* files an error, a scan that broke off or a full scan left in doubt.     *)
THEOREM StoresStayAgreed == AllSpec => []StoresAgree
<1>1. LegacyInv => StoresAgree
  BY StoresAreAgreed DEF StoresAgree
<1> QED
  BY <1>1, FilesAreKnown, PTL

-----------------------------------------------------------------------------
(* CodeIndex.  While a scan is under way, what is known of a file counts   *)
(* what waits in the buffers as stored.  A file that was walked to its end *)
(* is as the scan's commit has it, in doubt or not, for a completed scan   *)
(* takes it out of doubt; the file at hand is so for the symbols that are  *)
(* not left to do; a file that was abandoned is in doubt; one that is not  *)
(* touched is as the commit completed last has it.                         *)

IndexNode == [code : TextCodes, summary : TextCodes, source : {"ast", "llm"}]
IndexNodes == UNION {[N -> IndexNode] : N \in SUBSET TextNames}
IndexRow == [file : Tree, name : TextNames, code : TextCodes]
FileBuffers == UNION {[N -> DOMAIN Texts] : N \in SUBSET Tree}

IndexRunType ==
    [stage : {"idle", "begin", "walk", "delete", "link", "fetch", "enrich"},
     sha : {0} \union DOMAIN Branch, full : BOOLEAN,
     todo : SUBSET Tree, gone : SUBSET Tree, fileRows : FileBuffers,
     symbolRows : SUBSET IndexRow, here : Tree \union {None},
     text : DOMAIN Texts \union {None}, rest : SUBSET TextNames,
     removed : SUBSET TextNames, touched : SUBSET Tree, clean : SUBSET Tree,
     rows : SUBSET IndexRow]

IndexTyped ==
    /\ indexFiles \in [Tree -> DOMAIN Texts \union {None}]
    /\ indexSymbols \in [Tree -> IndexNodes]
    /\ indexHead \in DOMAIN Branch
    /\ clone \in {0} \union DOMAIN Branch
    /\ indexCompleted \in {0} \union DOMAIN Branch
    /\ indexRun \in [{"p1"} -> IndexRunType]

TheRun == indexRun["p1"]
ScanUnderWay == TheRun.stage \in {"begin", "walk", "delete", "link"}
IndexBase(f) == IF indexCompleted = 0 THEN None ELSE Branch[indexCompleted][f]
IndexTarget(f) == Branch[TheRun.sha][f]

(* The file is stored as v, or as the scan's commit has it: stored or in a *)
(* buffer.                                                                 *)
IndexAgrees(f, v) ==
    /\ indexFiles[f] = v /\ DOMAIN indexSymbols[f] = NamesOf(v)
    /\ \A n \in NamesOf(v) : indexSymbols[f][n].code = Texts[v][n]
HasFile(f) == f \in DOMAIN TheRun.fileRows \/ indexFiles[f] = IndexTarget(f)
HasSymbol(f, n) ==
    \/ \E row \in TheRun.symbolRows : row.file = f /\ row.name = n
    \/ n \in DOMAIN indexSymbols[f] /\ indexSymbols[f][n].code = Texts[IndexTarget(f)][n]

Walked(f) ==
    /\ HasFile(f) /\ DOMAIN indexSymbols[f] \subseteq NamesOf(IndexTarget(f))
    /\ \A n \in NamesOf(IndexTarget(f)) : HasSymbol(f, n)
HalfWalked(f) ==
    /\ HasFile(f)
    /\ DOMAIN indexSymbols[f] \subseteq NamesOf(IndexTarget(f)) \union TheRun.removed
    /\ \A n \in NamesOf(IndexTarget(f)) \ TheRun.rest : HasSymbol(f, n)
Awaits(f) ==
    \/ TheRun.stage = "begin"
    \/ f \in TheRun.todo \union TheRun.gone
    \/ IndexTarget(f) \in {IndexBase(f), None}

IndexKnows(f) ==
    IF ~ScanUnderWay THEN f \in indexDoubt \/ IndexAgrees(f, IndexBase(f))
    ELSE IF f \in TheRun.clean THEN Walked(f)
    ELSE IF f = TheRun.here THEN HalfWalked(f)
    ELSE IF f \in TheRun.touched THEN f \in indexDoubt
    ELSE f \in indexDoubt \/ (IndexAgrees(f, IndexBase(f)) /\ Awaits(f))

(* The buffers hold what the commit has of files that were touched. *)
BuffersAreRight ==
    /\ \A f \in DOMAIN TheRun.fileRows :
         f \in TheRun.touched /\ TheRun.fileRows[f] = IndexTarget(f)
    /\ \A row \in TheRun.symbolRows :
         /\ row.file \in TheRun.touched
         /\ row.name \in NamesOf(IndexTarget(row.file))
         /\ row.code = Texts[IndexTarget(row.file)][row.name]
    /\ TheRun.stage # "walk" => DOMAIN TheRun.fileRows = {} /\ TheRun.symbolRows = {}

IndexScanShape ==
    ScanUnderWay =>
    /\ TheRun.sha \in DOMAIN Branch /\ clone = TheRun.sha
    /\ TheRun.clean \subseteq TheRun.touched
    /\ TheRun.todo \intersect TheRun.touched = {}
    /\ \A f \in TheRun.todo : IndexTarget(f) # None
    /\ \A f \in TheRun.gone : IndexTarget(f) = None
    /\ TheRun.stage = "begin" => TheRun.touched = {} /\ TheRun.gone = {}
    /\ TheRun.stage # "walk" => TheRun.here = None /\ TheRun.todo = {}
    /\ IF TheRun.stage = "link" THEN TheRun.gone \subseteq TheRun.touched
       ELSE TheRun.gone \intersect TheRun.touched = {}
    /\ BuffersAreRight

IndexHereShape ==
    (ScanUnderWay /\ TheRun.here # None) =>
    LET names == NamesOf(TheRun.text) IN
    /\ TheRun.here \in TheRun.touched \ TheRun.clean
    /\ TheRun.text = IndexTarget(TheRun.here) /\ TheRun.text # None
    /\ TheRun.rest \subseteq names /\ TheRun.removed \intersect names = {}

(* What is described is the code that is there. *)
RowsAreCurrent ==
    TheRun.stage = "enrich" => \A row \in TheRun.rows :
        row.name \in DOMAIN indexSymbols[row.file] =>
            indexSymbols[row.file][row.name].code = row.code

IndexInv ==
    /\ IndexTyped /\ IndexScanShape /\ IndexHereShape /\ RowsAreCurrent
    /\ I!SummariesAreOfTheirCode
    /\ \A f \in Tree : IndexKnows(f)

LEMMA IndexNodesAreFunctions ==
    ASSUME NEW held
    PROVE  held \in IndexNodes <=>
             /\ held = [n \in DOMAIN held |-> held[n]]
             /\ DOMAIN held \subseteq TextNames
             /\ \A n \in DOMAIN held : held[n] \in IndexNode
<1>1. ASSUME held \in IndexNodes
      PROVE  /\ held = [n \in DOMAIN held |-> held[n]]
             /\ DOMAIN held \subseteq TextNames
             /\ \A n \in DOMAIN held : held[n] \in IndexNode
  <2>1. PICK N \in SUBSET TextNames : held \in [N -> IndexNode]
    BY <1>1 DEF IndexNodes
  <2> QED
    BY <2>1
<1>2. ASSUME held = [n \in DOMAIN held |-> held[n]],
             DOMAIN held \subseteq TextNames,
             \A n \in DOMAIN held : held[n] \in IndexNode
      PROVE  held \in IndexNodes
  <2>1. held \in [DOMAIN held -> IndexNode]
    BY <1>2
  <2> QED
    BY <2>1, <1>2 DEF IndexNodes
<1> QED
  BY <1>1, <1>2

(* The buffers of files. *)
LEMMA BuffersAreFunctions ==
    ASSUME NEW buffer
    PROVE  buffer \in FileBuffers <=>
             /\ buffer = [f \in DOMAIN buffer |-> buffer[f]]
             /\ DOMAIN buffer \subseteq Tree
             /\ \A f \in DOMAIN buffer : buffer[f] \in DOMAIN Texts
<1>1. ASSUME buffer \in FileBuffers
      PROVE  /\ buffer = [f \in DOMAIN buffer |-> buffer[f]]
             /\ DOMAIN buffer \subseteq Tree
             /\ \A f \in DOMAIN buffer : buffer[f] \in DOMAIN Texts
  <2>1. PICK N \in SUBSET Tree : buffer \in [N -> DOMAIN Texts]
    BY <1>1 DEF FileBuffers
  <2> QED
    BY <2>1
<1>2. ASSUME buffer = [f \in DOMAIN buffer |-> buffer[f]],
             DOMAIN buffer \subseteq Tree,
             \A f \in DOMAIN buffer : buffer[f] \in DOMAIN Texts
      PROVE  buffer \in FileBuffers
  <2>1. buffer \in [DOMAIN buffer -> DOMAIN Texts]
    BY <1>2
  <2> QED
    BY <2>1, <1>2 DEF FileBuffers
<1> QED
  BY <1>1, <1>2

LEMMA EmptyBuffers ==
    /\ I!Idle.fileRows \in FileBuffers /\ DOMAIN I!Idle.fileRows = {}
    /\ I!Idle \in IndexRunType /\ I!Idle.symbolRows = {}
<1>1. /\ I!Idle.fileRows = [f \in {} |-> None] /\ DOMAIN I!Idle.fileRows = {}
      /\ I!Idle.symbolRows = {}
  BY DEF I!Idle
<1>2. I!Idle.fileRows \in FileBuffers
  BY <1>1, BuffersAreFunctions
<1> QED
  BY <1>1, <1>2 DEF I!Idle, IndexRunType

LEMMA OneRun ==
    ASSUME IndexTyped, NEW new \in IndexRunType,
           indexRun' = [indexRun EXCEPT !["p1"] = new]
    PROVE  TheRun' = new /\ indexRun' \in [{"p1"} -> IndexRunType]
BY DEF IndexTyped, TheRun

LEMMA IndexStages ==
    /\ ScanUnderWay <=> I!Scanning("p1")
    /\ ScanUnderWay <=> TheRun.stage \in {"begin", "walk", "delete", "link"}
    /\ ScanUnderWay' <=> TheRun'.stage \in {"begin", "walk", "delete", "link"}
BY DEF ScanUnderWay, I!Scanning, TheRun

-----------------------------------------------------------------------------
(* What the buffers bring to the store. *)

LEMMA FilesFlushed ==
    ASSUME IndexTyped, NEW buffer \in FileBuffers,
           \A f \in DOMAIN buffer : buffer[f] = IndexTarget(f),
           indexFiles' = I!FilesWith(buffer)
    PROVE  /\ indexFiles' \in [Tree -> DOMAIN Texts \union {None}]
           /\ \A f \in Tree : IF f \in DOMAIN buffer
                              THEN indexFiles'[f] = IndexTarget(f)
                              ELSE indexFiles'[f] = indexFiles[f]
<1>1. \A f \in DOMAIN buffer : buffer[f] \in DOMAIN Texts
  BY BuffersAreFunctions
<1> QED
  BY <1>1 DEF I!FilesWith, IndexTyped

Named(those, f, n) == \E row \in those : row.file = f /\ row.name = n

RowSets == SUBSET IndexRow
CodesAre(those, f, codes) == \A row \in those : row.file = f => row.code = codes[row.name]

LEMMA Upserting ==
    ASSUME NEW held \in IndexNodes, NEW those \in RowSets, NEW f, NEW codes,
           CodesAre(those, f, codes)
    PROVE  LET after == I!Upserted(held, those, f) IN
           /\ after \in IndexNodes
           /\ \A n : n \in DOMAIN after <=> n \in DOMAIN held \/ Named(those, f, n)
           /\ \A n : Named(those, f, n) =>
                       after[n].code = codes[n] /\ after[n].summary = codes[n]
           /\ \A n \in DOMAIN held : ~Named(those, f, n) => after[n] = held[n]
<1> DEFINE mine == {r \in those : r.file = f}
           named == {r.name : r \in mine}
           CodeOf(n) == (CHOOSE r \in mine : r.name = n).code
           after == [n \in DOMAIN held \union named |->
                       IF n \in named
                       THEN [code |-> CodeOf(n), summary |-> CodeOf(n), source |-> "ast"]
                       ELSE held[n]]
<1>1. \A n : n \in named <=> Named(those, f, n)
  BY DEF Named
<1>2. ASSUME NEW n, n \in named
      PROVE  CodeOf(n) = codes[n] /\ CodeOf(n) \in TextCodes /\ n \in TextNames
  <2>1. \E r \in mine : r.name = n
    BY <1>2
  <2>2. PICK r \in mine : r.name = n /\ CodeOf(n) = r.code
    BY <2>1
  <2> QED
    BY <2>2 DEF IndexRow, RowSets, CodesAre
<1>3. /\ held = [n \in DOMAIN held |-> held[n]] /\ DOMAIN held \subseteq TextNames
      /\ \A n \in DOMAIN held : held[n] \in IndexNode
  BY IndexNodesAreFunctions
<1>4. /\ after = [n \in DOMAIN after |-> after[n]]
      /\ DOMAIN after = DOMAIN held \union named
  OBVIOUS
<1>5. ASSUME NEW n, n \in named
      PROVE  /\ after[n] = [code |-> CodeOf(n), summary |-> CodeOf(n), source |-> "ast"]
             /\ after[n] \in IndexNode
             /\ after[n].code = codes[n] /\ after[n].summary = codes[n]
  <2> HIDE DEF CodeOf, named
  <2>1. after[n] = [code |-> CodeOf(n), summary |-> CodeOf(n), source |-> "ast"]
    BY <1>5
  <2> HIDE DEF after
  <2> QED
    BY <1>2, <1>5, <2>1 DEF IndexNode
<1>6. \A n \in DOMAIN held : n \notin named => after[n] = held[n]
  <2> HIDE DEF named
  <2> QED
    OBVIOUS
<1>7. after \in IndexNodes
  <2> HIDE DEF after, named
  <2>1. DOMAIN after \subseteq TextNames /\ \A n \in DOMAIN after : after[n] \in IndexNode
    BY <1>2, <1>3, <1>4, <1>5, <1>6
  <2> QED
    BY <1>4, <2>1, IndexNodesAreFunctions
<1>8. I!Upserted(held, those, f) = after
  BY DEF I!Upserted
<1> HIDE DEF after, named, CodeOf
<1> QED
  BY <1>1, <1>4, <1>5, <1>6, <1>7, <1>8

LEMMA SymbolsFlushed ==
    ASSUME IndexTyped, NEW those \in SUBSET IndexRow,
           \A row \in those : /\ row.name \in NamesOf(IndexTarget(row.file))
                              /\ row.code = Texts[IndexTarget(row.file)][row.name],
           indexSymbols' = I!SymbolsWith(those)
    PROVE  /\ indexSymbols' \in [Tree -> IndexNodes]
           /\ I!SummariesAreOfTheirCode => I!SummariesAreOfTheirCode'
           /\ \A f \in Tree :
                /\ DOMAIN indexSymbols'[f] \subseteq
                     DOMAIN indexSymbols[f] \union NamesOf(IndexTarget(f))
                /\ (\A row \in those : row.file # f) =>
                      indexSymbols'[f] = indexSymbols[f]
                /\ \A n : Named(those, f, n) \/
                          (/\ n \in DOMAIN indexSymbols[f]
                           /\ indexSymbols[f][n].code = Texts[IndexTarget(f)][n]) =>
                      /\ n \in DOMAIN indexSymbols'[f]
                      /\ indexSymbols'[f][n].code = Texts[IndexTarget(f)][n]
<1>1. ASSUME NEW f \in Tree
      PROVE  /\ indexSymbols'[f] \in IndexNodes
             /\ \A n : n \in DOMAIN indexSymbols'[f] <=>
                         n \in DOMAIN indexSymbols[f] \/ Named(those, f, n)
             /\ \A n : Named(those, f, n) =>
                  /\ indexSymbols'[f][n].code = Texts[IndexTarget(f)][n]
                  /\ indexSymbols'[f][n].summary = Texts[IndexTarget(f)][n]
             /\ \A n \in DOMAIN indexSymbols[f] :
                  ~Named(those, f, n) => indexSymbols'[f][n] = indexSymbols[f][n]
  <2>1. PICK held \in IndexNodes : held = indexSymbols[f]
    BY DEF IndexTyped
  <2>2. PICK codes : codes = Texts[IndexTarget(f)]
    OBVIOUS
  <2>3. CodesAre(those, f, codes) /\ those \in RowSets
    BY <2>2 DEF CodesAre, RowSets
  <2>4. indexSymbols'[f] = I!Upserted(held, those, f)
    BY <2>1 DEF I!SymbolsWith
  <2>5. PICK after : after = I!Upserted(held, those, f)
    OBVIOUS
  <2>6. /\ after \in IndexNodes
        /\ \A n : n \in DOMAIN after <=> n \in DOMAIN held \/ Named(those, f, n)
        /\ \A n : Named(those, f, n) =>
                    after[n].code = codes[n] /\ after[n].summary = codes[n]
        /\ \A n \in DOMAIN held : ~Named(those, f, n) => after[n] = held[n]
    BY <2>3, <2>5, Upserting
  <2> QED
    BY <2>1, <2>2, <2>4, <2>5, <2>6
<1>2. indexSymbols' \in [Tree -> IndexNodes]
  <2>1. indexSymbols' = [f \in Tree |-> indexSymbols'[f]]
    BY DEF I!SymbolsWith
  <2> QED
    BY <1>1, <2>1
<1>3. ASSUME I!SummariesAreOfTheirCode PROVE I!SummariesAreOfTheirCode'
  BY <1>1, <1>3 DEF I!SummariesAreOfTheirCode
<1>4. ASSUME NEW f \in Tree
      PROVE  /\ DOMAIN indexSymbols'[f] \subseteq
                     DOMAIN indexSymbols[f] \union NamesOf(IndexTarget(f))
             /\ \A n : Named(those, f, n) \/
                          (/\ n \in DOMAIN indexSymbols[f]
                           /\ indexSymbols[f][n].code = Texts[IndexTarget(f)][n]) =>
                      /\ n \in DOMAIN indexSymbols'[f]
                      /\ indexSymbols'[f][n].code = Texts[IndexTarget(f)][n]
  <2>1. \A n : Named(those, f, n) => n \in NamesOf(IndexTarget(f))
    BY DEF Named
  <2> QED
    BY <1>1, <2>1
<1>5. ASSUME NEW f \in Tree, \A row \in those : row.file # f
      PROVE  indexSymbols'[f] = indexSymbols[f]
  <2>1. \A n : ~Named(those, f, n)
    BY <1>5 DEF Named
  <2>2. PICK held \in IndexNodes : held = indexSymbols[f]
    BY DEF IndexTyped
  <2>3. PICK after \in IndexNodes : after = indexSymbols'[f]
    BY <1>1
  <2>4. DOMAIN after = DOMAIN held /\ \A n \in DOMAIN held : after[n] = held[n]
    BY <1>1, <2>1, <2>2, <2>3
  <2>5. /\ held = [n \in DOMAIN held |-> held[n]]
        /\ after = [n \in DOMAIN after |-> after[n]]
    BY IndexNodesAreFunctions
  <2> QED
    BY <2>2, <2>3, <2>4, <2>5
<1> QED
  BY <1>2, <1>3, <1>4, <1>5

-----------------------------------------------------------------------------
(* What a step leaves of the files it is not about. *)

Carried(f) ==
    /\ HasFile(f) => HasFile(f)'
    /\ \A n \in NamesOf(IndexTarget(f)) : HasSymbol(f, n) => HasSymbol(f, n)'
    /\ DOMAIN indexSymbols'[f] \subseteq DOMAIN indexSymbols[f] \union NamesOf(IndexTarget(f))
    /\ f \notin TheRun.touched =>
         indexFiles'[f] = indexFiles[f] /\ indexSymbols'[f] = indexSymbols[f]

LEMMA OthersAreKnown ==
    ASSUME IndexInv, ScanUnderWay, ScanUnderWay', TheRun'.sha = TheRun.sha,
           indexCompleted' = indexCompleted, indexDoubt \subseteq indexDoubt',
           NEW f \in Tree, Carried(f), f # TheRun.here, f # TheRun'.here,
           f \in TheRun.clean <=> f \in TheRun'.clean,
           f \in TheRun.touched <=> f \in TheRun'.touched,
           TheRun.stage # "begin",
           f \in TheRun.todo \union TheRun.gone => f \in TheRun'.todo \union TheRun'.gone
    PROVE  IndexKnows(f)'
<1>1. IndexTarget(f)' = IndexTarget(f) /\ IndexBase(f)' = IndexBase(f)
  BY DEF IndexTarget, IndexBase
<1>2. PICK v : v = IndexTarget(f)
  OBVIOUS
<1>3. IndexKnows(f)
  BY DEF IndexInv
<1>4. CASE f \in TheRun.clean
  <2>1. Walked(f)
    BY <1>3, <1>4 DEF IndexKnows
  <2>2. /\ HasFile(f)' /\ DOMAIN indexSymbols'[f] \subseteq NamesOf(v)
        /\ \A n \in NamesOf(v) : HasSymbol(f, n)'
    BY <1>2, <2>1 DEF Walked, Carried
  <2> QED
    BY <1>1, <1>2, <1>4, <2>2 DEF IndexKnows, Walked, NamesOf
<1>5. CASE f \notin TheRun.clean /\ f \in TheRun.touched
  BY <1>3, <1>5 DEF IndexKnows
<1>6. CASE f \notin TheRun.clean /\ f \notin TheRun.touched
  <2>1. f \in indexDoubt \/ (IndexAgrees(f, IndexBase(f)) /\ Awaits(f))
    BY <1>3, <1>6 DEF IndexKnows
  <2>2. CASE f \in indexDoubt
    BY <1>6, <2>2 DEF IndexKnows
  <2>3. CASE IndexAgrees(f, IndexBase(f)) /\ Awaits(f)
    <3>1. IndexAgrees(f, IndexBase(f))'
      BY <1>1, <1>6, <2>3 DEF IndexAgrees, Carried, NamesOf
    <3>2. Awaits(f)'
      BY <1>1, <2>3 DEF Awaits
    <3> QED
      BY <1>6, <3>1, <3>2 DEF IndexKnows
  <2> QED
    BY <2>1, <2>2, <2>3
<1> QED
  BY <1>4, <1>5, <1>6

(* A step after which no scan is under way. *)
LEMMA RestIsKnown ==
    ASSUME IndexInv, ~ScanUnderWay', indexCompleted' = indexCompleted,
           indexDoubt \subseteq indexDoubt',
           ScanUnderWay => TheRun.touched \union TheRun.gone \subseteq indexDoubt',
           \A f \in Tree : (ScanUnderWay /\ f \in TheRun.touched) \/
             (/\ indexFiles'[f] = indexFiles[f]
              /\ DOMAIN indexSymbols'[f] = DOMAIN indexSymbols[f]
              /\ \A n \in DOMAIN indexSymbols[f] :
                   indexSymbols'[f][n].code = indexSymbols[f][n].code)
    PROVE  \A f \in Tree : IndexKnows(f)'
<1> SUFFICES ASSUME NEW f \in Tree PROVE IndexKnows(f)'
  OBVIOUS
<1>1. IndexBase(f)' = IndexBase(f) /\ IndexKnows(f) /\ f # None
  BY TreeFacts DEF IndexBase, IndexInv
<1>2. CASE f \in indexDoubt'
  BY <1>2 DEF IndexKnows
<1>3. CASE f \notin indexDoubt'
  <2>1. IndexAgrees(f, IndexBase(f))
    <3>1. CASE ScanUnderWay
      <4>1. f \notin TheRun.touched /\ f \notin TheRun.clean /\ f # TheRun.here
        BY <3>1, <1>1, <1>3 DEF IndexInv, IndexScanShape, IndexHereShape
      <4> QED
        BY <3>1, <4>1, <1>1, <1>3 DEF IndexKnows
    <3>2. CASE ~ScanUnderWay
      BY <3>2, <1>1, <1>3 DEF IndexKnows
    <3> QED
      BY <3>1, <3>2
  <2>2. ~(ScanUnderWay /\ f \in TheRun.touched)
    BY <1>3
  <2>3. PICK v : v = IndexBase(f)
    OBVIOUS
  <2>4. /\ indexFiles'[f] = v /\ DOMAIN indexSymbols'[f] = NamesOf(v)
        /\ \A n \in NamesOf(v) : indexSymbols'[f][n].code = Texts[v][n]
    BY <2>1, <2>2, <2>3 DEF IndexAgrees
  <2>5. IndexAgrees(f, IndexBase(f))'
    BY <1>1, <2>3, <2>4 DEF IndexAgrees, NamesOf
  <2> QED
    BY <2>5 DEF IndexKnows
<1> QED
  BY <1>2, <1>3

-----------------------------------------------------------------------------
(* The steps of CodeIndex. *)

LEMMA IndexBegins == I!Init => IndexInv
<1> SUFFICES ASSUME I!Init PROVE IndexInv
  OBVIOUS
<1>1. TheRun = I!Idle /\ TheRun.stage = "idle" /\ ~ScanUnderWay
  BY DEF I!Init, TheRun, I!Idle, ScanUnderWay
<1>2. [n \in {} |-> None] \in IndexNodes /\ DOMAIN [n \in {} |-> None] = {}
  BY IndexNodesAreFunctions
<1>3. \A f \in Tree : /\ indexFiles[f] = None /\ DOMAIN indexSymbols[f] = {}
                      /\ indexSymbols[f] \in IndexNodes
  BY <1>2 DEF I!Init
<1>4. IndexTyped
  <2>1. indexSymbols \in [Tree -> IndexNodes]
    BY <1>2 DEF I!Init
  <2>2. indexRun \in [{"p1"} -> IndexRunType]
    BY EmptyBuffers DEF I!Init
  <2> QED
    BY <2>1, <2>2, TreeFacts DEF I!Init, IndexTyped
<1>5. ASSUME NEW f \in Tree PROVE IndexKnows(f)
  <2>1. IndexBase(f) = None
    BY DEF I!Init, IndexBase
  <2> QED
    BY <1>1, <1>3, <2>1 DEF IndexKnows, IndexAgrees, NamesOf
<1>6. I!SummariesAreOfTheirCode
  BY <1>3 DEF I!SummariesAreOfTheirCode
<1> QED
  BY <1>1, <1>4, <1>5, <1>6
     DEF IndexInv, IndexScanShape, IndexHereShape, RowsAreCurrent

LEMMA IndexPushKeeps ==
    ASSUME IndexInv, I!Push
    PROVE  IndexInv'
<1>1. /\ UNCHANGED <<clone, indexFiles, indexSymbols, indexCompleted, indexRun, indexDoubt>>
      /\ indexHead' \in DOMAIN Branch
  BY TreeFacts DEF IndexInv, IndexTyped, I!Push
<1>2. IndexTyped' /\ TheRun' = TheRun
  BY <1>1 DEF IndexInv, IndexTyped, TheRun
<1>3. I!SummariesAreOfTheirCode'
  BY <1>1 DEF IndexInv, I!SummariesAreOfTheirCode
<1>4. ASSUME NEW f \in Tree PROVE IndexKnows(f)'
  BY <1>1, <1>2 DEF IndexInv, IndexKnows, IndexAgrees, IndexBase, IndexTarget, Walked,
     HalfWalked, Awaits, HasFile, HasSymbol, ScanUnderWay
<1> QED
  BY <1>1, <1>2, <1>3, <1>4 DEF IndexInv, IndexScanShape, IndexHereShape, RowsAreCurrent,
     BuffersAreRight, ScanUnderWay, IndexTarget

LEMMA TheRunIsTyped == IndexTyped => TheRun \in IndexRunType
BY DEF IndexTyped, TheRun

LEMMA PullKeeps ==
    ASSUME IndexInv, I!Pull("p1")
    PROVE  IndexInv'
<1>1. /\ UNCHANGED <<indexHead, indexFiles, indexSymbols, indexCompleted, indexDoubt>>
      /\ TheRun.stage = "idle"
      /\ \/ clone' = 0 /\ indexRun' = indexRun
         \/ /\ clone' = indexHead
            /\ \E full \in BOOLEAN :
                 indexRun' = [indexRun EXCEPT !["p1"] =
                   [I!Idle EXCEPT !.stage = "begin", !.sha = indexHead, !.full = full]]
  BY DEF I!Pull, TheRun
<1>2. ~ScanUnderWay /\ TheRun.stage # "enrich"
  BY <1>1 DEF ScanUnderWay
<1>3. I!SummariesAreOfTheirCode'
  BY <1>1 DEF IndexInv, I!SummariesAreOfTheirCode
<1>4. CASE clone' = 0 /\ indexRun' = indexRun
  <2>1. TheRun' = TheRun /\ ~ScanUnderWay' /\ TheRun'.stage # "enrich"
    BY <1>2, <1>4 DEF TheRun, ScanUnderWay
  <2>2. IndexTyped'
    BY <1>1, <1>4 DEF IndexInv, IndexTyped
  <2>3. \A f \in Tree : IndexKnows(f)'
    BY <1>1, <1>2, <2>1, RestIsKnown
  <2> QED
    BY <1>3, <2>1, <2>2, <2>3 DEF IndexInv, IndexScanShape, IndexHereShape, RowsAreCurrent
<1>5. ASSUME NEW full \in BOOLEAN, clone' = indexHead,
             indexRun' = [indexRun EXCEPT !["p1"] =
                   [I!Idle EXCEPT !.stage = "begin", !.sha = indexHead, !.full = full]]
      PROVE  IndexInv'
  <2>1. PICK new : new = [I!Idle EXCEPT !.stage = "begin", !.sha = indexHead, !.full = full]
    OBVIOUS
  <2>2. /\ new \in IndexRunType /\ new.stage = "begin" /\ new.sha = indexHead
        /\ new.todo = {} /\ new.gone = {} /\ new.here = None /\ new.touched = {}
        /\ new.clean = {} /\ DOMAIN new.fileRows = {} /\ new.symbolRows = {}
        /\ indexHead \in DOMAIN Branch
    <3>1. indexHead \in DOMAIN Branch
      BY DEF IndexInv, IndexTyped
    <3>2. I!Idle.todo = {} /\ I!Idle.gone = {} /\ I!Idle.here = None
          /\ I!Idle.touched = {} /\ I!Idle.clean = {}
      BY DEF I!Idle
    <3> HIDE DEF I!Idle
    <3> QED
      BY <2>1, <3>1, <3>2, EmptyBuffers DEF IndexRunType
  <2>3. TheRun' = new /\ indexRun' \in [{"p1"} -> IndexRunType]
    BY <1>5, <2>1, <2>2, OneRun DEF IndexInv
  <2>4. IndexTyped'
    BY <1>1, <1>5, <2>2, <2>3 DEF IndexInv, IndexTyped
  <2>5. ScanUnderWay' /\ IndexScanShape' /\ IndexHereShape' /\ RowsAreCurrent'
    BY <1>5, <2>2, <2>3
       DEF ScanUnderWay, IndexScanShape, IndexHereShape, RowsAreCurrent, BuffersAreRight
  <2>6. ASSUME NEW f \in Tree PROVE IndexKnows(f)'
    <3>1. f \in indexDoubt \/ IndexAgrees(f, IndexBase(f))
      BY <1>2 DEF IndexInv, IndexKnows
    <3>2. IndexBase(f)' = IndexBase(f) /\ f # None
      BY <1>1, TreeFacts DEF IndexBase
    <3>3. f \in indexDoubt' \/ IndexAgrees(f, IndexBase(f))'
      BY <1>1, <3>1, <3>2 DEF IndexAgrees, NamesOf
    <3> QED
      BY <2>2, <2>3, <2>5, <3>2, <3>3 DEF IndexKnows, Awaits
  <2> QED
    BY <1>3, <2>4, <2>5, <2>6 DEF IndexInv
<1> QED
  BY <1>1, <1>4, <1>5

LEMMA BeginKeeps ==
    ASSUME IndexInv, I!Begin("p1")
    PROVE  IndexInv'
<1>1. PICK full \in BOOLEAN :
        /\ full \/ indexCompleted # 0
        /\ indexRun' = [indexRun EXCEPT
             !["p1"].stage = "walk", !["p1"].full = full,
             !["p1"].todo = IF full THEN I!Tracked(clone)
                            ELSE I!Changed(indexCompleted, TheRun.sha),
             !["p1"].gone = IF full THEN {} ELSE I!Deleted(indexCompleted, TheRun.sha)]
  <2>1. TheRun.full \in BOOLEAN
    BY TheRunIsTyped DEF IndexInv, IndexRunType
  <2> QED
    BY <2>1 DEF I!Begin, I!LastCommit, TheRun
<1>2. /\ UNCHANGED <<indexHead, clone, indexFiles, indexSymbols, indexCompleted, indexDoubt>>
      /\ TheRun.stage = "begin" /\ ScanUnderWay /\ clone = TheRun.sha
      /\ TheRun.sha \in DOMAIN Branch
  BY DEF I!Begin, TheRun, ScanUnderWay, IndexInv, IndexScanShape
<1>3. PICK todo, gone :
        /\ todo = IF full THEN I!Tracked(clone) ELSE I!Changed(indexCompleted, TheRun.sha)
        /\ gone = IF full THEN {} ELSE I!Deleted(indexCompleted, TheRun.sha)
  OBVIOUS
<1>4. todo \in SUBSET Tree /\ gone \in SUBSET Tree
  BY <1>3 DEF I!Tracked, I!Changed, I!Deleted
<1>5. PICK new : new = [TheRun EXCEPT !.stage = "walk", !.full = full,
                                     !.todo = todo, !.gone = gone]
  OBVIOUS
<1>6. /\ new \in IndexRunType /\ new.stage = "walk" /\ new.sha = TheRun.sha
      /\ new.todo = todo /\ new.gone = gone /\ new.here = TheRun.here
      /\ new.touched = TheRun.touched /\ new.clean = TheRun.clean
      /\ new.fileRows = TheRun.fileRows /\ new.symbolRows = TheRun.symbolRows
  BY <1>4, <1>5, TheRunIsTyped DEF IndexInv, IndexRunType
<1>7. TheRun' = new /\ indexRun' \in [{"p1"} -> IndexRunType]
  <2>1. indexRun' = [indexRun EXCEPT !["p1"] = new]
    BY <1>1, <1>3, <1>5 DEF IndexInv, IndexTyped, TheRun
  <2> QED
    BY <1>6, <2>1, OneRun DEF IndexInv
<1>8. /\ TheRun.touched = {} /\ TheRun.clean = {} /\ TheRun.here = None
      /\ DOMAIN TheRun.fileRows = {} /\ TheRun.symbolRows = {}
  BY <1>2 DEF IndexInv, IndexScanShape, BuffersAreRight
<1>9. IndexTyped' /\ ScanUnderWay' /\ IndexHereShape' /\ RowsAreCurrent'
      /\ I!SummariesAreOfTheirCode'
  BY <1>2, <1>6, <1>7, <1>8 DEF IndexInv, IndexTyped, ScanUnderWay, IndexHereShape,
     RowsAreCurrent, I!SummariesAreOfTheirCode
<1>10. \A f \in Tree : /\ f \in todo => IndexTarget(f) # None
                       /\ f \in gone => IndexTarget(f) = None
  BY <1>2, <1>3 DEF I!Tracked, I!Changed, I!Deleted, IndexTarget
<1>11. IndexScanShape'
  BY <1>2, <1>4, <1>6, <1>7, <1>8, <1>10 DEF IndexScanShape, BuffersAreRight, IndexTarget
<1>12. ASSUME NEW f \in Tree PROVE IndexKnows(f)'
  <2>1. f \in indexDoubt \/ IndexAgrees(f, IndexBase(f))
    BY <1>2, <1>8, TreeFacts DEF IndexInv, IndexKnows
  <2>2. /\ IndexBase(f)' = IndexBase(f) /\ f # None
        /\ IndexTarget(f)' = IndexTarget(f)
    BY <1>2, <1>6, <1>7, TreeFacts DEF IndexBase, IndexTarget
  <2>3. f \in indexDoubt' \/ IndexAgrees(f, IndexBase(f))'
    BY <1>2, <2>1, <2>2 DEF IndexAgrees, NamesOf
  <2>4. f \in todo \union gone \/ IndexTarget(f) \in {IndexBase(f), None}
    <3>1. CASE full
      BY <1>2, <1>3, <3>1 DEF I!Tracked, IndexTarget
    <3>2. CASE ~full
      <4>1. IndexBase(f) = Branch[indexCompleted][f]
        BY <1>1, <3>2 DEF IndexBase
      <4> QED
        BY <1>3, <3>2, <4>1 DEF I!Tracked, I!Changed, I!Deleted, IndexTarget
    <3> QED
      BY <3>1, <3>2
  <2>5. Awaits(f)'
    BY <1>6, <1>7, <2>2, <2>4 DEF Awaits
  <2> QED
    BY <1>6, <1>7, <1>8, <1>9, <2>2, <2>3, <2>5 DEF IndexKnows
<1> QED
  BY <1>9, <1>11, <1>12 DEF IndexInv

(* What stays is carried. *)
LEMMA SameIsCarried ==
    ASSUME NEW f \in Tree, TheRun'.sha = TheRun.sha,
           indexFiles'[f] = indexFiles[f], indexSymbols'[f] = indexSymbols[f],
           f \in DOMAIN TheRun.fileRows => f \in DOMAIN TheRun'.fileRows,
           TheRun.symbolRows \subseteq TheRun'.symbolRows
    PROVE  Carried(f)
BY DEF Carried, HasFile, HasSymbol, IndexTarget

LEMMA AtFileIsThere ==
    ASSUME IndexInv, NEW g \in Tree, I!AtFile("p1", g)
    PROVE  /\ ScanUnderWay /\ TheRun.stage = "walk" /\ TheRun.here = None
           /\ g \in TheRun.todo /\ g \notin TheRun.touched /\ g \notin TheRun.clean
           /\ g \notin TheRun.gone /\ g # None
           /\ I!Content(g) = IndexTarget(g) /\ IndexTarget(g) \in DOMAIN Texts
           /\ clone = TheRun.sha /\ TheRun.sha \in DOMAIN Branch
<1>1. TheRun.stage = "walk" /\ TheRun.here = None /\ g \in TheRun.todo /\ ScanUnderWay
  BY DEF I!AtFile, TheRun, ScanUnderWay
<1>2. /\ clone = TheRun.sha /\ clone # 0 /\ TheRun.sha \in DOMAIN Branch
      /\ IndexTarget(g) # None /\ g \notin TheRun.touched /\ g \notin TheRun.clean
  BY <1>1, TreeFacts DEF IndexInv, IndexScanShape
<1>3. IndexTarget(g) \in DOMAIN Texts
  BY <1>2, TreeFacts DEF IndexTarget
<1>4. g \notin TheRun.gone
  BY <1>1, <1>2 DEF IndexInv, IndexScanShape
<1> QED
  BY <1>1, <1>2, <1>3, <1>4, TreeFacts DEF I!Content, IndexTarget

LEMMA IndexSkipKeeps ==
    ASSUME IndexInv, NEW g \in Tree, I!SkipFile("p1", g) \/ I!FileErrors("p1", g)
    PROVE  IndexInv'
<1>1. /\ I!AtFile("p1", g)
      /\ UNCHANGED <<indexHead, clone, indexFiles, indexSymbols, indexCompleted>>
      /\ \/ I!Content(g) \in {None, indexFiles[g]} /\ indexDoubt' = indexDoubt
         \/ indexDoubt' = indexDoubt \union {g}
      /\ indexRun' = [indexRun EXCEPT !["p1"].todo = @ \ {g}]
  BY DEF I!SkipFile, I!FileErrors
<1>2. /\ ScanUnderWay /\ TheRun.stage = "walk" /\ TheRun.here = None
      /\ g \in TheRun.todo /\ g \notin TheRun.touched /\ g \notin TheRun.clean /\ g # None
      /\ I!Content(g) = IndexTarget(g) /\ IndexTarget(g) \in DOMAIN Texts
      /\ clone = TheRun.sha /\ TheRun.sha \in DOMAIN Branch
  BY <1>1, AtFileIsThere
<1>3. PICK new : new = [TheRun EXCEPT !.todo = @ \ {g}]
  OBVIOUS
<1>4. /\ new \in IndexRunType /\ new.stage = "walk" /\ new.sha = TheRun.sha
      /\ new.todo = TheRun.todo \ {g} /\ new.gone = TheRun.gone /\ new.here = None
      /\ new.touched = TheRun.touched /\ new.clean = TheRun.clean
      /\ new.fileRows = TheRun.fileRows /\ new.symbolRows = TheRun.symbolRows
  BY <1>2, <1>3, TheRunIsTyped DEF IndexInv, IndexRunType
<1>5. TheRun' = new /\ indexRun' \in [{"p1"} -> IndexRunType]
  <2>1. indexRun' = [indexRun EXCEPT !["p1"] = new]
    BY <1>1, <1>3 DEF IndexInv, IndexTyped, TheRun
  <2> QED
    BY <1>4, <2>1, OneRun DEF IndexInv
<1>6. IndexTyped' /\ ScanUnderWay' /\ IndexHereShape' /\ RowsAreCurrent'
      /\ I!SummariesAreOfTheirCode'
  BY <1>1, <1>4, <1>5 DEF IndexInv, IndexTyped, ScanUnderWay, IndexHereShape,
     RowsAreCurrent, I!SummariesAreOfTheirCode
<1>7. IndexScanShape'
  BY <1>1, <1>2, <1>4, <1>5 DEF IndexInv, IndexScanShape, BuffersAreRight, IndexTarget
<1>8. ASSUME NEW f \in Tree, f # g PROVE IndexKnows(f)'
  <2>1. Carried(f)
    BY <1>1, <1>4, <1>5, SameIsCarried
  <2> QED
    BY <1>1, <1>2, <1>4, <1>5, <1>6, <1>8, <2>1, TreeFacts, OthersAreKnown
<1>9. IndexKnows(g)'
  <2>1. CASE g \in indexDoubt'
    BY <1>2, <1>4, <1>5, <1>6, <2>1 DEF IndexKnows
  <2>2. CASE g \notin indexDoubt'
    <3>1. indexFiles[g] = IndexTarget(g) /\ g \notin indexDoubt
      BY <1>1, <1>2, <2>2, TreeFacts
    <3>2. IndexAgrees(g, IndexBase(g))
      BY <1>2, <3>1 DEF IndexInv, IndexKnows
    <3>3. IndexTarget(g) = IndexBase(g)
      BY <3>1, <3>2 DEF IndexAgrees
    <3>4. IndexBase(g)' = IndexBase(g) /\ IndexTarget(g)' = IndexTarget(g)
      BY <1>1, <1>4, <1>5 DEF IndexBase, IndexTarget
    <3>5. IndexAgrees(g, IndexBase(g))' /\ Awaits(g)'
      BY <1>1, <3>2, <3>3, <3>4 DEF IndexAgrees, NamesOf, Awaits
    <3> QED
      BY <1>2, <1>4, <1>5, <1>6, <3>5 DEF IndexKnows
  <2> QED
    BY <2>1, <2>2
<1> QED
  BY <1>6, <1>7, <1>8, <1>9 DEF IndexInv

LEMMA ReadFileKeeps ==
    ASSUME IndexInv, NEW g \in Tree, I!ReadFile("p1", g)
    PROVE  IndexInv'
<1>1. I!AtFile("p1", g)
  BY DEF I!ReadFile
<1>2. /\ ScanUnderWay /\ TheRun.stage = "walk" /\ TheRun.here = None
      /\ g \in TheRun.todo /\ g \notin TheRun.touched /\ g \notin TheRun.clean /\ g # None
      /\ g \notin TheRun.gone
      /\ I!Content(g) = IndexTarget(g) /\ IndexTarget(g) \in DOMAIN Texts
      /\ clone = TheRun.sha /\ TheRun.sha \in DOMAIN Branch
  BY <1>1, AtFileIsThere
<1>3. PICK v : v = IndexTarget(g)
  OBVIOUS
<1> DEFINE added == [f \in DOMAIN TheRun.fileRows \union {g} |->
                       IF f = g THEN v ELSE TheRun.fileRows[f]]
           rest == I!ChangedSymbols(g, v)
           removed == DOMAIN indexSymbols[g] \ DOMAIN Texts[v]
           Reading(buffer) ==
             [TheRun EXCEPT !.fileRows = buffer, !.here = g, !.text = v, !.todo = @ \ {g},
                            !.rest = rest, !.removed = removed,
                            !.touched = @ \union {g}]
<1>4. PICK rows : rows = added
  OBVIOUS
<1>5. /\ rows \in FileBuffers /\ DOMAIN rows = DOMAIN TheRun.fileRows \union {g}
      /\ \A f \in DOMAIN rows : rows[f] = IndexTarget(f)
  <2>1. TheRun.fileRows \in FileBuffers
    BY TheRunIsTyped DEF IndexInv, IndexRunType
  <2>2. /\ DOMAIN TheRun.fileRows \subseteq Tree
        /\ \A f \in DOMAIN TheRun.fileRows :
             TheRun.fileRows[f] \in DOMAIN Texts /\ TheRun.fileRows[f] = IndexTarget(f)
    BY <1>2, <2>1, BuffersAreFunctions DEF IndexInv, IndexScanShape, BuffersAreRight
  <2>3. /\ rows = [f \in DOMAIN rows |-> rows[f]]
        /\ DOMAIN rows = DOMAIN TheRun.fileRows \union {g}
        /\ rows[g] = v /\ \A f \in DOMAIN TheRun.fileRows : f # g => rows[f] = TheRun.fileRows[f]
    BY <1>4
  <2> HIDE DEF added
  <2> QED
    BY <1>2, <1>3, <2>2, <2>3, BuffersAreFunctions
<1>6. /\ UNCHANGED <<indexHead, clone, indexSymbols, indexCompleted>>
      /\ \/ /\ indexFiles' = I!FilesWith(rows)
            /\ indexRun' = [indexRun EXCEPT !["p1"] = Reading(I!Idle.fileRows)]
            /\ indexDoubt' = indexDoubt
         \/ /\ indexFiles' = indexFiles
            /\ indexRun' = [indexRun EXCEPT !["p1"] = Reading(rows)]
            /\ indexDoubt' = indexDoubt
         \/ /\ indexFiles' = indexFiles
            /\ indexRun' = [indexRun EXCEPT !["p1"] =
                 [TheRun EXCEPT !.fileRows = rows, !.todo = @ \ {g},
                                !.touched = @ \union {g}]]
            /\ indexDoubt' = indexDoubt \union {g}
  BY <1>2, <1>3, <1>4 DEF I!ReadFile, TheRun
<1> HIDE DEF added
<1>7. PICK buffer \in FileBuffers :
        /\ buffer \in {rows, I!Idle.fileRows}
        /\ \/ indexRun' = [indexRun EXCEPT !["p1"] = Reading(buffer)]
              /\ indexDoubt' = indexDoubt
           \/ /\ indexRun' = [indexRun EXCEPT !["p1"] =
                  [TheRun EXCEPT !.fileRows = buffer, !.todo = @ \ {g},
                                 !.touched = @ \union {g}]]
              /\ indexDoubt' = indexDoubt \union {g}
        /\ \/ indexFiles' = indexFiles /\ buffer = rows
           \/ indexFiles' = I!FilesWith(rows)
  <2> HIDE DEF Reading
  <2> QED
    BY <1>5, <1>6, EmptyBuffers
<1>8. /\ rest \in SUBSET TextNames /\ rest \subseteq NamesOf(v)
      /\ removed \in SUBSET TextNames /\ removed \intersect NamesOf(v) = {}
      /\ NamesOf(v) = DOMAIN Texts[v]
      /\ \A n \in NamesOf(v) \ rest :
           n \in DOMAIN indexSymbols[g] /\ indexSymbols[g][n].code = Texts[v][n]
      /\ DOMAIN indexSymbols[g] \subseteq NamesOf(v) \union removed
  <2>1. NamesOf(v) = DOMAIN Texts[v] /\ NamesOf(v) \subseteq TextNames
    BY <1>2, <1>3, NamesAreText
  <2>2. DOMAIN indexSymbols[g] \subseteq TextNames
    BY IndexNodesAreFunctions DEF IndexInv, IndexTyped
  <2> QED
    BY <2>1, <2>2 DEF I!ChangedSymbols
<1>9. PICK new \in IndexRunType :
        /\ indexRun' = [indexRun EXCEPT !["p1"] = new]
        /\ new.stage = "walk" /\ new.sha = TheRun.sha
        /\ new.todo = TheRun.todo \ {g} /\ new.gone = TheRun.gone
        /\ new.touched = TheRun.touched \union {g} /\ new.clean = TheRun.clean
        /\ new.fileRows = buffer /\ new.symbolRows = TheRun.symbolRows
        /\ \/ /\ new.here = g /\ new.text = v /\ new.rest = rest /\ new.removed = removed
              /\ indexDoubt' = indexDoubt
           \/ new.here = None /\ indexDoubt' = indexDoubt \union {g}
  <2>1. CASE /\ indexRun' = [indexRun EXCEPT !["p1"] = Reading(buffer)]
             /\ indexDoubt' = indexDoubt
    <3>1. PICK new : new = Reading(buffer)
      OBVIOUS
    <3> HIDE DEF rest, removed
    <3>2. new \in IndexRunType
      BY <3>1, <1>2, <1>3, <1>8, TheRunIsTyped DEF IndexInv, IndexRunType
    <3> QED
      BY <2>1, <3>1, <3>2, <1>2, TheRunIsTyped DEF IndexInv, IndexRunType
  <2>2. CASE /\ indexRun' = [indexRun EXCEPT !["p1"] =
                  [TheRun EXCEPT !.fileRows = buffer, !.todo = @ \ {g},
                                 !.touched = @ \union {g}]]
             /\ indexDoubt' = indexDoubt \union {g}
    <3>1. PICK new : new = [TheRun EXCEPT !.fileRows = buffer, !.todo = @ \ {g},
                                 !.touched = @ \union {g}]
      OBVIOUS
    <3>2. new \in IndexRunType
      BY <3>1, <1>2, <1>3, TheRunIsTyped DEF IndexInv, IndexRunType
    <3> HIDE DEF Reading, rest, removed
    <3> QED
      BY <2>2, <3>1, <3>2, <1>2, TheRunIsTyped DEF IndexInv, IndexRunType
  <2> HIDE DEF Reading
  <2> QED
    BY <1>7, <2>1, <2>2
<1> HIDE DEF Reading, rest, removed
<1>10. TheRun' = new /\ indexRun' \in [{"p1"} -> IndexRunType]
  BY <1>9, OneRun DEF IndexInv
<1>11. /\ indexFiles' \in [Tree -> DOMAIN Texts \union {None}]
       /\ \A f \in Tree : /\ f \notin DOMAIN rows => indexFiles'[f] = indexFiles[f]
                          /\ indexFiles[f] = IndexTarget(f) => indexFiles'[f] = IndexTarget(f)
                          /\ f \in DOMAIN rows =>
                               f \in DOMAIN buffer \/ indexFiles'[f] = IndexTarget(f)
  <2>1. CASE indexFiles' = indexFiles /\ buffer = rows
    BY <2>1 DEF IndexInv, IndexTyped
  <2>2. CASE indexFiles' = I!FilesWith(rows)
    BY <2>2, <1>5, FilesFlushed DEF IndexInv
  <2> QED
    BY <1>7, <2>1, <2>2
<1>12. /\ IndexTyped' /\ ScanUnderWay' /\ RowsAreCurrent' /\ I!SummariesAreOfTheirCode'
       /\ indexDoubt \subseteq indexDoubt'
  BY <1>6, <1>9, <1>10, <1>11 DEF IndexInv, IndexTyped, ScanUnderWay,
     RowsAreCurrent, I!SummariesAreOfTheirCode
<1>13. \A f : IndexTarget(f)' = IndexTarget(f)
  BY <1>9, <1>10 DEF IndexTarget
<1>14. IndexHereShape'
  <2>1. new.here # None =>
          /\ new.here \in new.touched /\ new.here \notin new.clean
          /\ new.text = IndexTarget(new.here) /\ new.text # None
          /\ new.rest \subseteq NamesOf(new.text)
          /\ new.removed \intersect NamesOf(new.text) = {}
    BY <1>2, <1>3, <1>8, <1>9, TreeFacts
  <2> QED
    BY <1>10, <1>13, <2>1 DEF IndexHereShape, NamesOf
<1>15. BuffersAreRight'
  <2>1. \A f \in DOMAIN buffer : f \in new.touched /\ buffer[f] = IndexTarget(f)
    BY <1>2, <1>5, <1>7, <1>9, EmptyBuffers DEF IndexInv, IndexScanShape, BuffersAreRight
  <2>2. \A row \in TheRun.symbolRows :
         /\ row.file \in new.touched
         /\ row.name \in NamesOf(IndexTarget(row.file))
         /\ row.code = Texts[IndexTarget(row.file)][row.name]
    BY <1>2, <1>9 DEF IndexInv, IndexScanShape, BuffersAreRight
  <2> QED
    BY <1>9, <1>10, <1>13, <2>1, <2>2 DEF BuffersAreRight, NamesOf
<1>16. IndexScanShape'
  BY <1>2, <1>6, <1>9, <1>10, <1>13, <1>15 DEF IndexInv, IndexScanShape
<1>17. ASSUME NEW f \in Tree, f # g PROVE IndexKnows(f)'
  <2>1. Carried(f)
    <3>1. f \notin TheRun.touched => indexFiles'[f] = indexFiles[f]
      BY <1>2, <1>5, <1>11, <1>17 DEF IndexInv, IndexScanShape, BuffersAreRight
    <3>2. HasFile(f) => HasFile(f)'
      BY <1>5, <1>9, <1>10, <1>11, <1>13 DEF HasFile
    <3> QED
      BY <1>6, <1>9, <1>10, <1>13, <3>1, <3>2 DEF Carried, HasSymbol
  <2> QED
    BY <1>2, <1>6, <1>9, <1>10, <1>12, <1>17, <2>1, TreeFacts, OthersAreKnown
<1>18. IndexKnows(g)'
  <2>1. CASE new.here = None /\ indexDoubt' = indexDoubt \union {g}
    BY <1>2, <1>9, <1>10, <1>12, <2>1 DEF IndexKnows
  <2>2. CASE /\ new.here = g /\ new.text = v /\ new.rest = rest /\ new.removed = removed
             /\ indexDoubt' = indexDoubt
    <3>1. HasFile(g)'
      BY <1>5, <1>9, <1>10, <1>11, <1>13 DEF HasFile
    <3>2. \A n \in NamesOf(v) \ rest : HasSymbol(g, n)'
      BY <1>3, <1>6, <1>8, <1>13 DEF HasSymbol
    <3>3. HalfWalked(g)'
      BY <1>3, <1>6, <1>8, <1>10, <1>13, <2>2, <3>1, <3>2 DEF HalfWalked, NamesOf
    <3> QED
      BY <1>2, <1>9, <1>10, <1>12, <2>2, <3>3 DEF IndexKnows
  <2> QED
    BY <1>9, <2>1, <2>2
<1> QED
  BY <1>12, <1>14, <1>16, <1>17, <1>18 DEF IndexInv

(* The file at hand. *)
LEMMA HereIsThere ==
    ASSUME IndexInv, TheRun.stage = "walk", TheRun.here # None
    PROVE  /\ ScanUnderWay /\ TheRun.here \in Tree
           /\ TheRun.here \in TheRun.touched /\ TheRun.here \notin TheRun.clean
           /\ TheRun.text = IndexTarget(TheRun.here) /\ TheRun.text \in DOMAIN Texts
           /\ NamesOf(TheRun.text) = DOMAIN Texts[TheRun.text]
           /\ NamesOf(TheRun.text) \subseteq TextNames
           /\ TheRun.rest \subseteq NamesOf(TheRun.text)
           /\ TheRun.removed \intersect NamesOf(TheRun.text) = {}
           /\ HalfWalked(TheRun.here) /\ BuffersAreRight
           /\ clone = TheRun.sha /\ TheRun.sha \in DOMAIN Branch
<1>1. ScanUnderWay
  BY DEF ScanUnderWay
<1>2. TheRun.here \in Tree /\ TheRun.text \in DOMAIN Texts \union {None}
  BY TheRunIsTyped DEF IndexInv, IndexRunType
<1>3. /\ TheRun.here \in TheRun.touched /\ TheRun.here \notin TheRun.clean
      /\ TheRun.text = IndexTarget(TheRun.here) /\ TheRun.text # None
      /\ TheRun.rest \subseteq NamesOf(TheRun.text)
      /\ TheRun.removed \intersect NamesOf(TheRun.text) = {}
  BY <1>1 DEF IndexInv, IndexHereShape
<1>4. HalfWalked(TheRun.here)
  BY <1>1, <1>2, <1>3 DEF IndexInv, IndexKnows
<1>5. /\ NamesOf(TheRun.text) = DOMAIN Texts[TheRun.text]
      /\ NamesOf(TheRun.text) \subseteq TextNames
  BY <1>2, <1>3, NamesAreText
<1> QED
  BY <1>1, <1>2, <1>3, <1>4, <1>5 DEF IndexInv, IndexScanShape

(* The two buffers, kept or written. *)
LEMMA FilesMove ==
    ASSUME IndexInv, ScanUnderWay, TheRun'.sha = TheRun.sha,
           \/ indexFiles' = indexFiles /\ TheRun'.fileRows = TheRun.fileRows
           \/ /\ indexFiles' = I!FilesWith(TheRun.fileRows)
              /\ TheRun'.fileRows = I!Idle.fileRows
    PROVE  /\ indexFiles' \in [Tree -> DOMAIN Texts \union {None}]
           /\ \A f \in Tree : /\ HasFile(f) => HasFile(f)'
                              /\ f \notin TheRun.touched => indexFiles'[f] = indexFiles[f]
           /\ \A f \in DOMAIN TheRun'.fileRows :
                f \in TheRun.touched /\ TheRun'.fileRows[f] = IndexTarget(f)'
<1>1. \A f : IndexTarget(f)' = IndexTarget(f)
  BY DEF IndexTarget
<1>2. /\ TheRun.fileRows \in FileBuffers
      /\ \A f \in DOMAIN TheRun.fileRows :
           f \in TheRun.touched /\ TheRun.fileRows[f] = IndexTarget(f)
  BY TheRunIsTyped DEF IndexInv, IndexRunType, IndexScanShape, BuffersAreRight
<1>3. CASE indexFiles' = indexFiles /\ TheRun'.fileRows = TheRun.fileRows
  BY <1>1, <1>2, <1>3 DEF IndexInv, IndexTyped, HasFile
<1>4. CASE /\ indexFiles' = I!FilesWith(TheRun.fileRows)
           /\ TheRun'.fileRows = I!Idle.fileRows
  <2>1. /\ indexFiles' \in [Tree -> DOMAIN Texts \union {None}]
        /\ \A f \in Tree : IF f \in DOMAIN TheRun.fileRows
                           THEN indexFiles'[f] = IndexTarget(f)
                           ELSE indexFiles'[f] = indexFiles[f]
    BY <1>2, <1>4, FilesFlushed DEF IndexInv
  <2> QED
    BY <1>1, <1>2, <1>4, <2>1, EmptyBuffers DEF HasFile
<1> QED
  BY <1>3, <1>4

RowsAreRight(those) ==
    those \in RowSets /\ \A row \in those :
        /\ row.file \in TheRun.touched
        /\ row.name \in NamesOf(IndexTarget(row.file))
        /\ row.code = Texts[IndexTarget(row.file)][row.name]

LEMMA SymbolsMove ==
    ASSUME IndexInv, TheRun'.sha = TheRun.sha, NEW those, RowsAreRight(those),
           TheRun.symbolRows \subseteq those,
           \/ indexSymbols' = indexSymbols /\ TheRun'.symbolRows = those
           \/ indexSymbols' = I!SymbolsWith(those) /\ TheRun'.symbolRows = {}
    PROVE  /\ indexSymbols' \in [Tree -> IndexNodes] /\ I!SummariesAreOfTheirCode'
           /\ \A f \in Tree :
                /\ DOMAIN indexSymbols'[f] \subseteq
                     DOMAIN indexSymbols[f] \union NamesOf(IndexTarget(f))
                /\ \A n : HasSymbol(f, n) \/ Named(those, f, n) => HasSymbol(f, n)'
                /\ f \notin TheRun.touched => indexSymbols'[f] = indexSymbols[f]
<1>1. \A f : IndexTarget(f)' = IndexTarget(f)
  BY DEF IndexTarget
<1>2. /\ those \in SUBSET IndexRow
      /\ \A row \in those : /\ row.file \in TheRun.touched
                            /\ row.name \in NamesOf(IndexTarget(row.file))
                            /\ row.code = Texts[IndexTarget(row.file)][row.name]
  BY DEF RowsAreRight, RowSets
<1>3. CASE indexSymbols' = indexSymbols /\ TheRun'.symbolRows = those
  <2>1. I!SummariesAreOfTheirCode'
    BY <1>3 DEF IndexInv, I!SummariesAreOfTheirCode
  <2>2. \A f \in Tree : \A n : HasSymbol(f, n) \/ Named(those, f, n) => HasSymbol(f, n)'
    BY <1>1, <1>3 DEF HasSymbol, Named
  <2> QED
    BY <1>3, <2>1, <2>2 DEF IndexInv, IndexTyped
<1>4. CASE indexSymbols' = I!SymbolsWith(those) /\ TheRun'.symbolRows = {}
  <2>1. /\ indexSymbols' \in [Tree -> IndexNodes]
        /\ I!SummariesAreOfTheirCode => I!SummariesAreOfTheirCode'
        /\ \A f \in Tree :
             /\ DOMAIN indexSymbols'[f] \subseteq
                  DOMAIN indexSymbols[f] \union NamesOf(IndexTarget(f))
             /\ (\A row \in those : row.file # f) => indexSymbols'[f] = indexSymbols[f]
             /\ \A n : Named(those, f, n) \/
                       (/\ n \in DOMAIN indexSymbols[f]
                        /\ indexSymbols[f][n].code = Texts[IndexTarget(f)][n]) =>
                   /\ n \in DOMAIN indexSymbols'[f]
                   /\ indexSymbols'[f][n].code = Texts[IndexTarget(f)][n]
    BY <1>2, <1>4, SymbolsFlushed DEF IndexInv
  <2>2. \A f \in Tree : \A n : HasSymbol(f, n) \/ Named(those, f, n) => HasSymbol(f, n)'
    BY <1>1, <2>1 DEF HasSymbol, Named
  <2> QED
    BY <1>2, <2>1, <2>2 DEF IndexInv
<1> QED
  BY <1>3, <1>4

LEMMA BufferSymbolKeeps ==
    ASSUME IndexInv, NEW n \in TheRun.rest, I!BufferSymbol("p1", n)
    PROVE  IndexInv'
<1>1. TheRun.stage = "walk" /\ TheRun.here # None
  BY DEF I!BufferSymbol, TheRun
<1>2. PICK g, v : g = TheRun.here /\ v = TheRun.text
  OBVIOUS
<1>3. /\ ScanUnderWay /\ g \in Tree /\ g \in TheRun.touched /\ g \notin TheRun.clean
      /\ v = IndexTarget(g) /\ v \in DOMAIN Texts /\ NamesOf(v) = DOMAIN Texts[v]
      /\ NamesOf(v) \subseteq TextNames /\ TheRun.rest \subseteq NamesOf(v)
      /\ TheRun.removed \intersect NamesOf(v) = {}
      /\ HalfWalked(g) /\ BuffersAreRight /\ clone = TheRun.sha /\ TheRun.sha \in DOMAIN Branch
  BY <1>1, <1>2, HereIsThere
<1>4. PICK row, those :
        /\ row = [file |-> g, name |-> n, code |-> Texts[v][n]]
        /\ those = TheRun.symbolRows \union {row}
  OBVIOUS
<1> DEFINE Abandoned(buffer) ==
             [TheRun EXCEPT !.fileRows = buffer, !.symbolRows = those, !.here = None,
                            !.text = None, !.rest = {}, !.removed = {}]
<1>5. /\ UNCHANGED <<indexHead, clone, indexCompleted>>
      /\ \/ /\ indexRun' = [indexRun EXCEPT !["p1"].symbolRows = those, !["p1"].rest = @ \ {n}]
            /\ UNCHANGED <<indexFiles, indexSymbols, indexDoubt>>
         \/ /\ indexFiles' = I!FilesWith(TheRun.fileRows)
            /\ indexSymbols' = I!SymbolsWith(those)
            /\ indexRun' = [indexRun EXCEPT !["p1"] =
                 [TheRun EXCEPT !.fileRows = I!Idle.fileRows, !.symbolRows = {},
                                !.rest = @ \ {n}]]
            /\ UNCHANGED indexDoubt
         \/ /\ indexFiles' = indexFiles
            /\ indexRun' = [indexRun EXCEPT !["p1"] = Abandoned(TheRun.fileRows)]
            /\ indexDoubt' = indexDoubt \union {g}
            /\ UNCHANGED indexSymbols
         \/ /\ indexFiles' = I!FilesWith(TheRun.fileRows)
            /\ indexRun' = [indexRun EXCEPT !["p1"] = Abandoned(I!Idle.fileRows)]
            /\ indexDoubt' = indexDoubt \union {g}
            /\ UNCHANGED indexSymbols
  BY <1>2, <1>4 DEF I!BufferSymbol, TheRun
<1>6. Texts[v][n] \in TextCodes /\ n \in NamesOf(v)
  BY <1>3, NamesAreText
<1>7. RowsAreRight(those) /\ TheRun.symbolRows \subseteq those /\ those \in SUBSET IndexRow
  <2>1. row \in IndexRow /\ row.file = g /\ row.name = n /\ row.code = Texts[v][n]
    BY <1>3, <1>4, <1>6 DEF IndexRow
  <2>2. TheRun.symbolRows \in SUBSET IndexRow
    BY TheRunIsTyped DEF IndexInv, IndexRunType
  <2> QED
    BY <1>3, <1>4, <1>6, <2>1, <2>2 DEF RowsAreRight, RowSets, BuffersAreRight
<1>8. PICK new \in IndexRunType :
        /\ indexRun' = [indexRun EXCEPT !["p1"] = new]
        /\ new.stage = "walk" /\ new.sha = TheRun.sha
        /\ new.todo = TheRun.todo /\ new.gone = TheRun.gone
        /\ new.touched = TheRun.touched /\ new.clean = TheRun.clean
        /\ \/ indexFiles' = indexFiles /\ new.fileRows = TheRun.fileRows
           \/ indexFiles' = I!FilesWith(TheRun.fileRows) /\ new.fileRows = I!Idle.fileRows
        /\ \/ indexSymbols' = indexSymbols /\ new.symbolRows = those
           \/ indexSymbols' = I!SymbolsWith(those) /\ new.symbolRows = {}
        /\ \/ /\ new.here = g /\ new.text = v /\ new.removed = TheRun.removed
              /\ new.rest = TheRun.rest \ {n} /\ indexDoubt' = indexDoubt
           \/ new.here = None /\ indexDoubt' = indexDoubt \union {g}
  <2>1. CASE /\ indexRun' = [indexRun EXCEPT !["p1"].symbolRows = those,
                                             !["p1"].rest = @ \ {n}]
             /\ UNCHANGED <<indexFiles, indexSymbols, indexDoubt>>
    <3>1. PICK new : new = [TheRun EXCEPT !.symbolRows = those, !.rest = @ \ {n}]
      OBVIOUS
    <3>2. indexRun' = [indexRun EXCEPT !["p1"] = new]
      BY <2>1, <3>1 DEF IndexInv, IndexTyped, TheRun
    <3>3. new \in IndexRunType
      BY <3>1, <1>7, TheRunIsTyped DEF IndexInv, IndexRunType
    <3> QED
      BY <2>1, <3>1, <3>2, <3>3, <1>1, <1>2, TheRunIsTyped DEF IndexInv, IndexRunType
  <2>2. CASE /\ indexFiles' = I!FilesWith(TheRun.fileRows)
             /\ indexSymbols' = I!SymbolsWith(those)
             /\ indexRun' = [indexRun EXCEPT !["p1"] =
                 [TheRun EXCEPT !.fileRows = I!Idle.fileRows, !.symbolRows = {},
                                !.rest = @ \ {n}]]
             /\ UNCHANGED indexDoubt
    <3>1. PICK new : new = [TheRun EXCEPT !.fileRows = I!Idle.fileRows, !.symbolRows = {},
                                !.rest = @ \ {n}]
      OBVIOUS
    <3>2. new \in IndexRunType
      BY <3>1, <1>7, TheRunIsTyped, EmptyBuffers DEF IndexInv, IndexRunType
    <3> QED
      BY <2>2, <3>1, <3>2, <1>1, <1>2, TheRunIsTyped DEF IndexInv, IndexRunType
  <2>3. ASSUME NEW buffer \in {TheRun.fileRows, I!Idle.fileRows},
               indexRun' = [indexRun EXCEPT !["p1"] = Abandoned(buffer)],
               \/ indexFiles' = indexFiles /\ buffer = TheRun.fileRows
               \/ indexFiles' = I!FilesWith(TheRun.fileRows) /\ buffer = I!Idle.fileRows,
               indexDoubt' = indexDoubt \union {g}, UNCHANGED indexSymbols
        PROVE  \E new \in IndexRunType :
                 /\ indexRun' = [indexRun EXCEPT !["p1"] = new]
                 /\ new.stage = "walk" /\ new.sha = TheRun.sha
                 /\ new.todo = TheRun.todo /\ new.gone = TheRun.gone
                 /\ new.touched = TheRun.touched /\ new.clean = TheRun.clean
                 /\ new.fileRows = buffer /\ new.symbolRows = those /\ new.here = None
    <3>1. PICK new : new = Abandoned(buffer)
      OBVIOUS
    <3>2. new \in IndexRunType
      BY <3>1, <1>7, TheRunIsTyped, EmptyBuffers DEF IndexInv, IndexRunType
    <3>3. /\ new.stage = "walk" /\ new.sha = TheRun.sha
          /\ new.todo = TheRun.todo /\ new.gone = TheRun.gone
          /\ new.touched = TheRun.touched /\ new.clean = TheRun.clean
          /\ new.fileRows = buffer /\ new.symbolRows = those /\ new.here = None
      BY <3>1, <1>1, TheRunIsTyped DEF IndexInv, IndexRunType
    <3> HIDE DEF Abandoned
    <3> QED
      BY <2>3, <3>1, <3>2, <3>3
  <2> HIDE DEF Abandoned
  <2> QED
    BY <1>5, <2>1, <2>2, <2>3
<1> HIDE DEF Abandoned
<1>9. TheRun' = new /\ indexRun' \in [{"p1"} -> IndexRunType]
  BY <1>8, OneRun DEF IndexInv
<1>10. \A f : IndexTarget(f)' = IndexTarget(f)
  BY <1>8, <1>9 DEF IndexTarget
<1>11. /\ indexFiles' \in [Tree -> DOMAIN Texts \union {None}]
       /\ \A f \in Tree : /\ HasFile(f) => HasFile(f)'
                          /\ f \notin TheRun.touched => indexFiles'[f] = indexFiles[f]
       /\ \A f \in DOMAIN TheRun'.fileRows :
            f \in TheRun.touched /\ TheRun'.fileRows[f] = IndexTarget(f)'
  BY <1>3, <1>8, <1>9, FilesMove
<1>12. /\ indexSymbols' \in [Tree -> IndexNodes] /\ I!SummariesAreOfTheirCode'
       /\ \A f \in Tree :
            /\ DOMAIN indexSymbols'[f] \subseteq
                 DOMAIN indexSymbols[f] \union NamesOf(IndexTarget(f))
            /\ \A m : HasSymbol(f, m) \/ Named(those, f, m) => HasSymbol(f, m)'
            /\ f \notin TheRun.touched => indexSymbols'[f] = indexSymbols[f]
  BY <1>7, <1>8, <1>9, SymbolsMove
<1>13. IndexTyped' /\ ScanUnderWay' /\ RowsAreCurrent' /\ indexDoubt \subseteq indexDoubt'
  BY <1>5, <1>8, <1>9, <1>11, <1>12 DEF IndexInv, IndexTyped, ScanUnderWay, RowsAreCurrent
<1>14. IndexHereShape'
  <2>1. new.here # None =>
          /\ new.here \in new.touched /\ new.here \notin new.clean
          /\ new.text = IndexTarget(new.here) /\ new.text # None
          /\ new.rest \subseteq NamesOf(new.text)
          /\ new.removed \intersect NamesOf(new.text) = {}
    BY <1>3, <1>8, TreeFacts
  <2> QED
    BY <1>9, <1>10, <2>1 DEF IndexHereShape, NamesOf
<1>15. BuffersAreRight'
  <2>1. \A other \in new.symbolRows :
         /\ other.file \in new.touched
         /\ other.name \in NamesOf(IndexTarget(other.file))
         /\ other.code = Texts[IndexTarget(other.file)][other.name]
    BY <1>7, <1>8 DEF RowsAreRight
  <2> QED
    BY <1>8, <1>9, <1>10, <1>11, <2>1 DEF BuffersAreRight, NamesOf
<1>16. IndexScanShape'
  <2>1. /\ TheRun'.stage = "walk" /\ TheRun'.sha = TheRun.sha
        /\ TheRun'.todo = TheRun.todo /\ TheRun'.gone = TheRun.gone
        /\ TheRun'.touched = TheRun.touched /\ TheRun'.clean = TheRun.clean
    BY <1>8, <1>9
  <2>2. clone' = clone
    BY <1>5
  <2> QED
    BY <1>1, <1>3, <1>10, <1>15, <2>1, <2>2 DEF IndexInv, IndexScanShape
<1>17. \A f \in Tree : Carried(f)
  BY <1>11, <1>12 DEF Carried
<1>18. ASSUME NEW f \in Tree, f # g PROVE IndexKnows(f)'
  BY <1>1, <1>2, <1>3, <1>5, <1>8, <1>9, <1>13, <1>17, <1>18, TreeFacts, OthersAreKnown
<1>19. IndexKnows(g)'
  <2>1. CASE new.here = None /\ indexDoubt' = indexDoubt \union {g}
    BY <1>3, <1>8, <1>9, <1>13, <2>1, TreeFacts DEF IndexKnows
  <2>2. CASE /\ new.here = g /\ new.text = v /\ new.removed = TheRun.removed
             /\ new.rest = TheRun.rest \ {n} /\ indexDoubt' = indexDoubt
    <3>1. Named(those, g, n)
      BY <1>4 DEF Named
    <3>2. HasFile(g) /\ DOMAIN indexSymbols[g] \subseteq NamesOf(v) \union TheRun.removed
          /\ \A m \in NamesOf(v) \ TheRun.rest : HasSymbol(g, m)
      BY <1>3 DEF HalfWalked
    <3>3. /\ HasFile(g)' /\ DOMAIN indexSymbols'[g] \subseteq NamesOf(v) \union new.removed
          /\ \A m \in NamesOf(v) \ new.rest : HasSymbol(g, m)'
      BY <1>3, <1>11, <1>12, <2>2, <3>1, <3>2
    <3>4. HalfWalked(g)'
      BY <1>3, <1>9, <1>10, <3>3 DEF HalfWalked, NamesOf
    <3> QED
      BY <1>3, <1>8, <1>9, <1>13, <2>2, <3>4 DEF IndexKnows
  <2> QED
    BY <1>8, <2>1, <2>2
<1> QED
  BY <1>12, <1>13, <1>14, <1>16, <1>18, <1>19 DEF IndexInv

LEMMA IndexPruneKeeps ==
    ASSUME IndexInv, I!PruneSymbols("p1")
    PROVE  IndexInv'
<1>1. TheRun.stage = "walk" /\ TheRun.here # None
  BY DEF I!PruneSymbols, TheRun
<1>2. PICK g, v, names : g = TheRun.here /\ v = TheRun.text /\ names = TheRun.removed
  OBVIOUS
<1>3. /\ ScanUnderWay /\ g \in Tree /\ g \in TheRun.touched /\ g \notin TheRun.clean
      /\ v = IndexTarget(g) /\ names \intersect NamesOf(v) = {}
      /\ HalfWalked(g) /\ BuffersAreRight /\ clone = TheRun.sha /\ TheRun.sha \in DOMAIN Branch
  BY <1>1, <1>2, HereIsThere
<1>4. /\ UNCHANGED <<indexHead, clone, indexFiles, indexCompleted, indexDoubt>>
      /\ TheRun.rest = {}
      /\ indexSymbols' = [indexSymbols EXCEPT ![g] = I!Without(@, names)]
      /\ indexRun' = [indexRun EXCEPT !["p1"].here = None, !["p1"].text = None,
                        !["p1"].removed = {}, !["p1"].clean = @ \union {g}]
  BY <1>2 DEF I!PruneSymbols, TheRun
<1>5. PICK new : new = [TheRun EXCEPT !.here = None, !.text = None, !.removed = {},
                                      !.clean = @ \union {g}]
  OBVIOUS
<1>6. /\ new \in IndexRunType /\ new.stage = "walk" /\ new.sha = TheRun.sha
      /\ new.todo = TheRun.todo /\ new.gone = TheRun.gone /\ new.here = None
      /\ new.touched = TheRun.touched /\ new.clean = TheRun.clean \union {g}
      /\ new.fileRows = TheRun.fileRows /\ new.symbolRows = TheRun.symbolRows
  BY <1>1, <1>3, <1>5, TheRunIsTyped DEF IndexInv, IndexRunType
<1>7. TheRun' = new /\ indexRun' \in [{"p1"} -> IndexRunType]
  <2>1. indexRun' = [indexRun EXCEPT !["p1"] = new]
    BY <1>4, <1>5 DEF IndexInv, IndexTyped, TheRun
  <2> QED
    BY <1>6, <2>1, OneRun DEF IndexInv
<1>8. /\ indexSymbols' \in [Tree -> IndexNodes]
      /\ \A f \in Tree : f # g => indexSymbols'[f] = indexSymbols[f]
      /\ \A n : n \in DOMAIN indexSymbols'[g] <=> n \in DOMAIN indexSymbols[g] /\ n \notin names
      /\ \A n \in DOMAIN indexSymbols'[g] : indexSymbols'[g][n] = indexSymbols[g][n]
  <2>1. PICK held \in IndexNodes : held = indexSymbols[g]
    BY <1>3 DEF IndexInv, IndexTyped
  <2>2. PICK after : after = I!Without(held, names)
    OBVIOUS
  <2>3. /\ DOMAIN after = DOMAIN held \ names /\ after = [n \in DOMAIN after |-> after[n]]
        /\ \A n \in DOMAIN after : after[n] = held[n]
    BY <2>2 DEF I!Without
  <2>4. after \in IndexNodes
    BY <2>3, IndexNodesAreFunctions
  <2>5. indexSymbols' = [indexSymbols EXCEPT ![g] = after]
    BY <1>4, <2>1, <2>2
  <2> QED
    BY <1>3, <2>1, <2>3, <2>4, <2>5 DEF IndexInv, IndexTyped
<1>9. I!SummariesAreOfTheirCode'
  BY <1>8 DEF IndexInv, I!SummariesAreOfTheirCode
<1>10. \A f : IndexTarget(f)' = IndexTarget(f)
  BY <1>6, <1>7 DEF IndexTarget
<1>11. IndexTyped' /\ ScanUnderWay' /\ RowsAreCurrent' /\ IndexHereShape'
  BY <1>4, <1>6, <1>7, <1>8 DEF IndexInv, IndexTyped, ScanUnderWay, RowsAreCurrent,
     IndexHereShape
<1>12. IndexScanShape'
  <2>1. BuffersAreRight'
    BY <1>3, <1>6, <1>7, <1>10 DEF BuffersAreRight, NamesOf
  <2> QED
    BY <1>1, <1>3, <1>4, <1>6, <1>7, <1>10, <2>1 DEF IndexInv, IndexScanShape
<1>13. ASSUME NEW f \in Tree, f # g PROVE IndexKnows(f)'
  <2>1. Carried(f)
    BY <1>4, <1>6, <1>7, <1>8, <1>13, SameIsCarried
  <2> QED
    BY <1>1, <1>2, <1>3, <1>4, <1>6, <1>7, <1>11, <1>13, <2>1, TreeFacts, OthersAreKnown
<1>14. IndexKnows(g)'
  <2>1. /\ HasFile(g) /\ DOMAIN indexSymbols[g] \subseteq NamesOf(v) \union names
        /\ \A n \in NamesOf(v) : HasSymbol(g, n)
    BY <1>2, <1>3, <1>4 DEF HalfWalked
  <2>2. HasFile(g)' /\ DOMAIN indexSymbols'[g] \subseteq NamesOf(v)
    BY <1>4, <1>6, <1>7, <1>8, <1>10, <2>1 DEF HasFile
  <2>3. ASSUME NEW n \in NamesOf(v) PROVE HasSymbol(g, n)'
    <3>1. n \notin names /\ HasSymbol(g, n)
      BY <1>3, <2>1
    <3> QED
      BY <1>6, <1>7, <1>8, <1>10, <3>1 DEF HasSymbol
  <2>4. Walked(g)'
    BY <1>3, <1>10, <2>2, <2>3 DEF Walked, NamesOf
  <2> QED
    BY <1>6, <1>7, <1>11, <2>4 DEF IndexKnows
<1> QED
  BY <1>9, <1>11, <1>12, <1>13, <1>14 DEF IndexInv

LEMMA FlushAllKeeps ==
    ASSUME IndexInv, I!FlushAll("p1")
    PROVE  IndexInv'
<1>1. /\ UNCHANGED <<indexHead, clone, indexCompleted, indexDoubt>>
      /\ TheRun.stage = "walk" /\ TheRun.here = None /\ TheRun.todo = {}
      /\ indexFiles' = I!FilesWith(TheRun.fileRows)
      /\ indexSymbols' = I!SymbolsWith(TheRun.symbolRows)
      /\ indexRun' = [indexRun EXCEPT !["p1"].stage = "delete",
                        !["p1"].fileRows = I!Idle.fileRows, !["p1"].symbolRows = {}]
  BY DEF I!FlushAll, I!Walked, TheRun
<1>2. PICK new : new = [TheRun EXCEPT !.stage = "delete", !.fileRows = I!Idle.fileRows,
                                      !.symbolRows = {}]
  OBVIOUS
<1>3. /\ new \in IndexRunType /\ new.stage = "delete" /\ new.sha = TheRun.sha
      /\ new.todo = {} /\ new.gone = TheRun.gone /\ new.here = None
      /\ new.touched = TheRun.touched /\ new.clean = TheRun.clean
      /\ new.fileRows = I!Idle.fileRows /\ new.symbolRows = {}
  BY <1>1, <1>2, TheRunIsTyped, EmptyBuffers DEF IndexInv, IndexRunType
<1>4. TheRun' = new /\ indexRun' \in [{"p1"} -> IndexRunType]
  <2>1. indexRun' = [indexRun EXCEPT !["p1"] = new]
    BY <1>1, <1>2 DEF IndexInv, IndexTyped, TheRun
  <2> QED
    BY <1>3, <2>1, OneRun DEF IndexInv
<1>5. ScanUnderWay /\ ScanUnderWay' /\ \A f : IndexTarget(f)' = IndexTarget(f)
  BY <1>1, <1>3, <1>4 DEF ScanUnderWay, IndexTarget
<1>6. /\ BuffersAreRight /\ clone = TheRun.sha /\ TheRun.sha \in DOMAIN Branch
  BY <1>5 DEF IndexInv, IndexScanShape
<1>7. PICK those : those = TheRun.symbolRows
  OBVIOUS
<1>8. RowsAreRight(those)
  <2>1. TheRun.symbolRows \in SUBSET IndexRow
    BY TheRunIsTyped DEF IndexInv, IndexRunType
  <2> QED
    BY <1>6, <1>7, <2>1 DEF RowsAreRight, RowSets, BuffersAreRight
<1>9. /\ indexFiles' \in [Tree -> DOMAIN Texts \union {None}]
      /\ \A f \in Tree : /\ HasFile(f) => HasFile(f)'
                         /\ f \notin TheRun.touched => indexFiles'[f] = indexFiles[f]
  BY <1>1, <1>3, <1>4, <1>5, FilesMove
<1>10. /\ indexSymbols' \in [Tree -> IndexNodes] /\ I!SummariesAreOfTheirCode'
       /\ \A f \in Tree :
            /\ DOMAIN indexSymbols'[f] \subseteq
                 DOMAIN indexSymbols[f] \union NamesOf(IndexTarget(f))
            /\ \A m : HasSymbol(f, m) \/ Named(those, f, m) => HasSymbol(f, m)'
            /\ f \notin TheRun.touched => indexSymbols'[f] = indexSymbols[f]
  BY <1>1, <1>3, <1>4, <1>7, <1>8, SymbolsMove
<1>11. IndexTyped' /\ RowsAreCurrent' /\ IndexHereShape'
  BY <1>1, <1>3, <1>4, <1>9, <1>10 DEF IndexInv, IndexTyped, RowsAreCurrent, IndexHereShape
<1>12. IndexScanShape'
  <2>1. BuffersAreRight'
    BY <1>3, <1>4, EmptyBuffers DEF BuffersAreRight
  <2> QED
    BY <1>1, <1>3, <1>4, <1>5, <1>6, <2>1 DEF IndexInv, IndexScanShape
<1>13. ASSUME NEW f \in Tree PROVE IndexKnows(f)'
  <2>1. Carried(f)
    BY <1>9, <1>10 DEF Carried
  <2> QED
    BY <1>1, <1>3, <1>4, <1>5, <2>1, TreeFacts, OthersAreKnown
<1> QED
  BY <1>10, <1>11, <1>12, <1>13 DEF IndexInv

LEMMA IndexDeleteKeeps ==
    ASSUME IndexInv, I!DeleteFiles("p1")
    PROVE  IndexInv'
<1>1. /\ UNCHANGED <<indexHead, clone, indexCompleted>>
      /\ TheRun.stage = "delete"
  BY DEF I!DeleteFiles, TheRun
<1>2. PICK kept \in SUBSET TheRun.gone :
        /\ indexFiles' = [f \in Tree |-> IF f \in TheRun.gone \ kept THEN None ELSE indexFiles[f]]
        /\ indexSymbols' = [f \in Tree |->
             IF f \in TheRun.gone \ kept
             THEN I!Without(indexSymbols[f], DOMAIN indexSymbols[f]) ELSE indexSymbols[f]]
        /\ indexDoubt' = indexDoubt \union kept
        /\ indexRun' = [indexRun EXCEPT !["p1"].stage = "link",
                          !["p1"].touched = @ \union TheRun.gone,
                          !["p1"].clean = @ \union (TheRun.gone \ kept)]
  BY DEF I!DeleteFiles, TheRun
<1>3. /\ ScanUnderWay /\ clone = TheRun.sha /\ TheRun.sha \in DOMAIN Branch
      /\ TheRun.clean \subseteq TheRun.touched
      /\ TheRun.gone \intersect TheRun.touched = {} /\ TheRun.here = None /\ TheRun.todo = {}
      /\ \A f \in TheRun.gone : IndexTarget(f) = None
      /\ DOMAIN TheRun.fileRows = {} /\ TheRun.symbolRows = {}
  <2>1. ScanUnderWay
    BY <1>1 DEF ScanUnderWay
  <2> QED
    BY <1>1, <2>1 DEF IndexInv, IndexScanShape, BuffersAreRight
<1>4. PICK new : new = [TheRun EXCEPT !.stage = "link", !.touched = @ \union TheRun.gone,
                                      !.clean = @ \union (TheRun.gone \ kept)]
  OBVIOUS
<1>5. /\ new \in IndexRunType /\ new.stage = "link" /\ new.sha = TheRun.sha
      /\ new.todo = {} /\ new.gone = TheRun.gone /\ new.here = None
      /\ new.touched = TheRun.touched \union TheRun.gone
      /\ new.clean = TheRun.clean \union (TheRun.gone \ kept)
      /\ new.fileRows = TheRun.fileRows /\ new.symbolRows = {}
  BY <1>2, <1>3, <1>4, TheRunIsTyped DEF IndexInv, IndexRunType
<1>6. TheRun' = new /\ indexRun' \in [{"p1"} -> IndexRunType]
  <2>1. indexRun' = [indexRun EXCEPT !["p1"] = new]
    BY <1>2, <1>4 DEF IndexInv, IndexTyped, TheRun
  <2> QED
    BY <1>5, <2>1, OneRun DEF IndexInv
<1>7. ScanUnderWay' /\ \A f : IndexTarget(f)' = IndexTarget(f)
  BY <1>5, <1>6 DEF ScanUnderWay, IndexTarget
<1>8. /\ indexFiles' \in [Tree -> DOMAIN Texts \union {None}]
      /\ \A f \in Tree : f \notin TheRun.gone \ kept =>
           indexFiles'[f] = indexFiles[f] /\ indexSymbols'[f] = indexSymbols[f]
      /\ \A f \in TheRun.gone \ kept : f \in Tree =>
           indexFiles'[f] = None /\ DOMAIN indexSymbols'[f] = {}
  BY <1>2 DEF IndexInv, IndexTyped, I!Without
<1>9. indexSymbols' \in [Tree -> IndexNodes]
  <2>1. ASSUME NEW f \in Tree PROVE indexSymbols'[f] \in IndexNodes
    <3>1. I!Without(indexSymbols[f], DOMAIN indexSymbols[f]) \in IndexNodes
      <4>1. PICK after : after = I!Without(indexSymbols[f], DOMAIN indexSymbols[f])
        OBVIOUS
      <4>2. DOMAIN after = {} /\ after = [n \in DOMAIN after |-> after[n]]
        BY <4>1 DEF I!Without
      <4> QED
        BY <4>1, <4>2, IndexNodesAreFunctions
    <3> QED
      BY <1>2, <3>1 DEF IndexInv, IndexTyped
  <2>2. indexSymbols' = [f \in Tree |-> indexSymbols'[f]]
    BY <1>2
  <2> QED
    BY <2>1, <2>2
<1>10. IndexTyped' /\ RowsAreCurrent' /\ IndexHereShape' /\ I!SummariesAreOfTheirCode'
  BY <1>1, <1>5, <1>6, <1>8, <1>9 DEF IndexInv, IndexTyped, RowsAreCurrent, IndexHereShape,
     I!SummariesAreOfTheirCode
<1>11. IndexScanShape'
  BY <1>1, <1>3, <1>5, <1>6, <1>7 DEF IndexInv, IndexScanShape, BuffersAreRight
<1>12. ASSUME NEW f \in Tree, f \notin TheRun.gone PROVE IndexKnows(f)'
  <2>1. Carried(f)
    BY <1>3, <1>5, <1>6, <1>8, <1>12, SameIsCarried
  <2> QED
    BY <1>1, <1>2, <1>3, <1>5, <1>6, <1>7, <1>12, <2>1, TreeFacts, OthersAreKnown
<1>13. ASSUME NEW f \in Tree, f \in TheRun.gone PROVE IndexKnows(f)'
  <2>1. CASE f \in kept
    BY <1>2, <1>3, <1>5, <1>6, <1>7, <1>13, <2>1, TreeFacts DEF IndexKnows
  <2>2. CASE f \notin kept
    <3>1. Walked(f)'
      BY <1>3, <1>5, <1>6, <1>7, <1>8, <1>13, <2>2 DEF Walked, HasFile, NamesOf
    <3> QED
      BY <1>5, <1>6, <1>7, <1>13, <2>2, <3>1 DEF IndexKnows
  <2> QED
    BY <2>1, <2>2
<1> QED
  BY <1>10, <1>11, <1>12, <1>13 DEF IndexInv

LEMMA IndexCompleteKeeps ==
    ASSUME IndexInv, I!Complete("p1")
    PROVE  IndexInv'
<1>1. /\ UNCHANGED <<indexHead, clone, indexFiles, indexSymbols>>
      /\ TheRun.stage = "link" /\ indexCompleted' = TheRun.sha
      /\ indexDoubt' = (indexDoubt \ TheRun.clean)
                \union {f \in Tree \ I!Tracked(TheRun.sha) : indexFiles[f] # None}
      /\ indexRun' = [indexRun EXCEPT !["p1"] = [I!Idle EXCEPT !.stage = "fetch"]]
  BY DEF I!Complete, TheRun
<1>2. /\ ScanUnderWay /\ TheRun.sha \in DOMAIN Branch /\ TheRun.sha # 0
      /\ TheRun.gone \subseteq TheRun.touched /\ TheRun.here = None /\ TheRun.todo = {}
      /\ DOMAIN TheRun.fileRows = {} /\ TheRun.symbolRows = {}
  <2>1. ScanUnderWay
    BY <1>1 DEF ScanUnderWay
  <2> QED
    BY <1>1, <2>1, TreeFacts DEF IndexInv, IndexScanShape, BuffersAreRight
<1>3. PICK new : new = [I!Idle EXCEPT !.stage = "fetch"]
  OBVIOUS
<1>4. new \in IndexRunType /\ new.stage = "fetch"
  <2> HIDE DEF I!Idle
  <2> QED
    BY <1>3, EmptyBuffers DEF IndexRunType
<1>5. TheRun' = new /\ indexRun' \in [{"p1"} -> IndexRunType]
  BY <1>1, <1>3, <1>4, OneRun DEF IndexInv
<1>6. /\ ~ScanUnderWay' /\ IndexScanShape' /\ IndexHereShape' /\ RowsAreCurrent'
      /\ I!SummariesAreOfTheirCode' /\ IndexTyped'
  BY <1>1, <1>2, <1>4, <1>5 DEF ScanUnderWay, IndexScanShape, IndexHereShape, RowsAreCurrent,
     IndexInv, IndexTyped, I!SummariesAreOfTheirCode
<1>7. ASSUME NEW f \in Tree, f \notin indexDoubt' PROVE IndexAgrees(f, IndexTarget(f))
  <2>1. IndexKnows(f) /\ f # None
    BY TreeFacts DEF IndexInv
  <2>2. CASE f \in TheRun.clean
    BY <1>2, <2>1, <2>2 DEF IndexKnows, Walked, HasFile, HasSymbol, IndexAgrees
  <2>3. CASE f \notin TheRun.clean
    <3>1. f \notin indexDoubt
      BY <1>1, <1>7, <2>3
    <3>2. f \notin TheRun.touched
      BY <1>2, <2>1, <2>3, <3>1 DEF IndexKnows
    <3>3. IndexAgrees(f, IndexBase(f)) /\ IndexTarget(f) \in {IndexBase(f), None}
      BY <1>1, <1>2, <2>1, <2>3, <3>1, <3>2 DEF IndexKnows, Awaits
    <3>4. IndexTarget(f) = None => indexFiles[f] = None
      BY <1>1, <1>7 DEF IndexTarget, I!Tracked
    <3> QED
      BY <3>3, <3>4 DEF IndexAgrees
  <2> QED
    BY <2>2, <2>3
<1>8. ASSUME NEW f \in Tree PROVE IndexKnows(f)'
  <2>1. IndexBase(f)' = IndexTarget(f)
    BY <1>1, <1>2 DEF IndexBase, IndexTarget
  <2>2. f \in indexDoubt' \/ IndexAgrees(f, IndexBase(f))'
    BY <1>1, <1>7, <2>1 DEF IndexAgrees, NamesOf
  <2> QED
    BY <1>6, <2>2 DEF IndexKnows
<1> QED
  BY <1>6, <1>8 DEF IndexInv

(* A scan that ends early. *)
LEMMA IndexStopKeeps ==
    ASSUME IndexInv,
           UNCHANGED <<indexHead, indexSymbols, indexCompleted>>,
           indexRun' = [indexRun EXCEPT !["p1"] = I!Idle],
           clone' \in {0, clone},
           \/ indexFiles' = indexFiles
           \/ ScanUnderWay /\ indexFiles' = I!FilesWith(TheRun.fileRows),
           indexDoubt' = indexDoubt \union I!Dropped("p1")
    PROVE  IndexInv'
<1>1. TheRun' = I!Idle /\ indexRun' \in [{"p1"} -> IndexRunType]
  BY EmptyBuffers, OneRun DEF IndexInv
<1>2. TheRun'.stage = "idle" /\ ~ScanUnderWay'
  BY <1>1 DEF I!Idle, ScanUnderWay
<1>3. /\ indexFiles' \in [Tree -> DOMAIN Texts \union {None}]
      /\ \A f \in Tree : (ScanUnderWay /\ f \in TheRun.touched) \/ indexFiles'[f] = indexFiles[f]
  <2>1. CASE indexFiles' = indexFiles
    BY <2>1 DEF IndexInv, IndexTyped
  <2>2. CASE ScanUnderWay /\ indexFiles' = I!FilesWith(TheRun.fileRows)
    <3>1. /\ TheRun.fileRows \in FileBuffers
          /\ \A f \in DOMAIN TheRun.fileRows :
               f \in TheRun.touched /\ TheRun.fileRows[f] = IndexTarget(f)
      BY <2>2, TheRunIsTyped DEF IndexInv, IndexRunType, IndexScanShape, BuffersAreRight
    <3>2. /\ indexFiles' \in [Tree -> DOMAIN Texts \union {None}]
          /\ \A f \in Tree : IF f \in DOMAIN TheRun.fileRows
                             THEN indexFiles'[f] = IndexTarget(f)
                             ELSE indexFiles'[f] = indexFiles[f]
      BY <2>2, <3>1, FilesFlushed DEF IndexInv
    <3> QED
      BY <2>2, <3>1, <3>2
  <2> QED
    BY <2>1, <2>2
<1>4. IndexTyped' /\ I!SummariesAreOfTheirCode'
  BY <1>1, <1>3 DEF IndexInv, IndexTyped, I!SummariesAreOfTheirCode
<1>5. ScanUnderWay => TheRun.touched \union TheRun.gone \subseteq indexDoubt'
  BY IndexStages DEF I!Dropped, TheRun
<1>6. \A f \in Tree : IndexKnows(f)'
  BY <1>2, <1>3, <1>5, RestIsKnown
<1> QED
  BY <1>2, <1>4, <1>6 DEF IndexInv, IndexScanShape, IndexHereShape, RowsAreCurrent

LEMMA EndsAreStops ==
    ASSUME IndexInv, I!Fail("p1") \/ I!Pause("p1") \/ I!Crash \/ I!CleanUp("p1")
    PROVE  IndexInv'
<1>1. CASE I!Fail("p1") \/ I!Pause("p1")
  <2>1. /\ UNCHANGED <<indexHead, indexSymbols, indexCompleted>>
        /\ indexRun' = [indexRun EXCEPT !["p1"] = I!Idle] /\ clone' \in {0, clone}
        /\ indexDoubt' = indexDoubt \union I!Dropped("p1")
    BY <1>1 DEF I!Fail, I!Pause
  <2>2. \/ indexFiles' = indexFiles
        \/ TheRun.stage = "walk" /\ indexFiles' = I!FilesWith(TheRun.fileRows)
    BY <1>1 DEF I!Fail, I!Pause, I!Walked, TheRun
  <2>3. \/ indexFiles' = indexFiles
        \/ ScanUnderWay /\ indexFiles' = I!FilesWith(TheRun.fileRows)
    BY <2>2 DEF ScanUnderWay
  <2> QED
    BY <2>1, <2>3, IndexStopKeeps
<1>2. CASE I!Crash
  <2>1. UNION {I!Dropped(p) : p \in {"p1"}} = I!Dropped("p1")
    OBVIOUS
  <2>2. [p \in {"p1"} |-> I!Idle] = [indexRun EXCEPT !["p1"] = I!Idle]
    BY DEF IndexInv, IndexTyped
  <2>3. /\ UNCHANGED <<indexHead, clone, indexFiles, indexSymbols, indexCompleted>>
        /\ indexRun' = [indexRun EXCEPT !["p1"] = I!Idle]
        /\ indexDoubt' = indexDoubt \union I!Dropped("p1")
    BY <1>2, <2>1, <2>2 DEF I!Crash
  <2> QED
    BY <2>3, IndexStopKeeps
<1>3. CASE I!CleanUp("p1")
  <2>1. ~I!Scanning("p1")
    BY <1>3 DEF I!CleanUp, I!Scanning
  <2>2. I!Dropped("p1") = {}
    BY <2>1 DEF I!Dropped
  <2> QED
    BY <1>3, <2>2, IndexStopKeeps DEF I!CleanUp
<1> QED
  BY <1>1, <1>2, <1>3

(* Describing: no scan is under way, and the codes stay. *)
LEMMA FetchRowsKeeps ==
    ASSUME IndexInv, I!FetchRows("p1") \/ I!DescribeFails("p1")
    PROVE  IndexInv'
<1>1. PICK those :
        /\ UNCHANGED <<indexHead, clone, indexFiles, indexSymbols, indexCompleted, indexDoubt>>
        /\ TheRun.stage \in {"fetch", "enrich"}
        /\ indexRun' = [indexRun EXCEPT !["p1"].stage = "enrich", !["p1"].rows = those]
        /\ \/ those = UNION {{[file |-> f, name |-> n, code |-> indexSymbols[f][n].code] :
                n \in {m \in DOMAIN indexSymbols[f] : indexSymbols[f][m].source # "llm"}} :
                f \in Tree}
           \/ TheRun.stage = "enrich" /\ those \subseteq TheRun.rows
  <2>1. CASE I!FetchRows("p1")
    BY <2>1 DEF I!FetchRows, TheRun
  <2>2. CASE I!DescribeFails("p1")
    <3>1. PICK row : /\ indexRun' = [indexRun EXCEPT !["p1"].rows = @ \ {row}]
                     /\ TheRun.stage = "enrich"
      BY <2>2 DEF I!DescribeFails, TheRun
    <3>2. PICK those : those = TheRun.rows \ {row}
      OBVIOUS
    <3>3. indexRun["p1"] = [indexRun["p1"] EXCEPT !.stage = "enrich"]
      BY <3>1, TheRunIsTyped DEF IndexInv, IndexRunType, TheRun
    <3>4. indexRun' = [indexRun EXCEPT !["p1"].stage = "enrich", !["p1"].rows = those]
      BY <3>1, <3>2, <3>3 DEF TheRun, IndexInv, IndexTyped
    <3>5. UNCHANGED <<indexHead, clone, indexFiles, indexSymbols, indexCompleted, indexDoubt>>
      BY <2>2 DEF I!DescribeFails
    <3>6. TheRun.stage = "enrich" /\ those \subseteq TheRun.rows
      BY <3>1, <3>2
    <3> QED
      BY <3>4, <3>5, <3>6
  <2> QED
    BY <2>1, <2>2
<1>2. ASSUME NEW row \in those
      PROVE  /\ row \in IndexRow
             /\ row.name \in DOMAIN indexSymbols[row.file] =>
                  indexSymbols[row.file][row.name].code = row.code
  <2>1. CASE TheRun.stage = "enrich" /\ those \subseteq TheRun.rows
    BY <1>2, <2>1, TheRunIsTyped DEF IndexInv, RowsAreCurrent, IndexRunType
  <2>2. CASE those = UNION {{[file |-> f, name |-> n, code |-> indexSymbols[f][n].code] :
                n \in {m \in DOMAIN indexSymbols[f] : indexSymbols[f][m].source # "llm"}} :
                f \in Tree}
    <3>1. PICK f \in Tree : \E n \in DOMAIN indexSymbols[f] :
             row = [file |-> f, name |-> n, code |-> indexSymbols[f][n].code]
      BY <1>2, <2>2
    <3>2. PICK n \in DOMAIN indexSymbols[f] :
             row = [file |-> f, name |-> n, code |-> indexSymbols[f][n].code]
      BY <3>1
    <3>3. n \in TextNames /\ indexSymbols[f][n] \in IndexNode
      <4>1. indexSymbols[f] \in IndexNodes
        BY DEF IndexInv, IndexTyped
      <4> QED
        BY <4>1, IndexNodesAreFunctions
    <3> QED
      BY <3>2, <3>3 DEF IndexRow, IndexNode
  <2> QED
    BY <1>1, <2>1, <2>2
<1>3. PICK new : new = [TheRun EXCEPT !.stage = "enrich", !.rows = those]
  OBVIOUS
<1>4. new \in IndexRunType /\ new.stage = "enrich" /\ new.rows = those
  BY <1>2, <1>3, TheRunIsTyped DEF IndexInv, IndexRunType
<1>5. TheRun' = new /\ indexRun' \in [{"p1"} -> IndexRunType]
  <2>1. indexRun' = [indexRun EXCEPT !["p1"] = new]
    BY <1>1, <1>3 DEF IndexInv, IndexTyped, TheRun
  <2> QED
    BY <1>4, <2>1, OneRun DEF IndexInv
<1>6. ~ScanUnderWay /\ ~ScanUnderWay'
  BY <1>1, <1>4, <1>5 DEF ScanUnderWay
<1>7. IndexTyped' /\ I!SummariesAreOfTheirCode'
  BY <1>1, <1>5 DEF IndexInv, IndexTyped, I!SummariesAreOfTheirCode
<1>8. RowsAreCurrent'
  BY <1>1, <1>2, <1>4, <1>5 DEF RowsAreCurrent
<1>9. \A f \in Tree : IndexKnows(f)'
  BY <1>1, <1>6, RestIsKnown
<1> QED
  BY <1>6, <1>7, <1>8, <1>9 DEF IndexInv, IndexScanShape, IndexHereShape

LEMMA DescribeKeeps ==
    ASSUME IndexInv, I!Describe("p1")
    PROVE  IndexInv'
<1>1. PICK row \in TheRun.rows :
        /\ indexRun' = [indexRun EXCEPT !["p1"].rows = @ \ {row}]
        /\ indexSymbols' = IF row.name \in DOMAIN indexSymbols[row.file]
             THEN [indexSymbols EXCEPT ![row.file][row.name].summary = row.code,
                                       ![row.file][row.name].source = "llm"]
             ELSE indexSymbols
  BY DEF I!Describe, TheRun
<1>2. /\ UNCHANGED <<indexHead, clone, indexFiles, indexCompleted, indexDoubt>>
      /\ TheRun.stage = "enrich"
  BY DEF I!Describe, TheRun
<1>3. PICK g, n, c : g = row.file /\ n = row.name /\ c = row.code
  OBVIOUS
<1>4. /\ g \in Tree /\ n \in TextNames /\ c \in TextCodes
      /\ n \in DOMAIN indexSymbols[g] => indexSymbols[g][n].code = c
  <2>1. row \in IndexRow
    BY TheRunIsTyped DEF IndexInv, IndexRunType
  <2> QED
    BY <1>2, <1>3, <2>1 DEF IndexRow, IndexInv, RowsAreCurrent
<1>5. PICK new : new = [TheRun EXCEPT !.rows = @ \ {row}]
  OBVIOUS
<1>6. new \in IndexRunType /\ new.stage = "enrich" /\ new.rows = TheRun.rows \ {row}
  BY <1>2, <1>5, TheRunIsTyped DEF IndexInv, IndexRunType
<1>7. TheRun' = new /\ indexRun' \in [{"p1"} -> IndexRunType]
  <2>1. indexRun' = [indexRun EXCEPT !["p1"] = new]
    BY <1>1, <1>5 DEF IndexInv, IndexTyped, TheRun
  <2> QED
    BY <1>6, <2>1, OneRun DEF IndexInv
<1>8. /\ indexSymbols' \in [Tree -> IndexNodes]
      /\ \A f \in Tree :
           /\ DOMAIN indexSymbols'[f] = DOMAIN indexSymbols[f]
           /\ \A m \in DOMAIN indexSymbols[f] :
                /\ indexSymbols'[f][m].code = indexSymbols[f][m].code
                /\ indexSymbols'[f][m].summary = indexSymbols'[f][m].code
  <2>1. CASE n \notin DOMAIN indexSymbols[g]
    BY <1>1, <1>3, <2>1 DEF IndexInv, IndexTyped, I!SummariesAreOfTheirCode
  <2>2. CASE n \in DOMAIN indexSymbols[g]
    <3>1. PICK held \in IndexNodes : held = indexSymbols[g]
      BY <1>4 DEF IndexInv, IndexTyped
    <3>2. /\ held = [m \in DOMAIN held |-> held[m]] /\ DOMAIN held \subseteq TextNames
          /\ \A m \in DOMAIN held : held[m] \in IndexNode
      BY IndexNodesAreFunctions
    <3>3. PICK node : node = [held[n] EXCEPT !.summary = c, !.source = "llm"]
      OBVIOUS
    <3>4. node \in IndexNode /\ node.code = c /\ node.summary = c
      BY <1>4, <2>2, <3>1, <3>2, <3>3 DEF IndexNode
    <3>5. PICK after : after = [held EXCEPT ![n] = node]
      OBVIOUS
    <3>6. /\ DOMAIN after = DOMAIN held /\ after[n] = node
          /\ \A m \in DOMAIN held : m # n => after[m] = held[m]
          /\ after = [m \in DOMAIN after |-> after[m]]
      BY <2>2, <3>1, <3>2, <3>5
    <3>7. after \in IndexNodes
      BY <3>2, <3>4, <3>6, IndexNodesAreFunctions
    <3>8. indexSymbols' = [indexSymbols EXCEPT ![g] = after]
      <4>1. PICK half, first : /\ half = [held[n] EXCEPT !.summary = c]
                               /\ first = [held EXCEPT ![n] = half]
        OBVIOUS
      <4>2. PICK middle : middle = [indexSymbols EXCEPT ![g] = first]
        OBVIOUS
      <4>3. /\ indexSymbols \in [Tree -> IndexNodes]
            /\ indexSymbols' = [indexSymbols EXCEPT ![g][n].summary = c, ![g][n].source = "llm"]
        BY <1>1, <1>3, <2>2 DEF IndexInv, IndexTyped
      <4>4. middle = [indexSymbols EXCEPT ![g][n].summary = c]
        BY <3>1, <4>1, <4>2
      <4>5. indexSymbols' = [middle EXCEPT ![g][n].source = "llm"]
        BY <4>3, <4>4
      <4>6. middle[g] = first /\ first[n] = half /\ [half EXCEPT !.source = "llm"] = node
        BY <1>4, <2>2, <3>1, <3>2, <3>3, <4>1, <4>2, <4>3
      <4>7. [first EXCEPT ![n].source = "llm"] = after
        BY <2>2, <3>1, <3>2, <3>5, <4>1, <4>6
      <4>8. indexSymbols' = [middle EXCEPT ![g] = after]
        BY <4>5, <4>6, <4>7
      <4> QED
        BY <1>4, <4>2, <4>3, <4>8
    <3>9. \A f \in Tree : \A m \in DOMAIN indexSymbols[f] :
            indexSymbols[f][m].summary = indexSymbols[f][m].code
      BY DEF IndexInv, I!SummariesAreOfTheirCode
    <3> QED
      BY <1>4, <2>2, <3>1, <3>4, <3>6, <3>7, <3>8, <3>9 DEF IndexInv, IndexTyped
  <2> QED
    BY <2>1, <2>2
<1>9. ~ScanUnderWay /\ ~ScanUnderWay'
  BY <1>2, <1>6, <1>7 DEF ScanUnderWay
<1>10. IndexTyped' /\ I!SummariesAreOfTheirCode'
  BY <1>2, <1>7, <1>8 DEF IndexInv, IndexTyped, I!SummariesAreOfTheirCode
<1>11. RowsAreCurrent'
  <2>1. ASSUME NEW other \in TheRun.rows, other.name \in DOMAIN indexSymbols'[other.file]
        PROVE  indexSymbols'[other.file][other.name].code = other.code
    <3>1. other \in IndexRow
      BY TheRunIsTyped DEF IndexInv, IndexRunType
    <3>2. other.file \in Tree
      BY <3>1 DEF IndexRow
    <3> QED
      BY <1>2, <1>8, <2>1, <3>2 DEF IndexInv, RowsAreCurrent
  <2> QED
    BY <1>6, <1>7, <2>1 DEF RowsAreCurrent
<1>12. \A f \in Tree : IndexKnows(f)'
  BY <1>2, <1>8, <1>9, RestIsKnown
<1> QED
  BY <1>9, <1>10, <1>11, <1>12 DEF IndexInv, IndexScanShape, IndexHereShape

LEMMA IndexStep == IndexInv /\ [I!Next]_(I!vars) => IndexInv'
<1> SUFFICES ASSUME IndexInv, [I!Next]_(I!vars) PROVE IndexInv'
  OBVIOUS
<1>1. CASE UNCHANGED I!vars
  <2>1. /\ UNCHANGED <<indexHead, clone, indexFiles, indexSymbols, indexCompleted, indexRun,
                       indexDoubt>>
        /\ TheRun' = TheRun
    BY <1>1 DEF I!vars, TheRun
  <2>2. IndexTyped' /\ I!SummariesAreOfTheirCode'
    BY <2>1 DEF IndexInv, IndexTyped, I!SummariesAreOfTheirCode
  <2>3. ASSUME NEW f \in Tree PROVE IndexKnows(f)'
    BY <2>1 DEF IndexInv, IndexKnows, IndexAgrees, IndexBase, IndexTarget, Walked,
       HalfWalked, Awaits, HasFile, HasSymbol, ScanUnderWay
  <2> QED
    BY <2>1, <2>2, <2>3 DEF IndexInv, IndexScanShape, IndexHereShape, RowsAreCurrent,
       BuffersAreRight, ScanUnderWay, IndexTarget
<1>2. CASE I!Next
  <2>1. \/ I!Push \/ I!Crash \/ I!Pull("p1") \/ I!Begin("p1")
        \/ \E f \in Tree : \/ I!SkipFile("p1", f) \/ I!ReadFile("p1", f)
                           \/ I!FileErrors("p1", f)
        \/ \E n \in TheRun.rest : I!BufferSymbol("p1", n)
        \/ I!PruneSymbols("p1") \/ I!FlushAll("p1") \/ I!DeleteFiles("p1")
        \/ I!Complete("p1") \/ I!Fail("p1") \/ I!Pause("p1")
        \/ I!FetchRows("p1") \/ I!Describe("p1") \/ I!DescribeFails("p1") \/ I!CleanUp("p1")
    BY <1>2 DEF I!Next, I!Scan, TheRun
  <2> QED
    BY <2>1, IndexPushKeeps, EndsAreStops, PullKeeps, BeginKeeps, IndexSkipKeeps,
       ReadFileKeeps, BufferSymbolKeeps, IndexPruneKeeps, FlushAllKeeps, IndexDeleteKeeps,
       IndexCompleteKeeps, FetchRowsKeeps, DescribeKeeps
<1> QED
  BY <1>1, <1>2

LEMMA IndexIsRight == IndexInv => I!IndexIsCurrent /\ I!SummariesAreOfTheirCode
<1> SUFFICES ASSUME IndexInv PROVE I!IndexIsCurrent
  BY DEF IndexInv
<1> SUFFICES ASSUME ~I!Scanning("p1"), indexCompleted # 0, NEW f \in Tree \ indexDoubt
             PROVE  I!Matches(f, Branch[indexCompleted][f])
  BY DEF I!IndexIsCurrent
<1>1. PICK v : v = Branch[indexCompleted][f]
  OBVIOUS
<1>2. IndexAgrees(f, v)
  BY <1>1, IndexStages DEF IndexInv, IndexKnows, IndexBase
<1>3. PICK held \in IndexNodes : held = indexSymbols[f]
  BY DEF IndexInv, IndexTyped
<1>4. held = [n \in DOMAIN held |-> held[n]]
  BY IndexNodesAreFunctions
<1> QED
  BY <1>1, <1>2, <1>3, <1>4 DEF I!Matches, IndexAgrees, NamesOf

LEMMA IndexKeepsItsSpec == AllSpec => I!Spec
<1>1. AllInit => I!Init
  BY DEF AllInit
<1>2. [AllNext]_allVars => [I!Next]_(I!vars)
  BY DEF AllNext, allVars, Searching, Indexing, LegacyIndexing, Graphing, Parsing,
         Chatting, Beginning, Cataloguing, indexVars, I!vars, I!Next, I!Scan
<1> QED
  BY <1>1, <1>2, PTL DEF AllSpec, I!Spec

LEMMA IndexIsKnown == AllSpec => []IndexInv
BY IndexBegins, IndexStep, IndexKeepsItsSpec, PTL DEF I!Spec

(* Between scans the index is the commit completed last, but for the files *)
(* in doubt, whatever scans failed, paused or died before; and a summary   *)
(* is always of the code its symbol has.                                   *)
THEOREM IndexStaysTrue == AllSpec => []IndexIsTrue
<1>1. IndexInv => IndexIsTrue
  BY IndexIsRight DEF IndexIsTrue
<1> QED
  BY <1>1, IndexIsKnown, PTL
====
