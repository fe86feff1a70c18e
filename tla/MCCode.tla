---------------------------- MODULE MCCode ----------------------------
(***************************************************************************)
(* The code memory on small instances, side by side: the file's parser,    *)
(* the incremental index and the one before it, the call graph, the search *)
(* and the chat that read them, the start of a scan and the catalog of     *)
(* what was scanned.  Each is checked by itself: in a behaviour one part   *)
(* moves and the others rest in their initial states.                      *)
(***************************************************************************)
EXTENDS ScanStart, TLC

CONSTANTS
    None, s1, s2, s3, s4,
    Members, Repos,            \* of the catalog, and its bounds
    CatalogScans, CatalogRequests,
    Tree, Texts, Branch,       \* of the indexes: paths, contents and commits,
    IndexScans, IndexFaults, LegacyFaults,            \* and bounds
    ChatTools, ChatTurns, ChatRounds, ChatCalls

VARIABLES
    part, indexHead, clone, indexFiles, indexSymbols, indexCompleted,
    indexRun, indexDoubt, indexScanned, indexFaults, legacyHead, legacyFiles,
    legacySymbols, vectors, graph, legacyCompleted, legacyRun, legacyDoubt,
    described, legacyScanned, legacyFaults, code, scan, last, stored, nodes,
    graphCalls, imports, dirs, pushes, graphScans, graphFaults, read,
    language, file, parserIndex, edits, chat, chatPc, turn, messages, chatCalls,
    sources, out, answer, mined, got, meaning, body, words, found,
    dashboards, runs, share, stars, catalogScans, clones, cleaner, started,
    asked

(* Two files' contents over time: both files, one file changed and the     *)
(* other deleted, the first content again, nothing left.                   *)
Contents == [both |-> [a |-> 1, b |-> 1], other |-> [a |-> 2], half |-> [b |-> 1]]
History == <<[f |-> "both", g |-> "half"], [f |-> "other", g |-> None],
             [f |-> "both", g |-> None], [f |-> None, g |-> None]>>

(* Three files of one package that call and import each other; "x" and "z" *)
(* are names two files may share, "K.y" is a method.                       *)
Paths == ("f1" :> <<"lib", "a">>) @@ ("f2" :> <<"lib", "b", "__init__">>)
           @@ ("f3" :> <<"lib", "c">>)
Version(s, c, i) == [symbols |-> s, calls |-> c, imports |-> i]
Whole == Version(<<<<"x">>, <<"K", "y">>>>, {<<"x", "y">>, <<"y", "z">>}, {<<"lib", "b">>})
Package == Version(<<<<"z">>>>, {<<"z", "x">>}, {<<"lib", "a">>})
Versions ==
    ("f1" :> {Whole, Version(<<<<"K", "y">>>>, {<<"y", "x">>}, {})})
      @@ ("f2" :> {Package})
      @@ ("f3" :> {Version(<<<<"x">>>>, {<<"x", "z">>}, {<<"lib", "b">>})})
AtFirst == ("f1" :> Whole) @@ ("f2" :> Package) @@ ("f3" :> None)

(* Two of the symbols have one name. *)
NameOf == (s1 :> "a") @@ (s2 :> "b") @@ (s3 :> "b") @@ (s4 :> "c")
CallsOf == {<<s1, s2>>, <<s2, s1>>, <<s3, s1>>}

I == INSTANCE CodeIndex WITH
        head <- indexHead, files <- indexFiles, symbols <- indexSymbols,
        completed <- indexCompleted, run <- indexRun, doubt <- indexDoubt,
        scanned <- indexScanned, faults <- indexFaults, Scans <- {"p1"},
        Files <- Tree, Symbols <- Texts, Repo <- Branch, FileBatch <- 2,
        SymbolBatch <- 2, MaxScans <- IndexScans, MaxFaults <- IndexFaults
L == INSTANCE LegacyIndex WITH
        head <- legacyHead, files <- legacyFiles, symbols <- legacySymbols,
        completed <- legacyCompleted, run <- legacyRun, doubt <- legacyDoubt,
        scanned <- legacyScanned, faults <- legacyFaults,
        Files <- Tree, Symbols <- Texts, Repo <- Branch,
        MaxScans <- IndexScans, MaxFaults <- LegacyFaults
G == INSTANCE CodeGraph WITH
        calls <- graphCalls, scans <- graphScans, faults <- graphFaults,
        Files <- {"f1", "f2", "f3"}, Order <- <<"f1", "f2", "f3">>,
        Path <- Paths, Gone <- None, Package <- "__init__", First <- AtFirst,
        Depth <- 2, MaxPushes <- 2, MaxScans <- 3, MaxFaults <- 1
A == INSTANCE AstParser WITH
        index <- parserIndex, Languages <- {"python", "typescript", "go"},
        Names <- {"a", "b"}, Notes <- {}, NoName <- None, NoNote <- None,
        MaxNodes <- 3, MaxEdits <- 1
C == INSTANCE CodeChat WITH
        pc <- chatPc, calls <- chatCalls, Kinds <- {"run", "stream", "team"},
        Tools <- ChatTools, MaxTurns <- ChatTurns, MaxRounds <- ChatRounds,
        MaxCalls <- ChatCalls
R == INSTANCE CodeSearch WITH
        Indexed <- {s1, s2, s3, s4}, Own <- {s1, s2, s3}, Name <- NameOf,
        Called <- CallsOf, TopK <- 2, Wider <- 2, Nearest <- 3,
        Smoothing <- 60, Scale <- 15249024, Seeds <- 1, Neighbours <- 1
K == INSTANCE ScanCatalog WITH
        scans <- catalogScans, Users <- Members, MaxScans <- CatalogScans,
        MaxRequests <- CatalogRequests

ASSUME SearchAssumption == R!CodeSearchConstants
ASSUME IndexAssumption == I!CodeIndexConstants /\ L!LegacyIndexConstants
ASSUME ChatAssumption == {ChatTurns, ChatRounds, ChatCalls} \subseteq Nat \ {0}
ASSUME CatalogAssumption == {CatalogScans, CatalogRequests} \subseteq Nat

searchVars == <<meaning, body, words, found>>
indexVars == <<indexHead, clone, indexFiles, indexSymbols, indexCompleted, indexRun,
    indexDoubt, indexScanned, indexFaults>>
legacyVars == <<legacyHead, legacyFiles, legacySymbols, vectors, graph, legacyCompleted,
    legacyRun, legacyDoubt, described, legacyScanned, legacyFaults>>
graphVars == <<code, scan, last, stored, nodes, graphCalls, imports, dirs, pushes,
    graphScans, graphFaults, read>>
parserVars == <<language, file, parserIndex, edits>>
chatVars == <<chat, chatPc, turn, messages, chatCalls, sources, out, answer, mined, got>>
catalogVars == <<dashboards, runs, share, stars, catalogScans, clones, cleaner, started,
    asked>>
allVars ==
    <<part, vars, searchVars, indexVars, legacyVars, graphVars, parserVars, chatVars,
      catalogVars>>

(* Each part begins in its initial states; a part that rests, in one of them. *)
AllInit ==
    /\ part \in {"search", "index", "legacy", "graph", "parser", "chat",
                  "start", "catalog"}
    /\ IF part # "search" THEN /\ meaning = <<s1, s2, s3, s4>> /\ body = meaning /\ words = <<>> ELSE TRUE
    /\ IF part # "parser" THEN language = "python" ELSE TRUE
    /\ IF part # "chat" THEN chat = [kind |-> "run", long |-> FALSE, explains |-> FALSE, names |-> "nothing", crowded |-> FALSE] ELSE TRUE
    /\ IF part # "start" THEN tip = CHOOSE c \in Commits : TRUE ELSE TRUE
    /\ IF part # "catalog" THEN clones = {} ELSE TRUE
    /\ Init /\ R!Init /\ I!Init /\ L!Init /\ G!Init /\ A!Init /\ C!Init /\ K!Init

Searching(Move) ==
    /\ part = "search" /\ Move
    /\ UNCHANGED <<part, vars, indexVars, legacyVars, graphVars, parserVars, chatVars,
          catalogVars>>
Indexing(Move) ==
    /\ part = "index" /\ Move
    /\ UNCHANGED <<part, vars, searchVars, legacyVars, graphVars, parserVars, chatVars,
          catalogVars>>
LegacyIndexing(Move) ==
    /\ part = "legacy" /\ Move
    /\ UNCHANGED <<part, vars, searchVars, indexVars, graphVars, parserVars, chatVars,
          catalogVars>>
Graphing(Move) ==
    /\ part = "graph" /\ Move
    /\ UNCHANGED <<part, vars, searchVars, indexVars, legacyVars, parserVars, chatVars,
          catalogVars>>
Parsing(Move) ==
    /\ part = "parser" /\ Move
    /\ UNCHANGED <<part, vars, searchVars, indexVars, legacyVars, graphVars, chatVars,
          catalogVars>>
Chatting(Move) ==
    /\ part = "chat" /\ Move
    /\ UNCHANGED <<part, vars, searchVars, indexVars, legacyVars, graphVars, parserVars,
          catalogVars>>
Beginning(Move) ==
    /\ part = "start" /\ Move
    /\ UNCHANGED <<part, searchVars, indexVars, legacyVars, graphVars, parserVars,
          chatVars, catalogVars>>
Cataloguing(Move) ==
    /\ part = "catalog" /\ Move
    /\ UNCHANGED <<part, vars, searchVars, indexVars, legacyVars, graphVars, parserVars,
          chatVars>>

AllNext ==
    \/ Searching(R!Search)
    \/ Indexing(I!Push)
    \/ Indexing(I!Crash)
    \/ Indexing(\E p \in {"p1"} : I!Pull(p))
    \/ Indexing(\E p \in {"p1"} : I!Begin(p))
    \/ Indexing(\E p \in {"p1"}, f \in Tree : I!SkipFile(p, f))
    \/ Indexing(\E p \in {"p1"}, f \in Tree : I!ReadFile(p, f))
    \/ Indexing(\E p \in {"p1"}, f \in Tree : I!FileErrors(p, f))
    \/ Indexing(\E p \in {"p1"} : \E n \in indexRun[p].rest : I!BufferSymbol(p, n))
    \/ Indexing(\E p \in {"p1"} : I!PruneSymbols(p))
    \/ Indexing(\E p \in {"p1"} : I!FlushAll(p))
    \/ Indexing(\E p \in {"p1"} : I!DeleteFiles(p))
    \/ Indexing(\E p \in {"p1"} : I!Complete(p))
    \/ Indexing(\E p \in {"p1"} : I!Fail(p))
    \/ Indexing(\E p \in {"p1"} : I!Pause(p))
    \/ Indexing(\E p \in {"p1"} : I!FetchRows(p))
    \/ Indexing(\E p \in {"p1"} : I!Describe(p))
    \/ Indexing(\E p \in {"p1"} : I!DescribeFails(p))
    \/ Indexing(\E p \in {"p1"} : I!CleanUp(p))
    \/ LegacyIndexing(L!Push)
    \/ LegacyIndexing(L!Start)
    \/ LegacyIndexing(\E f \in Tree : L!SkipFile(f))
    \/ LegacyIndexing(\E f \in Tree : L!StoreFile(f))
    \/ LegacyIndexing(\E n \in legacyRun.rest : L!StoreSymbol(n))
    \/ LegacyIndexing(L!AddVector)
    \/ LegacyIndexing(L!MergeNode)
    \/ LegacyIndexing(L!PruneSymbols)
    \/ LegacyIndexing(\E f \in Tree : L!FileErrors(f))
    \/ LegacyIndexing(L!DeleteFiles)
    \/ LegacyIndexing(L!Complete)
    \/ LegacyIndexing(L!Stop)
    \/ LegacyIndexing(L!Take)
    \/ LegacyIndexing(L!AskFails)
    \/ LegacyIndexing(L!DescribeDocument)
    \/ LegacyIndexing(L!DescribeVector)
    \/ Graphing(\E f \in DOMAIN Paths : \E v \in Versions[f] \cup {None} : G!Push(f, v))
    \/ Graphing(\E full \in BOOLEAN : G!Begin(full))
    \/ Graphing(\E failing \in SUBSET DOMAIN Paths : G!Process(failing))
    \/ Graphing(G!Delete)
    \/ Graphing(G!BuildDirectories)
    \/ Graphing(G!BuildCalls)
    \/ Graphing(G!BuildImports)
    \/ Graphing(G!Complete)
    \/ Graphing(G!Fail)
    \/ Graphing(\E d \in {G!Directory(f) : f \in DOMAIN Paths} : G!Enrich(d))
    \/ Parsing(\E n \in A!Nodes : A!Write(n))
    \/ Parsing(\E i \in 1..3, n \in A!Nodes : A!Rewrite(i, n))
    \/ Parsing(A!Scan)
    \/ Chatting(C!LoadContext)
    \/ Chatting(C!Receive)
    \/ Chatting(C!Speak)
    \/ Chatting(C!ModelFails)
    \/ Chatting(C!AnswerNow)
    \/ Chatting(\E tools \in UNION {[1..n -> ChatTools] : n \in 1..ChatCalls} : C!CallTools(tools))
    \/ Chatting(\E k \in 1..ChatCalls : C!Return(k))
    \/ Chatting(\E k \in 1..ChatCalls : C!Raise(k))
    \/ Chatting(C!Gather)
    \/ Chatting(C!Conclude)
    \/ Chatting(\E annotates, created \in BOOLEAN : C!Settle(annotates, created))
    \/ Chatting(C!Disconnect)
    \/ Beginning(\E c \in Commits : Push(c))
    \/ Beginning(\E pending \in BOOLEAN : LegacyScan(pending))
    \/ Beginning(\E h \in Handlers : Look(h))
    \/ Beginning(\E h \in Handlers : Inspect(h))
    \/ Beginning(\E h \in Handlers, pat \in BOOLEAN : Enqueue(h, pat))
    \/ Beginning(\E h \in Handlers : StoreCredential(h))
    \/ Beginning(\E h \in Handlers : Reserve(h))
    \/ Beginning(\E h \in Handlers : ShowJob(h))
    \/ Beginning(\E h \in Handlers : Launch(h))
    \/ Beginning(\E h \in Handlers : LaunchFails(h))
    \/ Beginning(\E h \in Handlers : ShowFailure(h))
    \/ Beginning(\E h \in Handlers, k \in Keys : CancelWorkflow(h, k))
    \/ Beginning(\E h \in Handlers : MarkCancelled(h))
    \/ Beginning(\E h \in Handlers : ShowCancelled(h))
    \/ Beginning(\E k \in Keys : MarkRunning(k))
    \/ Beginning(\E k \in Keys : Progress(k))
    \/ Beginning(\E k \in Keys : Phase1(k))
    \/ Beginning(\E k \in Keys : Phase2(k))
    \/ Beginning(\E k \in Keys : PhaseFails(k))
    \/ Beginning(\E k \in Keys : CredentialLost(k))
    \/ Beginning(\E k \in Keys : Retry(k))
    \/ Beginning(\E k \in Keys : GiveUp(k))
    \/ Beginning(\E k \in Keys : Succeed(k))
    \/ Beginning(\E k \in Keys : Stop(k))
    \/ Cataloguing(\E u \in Members, r \in Repos : K!StartScan(u, r))
    \/ Cataloguing(\E u \in Members, r \in Repos : K!Connect(u, r))
    \/ Cataloguing(\E u \in Members, r \in Repos : K!Clone(u, r))
    \/ Cataloguing(\E u \in Members, r \in Repos, result \in K!Phase : K!EndPhase(u, r, result))
    \/ Cataloguing(\E u \in Members, r \in Repos, word \in {"public", "private"} : K!SetVisibility(u, r, word))
    \/ Cataloguing(\E u \in Members, r \in Repos, on \in BOOLEAN : K!Star(u, r, on))
    \/ Cataloguing(\E r \in Repos : K!Nightly(r))
    \/ Cataloguing(\E r \in Repos : K!RemoveClone(r))
    \/ Cataloguing(K!CleanUp)
    \/ Cataloguing(K!CleanedUp)

AllSpec == AllInit /\ [][AllNext]_allVars

-----------------------------------------------------------------------------
(* CodeIndex: between scans the index is the commit completed last, but    *)
(* for the files in doubt, and a symbol's summary is of the code it has.   *)
IndexIsTrue == part = "index" => I!IndexIsCurrent /\ I!SummariesAreOfTheirCode

(* LegacyIndex: documents, vectors and graph say the same of every file    *)
(* that no error and no interrupted scan left in doubt.                    *)
StoresAgree == part = "legacy" => L!StoresAgree

(* CodeGraph: the first scan builds the graph of the code, every edge is a *)
(* call some scan has read, and an impact analysis finds who reaches the   *)
(* symbol in that many calls.                                              *)
GraphIsTrue == part = "graph" => G!FirstScanIsWhole /\ G!EdgesWereCalls /\ G!ImpactIsReach

(* AstParser: the stored code of each name is its code now, and no call is *)
(* lost.                                                                   *)
ParsesAreWhole == part = "parser" => A!TypeOK /\ A!CodeIsCurrent /\ A!NoCallIsLost

(* CodeChat: every tool call is answered before the model is asked again,  *)
(* and a stream ends once, with the sources of its last turn.              *)
ChatsAreWhole == part = "chat" => C!EveryCallIsAnswered /\ C!StreamsEndWell

(* CodeSearch: a symbol that every lane ranks higher comes before.         *)
FusionRespectsLanes == part = "search" => R!FusionRespectsLanes

(* ScanStart: a commit's job is started once, and a queued one is in       *)
(* somebody's hands.                                                       *)
ScansAreStarted == TypeOK /\ OneScanPerJob /\ QueuedIsOwned

(* ScanCatalog: a private index is for those who scanned it. *)
PrivateIsForMembers == K!TypeOK /\ K!PrivateIsForMembers

(* ScanCatalog: the clean-up never takes a clone from under a scan. *)
CleanupSparesScans == K!CleanupSparesScans
=============================================================================
