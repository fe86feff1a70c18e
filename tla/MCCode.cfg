SPECIFICATION AllSpec
CONSTANTS
    None = None
    s1 = s1
    s2 = s2
    s3 = s3
    s4 = s4
    Members = {"u1", "u2"}
    Repos = {"r1"}
    CatalogScans = 3
    CatalogRequests = 2
    Tree = {"f", "g"}
    Texts <- Contents
    Branch <- History
    IndexScans = 3
    IndexFaults = 2
    LegacyFaults = 1
    ChatTools = {"search", "symbol"}
    ChatTurns = 2
    ChatRounds = 2
    ChatCalls = 2
    Handlers = {"h1", "h2"}
    Commits = {"c1", "c2"}
    NoCommit = None
    MaxMoves = 1
    MaxFaults = 2
    MaxRequests = 2
    MaxAttempts = 2
CHECK_DEADLOCK FALSE
INVARIANTS
    
    StoresAgree
    
    
    FusionRespectsLanes
    ChatsAreWhole
    ScansAreStarted
    PrivateIsForMembers
PROPERTY
    CleanupSparesScans
