SPECIFICATION AllSpec
CONSTANTS
    None = None
    Users = {"u1", "u2"}
    Topics = {"t1", "t2"}
    Memos = {"m1", "m2"}
    Ingests = {"i1", "i2"}
    Verdicts <- AllVerdicts
    Scenarios <- AllScenarios
    Attempts = 2
    MaxFaults = 1
    Providers = {"pinecone", "sqlite", "chroma", "pgvector"}
    Ids = {"x", "y"}
    Texts = {"old", "new"}
    Threads = {"p", "q"}
    Cosine <- Loose
    Threshold = 70
    Requests = {"r1", "r2"}
    Keys = {"work", "workout"}
    Prefix <- WordPrefix
    Asked <- SomeCalls
    MaxCalls = 1
    MaxServed = 2
    MaxIngests = 1
    MaxChanges = 4
CHECK_DEADLOCK FALSE
INVARIANTS
    MemoryIsTrue
    
    StoresAreTrue
    
    
    PairsAreTurns
