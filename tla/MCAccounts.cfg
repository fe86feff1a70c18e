SPECIFICATION AllSpec
CONSTANTS
    Processes = {p1, p2}
    Keys = {k1, k2}
    None = None
    CacheTTL = 2
    CacheSize = 1
    Latency = 1
    MaxTime = 2
    Window = 3
    MaxRequests = 2
    MaxClock = 8
    Users = {"u1", "u2"}
    Owner = "u1"
    Annotations = {1, 2}
    Requests = {"r1", "r2"}
    Reactivates = TRUE
    MaxServed = 4
    MaxFaults = 1
    Accounts = {"a1"}
    Jobs = {"j1", "j2"}
    Grants = {"g1", "g2"}
    NoAccount = None
    Buyers = {"a1"}
    Calls = {"j1", "j2"}
    Buys = {"g1", "g2"}
    StarJobs = {"j1", "j2"}
    Stars <- Gazers
    WithMail = {"s1", "s3"}
    PerPage = 2
    BatchSize = 2
    Interval = 2
    Patience = 2
    Targets = {1}
    MaxRuns = 2
    MaxCredits = 2
    MaxVersion = 2
SYMMETRY Symmetry
CHECK_DEADLOCK FALSE
INVARIANTS
    WalletAddsUp
    EveryHoldSettledOnce
    HoldsAreCovered
    DeadKeysLapse
    LimitIsSharp
    
    
    NothingIsMadeUp
    
PROPERTY
    ImplementsCreditHold
