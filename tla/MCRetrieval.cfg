SPECIFICATION Spec
CONSTANTS
    Users = {u1, u2}
    Requests = {r1, r2}
    Topics = {"work", "workout"}
    Prefix <- SomePrefix
    NoUser = NoUser
    Asked <- SomeCalls
    MaxCalls = 2
    MaxChanges = 1
    MaxServed = 2
    MaxFaults = 1
CHECK_DEADLOCK FALSE
INVARIANTS
    ProfilesAreOwn
