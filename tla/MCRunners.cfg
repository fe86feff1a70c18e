SPECIFICATION AllSpec
CONSTANTS
    Runners = {r1, r2, r3}
    Cancellers = {c1}
    Workflows = {}
    NoWorkflow = NoWorkflow
    MaxAttempts = 2
    Faults = {"handler_fails", "store_fails", "runner_lost"}
    Starters = {s1, s2}
    Resumers = {e1}
    Pausers = {p1}
    StartJob = StartJob
CHECK_DEADLOCK FALSE
INVARIANTS
    OneRunnerAtWork
    AttemptsAreCounted
PROPERTIES
    JobEnds
    ScanSettles
