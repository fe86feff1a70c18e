SPECIFICATION Spec
CONSTANTS
    Starters = {s1}
    Resumers = {r1}
    Pausers = {p1, p2}
    Cancellers = {c1}
    StartJob = StartJob
    Workflows = {}
    NoWorkflow = NoWorkflow
    MaxAttempts = 2
    Faults = {"timeout", "server_crash", "phase_fails"}
SYMMETRY Symmetry
CHECK_DEADLOCK FALSE
INVARIANTS
    
    PausesHold
    IndexIsThere
