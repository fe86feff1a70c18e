SPECIFICATION Spec
CONSTANTS
    Starters = {s1}
    Resumers = {}
    Pausers = {p1}
    Cancellers = {}
    StartJob = StartJob
    Workflows = {}
    NoWorkflow = NoWorkflow
    MaxAttempts = 2
    Faults = {}
SYMMETRY Symmetry
INVARIANTS
    SeenPauseStops
CHECK_DEADLOCK FALSE
