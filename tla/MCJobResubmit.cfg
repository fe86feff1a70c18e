SPECIFICATION Spec
CONSTANTS
    Submitters = {s1, s2}
    Retriers = {}
    Cancellers = {}
    Workflows = {w1}
    NoWorkflow = NoWorkflow
    MaxAttempts = 2
    ActivityTries = 2
    Faults = {"work_fails"}
SYMMETRY Symmetry
INVARIANTS
    NoForgottenHold
CHECK_DEADLOCK FALSE
