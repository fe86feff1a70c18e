SPECIFICATION Spec
CONSTANTS
    Runners = {r1, r2}
    Cancellers = {c1}
    Workflows = {}
    NoWorkflow = NoWorkflow
    MaxAttempts = 2
    Faults = {"handler_fails"}
PROPERTY
    CancelledIsFinal
CHECK_DEADLOCK FALSE
