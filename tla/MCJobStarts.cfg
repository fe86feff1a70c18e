SPECIFICATION Spec
CONSTANTS
    Submitters = {s1, s2}
    Retriers = {}
    Cancellers = {c1}
    Workflows = {w1, w2}
    NoWorkflow = NoWorkflow
    MaxAttempts = 2
    ActivityTries = 2
    Faults = {"no_credits", "store_fails", "start_fails", "reply_lost", "signal_fails", "work_fails", "activity_lost", "activity_timeout", "api_crash"}
SYMMETRY Symmetry
CHECK_DEADLOCK FALSE
INVARIANTS
    OneWorkflow
