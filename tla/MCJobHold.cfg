SPECIFICATION SteadySpec
CONSTANTS
    Submitters = {s1}
    Retriers = {r1}
    Cancellers = {c1}
    Workflows = {w1, w2}
    NoWorkflow = NoWorkflow
    MaxAttempts = 1
    ActivityTries = 1
    Faults = {"no_credits", "start_fails", "reply_lost", "work_fails", "activity_timeout"}
SYMMETRY Symmetry
CHECK_DEADLOCK FALSE
INVARIANTS
    NoForgottenHold
    SucceededIsPaid
PROPERTIES
    TerminalUntilReset
