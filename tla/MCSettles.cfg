SPECIFICATION AllSpec
CONSTANTS
    Submitters = {s1}
    Retriers = {r1}
    Cancellers = {c1}
    Workflows = {w1, w2}
    NoWorkflow = NoWorkflow
    MaxAttempts = 1
    ActivityTries = 1
    Faults = {"no_credits", "work_fails"}
    Users = {u1, u2}
    Kinds = {"subscription", "topup"}
    Servers = {h1, h2}
    NoPayment = NoPayment
    MaxCharges = 1
    MaxCheckouts = 1
    MaxTime = 1
    MaxFaults = 1
CHECK_DEADLOCK FALSE
INVARIANTS
    WorkIsFunded
    PaymentsAreSettled
PROPERTIES
    JobsSettle
    PaidIsCredited
