\* The rejected event of a failed order goes nowhere.
CONSTANTS
    o1 = o1
    o2 = o2
    Nobody = Nobody
    Orders = {o1}
    MaxRetries = 0
    MaxAttempts = 3
    Faults = {}
    MaxCrashes = 0

SPECIFICATION Spec
INVARIANTS FailedIsDeadLettered
