\* One order, every call may be left in doubt, the worker crashes or loses its connection once: bounds and recovery.
CONSTANTS
    o1 = o1
    o2 = o2
    Nobody = Nobody
    Orders = {o1}
    MaxRetries = 1
    MaxAttempts = 3
    Faults = {"pay", "confirm", "fail"}
    MaxCrashes = 1

SPECIFICATION FairSpec
INVARIANTS TypeOK ConfirmedIsPaid NoOrderForgotten EventsBounded ChargesBounded
PROPERTIES QueuesDrain
