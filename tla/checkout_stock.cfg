\* Four clients want the last unit; stock calls and inserts are not left in doubt.
CONSTANTS
    r1 = r1
    r2 = r2
    r3 = r3
    r4 = r4
    p1 = p1
    key = key
    NoKey = NoKey
    EmptyKey = EmptyKey
    Requests = {r1, r2, r3, r4}
    Products = {p1}
    ProductOf <- MCProductOf
    KeyOf <- MCKeyOf
    Initial <- MCInitial
    MaxRetries = 0
    MaxAttempts = 3
    Faults = {"pay", "database", "broker"}
    MaxCrashes = 1

SPECIFICATION Spec
INVARIANTS OrderBacked NoOversell RejectedHoldsNothing
PROPERTIES PlacesOrders
