\* A release whose answer is lost is retried and gives back twice.
CONSTANTS
    r1 = r1
    r2 = r2
    r3 = r3
    r4 = r4
    p1 = p1
    key = key
    NoKey = NoKey
    EmptyKey = EmptyKey
    Requests = {r1, r2, r3, r4}
    Products = {p1}
    ProductOf <- MCProductOf
    KeyOf <- MCKeyOf
    Initial <- MCInitial
    MaxRetries = 1
    MaxAttempts = 3
    Faults = {"release"}
    MaxCrashes = 0

SPECIFICATION Spec
INVARIANTS NoOversell
