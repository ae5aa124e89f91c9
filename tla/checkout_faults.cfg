\* A client's try and retry, every fault and a crash: what holds whatever happens.
CONSTANTS
    r1 = r1
    r2 = r2
    r3 = r3
    r4 = r4
    p1 = p1
    key = key
    NoKey = NoKey
    EmptyKey = EmptyKey
    Requests = {r1, r2}
    Products = {p1}
    ProductOf <- MCProductOf
    KeyOf <- MCKeyOf
    Initial <- MCInitial
    MaxRetries = 1
    MaxAttempts = 3
    Faults = {"reserve", "release", "pay", "insert", "database", "broker"}
    MaxCrashes = 1

SPECIFICATION FairSpec
INVARIANTS TypeOK SameKeySameOrder PaidHasOrder AttemptsBoundCharges IInv
PROPERTIES EveryRequestAnswered
