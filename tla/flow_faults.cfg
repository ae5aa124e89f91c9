\* One order, every fault, a crash of each process or a lost connection of the worker: what holds whatever happens.
CONSTANTS
    r1 = r1
    r2 = r2
    p1 = p1
    NoKey = NoKey
    EmptyKey = EmptyKey
    Nobody = Nobody
    Requests = {r1}
    Products = {p1}
    ProductOf <- MCProductOf
    KeyOf <- MCKeyOf
    Initial <- MCInitial
    MaxRetries = 1
    MaxAttempts = 2
    Faults = {"reserve", "release", "pay", "insert", "database", "broker"}
    MaxCrashes = 1
    WorkerFaults = {"pay", "confirm", "fail", "broker"}
    MaxWorkerCrashes = 1

SPECIFICATION FlowSpec
INVARIANTS FlowTypeOK OneWriterAtATime ConfirmedIsPaid WorkHasOrder FlowChargesBounded
