\* Two orders, faults and a crash of the order service, an orderly worker: where orders end.
CONSTANTS
    r1 = r1
    r2 = r2
    p1 = p1
    NoKey = NoKey
    EmptyKey = EmptyKey
    Nobody = Nobody
    Requests = {r1, r2}
    Products = {p1}
    ProductOf <- MCProductOf
    KeyOf <- MCKeyOf
    Initial <- MCInitial
    MaxRetries = 0
    MaxAttempts = 2
    Faults = {"reserve", "release", "pay", "insert", "database"}
    MaxCrashes = 1
    WorkerFaults = {"pay", "fail"}
    MaxWorkerCrashes = 0

SPECIFICATION FairFlowSpec
INVARIANTS OrdersStayRecoverable
PROPERTIES OrdersSettle FollowsLifecycle
