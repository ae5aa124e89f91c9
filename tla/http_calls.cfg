\* Two calls on one client while the service comes and goes.
CONSTANTS
    c1 = c1
    c2 = c2
    Callers = {c1, c2}
    MaxRetries = 1
    ErrorThreshold = 50
    Conditions = {"up", "rejecting", "down"}
    MaxFires = 4

SPECIFICATION FairSpec
INVARIANTS TypeOK TrialUnderWay
PROPERTIES CallsEnd Recovers MakesCalls
