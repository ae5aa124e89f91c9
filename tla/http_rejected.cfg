\* A service that answers every request is cut off by its own 4xx answers.
CONSTANTS
    c1 = c1
    c2 = c2
    Callers = {c1, c2}
    MaxRetries = 1
    ErrorThreshold = 50
    Conditions = {"up", "rejecting"}
    MaxFires = 4

SPECIFICATION Spec
INVARIANTS AnsweringServiceIsReached
