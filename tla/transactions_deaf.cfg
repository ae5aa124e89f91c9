\* A payment, a lost connection and no crash: what a ready worker leaves in its queue.
CONSTANTS
    p1 = p1
    None = None
    Payments = {p1}
    MaxCrashes = 0
    MaxLosses = 1
    ConnectMaxAttempts = 2

SPECIFICATION FairFlowSpec
PROPERTIES ReadyWorkerConsumes
