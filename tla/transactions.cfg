\* A payment, a crash, two lost connections, and a worker that stops and starts.
CONSTANTS
    p1 = p1
    None = None
    Payments = {p1}
    MaxCrashes = 1
    MaxLosses = 2
    ConnectMaxAttempts = 2

SPECIFICATION FairFlowSpec
INVARIANTS TypeOK AcceptedIsKept ConnectionTypeOK OneConnect ConnectedIsLive NeverAbandoned ConsumingIsReady
PROPERTIES EventsDrain KeepsHistory Reconnects ShutdownEnds
