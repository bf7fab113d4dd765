CONSTANTS
    h1 = h1
    h2 = h2
    t1 = t1
    t2 = t2
    Hosts = {h1, h2}
    Tokens = {t1, t2}
    MaxKeys = 2
    NodeHost = h1
    Requests <- MCRequests
    OutboundSlots = 1
    MaxStreams = 2
    Cases <- MCCases
SPECIFICATION Spec
INVARIANT AtMostOneKey
INVARIANT KeyHeld
INVARIANT Commandable
INVARIANT AcksAwaited
INVARIANT RemovedIsRevoked
INVARIANT UpgradedRuns
PROPERTY NeverReadmitted
PROPERTY RemovedUnused
PROPERTY BusyEnds
CHECK_DEADLOCK FALSE
