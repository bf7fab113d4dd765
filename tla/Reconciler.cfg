SPECIFICATION FairSpec
CONSTANTS
    Content <- MCContent
    Nothing = "off"
    Vacant <- MCVacant
    Serving <- MCServing
    Forced <- MCForced
    Timed <- MCTimed
    Link <- MCLink
    Setting <- MCSetting
    FabricOf <- MCFabricOf
    Class <- MCClass
    TcOf <- MCTcOf
    Counter <- MCCounter
    CounterOf <- MCCounterOf
    MaxGen = 3
    MaxClock = 1
    MaxFaults = 2
INVARIANT TypeOK
INVARIANT RecordValid
INVARIANT KernelKnown
INVARIANT ImplementsDurable
INVARIANT ForceCleared
PROPERTY ImplementsRecord
PROPERTY Convergence
