SPECIFICATION FairSpec
CONSTANTS
    Content <- MCContent
    Nothing = "off"
    Vacant <- MCVacant
    Serving <- MCServing
    Forced <- MCForced
    Timed <- MCTimed
    Link <- MCLink
    Setting <- MCSetting
    FabricOf <- MCFabricOf
    Class <- MCClass
    TcOf <- MCTcOf
    Counter <- MCCounter
    CounterOf <- MCCounterOf
    MaxGen = 2
    MaxClock = 0
    MaxFaults = 1
PROPERTY LastKnownGoodReturns
