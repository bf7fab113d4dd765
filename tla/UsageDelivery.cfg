SPECIFICATION FairSpec
CONSTANTS
    MaxSeq = 4
    MaxOutbox = 3
    Window = 5
    MaxClock = 1
    MaxFaults = 2
INVARIANT TypeOK
INVARIANT AckCoversPrefix
PROPERTY ImplementsLedger
PROPERTY DeliveredInTime
