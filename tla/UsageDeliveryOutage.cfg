SPECIFICATION FairSpec
CONSTANTS
    MaxSeq = 1
    MaxOutbox = 2
    Window = 4
    MaxClock = 1
    MaxFaults = 0
PROPERTY Delivered
