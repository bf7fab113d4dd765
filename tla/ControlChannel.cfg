SPECIFICATION FairSpec
CONSTANTS
    Content <- MCContent
    Forced <- MCForced
    Cleaned <- MCCleaned
    MaxGen = 3
    MaxUplink = 2
    MaxFaults = 1
INVARIANT ControllerNotAhead
INVARIANT SnapshotsAcceptable
INVARIANT NeverDataLoss
INVARIANT CleanupFollowsForced
PROPERTY SessionAdvances
PROPERTY Learned
