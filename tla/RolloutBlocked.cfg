SPECIFICATION Spec
CONSTANTS
    Node = {"a", "b", "c"}
    NoNode = "direct"
    Forward = {"f", "g"}
    Listen = {1, 2}
    Port = {1, 2}
    CanaryPercent = 100
    Scenarios <- MCBlocked
    MaxRollouts = 1
    MaxErrors = 0
CHECK_DEADLOCK FALSE
INVARIANT ActivePlanPublished
