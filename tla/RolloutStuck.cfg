SPECIFICATION Spec
CONSTANTS
    Node = {"a", "b", "c"}
    NoNode = "direct"
    Forward = {"f", "g"}
    Listen = {1, 2}
    Port = {1, 2}
    CanaryPercent = 100
    Scenarios <- MCStuck
    MaxRollouts = 1
    MaxErrors = 1
CHECK_DEADLOCK FALSE
PROPERTY RolloutSettles
