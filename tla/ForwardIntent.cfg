SPECIFICATION Spec
CONSTANTS
    Node = {"a", "b"}
    Forward = {1, 2}
    Ingress <- MCIngress
    Placed <- MCPlaced
    Tenanted = {1, 2}
    Expires <- MCExpires
    Allowances <- MCAllowances
    Scenarios <- MCScenarios
    User = {"u", "v"}
    Worker = "worker"
CHECK_DEADLOCK FALSE
PROPERTY NoLostEdit
PROPERTY FlowsCleared
PROPERTY Enforced
PROPERTY DeletionCompletes
