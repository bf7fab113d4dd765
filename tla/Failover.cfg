SPECIFICATION Spec
CONSTANTS
    Node = {1, 2, 3}
    Forward = {1, 2}
    Backend = {1, 2}
    Domain <- MCDomain
    Linked <- MCLinked
    MaxForwards <- MCMaxForwards
    Bandwidth <- MCBandwidth
    Reservation <- MCReservation
    FailureThreshold = 2
    SuccessThreshold = 2
    StaleAfter = 2
    Address = {1, 2}
    Saved = 1
    Scenarios <- MCScenarios
PROPERTY Undisturbed
PROPERTY FailsOver
PROPERTY Settles
PROPERTY TargetsComply
