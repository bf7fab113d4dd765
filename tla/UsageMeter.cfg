SPECIFICATION Spec
CONSTANTS
    MaxGen = 3
    Metered <- MCMetered
    MaxBytes = 5
    MaxFaults = 2
INVARIANT NoOverbilling
INVARIANT NoUnderbilling
