SPECIFICATION FairSpec
CONSTANTS
    N = 3
    MaxCrashes = 2
    MaxFaults = 3
    Essential <- MCEssential
    Probed <- MCProbed
INVARIANT EndsInOrder
PROPERTY Recovers
CHECK_DEADLOCK FALSE
