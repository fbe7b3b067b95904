SPECIFICATION FairSpec
CONSTANTS
    Machines = {m1, m2}
    Online = {m1}
    Keys = {k1}
    MaxGrace = 1
    MaxLife = 2
    MaxCalls = 2
    MaxEvents = 1
    None = None
INVARIANTS TypeOK LeaseBacked DecisionsStand
PROPERTIES NewestKept Follows
