SPECIFICATION Spec
CONSTANTS
    MaxRelease = 3
    MaxCrashes = 2
    Down = Down
    Missing = Missing
INVARIANTS RollbackReady HandoffBacked
PROPERTIES RunsInstalled ComesBack
