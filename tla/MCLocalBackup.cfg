SPECIFICATION Spec
CONSTANTS
    MaxBackups = 2
    LocalKeep = 1
    ExternalKeep = 2
    MaxFaults = 2
INVARIANTS TypeOK CopiesTracked
PROPERTIES KeepsPromise Copied
