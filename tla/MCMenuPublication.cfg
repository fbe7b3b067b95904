SPECIFICATION Spec
CONSTANTS
    e1 = e1
    e2 = e2
    Edits = {e1, e2}
    Workers = {w1}
    MaxVersion = 2
    MaxAttempts = 2
    Batch = 1
    Installations <- McInstallations
    MaxToggles = 1
    Prior = Prior
    Nobody = Nobody
INVARIANTS SettledRows PublicationCarriesEdits
PROPERTIES DisabledStaysHidden ShowsPublished Delivered
CHECK_DEADLOCK FALSE
