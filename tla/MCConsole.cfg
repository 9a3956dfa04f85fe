SPECIFICATION Spec
CONSTANTS
    Slugs <- AskedSlugs
    Creators = {c1, c2}
    Owners = {o1, o2}
    SecretsKey = TRUE
    MinSuspiciousPosts = 1
    MaxIds = 2
    MaxChanges = 2
    MaxConfigFaults = 1
    MaxId = 3
    Limit = 1
    ExportMax = 2
    Bodies = {"inline", "blob", "lost_blob", "large"}
    MaxInstant = 1
    MaxPages = 4
    MaxBrowseFaults = 1
SYMMETRY Symmetry
INVARIANTS
    TypeOK
    AlertedWasFlagged
    PagesComplete
    ExportAsDeclared
    ToldReplayIsStored
    OnlyFitIsSent
PROPERTIES
    SettingsSurvive
    NeverTakenOver
CHECK_DEADLOCK FALSE
