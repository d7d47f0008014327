CONSTANTS
    Snapshots <- MCSnapshots
    NoSnapshot = NoSnapshot
    SyncMayFail = FALSE
    MaxSaves = 3
    MaxCrashes = 3
SPECIFICATION Spec
INVARIANTS
    TypeOK
    SavedRecovered
CHECK_DEADLOCK FALSE
