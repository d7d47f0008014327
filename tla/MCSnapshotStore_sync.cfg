CONSTANTS
    Snapshots <- MCSnapshots
    NoSnapshot = NoSnapshot
    SyncMayFail = TRUE
    MaxSaves = 3
    MaxCrashes = 3
SPECIFICATION Spec
INVARIANTS
    SavedRecovered
CHECK_DEADLOCK FALSE
