CONSTANTS
    NumSpecial = 5
    Lazy = {2, 3}
    PluginRaises = TRUE
    UmountBusy = TRUE
SPECIFICATION LiveSpec
INVARIANTS
    TypeOK
    UploadExclusive
    SettledStage
    ServicesStopped
    CleanDeath
    ServedDiskIsMounted
PROPERTIES
    LeaseSpec
    SessionEnds
