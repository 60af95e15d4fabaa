CONSTANTS
    Values <- MCValues
    Default = "v1"
    Unmanaged = "none"
    Specs <- MCSpecs
    Foreign = {TRUE, FALSE}
    MaxUid = 2
    MaxGen = 2
    MaxDisturbances = 1
SPECIFICATION MCSpec
INVARIANTS TypeOK ReadyIsEarned NoOrphanedRepository
PROPERTIES FinalizerHonoursPolicy ImplementsContract Converges DeletionCompletes SuspensionSettles
CHECK_DEADLOCK FALSE
