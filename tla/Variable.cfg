CONSTANTS
    Specs <- MCSpecs
    Visibilities <- MCVisibilities
    Values = {v1, v2}
    Foreign = Foreign
    Nothing = Nothing
    MaxGen = 2
    MaxDisturbances = 1
    MaxRotations = 1
SPECIFICATION FairSpec
INVARIANTS TypeOK ReadyIsEarned
PROPERTY RotationArrives
CHECK_DEADLOCK FALSE
