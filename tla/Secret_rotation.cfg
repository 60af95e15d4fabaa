CONSTANTS
    Specs <- MCSpec
    Visibilities <- MCVisibility
    v1 = v1
    Values = {v1, v2}
    Foreign = Foreign
    Nothing = Nothing
    MaxGen = 1
    MaxDisturbances = 1
    MaxRotations = 1
SPECIFICATION FairSpec
PROPERTY RotationArrives
CHECK_DEADLOCK FALSE
