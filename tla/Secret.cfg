CONSTANTS
    Specs <- MCSpecs
    Visibilities <- MCVisibility
    v1 = v1
    Values = {v1, v2}
    Foreign = Foreign
    Nothing = Nothing
    MaxGen = 2
    MaxDisturbances = 1
    MaxRotations = 1
SPECIFICATION MCFairSpec
INVARIANT VouchedIsRight
PROPERTIES ImplementsContract RotationArrivesUnlessMissed
CHECK_DEADLOCK FALSE
