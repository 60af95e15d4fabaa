CONSTANTS
    Specs <- MCSpecs
    Nothing = Nothing
    MaxGen = 1
    MaxDisturbances = 0
SPECIFICATION FairSpec
PROPERTY EmptyListClears
CHECK_DEADLOCK FALSE
