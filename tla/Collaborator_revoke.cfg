CONSTANTS
    Specs <- MCPermissions
    Nothing = Nothing
    MaxGen = 2
    MaxDisturbances = 0
    MaxInvitations = 1
SPECIFICATION Spec
PROPERTY RevokeRemovesAccess
CHECK_DEADLOCK FALSE
