CONSTANTS
    Specs <- MCPermissions
    Nothing = Nothing
    MaxGen = 2
    MaxDisturbances = 1
    MaxInvitations = 2
SPECIFICATION FairSpec
INVARIANT ReadyIsAccess
PROPERTIES RevokeUnlessInvited AccessConverges RevocationCompletes
CHECK_DEADLOCK FALSE
