CONSTANTS
    Roles <- MCRoles
    TeamRoles <- MCTeamRoles
    Permissions <- MCPermissions
    Descriptions <- MCDescriptions
    Fresh = ""
    There = "there"
    Values <- MCValues
    Specs <- MCSpecs
    Unmanaged = "unmanaged"
    Nothing = Nothing
    MaxGen = 2
    MaxDisturbances = 1
SPECIFICATION FairSpec
INVARIANT ReadyIsEarned
PROPERTIES RemovalIsRight SettingConverges DeletionCompletes
CHECK_DEADLOCK FALSE
