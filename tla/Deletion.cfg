CONSTANTS
    team = team
    repository = repository
    foreign = foreign
    Provider = provider
    Teams = {team}
    Memberships = {m1}
    Repositories = {repository, foreign}
    Rulesets = {s1}
    Actions = {a1}
    TeamOf <- MCTeamOf
    RepositoryOf <- MCRepositoryOf
    Own <- MCOwn
    MaxDisturbances = 1
SPECIFICATION MCSpec
INVARIANT TypeOK
PROPERTIES UsersProtect CleanupPrecedesRelease DeletionEnds
CHECK_DEADLOCK FALSE
