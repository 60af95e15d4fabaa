CONSTANTS
    Specs <- MCSpecs
    Nothing = Nothing
    MaxGen = 2
    MaxDisturbances = 1
SPECIFICATION FairSpec
INVARIANTS ReadyIsEarned OneRulesetOfOurs
PROPERTIES NothingLeftBehind NeverAmbiguous RulesetConverges DeletionCompletes
CHECK_DEADLOCK FALSE
