CONSTANTS
    Controllers = {w1, w2}
    Credentials = {k1, k2}
    Nobody = Nobody
    Lifetimes <- MCLifetimes
    Margin = 1
    MaxTime = 4
    MaxFailures = 2
SPECIFICATION FairTokenSpec
INVARIANTS TokenTypeOK TokenOfCredentials
PROPERTIES NoTokenWasted EverybodyIsServed
