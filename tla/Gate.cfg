CONSTANTS
    Workers = {w1, w2}
    Delays <- MCDelays
    MaxLimits = 3
SPECIFICATION FairGateSpec
INVARIANT GateTypeOK
PROPERTIES PassesAfterLimits OneOverrunEach EverybodyGetsThrough
