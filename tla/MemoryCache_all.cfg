SPECIFICATION FairSpec
CONSTANTS
    c1 = c1
    c2 = c2
    q1 = q1
    q2 = q2
    v1 = v1
    none = none
    NoCaller = NoCaller
    NoKey = NoKey
    Nothing = Nothing
    Failed = Failed
    Cancelled = Cancelled
    Values <- MCValues
    Missing = none
    TTL = 2
    MissingTTL = 1
    MaxEntries = 1
    Callers <- MCTwoCallers
    Keys <- MCKeys
    MaxTick = 3
INVARIANT TypeOK
PROPERTIES AnswersFresh ImplementsSingleFlight EveryCallEnds
